CONSTANTS
  a = a  b = b  c = c
  d = d  e = e  Worker = {d, e}
  None = None
  Invocation = {a, b, c}
  Scenes <- Sound
SPECIFICATION FairSpec
INVARIANTS TypeOK BuildMutex NoStaleLock
PROPERTY LockIsGranted
