SPECIFICATION LockSpec
CONSTANTS
  Declaration <- Moving
  Overlap <- Apart
  MaxCommit = 2
  MaxMoves = 1
  C_MAX_DEPS = 3
  C_CACHE_CLEANUP_MAX_DEPS = 2
  None = None
  lib = lib art = art u1 = u1 v1 = v1 v2 = v2
INVARIANTS SoundStaysLive ReadyAfterSuccess
PROPERTY PinsKept
