CONSTANTS
  None = None
  s = s  h = h
  Source = s
  Header = {h}
  Contents = {1, 2}
  Includes <- SecondIncludes
  Modes <- AllModes
SPECIFICATION Spec
INVARIANTS TypeOK BuildIsCurrent CacheIsHonest HashIsHonest
