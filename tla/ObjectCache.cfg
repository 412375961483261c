CONSTANTS
  None = None
  a = a  b = b  c = c
  Builder = {a, b, c}
  Headers <- ThreeBuilds
  Regimes <- AllRegimes
SPECIFICATION CacheSpec
INVARIANTS Complete ObjectIsOwn
