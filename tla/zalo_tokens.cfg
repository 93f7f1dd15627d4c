SPECIFICATION FairSpec
CONSTANTS
  s1 = s1
  s2 = s2
  d1 = d1
  d2 = d2
  Servers = {s1, s2}
  Calls = {d1, d2, v1}
  Checks = {v1}
  ServerOf <- MCServerOf
  NoCall = NoCall
  MaxAged = 1
  MaxMishaps = 1
INVARIANTS TypeOK LivePairIsKept MarkedForCause
PROPERTIES CallsEnd
CHECK_DEADLOCK FALSE
