CONSTANTS
  u1 = u1
  s1 = s1
  s2 = s2
  t1 = t1
  t2 = t2
  t3 = t3
  r1 = r1
  r2 = r2
  None = None
  Users <- MCUsers
  Sessions <- MCSessions
  Tokens <- MCTokens
  Requests <- MCRequests
  Sliding = 2
  Absolute = 3
  MaxClock = 3
SPECIFICATION Spec
SYMMETRY Symmetry
INVARIANTS TypeOK OneLiveToken AuthorisedWithinAbsolute
PROPERTIES RevocationIsComplete ImplementsChain
