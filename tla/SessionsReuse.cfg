CONSTANTS
  u1 = u1
  s1 = s1
  s2 = s2
  t1 = t1
  t2 = t2
  t3 = t3
  r1 = r1
  r2 = r2
  None = None
  Users <- MCUsers
  Sessions <- OneSession
  Tokens <- TwoTokens
  Requests <- MCRequests
  Sliding = 2
  Absolute = 3
  MaxClock = 3
SPECIFICATION Spec
PROPERTIES ReuseRevokesSession
