CONSTANTS
  b1 = b1
  b2 = b2
  k1 = k1
  k2 = k2
  s1 = s1
  s2 = s2
  t1 = t1
  t2 = t2
  t3 = t3
  None = None
  Tabs <- MCTabs
  Calls <- MCCalls
  Sessions <- MCSessions
  Tokens <- MCTokens
SPECIFICATION WebSpec
SYMMETRY Symmetry
INVARIANTS NobodyWaitsInVain AtMostOneEffect NoSelfRefusal
PROPERTY SignedOutStaysOut
