CONSTANTS
  n1 = n1
  n2 = n2
  k1 = k1
  a1 = a1
  r1 = r1
  r2 = r2
  d1 = d1
  None = None
  Runs <- MCRuns
  Keys <- MCKeys
  ApiKeys <- MCApiKeys
  Requests <- MCRequests
  Drawers <- MCDrawers
  MaxSteps = 1
SPECIFICATION ChatSpec
INVARIANTS ChatTypeOK SuccessIsRecorded PointsAreFindable OutcomesAgree
PROPERTIES ImplementsIdempotentRuns SendsEnd
