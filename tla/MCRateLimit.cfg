CONSTANTS
  i1 = i1
  i2 = i2
  u1 = u1
  a1 = a1
  Org = Org
  Redis = Redis
  Instances <- MCInstances
  Users <- MCUsers
  Addresses <- MCAddresses
  UserLimit = 1
  OrgLimit = 1
  AuthLimit = 2
  Window = 2
  MaxClock = 3
  MaxTries = 4
SPECIFICATION LimitSpec
SYMMETRY Symmetry
INVARIANTS AdmittedWithinLimit RefusalsAreEarned
CHECK_DEADLOCK FALSE
