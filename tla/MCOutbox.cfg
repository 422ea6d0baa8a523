CONSTANTS
  c1 = c1
  c2 = c2
  NumEvents = 2
  Cycles <- MCCycles
  Take = 1
  MailEnabled = TRUE
  MaxClock = 3
  MaxCrashes = 1
SPECIFICATION FairSpec
INVARIANTS TypeOK OneHolder
PROPERTIES ImplementsDelivery EventsMoveOn
CHECK_DEADLOCK FALSE
