CONSTANTS
  i1 = i1
  u1 = u1
  u2 = u2
  r1 = r1
  r2 = r2
  new = new
  closed = closed
  None = None
  Keep = Keep
  Items <- MCItems
  Users <- MCUsers
  Requests <- MCRequests
  Roles <- MCRoles
  Statuses <- MCStatuses
  Initial <- new
  Closed <- closed
  Deadlines = {1}
  Horizon = 1
  MaxClock = 1
SPECIFICATION Spec
SYMMETRY Symmetry
INVARIANTS HistoryEndsAtRow OwnerWasTold OneReminderPerDeadline
