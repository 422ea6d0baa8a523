CONSTANTS
  f1 = f1
  f2 = f2
  k1 = k1
  k2 = k2
  admin = admin
  member = member
  r1 = r1
  r2 = r2
  None = None
  Files <- MCFiles
  Comments <- MCComments
  Users <- MCUsers
  Admins <- MCAdmins
  Me <- member
  Requests <- MCRequests
SPECIFICATION PageSpec
SYMMETRY Symmetry
INVARIANTS TypeOK FilesMatchRows AuditTellsRows PageKeepsUp
