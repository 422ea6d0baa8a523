CONSTANTS
  owner = owner
  u1 = u1
  u2 = u2
  i1 = i1
  i2 = i2
  r1 = r1
  r2 = r2
  None = None
  Users <- MCUsers
  Owner <- owner
  Invites <- MCInvites
  Requests <- MCRequests
  Roles <- MCRoles
SPECIFICATION Spec
SYMMETRY Symmetry
INVARIANTS TypeOK OwnerStays MembersWereInvited
