------------------------------- MODULE MCTeam -------------------------------
(* Instances of Team for TLC.                                              *)
EXTENDS Team, TLC

CONSTANTS owner, u1, u2, i1, i2, r1, r2

MCUsers == {owner, u1, u2}
MCInvites == {i1, i2}
MCRequests == {r1, r2}
MCRoles == {"ADMIN", "MEMBER"}

\* People other than the owner, invitations and requests are interchangeable.
Symmetry ==
  Permutations({u1, u2}) \cup Permutations(MCInvites) \cup Permutations(MCRequests)
=============================================================================
