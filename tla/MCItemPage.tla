----------------------------- MODULE MCItemPage -----------------------------
(* A small instance of ItemPage for TLC: two files, two comments, a member *)
(* in front of the page and an admin elsewhere, two requests in flight.    *)
EXTENDS ItemPage, TLC

CONSTANTS f1, f2, k1, k2, admin, member, r1, r2

MCFiles == {f1, f2}
MCComments == {k1, k2}
MCUsers == {admin, member}
MCAdmins == {admin}
MCRequests == {r1, r2}
Symmetry == Permutations(MCFiles) \cup Permutations(MCRequests) \cup Permutations(MCComments)
=============================================================================
