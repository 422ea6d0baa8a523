---------------------------- MODULE MCRateLimit -----------------------------
(* A small instance of RateLimit for TLC: two instances, one user of the  *)
(* organization and one address.                                           *)
EXTENDS RateLimit, TLC

CONSTANTS i1, i2, u1, a1

MCInstances == {i1, i2}
MCUsers == {u1}
MCAddresses == {a1}
Symmetry == Permutations(MCInstances)
=============================================================================
