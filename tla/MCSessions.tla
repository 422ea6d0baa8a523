----------------------------- MODULE MCSessions -----------------------------
(* A small instance of Sessions for TLC: one account, two sessions, three  *)
(* refresh tokens and two requests in flight.                              *)
EXTENDS Sessions, TLC

CONSTANTS u1, s1, s2, t1, t2, t3, r1, r2

MCUsers == {u1}
MCSessions == {s1, s2}
MCTokens == {t1, t2, t3}
(* The smaller instance of the reuse run.                                  *)
OneSession == {s1}
TwoTokens == {t1, t2}
MCRequests == {r1, r2}
Symmetry == Permutations(MCSessions) \cup Permutations(MCTokens) \cup Permutations(MCRequests)
=============================================================================
