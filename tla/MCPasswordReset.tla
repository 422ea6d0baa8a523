-------------------------- MODULE MCPasswordReset --------------------------
(* Instances of PasswordReset for TLC.                                     *)
EXTENDS PasswordReset, TLC

CONSTANTS o1, o2, s1, p1, p2, r1, r2

MCOtps == {o1, o2}
MCSessions == {s1}
MCPasswords == {p1, p2}
MCRequests == {r1, r2}
OneOtp == {o1}

\* Codes and requests are interchangeable; passwords are not (one is first).
Symmetry == Permutations(MCOtps) \cup Permutations(MCRequests)
=============================================================================
