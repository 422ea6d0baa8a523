----------------------------- MODULE MCWebClient ----------------------------
(* A small instance of WebClient for TLC: two tabs, two page actions in    *)
(* flight, two logins and three refresh tokens.                            *)
EXTENDS WebClient, TLC

CONSTANTS b1, b2, k1, k2, s1, s2, t1, t2, t3

MCTabs == {b1, b2}
MCCalls == {k1, k2}
MCSessions == {s1, s2}
MCTokens == {t1, t2, t3}
Symmetry == Permutations(MCTabs) \cup Permutations(MCCalls)
              \cup Permutations(MCSessions) \cup Permutations(MCTokens)
=============================================================================
