---------------------------- MODULE MCAgentChat -----------------------------
(* An instance of AgentChat for TLC.                                       *)
EXTENDS AgentChat

CONSTANTS n1, n2, k1, a1, r1, r2, d1

MCRuns == {n1, n2}
MCKeys == {k1, a1}
MCApiKeys == {a1}
MCRequests == {r1, r2}
MCDrawers == {d1}
=============================================================================
