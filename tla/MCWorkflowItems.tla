--------------------------- MODULE MCWorkflowItems ---------------------------
(* Instances of WorkflowItems for TLC.                                     *)
EXTENDS WorkflowItems, TLC

CONSTANTS i1, u1, u2, r1, r2, new, closed

MCItems == {i1}
MCUsers == {u1, u2}
MCRequests == {r1, r2}
MCStatuses == {new, closed}

MCRoles == {"ADMIN", "MEMBER"}

\* Assignees, and requests, are interchangeable.
Symmetry == Permutations(MCUsers) \cup Permutations(MCRequests)
=============================================================================
