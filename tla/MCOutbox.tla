------------------------------ MODULE MCOutbox ------------------------------
(* An instance of Outbox for TLC.                                          *)
EXTENDS Outbox

CONSTANTS c1, c2
MCCycles == {c1, c2}
=============================================================================
