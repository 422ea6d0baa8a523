---------------------------- MODULE RefreshChain ----------------------------
(***************************************************************************)
(* What the sessions promise their clients: at any time an open session    *)
(* has one live refresh token, a token is issued once and retired for      *)
(* good, a rotation trades the live token for a fresh one, and closing a   *)
(* session retires its token in the same step.  Nothing is said of how     *)
(* concurrent requests are kept apart.                                     *)
(***************************************************************************)
CONSTANTS Sessions, Tokens, None

VARIABLES live,    \* the live token of each open session, None otherwise
          opened,  \* sessions that were ever opened
          spent    \* tokens that were retired

vars == <<live, opened, spent>>

Issued == spent \cup {live[s] : s \in opened}

Init ==
  /\ live = [s \in Sessions |-> None]
  /\ opened = {}
  /\ spent = {}

Open(s, t) ==
  /\ s \notin opened
  /\ t \notin Issued
  /\ live' = [live EXCEPT ![s] = t]
  /\ opened' = opened \cup {s}
  /\ UNCHANGED spent

Rotate(s, t) ==
  /\ live[s] # None
  /\ t \notin Issued
  /\ live' = [live EXCEPT ![s] = t]
  /\ spent' = spent \cup {live[s]}
  /\ UNCHANGED opened

Close(S) ==
  /\ \A s \in S : live[s] # None
  /\ live' = [s \in Sessions |-> IF s \in S THEN None ELSE live[s]]
  /\ spent' = spent \cup {live[s] : s \in S}
  /\ UNCHANGED opened

Next ==
  \/ \E s \in Sessions, t \in Tokens : Open(s, t) \/ Rotate(s, t)
  \/ \E S \in SUBSET Sessions : Close(S)

Spec == Init /\ [][Next]_vars
=============================================================================
