----------------------------- MODULE AgentChat ------------------------------
(***************************************************************************)
(* The assistant's drawer in the browser (agent-drawer.tsx) over the runs  *)
(* of AgentRuns.  A drawer is mounted and unmounted, loads the stored      *)
(* conversation, sends a question over a socket of its own with a key of   *)
(* its own, and clears the conversation.  Other clients of the user ask    *)
(* with the keys in ApiKeys, as often as they like.                        *)
(* The page agent/page.tsx sends in the same way, without the rest.        *)
(***************************************************************************)
EXTENDS AgentRuns

CONSTANTS Drawers,  \* drawers on display
          ApiKeys   \* keys that callers of the REST interface choose

ASSUME ChatAssumption ==
  /\ ApiKeys \subseteq Keys
  /\ None \notin Requests

VARIABLES asked,   \* the key of the question under way (loading)
          socket,  \* the request behind the socket, None once nobody answers
          erasing  \* the request behind "New chat" (clearingConversation)

drawer == <<asked, socket, erasing>>
chat == <<vars, drawer>>

\* Requests no drawer waits for.
Unclaimed(r) == \A d \in Drawers : socket[d] # r /\ erasing[d] # r

ChatInit ==
  /\ Init
  /\ asked = [d \in Drawers |-> None]
  /\ socket = [d \in Drawers |-> None]
  /\ erasing = [d \in Drawers |-> None]

-----------------------------------------------------------------------------
\* The component is unmounted: its state is gone, what was under way goes on
\* unheard, and a drawer that is opened later begins with nothing under way.
Close(d) ==
  /\ asked[d] # None \/ erasing[d] # None
  /\ asked' = [asked EXCEPT ![d] = None]
  /\ socket' = [socket EXCEPT ![d] = None]
  /\ erasing' = [erasing EXCEPT ![d] = None]
  /\ wire' = [r \in Requests |-> IF r \in {socket[d], erasing[d]} THEN "closed" ELSE wire[r]]
  /\ UNCHANGED <<rows, pc, call>>

-----------------------------------------------------------------------------
(* send                                                                    *)

\* crypto.randomUUID(): a key that no row, no request and no drawer knows
FreshKeys ==
  Keys \ UNION {ApiKeys, {run[n].key : n \in Runs}, {call[r].key : r \in Requests},
                {asked[d] : d \in Drawers}}

\* A question may be sent while the conversation is being cleared.
Send(d, r) ==
  LET k == CHOOSE k \in FreshKeys : TRUE
  IN /\ asked[d] = None
     /\ FreshKeys # {}
     /\ Unclaimed(r)
     /\ Ask(r, k, TRUE)
     /\ asked' = [asked EXCEPT ![d] = k]
     /\ socket' = [socket EXCEPT ![d] = r]
     /\ UNCHANGED erasing

EndSend(d) ==
  /\ asked' = [asked EXCEPT ![d] = None]
  /\ socket' = [socket EXCEPT ![d] = None]
  /\ UNCHANGED erasing

\* run.completed or run.failed: cleanup disconnects, the promise settles
HearOutcome(d) ==
  /\ socket[d] # None
  /\ wire[socket[d]] \in Outcomes
  /\ Disconnect(socket[d])
  /\ EndSend(d)

\* The connection is lost.  The client connects again, to a socket on which
\* nothing will ever come, and may go on like that for ever ...
LoseConnection(d) ==
  /\ socket[d] # None
  /\ wire' = [wire EXCEPT ![socket[d]] = "closed"]
  /\ socket' = [socket EXCEPT ![d] = None]
  /\ UNCHANGED <<rows, pc, call, asked, erasing>>

\* ... or fails to connect, which it reports.
ConnectError(d) ==
  /\ asked[d] # None
  /\ socket[d] = None
  /\ EndSend(d)
  /\ UNCHANGED vars

-----------------------------------------------------------------------------
(* startNewChat                                                            *)

NewChat(d, r) ==
  /\ asked[d] = None /\ erasing[d] = None
  /\ Unclaimed(r)
  /\ Clear(r, TRUE)
  /\ erasing' = [erasing EXCEPT ![d] = r]
  /\ UNCHANGED <<asked, socket>>

ChatCleared(d) ==
  /\ erasing[d] # None
  /\ wire[erasing[d]] # "open"
  /\ wire' = [wire EXCEPT ![erasing[d]] = "closed"]
  /\ erasing' = [erasing EXCEPT ![d] = None]
  /\ UNCHANGED <<rows, pc, call, asked, socket>>

-----------------------------------------------------------------------------
\* A run that dies takes its socket with it.
CrashHere(r) ==
  /\ Crash(r)
  /\ socket' = [d \in Drawers |-> IF socket[d] = r THEN None ELSE socket[d]]
  /\ UNCHANGED <<asked, erasing>>

Other(r) ==
  /\ Unclaimed(r)
  /\ \E k \in ApiKeys : Ask(r, k, FALSE)
  /\ UNCHANGED drawer

Serve(r) == Proceed(r) /\ UNCHANGED drawer

Drawer(d) ==
  \/ Close(d)
  \/ \E r \in Requests : NewChat(d, r) \/ Send(d, r)
  \/ HearOutcome(d) \/ LoseConnection(d) \/ ConnectError(d) \/ ChatCleared(d)

ChatNext ==
  \/ \E r \in Requests : Other(r) \/ Serve(r) \/ CrashHere(r)
  \/ \E d \in Drawers : Drawer(d)

\* Awaited calls return, and what is on a wire arrives.  Nothing makes a
\* user act, an instance live on or a connection last.
ChatSpec ==
  /\ ChatInit /\ [][ChatNext]_chat
  /\ \A r \in Requests : WF_chat(Serve(r))
  /\ \A d \in Drawers : WF_chat(HearOutcome(d)) /\ WF_chat(ChatCleared(d))

-----------------------------------------------------------------------------
(* Properties                                                              *)

(* Rows, requests and drawers keep their shape.                            *)
ChatTypeOK ==
  /\ TypeOK
  /\ asked \in [Drawers -> Keys \cup {None}]
  /\ socket \in [Drawers -> Requests \cup {None}]
  /\ erasing \in [Drawers -> Requests \cup {None}]

(* What a drawer is about to be told of its question is so: "completed"    *)
(* only if its run has succeeded (it may have been cleared since), and     *)
(* "failed" never of one that has.                                         *)
OutcomesAgree ==
  \A d \in Drawers : socket[d] # None =>
    LET fate == {run[n].status : n \in {n \in Runs : run[n].key = asked[d]}}
    IN /\ wire[socket[d]] = "completed" => fate \cap {"SUCCEEDED", "DELETED"} # {}
       /\ wire[socket[d]] = "failed" => "SUCCEEDED" \notin fate

(* A drawer that has sent a question does not wait for ever, whatever goes *)
(* wrong in the service, as long as its connection lasts.                  *)
SendsEnd ==
  \A d \in Drawers : asked[d] # None ~> asked[d] = None \/ socket[d] = None
=============================================================================
