----------------------------- MODULE AgentRuns ------------------------------
(***************************************************************************)
(* The assistant's runs for one user, and the private memory they leave:   *)
(* agent.service.ts over AgentRun, AgentMessage and AgentMemoryChunk rows  *)
(* in PostgreSQL and the points of a vector store that knows nothing of    *)
(* them.  Each step is one awaited call, nothing here is a transaction.    *)
(* The user may clear the conversation while a run is under way.  A        *)
(* statement that is reported to fail has had no effect.  The outcome of a *)
(* request goes out on its wire, a socket or an HTTP answer, if the client *)
(* is still there.                                                         *)
(***************************************************************************)
EXTENDS Integers

CONSTANTS Runs,      \* ids of AgentRun rows, of the chunk each leaves, and of its point
          Keys,      \* idempotency keys
          Requests,  \* agent runs and clearings in flight at the same time
          None,
          MaxSteps   \* MAX_TOOL_STEPS

ASSUME RunsAssumption ==
  /\ None \notin Runs \cup Keys
  /\ MaxSteps \in Nat

VARIABLES run,      \* AgentRun rows with their messages
          chunk,    \* runs that have an AgentMemoryChunk row
          point,    \* runs that have a point in the vector store
          effects,  \* ghost: tools that were executed for each run
          crossed,  \* ghost: runs whose memory was written during a clearing
          pc,
          call,     \* what each request was asked, and what it has read
          wire      \* what the client of each request has been told

rows == <<run, chunk, point, effects, crossed>>
vars == <<run, chunk, point, effects, crossed, pc, call, wire>>

Run == [status: {"ABSENT", "RUNNING", "SUCCEEDED", "FAILED", "DELETED"},
        key: Keys \cup {None}, user: BOOLEAN, tools: Nat, assistant: BOOLEAN]
NoRun == [status |-> "ABSENT", key |-> None, user |-> FALSE, tools |-> 0,
          assistant |-> FALSE]

Call == [key: Keys \cup {None}, run: Runs \cup {None}, step: 0..MaxSteps,
         targets: SUBSET Runs]
NoCall == [key |-> None, run |-> None, step |-> 0, targets |-> {}]

Clearing == {"clearFind", "clearPoints", "clearChunks", "clearRuns"}
Labels == {"idle", "lookup", "create", "user", "think", "tool", "record", "answer",
           "succeed", "remember", "upsert", "catch"} \cup Clearing

Outcomes == {"completed", "failed"}

Goto(r, label) == pc' = [pc EXCEPT ![r] = label]

At(r, label) == pc[r] = label
Continue(r, label) == Goto(r, label) /\ UNCHANGED <<call, wire>>

\* Without a connection nobody hears of it; a client hangs up after the first.
Emit(r, outcome) == wire' = [wire EXCEPT ![r] = IF @ = "open" THEN outcome ELSE @]

Return(r) ==
  /\ Goto(r, "idle")
  /\ call' = [call EXCEPT ![r] = NoCall]

Finish(r) == Return(r) /\ Emit(r, "completed")

\* (variant of Fail) the error is logged and nothing is answered
FailSilently(r) == Return(r) /\ UNCHANGED wire

\* An error leaves the service, and the gateway or the framework answers with it.
Fail(r) == Return(r) /\ Emit(r, "failed")

Stored(n) == run[n].status \in {"RUNNING", "SUCCEEDED", "FAILED"}

RunsOfKey(k) == {n \in Runs : Stored(n) /\ run[n].key = k}

Init ==
  /\ run = [n \in Runs |-> NoRun]
  /\ chunk = {}
  /\ point = {}
  /\ effects = [n \in Runs |-> 0]
  /\ crossed = {}
  /\ pc = [r \in Requests |-> "idle"]
  /\ call = [r \in Requests |-> NoCall]
  /\ wire = [r \in Requests |-> "closed"]

-----------------------------------------------------------------------------
(* run: the idempotency key, the row and the first message                 *)

\* connected: whether somebody waits for the outcome.
Begin(r, label, connected) ==
  /\ At(r, "idle")
  /\ wire[r] = "closed"
  /\ Goto(r, label)
  /\ wire' = [wire EXCEPT ![r] = IF connected THEN "open" ELSE "closed"]
  /\ UNCHANGED rows

Ask(r, k, connected) ==
  /\ Begin(r, "lookup", connected)
  /\ call' = [call EXCEPT ![r].key = k]

\* A known key is answered from its row, or refused while that is RUNNING.
LookUp(r) ==
  LET known == RunsOfKey(call[r].key)
  IN /\ At(r, "lookup")
     /\ \/ known = {} /\ Continue(r, "create")
        \/ (\E n \in known : run[n].status = "RUNNING") /\ Fail(r)
        \/ (\E n \in known : run[n].status # "RUNNING") /\ Finish(r)
     /\ UNCHANGED rows

\* (variant of Insertable) the look-up is trusted
InsertableAlways(k) == TRUE

\* The unique index on organization and idempotency key.
Insertable(k) == RunsOfKey(k) = {}

\* Ids are random; which of those not taken it is makes no difference.
FreshRuns == {n \in Runs : run[n].status = "ABSENT"}

CreateRun(r) ==
  LET k == call[r].key
  IN /\ At(r, "create")
     /\ \/ /\ Insertable(k)
           /\ FreshRuns # {}
           /\ LET n == CHOOSE n \in FreshRuns : TRUE
              IN /\ run' = [run EXCEPT ![n].status = "RUNNING", ![n].key = k]
                 /\ call' = [call EXCEPT ![r].run = n]
           /\ Goto(r, "user")
           /\ UNCHANGED wire
        \/ /\ ~Insertable(k) \/ FreshRuns = {}
           /\ Fail(r)
           /\ UNCHANGED run
     /\ UNCHANGED <<chunk, point, effects, crossed>>

\* A write about the run succeeds only while its row is there (an update by
\* id, or a foreign key); it may fail for other reasons, too.
SayUser(r) ==
  LET n == call[r].run
  IN /\ At(r, "user")
     /\ \/ /\ Stored(n)
           /\ run' = [run EXCEPT ![n].user = TRUE]
           /\ Continue(r, "think")
        \/ Fail(r) /\ UNCHANGED run
     /\ UNCHANGED <<chunk, point, effects, crossed>>

-----------------------------------------------------------------------------
(* The try block: its first calls and the loop.                            *)

\* (variant of MayStep) one tool too many
MayStepOnce(step) == step <= MaxSteps

MayStep(step) == step < MaxSteps

\* What the provider may decide: a tool, its answer, or an error.
Decisions(step) == {"answer", "catch"} \cup IF MayStep(step) THEN {"tool"} ELSE {}

Think(r) ==
  /\ At(r, "think")
  /\ \E next \in Decisions(call[r].step) : Continue(r, next)
  /\ UNCHANGED rows

\* The tool commits its own transaction, or throws and has done nothing.
UseTool(r) ==
  /\ At(r, "tool")
  /\ \/ /\ effects' = [effects EXCEPT ![call[r].run] = @ + 1]
        /\ Continue(r, "record")
     \/ Continue(r, "catch") /\ UNCHANGED effects
  /\ UNCHANGED <<run, chunk, point, crossed>>

\* (variant of RecordTool) a result that cannot be stored is ignored
RecordToolLoosely(r) ==
  LET n == call[r].run
  IN /\ At(r, "record")
     /\ \/ Stored(n) /\ run' = [run EXCEPT ![n].tools = @ + 1]
        \/ UNCHANGED run
     /\ call' = [call EXCEPT ![r].step = @ + 1]
     /\ Goto(r, "think")
     /\ UNCHANGED <<chunk, point, effects, crossed, wire>>

RecordTool(r) ==
  LET n == call[r].run
  IN /\ At(r, "record")
     /\ \/ /\ Stored(n)
           /\ run' = [run EXCEPT ![n].tools = @ + 1]
           /\ call' = [call EXCEPT ![r].step = @ + 1]
           /\ Goto(r, "think")
           /\ UNCHANGED wire
        \/ Continue(r, "catch") /\ UNCHANGED run
     /\ UNCHANGED <<chunk, point, effects, crossed>>

Answer(r) ==
  LET n == call[r].run
  IN /\ At(r, "answer")
     /\ \/ /\ Stored(n)
           /\ run' = [run EXCEPT ![n].assistant = TRUE]
           /\ Continue(r, "succeed")
        \/ Continue(r, "catch") /\ UNCHANGED run
     /\ UNCHANGED <<chunk, point, effects, crossed>>

Succeed(r) ==
  LET n == call[r].run
  IN /\ At(r, "succeed")
     /\ \/ /\ Stored(n)
           /\ run' = [run EXCEPT ![n].status = "SUCCEEDED"]
           /\ Continue(r, "remember")
        \/ Continue(r, "catch") /\ UNCHANGED run
     /\ UNCHANGED <<chunk, point, effects, crossed>>

\* The catch block; its own update may fail as well.
Catch(r) ==
  LET n == call[r].run
  IN /\ At(r, "catch")
     /\ \/ Stored(n) /\ run' = [run EXCEPT ![n].status = "FAILED"]
        \/ UNCHANGED run
     /\ Fail(r)
     /\ UNCHANGED <<chunk, point, effects, crossed>>

-----------------------------------------------------------------------------
(* remember: a row first, then the point; errors are logged and swallowed, *)
(* and the run has succeeded all the same.                                 *)

\* (variant of NotRemembered) the error reaches the catch block of the run
NotRememberedThrows(r) == Continue(r, "catch")

NotRemembered(r) == Finish(r)

\* Clearings that have read which chunks there are and not yet deleted them.
ClearingNow == \E q \in Requests : pc[q] \in {"clearPoints", "clearChunks"}

Remember(r) ==
  LET n == call[r].run
  IN /\ At(r, "remember")
     /\ \/ /\ Stored(n)
           /\ chunk' = chunk \cup {n}
           /\ crossed' = IF ClearingNow THEN crossed \cup {n} ELSE crossed
           /\ Continue(r, "upsert")
        \/ NotRemembered(r) /\ UNCHANGED <<chunk, crossed>>
     /\ UNCHANGED <<run, point, effects>>

Upsert(r) ==
  /\ At(r, "upsert")
  /\ \/ point' = point \cup {call[r].run} /\ Finish(r)
     \/ NotRemembered(r) /\ UNCHANGED point
  /\ UNCHANGED <<run, chunk, effects, crossed>>

-----------------------------------------------------------------------------
(* clearConversation, of every run of the user                             *)

Clear(r, connected) == Begin(r, "clearFind", connected) /\ UNCHANGED call

FindChunks(r) ==
  /\ At(r, "clearFind")
  /\ call' = [call EXCEPT ![r].targets = chunk]
  /\ crossed' = crossed \cup {call[q].run : q \in {q \in Requests : At(q, "upsert")}}
  /\ Goto(r, "clearPoints")
  /\ UNCHANGED <<run, chunk, point, effects, wire>>

\* (variant of DeletePoints) a store that does not answer is passed over
DeletePointsIfItCan(r) ==
  /\ At(r, "clearPoints")
  /\ point' \in {point, point \ call[r].targets}
  /\ Continue(r, "clearChunks")
  /\ UNCHANGED <<run, chunk, effects, crossed>>

DeletePoints(r) ==
  /\ At(r, "clearPoints")
  /\ point' = point \ call[r].targets
  /\ Continue(r, "clearChunks")
  /\ UNCHANGED <<run, chunk, effects, crossed>>

DeleteChunks(r) ==
  /\ At(r, "clearChunks")
  /\ chunk' = {}
  /\ Continue(r, "clearRuns")
  /\ UNCHANGED <<run, point, effects, crossed>>

\* The messages go with the run; a chunk outlives it.
Erased(n) == [NoRun EXCEPT !.status = "DELETED", !.key = run[n].key]

DeleteRuns(r) ==
  /\ At(r, "clearRuns")
  /\ run' = [n \in Runs |-> IF Stored(n) THEN Erased(n) ELSE run[n]]
  /\ Finish(r)
  /\ UNCHANGED <<chunk, point, effects, crossed>>

-----------------------------------------------------------------------------
\* Outside the try block: the gateway or a guard refuses the request, a read
\* or the vector store fails, the workspace or the item is not there.
Throw(r) ==
  /\ pc[r] \in {"lookup", "create"} \cup Clearing
  /\ Fail(r)
  /\ UNCHANGED rows

\* The instance stops: what the request has written stays, its connection ends.
Crash(r) ==
  /\ ~At(r, "idle")
  /\ Return(r)
  /\ wire' = [wire EXCEPT ![r] = "closed"]
  /\ UNCHANGED rows

\* The client has taken its outcome, has gone, or the connection is lost.
Disconnect(r) ==
  /\ wire[r] # "closed"
  /\ wire' = [wire EXCEPT ![r] = "closed"]
  /\ UNCHANGED <<rows, pc, call>>

Proceed(r) ==
  \/ LookUp(r) \/ CreateRun(r) \/ SayUser(r)
  \/ Think(r) \/ UseTool(r) \/ RecordTool(r) \/ Answer(r) \/ Succeed(r) \/ Catch(r)
  \/ Remember(r) \/ Upsert(r)
  \/ FindChunks(r) \/ DeletePoints(r) \/ DeleteChunks(r) \/ DeleteRuns(r)
  \/ Throw(r)

Next ==
  \E r \in Requests :
    \/ \E connected \in BOOLEAN :
         (\E k \in Keys : Ask(r, k, connected)) \/ Clear(r, connected)
    \/ Proceed(r)
    \/ Crash(r)
    \/ Disconnect(r)

Spec == Init /\ [][Next]_vars

-----------------------------------------------------------------------------
(* Properties                                                              *)

(* Rows and requests keep their shape, no run executes more tools than     *)
(* MAX_TOOL_STEPS, and no message outlives its run.                        *)
TypeOK ==
  /\ run \in [Runs -> Run]
  /\ \A n \in Runs : ~Stored(n) => ~run[n].user /\ run[n].tools = 0 /\ ~run[n].assistant
  /\ chunk \subseteq Runs
  /\ point \subseteq Runs
  /\ effects \in [Runs -> 0..MaxSteps]
  /\ crossed \subseteq Runs
  /\ pc \in [Requests -> Labels]
  /\ call \in [Requests -> Call]
  /\ wire \in [Requests -> {"closed", "open"} \cup Outcomes]

(* A run that SUCCEEDED has its question, its answer and one message for   *)
(* every tool that was executed: no lost write is papered over.            *)
SuccessIsRecorded ==
  \A n \in Runs : run[n].status = "SUCCEEDED" =>
    run[n].user /\ run[n].assistant /\ run[n].tools = effects[n]

(* A text in the vector store has a row, by which the next clearing will   *)
(* find it, although calls fail between the two and a clearing may stop    *)
(* half-way: only a run remembered during a clearing is left behind.       *)
PointsAreFindable == point \subseteq chunk \cup crossed

(* However requests with one key overlap, are retried, fail, die and are   *)
(* cleared, the runs are those of an idempotent service: one run of a key  *)
(* at a time, no tool after the end, and an end that is final although the *)
(* memory is written inside the try block whose catch marks the run FAILED.*)
Promise == INSTANCE IdempotentRuns
  WITH status <- [n \in Runs |-> run[n].status],
       key <- [n \in Runs |-> run[n].key],
       work <- effects

ImplementsIdempotentRuns == Promise!Spec
=============================================================================
