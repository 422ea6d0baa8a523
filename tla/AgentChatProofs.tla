-------------------------- MODULE AgentChatProofs ----------------------------
(***************************************************************************)
(* Safety of AgentRuns, with the drawers and callers of AgentChat, for any *)
(* number of runs, keys, requests, drawers and tool steps; and, in the     *)
(* last part, safety of the RateLimit that guards them, for any number of  *)
(* instances and keys and any limits.                                      *)
(***************************************************************************)
EXTENDS AgentChat, RateLimit, FiniteSetTheorems, TLAPS

-----------------------------------------------------------------------------
(* The inductive invariant.                                                *)

Trying == {"user", "think", "tool", "record", "answer", "succeed", "catch"}
Working == Trying \cup {"remember", "upsert"}

\* Where a request is with its run, and what it has recorded of it, if the
\* run has not been cleared meanwhile.
RunInv(r) ==
  LET n == call[r].run
      step == call[r].step
  IN /\ pc[r] \in Working => n \in Runs
     /\ pc[r] \in Trying => run[n].status \in {"RUNNING", "DELETED"}
     /\ pc[r] \in {"remember", "upsert"} => run[n].status \in {"SUCCEEDED", "DELETED"}
     /\ pc[r] \in Trying \ {"record", "catch"} => effects[n] = step
     /\ pc[r] = "tool" => step < MaxSteps
     /\ pc[r] = "record" => effects[n] = step + 1
     /\ pc[r] \in Trying \ {"catch"} /\ Stored(n) => run[n].tools = step
     /\ pc[r] \in Trying \ {"user", "catch"} /\ Stored(n) => run[n].user
     /\ pc[r] = "succeed" /\ Stored(n) => run[n].assistant

\* A request that has no run yet.
AskInv(r) ==
  /\ pc[r] \in {"idle", "lookup", "create"} => call[r].step = 0
  /\ pc[r] \in {"lookup", "create"} => call[r].key \in Keys

\* Every run is worked on by one request.
Alone ==
  \A q, r \in Requests :
    q # r /\ pc[q] \in Working /\ pc[r] \in Working => call[q].run # call[r].run

Unborn == \A n \in Runs : run[n].status = "ABSENT" => effects[n] = 0

\* What a clearing has still to delete, and what is being remembered.
MemoryInv(r) ==
  /\ pc[r] = "upsert" => call[r].run \in chunk \cup crossed
  /\ pc[r] = "upsert" /\ ClearingNow => call[r].run \in crossed
  /\ pc[r] = "clearPoints" => point \ crossed \subseteq call[r].targets
  /\ pc[r] = "clearChunks" => point \subseteq crossed

IInv ==
  /\ TypeOK
  /\ \A r \in Requests : RunInv(r) /\ AskInv(r) /\ MemoryInv(r)
  /\ Alone
  /\ Unborn
  /\ SuccessIsRecorded
  /\ PointsAreFindable

\* What a step shows of the promise.
Promised == [Promise!Next]_(Promise!promised)

-----------------------------------------------------------------------------
(* What most steps leave alone.                                            *)

LEMMA NoCallIsCall == NoCall \in Call /\ NoCall.step = 0 /\ "idle" \in Labels
BY RunsAssumption DEF NoCall, Call, Labels

LEMMA PromiseStutters ==
  ASSUME \A n \in Runs : run'[n].status = run[n].status /\ run'[n].key = run[n].key,
         effects' = effects
  PROVE  Promised
BY DEF Promised, Promise!promised

\* A step of a request on its own run.
LEMMA OthersStay ==
  ASSUME IInv, NEW r \in Requests, pc[r] \in Working,
         pc'[r] \in Working => call'[r].run = call[r].run,
         \A q \in Requests \ {r} : pc'[q] = pc[q] /\ call'[q] = call[q],
         \A n \in Runs : n # call[r].run => run'[n] = run[n] /\ effects'[n] = effects[n]
  PROVE  Alone' /\ \A q \in Requests \ {r} : RunInv(q)' /\ AskInv(q)'
<1>1. Alone'
  BY DEF IInv, Alone
<1>2. ASSUME NEW q \in Requests \ {r} PROVE RunInv(q)' /\ AskInv(q)'
  <2>1. RunInv(q) /\ AskInv(q) /\ pc'[q] = pc[q] /\ call'[q] = call[q]
    BY DEF IInv
  <2>2. pc[q] \in Working => /\ run'[call[q].run] = run[call[q].run]
                             /\ effects'[call[q].run] = effects[call[q].run]
    BY <2>1 DEF IInv, Alone, RunInv
  <2> QED
    BY <2>1, <2>2 DEF RunInv, AskInv, Stored, Working, Trying
<1> QED
  BY <1>1, <1>2

\* A step that has no part in the memory.
LEMMA MemoryStays ==
  ASSUME IInv, UNCHANGED <<chunk, point, crossed>>,
         \A q \in Requests : pc'[q] \in {"upsert", "clearPoints", "clearChunks"} =>
           pc'[q] = pc[q] /\ call'[q] = call[q]
  PROVE  PointsAreFindable' /\ \A q \in Requests : MemoryInv(q)'
<1>1. ClearingNow' => ClearingNow
  BY DEF ClearingNow
<1>2. \A q \in Requests : MemoryInv(q)
  BY DEF IInv
<1> QED
  BY <1>1, <1>2 DEF IInv, PointsAreFindable, MemoryInv

\* A step that touches no row, of a request that comes to a given place.
LEMMA QuietStep ==
  ASSUME IInv, NEW r \in Requests, UNCHANGED rows, NEW label \in Labels, NEW c \in Call,
         pc' = [pc EXCEPT ![r] = label], call' = [call EXCEPT ![r] = c],
         wire' \in [Requests -> {"closed", "open"} \cup Outcomes],
         label \in Working => pc[r] \in Working /\ c.run = call[r].run,
         label \notin {"upsert", "clearPoints", "clearChunks"},
         RunInv(r)', AskInv(r)'
  PROVE  IInv' /\ Promised
<1>1. TypeOK'
  BY DEF IInv, TypeOK, rows, Stored
<1>2. pc'[r] = label /\ call'[r] = c /\ UNCHANGED <<run, chunk, point, effects, crossed>>
  BY DEF IInv, TypeOK, rows
<1>3. \A q \in Requests \ {r} : pc'[q] = pc[q] /\ call'[q] = call[q]
  BY DEF IInv, TypeOK
<1>4. Alone'
  BY <1>2, <1>3 DEF IInv, Alone
<1>5. \A q \in Requests : RunInv(q)' /\ AskInv(q)'
  BY <1>2, <1>3 DEF IInv, RunInv, AskInv, Stored
<1>6. PointsAreFindable' /\ \A q \in Requests : MemoryInv(q)'
  BY <1>2, <1>3, MemoryStays
<1>7. Unborn' /\ SuccessIsRecorded'
  BY <1>2 DEF IInv, Unborn, SuccessIsRecorded
<1>8. Promised
  BY <1>2, PromiseStutters
<1> QED
  BY <1>1, <1>4, <1>5, <1>6, <1>7, <1>8 DEF IInv

\* A request ends without a write.
LEMMA ReturnStep ==
  ASSUME IInv, NEW r \in Requests, UNCHANGED rows, Return(r),
         wire' \in [Requests -> {"closed", "open"} \cup Outcomes]
  PROVE  IInv' /\ Promised
<1>1. pc' = [pc EXCEPT ![r] = "idle"] /\ call' = [call EXCEPT ![r] = NoCall]
  BY DEF Return, Goto
<1>2. pc'[r] = "idle" /\ call'[r] = NoCall
  BY <1>1 DEF IInv, TypeOK
<1>3. RunInv(r)' /\ AskInv(r)'
  BY <1>2, NoCallIsCall DEF RunInv, AskInv, Working, Trying
<1> QED
  BY <1>1, <1>3, NoCallIsCall, QuietStep DEF Working, Trying

\* What is told on a wire is one of its states.
LEMMA EmitIs ==
  ASSUME TypeOK, NEW r \in Requests, NEW outcome \in Outcomes, Emit(r, outcome)
  PROVE  wire' \in [Requests -> {"closed", "open"} \cup Outcomes]
BY DEF TypeOK, Emit

LEMMA FinishStep ==
  ASSUME IInv, NEW r \in Requests, UNCHANGED rows, Finish(r) \/ Fail(r)
  PROVE  IInv' /\ Promised
<1>1. Return(r) /\ wire' \in [Requests -> {"closed", "open"} \cup Outcomes]
  BY EmitIs DEF Finish, Fail, Outcomes, IInv
<1> QED
  BY <1>1, ReturnStep

LEMMA ContinueStep ==
  ASSUME IInv, NEW r \in Requests, UNCHANGED rows, NEW label \in Labels, Continue(r, label),
         label \notin {"upsert", "clearPoints", "clearChunks"},
         label \in Working => pc[r] \in Working, RunInv(r)', AskInv(r)'
  PROVE  IInv' /\ Promised
<1>1. call' = [call EXCEPT ![r] = call[r]] /\ call[r] \in Call
  BY DEF Continue, IInv, TypeOK
<1>2. pc' = [pc EXCEPT ![r] = label]
  BY DEF Continue, Goto
<1>3. wire' \in [Requests -> {"closed", "open"} \cup Outcomes]
  BY DEF Continue, IInv, TypeOK
<1> QED
  BY <1>1, <1>2, <1>3, QuietStep

LEMMA CatchStep ==
  ASSUME IInv, NEW r \in Requests, UNCHANGED rows, Continue(r, "catch"),
         pc[r] \in Trying
  PROVE  IInv' /\ Promised
<1>1. pc'[r] = "catch" /\ call'[r] = call[r] /\ run' = run
  BY DEF Continue, Goto, IInv, TypeOK, rows
<1>2. RunInv(r)' /\ AskInv(r)'
  BY <1>1 DEF IInv, RunInv, AskInv, Working, Trying
<1> QED
  BY <1>2, ContinueStep DEF Labels, Working, Trying

\* A request writes the row of its run, which is there.
LEMMA RowStep ==
  ASSUME IInv, NEW r \in Requests, pc[r] \in Trying, Stored(call[r].run),
         NEW row \in Run, run' = [run EXCEPT ![call[r].run] = row],
         row.status \in {"RUNNING", "SUCCEEDED", "FAILED"}, row.key = run[call[r].run].key,
         row.status = "SUCCEEDED" =>
           row.user /\ row.assistant /\ row.tools = effects[call[r].run],
         UNCHANGED <<chunk, point, effects, crossed>>,
         NEW label \in Labels, NEW c \in Call,
         pc' = [pc EXCEPT ![r] = label], call' = [call EXCEPT ![r] = c],
         label \in Working => c.run = call[r].run,
         label \notin {"upsert", "clearPoints", "clearChunks"},
         wire' \in [Requests -> {"closed", "open"} \cup Outcomes],
         RunInv(r)', AskInv(r)'
  PROVE  IInv' /\ Promised
<1> DEFINE n == call[r].run
<1>1. n \in Runs /\ run[n].status = "RUNNING" /\ run'[n] = row
  BY DEF IInv, RunInv, Working, Trying, Stored, TypeOK
<1>2. /\ pc'[r] = label /\ call'[r] = c
      /\ \A m \in Runs : m # n => run'[m] = run[m]
      /\ \A q \in Requests \ {r} : pc'[q] = pc[q] /\ call'[q] = call[q]
  BY DEF IInv, TypeOK
<1> HIDE DEF n
<1>3. TypeOK'
  <2>1. run' \in [Runs -> Run]
    BY DEF IInv, TypeOK, n
  <2>2. \A m \in Runs : ~Stored(m)' => ~run'[m].user /\ run'[m].tools = 0 /\ ~run'[m].assistant
    BY <1>1, <1>2 DEF IInv, TypeOK, Stored, n
  <2> QED
    BY <2>1, <2>2 DEF IInv, TypeOK, n
<1>4. Alone' /\ \A q \in Requests \ {r} : RunInv(q)' /\ AskInv(q)'
  BY <1>2, OthersStay DEF Working, n
<1>5. PointsAreFindable' /\ \A q \in Requests : MemoryInv(q)'
  BY <1>2, MemoryStays
<1>6. Unborn' /\ SuccessIsRecorded'
  BY <1>1, <1>2 DEF IInv, Unborn, SuccessIsRecorded, n
<1>7. Promised
  <2>1. CASE row.status = "RUNNING"
    BY <1>1, <1>2, <2>1, PromiseStutters DEF n
  <2>2. CASE row.status # "RUNNING"
    <3> DEFINE status == [m \in Runs |-> run[m].status]
               key == [m \in Runs |-> run[m].key]
    <3>1. key' = key
      <4>1. \A m \in Runs : run'[m].key = run[m].key
        BY <1>1, <1>2 DEF n
      <4> QED
        BY <4>1
    <3>4. status' = [status EXCEPT ![n] = row.status]
      <4>1. \A m \in Runs : run'[m].status = IF m = n THEN row.status ELSE run[m].status
        BY <1>1, <1>2 DEF n
      <4> QED
        BY <4>1
    <3>2. row.status \in Promise!Ends
      BY <2>2 DEF Promise!Ends
    <3>3. Promise!End(n, row.status)
      BY <1>1, <3>1, <3>4 DEF Promise!End
    <3> QED
      BY <1>1, <3>2, <3>3 DEF Promised, Promise!Next
  <2> QED
    BY <2>1, <2>2
<1> QED
  BY <1>3, <1>4, <1>5, <1>6, <1>7 DEF IInv

-----------------------------------------------------------------------------
LEMMA InitStep == Init => IInv
<1> SUFFICES ASSUME Init PROVE IInv
  OBVIOUS
<1> USE RunsAssumption DEF Init
<1>1. /\ NoRun \in Run /\ NoRun.status = "ABSENT"
      /\ ~NoRun.user /\ NoRun.tools = 0 /\ ~NoRun.assistant
  BY DEF NoRun, Run
<1>2. TypeOK
  <2>1. run \in [Runs -> Run] /\ \A n \in Runs : run[n] = NoRun
    BY <1>1
  <2>2. effects \in [Runs -> 0..MaxSteps] /\ chunk \subseteq Runs /\ point \subseteq Runs
    OBVIOUS
  <2> QED
    BY <1>1, <2>1, <2>2, NoCallIsCall DEF TypeOK, Stored
<1>3. \A r \in Requests : RunInv(r) /\ AskInv(r) /\ MemoryInv(r)
  BY NoCallIsCall DEF RunInv, AskInv, MemoryInv, Working, Trying
<1>4. Alone /\ Unborn /\ SuccessIsRecorded /\ PointsAreFindable
  BY <1>1 DEF Alone, Unborn, SuccessIsRecorded, PointsAreFindable, Working, Trying
<1> QED
  BY <1>2, <1>3, <1>4 DEF IInv

LEMMA InitPromised == Init => Promise!Init
<1> SUFFICES ASSUME Init PROVE Promise!Init
  OBVIOUS
<1>1. NoRun.status = "ABSENT" /\ NoRun.key = None
  BY DEF NoRun
<1> QED
  BY <1>1 DEF Init, Promise!Init

-----------------------------------------------------------------------------
(* One lemma for each step of the service.                                 *)

LEMMA BeginIs ==
  ASSUME IInv, NEW r \in Requests, NEW label \in Labels, NEW connected \in BOOLEAN,
         Begin(r, label, connected)
  PROVE  /\ pc[r] = "idle" /\ pc' = [pc EXCEPT ![r] = label] /\ UNCHANGED rows
         /\ wire' \in [Requests -> {"closed", "open"} \cup Outcomes]
BY DEF Begin, At, Goto, IInv, TypeOK

LEMMA AskStep ==
  ASSUME IInv, NEW r \in Requests, NEW k \in Keys, NEW connected \in BOOLEAN,
         Ask(r, k, connected)
  PROVE  IInv' /\ Promised
<1> DEFINE c == [call[r] EXCEPT !.key = k]
<1>1. c \in Call /\ c.step = call[r].step /\ c.key = k
  BY DEF IInv, TypeOK, Call
<1>2. call' = [call EXCEPT ![r] = c]
  BY DEF Ask, IInv, TypeOK
<1> HIDE DEF c
<1>3. /\ pc[r] = "idle" /\ pc' = [pc EXCEPT ![r] = "lookup"] /\ UNCHANGED rows
      /\ wire' \in [Requests -> {"closed", "open"} \cup Outcomes]
  BY BeginIs DEF Ask, Labels
<1>4. pc'[r] = "lookup" /\ call'[r] = c
  BY <1>2, <1>3 DEF IInv, TypeOK
<1>5. RunInv(r)' /\ AskInv(r)'
  BY <1>1, <1>3, <1>4 DEF IInv, RunInv, AskInv, Working, Trying
<1> QED
  BY <1>1, <1>2, <1>3, <1>5, QuietStep DEF Labels, Working, Trying

LEMMA ClearStep ==
  ASSUME IInv, NEW r \in Requests, NEW connected \in BOOLEAN, Clear(r, connected)
  PROVE  IInv' /\ Promised
<1>1. /\ pc[r] = "idle" /\ pc' = [pc EXCEPT ![r] = "clearFind"] /\ UNCHANGED rows
      /\ wire' \in [Requests -> {"closed", "open"} \cup Outcomes]
  BY BeginIs DEF Clear, Labels, Clearing
<1>2. call' = [call EXCEPT ![r] = call[r]] /\ call[r] \in Call /\ pc'[r] = "clearFind"
  BY <1>1 DEF Clear, IInv, TypeOK
<1>3. RunInv(r)' /\ AskInv(r)'
  BY <1>2 DEF RunInv, AskInv, Working, Trying
<1> QED
  BY <1>1, <1>2, <1>3, QuietStep DEF Labels, Clearing, Working, Trying

LEMMA LookUpStep == ASSUME IInv, NEW r \in Requests, LookUp(r) PROVE IInv' /\ Promised
<1>1. UNCHANGED rows /\ pc[r] = "lookup"
  BY DEF LookUp, At
<1>2. CASE Continue(r, "create")
  <2>1. pc'[r] = "create" /\ call'[r] = call[r]
    BY <1>2 DEF Continue, Goto, IInv, TypeOK
  <2>2. RunInv(r)' /\ AskInv(r)'
    BY <1>1, <2>1 DEF IInv, RunInv, AskInv, Working, Trying
  <2> QED
    BY <1>1, <1>2, <2>2, ContinueStep DEF Labels, Working, Trying
<1>3. CASE Finish(r) \/ Fail(r)
  BY <1>1, <1>3, FinishStep
<1> QED
  BY <1>2, <1>3 DEF LookUp

LEMMA ThinkStep == ASSUME IInv, NEW r \in Requests, Think(r) PROVE IInv' /\ Promised
<1>1. UNCHANGED rows /\ pc[r] = "think"
  BY DEF Think, At
<1>2. PICK next \in Decisions(call[r].step) : Continue(r, next)
  BY DEF Think
<1>3. next \in {"answer", "catch", "tool"} /\ (next = "tool" => call[r].step < MaxSteps)
  BY DEF Decisions, MayStep
<1>4. pc'[r] = next /\ call'[r] = call[r] /\ run' = run /\ effects' = effects
  BY <1>1, <1>2 DEF Continue, Goto, IInv, TypeOK, rows
<1>5. RunInv(r)' /\ AskInv(r)'
  BY <1>1, <1>3, <1>4 DEF IInv, RunInv, AskInv, Working, Trying, Stored
<1> QED
  BY <1>1, <1>2, <1>3, <1>5, ContinueStep DEF Labels, Working, Trying

LEMMA SayUserStep == ASSUME IInv, NEW r \in Requests, SayUser(r) PROVE IInv' /\ Promised
<1> DEFINE n == call[r].run
           row == [run[n] EXCEPT !.user = TRUE]
<1>1. CASE Stored(n) /\ run' = [run EXCEPT ![n].user = TRUE] /\ Continue(r, "think")
  <2>1. /\ pc[r] = "user" /\ n \in Runs /\ run[n] \in Run /\ run[n].status = "RUNNING"
        /\ RunInv(r) /\ AskInv(r) /\ call[r] \in Call
    BY <1>1 DEF SayUser, At, IInv, RunInv, Working, Trying, Stored, TypeOK
  <2>2. /\ row \in Run /\ row.status = "RUNNING" /\ row.key = run[n].key /\ row.user
        /\ row.tools = run[n].tools
    BY <2>1 DEF Run
  <2>3. run' = [run EXCEPT ![n] = row]
    BY <1>1, <2>1 DEF IInv, TypeOK
  <2> HIDE DEF row
  <2>4. /\ pc' = [pc EXCEPT ![r] = "think"] /\ call' = [call EXCEPT ![r] = call[r]]
        /\ UNCHANGED <<chunk, point, effects, crossed>>
        /\ wire' \in [Requests -> {"closed", "open"} \cup Outcomes]
    BY <1>1 DEF SayUser, Continue, Goto, IInv, TypeOK
  <2>5. pc'[r] = "think" /\ call'[r] = call[r] /\ run'[n] = row
    BY <2>1, <2>3, <2>4 DEF IInv, TypeOK
  <2>6. RunInv(r)' /\ AskInv(r)'
    BY <1>1, <2>1, <2>2, <2>4, <2>5 DEF RunInv, AskInv, Working, Trying, Stored
  <2> QED
    BY <1>1, <2>1, <2>2, <2>3, <2>4, <2>6, RowStep DEF Labels, Working, Trying
<1>2. CASE Fail(r) /\ UNCHANGED run
  BY <1>2, FinishStep DEF SayUser, rows
<1> QED
  BY <1>1, <1>2 DEF SayUser

LEMMA RecordToolStep == ASSUME IInv, NEW r \in Requests, RecordTool(r) PROVE IInv' /\ Promised
<1> DEFINE n == call[r].run
           row == [run[n] EXCEPT !.tools = @ + 1]
           c == [call[r] EXCEPT !.step = @ + 1]
<1>0. pc[r] = "record" /\ UNCHANGED <<chunk, point, effects, crossed>>
  BY DEF RecordTool, At
<1>1. CASE /\ Stored(n) /\ run' = [run EXCEPT ![n].tools = @ + 1] /\ Goto(r, "think")
           /\ call' = [call EXCEPT ![r].step = @ + 1] /\ UNCHANGED wire
  <2>1. /\ n \in Runs /\ run[n] \in Run /\ run[n].status = "RUNNING"
        /\ RunInv(r) /\ call[r] \in Call /\ effects[n] \in 0..MaxSteps
    BY <1>0, <1>1 DEF IInv, RunInv, Working, Trying, Stored, TypeOK
  <2>2. /\ row \in Run /\ row.status = "RUNNING" /\ row.key = run[n].key
        /\ row.user = run[n].user /\ row.tools = run[n].tools + 1
    BY <2>1 DEF Run
  <2>3. run' = [run EXCEPT ![n] = row]
    BY <1>1, <2>1 DEF IInv, TypeOK
  <2>4. effects[n] = call[r].step + 1
    BY <1>0, <2>1 DEF RunInv
  <2>5. c \in Call /\ c.run = n /\ c.step = call[r].step + 1
    BY <2>1, <2>4, RunsAssumption DEF Call
  <2>6. call' = [call EXCEPT ![r] = c]
    BY <1>1, <2>1 DEF IInv, TypeOK
  <2> HIDE DEF row, c
  <2>7. /\ pc' = [pc EXCEPT ![r] = "think"]
        /\ wire' \in [Requests -> {"closed", "open"} \cup Outcomes]
    BY <1>1 DEF Goto, IInv, TypeOK
  <2>8. pc'[r] = "think" /\ call'[r] = c /\ run'[n] = row
    BY <2>1, <2>3, <2>6, <2>7 DEF IInv, TypeOK
  <2>9. RunInv(r)' /\ AskInv(r)'
    BY <1>0, <1>1, <2>1, <2>2, <2>4, <2>5, <2>8 DEF RunInv, AskInv, Working, Trying, Stored
  <2> QED
    BY <1>0, <1>1, <2>1, <2>2, <2>3, <2>5, <2>6, <2>7, <2>9, RowStep DEF Labels, Working, Trying
<1>2. CASE Continue(r, "catch") /\ UNCHANGED run
  BY <1>0, <1>2, CatchStep DEF rows, Trying
<1> QED
  BY <1>1, <1>2 DEF RecordTool

\* The tool acts on the outside, once more than has been counted.
LEMMA UseToolStep == ASSUME IInv, NEW r \in Requests, UseTool(r) PROVE IInv' /\ Promised
<1> DEFINE n == call[r].run
<1>0. pc[r] = "tool" /\ UNCHANGED <<run, chunk, point, crossed>>
  BY DEF UseTool, At
<1>1. CASE effects' = [effects EXCEPT ![n] = @ + 1] /\ Continue(r, "record")
  <2>1. /\ n \in Runs /\ run[n].status \in {"RUNNING", "DELETED"}
        /\ RunInv(r) /\ effects[n] = call[r].step /\ effects[n] < MaxSteps
        /\ effects[n] \in Nat
    BY <1>0 DEF IInv, RunInv, Working, Trying, TypeOK
  <2>2. /\ pc' = [pc EXCEPT ![r] = "record"] /\ call' = call /\ wire' = wire
        /\ effects'[n] = effects[n] + 1
        /\ \A m \in Runs : m # n => effects'[m] = effects[m]
    BY <1>1, <2>1 DEF Continue, Goto, IInv, TypeOK
  <2>3. TypeOK'
    BY <1>0, <1>1, <2>1, <2>2, RunsAssumption DEF IInv, TypeOK, Labels, Stored
  <2>4. pc'[r] = "record" /\ \A q \in Requests \ {r} : pc'[q] = pc[q]
    BY <2>2 DEF IInv, TypeOK
  <2>5. Alone' /\ \A q \in Requests \ {r} : RunInv(q)' /\ AskInv(q)'
    BY <1>0, <2>2, <2>4, OthersStay DEF Working, Trying
  <2>6. RunInv(r)' /\ AskInv(r)'
    BY <1>0, <2>1, <2>2, <2>4 DEF RunInv, AskInv, Working, Trying, Stored
  <2>7. PointsAreFindable' /\ \A q \in Requests : MemoryInv(q)'
    BY <1>0, <2>2, <2>4, MemoryStays
  <2>8. Unborn' /\ SuccessIsRecorded'
    BY <1>0, <2>1, <2>2 DEF IInv, Unborn, SuccessIsRecorded
  <2>9. Promised
    <3> DEFINE status == [m \in Runs |-> run[m].status]
               key == [m \in Runs |-> run[m].key]
    <3>1. status' = status /\ key' = key /\ status[n] \in {"RUNNING", "DELETED"}
      BY <1>0, <2>1
    <3>2. Promise!Work(n)
      BY <1>1, <3>1 DEF Promise!Work
    <3> QED
      BY <2>1, <3>2 DEF Promised, Promise!Next
  <2> QED
    BY <2>3, <2>5, <2>6, <2>7, <2>8, <2>9 DEF IInv
<1>2. CASE Continue(r, "catch") /\ UNCHANGED effects
  BY <1>0, <1>2, CatchStep DEF rows, Trying
<1> QED
  BY <1>1, <1>2 DEF UseTool

LEMMA AnswerStep == ASSUME IInv, NEW r \in Requests, Answer(r) PROVE IInv' /\ Promised
<1> DEFINE n == call[r].run
           row == [run[n] EXCEPT !.assistant = TRUE]
<1>0. pc[r] = "answer" /\ UNCHANGED <<chunk, point, effects, crossed>>
  BY DEF Answer, At
<1>1. CASE Stored(n) /\ run' = [run EXCEPT ![n].assistant = TRUE] /\ Continue(r, "succeed")
  <2>1. /\ n \in Runs /\ run[n] \in Run /\ run[n].status = "RUNNING"
        /\ RunInv(r) /\ call[r] \in Call
    BY <1>0, <1>1 DEF IInv, RunInv, Working, Trying, Stored, TypeOK
  <2>2. /\ row \in Run /\ row.status = "RUNNING" /\ row.key = run[n].key /\ row.assistant
        /\ row.user = run[n].user /\ row.tools = run[n].tools
    BY <2>1 DEF Run
  <2>3. run' = [run EXCEPT ![n] = row]
    BY <1>1, <2>1 DEF IInv, TypeOK
  <2> HIDE DEF row
  <2>4. /\ pc' = [pc EXCEPT ![r] = "succeed"] /\ call' = [call EXCEPT ![r] = call[r]]
        /\ wire' \in [Requests -> {"closed", "open"} \cup Outcomes]
    BY <1>1 DEF Continue, Goto, IInv, TypeOK
  <2>5. pc'[r] = "succeed" /\ call'[r] = call[r] /\ run'[n] = row
    BY <2>1, <2>3, <2>4 DEF IInv, TypeOK
  <2>6. RunInv(r)' /\ AskInv(r)'
    BY <1>0, <1>1, <2>1, <2>2, <2>5 DEF RunInv, AskInv, Working, Trying, Stored
  <2> QED
    BY <1>0, <1>1, <2>1, <2>2, <2>3, <2>4, <2>6, RowStep DEF Labels, Working, Trying
<1>2. CASE Continue(r, "catch") /\ UNCHANGED run
  BY <1>0, <1>2, CatchStep DEF rows, Trying
<1> QED
  BY <1>1, <1>2 DEF Answer

\* The run succeeds: everything it has to show is there.
LEMMA SucceedStep == ASSUME IInv, NEW r \in Requests, Succeed(r) PROVE IInv' /\ Promised
<1> DEFINE n == call[r].run
           row == [run[n] EXCEPT !.status = "SUCCEEDED"]
<1>0. pc[r] = "succeed" /\ UNCHANGED <<chunk, point, effects, crossed>>
  BY DEF Succeed, At
<1>1. CASE /\ Stored(n) /\ run' = [run EXCEPT ![n].status = "SUCCEEDED"]
           /\ Continue(r, "remember")
  <2>1. /\ n \in Runs /\ run[n] \in Run /\ run[n].status = "RUNNING"
        /\ RunInv(r) /\ call[r] \in Call
    BY <1>0, <1>1 DEF IInv, RunInv, Working, Trying, Stored, TypeOK
  <2>2. /\ row \in Run /\ row.status = "SUCCEEDED" /\ row.key = run[n].key
        /\ row.user = run[n].user /\ row.tools = run[n].tools
        /\ row.assistant = run[n].assistant
    BY <2>1 DEF Run
  <2>3. run' = [run EXCEPT ![n] = row]
    BY <1>1, <2>1 DEF IInv, TypeOK
  <2>4. row.user /\ row.assistant /\ row.tools = effects[n]
    BY <1>0, <1>1, <2>1, <2>2 DEF RunInv, Trying
  <2> HIDE DEF row
  <2>5. /\ pc' = [pc EXCEPT ![r] = "remember"] /\ call' = [call EXCEPT ![r] = call[r]]
        /\ wire' \in [Requests -> {"closed", "open"} \cup Outcomes]
    BY <1>1 DEF Continue, Goto, IInv, TypeOK
  <2>6. pc'[r] = "remember" /\ call'[r] = call[r] /\ run'[n] = row
    BY <2>1, <2>3, <2>5 DEF IInv, TypeOK
  <2>7. RunInv(r)' /\ AskInv(r)'
    BY <2>1, <2>2, <2>6 DEF RunInv, AskInv, Working, Trying
  <2> QED
    BY <1>0, <1>1, <2>1, <2>2, <2>3, <2>4, <2>5, <2>7, RowStep DEF Labels, Working, Trying
<1>2. CASE Continue(r, "catch") /\ UNCHANGED run
  BY <1>0, <1>2, CatchStep DEF rows, Trying
<1> QED
  BY <1>1, <1>2 DEF Succeed

\* The catch block writes FAILED to a run that has not succeeded.
LEMMA CatchBlockStep == ASSUME IInv, NEW r \in Requests, Catch(r) PROVE IInv' /\ Promised
<1> DEFINE n == call[r].run
           row == [run[n] EXCEPT !.status = "FAILED"]
<1>0. pc[r] = "catch" /\ UNCHANGED <<chunk, point, effects, crossed>> /\ Fail(r)
  BY DEF Catch, At
<1>1. CASE Stored(n) /\ run' = [run EXCEPT ![n].status = "FAILED"]
  <2>1. n \in Runs /\ run[n] \in Run /\ run[n].status = "RUNNING"
    BY <1>0, <1>1 DEF IInv, RunInv, Working, Trying, Stored, TypeOK
  <2>2. row \in Run /\ row.status = "FAILED" /\ row.key = run[n].key
    BY <2>1 DEF Run
  <2>3. run' = [run EXCEPT ![n] = row]
    BY <1>1, <2>1 DEF IInv, TypeOK
  <2> HIDE DEF row
  <2>4. pc' = [pc EXCEPT ![r] = "idle"] /\ call' = [call EXCEPT ![r] = NoCall]
    BY <1>0 DEF Fail, Return, Goto
  <2>5. wire' \in [Requests -> {"closed", "open"} \cup Outcomes]
    BY <1>0, EmitIs DEF Fail, Outcomes, IInv
  <2>6. RunInv(r)' /\ AskInv(r)'
    BY <2>4, NoCallIsCall DEF RunInv, AskInv, Working, Trying, IInv, TypeOK
  <2> QED
    BY <1>0, <1>1, <2>2, <2>3, <2>4, <2>5, <2>6, NoCallIsCall, RowStep DEF Working, Trying
<1>2. CASE UNCHANGED run
  BY <1>0, <1>2, FinishStep DEF rows
<1> QED
  BY <1>1, <1>2 DEF Catch

\* A run begins with a key that no stored run has.
LEMMA CreateRunStep == ASSUME IInv, NEW r \in Requests, CreateRun(r) PROVE IInv' /\ Promised
<1> DEFINE n == CHOOSE n \in FreshRuns : TRUE
           k == call[r].key
           row == [run[n] EXCEPT !.status = "RUNNING", !.key = k]
           c == [call[r] EXCEPT !.run = n]
<1>0. pc[r] = "create" /\ UNCHANGED <<chunk, point, effects, crossed>>
  BY DEF CreateRun, At
<1>1. CASE /\ Insertable(k) /\ FreshRuns # {}
           /\ run' = [run EXCEPT ![n].status = "RUNNING", ![n].key = k]
           /\ call' = [call EXCEPT ![r].run = n]
           /\ Goto(r, "user") /\ UNCHANGED wire
  <2>1. n \in Runs /\ run[n].status = "ABSENT"
    <3>1. n \in FreshRuns
      BY <1>1
    <3> QED
      BY <3>1 DEF FreshRuns
  <2> HIDE DEF n
  <2>2. /\ run[n] \in Run /\ run[n].tools = 0 /\ effects[n] = 0 /\ call[r] \in Call
        /\ k \in Keys /\ call[r].step = 0
    BY <1>0, <2>1 DEF IInv, TypeOK, Stored, Unborn, AskInv
  <2>3. row \in Run /\ row.status = "RUNNING" /\ row.key = k /\ row.tools = 0
    BY <2>2 DEF Run
  <2>4. run' = [run EXCEPT ![n] = row]
    BY <1>1, <2>1 DEF IInv, TypeOK
  <2>5. c \in Call /\ c.run = n /\ c.step = 0
    BY <2>1, <2>2 DEF Call
  <2>6. call' = [call EXCEPT ![r] = c] /\ pc' = [pc EXCEPT ![r] = "user"]
    BY <1>1 DEF Goto, IInv, TypeOK
  <2> HIDE DEF row, c, k
  <2>7. /\ pc'[r] = "user" /\ call'[r] = c /\ run'[n] = row
        /\ \A m \in Runs : m # n => run'[m] = run[m]
        /\ \A q \in Requests \ {r} : pc'[q] = pc[q] /\ call'[q] = call[q]
    BY <2>1, <2>4, <2>6 DEF IInv, TypeOK
  <2>8. TypeOK'
    <3>1. \A m \in Runs : ~Stored(m)' => ~run'[m].user /\ run'[m].tools = 0 /\ ~run'[m].assistant
      BY <2>3, <2>7 DEF IInv, TypeOK, Stored
    <3>2. run' \in [Runs -> Run] /\ pc' \in [Requests -> Labels] /\ call' \in [Requests -> Call]
      BY <2>3, <2>4, <2>5, <2>6 DEF IInv, TypeOK, Labels
    <3> QED
      BY <1>0, <1>1, <3>1, <3>2 DEF IInv, TypeOK
  <2>9. \A q \in Requests \ {r} : pc[q] \in Working => call[q].run \in Runs \ {n}
    BY <2>1 DEF IInv, RunInv, Working, Trying
  <2>10. Alone'
    BY <2>5, <2>7, <2>9 DEF IInv, Alone
  <2>11. ASSUME NEW q \in Requests PROVE RunInv(q)' /\ AskInv(q)'
    <3>1. CASE q = r
      BY <1>0, <2>1, <2>2, <2>3, <2>5, <2>7, <3>1 DEF RunInv, AskInv, Working, Trying
    <3>2. CASE q # r
      <4>1. RunInv(q) /\ AskInv(q) /\ pc'[q] = pc[q] /\ call'[q] = call[q]
        BY <2>7, <3>2 DEF IInv
      <4>2. pc[q] \in Working => run'[call[q].run] = run[call[q].run]
        BY <2>7, <2>9, <3>2
      <4> QED
        BY <1>0, <4>1, <4>2 DEF RunInv, AskInv, Stored, Working, Trying
    <3> QED
      BY <3>1, <3>2
  <2>12. PointsAreFindable' /\ \A q \in Requests : MemoryInv(q)'
    BY <1>0, <2>7, MemoryStays
  <2>13. Unborn' /\ SuccessIsRecorded'
    BY <1>0, <2>3, <2>7 DEF IInv, Unborn, SuccessIsRecorded
  <2>14. Promised
    <3> DEFINE status == [m \in Runs |-> run[m].status]
               key == [m \in Runs |-> run[m].key]
    <3>1. key' = [key EXCEPT ![n] = k]
      <4>1. \A m \in Runs : run'[m].key = IF m = n THEN k ELSE run[m].key
        BY <2>3, <2>7
      <4> QED
        BY <4>1
    <3>2. status' = [status EXCEPT ![n] = "RUNNING"]
      <4>1. \A m \in Runs : run'[m].status = IF m = n THEN "RUNNING" ELSE run[m].status
        BY <2>3, <2>7
      <4> QED
        BY <4>1
    <3>3. \A m \in Runs : Promise!Live(m) => key[m] # k
      <4>1. \A m \in Runs : Stored(m) => run[m].key # k
        BY <1>1 DEF Insertable, RunsOfKey
      <4>2. \A m \in Runs : Promise!Live(m) => Stored(m)
        BY DEF Promise!Live, Promise!Ends, Stored
      <4> QED
        BY <4>1, <4>2
    <3> HIDE DEF status, key
    <3>4. PICK new \in Runs, theirs \in Keys : new = n /\ theirs = k
      BY <2>1, <2>2
    <3> USE DEF status, key
    <3>5. Promise!Begin(new, theirs)
      BY <1>0, <2>1, <3>1, <3>2, <3>3, <3>4 DEF Promise!Begin
    <3> QED
      BY <3>5 DEF Promised, Promise!Next
  <2> QED
    BY <2>8, <2>10, <2>11, <2>12, <2>13, <2>14 DEF IInv
<1>2. CASE Fail(r) /\ UNCHANGED run
  BY <1>0, <1>2, FinishStep DEF rows
<1> QED
  BY <1>1, <1>2 DEF CreateRun

-----------------------------------------------------------------------------
(* Remembering and clearing                                                *)

\* A step on the memory only.
LEMMA MemoryStep ==
  ASSUME IInv, NEW r \in Requests, UNCHANGED <<run, effects>>, NEW label \in Labels,
         NEW c \in Call, pc' = [pc EXCEPT ![r] = label], call' = [call EXCEPT ![r] = c],
         wire' \in [Requests -> {"closed", "open"} \cup Outcomes],
         label \in Working => pc[r] \in Working /\ c.run = call[r].run,
         RunInv(r)', AskInv(r)',
         chunk' \subseteq Runs, point' \subseteq Runs, crossed' \subseteq Runs,
         PointsAreFindable', \A q \in Requests : MemoryInv(q)'
  PROVE  IInv' /\ Promised
<1>1. TypeOK'
  BY DEF IInv, TypeOK, Stored
<1>2. pc'[r] = label /\ call'[r] = c
  BY DEF IInv, TypeOK
<1>3. \A q \in Requests \ {r} : pc'[q] = pc[q] /\ call'[q] = call[q]
  BY DEF IInv, TypeOK
<1>4. Alone'
  BY <1>2, <1>3 DEF IInv, Alone
<1>5. \A q \in Requests : RunInv(q)' /\ AskInv(q)'
  BY <1>2, <1>3 DEF IInv, RunInv, AskInv, Stored
<1>6. Unborn' /\ SuccessIsRecorded'
  BY DEF IInv, Unborn, SuccessIsRecorded
<1>7. Promised
  BY PromiseStutters
<1> QED
  BY <1>1, <1>4, <1>5, <1>6, <1>7 DEF IInv

LEMMA RememberStep == ASSUME IInv, NEW r \in Requests, Remember(r) PROVE IInv' /\ Promised
<1> DEFINE n == call[r].run
<1>0. pc[r] = "remember" /\ UNCHANGED <<run, point, effects>>
  BY DEF Remember, At
<1>1. CASE /\ chunk' = chunk \cup {n}
           /\ crossed' = IF ClearingNow THEN crossed \cup {n} ELSE crossed
           /\ Continue(r, "upsert")
  <2>1. n \in Runs /\ RunInv(r) /\ AskInv(r) /\ call[r] \in Call
    BY <1>0 DEF IInv, RunInv, Working, Trying, TypeOK
  <2>2. /\ pc' = [pc EXCEPT ![r] = "upsert"] /\ call' = [call EXCEPT ![r] = call[r]]
        /\ wire' \in [Requests -> {"closed", "open"} \cup Outcomes]
    BY <1>1 DEF Continue, Goto, IInv, TypeOK
  <2>3. /\ pc'[r] = "upsert" /\ call' = call
        /\ \A q \in Requests \ {r} : pc'[q] = pc[q]
    BY <1>1, <2>2 DEF IInv, TypeOK, Continue
  <2>4. RunInv(r)' /\ AskInv(r)'
    BY <1>0, <2>1, <2>3 DEF RunInv, AskInv, Working, Trying
  <2>5. ClearingNow' => ClearingNow
    BY <1>0, <2>3 DEF ClearingNow
  <2>6. crossed \subseteq crossed' /\ crossed' \subseteq Runs /\ (ClearingNow => n \in crossed')
    BY <1>1, <2>1 DEF IInv, TypeOK
  <2>7. ASSUME NEW q \in Requests PROVE MemoryInv(q)'
    <3>1. CASE q = r
      BY <1>1, <2>3, <2>5, <2>6, <3>1 DEF MemoryInv
    <3>2. CASE q # r
      <4>1. MemoryInv(q) /\ pc'[q] = pc[q] /\ call'[q] = call[q]
        BY <2>3, <3>2 DEF IInv
      <4> QED
        BY <1>0, <1>1, <2>5, <2>6, <4>1 DEF MemoryInv
    <3> QED
      BY <3>1, <3>2
  <2>8. PointsAreFindable'
    BY <1>0, <1>1, <2>6 DEF IInv, PointsAreFindable
  <2>9. chunk' \subseteq Runs /\ point' \subseteq Runs
    BY <1>0, <1>1, <2>1 DEF IInv, TypeOK
  <2> QED
    BY <1>0, <2>1, <2>2, <2>4, <2>6, <2>7, <2>8, <2>9, MemoryStep DEF Labels, Working
<1>2. CASE Finish(r) /\ UNCHANGED <<chunk, crossed>>
  BY <1>0, <1>2, FinishStep DEF rows
<1> QED
  BY <1>1, <1>2 DEF Remember, NotRemembered

LEMMA UpsertStep == ASSUME IInv, NEW r \in Requests, Upsert(r) PROVE IInv' /\ Promised
<1> DEFINE n == call[r].run
<1>0. pc[r] = "upsert" /\ UNCHANGED <<run, chunk, effects, crossed>>
  BY DEF Upsert, At
<1>1. CASE point' = point \cup {n} /\ Finish(r)
  <2>1. n \in Runs /\ MemoryInv(r)
    BY <1>0 DEF IInv, RunInv, Working, Trying
  <2>2. /\ pc' = [pc EXCEPT ![r] = "idle"] /\ call' = [call EXCEPT ![r] = NoCall]
        /\ wire' \in [Requests -> {"closed", "open"} \cup Outcomes]
    BY <1>1, EmitIs DEF Finish, Return, Goto, Outcomes, IInv
  <2>3. /\ pc'[r] = "idle" /\ call'[r] = NoCall
        /\ \A q \in Requests \ {r} : pc'[q] = pc[q] /\ call'[q] = call[q]
    BY <2>2 DEF IInv, TypeOK
  <2>4. RunInv(r)' /\ AskInv(r)'
    BY <2>3, NoCallIsCall DEF RunInv, AskInv, Working, Trying
  <2>5. ClearingNow' => ClearingNow
    BY <2>3 DEF ClearingNow
  <2>6. n \in chunk \cup crossed /\ (ClearingNow => n \in crossed)
    BY <1>0, <2>1 DEF MemoryInv
  <2>7. ASSUME NEW q \in Requests PROVE MemoryInv(q)'
    <3>1. CASE q = r
      BY <2>3, <3>1 DEF MemoryInv
    <3>2. CASE q # r
      <4>1. MemoryInv(q) /\ pc'[q] = pc[q] /\ call'[q] = call[q]
        BY <2>3, <3>2 DEF IInv
      <4>2. pc[q] \in {"clearPoints", "clearChunks"} => n \in crossed
        BY <2>6 DEF ClearingNow
      <4> QED
        BY <1>0, <1>1, <2>5, <4>1, <4>2 DEF MemoryInv
    <3> QED
      BY <3>1, <3>2
  <2>8. PointsAreFindable'
    BY <1>0, <1>1, <2>6 DEF IInv, PointsAreFindable
  <2>9. chunk' \subseteq Runs /\ point' \subseteq Runs /\ crossed' \subseteq Runs
    BY <1>0, <1>1, <2>1 DEF IInv, TypeOK
  <2> QED
    BY <1>0, <2>2, <2>4, <2>7, <2>8, <2>9, NoCallIsCall, MemoryStep DEF Working, Trying
<1>2. CASE Finish(r) /\ UNCHANGED point
  BY <1>0, <1>2, FinishStep DEF rows
<1> QED
  BY <1>1, <1>2 DEF Upsert, NotRemembered

LEMMA FindChunksStep == ASSUME IInv, NEW r \in Requests, FindChunks(r) PROVE IInv' /\ Promised
<1> DEFINE c == [call[r] EXCEPT !.targets = chunk]
<1>1. /\ pc[r] = "clearFind" /\ UNCHANGED <<run, chunk, point, effects, wire>>
      /\ crossed' = crossed \cup {call[q].run : q \in {q \in Requests : pc[q] = "upsert"}}
  BY DEF FindChunks, At
<1>2. c \in Call /\ c.targets = chunk
  BY DEF IInv, TypeOK, Call
<1>3. call' = [call EXCEPT ![r] = c] /\ pc' = [pc EXCEPT ![r] = "clearPoints"]
  BY DEF FindChunks, Goto, IInv, TypeOK
<1> HIDE DEF c
<1>4. /\ pc'[r] = "clearPoints" /\ call'[r] = c
      /\ \A q \in Requests \ {r} : pc'[q] = pc[q] /\ call'[q] = call[q]
  BY <1>3 DEF IInv, TypeOK
<1>5. RunInv(r)' /\ AskInv(r)'
  BY <1>4 DEF RunInv, AskInv, Working, Trying
<1>6. \A q \in Requests : pc[q] = "upsert" => call[q].run \in crossed' /\ call[q].run \in Runs
  BY <1>1 DEF IInv, RunInv, Working, Trying
<1>7. ASSUME NEW q \in Requests PROVE MemoryInv(q)'
  <2>1. CASE q = r
    BY <1>1, <1>2, <1>4, <2>1 DEF MemoryInv, IInv, PointsAreFindable
  <2>2. CASE q # r
    <3>1. MemoryInv(q) /\ pc'[q] = pc[q] /\ call'[q] = call[q]
      BY <1>4, <2>2 DEF IInv
    <3> QED
      BY <1>1, <1>6, <3>1 DEF MemoryInv
  <2> QED
    BY <2>1, <2>2
<1>8. PointsAreFindable'
  BY <1>1 DEF IInv, PointsAreFindable
<1>9. crossed' \subseteq Runs
  BY <1>1, <1>6 DEF IInv, TypeOK
<1> QED
  BY <1>1, <1>2, <1>3, <1>5, <1>7, <1>8, <1>9, MemoryStep
  DEF Labels, Clearing, Working, Trying, IInv, TypeOK

LEMMA DeletePointsStep ==
  ASSUME IInv, NEW r \in Requests, DeletePoints(r) PROVE IInv' /\ Promised
<1>1. /\ pc[r] = "clearPoints" /\ UNCHANGED <<run, chunk, effects, crossed>>
      /\ point' = point \ call[r].targets /\ Continue(r, "clearChunks")
  BY DEF DeletePoints, At
<1>2. /\ pc' = [pc EXCEPT ![r] = "clearChunks"] /\ call' = [call EXCEPT ![r] = call[r]]
      /\ wire' \in [Requests -> {"closed", "open"} \cup Outcomes] /\ call[r] \in Call
  BY <1>1 DEF Continue, Goto, IInv, TypeOK
<1>3. /\ pc'[r] = "clearChunks" /\ call' = call
      /\ \A q \in Requests \ {r} : pc'[q] = pc[q]
  BY <1>1, <1>2 DEF Continue, IInv, TypeOK
<1>4. RunInv(r)' /\ AskInv(r)'
  BY <1>3 DEF RunInv, AskInv, Working, Trying
<1>5. ClearingNow
  BY <1>1 DEF ClearingNow
<1>6. ASSUME NEW q \in Requests PROVE MemoryInv(q)'
  <2>1. MemoryInv(q) /\ MemoryInv(r)
    BY DEF IInv
  <2>2. CASE q = r
    BY <1>1, <1>3, <2>1, <2>2 DEF MemoryInv
  <2>3. CASE q # r
    BY <1>1, <1>3, <1>5, <2>1, <2>3 DEF MemoryInv
  <2> QED
    BY <2>2, <2>3
<1>7. PointsAreFindable' /\ point' \subseteq Runs
  BY <1>1 DEF IInv, PointsAreFindable, TypeOK
<1> QED
  BY <1>1, <1>2, <1>4, <1>6, <1>7, MemoryStep DEF Labels, Clearing, Working, Trying, IInv, TypeOK

\* What is left of the points was written while a clearing was under way.
LEMMA DeleteChunksStep ==
  ASSUME IInv, NEW r \in Requests, DeleteChunks(r) PROVE IInv' /\ Promised
<1>1. /\ pc[r] = "clearChunks" /\ UNCHANGED <<run, point, effects, crossed>>
      /\ chunk' = {} /\ Continue(r, "clearRuns")
  BY DEF DeleteChunks, At
<1>2. /\ pc' = [pc EXCEPT ![r] = "clearRuns"] /\ call' = [call EXCEPT ![r] = call[r]]
      /\ wire' \in [Requests -> {"closed", "open"} \cup Outcomes] /\ call[r] \in Call
  BY <1>1 DEF Continue, Goto, IInv, TypeOK
<1>3. /\ pc'[r] = "clearRuns" /\ call' = call
      /\ \A q \in Requests \ {r} : pc'[q] = pc[q]
  BY <1>1, <1>2 DEF Continue, IInv, TypeOK
<1>4. RunInv(r)' /\ AskInv(r)'
  BY <1>3 DEF RunInv, AskInv, Working, Trying
<1>5. ClearingNow
  BY <1>1 DEF ClearingNow
<1>6. ASSUME NEW q \in Requests PROVE MemoryInv(q)'
  <2>1. MemoryInv(q)
    BY DEF IInv
  <2>2. CASE q = r
    BY <1>3, <2>2 DEF MemoryInv
  <2>3. CASE q # r
    BY <1>1, <1>3, <1>5, <2>1, <2>3 DEF MemoryInv
  <2> QED
    BY <2>2, <2>3
<1>7. PointsAreFindable'
  <2>1. MemoryInv(r)
    BY DEF IInv
  <2> QED
    BY <1>1, <2>1 DEF MemoryInv, PointsAreFindable
<1> QED
  BY <1>1, <1>2, <1>4, <1>6, <1>7, MemoryStep DEF Labels, Clearing, Working, Trying, IInv, TypeOK

\* Every run is forgotten at once; those under way go on without their row.
LEMMA DeleteRunsStep ==
  ASSUME IInv, NEW r \in Requests, DeleteRuns(r) PROVE IInv' /\ Promised
<1>1. /\ pc[r] = "clearRuns" /\ UNCHANGED <<chunk, point, effects, crossed>>
      /\ run' = [n \in Runs |-> IF Stored(n) THEN Erased(n) ELSE run[n]]
      /\ Finish(r)
  BY DEF DeleteRuns, At
<1>2. /\ pc' = [pc EXCEPT ![r] = "idle"] /\ call' = [call EXCEPT ![r] = NoCall]
      /\ wire' \in [Requests -> {"closed", "open"} \cup Outcomes]
  BY <1>1, EmitIs DEF Finish, Return, Goto, Outcomes, IInv
<1>3. /\ pc'[r] = "idle" /\ call'[r] = NoCall
      /\ \A q \in Requests \ {r} : pc'[q] = pc[q] /\ call'[q] = call[q]
  BY <1>2 DEF IInv, TypeOK
<1>4. ASSUME NEW n \in Runs
      PROVE  /\ run'[n] \in Run /\ run'[n].key = run[n].key
             /\ run'[n].status = IF Stored(n) THEN "DELETED" ELSE run[n].status
             /\ ~run'[n].user /\ run'[n].tools = 0 /\ ~run'[n].assistant
  <2>1. CASE Stored(n)
    <3>1. run[n] \in Run /\ run'[n] = Erased(n)
      BY <1>1, <2>1 DEF IInv, TypeOK
    <3> DEFINE row == [status |-> "DELETED", key |-> run[n].key, user |-> FALSE, tools |-> 0,
                       assistant |-> FALSE]
    <3>2. run'[n] = row
      BY <3>1 DEF Erased, NoRun
    <3>3. row \in Run
      BY <3>1 DEF Run
    <3>4. /\ row.key = run[n].key /\ row.status = "DELETED"
          /\ ~row.user /\ row.tools = 0 /\ ~row.assistant
      OBVIOUS
    <3> HIDE DEF row
    <3> QED
      BY <2>1, <3>2, <3>3, <3>4
  <2>2. CASE ~Stored(n)
    BY <1>1, <2>2 DEF IInv, TypeOK
  <2> QED
    BY <2>1, <2>2
<1>5. \A n \in Runs : run'[n].status \notin {"RUNNING", "SUCCEEDED", "FAILED"}
  BY <1>4 DEF Stored
<1>6. TypeOK'
  <2>1. run' \in [Runs -> Run]
    BY <1>1, <1>4
  <2> QED
    BY <1>1, <1>2, <1>4, <2>1, NoCallIsCall DEF IInv, TypeOK
<1>7. Alone'
  BY <1>3 DEF IInv, Alone, Working, Trying
<1>8. ASSUME NEW q \in Requests PROVE RunInv(q)' /\ AskInv(q)'
  <2>1. CASE q = r
    BY <1>3, <2>1, NoCallIsCall DEF RunInv, AskInv, Working, Trying
  <2>2. CASE q # r
    <3>1. RunInv(q) /\ AskInv(q) /\ pc'[q] = pc[q] /\ call'[q] = call[q]
      BY <1>3, <2>2 DEF IInv
    <3>2. pc[q] \in Working => call[q].run \in Runs /\ ~Stored(call[q].run)'
      BY <1>5, <3>1 DEF RunInv, Stored
    <3> QED
      BY <1>1, <1>4, <3>1, <3>2 DEF RunInv, AskInv, Working, Trying, Stored
  <2> QED
    BY <2>1, <2>2
<1>9. PointsAreFindable' /\ \A q \in Requests : MemoryInv(q)'
  BY <1>1, <1>3, MemoryStays
<1>10. Unborn' /\ SuccessIsRecorded'
  BY <1>1, <1>4, <1>5 DEF IInv, Unborn, SuccessIsRecorded, Stored
<1>11. Promised
  <2> DEFINE status == [m \in Runs |-> run[m].status]
             key == [m \in Runs |-> run[m].key]
  <2>1. key' = key
    BY <1>4
  <2>2. status' = [n \in Runs |-> IF Promise!Live(n) THEN "DELETED" ELSE status[n]]
    <3>1. \A n \in Runs : Promise!Live(n) <=> Stored(n)
      BY DEF Promise!Live, Promise!Ends, Stored
    <3> QED
      BY <1>4, <3>1
  <2>3. Promise!Forget
    BY <1>1, <2>1, <2>2 DEF Promise!Forget
  <2> QED
    BY <2>3 DEF Promised, Promise!Next
<1> QED
  BY <1>6, <1>7, <1>8, <1>9, <1>10, <1>11 DEF IInv

-----------------------------------------------------------------------------
(* The service, and its clients around it.                                 *)

LEMMA ServiceStep ==
  ASSUME IInv, NEW r \in Requests, Proceed(r) \/ Crash(r)
  PROVE  IInv' /\ Promised
<1>1. ASSUME Throw(r) PROVE IInv' /\ Promised
  BY <1>1, FinishStep DEF Throw
<1>2. ASSUME Crash(r) PROVE IInv' /\ Promised
  <2>1. wire' \in [Requests -> {"closed", "open"} \cup Outcomes]
    BY <1>2 DEF Crash, IInv, TypeOK
  <2> QED
    BY <1>2, <2>1, ReturnStep DEF Crash
<1> QED
  BY <1>1, <1>2, LookUpStep, CreateRunStep, SayUserStep, ThinkStep, UseToolStep,
     RecordToolStep, AnswerStep, SucceedStep, CatchBlockStep, RememberStep, UpsertStep,
     FindChunksStep, DeletePointsStep, DeleteChunksStep, DeleteRunsStep DEF Proceed

\* A connection opens or ends, and a client goes on: nothing is stored.
LEMMA WireStep ==
  ASSUME IInv, UNCHANGED <<rows, pc, call>>,
         wire' \in [Requests -> {"closed", "open"} \cup Outcomes]
  PROVE  IInv' /\ Promised
<1>1. UNCHANGED <<run, chunk, point, effects, crossed, pc, call>>
  BY DEF rows
<1>2. TypeOK' /\ Alone' /\ Unborn' /\ SuccessIsRecorded'
  BY <1>1 DEF IInv, TypeOK, Alone, Unborn, SuccessIsRecorded, Stored
<1>3. \A q \in Requests : RunInv(q)' /\ AskInv(q)'
  BY <1>1 DEF IInv, RunInv, AskInv, Stored
<1>4. PointsAreFindable' /\ \A q \in Requests : MemoryInv(q)'
  BY <1>1, MemoryStays
<1>5. Promised
  BY <1>1, PromiseStutters
<1> QED
  BY <1>2, <1>3, <1>4, <1>5 DEF IInv

\* What the drawers know keeps its shape.
DrawersOK ==
  /\ asked \in [Drawers -> Keys \cup {None}]
  /\ socket \in [Drawers -> Requests \cup {None}]
  /\ erasing \in [Drawers -> Requests \cup {None}]

ChatInv == IInv /\ DrawersOK

LEMMA SendStep ==
  ASSUME ChatInv, NEW d \in Drawers, NEW r \in Requests, Send(d, r) PROVE ChatInv' /\ Promised
<1> DEFINE k == CHOOSE k \in FreshKeys : TRUE
<1>1. FreshKeys # {} /\ Ask(r, k, TRUE) /\ asked' = [asked EXCEPT ![d] = k]
      /\ socket' = [socket EXCEPT ![d] = r] /\ UNCHANGED erasing
  BY DEF Send
<1>2. k \in FreshKeys
  BY <1>1
<1>3. k \in Keys
  BY <1>2 DEF FreshKeys
<1> HIDE DEF k
<1>4. IInv' /\ Promised
  BY <1>1, <1>3, AskStep DEF ChatInv
<1>5. DrawersOK'
  BY <1>1, <1>3 DEF ChatInv, DrawersOK
<1> QED
  BY <1>4, <1>5 DEF ChatInv

LEMMA DrawerStep ==
  ASSUME ChatInv, NEW d \in Drawers, Drawer(d) PROVE ChatInv' /\ Promised
<1>1. CASE \E r \in Requests : Send(d, r)
  BY <1>1, SendStep
<1>2. CASE \E r \in Requests : NewChat(d, r)
  BY <1>2, ClearStep DEF NewChat, ChatInv, DrawersOK
<1>3. CASE Close(d) \/ HearOutcome(d) \/ LoseConnection(d) \/ ConnectError(d) \/ ChatCleared(d)
  <2>1. UNCHANGED <<rows, pc, call>>
    BY <1>3 DEF Close, HearOutcome, Disconnect, LoseConnection, ConnectError, ChatCleared, vars,
       rows
  <2>2. wire' \in [Requests -> {"closed", "open"} \cup Outcomes]
    BY <1>3 DEF Close, HearOutcome, Disconnect, LoseConnection, ConnectError, ChatCleared, vars,
       ChatInv, IInv, TypeOK
  <2>3. DrawersOK'
    BY <1>3 DEF Close, HearOutcome, EndSend, LoseConnection, ConnectError, ChatCleared,
       ChatInv, DrawersOK
  <2> QED
    BY <2>1, <2>2, <2>3, WireStep DEF ChatInv
<1> QED
  BY <1>1, <1>2, <1>3 DEF Drawer

LEMMA ChatNextStep == ChatInv /\ [ChatNext]_chat => ChatInv' /\ Promised
<1> SUFFICES ASSUME ChatInv, [ChatNext]_chat PROVE ChatInv' /\ Promised
  OBVIOUS
<1>1. ASSUME NEW r \in Requests, Other(r) PROVE ChatInv' /\ Promised
  BY <1>1, AskStep, ChatAssumption DEF Other, drawer, ChatInv, DrawersOK
<1>2. ASSUME NEW r \in Requests, Serve(r) PROVE ChatInv' /\ Promised
  BY <1>2, ServiceStep DEF Serve, drawer, ChatInv, DrawersOK
<1>3. ASSUME NEW r \in Requests, CrashHere(r) PROVE ChatInv' /\ Promised
  BY <1>3, ServiceStep DEF CrashHere, ChatInv, DrawersOK
<1>4. CASE UNCHANGED chat
  <2>1. UNCHANGED <<rows, pc, call>> /\ wire' = wire /\ UNCHANGED drawer
    BY <1>4 DEF chat, vars, rows
  <2> QED
    BY <2>1, WireStep DEF ChatInv, DrawersOK, drawer, IInv, TypeOK
<1> QED
  BY <1>1, <1>2, <1>3, <1>4, DrawerStep DEF ChatNext

LEMMA ChatInitStep == ChatInit => ChatInv /\ Promise!Init
BY InitStep, InitPromised DEF ChatInit, ChatInv, DrawersOK

(* The inductive invariant holds of every reachable state: how far each    *)
(* request has come with its run, and what a clearing has still to find.   *)
THEOREM Invariance == ChatSpec => []ChatInv
BY ChatInitStep, ChatNextStep, PTL DEF ChatSpec

(* Rows, requests and drawers keep their shape.                            *)
THEOREM TypeCorrect == ChatSpec => []ChatTypeOK
<1>1. ChatInv => ChatTypeOK
  BY DEF ChatInv, IInv, DrawersOK, ChatTypeOK
<1> QED
  BY <1>1, Invariance, PTL

(* A run that SUCCEEDED has all its messages.                              *)
THEOREM Recorded == ChatSpec => []SuccessIsRecorded
<1>1. ChatInv => SuccessIsRecorded
  BY DEF ChatInv, IInv
<1> QED
  BY <1>1, Invariance, PTL

(* A point that no clearing will find was written during one.              *)
THEOREM Findable == ChatSpec => []PointsAreFindable
<1>1. ChatInv => PointsAreFindable
  BY DEF ChatInv, IInv
<1> QED
  BY <1>1, Invariance, PTL

(* The runs are those of an idempotent service.                            *)
THEOREM Refinement == ChatSpec => ImplementsIdempotentRuns
<1>1. ChatInv /\ [ChatNext]_chat => [Promise!Next]_(Promise!promised)
  BY ChatNextStep DEF Promised
<1> QED
  BY <1>1, ChatInitStep, Invariance, PTL DEF ChatSpec, ImplementsIdempotentRuns, Promise!Spec

-----------------------------------------------------------------------------
(* What a drawer is told.                                                  *)

\* A request that works on a run has its key.
KeyInv(r) ==
  /\ pc[r] \in {"idle"} \cup Clearing => call[r].key = None
  /\ pc[r] \in Working => run[call[r].run].key = call[r].key

RunsWith(k) == {n \in Runs : run[n].key = k}

\* The request a drawer waits for is its own, and so are its key and the run
\* it makes; what it has been told fits the run.
OwnInv(d) ==
  LET r == socket[d]
      k == asked[d]
  IN /\ k \in Keys \ ApiKeys
     /\ \A e \in Drawers : erasing[e] # r /\ (e # d => socket[e] # r)
     /\ \A q \in Requests \ {r} : call[q].key # k
     /\ pc[r] \notin Clearing
     /\ pc[r] # "idle" => call[r].key = k /\ wire[r] = "open"
     /\ pc[r] \in {"lookup", "create"} => RunsWith(k) = {}
     /\ pc[r] \in Working => RunsWith(k) = {call[r].run}
     /\ pc[r] = "idle" => wire[r] \in Outcomes
     /\ wire[r] = "completed" => \E n \in RunsWith(k) : run[n].status \in {"SUCCEEDED", "DELETED"}
     /\ wire[r] = "failed" => \A n \in RunsWith(k) : run[n].status # "SUCCEEDED"

OutcomeInv ==
  /\ \A r \in Requests : KeyInv(r)
  /\ \A d \in Drawers : socket[d] # None => OwnInv(d)

\* What a step of the service does to its request, to the runs and to the wire.
Places(r) ==
  \/ pc'[r] = "idle" /\ call'[r].key = None
  \/ /\ pc'[r] # "idle" /\ call'[r].key = call[r].key /\ wire'[r] = wire[r]
     /\ pc[r] \in {"lookup", "create"} \cup Working \cup Clearing
     /\ pc[r] = "lookup" => pc'[r] = "create"
     /\ pc[r] = "create" =>
          pc'[r] = "user" /\ RunsWith(call[r].key)' = RunsWith(call[r].key) \cup {call'[r].run}
     /\ pc[r] \in Working => pc'[r] \in Working /\ call'[r].run = call[r].run
     /\ pc[r] \in Clearing => pc'[r] \in Clearing

Fates(r) ==
  \A n \in Runs :
    /\ \/ run'[n].key = run[n].key
       \/ pc[r] = "create" /\ run[n].status = "ABSENT" /\ run'[n].key = call[r].key
    /\ run[n].status \in {"SUCCEEDED", "DELETED"} =>
         run'[n].status \in {"SUCCEEDED", "DELETED"}
    /\ run'[n].status = "SUCCEEDED" =>
         run[n].status = "SUCCEEDED" \/ (pc[r] = "succeed" /\ n = call[r].run)

Tells(r) ==
  wire[r] = "open" /\ pc'[r] = "idle" =>
    \/ /\ wire'[r] = "failed"
       /\ pc[r] \in {"lookup", "create", "user", "catch"} \cup Clearing
    \/ /\ wire'[r] = "completed"
       /\ \/ pc[r] \in {"remember", "upsert"} \cup Clearing
          \/ pc[r] = "lookup" /\ RunsWith(call[r].key) # {}

ServiceDoes(r) ==
  /\ pc[r] # "idle"
  /\ \A q \in Requests \ {r} : pc'[q] = pc[q] /\ call'[q] = call[q] /\ wire'[q] = wire[q]
  /\ Places(r) /\ Fates(r) /\ Tells(r)

LEMMA EndTells ==
  ASSUME IInv, NEW r \in Requests, NEW outcome \in Outcomes, Return(r), Emit(r, outcome)
  PROVE  /\ \A q \in Requests \ {r} : pc'[q] = pc[q] /\ call'[q] = call[q] /\ wire'[q] = wire[q]
         /\ pc'[r] = "idle" /\ call'[r].key = None
         /\ wire[r] = "open" => wire'[r] = outcome
BY DEF IInv, TypeOK, Return, Goto, Emit, NoCall

LEMMA ContinueKeeps ==
  ASSUME IInv, NEW r \in Requests, NEW label \in Labels, Continue(r, label)
  PROVE  /\ \A q \in Requests \ {r} : pc'[q] = pc[q] /\ call'[q] = call[q] /\ wire'[q] = wire[q]
         /\ pc'[r] = label /\ call'[r] = call[r] /\ wire'[r] = wire[r]
BY DEF IInv, TypeOK, Continue, Goto

LEMMA RunsStay == ASSUME NEW r \in Requests, run' = run PROVE Fates(r)
BY DEF Fates

\* The run of a request is written, or is left alone.
LEMMA OwnRunStays ==
  ASSUME IInv, NEW r \in Requests, pc[r] \in Trying,
         NEW row \in Run, run' = [run EXCEPT ![call[r].run] = row],
         row.key = run[call[r].run].key, Stored(call[r].run),
         row.status = "SUCCEEDED" => pc[r] = "succeed"
  PROVE  Fates(r)
<1>1. call[r].run \in Runs /\ run[call[r].run].status = "RUNNING"
  BY DEF IInv, RunInv, Stored, Working
<1>2. \A n \in Runs : run'[n] = IF n = call[r].run THEN row ELSE run[n]
  BY DEF IInv, TypeOK
<1> QED
  BY <1>1, <1>2 DEF Fates

LEMMA LookUpDoes ==
  ASSUME IInv, NEW r \in Requests, LookUp(r) PROVE ServiceDoes(r)
<1>1. pc[r] = "lookup" /\ run' = run
  BY DEF LookUp, At, rows
<1>2. CASE Continue(r, "create")
  BY <1>1, <1>2, ContinueKeeps, RunsStay DEF Labels, ServiceDoes, Places, Tells, Working, Trying, Clearing
<1>3. CASE Fail(r)
  BY <1>1, <1>3, EndTells, RunsStay DEF Fail, Outcomes, ServiceDoes, Places, Tells
<1>4. CASE (\E n \in RunsOfKey(call[r].key) : run[n].status # "RUNNING") /\ Finish(r)
  <2>1. RunsWith(call[r].key) # {}
    BY <1>4 DEF RunsOfKey, RunsWith
  <2> QED
    BY <1>1, <1>4, <2>1, EndTells, RunsStay DEF Finish, Outcomes, ServiceDoes, Places, Tells
<1> QED
  BY <1>2, <1>3, <1>4 DEF LookUp

LEMMA CreateRunDoes ==
  ASSUME IInv, NEW r \in Requests, CreateRun(r) PROVE ServiceDoes(r)
<1>1. pc[r] = "create"
  BY DEF CreateRun, At
<1>2. CASE Fail(r) /\ UNCHANGED run
  BY <1>1, <1>2, EndTells, RunsStay DEF Fail, Outcomes, ServiceDoes, Places, Tells
<1>3. CASE ~(Fail(r) /\ UNCHANGED run)
  <2>1. PICK n \in Runs : /\ run[n].status = "ABSENT"
                          /\ run' = [run EXCEPT ![n].status = "RUNNING", ![n].key = call[r].key]
                          /\ call' = [call EXCEPT ![r].run = n]
                          /\ Goto(r, "user") /\ UNCHANGED wire
    <3>1. FreshRuns # {} => (CHOOSE n \in FreshRuns : TRUE) \in FreshRuns
      OBVIOUS
    <3> QED
      BY <1>3, <3>1 DEF CreateRun, FreshRuns
  <2>2. /\ run'[n].key = call[r].key /\ run'[n].status = "RUNNING"
        /\ \A m \in Runs \ {n} : run'[m] = run[m]
    BY <2>1 DEF IInv, TypeOK, Run
  <2>3. /\ \A q \in Requests \ {r} : pc'[q] = pc[q] /\ call'[q] = call[q] /\ wire'[q] = wire[q]
        /\ pc'[r] = "user" /\ wire'[r] = wire[r]
        /\ call'[r].run = n /\ call'[r].key = call[r].key
    BY <2>1 DEF IInv, TypeOK, Goto, Call
  <2>4. RunsWith(call[r].key)' = RunsWith(call[r].key) \cup {n}
    BY <2>2, <2>3 DEF RunsWith
  <2>5. Fates(r)
    BY <1>1, <2>1, <2>2 DEF Fates
  <2> QED
    BY <1>1, <2>3, <2>4, <2>5 DEF ServiceDoes, Places, Tells, Working, Trying, Clearing
<1> QED
  BY <1>2, <1>3

\* A step of the try block that goes on, with its run written or not.
LEMMA GoesOn ==
  ASSUME IInv, NEW r \in Requests, NEW label \in Working, Fates(r), pc[r] \in Working,
         \A q \in Requests \ {r} : pc'[q] = pc[q] /\ call'[q] = call[q],
         UNCHANGED wire, pc'[r] = label,
         call'[r].key = call[r].key, call'[r].run = call[r].run
  PROVE  ServiceDoes(r)
BY DEF ServiceDoes, Places, Tells, Working, Trying, Clearing

LEMMA Ends ==
  ASSUME IInv, NEW r \in Requests, Fates(r),
         \/ Fail(r) /\ pc[r] \in {"lookup", "create", "user", "catch"} \cup Clearing
         \/ Finish(r) /\ pc[r] \in {"remember", "upsert"} \cup Clearing
  PROVE  ServiceDoes(r)
<1>1. CASE Fail(r) /\ pc[r] \in {"lookup", "create", "user", "catch"} \cup Clearing
  BY <1>1, EndTells DEF Fail, Outcomes, ServiceDoes, Places, Tells, Clearing
<1>2. CASE Finish(r) /\ pc[r] \in {"remember", "upsert"} \cup Clearing
  BY <1>2, EndTells DEF Finish, Outcomes, ServiceDoes, Places, Tells, Clearing
<1> QED
  BY <1>1, <1>2

LEMMA WorkContinues ==
  ASSUME IInv, NEW r \in Requests, NEW label \in Working, Fates(r), pc[r] \in Working,
         Continue(r, label)
  PROVE  ServiceDoes(r)
<1>1. label \in Labels
  BY DEF Labels, Working, Trying
<1> QED
  BY <1>1, ContinueKeeps, GoesOn DEF Continue

\* What the writes of the try block have in common.
LEMMA WorkWrites ==
  ASSUME IInv, NEW r \in Requests, pc[r] \in Trying, Stored(call[r].run),
         \/ run' = [run EXCEPT ![call[r].run].user = TRUE]
         \/ run' = [run EXCEPT ![call[r].run].tools = @ + 1]
         \/ run' = [run EXCEPT ![call[r].run].assistant = TRUE]
         \/ run' = [run EXCEPT ![call[r].run].status = "FAILED"]
         \/ run' = [run EXCEPT ![call[r].run].status = "SUCCEEDED"] /\ pc[r] = "succeed"
  PROVE  Fates(r)
<1>1. call[r].run \in Runs /\ run[call[r].run].status = "RUNNING"
  BY DEF IInv, RunInv, Stored, Working
<1>2. /\ run'[call[r].run].key = run[call[r].run].key
      /\ run'[call[r].run].status = "SUCCEEDED" => pc[r] = "succeed"
      /\ \A n \in Runs \ {call[r].run} : run'[n] = run[n]
  BY <1>1 DEF IInv, TypeOK, Run
<1> QED
  BY <1>1, <1>2 DEF Fates

LEMMA TryDoes ==
  ASSUME IInv, NEW r \in Requests,
         SayUser(r) \/ Think(r) \/ UseTool(r) \/ RecordTool(r) \/ Answer(r) \/ Succeed(r) \/ Catch(r)
  PROVE  ServiceDoes(r)
<1>1. CASE SayUser(r)
  <2>1. pc[r] = "user"
    BY <1>1 DEF SayUser, At
  <2>2. CASE Fail(r) /\ UNCHANGED run
    BY <2>1, <2>2, RunsStay, Ends
  <2>3. CASE ~(Fail(r) /\ UNCHANGED run)
    BY <1>1, <2>1, <2>3, WorkWrites, WorkContinues DEF SayUser, Working, Trying
  <2> QED
    BY <2>2, <2>3
<1>2. CASE Think(r)
  <2>1. pc[r] = "think" /\ run' = run
    BY <1>2 DEF Think, At, rows
  <2>2. PICK next \in {"answer", "catch", "tool"} : Continue(r, next)
    BY <1>2 DEF Think, Decisions
  <2> QED
    BY <2>1, <2>2, RunsStay, WorkContinues DEF Working, Trying
<1>3. CASE UseTool(r)
  <2>1. pc[r] = "tool" /\ run' = run /\ (Continue(r, "record") \/ Continue(r, "catch"))
    BY <1>3 DEF UseTool, At
  <2> QED
    BY <2>1, RunsStay, WorkContinues DEF Working, Trying
<1>4. CASE RecordTool(r)
  <2>1. pc[r] = "record"
    BY <1>4 DEF RecordTool, At
  <2>2. CASE Continue(r, "catch") /\ UNCHANGED run
    BY <2>1, <2>2, RunsStay, WorkContinues DEF Working, Trying
  <2>3. CASE /\ Stored(call[r].run)
             /\ run' = [run EXCEPT ![call[r].run].tools = @ + 1]
             /\ call' = [call EXCEPT ![r].step = @ + 1]
             /\ Goto(r, "think") /\ UNCHANGED wire
    <3>1. Fates(r)
      BY <2>1, <2>3, WorkWrites DEF Trying
    <3>2. /\ \A q \in Requests \ {r} : pc'[q] = pc[q] /\ call'[q] = call[q]
          /\ pc'[r] = "think" /\ call'[r].key = call[r].key /\ call'[r].run = call[r].run
      BY <2>3 DEF IInv, TypeOK, Goto, Call
    <3> QED
      BY <2>1, <2>3, <3>1, <3>2, GoesOn DEF Working, Trying
  <2> QED
    BY <1>4, <2>2, <2>3 DEF RecordTool
<1>5. CASE Answer(r)
  <2>1. pc[r] = "answer"
    BY <1>5 DEF Answer, At
  <2>2. CASE Continue(r, "catch") /\ UNCHANGED run
    BY <2>1, <2>2, RunsStay, WorkContinues DEF Working, Trying
  <2>3. CASE ~(Continue(r, "catch") /\ UNCHANGED run)
    BY <1>5, <2>1, <2>3, WorkWrites, WorkContinues DEF Answer, Working, Trying
  <2> QED
    BY <2>2, <2>3
<1>6. CASE Succeed(r)
  <2>1. pc[r] = "succeed"
    BY <1>6 DEF Succeed, At
  <2>2. CASE Continue(r, "catch") /\ UNCHANGED run
    BY <2>1, <2>2, RunsStay, WorkContinues DEF Working, Trying
  <2>3. CASE ~(Continue(r, "catch") /\ UNCHANGED run)
    BY <1>6, <2>1, <2>3, WorkWrites, WorkContinues DEF Succeed, Working, Trying
  <2> QED
    BY <2>2, <2>3
<1>7. CASE Catch(r)
  <2>1. pc[r] = "catch" /\ Fail(r)
    BY <1>7 DEF Catch, At
  <2>2. Fates(r)
    BY <1>7, <2>1, RunsStay, WorkWrites DEF Catch, Trying
  <2> QED
    BY <2>1, <2>2, Ends
<1> QED
  BY <1>1, <1>2, <1>3, <1>4, <1>5, <1>6, <1>7

\* Clearing: a run that has succeeded is DELETED, and keeps its key.
LEMMA ClearDoes ==
  ASSUME IInv, NEW r \in Requests,
         FindChunks(r) \/ DeletePoints(r) \/ DeleteChunks(r) \/ DeleteRuns(r)
  PROVE  ServiceDoes(r)
<1>1. CASE DeleteRuns(r)
  <2>1. pc[r] = "clearRuns" /\ Finish(r)
        /\ run' = [n \in Runs |-> IF Stored(n) THEN Erased(n) ELSE run[n]]
    BY <1>1 DEF DeleteRuns, At
  <2>2. \A n \in Runs : Erased(n).status = "DELETED" /\ Erased(n).key = run[n].key
    BY DEF Erased, NoRun
  <2>3. Fates(r)
    BY <2>1, <2>2 DEF Fates, Stored
  <2> QED
    BY <2>1, <2>3, Ends DEF Clearing
<1>2. CASE FindChunks(r) \/ DeletePoints(r) \/ DeleteChunks(r)
  <2>1. /\ pc[r] \in Clearing /\ run' = run /\ UNCHANGED wire
        /\ pc'[r] \in Clearing /\ \A q \in Requests \ {r} : pc'[q] = pc[q] /\ call'[q] = call[q]
        /\ call'[r].key = call[r].key
    BY <1>2 DEF FindChunks, DeletePoints, DeleteChunks, At, Continue, Goto, Clearing, IInv, TypeOK,
       Call
  <2>2. pc[r] \notin {"lookup", "create", "idle"} \cup Working /\ pc'[r] # "idle"
    BY <2>1 DEF Clearing, Working, Trying
  <2> QED
    BY <2>1, <2>2, RunsStay DEF ServiceDoes, Places, Tells
<1> QED
  BY <1>1, <1>2

LEMMA ProceedDoes == ASSUME IInv, NEW r \in Requests, Proceed(r) PROVE ServiceDoes(r)
<1>1. CASE Throw(r)
  BY <1>1, RunsStay, Ends DEF Throw, rows
<1>2. CASE Remember(r)
  <2>1. pc[r] = "remember" /\ run' = run /\ (Continue(r, "upsert") \/ Finish(r))
    BY <1>2 DEF Remember, NotRemembered, At
  <2> QED
    BY <2>1, RunsStay, WorkContinues, Ends DEF Working
<1>3. CASE Upsert(r)
  <2>1. pc[r] = "upsert" /\ run' = run /\ Finish(r)
    BY <1>3 DEF Upsert, NotRemembered, At
  <2> QED
    BY <2>1, RunsStay, Ends
<1> QED
  BY <1>1, <1>2, <1>3, LookUpDoes, CreateRunDoes, TryDoes, ClearDoes DEF Proceed

\* A run somebody works on is not a row of the future.
LEMMA RunIsThere ==
  ASSUME IInv, NEW r \in Requests, pc[r] \in Working
  PROVE  call[r].run \in Runs /\ run[call[r].run].status # "ABSENT"
BY DEF IInv, RunInv, Working

LEMMA NotThere == None \notin Keys /\ None \notin Requests
BY RunsAssumption, ChatAssumption

LEMMA KeysStay ==
  ASSUME IInv, OutcomeInv, NEW r \in Requests, ServiceDoes(r), NEW q \in Requests
  PROVE  KeyInv(q)'
<1>1. KeyInv(q) /\ KeyInv(r)
  BY DEF OutcomeInv
<1>2. CASE q # r
  BY <1>1, <1>2, RunIsThere DEF ServiceDoes, Fates, KeyInv
<1>3. CASE q = r /\ pc'[r] = "idle"
  BY <1>3 DEF ServiceDoes, Places, KeyInv, Clearing, Working, Trying
<1>4. CASE q = r /\ pc'[r] # "idle" /\ pc[r] = "create"
  BY <1>4 DEF ServiceDoes, Places, KeyInv, Clearing, Working, Trying, RunsWith
<1>5. CASE q = r /\ pc'[r] # "idle" /\ pc[r] = "lookup"
  BY <1>5 DEF ServiceDoes, Places, KeyInv, Clearing, Working, Trying
<1>6. CASE q = r /\ pc'[r] # "idle" /\ pc[r] \in Working
  <2>1. run'[call[r].run].key = run[call[r].run].key /\ pc'[r] \notin Clearing
    BY <1>6, RunIsThere DEF ServiceDoes, Places, Fates, Working, Trying, Clearing
  <2> QED
    BY <1>1, <1>6, <2>1 DEF ServiceDoes, Places, KeyInv
<1>7. CASE q = r /\ pc'[r] # "idle" /\ pc[r] \in Clearing
  BY <1>1, <1>7 DEF ServiceDoes, Places, KeyInv, Clearing, Working, Trying
<1> QED
  BY <1>2, <1>3, <1>4, <1>5, <1>6, <1>7 DEF ServiceDoes, Places

\* A drawer whose request is another one.
LEMMA OthersAgree ==
  ASSUME IInv, OutcomeInv, NEW r \in Requests, NEW d \in Drawers,
         socket[d] \in Requests \ {r}, OwnInv(d),
         UNCHANGED <<asked, erasing>>, socket'[d] = socket[d],
         \A e \in Drawers : socket'[e] \in {None, socket[e]},
         \A q \in Requests \ {r} : pc'[q] = pc[q] /\ call'[q] = call[q] /\ wire'[q] = wire[q],
         call'[r].key \in {None, call[r].key}, Fates(r)
  PROVE  OwnInv(d)'
<1> DEFINE s == socket[d]
           k == asked[d]
<1>1. /\ s \in Requests \ {r} /\ s # None /\ k \in Keys \ ApiKeys /\ k # None
      /\ call[r].key # k /\ s' = s /\ k' = k
      /\ pc'[s] = pc[s] /\ call'[s] = call[s] /\ wire'[s] = wire[s]
  BY NotThere DEF OwnInv
<1>2. \A n \in Runs : run'[n].key = k => run[n].key = k
  BY <1>1 DEF Fates
<1>3. \A n \in Runs : run[n].key = k /\ run[n].status # "ABSENT" => run'[n].key = k
  BY <1>1 DEF Fates
<1>4. pc[s] \in {"lookup", "create"} => RunsWith(k)' = {}
  BY <1>1, <1>2 DEF OwnInv, RunsWith
<1>5. pc[s] \in Working => RunsWith(k)' = {call[s].run}
  <2>1. ASSUME pc[s] \in Working PROVE RunsWith(k)' = {call[s].run}
    <3>1. call[s].run \in Runs /\ run[call[s].run].status # "ABSENT"
      BY <1>1, <2>1, RunIsThere
    <3>2. RunsWith(k) = {call[s].run}
      BY <2>1 DEF OwnInv
    <3> QED
      BY <1>1, <1>2, <1>3, <3>1, <3>2 DEF RunsWith
  <2> QED
    BY <2>1
<1>6. wire[s] = "completed" =>
        \E n \in RunsWith(k)' : run'[n].status \in {"SUCCEEDED", "DELETED"}
  <2>1. ASSUME wire[s] = "completed"
        PROVE  \E n \in RunsWith(k)' : run'[n].status \in {"SUCCEEDED", "DELETED"}
    <3>1. PICK n \in RunsWith(k) : run[n].status \in {"SUCCEEDED", "DELETED"}
      BY <2>1 DEF OwnInv
    <3>2. n \in Runs /\ run'[n].key = k /\ run'[n].status \in {"SUCCEEDED", "DELETED"}
      BY <1>3, <3>1 DEF RunsWith, Fates
    <3> QED
      BY <1>1, <3>2 DEF RunsWith
  <2> QED
    BY <2>1
<1>7. wire[s] = "failed" => \A n \in RunsWith(k)' : run'[n].status # "SUCCEEDED"
  <2>1. ASSUME wire[s] = "failed", NEW n \in RunsWith(k)', run'[n].status = "SUCCEEDED" PROVE FALSE
    <3>1. n \in Runs /\ run[n].key = k /\ run[n].status # "SUCCEEDED"
      BY <1>1, <1>2, <2>1 DEF RunsWith, OwnInv
    <3>2. pc[r] = "succeed" /\ n = call[r].run
      BY <2>1, <3>1 DEF Fates
    <3>3. run[n].key = call[r].key
      BY <3>2 DEF OutcomeInv, KeyInv, Working, Trying
    <3> QED
      BY <1>1, <3>1, <3>3
  <2> QED
    BY <2>1
<1>8. /\ \A e \in Drawers : erasing'[e] # s /\ (e # d => socket'[e] # s)
      /\ \A q \in Requests \ {s} : call'[q].key # k
      /\ pc[s] \notin Clearing /\ (pc[s] # "idle" => call[s].key = k /\ wire[s] = "open")
      /\ (pc[s] = "idle" => wire[s] \in Outcomes)
  BY <1>1 DEF OwnInv
<1> HIDE DEF s, k
<1>9. s = socket[d] /\ s' = socket'[d] /\ k = asked[d] /\ k' = asked'[d]
  BY DEF s, k
<1> QED
  BY <1>1, <1>4, <1>5, <1>6, <1>7, <1>8, <1>9 DEF OwnInv

\* The drawer whose request it is.
LEMMA OwnAgrees ==
  ASSUME IInv, OutcomeInv, NEW d \in Drawers, socket[d] \in Requests, OwnInv(d),
         UNCHANGED drawer, ServiceDoes(socket[d])
  PROVE  OwnInv(d)'
<1> DEFINE s == socket[d]
           k == asked[d]
<1>1. /\ s \in Requests /\ k \in Keys \ ApiKeys /\ k # None /\ s' = s /\ k' = k
      /\ UNCHANGED <<asked, socket, erasing>>
      /\ call[s].key = k /\ wire[s] = "open" /\ pc[s] # "idle" /\ pc[s] \notin Clearing
      /\ ServiceDoes(s)
  BY NotThere DEF OwnInv, ServiceDoes, drawer
<1>2. /\ \A e \in Drawers : erasing'[e] # s /\ (e # d => socket'[e] # s)
      /\ \A q \in Requests \ {s} : call'[q].key # k
  BY <1>1 DEF OwnInv, ServiceDoes
<1>3. pc[s] # "create" => RunsWith(k)' = RunsWith(k)
  BY <1>1 DEF ServiceDoes, Fates, RunsWith
<1>4. pc[s] \in {"lookup", "create"} => RunsWith(k) = {}
  BY DEF OwnInv
<1>5. pc[s] \in Working => RunsWith(k) = {call[s].run}
  BY DEF OwnInv
<1>6. CASE pc'[s] # "idle"
  <2>1. call'[s].key = k /\ wire'[s] = "open" /\ pc'[s] \notin Clearing
    BY <1>1, <1>6 DEF ServiceDoes, Places, Clearing, Working, Trying
  <2>2. pc'[s] \in {"lookup", "create"} => RunsWith(k)' = {}
    BY <1>1, <1>3, <1>4, <1>6 DEF ServiceDoes, Places, Working, Trying
  <2>3. pc'[s] \in Working => RunsWith(k)' = {call'[s].run}
    BY <1>1, <1>3, <1>4, <1>5, <1>6 DEF ServiceDoes, Places, Working, Trying
  <2> HIDE DEF s, k
  <2>4. s = socket[d] /\ s' = socket'[d] /\ k = asked[d] /\ k' = asked'[d]
    BY DEF s, k
  <2> QED
    BY <1>1, <1>2, <1>6, <2>1, <2>2, <2>3, <2>4 DEF OwnInv
<1>7. CASE pc'[s] = "idle"
  <2>1. CASE wire'[s] = "failed" /\ pc[s] \in {"lookup", "create", "user", "catch"}
    <3>1. \A n \in RunsWith(k)' : run'[n].status # "SUCCEEDED"
      <4>1. CASE pc[s] \in {"user", "catch"}
        <5>1. run[call[s].run].status \in {"RUNNING", "DELETED"} /\ call[s].run \in Runs
          BY <1>1, <4>1 DEF IInv, RunInv, Trying, Working
        <5>2. RunsWith(k)' = {call[s].run}
          BY <1>3, <1>5, <4>1 DEF Working, Trying
        <5> QED
          BY <1>1, <4>1, <5>1, <5>2 DEF ServiceDoes, Fates
      <4>2. CASE pc[s] = "lookup"
        BY <1>3, <1>4, <4>2
      <4>3. CASE pc[s] = "create"
        BY <1>1, <1>4, <4>3 DEF ServiceDoes, Fates, RunsWith
      <4> QED
        BY <2>1, <4>1, <4>2, <4>3
    <3> HIDE DEF s, k
    <3>2. s = socket[d] /\ s' = socket'[d] /\ k = asked[d] /\ k' = asked'[d]
      BY DEF s, k
    <3> QED
      BY <1>1, <1>2, <1>7, <2>1, <3>1, <3>2 DEF OwnInv, Outcomes, Clearing, Working, Trying
  <2>2. CASE wire'[s] = "completed" /\ pc[s] \in {"remember", "upsert"}
    <3>1. \E n \in RunsWith(k)' : run'[n].status \in {"SUCCEEDED", "DELETED"}
      <4>1. run[call[s].run].status \in {"SUCCEEDED", "DELETED"} /\ call[s].run \in Runs
        BY <1>1, <2>2 DEF IInv, RunInv, Trying, Working
      <4>2. RunsWith(k)' = {call[s].run}
        BY <1>3, <1>5, <2>2 DEF Working, Trying
      <4> QED
        BY <1>1, <4>1, <4>2 DEF ServiceDoes, Fates
    <3> HIDE DEF s, k
    <3>2. s = socket[d] /\ s' = socket'[d] /\ k = asked[d] /\ k' = asked'[d]
      BY DEF s, k
    <3> QED
      BY <1>1, <1>2, <1>7, <2>2, <3>1, <3>2 DEF OwnInv, Outcomes, Clearing, Working, Trying
  <2> QED
    BY <1>1, <1>4, <1>7, <2>1, <2>2 DEF ServiceDoes, Tells
<1> QED
  BY <1>6, <1>7

LEMMA ServeAgrees ==
  ASSUME ChatInv, OutcomeInv, NEW r \in Requests, Proceed(r), UNCHANGED drawer
  PROVE  OutcomeInv'
<1>1. IInv /\ ServiceDoes(r) /\ UNCHANGED <<asked, socket, erasing>>
  BY ProceedDoes DEF ChatInv, drawer
<1>2. \A q \in Requests : KeyInv(q)'
  BY <1>1, KeysStay
<1>3. ASSUME NEW d \in Drawers, socket'[d] # None PROVE OwnInv(d)'
  <2>1. socket[d] \in Requests /\ OwnInv(d)
    BY <1>1, <1>3 DEF ChatInv, DrawersOK, OutcomeInv
  <2>2. CASE socket[d] = r
    BY <1>1, <2>1, <2>2, OwnAgrees
  <2>3. CASE socket[d] # r
    <3>1. call'[r].key \in {None, call[r].key}
      BY <1>1 DEF ServiceDoes, Places
    <3> QED
      BY <1>1, <2>1, <2>3, <3>1, OthersAgree DEF ServiceDoes, ChatInv, DrawersOK
  <2> QED
    BY <2>2, <2>3
<1> QED
  BY <1>2, <1>3 DEF OutcomeInv

LEMMA CrashAgrees ==
  ASSUME ChatInv, OutcomeInv, NEW r \in Requests, CrashHere(r)
  PROVE  OutcomeInv'
<1>1. /\ IInv /\ run' = run /\ UNCHANGED <<asked, erasing>>
      /\ socket' = [d \in Drawers |-> IF socket[d] = r THEN None ELSE socket[d]]
      /\ pc'[r] = "idle" /\ call'[r].key = None
      /\ \A q \in Requests \ {r} : pc'[q] = pc[q] /\ call'[q] = call[q] /\ wire'[q] = wire[q]
  BY DEF CrashHere, Crash, Return, Goto, NoCall, rows, ChatInv, IInv, TypeOK
<1>2. Fates(r)
  BY <1>1, RunsStay
<1>3. \A q \in Requests : KeyInv(q)'
  BY <1>1 DEF OutcomeInv, KeyInv, Working, Trying
<1>4. ASSUME NEW d \in Drawers, socket'[d] # None PROVE OwnInv(d)'
  <2>1. socket'[d] = socket[d] /\ socket[d] # r /\ socket[d] \in Requests /\ OwnInv(d)
    BY <1>1, <1>4 DEF ChatInv, DrawersOK, OutcomeInv
  <2> QED
    BY <1>1, <1>2, <2>1, OthersAgree
<1> QED
  BY <1>3, <1>4 DEF OutcomeInv

\* A request of somebody else begins, with another key or to clear.
LEMMA BeginAgrees ==
  ASSUME ChatInv, OutcomeInv, NEW r \in Requests, run' = run,
         pc[r] = "idle", Unclaimed(r),
         \A q \in Requests \ {r} : pc'[q] = pc[q] /\ call'[q] = call[q] /\ wire'[q] = wire[q],
         KeyInv(r)',
         NEW d \in Drawers, socket[d] # None, UNCHANGED <<asked, socket>>,
         \A e \in Drawers : erasing'[e] \in {erasing[e], r}, call'[r].key # asked[d]
  PROVE  OwnInv(d)'
<1>1. socket[d] \in Requests \ {r} /\ OwnInv(d)
  BY DEF ChatInv, DrawersOK, OutcomeInv, Unclaimed
<1> QED
  BY <1>1 DEF OwnInv, RunsWith

LEMMA AskIs ==
  ASSUME IInv, NEW r \in Requests, NEW k \in Keys, NEW connected \in BOOLEAN,
         Ask(r, k, connected)
  PROVE  /\ pc[r] = "idle" /\ pc'[r] = "lookup" /\ run' = run /\ wire[r] = "closed"
         /\ call'[r].key = k
         /\ wire'[r] = IF connected THEN "open" ELSE "closed"
         /\ \A q \in Requests \ {r} : pc'[q] = pc[q] /\ call'[q] = call[q] /\ wire'[q] = wire[q]
BY DEF Ask, Begin, At, Goto, rows, IInv, TypeOK, Call

LEMMA OtherAgrees ==
  ASSUME ChatInv, OutcomeInv, NEW r \in Requests, Other(r)
  PROVE  OutcomeInv'
<1>1. PICK k \in ApiKeys : Ask(r, k, FALSE)
  BY DEF Other
<1>2. /\ k \in Keys /\ Unclaimed(r) /\ UNCHANGED <<asked, socket, erasing>>
      /\ pc[r] = "idle" /\ pc'[r] = "lookup" /\ run' = run /\ call'[r].key = k
      /\ \A q \in Requests \ {r} : pc'[q] = pc[q] /\ call'[q] = call[q] /\ wire'[q] = wire[q]
  BY <1>1, ChatAssumption, AskIs DEF Other, drawer, ChatInv
<1>3. \A q \in Requests : KeyInv(q)'
  BY <1>2 DEF OutcomeInv, KeyInv, Working, Trying, Clearing
<1>4. ASSUME NEW d \in Drawers, socket'[d] # None PROVE OwnInv(d)'
  <2>1. OwnInv(d) /\ asked[d] \in Keys \ ApiKeys
    BY <1>2, <1>4 DEF OutcomeInv, OwnInv
  <2> QED
    BY <1>2, <1>3, <1>4, <2>1, BeginAgrees
<1> QED
  BY <1>3, <1>4 DEF OutcomeInv

LEMMA SendAgrees ==
  ASSUME ChatInv, OutcomeInv, NEW d \in Drawers, NEW r \in Requests, Send(d, r)
  PROVE  OutcomeInv'
<1> DEFINE k == CHOOSE k \in FreshKeys : TRUE
<1>1. /\ FreshKeys # {} /\ Unclaimed(r) /\ Ask(r, k, TRUE)
      /\ asked' = [asked EXCEPT ![d] = k] /\ socket' = [socket EXCEPT ![d] = r]
      /\ erasing' = erasing
  BY DEF Send
<1>2. k \in FreshKeys
  BY <1>1
<1>3. /\ k \in Keys \ ApiKeys /\ \A n \in Runs : run[n].key # k
      /\ \A q \in Requests : call[q].key # k
      /\ \A e \in Drawers : asked[e] # k
  BY <1>2 DEF FreshKeys
<1> HIDE DEF k
<1>4. /\ pc[r] = "idle" /\ pc'[r] = "lookup" /\ run' = run /\ call'[r].key = k
      /\ wire'[r] = "open"
      /\ \A q \in Requests \ {r} : pc'[q] = pc[q] /\ call'[q] = call[q] /\ wire'[q] = wire[q]
  BY <1>1, <1>3, AskIs DEF ChatInv
<1>5. /\ asked'[d] = k /\ socket'[d] = r
      /\ \A e \in Drawers \ {d} : asked'[e] = asked[e] /\ socket'[e] = socket[e]
  BY <1>1 DEF ChatInv, DrawersOK
<1>6. \A q \in Requests : KeyInv(q)'
  BY <1>4 DEF OutcomeInv, KeyInv, Working, Trying, Clearing
<1>7. OwnInv(d)'
  BY <1>1, <1>3, <1>4, <1>5 DEF OwnInv, RunsWith, Unclaimed, Working, Trying, Clearing
<1>8. ASSUME NEW e \in Drawers \ {d}, socket'[e] # None PROVE OwnInv(e)'
  <2>1. OwnInv(e) /\ socket[e] \in Requests \ {r} /\ asked'[e] = asked[e] /\ socket'[e] = socket[e]
    BY <1>1, <1>5, <1>8 DEF OutcomeInv, ChatInv, DrawersOK, Unclaimed
  <2>2. asked[e] # k /\ \A f \in Drawers : f # e => socket'[f] # socket[e]
    BY <1>3, <1>5, <2>1 DEF OwnInv
  <2> QED
    BY <1>1, <1>4, <2>1, <2>2 DEF OwnInv, RunsWith
<1> QED
  BY <1>6, <1>7, <1>8 DEF OutcomeInv

LEMMA NewChatAgrees ==
  ASSUME ChatInv, OutcomeInv, NEW d \in Drawers, NEW r \in Requests, NewChat(d, r)
  PROVE  OutcomeInv'
<1>1. /\ Unclaimed(r) /\ UNCHANGED <<asked, socket>> /\ erasing' = [erasing EXCEPT ![d] = r]
      /\ run' = run /\ pc[r] = "idle" /\ pc'[r] = "clearFind" /\ call' = call
      /\ \A q \in Requests \ {r} : pc'[q] = pc[q] /\ call'[q] = call[q] /\ wire'[q] = wire[q]
  BY DEF NewChat, Clear, Begin, At, Goto, rows, ChatInv, IInv, TypeOK
<1>2. \A q \in Requests : KeyInv(q)'
  BY <1>1 DEF OutcomeInv, KeyInv, Working, Trying
<1>3. \A e \in Drawers : erasing'[e] \in {erasing[e], r}
  BY <1>1 DEF ChatInv, DrawersOK
<1>4. ASSUME NEW e \in Drawers, socket'[e] # None PROVE OwnInv(e)'
  <2>1. OwnInv(e) /\ call[r].key # asked[e]
    BY <1>1, <1>4, NotThere DEF OutcomeInv, OwnInv, KeyInv
  <2> QED
    BY <1>1, <1>2, <1>3, <1>4, <2>1, BeginAgrees
<1> QED
  BY <1>2, <1>4 DEF OutcomeInv

\* A drawer hears, or gives up: the others' requests stay.
LEMMA HearAgrees ==
  ASSUME ChatInv, OutcomeInv, NEW d \in Drawers,
         Close(d) \/ HearOutcome(d) \/ LoseConnection(d) \/ ConnectError(d) \/ ChatCleared(d)
  PROVE  OutcomeInv'
<1>1. UNCHANGED <<run, pc, call>>
  BY DEF Close, HearOutcome, Disconnect, LoseConnection, ConnectError, ChatCleared, vars, rows
<1>2. \A e \in Drawers :
        /\ socket'[e] \in {None, socket[e]} /\ erasing'[e] \in {None, erasing[e]}
        /\ socket'[e] # None => asked'[e] = asked[e]
  BY NotThere DEF Close, HearOutcome, EndSend, LoseConnection, ConnectError, ChatCleared,
     ChatInv, DrawersOK
<1>3. ASSUME NEW e \in Drawers, socket'[e] # None PROVE wire'[socket[e]] = wire[socket[e]]
  <2>1. socket[e] \in Requests /\ OwnInv(e) /\ socket'[e] = socket[e]
    BY <1>2, <1>3 DEF OutcomeInv, ChatInv, DrawersOK
  <2>2. \A f \in Drawers : erasing[f] # socket[e] /\ (f # e => socket[f] # socket[e])
    BY <2>1 DEF OwnInv
  <2>3. e = d => ~Close(d) /\ ~HearOutcome(d) /\ ~LoseConnection(d)
    BY <1>3 DEF Close, HearOutcome, EndSend, LoseConnection, ChatInv, DrawersOK
  <2> QED
    BY <2>1, <2>2, <2>3 DEF Close, HearOutcome, Disconnect, LoseConnection, ConnectError,
       ChatCleared, vars, ChatInv, IInv, TypeOK
<1>4. \A q \in Requests : KeyInv(q)'
  BY <1>1 DEF OutcomeInv, KeyInv
<1>5. ASSUME NEW e \in Drawers, socket'[e] # None PROVE OwnInv(e)'
  <2>1. /\ socket'[e] = socket[e] /\ asked'[e] = asked[e] /\ wire'[socket[e]] = wire[socket[e]]
        /\ socket[e] \in Requests /\ socket[e] # None /\ OwnInv(e)
    BY <1>2, <1>3, <1>5, NotThere DEF OutcomeInv, ChatInv, DrawersOK
  <2>2. \A f \in Drawers : erasing'[f] # socket[e] /\ (f # e => socket'[f] # socket[e])
    BY <1>2, <2>1 DEF OwnInv
  <2> QED
    BY <1>1, <2>1, <2>2 DEF OwnInv, RunsWith
<1> QED
  BY <1>4, <1>5 DEF OutcomeInv

LEMMA OutcomeStep == ChatInv /\ OutcomeInv /\ [ChatNext]_chat => OutcomeInv'
<1> SUFFICES ASSUME ChatInv, OutcomeInv, [ChatNext]_chat PROVE OutcomeInv'
  OBVIOUS
<1>1. CASE UNCHANGED chat
  BY <1>1 DEF chat, vars, drawer, OutcomeInv, KeyInv, OwnInv, RunsWith
<1>2. CASE ChatNext
  BY <1>2, OtherAgrees, ServeAgrees, CrashAgrees, SendAgrees, NewChatAgrees, HearAgrees
  DEF ChatNext, Drawer, Serve
<1> QED
  BY <1>1, <1>2

(* What a drawer is about to be told of its question is so, for any number *)
(* of drawers: its key is its own, and so is the run made with it.         *)
THEOREM ToldRight == ChatSpec => []OutcomesAgree
<1>1. ChatInit => OutcomeInv
  BY NoCallIsCall DEF ChatInit, Init, OutcomeInv, KeyInv, NoCall, Working, Trying, Clearing
<1>2. ChatInv /\ OutcomeInv => OutcomesAgree
  <2> SUFFICES ASSUME ChatInv, OutcomeInv, NEW d \in Drawers, socket[d] # None
               PROVE  LET fate == {run[n].status : n \in {n \in Runs : run[n].key = asked[d]}}
                      IN /\ wire[socket[d]] = "completed" => fate \cap {"SUCCEEDED", "DELETED"} # {}
                         /\ wire[socket[d]] = "failed" => "SUCCEEDED" \notin fate
    BY DEF OutcomesAgree
  <2> QED
    BY DEF OutcomeInv, OwnInv, RunsWith
<1> QED
  BY <1>1, <1>2, OutcomeStep, Invariance, PTL DEF ChatSpec

-----------------------------------------------------------------------------
(* The limits of agent and authentication requests (RateLimit).            *)

Entry == [key : LimitKeys, store : Stores, time : Nat, admitted : BOOLEAN]

\* When the tries of the log happened.
Moments == [n \in DOMAIN log |-> log[n].time]

\* Of the tries N at the times at: those from t on, and those from t to u.
From(at, N, t) == {n \in N : t <= at[n]}
Between(at, N, t, u) == {n \in N : t <= at[n] /\ at[n] < u}

\* N are the tries on a key that Redis let pass, b is its bucket.  The count
\* began at start: what came before lies a whole window further back, so that
\* no window reaches over the beginning of the count.
RedisWindow(at, N, b, now, limit) ==
  \E start \in Int :
    /\ start <= now
    /\ \A n \in N : /\ at[n] + Window <= b.resetAt
                    /\ at[n] >= start \/ at[n] + Window <= start
    /\ Cardinality(From(at, N, start)) <= b.count
    /\ Cardinality(From(at, N, start)) <= limit
    /\ \A t \in Int : Cardinality(Between(at, N, t, t + Window)) <= limit

\* N are the tries on a key that the memory of an instance let pass, T those
\* in any store.  Its windows do not overlap, and a window of the clock meets
\* two of them at most.
InstanceWindow(at, N, T, b, now, limit) ==
  \E start \in Int :
    /\ start = b.resetAt - Window
    /\ start <= now
    /\ \A n \in N : at[n] < b.resetAt
    /\ Cardinality(From(at, N, start)) <= b.count
    /\ Cardinality(From(at, N, start)) <= limit
    /\ \A t \in Int : t > start - Window => Cardinality(Between(at, N, t, start)) <= limit
    /\ \A t \in Int : Cardinality(Between(at, N, t, t + Window)) <= 2 * limit
    /\ Cardinality(From(at, T, start)) >= b.count

\* T are the tries on a key in any store.  As long as Redis remembers the key,
\* it counts tries that began at start and did not pause for a window: until
\* resetAt there is no moment without a try in the window before it.
RedisStreak(at, T, b, now) ==
  b.resetAt > now =>
    \E start \in Nat :
      /\ start <= now
      /\ Cardinality(From(at, T, start)) >= b.count
      /\ \A u \in Int : start <= u /\ u < b.resetAt =>
           \E n \in T : u - Window < at[n] /\ at[n] <= u

-----------------------------------------------------------------------------
(* The log and its windows.                                                *)

\* at2 are the times at with one more, now, at a new place m.
Later(D, at, m, now, at2) ==
  /\ IsFiniteSet(D)
  /\ at \in [D -> Nat]
  /\ m \notin D
  /\ now \in Nat
  /\ at2 \in [D \cup {m} -> Nat]
  /\ \A n \in D : at2[n] = at[n]
  /\ at2[m] = now

\* Parts of a finite set are no greater than it.
LEMMA Parts ==
  ASSUME NEW D, IsFiniteSet(D), NEW N \in SUBSET D
  PROVE  /\ IsFiniteSet(N)
         /\ Cardinality(N) \in Nat
         /\ \A M \in SUBSET N : Cardinality(M) \in Nat /\ Cardinality(M) <= Cardinality(N)
  BY FS_Subset, FS_CardinalityType

\* The tries of N from t on, when there is one more and perhaps N has it.
LEMMA FromGrows ==
  ASSUME NEW D, NEW at, NEW m, NEW now, NEW at2, Later(D, at, m, now, at2),
         NEW N \in SUBSET D, NEW M, M = N \/ M = N \cup {m}, NEW t \in Int
  PROVE  /\ Cardinality(From(at, N, t)) \in Nat
         /\ Cardinality(From(at2, M, t)) \in Nat
         /\ M = N => Cardinality(From(at2, M, t)) = Cardinality(From(at, N, t))
         /\ Cardinality(From(at2, M, t)) >= Cardinality(From(at, N, t))
         /\ M # N /\ t <= now =>
              Cardinality(From(at2, M, t)) = Cardinality(From(at, N, t)) + 1
<1>1. From(at, N, t) \in SUBSET D /\ m \notin From(at, N, t)
  BY DEF Later, From
<1>2. From(at2, N, t) = From(at, N, t)
  BY DEF Later, From
<1>3. ~(t <= now) => From(at2, N \cup {m}, t) = From(at, N, t)
  BY DEF Later, From
<1>4. t <= now => From(at2, N \cup {m}, t) = From(at, N, t) \cup {m}
  BY DEF Later, From
<1>5. IsFiniteSet(From(at, N, t)) /\ Cardinality(From(at, N, t)) \in Nat
  BY <1>1, Parts DEF Later
<1>6. Cardinality(From(at, N, t) \cup {m}) = Cardinality(From(at, N, t)) + 1
  BY <1>1, <1>5, FS_AddElement
<1> QED
  BY <1>2, <1>3, <1>4, <1>5, <1>6

\* A stretch of time that the new try is outside of has the tries it had.
LEMMA BetweenStays ==
  ASSUME NEW D, NEW at, NEW m, NEW now, NEW at2, Later(D, at, m, now, at2),
         NEW N \in SUBSET D, NEW M, M = N \/ M = N \cup {m},
         NEW t \in Int, NEW u \in Int, M = N \/ now < t \/ u <= now
  PROVE  Between(at2, M, t, u) = Between(at, N, t, u)
  BY DEF Later, Between

-----------------------------------------------------------------------------
(* The windows of Redis.                                                   *)

\* A try that changes neither the bucket nor what Redis let pass.
LEMMA RedisLeft ==
  ASSUME NEW D, NEW at, NEW m, NEW now, NEW at2, Later(D, at, m, now, at2),
         NEW N \in SUBSET D, NEW b, NEW limit,
         RedisWindow(at, N, b, now, limit)
  PROVE  RedisWindow(at2, N, b, now, limit)
<1>1. \A n \in N : at2[n] = at[n]
  BY DEF Later
<1>2. \A t \in Int : From(at2, N, t) = From(at, N, t)
  BY <1>1 DEF From
<1>3. \A t, u : Between(at2, N, t, u) = Between(at, N, t, u)
  BY <1>1 DEF Between
<1> QED
  BY <1>1, <1>2, <1>3 DEF RedisWindow

\* A try that Redis counts, whoever hears of it: M is N, or the try besides.
LEMMA RedisCounts ==
  ASSUME NEW D, NEW at, NEW m, NEW now, NEW at2, Later(D, at, m, now, at2),
         NEW N \in SUBSET D, \A n \in N : at[n] <= now,
         NEW b \in [count : Nat, resetAt : Nat], NEW limit \in Nat,
         RedisWindow(at, N, b, now, limit),
         NEW c \in [count : Nat, resetAt : Nat],
         c.count = IF b.resetAt > now THEN b.count + 1 ELSE 1,
         c.resetAt = now + Window,
         NEW M, M = N \/ (M = N \cup {m} /\ c.count <= limit)
  PROVE  RedisWindow(at2, M, c, now, limit)
<1>0. /\ now \in Nat /\ Window \in Nat /\ Window > 0
      /\ b.count \in Nat /\ b.resetAt \in Nat /\ c.count \in Nat
      /\ \A n \in N : at2[n] = at[n] /\ at[n] \in Nat
      /\ at2[m] = now
  BY LimitAssumption DEF Later
<1>1. PICK old \in Int :
        /\ old <= now
        /\ \A n \in N : /\ at[n] + Window <= b.resetAt
                        /\ at[n] >= old \/ at[n] + Window <= old
        /\ Cardinality(From(at, N, old)) <= b.count
        /\ Cardinality(From(at, N, old)) <= limit
        /\ \A t \in Int : Cardinality(Between(at, N, t, t + Window)) <= limit
  BY DEF RedisWindow
<1>2. PICK start \in Int :
        /\ b.resetAt > now => start = old
        /\ ~(b.resetAt > now) => start = now
  BY <1>0
<1>3. start <= now
  BY <1>0, <1>1, <1>2
<1>4. ASSUME NEW n \in N
      PROVE  /\ at[n] + Window <= c.resetAt
             /\ at[n] >= start \/ at[n] + Window <= start
  BY <1>0, <1>1, <1>2
<1>5. ASSUME NEW n \in M
      PROVE  /\ at2[n] + Window <= c.resetAt
             /\ at2[n] >= start \/ at2[n] + Window <= start
             /\ at2[n] \in Nat
  BY <1>0, <1>3, <1>4
<1>6. /\ Cardinality(From(at, N, start)) <= c.count - 1
      /\ Cardinality(From(at, N, start)) <= limit
  <2>1. CASE b.resetAt > now
    <3>1. start = old /\ c.count = b.count + 1
      BY <2>1, <1>2
    <3> QED
      BY <3>1, <1>0, <1>1
  <2>2. CASE ~(b.resetAt > now)
    <3>1. start = now /\ c.count = 1
      BY <2>2, <1>2
    <3>2. From(at, N, now) = {}
      BY <2>2, <1>0, <1>1 DEF From
    <3> QED
      BY <3>1, <3>2, FS_EmptySet
  <2> QED
    BY <2>1, <2>2
<1>7. /\ Cardinality(From(at2, M, start)) <= c.count
      /\ Cardinality(From(at2, M, start)) <= limit
  <2>1. /\ Cardinality(From(at, N, start)) \in Nat
        /\ M = N => Cardinality(From(at2, M, start)) = Cardinality(From(at, N, start))
        /\ M # N => Cardinality(From(at2, M, start)) = Cardinality(From(at, N, start)) + 1
    BY <1>3, FromGrows
  <2> QED
    BY <2>1, <1>0, <1>6
<1>8. ASSUME NEW t \in Int
      PROVE  Cardinality(Between(at2, M, t, t + Window)) <= limit
  <2>1. CASE t <= now /\ now < t + Window
    <3>1. Between(at2, M, t, t + Window) \in SUBSET From(at2, M, start)
      BY <2>1, <1>0, <1>3, <1>5 DEF Between, From
    <3>2. From(at2, M, start) \in SUBSET (D \cup {m}) /\ IsFiniteSet(D \cup {m})
      BY FS_AddElement DEF From, Later
    <3>3. /\ Cardinality(Between(at2, M, t, t + Window)) <= Cardinality(From(at2, M, start))
          /\ Cardinality(Between(at2, M, t, t + Window)) \in Nat
          /\ Cardinality(From(at2, M, start)) \in Nat
      BY <3>1, <3>2, Parts
    <3> QED
      BY <3>3, <1>7
  <2>2. CASE ~(t <= now /\ now < t + Window)
    <3>1. t + Window \in Int /\ (now < t \/ t + Window <= now)
      BY <2>2, <1>0
    <3>2. Between(at2, M, t, t + Window) = Between(at, N, t, t + Window)
      BY <3>1, BetweenStays
    <3> QED
      BY <3>2, <1>1
  <2> QED
    BY <2>1, <2>2
<1> QED
  BY <1>3, <1>5, <1>7, <1>8 DEF RedisWindow

-----------------------------------------------------------------------------
(* The tries Redis has counted.                                            *)

\* A try that Redis does not count.
LEMMA StreakLeft ==
  ASSUME NEW D, NEW at, NEW m, NEW now, NEW at2, Later(D, at, m, now, at2),
         NEW T \in SUBSET D, NEW b \in [count : Nat, resetAt : Nat],
         RedisStreak(at, T, b, now),
         NEW U, U = T \/ U = T \cup {m}
  PROVE  RedisStreak(at2, U, b, now)
<1> SUFFICES ASSUME b.resetAt > now
             PROVE  RedisStreak(at2, U, b, now)
  BY DEF RedisStreak
<1>0. \A n \in T : n \in U /\ at2[n] = at[n]
  BY DEF Later
<1>1. PICK start \in Nat :
        /\ start <= now
        /\ Cardinality(From(at, T, start)) >= b.count
        /\ \A u \in Int : start <= u /\ u < b.resetAt =>
             \E n \in T : u - Window < at[n] /\ at[n] <= u
  BY DEF RedisStreak
<1>2. Cardinality(From(at2, U, start)) >= b.count
  <2>1. /\ Cardinality(From(at2, U, start)) >= Cardinality(From(at, T, start))
        /\ Cardinality(From(at2, U, start)) \in Nat
        /\ Cardinality(From(at, T, start)) \in Nat
    BY FromGrows
  <2> QED
    BY <1>1, <2>1
<1>3. ASSUME NEW u \in Int, start <= u, u < b.resetAt
      PROVE  \E n \in U : u - Window < at2[n] /\ at2[n] <= u
  <2>1. PICK n \in T : u - Window < at[n] /\ at[n] <= u
    BY <1>1, <1>3
  <2> QED
    BY <1>0, <2>1
<1> QED
  BY <1>1, <1>2, <1>3 DEF RedisStreak

\* A try that Redis counts, whoever hears of it.
LEMMA StreakGrows ==
  ASSUME NEW D, NEW at, NEW m, NEW now, NEW at2, Later(D, at, m, now, at2),
         NEW T \in SUBSET D, NEW b \in [count : Nat, resetAt : Nat],
         RedisStreak(at, T, b, now),
         NEW c \in [count : Nat, resetAt : Nat],
         c.count = IF b.resetAt > now THEN b.count + 1 ELSE 1,
         c.resetAt = now + Window
  PROVE  RedisStreak(at2, T \cup {m}, c, now)
<1>0. /\ now \in Nat /\ Window \in Nat /\ Window > 0
      /\ b.count \in Nat /\ b.resetAt \in Nat /\ c.count \in Nat
      /\ \A n \in T : at2[n] = at[n]
      /\ at2[m] = now /\ m \notin T
  BY LimitAssumption DEF Later
<1>1. PICK start \in Nat :
        /\ start <= now
        /\ Cardinality(From(at, T, start)) >= c.count - 1
        /\ \A u \in Int : start <= u /\ u < now =>
             \E n \in T : u - Window < at[n] /\ at[n] <= u
  <2>1. CASE b.resetAt > now
    <3>1. PICK start \in Nat :
            /\ start <= now
            /\ Cardinality(From(at, T, start)) >= b.count
            /\ \A u \in Int : start <= u /\ u < b.resetAt =>
                 \E n \in T : u - Window < at[n] /\ at[n] <= u
      BY <2>1 DEF RedisStreak
    <3>2. c.count - 1 = b.count
      BY <1>0, <2>1
    <3>3. \A u \in Int : u < now => u < b.resetAt
      BY <1>0, <2>1
    <3> QED
      BY <3>1, <3>2, <3>3
  <2>2. CASE ~(b.resetAt > now)
    <3>1. c.count - 1 = 0 /\ now <= now /\ \A u \in Int : ~(now <= u /\ u < now)
      BY <1>0, <2>2
    <3>2. Cardinality(From(at, T, now)) \in Nat
      <4>1. From(at, T, now) \in SUBSET D /\ IsFiniteSet(D)
        BY DEF From, Later
      <4> QED
        BY <4>1, Parts
    <3>3. Cardinality(From(at, T, now)) >= c.count - 1
      BY <3>1, <3>2
    <3> QED
      BY <1>0, <3>1, <3>3
  <2> QED
    BY <2>1, <2>2
<1>2. Cardinality(From(at2, T \cup {m}, start)) >= c.count
  <2>1. T \cup {m} # T
    BY <1>0
  <2>2. /\ Cardinality(From(at2, T \cup {m}, start)) = Cardinality(From(at, T, start)) + 1
        /\ Cardinality(From(at, T, start)) \in Nat
    BY <1>1, <2>1, FromGrows
  <2> QED
    BY <1>0, <1>1, <2>2
<1>3. ASSUME NEW u \in Int, start <= u, u < c.resetAt
      PROVE  \E n \in T \cup {m} : u - Window < at2[n] /\ at2[n] <= u
  <2>1. CASE u < now
    <3>1. PICK n \in T : u - Window < at[n] /\ at[n] <= u
      BY <1>1, <1>3, <2>1
    <3> QED
      BY <1>0, <3>1
  <2>2. CASE ~(u < now)
    BY <1>0, <1>3, <2>2
  <2> QED
    BY <2>1, <2>2
<1> QED
  BY <1>1, <1>2, <1>3 DEF RedisStreak

-----------------------------------------------------------------------------
(* The windows of an instance.                                             *)

\* A try elsewhere: the instance lets nothing more pass, and those who try may
\* be more.
LEMMA InstanceLeft ==
  ASSUME NEW D, NEW at, NEW m, NEW now, NEW at2, Later(D, at, m, now, at2),
         NEW N \in SUBSET D, NEW T \in SUBSET D, NEW limit,
         NEW b \in [count : Nat, resetAt : Nat],
         InstanceWindow(at, N, T, b, now, limit),
         NEW U, U = T \/ U = T \cup {m}
  PROVE  InstanceWindow(at2, N, U, b, now, limit)
<1>1. \A n \in N : at2[n] = at[n]
  BY DEF Later
<1>2. \A t \in Int : From(at2, N, t) = From(at, N, t)
  BY <1>1 DEF From
<1>3. \A t, u : Between(at2, N, t, u) = Between(at, N, t, u)
  BY <1>1 DEF Between
<1>4. PICK start \in Int :
        /\ start = b.resetAt - Window
        /\ start <= now
        /\ \A n \in N : at[n] < b.resetAt
        /\ Cardinality(From(at, N, start)) <= b.count
        /\ Cardinality(From(at, N, start)) <= limit
        /\ \A t \in Int : t > start - Window => Cardinality(Between(at, N, t, start)) <= limit
        /\ \A t \in Int : Cardinality(Between(at, N, t, t + Window)) <= 2 * limit
        /\ Cardinality(From(at, T, start)) >= b.count
  BY DEF InstanceWindow
<1>5. Cardinality(From(at2, U, start)) >= b.count
  <2>1. /\ Cardinality(From(at, T, start)) \in Nat
        /\ Cardinality(From(at2, U, start)) \in Nat
        /\ Cardinality(From(at2, U, start)) >= Cardinality(From(at, T, start))
    BY FromGrows
  <2> QED
    BY <2>1, <1>4
<1> QED
  BY <1>1, <1>2, <1>3, <1>4, <1>5 DEF InstanceWindow

\* A try that the memory of the instance counts.
LEMMA InstanceCounts ==
  ASSUME NEW D, NEW at, NEW m, NEW now, NEW at2, Later(D, at, m, now, at2),
         NEW N \in SUBSET D, NEW T \in SUBSET D, \A n \in D : at[n] <= now,
         NEW b \in [count : Nat, resetAt : Nat], NEW limit \in Nat,
         InstanceWindow(at, N, T, b, now, limit),
         NEW c \in [count : Nat, resetAt : Nat],
         c.count = IF b.resetAt > now THEN b.count + 1 ELSE 1,
         c.resetAt = IF b.resetAt > now THEN b.resetAt ELSE now + Window,
         NEW M, M = N \/ (M = N \cup {m} /\ c.count <= limit)
  PROVE  InstanceWindow(at2, M, T \cup {m}, c, now, limit)
<1>0. /\ now \in Nat /\ Window \in Nat /\ Window > 0
      /\ b.count \in Nat /\ b.resetAt \in Nat /\ c.count \in Nat /\ c.resetAt \in Nat
      /\ \A n \in N : at2[n] = at[n] /\ at[n] \in Nat /\ at[n] <= now
      /\ at2[m] = now /\ m \notin D
  BY LimitAssumption DEF Later
<1>1. PICK old \in Int :
        /\ old = b.resetAt - Window
        /\ old <= now
        /\ \A n \in N : at[n] < b.resetAt
        /\ Cardinality(From(at, N, old)) <= b.count
        /\ Cardinality(From(at, N, old)) <= limit
        /\ \A t \in Int : t > old - Window => Cardinality(Between(at, N, t, old)) <= limit
        /\ \A t \in Int : Cardinality(Between(at, N, t, t + Window)) <= 2 * limit
        /\ Cardinality(From(at, T, old)) >= b.count
  BY DEF InstanceWindow
<1>2. PICK start \in Int :
        /\ b.resetAt > now => start = old
        /\ ~(b.resetAt > now) => start = now
  BY <1>0
<1>3. start = c.resetAt - Window /\ start <= now
  BY <1>0, <1>1, <1>2
<1>4. \A n \in M : at2[n] < c.resetAt /\ at2[n] \in Nat /\ at2[n] <= now
  BY <1>0, <1>1
<1>5. IsFiniteSet(D \cup {m}) /\ M \in SUBSET (D \cup {m})
  BY FS_AddElement DEF Later
<1>6. /\ Cardinality(From(at, N, start)) <= c.count - 1
      /\ Cardinality(From(at, N, start)) <= limit
      /\ Cardinality(From(at, T, start)) >= c.count - 1
  <2>1. CASE b.resetAt > now
    <3>1. start = old /\ c.count = b.count + 1
      BY <2>1, <1>2
    <3>2. Cardinality(From(at, T, old)) \in Nat
      BY FromGrows
    <3> QED
      BY <3>1, <3>2, <1>0, <1>1
  <2>2. CASE ~(b.resetAt > now)
    <3>1. start = now /\ c.count = 1
      BY <2>2, <1>2
    <3>2. From(at, N, now) = {}
      BY <2>2, <1>0, <1>1 DEF From
    <3>3. Cardinality(From(at, T, start)) \in Nat
      BY FromGrows
    <3> QED
      BY <3>1, <3>2, <3>3, FS_EmptySet
  <2> QED
    BY <2>1, <2>2
<1>7. /\ Cardinality(From(at2, M, start)) \in Nat
      /\ Cardinality(From(at2, M, start)) <= c.count
      /\ Cardinality(From(at2, M, start)) <= limit
  <2>1. /\ Cardinality(From(at, N, start)) \in Nat
        /\ Cardinality(From(at2, M, start)) \in Nat
        /\ M = N => Cardinality(From(at2, M, start)) = Cardinality(From(at, N, start))
        /\ M # N => Cardinality(From(at2, M, start)) = Cardinality(From(at, N, start)) + 1
    BY <1>3, FromGrows
  <2> QED
    BY <2>1, <1>0, <1>6
<1>8. Cardinality(From(at2, T \cup {m}, start)) >= c.count
  <2>1. /\ Cardinality(From(at, T, start)) \in Nat
        /\ Cardinality(From(at2, T \cup {m}, start)) = Cardinality(From(at, T, start)) + 1
    BY <1>0, <1>3, FromGrows
  <2> QED
    BY <2>1, <1>0, <1>6
<1>9. ASSUME NEW t \in Int, t > start - Window
      PROVE  /\ Cardinality(Between(at2, M, t, start)) \in Nat
             /\ Cardinality(Between(at2, M, t, start)) <= limit
  <2>0. Between(at2, M, t, start) = Between(at, N, t, start)
    BY <1>3, BetweenStays
  <2>1. Between(at, N, t, start) \in SUBSET D
    BY DEF Between
  <2>2. Cardinality(Between(at, N, t, start)) \in Nat
    BY <2>1, Parts DEF Later
  <2>3. CASE b.resetAt > now
    BY <2>3, <2>0, <2>2, <1>1, <1>2, <1>9
  <2>4. CASE ~(b.resetAt > now)
    <3>1. t > old
      BY <2>4, <1>0, <1>1, <1>2, <1>9
    <3>2. Between(at, N, t, start) \in SUBSET From(at, N, old)
      BY <3>1, <1>0 DEF Between, From
    <3>3. From(at, N, old) \in SUBSET D /\ IsFiniteSet(D)
      BY DEF From, Later
    <3>4. /\ Cardinality(Between(at, N, t, start)) <= Cardinality(From(at, N, old))
          /\ Cardinality(From(at, N, old)) \in Nat
      BY <3>2, <3>3, Parts
    <3> QED
      BY <3>4, <2>0, <2>2, <1>1
  <2> QED
    BY <2>3, <2>4
<1>10. ASSUME NEW t \in Int
       PROVE  Cardinality(Between(at2, M, t, t + Window)) <= 2 * limit
  <2>1. CASE t <= now /\ now < t + Window
    <3> DEFINE early == Between(at2, M, t, start)
               late == From(at2, M, start)
    <3>1. Between(at2, M, t, t + Window) \in SUBSET (early \cup late)
      BY <2>1, <1>0, <1>3, <1>4 DEF Between, From
    <3>2. early \in SUBSET (D \cup {m}) /\ late \in SUBSET (D \cup {m})
      BY <1>5 DEF Between, From
    <3>3. t > start - Window
      BY <2>1, <1>0, <1>3
    <3>4. /\ Cardinality(early) \in Nat /\ Cardinality(early) <= limit
          /\ Cardinality(late) \in Nat /\ Cardinality(late) <= limit
      BY <3>3, <1>7, <1>9
    <3> HIDE DEF early, late
    <3>5. IsFiniteSet(early) /\ IsFiniteSet(late) /\ IsFiniteSet(early \cap late)
      BY <3>2, <1>5, FS_Subset
    <3>6. /\ IsFiniteSet(early \cup late)
          /\ Cardinality(early \cup late)
               = Cardinality(early) + Cardinality(late) - Cardinality(early \cap late)
          /\ Cardinality(early \cap late) \in Nat
      BY <3>5, FS_Union, FS_CardinalityType
    <3>7. /\ Cardinality(Between(at2, M, t, t + Window)) <= Cardinality(early \cup late)
          /\ Cardinality(Between(at2, M, t, t + Window)) \in Nat
      BY <3>1, <3>6, FS_Subset, FS_CardinalityType
    <3> QED
      BY <3>4, <3>6, <3>7
  <2>2. CASE ~(t <= now /\ now < t + Window)
    <3>1. t + Window \in Int /\ (now < t \/ t + Window <= now)
      BY <2>2, <1>0
    <3>2. Between(at2, M, t, t + Window) = Between(at, N, t, t + Window)
      BY <3>1, BetweenStays
    <3> QED
      BY <3>2, <1>1
  <2> QED
    BY <2>1, <2>2
<1> QED
  BY <1>3, <1>4, <1>7, <1>8, <1>9, <1>10 DEF InstanceWindow

-----------------------------------------------------------------------------
(* The inductive invariant and its steps.                                  *)

LimitTypes ==
  /\ clock \in Nat
  /\ bucket \in [Stores -> [LimitKeys -> [count : Nat, resetAt : Nat]]]
  /\ asking \in [Instances -> Nat]
  /\ log \in Seq(Entry)
  /\ \A n \in DOMAIN log : log[n].time <= clock

LimitInv ==
  /\ LimitTypes
  /\ \A k \in LimitKeys :
       /\ RedisWindow(Moments, Admitted(Redis, k), bucket[Redis][k], clock, Limit(k))
       /\ RedisStreak(Moments, Tries(k), bucket[Redis][k], clock)
       /\ \A i \in Instances :
            InstanceWindow(Moments, Admitted(i, k), Tries(k), bucket[i][k], clock, Limit(k))

\* What one increment does to the log.
LEMMA LogGrows ==
  ASSUME LimitTypes, NEW i \in Instances, NEW k \in LimitKeys, NEW s \in {Redis, i},
         Increment(i, k, s)
  PROVE  /\ log' \in Seq(Entry)
         /\ \A n \in DOMAIN log' : log'[n].time <= clock
         /\ Later(DOMAIN log, Moments, Len(log) + 1, clock, Moments')
         /\ \A q : Tries(q)' = IF q = k THEN Tries(q) \cup {Len(log) + 1} ELSE Tries(q)
         /\ \A q, p : Admitted(p, q)' =
              IF q = k /\ p = s /\ Admits(s, k)
              THEN Admitted(p, q) \cup {Len(log) + 1} ELSE Admitted(p, q)
<1> DEFINE m == Len(log) + 1
           e == [key |-> k, store |-> s, time |-> clock, admitted |-> Admits(s, k)]
<1>1. log \in Seq(Entry) /\ clock \in Nat /\ Len(log) \in Nat /\ DOMAIN log = 1 .. Len(log)
  BY DEF LimitTypes
<1>2. e \in Entry
  BY <1>1 DEF Entry, Stores, Admits
<1>3. e.key = k /\ e.store = s /\ e.time = clock /\ e.admitted = Admits(s, k)
  OBVIOUS
<1>4. log' = Append(log, e)
  BY DEF Increment
<1> HIDE DEF e
<1>5. log' \in Seq(Entry) /\ DOMAIN log' = DOMAIN log \cup {m} /\ m \notin DOMAIN log
  BY <1>1, <1>2, <1>4
<1>6. (\A n \in DOMAIN log : log'[n] = log[n]) /\ log'[m] = e
  BY <1>1, <1>2, <1>4
<1> HIDE DEF m
<1>7. \A n \in DOMAIN log : log[n].time \in Nat /\ log[n].time <= clock
  <2>1. \A n \in DOMAIN log : log[n] \in Entry
    BY <1>1
  <2> QED
    BY <2>1 DEF LimitTypes, Entry
<1>8. \A n \in DOMAIN log' : log'[n].time <= clock
  BY <1>1, <1>3, <1>5, <1>6, <1>7
<1>9. Later(DOMAIN log, Moments, m, clock, Moments')
  <2>1. IsFiniteSet(DOMAIN log)
    BY <1>1, FS_Interval
  <2>2. Moments' = [n \in DOMAIN log \cup {m} |-> log'[n].time]
    BY <1>5 DEF Moments
  <2> QED
    BY <2>1, <2>2, <1>1, <1>3, <1>5, <1>6, <1>7 DEF Later, Moments
<1>10. \A q : Tries(q)' = IF q = k THEN Tries(q) \cup {m} ELSE Tries(q)
  BY <1>3, <1>5, <1>6 DEF Tries
<1>11. ASSUME NEW q, NEW p
       PROVE  Admitted(p, q)' = IF q = k /\ p = s /\ Admits(s, k)
                                THEN Admitted(p, q) \cup {m} ELSE Admitted(p, q)
  <2>1. /\ \A n \in Tries(q) : n \in DOMAIN log /\ log'[n] = log[n]
        /\ Admitted(p, q)' = {n \in Tries(q)' : log'[n].store = p /\ log'[n].admitted}
    BY <1>6 DEF Tries, Admitted
  <2>2. CASE q = k /\ p = s /\ Admits(s, k)
    BY <2>1, <2>2, <1>3, <1>6, <1>10 DEF Admitted
  <2>3. CASE ~(q = k /\ p = s /\ Admits(s, k))
    BY <2>1, <2>3, <1>3, <1>6, <1>10 DEF Admitted
  <2> QED
    BY <2>2, <2>3
<1> QED
  BY <1>5, <1>8, <1>9, <1>10, <1>11 DEF m

\* What it does to the buckets: an answer of Redis changes its bucket, an
\* answer of the instance that one, and perhaps the one of Redis as well.
LEMMA BucketsGrow ==
  ASSUME LimitTypes, NEW i \in Instances, NEW k \in LimitKeys, NEW s \in {Redis, i},
         Increment(i, k, s)
  PROVE  /\ bucket' \in [Stores -> [LimitKeys -> [count : Nat, resetAt : Nat]]]
         /\ \A p \in Stores, q \in LimitKeys :
              bucket'[p][q] # bucket[p][q] => q = k /\ p \in {s, Redis}
         /\ s = i => bucket'[i][k] = MemoryIncrement(i, k)
         /\ s = Redis => bucket'[Redis][k] = RedisIncrement(k)
         /\ bucket'[Redis][k] \in {bucket[Redis][k], RedisIncrement(k)}
<1>1. /\ bucket \in [Stores -> [LimitKeys -> [count : Nat, resetAt : Nat]]]
      /\ clock + Window \in Nat /\ Redis \in Stores /\ i \in Stores /\ i # Redis
  BY LimitAssumption DEF LimitTypes, Stores
<1>2. bucket[Redis][k] \in [count : Nat, resetAt : Nat]
      /\ bucket[i][k] \in [count : Nat, resetAt : Nat]
  BY <1>1
<1>3. RedisIncrement(k) \in [count : Nat, resetAt : Nat]
  BY <1>1, <1>2 DEF RedisIncrement
<1>4. MemoryIncrement(i, k) \in [count : Nat, resetAt : Nat]
  <2>1. bucket[i][k].count \in Nat /\ bucket[i][k].count + 1 \in Nat
    BY <1>2
  <2>2. [bucket[i][k] EXCEPT !.count = @ + 1] \in [count : Nat, resetAt : Nat]
    BY <1>2, <2>1
  <2> QED
    BY <1>1, <2>2 DEF MemoryIncrement
<1>5. CASE s = Redis
  <2>1. bucket' = [bucket EXCEPT ![Redis][k] = RedisIncrement(k)]
    BY <1>1, <1>5 DEF Increment
  <2> QED
    BY <2>1, <1>1, <1>3, <1>5
<1>6. CASE s = i
  <2>1. PICK c \in {bucket[Redis][k], RedisIncrement(k)} :
          bucket' = [bucket EXCEPT ![i][k] = MemoryIncrement(i, k), ![Redis][k] = c]
    BY <1>1, <1>6 DEF Increment
  <2>2. c \in [count : Nat, resetAt : Nat]
    BY <1>2, <1>3
  <2> QED
    BY <2>1, <2>2, <1>1, <1>4, <1>6
<1> QED
  BY <1>5, <1>6

LEMMA LimitsNat == ASSUME NEW k \in LimitKeys
                   PROVE  Limit(k) \in Nat
  BY LimitAssumption DEF Limit

\* An increment keeps the windows of every key.
LEMMA IncrementKeeps ==
  ASSUME LimitInv, NEW i \in Instances, NEW k \in LimitKeys, NEW s \in {Redis, i},
         Increment(i, k, s)
  PROVE  \A q \in LimitKeys :
           /\ RedisWindow(Moments, Admitted(Redis, q), bucket[Redis][q], clock, Limit(q))'
           /\ RedisStreak(Moments, Tries(q), bucket[Redis][q], clock)'
           /\ \A j \in Instances :
                InstanceWindow(Moments, Admitted(j, q), Tries(q), bucket[j][q], clock, Limit(q))'
<1> SUFFICES ASSUME NEW q \in LimitKeys
             PROVE  /\ RedisWindow(Moments', Admitted(Redis, q)', bucket'[Redis][q], clock, Limit(q))
                    /\ RedisStreak(Moments', Tries(q)', bucket'[Redis][q], clock)
                    /\ \A j \in Instances :
                         InstanceWindow(Moments', Admitted(j, q)', Tries(q)', bucket'[j][q],
                                        clock, Limit(q))
  BY DEF Increment, RedisWindow, RedisStreak, InstanceWindow
<1> DEFINE D == DOMAIN log
           m == Len(log) + 1
<1>1. /\ Later(D, Moments, m, clock, Moments')
      /\ Tries(q)' = IF q = k THEN Tries(q) \cup {m} ELSE Tries(q)
      /\ \A p : Admitted(p, q)' = IF q = k /\ p = s /\ Admits(s, k)
                                  THEN Admitted(p, q) \cup {m} ELSE Admitted(p, q)
  BY LogGrows DEF LimitInv
<1>2. /\ bucket' \in [Stores -> [LimitKeys -> [count : Nat, resetAt : Nat]]]
      /\ \A p \in Stores : bucket'[p][q] # bucket[p][q] => q = k /\ p \in {s, Redis}
      /\ s = i => bucket'[i][k] = MemoryIncrement(i, k)
      /\ s = Redis => bucket'[Redis][k] = RedisIncrement(k)
      /\ bucket'[Redis][k] \in {bucket[Redis][k], RedisIncrement(k)}
  BY BucketsGrow DEF LimitInv
<1>3. /\ RedisWindow(Moments, Admitted(Redis, q), bucket[Redis][q], clock, Limit(q))
      /\ RedisStreak(Moments, Tries(q), bucket[Redis][q], clock)
      /\ \A j \in Instances :
           InstanceWindow(Moments, Admitted(j, q), Tries(q), bucket[j][q], clock, Limit(q))
  BY DEF LimitInv
<1>4. Tries(q) \in SUBSET D /\ \A p : Admitted(p, q) \in SUBSET D
  BY DEF Tries, Admitted
<1>5. \A n \in D : Moments[n] <= clock
  BY DEF LimitInv, LimitTypes, Moments
<1>6. /\ bucket \in [Stores -> [LimitKeys -> [count : Nat, resetAt : Nat]]]
      /\ clock \in Nat /\ clock + Window \in Nat
  BY LimitAssumption DEF LimitInv, LimitTypes
<1>7. /\ Redis \in Stores /\ Instances \subseteq Stores /\ Redis \notin Instances
  BY LimitAssumption DEF Stores
<1>8. Limit(q) \in Nat
  BY LimitsNat
<1> HIDE DEF D, m
<1>9. RedisWindow(Moments', Admitted(Redis, q)', bucket'[Redis][q], clock, Limit(q))
  <2>1. CASE q = k /\ bucket'[Redis][q] = RedisIncrement(k)
    <3>1. /\ bucket'[Redis][q].count
               = IF bucket[Redis][q].resetAt > clock THEN bucket[Redis][q].count + 1 ELSE 1
          /\ bucket'[Redis][q].resetAt = clock + Window
      BY <2>1 DEF RedisIncrement, Live
    <3>2. \/ Admitted(Redis, q)' = Admitted(Redis, q)
          \/ /\ Admitted(Redis, q)' = Admitted(Redis, q) \cup {m}
             /\ bucket'[Redis][q].count <= Limit(q)
      BY <1>1, <2>1 DEF Admits
    <3>3. /\ bucket[Redis][q] \in [count : Nat, resetAt : Nat]
          /\ bucket'[Redis][q] \in [count : Nat, resetAt : Nat]
      BY <1>2, <1>6, <1>7
    <3>4. \A n \in Admitted(Redis, q) : Moments[n] <= clock
      BY <1>4, <1>5
    <3> QED
      BY <3>1, <3>2, <3>3, <3>4, <1>1, <1>3, <1>4, <1>8, RedisCounts
  <2>2. CASE ~(q = k /\ bucket'[Redis][q] = RedisIncrement(k))
    <3>1. bucket'[Redis][q] = bucket[Redis][q] /\ ~(q = k /\ Redis = s)
      BY <2>2, <1>2, <1>7
    <3>2. Admitted(Redis, q)' = Admitted(Redis, q)
      BY <3>1, <1>1
    <3> QED
      BY <3>1, <3>2, <1>1, <1>3, <1>4, RedisLeft
  <2> QED
    BY <2>1, <2>2
<1>10. RedisStreak(Moments', Tries(q)', bucket'[Redis][q], clock)
  <2>0. /\ bucket[Redis][q] \in [count : Nat, resetAt : Nat]
        /\ bucket'[Redis][q] \in [count : Nat, resetAt : Nat]
    BY <1>2, <1>6, <1>7
  <2>1. CASE q = k /\ bucket'[Redis][q] = RedisIncrement(k)
    <3>1. /\ bucket'[Redis][q].count
               = IF bucket[Redis][q].resetAt > clock THEN bucket[Redis][q].count + 1 ELSE 1
          /\ bucket'[Redis][q].resetAt = clock + Window
      BY <2>1 DEF RedisIncrement, Live
    <3>2. Tries(q)' = Tries(q) \cup {m}
      BY <1>1, <2>1
    <3> QED
      BY <3>1, <3>2, <2>0, <1>1, <1>3, <1>4, StreakGrows
  <2>2. CASE ~(q = k /\ bucket'[Redis][q] = RedisIncrement(k))
    <3>1. bucket'[Redis][q] = bucket[Redis][q]
      BY <2>2, <1>2, <1>7
    <3>2. Tries(q)' = Tries(q) \/ Tries(q)' = Tries(q) \cup {m}
      BY <1>1
    <3> QED
      BY <3>1, <3>2, <2>0, <1>1, <1>3, <1>4, StreakLeft
  <2> QED
    BY <2>1, <2>2
<1>11. ASSUME NEW j \in Instances
       PROVE  InstanceWindow(Moments', Admitted(j, q)', Tries(q)', bucket'[j][q], clock, Limit(q))
  <2>1. /\ bucket[j][q] \in [count : Nat, resetAt : Nat]
        /\ bucket'[j][q] \in [count : Nat, resetAt : Nat]
    BY <1>2, <1>6, <1>7
  <2>2. CASE q = k /\ j = s
    <3>0. j = i
      BY <2>2, <1>7
    <3>1. bucket'[j][q] = MemoryIncrement(j, q)
      BY <2>2, <3>0, <1>2
    <3>2. /\ bucket'[j][q].count
               = IF bucket[j][q].resetAt > clock THEN bucket[j][q].count + 1 ELSE 1
          /\ bucket'[j][q].resetAt
               = IF bucket[j][q].resetAt > clock THEN bucket[j][q].resetAt ELSE clock + Window
      <4>1. CASE Live(j, q)
        <5>1. bucket'[j][q] = [bucket[j][q] EXCEPT !.count = @ + 1]
          BY <3>1, <4>1 DEF MemoryIncrement
        <5> QED
          BY <5>1, <4>1, <2>1 DEF Live
      <4>2. CASE ~Live(j, q)
        <5>1. bucket'[j][q] = [count |-> 1, resetAt |-> clock + Window]
          BY <3>1, <4>2 DEF MemoryIncrement
        <5> QED
          BY <5>1, <4>2 DEF Live
      <4> QED
        BY <4>1, <4>2
    <3>3. \/ Admitted(j, q)' = Admitted(j, q)
          \/ /\ Admitted(j, q)' = Admitted(j, q) \cup {m}
             /\ bucket'[j][q].count <= Limit(q)
      BY <1>1, <2>2 DEF Admits
    <3>4. Tries(q)' = Tries(q) \cup {m}
      BY <2>2, <1>1
    <3> QED
      BY <3>2, <3>3, <3>4, <2>1, <1>1, <1>3, <1>4, <1>5, <1>8, InstanceCounts
  <2>3. CASE ~(q = k /\ j = s)
    <3>1. bucket'[j][q] = bucket[j][q]
      BY <2>3, <1>2, <1>7
    <3>2. Admitted(j, q)' = Admitted(j, q)
      BY <2>3, <1>1
    <3>3. Tries(q)' = Tries(q) \/ Tries(q)' = Tries(q) \cup {m}
      BY <1>1
    <3> QED
      BY <3>1, <3>2, <3>3, <2>1, <1>1, <1>3, <1>4, InstanceLeft
  <2> QED
    BY <2>2, <2>3
<1> QED
  BY <1>9, <1>10, <1>11

\* An increment with whatever it lets pass keeps the invariant.
LEMMA IncrementInv ==
  ASSUME LimitInv, NEW i \in Instances, NEW k \in LimitKeys, NEW s \in {Redis, i},
         Increment(i, k, s), asking' \in [Instances -> Nat]
  PROVE  LimitInv'
<1>1. clock' = clock /\ clock \in Nat
  BY DEF Increment, LimitInv, LimitTypes
<1>2. LimitTypes'
  BY <1>1, LogGrows, BucketsGrow DEF LimitInv, LimitTypes
<1> QED
  BY <1>2, IncrementKeeps DEF LimitInv

\* Time that passes takes nothing out of the windows and begins none.
LEMMA TickInv ==
  ASSUME LimitInv, Tick
  PROVE  LimitInv'
<1>1. /\ clock \in Nat /\ clock' = clock + 1
      /\ bucket' = bucket /\ asking' = asking /\ log' = log
  BY DEF Tick, LimitInv, LimitTypes
<1>2. LimitTypes'
  <2>1. \A n \in DOMAIN log : log[n].time \in Nat
    <3>1. \A n \in DOMAIN log : log[n] \in Entry
      BY DEF LimitInv, LimitTypes
    <3> QED
      BY <3>1 DEF Entry
  <2> QED
    BY <1>1, <2>1 DEF LimitInv, LimitTypes
<1>3. /\ Moments' = Moments
      /\ \A k : Tries(k)' = Tries(k) /\ \A s : Admitted(s, k)' = Admitted(s, k)
  BY <1>1 DEF Moments, Tries, Admitted
<1>4. ASSUME NEW k \in LimitKeys
      PROVE  RedisWindow(Moments, Admitted(Redis, k), bucket[Redis][k], clock + 1, Limit(k))
  <2>1. RedisWindow(Moments, Admitted(Redis, k), bucket[Redis][k], clock, Limit(k))
    BY DEF LimitInv
  <2>2. \A t \in Int : t <= clock => t <= clock + 1
    BY <1>1
  <2> QED
    BY <2>1, <2>2 DEF RedisWindow
<1>5. ASSUME NEW k \in LimitKeys, NEW i \in Instances
      PROVE  InstanceWindow(Moments, Admitted(i, k), Tries(k), bucket[i][k], clock + 1, Limit(k))
  <2>1. InstanceWindow(Moments, Admitted(i, k), Tries(k), bucket[i][k], clock, Limit(k))
    BY DEF LimitInv
  <2>2. \A t \in Int : t <= clock => t <= clock + 1
    BY <1>1
  <2> QED
    BY <2>1, <2>2 DEF InstanceWindow
<1>6. ASSUME NEW k \in LimitKeys
      PROVE  RedisStreak(Moments, Tries(k), bucket[Redis][k], clock + 1)
  <2>1. RedisStreak(Moments, Tries(k), bucket[Redis][k], clock)
    BY DEF LimitInv
  <2>2. bucket[Redis][k].resetAt \in Nat
    BY DEF LimitInv, LimitTypes, Stores
  <2>3. /\ bucket[Redis][k].resetAt > clock + 1 => bucket[Redis][k].resetAt > clock
        /\ \A t \in Nat : t <= clock => t <= clock + 1
    BY <1>1, <2>2
  <2> QED
    BY <2>1, <2>3 DEF RedisStreak
<1> QED
  BY <1>1, <1>2, <1>3, <1>4, <1>5, <1>6 DEF LimitInv

\* Nothing has been tried, and every window is empty.
LEMMA LimitStart == LimitInit => LimitInv
<1> SUFFICES ASSUME LimitInit PROVE LimitInv
  OBVIOUS
<1>1. /\ clock = 0 /\ asking = [i \in Instances |-> 0] /\ log = << >>
      /\ \A s \in Stores, k \in LimitKeys : bucket[s][k] = [count |-> 0, resetAt |-> 0]
      /\ bucket \in [Stores -> [LimitKeys -> [count : Nat, resetAt : Nat]]]
  BY DEF LimitInit
<1>2. LimitTypes
  BY <1>1 DEF LimitTypes
<1>3. \A k : Tries(k) = {} /\ \A s : Admitted(s, k) = {}
  BY <1>1 DEF Tries, Admitted
<1>4. /\ \A at, t : From(at, {}, t) = {}
      /\ \A at, t, u : Between(at, {}, t, u) = {}
      /\ Cardinality({}) = 0
  BY FS_EmptySet DEF From, Between
<1>5. ASSUME NEW k \in LimitKeys
      PROVE  RedisWindow(Moments, {}, bucket[Redis][k], clock, Limit(k))
  <2>1. bucket[Redis][k].count = 0 /\ clock = 0 /\ Limit(k) \in Nat
    BY <1>1, LimitsNat DEF Stores
  <2> QED
    BY <2>1, <1>4 DEF RedisWindow
<1>6. ASSUME NEW k \in LimitKeys, NEW i \in Instances
      PROVE  InstanceWindow(Moments, {}, {}, bucket[i][k], clock, Limit(k))
  <2>1. /\ bucket[i][k].count = 0 /\ bucket[i][k].resetAt = 0
        /\ clock = 0 /\ Limit(k) \in Nat /\ Window \in Nat
    BY <1>1, LimitsNat, LimitAssumption DEF Stores
  <2>2. PICK start \in Int : start = 0 - Window
    BY <2>1
  <2>3. start <= 0 /\ 0 <= Limit(k) /\ 0 <= 2 * Limit(k)
    BY <2>1, <2>2
  <2>4. \A t, u : /\ Cardinality(From(Moments, {}, t)) = 0
                  /\ Cardinality(Between(Moments, {}, t, u)) = 0
    BY <1>4
  <2>5. start = bucket[i][k].resetAt - Window /\ start <= clock
    BY <2>1, <2>2, <2>3
  <2> QED
    BY <2>1, <2>3, <2>4, <2>5 DEF InstanceWindow
<1>7. ASSUME NEW k \in LimitKeys
      PROVE  RedisStreak(Moments, {}, bucket[Redis][k], clock)
  <2>1. bucket[Redis][k].resetAt = 0 /\ clock = 0
    BY <1>1 DEF Stores
  <2> QED
    BY <2>1 DEF RedisStreak
<1> QED
  BY <1>2, <1>3, <1>5, <1>6, <1>7 DEF LimitInv

\* The invariant is kept by every step of the limits.
LEMMA LimitStep == LimitInv /\ [LimitNext]_limitVars => LimitInv'
<1> SUFFICES ASSUME LimitInv, [LimitNext]_limitVars PROVE LimitInv'
  OBVIOUS
<1>0. asking \in [Instances -> Nat]
  BY DEF LimitInv, LimitTypes
<1>1. CASE Tick
  BY <1>1, TickInv
<1>2. ASSUME NEW i \in Instances, NEW a \in Addresses, Authenticate(i, a)
      PROVE  LimitInv'
  <2>1. PICK s \in {Redis, i} : Increment(i, a, s)
    BY <1>2 DEF Authenticate
  <2>2. a \in LimitKeys /\ asking' = asking
    BY <1>2 DEF Authenticate, LimitKeys
  <2> QED
    BY <2>1, <2>2, <1>0, IncrementInv
<1>3. ASSUME NEW i \in Instances, NEW u \in Users, AskAgent(i, u)
      PROVE  LimitInv'
  <2>1. PICK s \in {Redis, i} :
          /\ Increment(i, u, s)
          /\ asking' = IF Admits(s, u) THEN [asking EXCEPT ![i] = @ + 1] ELSE asking
    BY <1>3 DEF AskAgent
  <2>2. u \in LimitKeys /\ asking' \in [Instances -> Nat]
    BY <2>1, <1>0 DEF LimitKeys
  <2> QED
    BY <2>1, <2>2, IncrementInv
<1>4. ASSUME NEW i \in Instances, AskOrganization(i)
      PROVE  LimitInv'
  <2>1. PICK s \in {Redis, i} : Increment(i, Org, s)
    BY <1>4 DEF AskOrganization
  <2>2. asking[i] \in Nat /\ asking[i] > 0 /\ asking' = [asking EXCEPT ![i] = @ - 1]
    BY <1>0, <1>4 DEF AskOrganization
  <2>3. Org \in LimitKeys /\ asking' \in [Instances -> Nat]
    BY <2>2, <1>0 DEF LimitKeys
  <2> QED
    BY <2>1, <2>3, IncrementInv
<1>5. CASE UNCHANGED limitVars
  <2>1. /\ Moments' = Moments /\ \A k : Limit(k)' = Limit(k)
        /\ \A k : Tries(k)' = Tries(k) /\ \A s : Admitted(s, k)' = Admitted(s, k)
    BY <1>5 DEF limitVars, Moments, Tries, Admitted, Limit
  <2> QED
    BY <1>5, <2>1 DEF limitVars, LimitInv, LimitTypes
<1> QED
  BY <1>1, <1>2, <1>3, <1>4, <1>5 DEF LimitNext

\* (rate-limit.store.ts and its guards) The invariant holds throughout.
THEOREM LimitInvariance == LimitSpec => []LimitInv
  BY LimitStart, LimitStep, PTL DEF LimitSpec

\* However requests, instances and failing commands interleave, and for all
\* limits and windows: Redis lets no more pass than the limit in any window,
\* the memory of an instance no more than twice the limit.
THEOREM WithinLimit == LimitSpec => []AdmittedWithinLimit
<1>1. LimitInv => AdmittedWithinLimit
  <2> SUFFICES ASSUME LimitInv, NEW k \in LimitKeys, NEW t \in Times
               PROVE  /\ InWindow(Admitted(Redis, k), t) <= Limit(k)
                      /\ \A i \in Instances : InWindow(Admitted(i, k), t) <= 2 * Limit(k)
    BY DEF AdmittedWithinLimit
  <2>1. t \in Int
    BY LimitAssumption DEF Times
  <2>2. \A s : InWindow(Admitted(s, k), t)
                 = Cardinality(Between(Moments, Admitted(s, k), t, t + Window))
    BY DEF InWindow, Between, Moments, Admitted, Tries
  <2> QED
    BY <2>1, <2>2 DEF LimitInv, RedisWindow, InstanceWindow
<1> QED
  BY <1>1, LimitInvariance, PTL

\* For all limits and windows, whoever the memory of an instance refuses has,
\* with the refused try, tried more often than the limit within the last
\* window, and whoever Redis refuses has used up the limit and since then not
\* paused for a window.
THEOREM FairRefusals == LimitSpec => []RefusalsAreEarned
<1>1. ASSUME LimitInv, NEW i \in Instances, NEW k \in LimitKeys
      PROVE  RefusesAboveLimit(i, k)
  <2> SUFFICES ASSUME Refuses(i, k)
               PROVE  InWindow(Tries(k), clock - Window + 1) >= Limit(k)
    BY DEF RefusesAboveLimit
  <2> USE <1>1
  <2>0. /\ clock \in Nat /\ Window \in Nat /\ Limit(k) \in Nat
        /\ bucket[i][k] \in [count : Nat, resetAt : Nat]
        /\ log \in Seq(Entry)
    BY LimitsNat, LimitAssumption DEF LimitInv, LimitTypes, Stores
  <2>1. PICK start \in Int :
          /\ start = bucket[i][k].resetAt - Window
          /\ Cardinality(From(Moments, Tries(k), start)) >= bucket[i][k].count
    BY DEF LimitInv, InstanceWindow
  <2>2. bucket[i][k].resetAt > clock /\ bucket[i][k].count >= Limit(k)
    BY DEF Refuses, Live
  <2>3. start >= clock - Window + 1
    BY <2>0, <2>1, <2>2
  <2> DEFINE last == {n \in Tries(k) : /\ clock - Window + 1 <= log[n].time
                                       /\ log[n].time < (clock - Window + 1) + Window}
  <2>4. \A n \in DOMAIN log : log[n] \in Entry /\ log[n].time <= clock
    BY <2>0 DEF LimitInv, LimitTypes
  <2>5. \A n \in Tries(k) : n \in DOMAIN log /\ log[n].time \in Nat /\ log[n].time <= clock
                            /\ Moments[n] = log[n].time
    BY <2>4 DEF Tries, Entry, Moments
  <2>6. From(Moments, Tries(k), start) \in SUBSET last
    BY <2>0, <2>3, <2>5 DEF From
  <2>7. DOMAIN log = 1 .. Len(log) /\ Len(log) \in Nat /\ last \in SUBSET DOMAIN log
    BY <2>0, <2>5
  <2>8. IsFiniteSet(DOMAIN log)
    BY <2>7, FS_Interval
  <2>9. /\ Cardinality(last) \in Nat
        /\ Cardinality(From(Moments, Tries(k), start)) \in Nat
        /\ Cardinality(From(Moments, Tries(k), start)) <= Cardinality(last)
    <3> HIDE DEF last
    <3> QED
      BY <2>6, <2>7, <2>8, Parts
  <2>10. InWindow(Tries(k), clock - Window + 1) = Cardinality(last)
    BY DEF InWindow
  <2> HIDE DEF last
  <2> QED
    BY <2>0, <2>1, <2>2, <2>9, <2>10
<1>2. ASSUME LimitInv, NEW k \in LimitKeys
      PROVE  RefusesUnpaused(k)
  <2> SUFFICES ASSUME Refuses(Redis, k)
               PROVE  \E t \in 0..clock :
                        /\ Cardinality({n \in Tries(k) : t <= log[n].time}) >= Limit(k)
                        /\ \A u \in t..clock : \E n \in Tries(k) :
                             u - Window < log[n].time /\ log[n].time <= u
    BY DEF RefusesUnpaused
  <2>0. /\ clock \in Nat /\ Window \in Nat /\ Limit(k) \in Nat
        /\ bucket[Redis][k] \in [count : Nat, resetAt : Nat]
    BY <1>2, LimitsNat, LimitAssumption DEF LimitInv, LimitTypes, Stores
  <2>1. bucket[Redis][k].resetAt > clock /\ bucket[Redis][k].count >= Limit(k)
    BY DEF Refuses, Live
  <2>2. PICK start \in Nat :
          /\ start <= clock
          /\ Cardinality(From(Moments, Tries(k), start)) >= bucket[Redis][k].count
          /\ \A u \in Int : start <= u /\ u < bucket[Redis][k].resetAt =>
               \E n \in Tries(k) : u - Window < Moments[n] /\ Moments[n] <= u
    BY <1>2, <2>1 DEF LimitInv, RedisStreak
  <2>3. \A n \in Tries(k) : n \in DOMAIN log /\ Moments[n] = log[n].time
    BY DEF Tries, Moments
  <2>4. From(Moments, Tries(k), start) = {n \in Tries(k) : start <= log[n].time}
    BY <2>3 DEF From
  <2>5. /\ Cardinality(From(Moments, Tries(k), start)) \in Nat
        /\ bucket[Redis][k].count \in Nat
    <3>1. log \in Seq(Entry)
      BY <1>2 DEF LimitInv, LimitTypes
    <3>2. DOMAIN log = 1 .. Len(log) /\ Len(log) \in Nat
      BY <3>1
    <3>3. IsFiniteSet(DOMAIN log)
      BY <3>2, FS_Interval
    <3>4. From(Moments, Tries(k), start) \in SUBSET DOMAIN log
      BY <2>3 DEF From
    <3> QED
      BY <2>0, <3>3, <3>4, Parts
  <2>6. Cardinality(From(Moments, Tries(k), start)) >= Limit(k)
    BY <2>0, <2>1, <2>2, <2>5
  <2>7. ASSUME NEW u \in start..clock
        PROVE  \E n \in Tries(k) : u - Window < log[n].time /\ log[n].time <= u
    <3>1. u \in Int /\ start <= u /\ u < bucket[Redis][k].resetAt
      BY <2>0, <2>1
    <3> QED
      BY <2>2, <2>3, <3>1
  <2>8. start \in 0..clock
    BY <2>0, <2>2
  <2> QED
    BY <2>4, <2>6, <2>7, <2>8
<1>3. LimitInv => RefusalsAreEarned
  BY <1>1, <1>2 DEF RefusalsAreEarned
<1> QED
  BY <1>3, LimitInvariance, PTL
=============================================================================
