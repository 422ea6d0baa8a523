------------------------ MODULE WorkflowItemsProofs -------------------------
(***************************************************************************)
(* Safety of WorkflowItems for any number of items, users, updates and     *)
(* scans, and any deadlines.                                               *)
(***************************************************************************)
EXTENDS WorkflowItems, TLAPS

-----------------------------------------------------------------------------
(* The inductive invariant.                                                *)

\* An item that does not exist has no history.
NoHistory == \A i \in Items : item[i] = None => latest[i] = [owner |-> None, due |-> None]

ToldOf(notices, i, u) == \E n \in notices : n.type = "assigned" /\ n.item = i /\ n.user = u

\* A reminder that is late has a deadline to be late for.
Dated(notices) == \A n \in notices : n.type = "sla_overdue" => n.due \in Nat

\* An update that will write an owner has told, or will tell, that owner.
UpdateInv(r) ==
  pc[r] \in {"assert", "write"} =>
    LET c == call[r]
    IN /\ c.item \in Existing
       /\ c.data.owner # None => ToldOf(outbox \cup c.tell, c.item, c.data.owner)
       /\ \A n \in c.tell : n.type = "assigned"

\* A scan has one reminder for an item, and calls none overdue too early.
ScanInv(r) ==
  pc[r] = "createMany" =>
    /\ \A m, n \in call[r].tell : m.item = n.item => m = n
    /\ \A n \in call[r].tell : n.type # "assigned"
    /\ Dated(call[r].tell)
    /\ \A n \in call[r].tell : n.type = "sla_overdue" => n.due <= clock

IInv ==
  /\ TypeOK
  /\ NoHistory
  /\ Dated(outbox)
  /\ \A r \in Requests : UpdateInv(r) /\ ScanInv(r)
  /\ HistoryEndsAtRow
  /\ OwnerWasTold
  /\ OneReminderPerDeadline

-----------------------------------------------------------------------------
LEMMA NewRowIsRow == NewRow \in Row /\ NoCall \in Call
BY ItemsAssumption DEF NewRow, NoCall, Row, Call

LEMMA InitStep == Init => IInv
<1> SUFFICES ASSUME Init PROVE IInv
  OBVIOUS
<1> USE ItemsAssumption DEF Init
<1>1. TypeOK
  BY NewRowIsRow DEF TypeOK, Labels
<1>2. NoHistory /\ Dated(outbox) /\ HistoryEndsAtRow /\ OwnerWasTold /\ OneReminderPerDeadline
  BY DEF NoHistory, Dated, HistoryEndsAtRow, OwnerWasTold, OneReminderPerDeadline, Existing
<1>3. \A r \in Requests : UpdateInv(r) /\ ScanInv(r)
  BY DEF UpdateInv, ScanInv, Dated
<1> QED
  BY <1>1, <1>2, <1>3 DEF IInv

LEMMA TickStep == ASSUME IInv, Tick PROVE IInv'
<1> USE DEF IInv, Tick
<1>1. TypeOK' /\ NoHistory'
  BY DEF TypeOK, NoHistory
<1>2. \A r \in Requests : UpdateInv(r)'
  BY DEF UpdateInv, ToldOf, Existing
<1>3. ASSUME NEW r \in Requests PROVE ScanInv(r)'
  BY DEF TypeOK, ScanInv, Dated
<1>4. HistoryEndsAtRow' /\ OwnerWasTold'
  BY DEF HistoryEndsAtRow, OwnerWasTold, Existing
<1>5. OneReminderPerDeadline' /\ Dated(outbox)'
  BY DEF OneReminderPerDeadline, Dated, TypeOK
<1> QED
  BY <1>1, <1>2, <1>3, <1>4, <1>5

\* A request that ends without a write.
LEMMA FinishStep ==
  ASSUME IInv, NEW r \in Requests, Finish(r), UNCHANGED <<clock, item, latest, outbox>>
  PROVE  IInv'
<1> USE DEF IInv, Finish, Goto
<1>1. TypeOK'
  BY NewRowIsRow DEF TypeOK, Labels
<1>2. NoHistory' /\ Dated(outbox)' /\ HistoryEndsAtRow' /\ OwnerWasTold' /\ OneReminderPerDeadline'
  BY DEF NoHistory, Dated, HistoryEndsAtRow, OwnerWasTold, OneReminderPerDeadline, Existing
<1>3. ASSUME NEW q \in Requests PROVE UpdateInv(q)' /\ ScanInv(q)'
  BY DEF TypeOK, UpdateInv, ScanInv, Dated, ToldOf, Existing
<1> QED
  BY <1>1, <1>2, <1>3

LEMMA CreateStep == ASSUME IInv, NEW i \in Items, Create(i) PROVE IInv'
<1> USE ItemsAssumption DEF IInv, Create
<1>1. TypeOK'
  BY NewRowIsRow DEF TypeOK
<1>2. NewRow # None /\ NewRow.owner = None /\ NewRow.due = None
  BY NewRowIsRow DEF NewRow
<1>3. Existing' = Existing \cup {i}
  BY <1>2 DEF Existing, TypeOK
<1>4. NoHistory'
  BY <1>2 DEF NoHistory, TypeOK
<1>5. HistoryEndsAtRow'
  BY <1>2, <1>3 DEF HistoryEndsAtRow, NoHistory, Existing, TypeOK
<1>6. OwnerWasTold'
  BY <1>2, <1>3 DEF OwnerWasTold, Existing, TypeOK
<1>7. OneReminderPerDeadline' /\ Dated(outbox)'
  BY DEF OneReminderPerDeadline, Dated
<1>8. ASSUME NEW q \in Requests PROVE UpdateInv(q)' /\ ScanInv(q)'
  BY <1>3 DEF UpdateInv, ScanInv, Dated, ToldOf
<1> QED
  BY <1>1, <1>4, <1>5, <1>6, <1>7, <1>8

\* The tool leaves owner and deadline as they are.
LEMMA ToolStep ==
  ASSUME IInv, NEW i \in Items, NEW status \in Statuses, UpdateWorkflowStatus(i, status)
  PROVE  IInv'
<1> USE ItemsAssumption DEF IInv
<1> DEFINE row == [item[i] EXCEPT !.status = status, !.closedAt = status = Closed]
<1>1. item[i] \in Row /\ item[i] # None
  BY DEF UpdateWorkflowStatus, Existing, TypeOK
<1>2. row \in Row /\ row # None /\ row.owner = item[i].owner /\ row.due = item[i].due
  BY <1>1 DEF Row
<1>3. item' = [item EXCEPT ![i] = row] /\ UNCHANGED <<clock, latest, outbox, pc, call>>
  BY DEF UpdateWorkflowStatus, TypeOK
<1> HIDE DEF row
<1>4. Existing' = Existing
  BY <1>1, <1>2, <1>3 DEF Existing, TypeOK
<1>5. TypeOK' /\ NoHistory'
  <2>1. TypeOK'
    BY <1>2, <1>3 DEF TypeOK
  <2>2. NoHistory'
    BY <1>1, <1>2, <1>3 DEF TypeOK, NoHistory
  <2> QED
    BY <2>1, <2>2
<1>6. HistoryEndsAtRow' /\ OwnerWasTold'
  BY <1>2, <1>3, <1>4 DEF HistoryEndsAtRow, OwnerWasTold, Existing, TypeOK
<1>7. OneReminderPerDeadline' /\ Dated(outbox)'
  BY <1>3 DEF OneReminderPerDeadline, Dated
<1>8. ASSUME NEW q \in Requests PROVE UpdateInv(q)' /\ ScanInv(q)'
  BY <1>3, <1>4 DEF UpdateInv, ScanInv, Dated, ToldOf
<1> QED
  BY <1>5, <1>6, <1>7, <1>8

\* What an update will write is a row, and its owner is told.
LEMMA UpdateStep ==
  ASSUME IInv, NEW r \in Requests, NEW i \in Items, NEW role \in Roles, NEW dto \in Dto,
         Update(r, i, role, dto)
  PROVE  IInv'
<1> USE ItemsAssumption DEF IInv
<1> DEFINE data == Data(dto, item[i])
           notice == [type |-> "assigned", item |-> i, user |-> data.owner, due |-> data.due]
           tell == IF Assigns(dto, item[i]) THEN {notice} ELSE {}
           label == IF data.owner \in {None, item[i].owner} THEN "write" ELSE "assert"
           c == [item |-> i, data |-> data, tell |-> tell]
<1>1. i \in Existing /\ item[i] \in Row
  BY DEF Update, Existing, TypeOK
<1>2. data \in Row
  BY <1>1 DEF Data, Or, ClosedAt, Row, Dto
<1>3. data.owner = (IF dto.owner = Keep THEN item[i].owner ELSE dto.owner)
  BY DEF Data, Or
<1>4. Assigns(dto, item[i]) => notice \in Notice
  BY <1>2, <1>3 DEF Assigns, Notice, Row, Dto
<1>5. pc[r] = "idle" /\ pc' = [pc EXCEPT ![r] = label] /\ call' = [call EXCEPT ![r] = c]
  BY DEF Update, Begin, Goto
<1>6. UNCHANGED <<clock, item, latest, outbox>>
  BY DEF Update
<1>7. data.owner # None => ToldOf(outbox \cup tell, i, data.owner)
  <2>1. CASE Assigns(dto, item[i])
    <3>1. notice \in tell
      BY <2>1
    <3>2. notice.type = "assigned" /\ notice.item = i /\ notice.user = data.owner
      OBVIOUS
    <3> HIDE DEF notice, tell, data
    <3> QED
      BY <3>1, <3>2 DEF ToldOf
  <2>2. CASE ~Assigns(dto, item[i])
    <3>1. data.owner # None => data.owner = item[i].owner
      BY <1>3, <2>2 DEF Assigns
    <3> QED
      BY <1>1, <3>1 DEF OwnerWasTold, ToldOf
  <2> QED
    BY <2>1, <2>2
<1>8. \A n \in tell : n \in Notice /\ n.type = "assigned"
  BY <1>4
<1>9. label \in {"assert", "write"}
  OBVIOUS
<1> HIDE DEF data, notice, tell, label
<1>10. TypeOK'
  <2>1. c \in Call
    BY <1>2, <1>8 DEF Call
  <2> HIDE DEF c
  <2> QED
    BY <1>5, <1>6, <1>9, <2>1 DEF TypeOK, Labels
<1>11. NoHistory' /\ Dated(outbox)' /\ HistoryEndsAtRow' /\ OwnerWasTold' /\ OneReminderPerDeadline'
  BY <1>6 DEF NoHistory, Dated, HistoryEndsAtRow, OwnerWasTold, OneReminderPerDeadline, Existing
<1>12. ASSUME NEW q \in Requests PROVE UpdateInv(q)' /\ ScanInv(q)'
  <2>1. CASE q = r
    <3>1. pc'[r] = label /\ call'[r] = c
      BY <1>5 DEF TypeOK
    <3>2. c.item = i /\ c.data = data /\ c.tell = tell
      OBVIOUS
    <3>3. Existing' = Existing
      BY <1>6 DEF Existing
    <3> HIDE DEF c
    <3> QED
      BY <1>1, <1>6, <1>7, <1>8, <1>9, <2>1, <3>1, <3>2, <3>3
      DEF UpdateInv, ScanInv
  <2>2. CASE q # r
    BY <1>5, <1>6, <2>2 DEF TypeOK, UpdateInv, ScanInv, Dated, Existing, ToldOf
  <2> QED
    BY <2>1, <2>2
<1> QED
  BY <1>10, <1>11, <1>12

LEMMA AssertStep ==
  ASSUME IInv, NEW r \in Requests, AssertAssignableMember(r) PROVE IInv'
<1>1. CASE Goto(r, "write") /\ UNCHANGED call
  <2> USE <1>1 DEF IInv, AssertAssignableMember, Goto
  <2>1. TypeOK'
    BY DEF TypeOK, Labels
  <2>2. NoHistory' /\ Dated(outbox)' /\ HistoryEndsAtRow' /\ OwnerWasTold' /\ OneReminderPerDeadline'
    BY DEF NoHistory, Dated, HistoryEndsAtRow, OwnerWasTold, OneReminderPerDeadline, Existing
  <2>3. ASSUME NEW q \in Requests PROVE UpdateInv(q)' /\ ScanInv(q)'
    BY DEF TypeOK, UpdateInv, ScanInv, Dated, ToldOf, Existing
  <2> QED
    BY <2>1, <2>2, <2>3
<1>2. CASE Finish(r)
  BY <1>2, FinishStep DEF AssertAssignableMember
<1> QED
  BY <1>1, <1>2 DEF AssertAssignableMember

\* The transaction: row, history and notices move together.
LEMMA WriteStep == ASSUME IInv, NEW r \in Requests, Write(r) PROVE IInv'
<1> USE ItemsAssumption DEF IInv
<1> DEFINE i == call[r].item
           data == call[r].data
           tell == call[r].tell
<1>1. /\ i \in Items /\ i \in Existing /\ data \in Row
      /\ data.owner # None => ToldOf(outbox \cup tell, i, data.owner)
      /\ \A n \in tell : n \in Notice /\ n.type = "assigned"
  <2>1. call[r] \in Call /\ pc[r] = "write" /\ UpdateInv(r)
    BY DEF Write, TypeOK
  <2> QED
    BY <2>1 DEF UpdateInv, Existing, Call
<1>2. /\ item' = [item EXCEPT ![i] = data]
      /\ latest' = [latest EXCEPT ![i] = [owner |-> data.owner, due |-> data.due]]
      /\ outbox' = outbox \cup tell
      /\ pc' = [pc EXCEPT ![r] = "idle"]
      /\ call' = [call EXCEPT ![r] = NoCall]
      /\ clock' = clock
  BY DEF Write, Written, Finish, Goto
<1> HIDE DEF i, data, tell
<1>3. Existing' = Existing
  BY <1>1, <1>2 DEF Existing, TypeOK
<1>4. TypeOK'
  <2>1. [owner |-> data.owner, due |-> data.due]
          \in [owner: Users \cup {None}, due: Deadlines \cup {None}]
    BY <1>1 DEF Row
  <2> QED
    BY <1>1, <1>2, <2>1, NewRowIsRow DEF TypeOK, Labels
<1>5. NoHistory'
  BY <1>1, <1>2 DEF NoHistory, TypeOK
<1>6. HistoryEndsAtRow'
  BY <1>1, <1>2, <1>3 DEF HistoryEndsAtRow, Existing, TypeOK
<1>7. OwnerWasTold'
  BY <1>1, <1>2, <1>3 DEF OwnerWasTold, ToldOf, Existing, TypeOK
<1>8. OneReminderPerDeadline' /\ Dated(outbox)'
  BY <1>1, <1>2 DEF OneReminderPerDeadline, Dated
<1>9. ASSUME NEW q \in Requests PROVE UpdateInv(q)' /\ ScanInv(q)'
  <2>1. CASE q = r
    BY <1>2, <2>1 DEF TypeOK, UpdateInv, ScanInv, Dated
  <2>2. CASE q # r
    BY <1>2, <1>3, <2>2 DEF TypeOK, UpdateInv, ScanInv, Dated, ToldOf
  <2> QED
    BY <2>1, <2>2
<1> QED
  BY <1>4, <1>5, <1>6, <1>7, <1>8, <1>9

LEMMA ScanStep == ASSUME IInv, NEW r \in Requests, Scan(r) PROVE IInv'
<1> USE ItemsAssumption DEF IInv
<1> DEFINE notice(i) == [type |-> ReminderType(item[i].due), item |-> i,
                         user |-> item[i].owner, due |-> item[i].due]
           tell == {notice(i) : i \in Watched}
           c == [NoCall EXCEPT !.tell = tell]
<1>1. ASSUME NEW i \in Watched
      PROVE  /\ notice(i) \in Notice /\ notice(i).item = i /\ notice(i).type # "assigned"
             /\ notice(i).type = "sla_overdue" => notice(i).due <= clock
             /\ notice(i).due \in Nat
  <2>1. item[i] \in Row /\ item[i].owner # None /\ item[i].due # None /\ i \in Items
    BY DEF Watched, Existing, TypeOK
  <2> QED
    BY <2>1 DEF Notice, ReminderType, Row
<1>2. pc[r] = "idle" /\ pc' = [pc EXCEPT ![r] = "createMany"] /\ call' = [call EXCEPT ![r] = c]
  BY DEF Scan, Begin, Goto
<1>3. UNCHANGED <<clock, item, latest, outbox>>
  BY DEF Scan
<1>4. c.tell = tell
  BY DEF NoCall
<1>5. /\ \A n \in tell : n \in Notice
      /\ \A m, n \in tell : m.item = n.item => m = n
      /\ \A n \in tell : n.type # "assigned"
      /\ \A n \in tell : n.type = "sla_overdue" => n.due <= clock
      /\ Dated(tell)
  BY <1>1 DEF Dated
<1> HIDE DEF tell
<1>6. TypeOK'
  <2>1. c \in Call
    BY <1>5, NewRowIsRow DEF Call, NoCall
  <2> HIDE DEF c
  <2> QED
    BY <1>2, <1>3, <2>1 DEF TypeOK, Labels
<1> HIDE DEF c
<1>7. NoHistory' /\ Dated(outbox)' /\ HistoryEndsAtRow' /\ OwnerWasTold' /\ OneReminderPerDeadline'
  BY <1>3 DEF NoHistory, Dated, HistoryEndsAtRow, OwnerWasTold, OneReminderPerDeadline, Existing
<1>8. ASSUME NEW q \in Requests PROVE UpdateInv(q)' /\ ScanInv(q)'
  <2>1. CASE q = r
    <3>1. pc'[r] = "createMany" /\ call'[r] = c
      BY <1>2 DEF TypeOK
    <3> QED
      BY <1>3, <1>4, <1>5, <2>1, <3>1 DEF UpdateInv, ScanInv
  <2>2. CASE q # r
    BY <1>2, <1>3, <2>2 DEF TypeOK, UpdateInv, ScanInv, Dated, Existing, ToldOf
  <2> QED
    BY <2>1, <2>2
<1> QED
  BY <1>6, <1>7, <1>8

LEMMA CreateManyStep == ASSUME IInv, NEW r \in Requests, CreateMany(r) PROVE IInv'
<1> USE DEF IInv
<1> DEFINE new == {n \in call[r].tell : Fresh(n)}
<1>1. /\ outbox' = outbox \cup new
      /\ pc' = [pc EXCEPT ![r] = "idle"]
      /\ call' = [call EXCEPT ![r] = NoCall]
      /\ UNCHANGED <<clock, item, latest>>
  BY DEF CreateMany, Finish, Goto
<1>2. /\ \A n \in new : n \in Notice /\ Fresh(n)
      /\ \A m, n \in new : m.item = n.item => m = n
      /\ \A n \in new : n.type = "sla_overdue" => n.due <= clock
      /\ Dated(new)
  <2>1. call[r] \in Call /\ pc[r] = "createMany" /\ ScanInv(r)
    BY DEF CreateMany, TypeOK
  <2> QED
    BY <2>1 DEF ScanInv, Dated, Call
<1> HIDE DEF new
<1>3. TypeOK'
  BY <1>1, <1>2, NewRowIsRow DEF TypeOK, Labels
<1>4. NoHistory' /\ HistoryEndsAtRow' /\ OwnerWasTold'
  BY <1>1 DEF NoHistory, HistoryEndsAtRow, OwnerWasTold, Existing
<1>5. OneReminderPerDeadline' /\ Dated(outbox)'
  BY <1>1, <1>2 DEF OneReminderPerDeadline, Dated, Fresh
<1>6. ASSUME NEW q \in Requests PROVE UpdateInv(q)' /\ ScanInv(q)'
  <2>1. CASE q = r
    BY <1>1, <2>1 DEF TypeOK, UpdateInv, ScanInv, Dated
  <2>2. CASE q # r
    BY <1>1, <2>2 DEF TypeOK, UpdateInv, ScanInv, Dated, Existing, ToldOf
  <2> QED
    BY <2>1, <2>2
<1> QED
  BY <1>3, <1>4, <1>5, <1>6

LEMMA NextStep == IInv /\ [Next]_vars => IInv'
<1> SUFFICES ASSUME IInv, [Next]_vars PROVE IInv'
  OBVIOUS
<1>1. CASE Next
  <2>1. ASSUME NEW r \in Requests, Abort(r) PROVE IInv'
    BY <2>1, FinishStep DEF Abort
  <2> QED
    BY <1>1, <2>1, TickStep, CreateStep, ToolStep, UpdateStep, AssertStep, WriteStep,
       ScanStep, CreateManyStep DEF Next
<1>2. CASE UNCHANGED vars
  BY <1>2 DEF vars, IInv, TypeOK, NoHistory, UpdateInv, ScanInv, Dated, ToldOf, HistoryEndsAtRow,
     OwnerWasTold, OneReminderPerDeadline, Existing
<1> QED
  BY <1>1, <1>2

(* The inductive invariant holds of every reachable state: types, what an  *)
(* update or a scan under way will write and tell, and the three           *)
(* properties of the module.                                               *)
THEOREM Invariance == Spec => []IInv
BY InitStep, NextStep, PTL DEF Spec

(* Rows, requests and notices keep their shape.                            *)
THEOREM TypeCorrect == Spec => []TypeOK
<1>1. IInv => TypeOK
  BY DEF IInv
<1> QED
  BY <1>1, Invariance, PTL

(* However updates overwrite each other, the history ends where the row is. *)
THEOREM History == Spec => []HistoryEndsAtRow
<1>1. IInv => HistoryEndsAtRow
  BY DEF IInv
<1> QED
  BY <1>1, Invariance, PTL

(* Whoever owns an item was once told so.                                  *)
THEOREM OwnersTold == Spec => []OwnerWasTold
<1>1. IInv => OwnerWasTold
  BY DEF IInv
<1> QED
  BY <1>1, Invariance, PTL

(* One reminder of each kind for a deadline, and none called overdue early. *)
THEOREM Reminders == Spec => []OneReminderPerDeadline
<1>1. IInv => OneReminderPerDeadline
  BY DEF IInv
<1> QED
  BY <1>1, Invariance, PTL
=============================================================================
