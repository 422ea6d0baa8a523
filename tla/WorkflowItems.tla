---------------------------- MODULE WorkflowItems ----------------------------
(***************************************************************************)
(* Customer requests (workflow items): creation, the update over REST, the *)
(* status update of the agent's tool, and the reminders that every API     *)
(* instance publishes about deadlines.  An update reads the row, checks    *)
(* the assignee, and only then opens the transaction that writes every     *)
(* column of the row, its history event and, for a new assignee, an outbox *)
(* event; nothing ties the row it writes to the row it read.               *)
(***************************************************************************)
EXTENDS Integers

CONSTANTS Items,
          Users,     \* possible assignees
          Requests,  \* REST updates, tool calls and reminder scans in flight
          None,
          Keep,      \* a field the update leaves out
          Roles,     \* membership roles that reach the update
          Statuses,
          Initial,   \* the status of a new item
          Closed,    \* CLOSED
          Horizon,   \* how long before a deadline the first reminder is due
          Deadlines, \* the times a deadline may be set to
          MaxClock   \* bound of the model's clock

Row == [status: Statuses, owner: Users \cup {None}, due: Deadlines \cup {None},
        closedAt: BOOLEAN]

ASSUME ItemsAssumption ==
  /\ None \notin Users \cup Items
  /\ Keep \notin Users \cup Nat \cup Statuses \cup {None}
  /\ Initial \in Statuses /\ Closed \in Statuses \ {Initial}
  /\ Deadlines \subseteq Nat /\ Horizon \in Nat /\ MaxClock \in Nat
  /\ None \notin Nat \cup Row

VARIABLES clock,
          item,       \* WorkflowItem rows, None before they exist
          latest,     \* owner and deadline in the newest event that has them
          outbox,     \* OutboxEvent rows
          pc,
          call        \* what each request will write

vars == <<clock, item, latest, outbox, pc, call>>

Dto == [status: Statuses \cup {Keep}, owner: Users \cup {None, Keep},
        due: Deadlines \cup {None, Keep}]
Notice == [type: {"assigned", "sla_due_soon", "sla_overdue"}, item: Items,
           user: Users, due: Deadlines \cup {None}]

NewRow == [status |-> Initial, owner |-> None, due |-> None, closedAt |-> FALSE]

\* data is the row a request will write, tell the notices it will create.
Call == [item: Items \cup {None}, data: Row, tell: SUBSET Notice]
NoCall == [item |-> None, data |-> NewRow, tell |-> {}]

Labels == {"idle", "assert", "write", "createMany"}

Existing == {i \in Items : item[i] # None}

Goto(r, label) == pc' = [pc EXCEPT ![r] = label]

Begin(r, label, c) ==
  /\ pc[r] = "idle"
  /\ Goto(r, label)
  /\ call' = [call EXCEPT ![r] = c]

Finish(r) ==
  /\ Goto(r, "idle")
  /\ call' = [call EXCEPT ![r] = NoCall]

Init ==
  /\ clock = 0
  /\ item = [i \in Items |-> None]
  /\ latest = [i \in Items |-> [owner |-> None, due |-> None]]
  /\ outbox = {}
  /\ pc = [r \in Requests |-> "idle"]
  /\ call = [r \in Requests |-> NoCall]

Tick ==
  /\ clock < MaxClock
  /\ clock' = clock + 1
  /\ UNCHANGED <<item, latest, outbox, pc, call>>

\* create, of the service and of the agent's tool: the row and its event.
Create(i) ==
  /\ item[i] = None
  /\ item' = [item EXCEPT ![i] = NewRow]
  /\ UNCHANGED <<clock, latest, outbox, pc, call>>

-----------------------------------------------------------------------------
(* update                                                                  *)

MayAssign(role, dto) == dto.owner = Keep \/ role \in {"OWNER", "ADMIN"}

Or(value, current) == IF value = Keep THEN current ELSE value

ClosedAt(dto, current) == dto.status = Closed \/ current.closedAt

\* What the update writes, from the request and the row as it was read.
Data(dto, current) ==
  [status |-> Or(dto.status, current.status), owner |-> Or(dto.owner, current.owner),
   due |-> Or(dto.due, current.due), closedAt |-> ClosedAt(dto, current)]

\* (variant of Assigns) only the first assignee of an item is told
AssignsFirst(dto, current) == dto.owner \notin {Keep, None} /\ current.owner = None

Assigns(dto, current) == dto.owner \notin {Keep, None, current.owner}

\* getById reads the row, and a new assignee is looked up next.  A request
\* that may not assign throws here, before it has done anything.
Update(r, i, role, dto) ==
  LET data == Data(dto, item[i])
      notice == [type |-> "assigned", item |-> i, user |-> data.owner, due |-> data.due]
  IN /\ i \in Existing
     /\ MayAssign(role, dto)
     /\ Begin(r, IF data.owner \in {None, item[i].owner} THEN "write" ELSE "assert",
              [item |-> i, data |-> data,
               tell |-> IF Assigns(dto, item[i]) THEN {notice} ELSE {}])
     /\ UNCHANGED <<clock, item, latest, outbox>>

\* The team may answer either way, and may change right after.
AssertAssignableMember(r) ==
  /\ pc[r] = "assert"
  /\ \/ Goto(r, "write") /\ UNCHANGED call
     \/ Finish(r)
  /\ UNCHANGED <<clock, item, latest, outbox>>

\* (variant of Written) the owner column is left out of the update
WrittenButOwner(row, data) == [data EXCEPT !.owner = row.owner]

Written(row, data) == data

\* The transaction: row, history event and outbox event.
Write(r) ==
  LET c == call[r]
  IN /\ pc[r] = "write"
     /\ item' = [item EXCEPT ![c.item] = Written(@, c.data)]
     /\ latest' = [latest EXCEPT ![c.item] = [owner |-> c.data.owner, due |-> c.data.due]]
     /\ outbox' = outbox \cup c.tell
     /\ Finish(r)
     /\ UNCHANGED clock

-----------------------------------------------------------------------------
(* update_workflow_status, the agent's tool: two columns and an event      *)
(* without owner or deadline.                                              *)

UpdateWorkflowStatus(i, status) ==
  /\ i \in Existing
  /\ item' = [item EXCEPT ![i].status = status, ![i].closedAt = status = Closed]
  /\ UNCHANGED <<clock, latest, outbox, pc, call>>

-----------------------------------------------------------------------------
(* publishSlaEvents                                                        *)

Watched == {i \in Existing : /\ item[i].owner # None
                             /\ item[i].due # None
                             /\ item[i].due <= clock + Horizon
                             /\ item[i].status # Closed}

\* (variant of ReminderType) a deadline within the horizon counts as late
AlwaysOverdue(due) == "sla_overdue"

ReminderType(due) == IF due <= clock THEN "sla_overdue" ELSE "sla_due_soon"

Scan(r) ==
  /\ Watched # {}
  /\ Begin(r, "createMany", [NoCall EXCEPT !.tell =
       {[type |-> ReminderType(item[i].due), item |-> i, user |-> item[i].owner,
         due |-> item[i].due] : i \in Watched}])
  /\ UNCHANGED <<clock, item, latest, outbox>>

\* (variant of Fresh) without the unique key
FreshAlways(n) == TRUE

\* dedupeKey: type, item and deadline; skipDuplicates.
Fresh(n) ==
  \A m \in outbox : ~(m.type = n.type /\ m.item = n.item /\ m.due = n.due)

CreateMany(r) ==
  /\ pc[r] = "createMany"
  /\ outbox' = outbox \cup {n \in call[r].tell : Fresh(n)}
  /\ Finish(r)
  /\ UNCHANGED <<clock, item, latest>>

-----------------------------------------------------------------------------
\* The connection or the instance is lost: the transaction never commits.
Abort(r) ==
  /\ pc[r] # "idle"
  /\ Finish(r)
  /\ UNCHANGED <<clock, item, latest, outbox>>

Next ==
  \/ Tick
  \/ \E i \in Items : Create(i)
  \/ \E i \in Items, status \in Statuses : UpdateWorkflowStatus(i, status)
  \/ \E r \in Requests :
       \/ \E i \in Items, role \in Roles, dto \in Dto : Update(r, i, role, dto)
       \/ AssertAssignableMember(r) \/ Write(r)
       \/ Scan(r) \/ CreateMany(r)
       \/ Abort(r)

Spec == Init /\ [][Next]_vars

-----------------------------------------------------------------------------
(* Properties                                                              *)

(* Rows, requests and notices keep their shape.                            *)
TypeOK ==
  /\ clock \in Nat
  /\ item \in [Items -> Row \cup {None}]
  /\ latest \in [Items -> [owner: Users \cup {None}, due: Deadlines \cup {None}]]
  /\ outbox \in SUBSET Notice
  /\ pc \in [Requests -> Labels]
  /\ call \in [Requests -> Call]

(* The newest history event that names an owner and a deadline names those *)
(* of the row: whatever updates overwrite each other, and in whatever      *)
(* order they commit, the history ends where the row is.                   *)
HistoryEndsAtRow ==
  \A i \in Existing : latest[i] = [owner |-> item[i].owner, due |-> item[i].due]

(* Whoever owns an item was sent an assignment notice for it at some time, *)
(* also when an update that read an old row makes a former owner the owner *)
(* again without telling anybody.                                          *)
OwnerWasTold ==
  \A i \in Existing : item[i].owner # None =>
    \E n \in outbox : n.type = "assigned" /\ n.item = i /\ n.user = item[i].owner

(* However many instances scan at the same time, and whoever owns the item *)
(* meanwhile, one reminder of each kind exists for a deadline, and no item *)
(* is called overdue before its deadline.                                  *)
OneReminderPerDeadline ==
  /\ \A m, n \in outbox :
       m.type # "assigned" /\ m.type = n.type /\ m.item = n.item /\ m.due = n.due => m = n
  /\ \A n \in outbox : n.type = "sla_overdue" => n.due <= clock
=============================================================================
