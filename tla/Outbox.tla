------------------------------- MODULE Outbox -------------------------------
(***************************************************************************)
(* Delivery of outbox events by notifications.worker.ts.  Every API        *)
(* instance polls on a timer and a poll does not wait for the one before,  *)
(* so several polling cycles work on the same table.  A cycle lists the    *)
(* events that are due and then handles all of them at the same time; each *)
(* awaited call of processOne is a step of its own.                        *)
(***************************************************************************)
EXTENDS Integers, FiniteSets

CONSTANTS NumEvents,   \* events are numbered in the order of their createdAt
          Cycles,      \* runs of processPending in flight at the same time
          Take,        \* how many events a cycle lists at most
          MailEnabled, \* EMAIL_PROVIDER is configured
          MaxClock,    \* bound of the model's clock, in minutes
          MaxCrashes   \* bound on the cycles that die

Events == 1..NumEvents

ASSUME OutboxAssumption ==
  /\ NumEvents \in Nat
  /\ Take \in Nat \ {0}
  /\ MailEnabled \in BOOLEAN
  /\ MaxClock \in Nat
  /\ MaxCrashes \in Nat

VARIABLES clock,
          event,    \* OutboxEvent rows
          notified, \* events that have their Notification row
          read,     \* those whose notification has its readAt
          mails,    \* mails sent for each event
          job,      \* what each cycle is doing with each event
          crashes

vars == <<clock, event, notified, read, mails, job, crashes>>

Status == {"ABSENT", "PENDING", "PROCESSING", "DELIVERED", "FAILED"}
Stages == {"none", "listed", "claimed", "notified", "mailed", "failed"}

Event == [status: Status, attempts: Nat, availableAt: Nat]
Job == [stage: Stages, attempts: Nat]

NoEvent == [status |-> "ABSENT", attempts |-> 0, availableAt |-> 0]
NoJob == [stage |-> "none", attempts |-> 0]

Init ==
  /\ clock = 0
  /\ event = [e \in Events |-> NoEvent]
  /\ notified = {}
  /\ read = {}
  /\ mails = [e \in Events |-> 0]
  /\ job = [c \in Cycles |-> [e \in Events |-> NoJob]]
  /\ crashes = 0

Tick ==
  /\ clock < MaxClock
  /\ clock' = clock + 1
  /\ UNCHANGED <<event, notified, read, mails, job, crashes>>

\* A transaction of WorkflowItems, or publishSlaEvents, commits a new row.
Publish(e) ==
  /\ event[e].status = "ABSENT"
  /\ \A x \in Events : x < e => event[x].status # "ABSENT"
  /\ event' = [event EXCEPT ![e] = [NoEvent EXCEPT !.status = "PENDING", !.availableAt = clock]]
  /\ UNCHANGED <<clock, notified, read, mails, job, crashes>>

-----------------------------------------------------------------------------
(* processPending and processOne                                           *)

Due == {e \in Events : /\ event[e].status \in {"PENDING", "FAILED"}
                       /\ event[e].availableAt <= clock}

\* The oldest Take of them.
Listed == {e \in Due : Cardinality({x \in Due : x < e}) < Take}

Poll(c) ==
  /\ \A e \in Events : job[c][e] = NoJob
  /\ Listed # {}
  /\ job' = [job EXCEPT ![c] = [e \in Events |->
               IF e \in Listed THEN [NoJob EXCEPT !.stage = "listed"] ELSE NoJob]]
  /\ UNCHANGED <<clock, event, notified, read, mails, crashes>>

\* (variants of Claimable) an update by id; one that forgets availableAt
ClaimableById(e) == TRUE
ClaimableEarly(e) == event[e].status \in {"PENDING", "FAILED"}

\* The condition the claiming update asks of the row once more.
Claimable(e) == e \in Due

Step(c, e, from, to) ==
  /\ job[c][e].stage = from
  /\ job' = [job EXCEPT ![c][e].stage = to]

Drop(c, e) == job' = [job EXCEPT ![c][e] = NoJob]

Claim(c, e) ==
  /\ job[c][e].stage = "listed"
  /\ IF Claimable(e)
     THEN /\ event' = [event EXCEPT ![e].status = "PROCESSING", ![e].attempts = @ + 1]
          /\ job' = [job EXCEPT ![c][e] =
                       [stage |-> "claimed", attempts |-> event[e].attempts + 1]]
     ELSE Drop(c, e) /\ UNCHANGED event
  /\ UNCHANGED <<clock, notified, read, mails, crashes>>

\* (variant of Notify) the mail goes out although the upsert was skipped
NotifySkipped(c, e) ==
  /\ Step(c, e, "claimed", "notified")
  /\ UNCHANGED <<clock, event, notified, read, mails, crashes>>

\* The payload is checked, the assignee read and the notification upserted,
\* with nothing to update when it is there and perhaps read already.
Notify(c, e) ==
  /\ \/ Step(c, e, "claimed", "notified") /\ notified' = notified \cup {e}
     \/ Step(c, e, "claimed", "failed") /\ UNCHANGED notified
  /\ UNCHANGED <<clock, event, read, mails, crashes>>

Mail(c, e) ==
  /\ \/ /\ Step(c, e, "notified", "mailed")
        /\ mails' = IF MailEnabled THEN [mails EXCEPT ![e] = @ + 1] ELSE mails
     \/ /\ MailEnabled
        /\ Step(c, e, "notified", "failed")
        /\ UNCHANGED mails
  /\ UNCHANGED <<clock, event, notified, read, crashes>>

\* The last update may fail too; the catch block does not know that the
\* mail is out.
Deliver(c, e) ==
  /\ \/ /\ job[c][e].stage = "mailed"
        /\ event' = [event EXCEPT ![e].status = "DELIVERED"]
        /\ Drop(c, e)
     \/ /\ Step(c, e, "mailed", "failed")
        /\ UNCHANGED event
  /\ UNCHANGED <<clock, notified, read, mails, crashes>>

\* In minutes: two, doubled with every attempt up to the sixth, one hour at most.
Delays == <<2, 4, 8, 16, 32, 60>>

\* (variant of delay) sign error
NegativeDelay(attempts) == 0 - Delays[IF attempts < 6 THEN attempts ELSE 6]

delay(attempts) == Delays[IF attempts < 6 THEN attempts ELSE 6]

\* (variant of Fail) the error is logged, the row stays as it is
FailSilently(c, e) ==
  /\ job[c][e].stage = "failed"
  /\ Drop(c, e)
  /\ UNCHANGED <<clock, event, notified, read, mails, crashes>>

Fail(c, e) ==
  /\ job[c][e].stage = "failed"
  /\ event' = [event EXCEPT ![e].status = "FAILED",
                            ![e].availableAt = clock + delay(job[c][e].attempts)]
  /\ Drop(c, e)
  /\ UNCHANGED <<clock, notified, read, mails, crashes>>

\* The instance stops, or an error outside the try block ends the process:
\* the cycle is lost, and nothing looks for the rows it left PROCESSING.
Crash(c) ==
  /\ crashes < MaxCrashes
  /\ \E e \in Events : job[c][e] # NoJob
  /\ job' = [job EXCEPT ![c] = [e \in Events |-> NoJob]]
  /\ crashes' = crashes + 1
  /\ UNCHANGED <<clock, event, notified, read, mails>>

\* markRead of the notification's user, while its readAt is null.
MarkRead(e) ==
  /\ e \in notified \ read
  /\ read' = read \cup {e}
  /\ UNCHANGED <<clock, event, notified, mails, job, crashes>>

-----------------------------------------------------------------------------
Handle(c, e) ==
  Claim(c, e) \/ Notify(c, e) \/ Mail(c, e) \/ Deliver(c, e) \/ Fail(c, e)

Next ==
  \/ Tick
  \/ \E e \in Events : Publish(e) \/ MarkRead(e)
  \/ \E c \in Cycles : \/ Poll(c)
                       \/ Crash(c)
                       \/ \E e \in Events : Handle(c, e)

Spec == Init /\ [][Next]_vars

\* setInterval fires again and again, and an awaited call returns.
FairSpec ==
  /\ Spec
  /\ \A c \in Cycles : WF_vars(Poll(c)) /\ \A e \in Events : WF_vars(Handle(c, e))

-----------------------------------------------------------------------------
(* Properties                                                              *)

(* Rows and jobs keep their shape.                                         *)
TypeOK ==
  /\ clock \in Nat
  /\ event \in [Events -> Event]
  /\ notified \in SUBSET Events
  /\ read \in SUBSET notified
  /\ mails \in [Events -> Nat]
  /\ job \in [Cycles -> [Events -> Job]]
  /\ crashes \in Nat

Holds(c, e) == job[c][e].stage \notin {"none", "listed"}

(* However polls overlap, an event is in the hands of one cycle at most,   *)
(* its row is PROCESSING while it is, and the attempts that cycle computes *)
(* the back-off from are the row's.                                        *)
OneHolder ==
  \A e \in Events :
    /\ \A c \in Cycles : Holds(c, e) => /\ event[e].status = "PROCESSING"
                                        /\ job[c][e].attempts = event[e].attempts
    /\ \A c, d \in Cycles : Holds(c, e) /\ Holds(d, e) => c = d

(* However polls overlap, list an event before another cycle has taken,    *)
(* failed or delivered it, fail and die, the events are delivered as       *)
(* Delivery says: no mail twice in an attempt, no attempt before its time, *)
(* no DELIVERED before notification and mail are out, nothing after, and a *)
(* notification that was read stays read whatever is tried again.          *)
Promise == INSTANCE Delivery
  WITH now <- clock, noticed <- notified,
       status <- [e \in Events |-> event[e].status],
       attempts <- [e \in Events |-> event[e].attempts],
       notBefore <- [e \in Events |-> event[e].availableAt]

ImplementsDelivery == Promise!Spec

Orphaned(e) ==
  /\ crashes > 0
  /\ event[e].status = "PROCESSING"
  /\ \A c \in Cycles : ~Holds(c, e)

(* A published event is attempted and its attempt ends, unless the cycle   *)
(* that holds it dies: nothing takes its row up again then.                *)
EventsMoveOn ==
  \A e \in Events :
    event[e].status \in {"PENDING", "PROCESSING"}
      ~> (event[e].status \in {"DELIVERED", "FAILED"} \/ Orphaned(e))
=============================================================================
