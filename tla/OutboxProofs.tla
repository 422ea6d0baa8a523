---------------------------- MODULE OutboxProofs ----------------------------
(***************************************************************************)
(* Safety of Outbox for any number of events, cycles, polls and crashes,   *)
(* and that it implements Delivery; and, in the second part, safety of     *)
(* WebClient for any number of tabs, calls, sessions and tokens.           *)
(***************************************************************************)
EXTENDS Outbox, WebClient, TLAPS

-----------------------------------------------------------------------------
(* The inductive invariant.                                                *)

\* What the stage of an event in the hands of a cycle says of what is out.
StageInv(c, e) ==
  /\ Holds(c, e) => job[c][e].attempts # 0
  /\ job[c][e].stage \in {"notified", "mailed"} => e \in notified
  /\ job[c][e].stage \in {"claimed", "notified"} => mails[e] < event[e].attempts
  /\ job[c][e].stage = "mailed" /\ MailEnabled => mails[e] > 0

EventInv(e) ==
  /\ event[e].status = "ABSENT" => event[e] = NoEvent
  /\ mails[e] <= event[e].attempts

Told == \A e \in Events : EventInv(e) /\ \A c \in Cycles : StageInv(c, e)

IInv == TypeOK /\ OneHolder /\ Told

-----------------------------------------------------------------------------
LEMMA InitStep == Init => IInv
BY OutboxAssumption
DEF Init, IInv, TypeOK, OneHolder, Told, StageInv, EventInv, Holds, Event, Job, NoEvent,
    NoJob, Status, Stages, Events

LEMMA DelayBound == \A n \in Nat \ {0} : delay(n) \in 1..60
BY DEF delay, Delays

LEMMA TickStep == ASSUME IInv, Tick PROVE IInv'
BY DEF IInv, Tick, TypeOK, OneHolder, Told, StageInv, EventInv, Holds

LEMMA PublishStep == ASSUME IInv, NEW e \in Events, Publish(e) PROVE IInv'
<1> USE DEF IInv, Publish
<1>1. TypeOK'
  BY DEF TypeOK, Event, NoEvent, Status
<1>2. OneHolder'
  BY DEF TypeOK, OneHolder, Holds, Event, NoEvent
<1>3. Told'
  BY DEF TypeOK, Told, StageInv, EventInv, Event, NoEvent, Holds
<1> QED
  BY <1>1, <1>2, <1>3

LEMMA MarkReadStep == ASSUME IInv, NEW e \in Events, MarkRead(e) PROVE IInv'
BY DEF IInv, MarkRead, TypeOK, OneHolder, Told, StageInv, EventInv, Holds

LEMMA PollStep == ASSUME IInv, NEW c \in Cycles, Poll(c) PROVE IInv'
<1> USE DEF IInv, Poll
<1>1. TypeOK'
  BY DEF TypeOK, Job, NoJob, Stages
<1>2. \A d \in Cycles, e \in Events : Holds(d, e)' => Holds(d, e) /\ job'[d][e] = job[d][e]
  BY DEF TypeOK, Holds, NoJob
<1>3. OneHolder'
  BY <1>2 DEF OneHolder, Holds
<1>4. Told'
  BY <1>2 DEF Told, StageInv, EventInv, Holds
<1> QED
  BY <1>1, <1>3, <1>4

LEMMA CrashStep == ASSUME IInv, NEW c \in Cycles, Crash(c) PROVE IInv'
<1> USE DEF IInv, Crash
<1>1. TypeOK'
  BY DEF TypeOK, Job, NoJob, Stages
<1>2. \A d \in Cycles, e \in Events : Holds(d, e)' => Holds(d, e) /\ job'[d][e] = job[d][e]
  BY DEF TypeOK, Holds, NoJob
<1>3. OneHolder'
  BY <1>2 DEF OneHolder, Holds
<1>4. Told'
  BY <1>2 DEF Told, StageInv, EventInv, Holds
<1> QED
  BY <1>1, <1>3, <1>4

-----------------------------------------------------------------------------
(* A step of one job leaves the others as they are.                        *)

Changed(c, e, stage, attempts) ==
  /\ job' \in [Cycles -> [Events -> Job]]
  /\ \A d \in Cycles, x \in Events :
       /\ job'[d][x].stage = IF d = c /\ x = e THEN stage ELSE job[d][x].stage
       /\ job'[d][x].attempts = IF d = c /\ x = e THEN attempts ELSE job[d][x].attempts

LEMMA ReplaceChanges ==
  ASSUME TypeOK, NEW c \in Cycles, NEW e \in Events, NEW j \in Job,
         job' = [job EXCEPT ![c][e] = j]
  PROVE  Changed(c, e, j.stage, j.attempts)
BY DEF TypeOK, Changed, Job

LEMMA StepChanges ==
  ASSUME TypeOK, NEW c \in Cycles, NEW e \in Events, NEW from, NEW to \in Stages,
         Step(c, e, from, to)
  PROVE  Changed(c, e, to, job[c][e].attempts)
<1>1. [job[c][e] EXCEPT !.stage = to] \in Job
  BY DEF TypeOK, Job
<1>2. job' = [job EXCEPT ![c][e] = [job[c][e] EXCEPT !.stage = to]]
  BY DEF Step, TypeOK
<1>3. Changed(c, e, [job[c][e] EXCEPT !.stage = to].stage,
                    [job[c][e] EXCEPT !.stage = to].attempts)
  BY <1>1, <1>2, ReplaceChanges
<1> QED
  BY <1>3 DEF TypeOK, Job

LEMMA DropChanges ==
  ASSUME TypeOK, NEW c \in Cycles, NEW e \in Events, Drop(c, e)
  PROVE  Changed(c, e, "none", 0)
<1>1. NoJob \in Job /\ NoJob.stage = "none" /\ NoJob.attempts = 0
  BY DEF NoJob, Job, Stages
<1>2. Changed(c, e, NoJob.stage, NoJob.attempts)
  BY <1>1, ReplaceChanges DEF Drop
<1> QED
  BY <1>1, <1>2

LEMMA EventChange ==
  ASSUME TypeOK, NEW e \in Events, NEW row \in Event, event' = [event EXCEPT ![e] = row]
  PROVE  /\ event' \in [Events -> Event]
         /\ \A x \in Events : event'[x] = IF x = e THEN row ELSE event[x]
BY DEF TypeOK

\* A job that is not in hand any more, or goes on and has told what its new
\* stage says, keeps the invariant when its event's row is as before.
LEMMA GoesOn ==
  ASSUME IInv, NEW c \in Cycles, NEW e \in Events, NEW stage \in Stages, NEW attempts,
         Changed(c, e, stage, attempts),
         UNCHANGED <<clock, event, read, crashes>>,
         notified' \in SUBSET Events, notified \subseteq notified',
         mails' \in [Events -> Nat],
         \A x \in Events : x # e => mails'[x] = mails[x],
         mails'[e] <= event[e].attempts,
         stage \notin {"none", "listed"} =>
           Holds(c, e) /\ attempts = job[c][e].attempts,
         stage \in {"notified", "mailed"} => e \in notified',
         stage \in {"claimed", "notified"} => mails'[e] < event[e].attempts,
         stage = "mailed" /\ MailEnabled => mails'[e] > 0,
         mails'[e] = mails[e] \/ Holds(c, e)
  PROVE  IInv'
<1> USE DEF IInv
<1>1. TypeOK'
  BY DEF TypeOK, Changed
<1>2. \A d \in Cycles, x \in Events :
        Holds(d, x)' => Holds(d, x) /\ job'[d][x].attempts = job[d][x].attempts
  BY DEF Holds, Changed
<1>3. OneHolder'
  BY <1>2 DEF OneHolder
<1>4. ASSUME NEW x \in Events PROVE EventInv(x)'
  BY DEF Told, EventInv
<1>5. ASSUME NEW d \in Cycles, NEW x \in Events PROVE StageInv(d, x)'
  <2>1. StageInv(d, x)
    BY DEF Told
  <2>2. CASE d = c /\ x = e
    BY <1>2, <2>1, <2>2 DEF Changed, StageInv, Holds
  <2>3. CASE x # e
    BY <2>1, <2>3 DEF Changed, StageInv, Holds
  <2>4. CASE d # c /\ x = e
    <3>1. mails'[e] = mails[e] \/ ~Holds(d, x)
      BY <2>4 DEF OneHolder
    <3> QED
      BY <2>1, <2>4, <3>1 DEF Changed, StageInv, Holds
  <2> QED
    BY <2>2, <2>3, <2>4
<1> QED
  BY <1>1, <1>3, <1>4, <1>5 DEF Told

\* A claim takes an event that nobody holds: its row is not PROCESSING.
LEMMA ClaimStep == ASSUME IInv, NEW c \in Cycles, NEW e \in Events, Claim(c, e) PROVE IInv'
<1> USE DEF IInv
<1>1. CASE Claimable(e)
  <2> DEFINE n == event[e].attempts + 1
  <2> DEFINE row == [event[e] EXCEPT !.status = "PROCESSING", !.attempts = n]
  <2>1. n \in Nat \ {0} /\ n > event[e].attempts
    BY DEF TypeOK, Event
  <2> HIDE DEF n
  <2>2. row.status = "PROCESSING" /\ row.attempts = n
    BY <2>1 DEF TypeOK, Event, Status
  <2>3. row \in Event
    BY <2>1 DEF TypeOK, Event, Status
  <2>4. event' = [event EXCEPT ![e] = row]
    BY <1>1 DEF Claim, TypeOK, n
  <2>5. /\ event' \in [Events -> Event]
        /\ \A x \in Events : event'[x] = IF x = e THEN row ELSE event[x]
    BY <2>3, <2>4, EventChange
  <2>6. Changed(c, e, "claimed", n)
    <3>1. [stage |-> "claimed", attempts |-> n] \in Job
      BY <2>1 DEF Job, Stages
    <3>2. job' = [job EXCEPT ![c][e] = [stage |-> "claimed", attempts |-> n]]
      BY <1>1 DEF Claim, n
    <3> HIDE DEF row
    <3>3. Changed(c, e, [stage |-> "claimed", attempts |-> n].stage,
                        [stage |-> "claimed", attempts |-> n].attempts)
      BY <3>1, <3>2, ReplaceChanges
    <3> QED
      BY <3>3
  <2>8. \A d \in Cycles : ~Holds(d, e)
    BY <1>1 DEF Claimable, Due, OneHolder
  <2>9. UNCHANGED <<clock, notified, read, mails, crashes>>
    BY DEF Claim
  <2> HIDE DEF row
  <2>10. TypeOK'
    BY <2>5, <2>6, <2>9 DEF TypeOK, Changed
  <2>11. \A d \in Cycles, x \in Events :
           Holds(d, x)' <=> Holds(d, x) \/ (d = c /\ x = e)
    BY <2>6 DEF Holds, Changed
  <2>12. OneHolder'
    BY <2>2, <2>5, <2>6, <2>8, <2>11 DEF OneHolder, Changed
  <2>13. ASSUME NEW x \in Events PROVE EventInv(x)'
    BY <2>1, <2>2, <2>5, <2>9 DEF TypeOK, Event, Told, EventInv
  <2>14. ASSUME NEW d \in Cycles, NEW x \in Events PROVE StageInv(d, x)'
    <3>1. StageInv(d, x) /\ EventInv(e)
      BY DEF Told
    <3>2. CASE d = c /\ x = e
      BY <2>1, <2>2, <2>5, <2>6, <2>9, <3>1, <3>2
      DEF TypeOK, Event, Changed, StageInv, EventInv, Holds
    <3>3. CASE x # e
      BY <2>5, <2>6, <2>9, <3>1, <3>3 DEF Changed, StageInv, Holds
    <3>4. CASE d # c /\ x = e
      BY <2>6, <2>8, <3>4 DEF Changed, StageInv, Holds
    <3> QED
      BY <3>2, <3>3, <3>4
  <2> QED
    BY <2>10, <2>12, <2>13, <2>14 DEF Told
<1>2. CASE ~Claimable(e)
  <2>1. Changed(c, e, "none", 0) /\ UNCHANGED <<clock, event, notified, read, mails, crashes>>
    BY <1>2, DropChanges DEF Claim
  <2> QED
    BY <2>1, GoesOn DEF TypeOK, Told, EventInv, Stages
<1> QED
  BY <1>1, <1>2

LEMMA NotifyStep == ASSUME IInv, NEW c \in Cycles, NEW e \in Events, Notify(c, e) PROVE IInv'
<1> USE DEF IInv
<1>1. Holds(c, e) /\ mails[e] < event[e].attempts /\ mails[e] <= event[e].attempts
  BY DEF Notify, Step, Holds, Told, StageInv, EventInv
<1>2. UNCHANGED <<clock, event, read, mails, crashes>> /\ mails \in [Events -> Nat]
  BY DEF Notify, TypeOK
<1>3. CASE Step(c, e, "claimed", "notified") /\ notified' = notified \cup {e}
  <2>1. Changed(c, e, "notified", job[c][e].attempts)
    BY <1>3, StepChanges DEF Stages
  <2> QED
    BY <1>1, <1>2, <1>3, <2>1, GoesOn DEF TypeOK, Stages
<1>4. CASE Step(c, e, "claimed", "failed") /\ UNCHANGED notified
  <2>1. Changed(c, e, "failed", job[c][e].attempts)
    BY <1>4, StepChanges DEF Stages
  <2> QED
    BY <1>1, <1>2, <1>4, <2>1, GoesOn DEF TypeOK, Stages
<1> QED
  BY <1>3, <1>4 DEF Notify

LEMMA MailStep == ASSUME IInv, NEW c \in Cycles, NEW e \in Events, Mail(c, e) PROVE IInv'
<1> USE DEF IInv
<1>1. /\ Holds(c, e) /\ e \in notified
      /\ mails[e] < event[e].attempts /\ mails[e] <= event[e].attempts
      /\ mails[e] \in Nat /\ event[e].attempts \in Nat
  BY DEF Mail, Step, Holds, Told, StageInv, EventInv, TypeOK, Event
<1>2. UNCHANGED <<clock, event, notified, read, crashes>>
  BY DEF Mail
<1>3. CASE /\ Step(c, e, "notified", "mailed")
           /\ mails' = IF MailEnabled THEN [mails EXCEPT ![e] = @ + 1] ELSE mails
  <2>1. Changed(c, e, "mailed", job[c][e].attempts)
    BY <1>3, StepChanges DEF Stages
  <2>2. mails' \in [Events -> Nat] /\ \A x \in Events : x # e => mails'[x] = mails[x]
    BY <1>3 DEF TypeOK
  <2>3. mails'[e] <= event[e].attempts /\ (MailEnabled => mails'[e] > 0)
    BY <1>1, <1>3 DEF TypeOK
  <2> QED
    BY <1>1, <1>2, <2>1, <2>2, <2>3, GoesOn DEF TypeOK, Stages
<1>4. CASE Step(c, e, "notified", "failed") /\ UNCHANGED mails
  <2>1. Changed(c, e, "failed", job[c][e].attempts)
    BY <1>4, StepChanges DEF Stages
  <2> QED
    BY <1>1, <1>2, <1>4, <2>1, GoesOn DEF TypeOK, Stages
<1> QED
  BY <1>3, <1>4 DEF Mail

\* The end of an attempt: the event leaves the hands of its only holder.
LEMMA EndStep ==
  ASSUME IInv, NEW c \in Cycles, NEW e \in Events, NEW row \in Event, Holds(c, e),
         event' = [event EXCEPT ![e] = row], Drop(c, e),
         row.status # "ABSENT", row.attempts = event[e].attempts,
         UNCHANGED <<clock, notified, read, mails, crashes>>
  PROVE  IInv'
<1> USE DEF IInv
<1>1. Changed(c, e, "none", 0)
  BY DropChanges
<1>2. event' \in [Events -> Event] /\ \A x \in Events : event'[x] = IF x = e THEN row ELSE event[x]
  BY EventChange
<1>3. \A d \in Cycles : d # c => ~Holds(d, e)
  BY DEF OneHolder
<1>4. TypeOK'
  BY <1>1, <1>2 DEF TypeOK, Changed
<1>5. \A d \in Cycles, x \in Events : Holds(d, x)' => Holds(d, x) /\ x # e
  BY <1>1, <1>3 DEF Holds, Changed
<1>6. OneHolder'
  BY <1>1, <1>2, <1>5 DEF OneHolder, Holds, Changed
<1>7. ASSUME NEW x \in Events PROVE EventInv(x)'
  BY <1>2 DEF Told, EventInv
<1>8. ASSUME NEW d \in Cycles, NEW x \in Events PROVE StageInv(d, x)'
  <2>1. StageInv(d, x)
    BY DEF Told
  <2>2. CASE Holds(d, x)'
    BY <1>1, <1>2, <1>5, <2>1, <2>2 DEF StageInv, Holds, Changed
  <2>3. CASE ~Holds(d, x)'
    BY <2>3 DEF StageInv, Holds
  <2> QED
    BY <2>2, <2>3
<1> QED
  BY <1>4, <1>6, <1>7, <1>8 DEF Told

LEMMA DeliverStep ==
  ASSUME IInv, NEW c \in Cycles, NEW e \in Events, Deliver(c, e) PROVE IInv'
<1>1. CASE job[c][e].stage = "mailed" /\ event' = [event EXCEPT ![e].status = "DELIVERED"]
             /\ Drop(c, e)
  <2> DEFINE row == [event[e] EXCEPT !.status = "DELIVERED"]
  <2>1. row \in Event /\ row.status # "ABSENT" /\ row.attempts = event[e].attempts
    BY DEF IInv, TypeOK, Event, Status
  <2>2. event' = [event EXCEPT ![e] = row]
    BY <1>1 DEF IInv, TypeOK
  <2>3. Holds(c, e)
    BY <1>1 DEF Holds
  <2> HIDE DEF row
  <2> QED
    BY <1>1, <2>1, <2>2, <2>3, EndStep DEF Deliver
<1>2. CASE Step(c, e, "mailed", "failed") /\ UNCHANGED event
  <2>1. Changed(c, e, "failed", job[c][e].attempts)
    BY <1>2, StepChanges DEF Stages, IInv
  <2>2. Holds(c, e)
    BY <1>2 DEF Step, Holds
  <2> QED
    BY <1>2, <2>1, <2>2, GoesOn DEF Deliver, IInv, TypeOK, Told, EventInv, Stages
<1> QED
  BY <1>1, <1>2 DEF Deliver

LEMMA FailStep == ASSUME IInv, NEW c \in Cycles, NEW e \in Events, Fail(c, e) PROVE IInv'
<1> DEFINE later == clock + delay(job[c][e].attempts)
<1> DEFINE row == [event[e] EXCEPT !.status = "FAILED", !.availableAt = later]
<1>1. Holds(c, e) /\ job[c][e].attempts \in Nat \ {0}
  BY DEF Fail, Holds, IInv, TypeOK, Job, Told, StageInv
<1>2. later \in Nat
  BY <1>1, DelayBound DEF IInv, TypeOK
<1>3. event' = [event EXCEPT ![e] = row]
  BY DEF Fail, IInv, TypeOK
<1> HIDE DEF later
<1>4. row \in Event /\ row.status # "ABSENT" /\ row.attempts = event[e].attempts
  BY <1>2 DEF IInv, TypeOK, Event, Status
<1> HIDE DEF row
<1> QED
  BY <1>1, <1>3, <1>4, EndStep DEF Fail

LEMMA NextStep == IInv /\ [Next]_vars => IInv'
<1> SUFFICES ASSUME IInv, [Next]_vars PROVE IInv'
  OBVIOUS
<1>1. CASE Next
  BY <1>1, TickStep, PublishStep, MarkReadStep, PollStep, CrashStep, ClaimStep, NotifyStep, MailStep,
     DeliverStep, FailStep DEF Next, Handle
<1>2. CASE UNCHANGED vars
  BY <1>2 DEF vars, IInv, TypeOK, OneHolder, Told, StageInv, EventInv, Holds
<1> QED
  BY <1>1, <1>2

(* The inductive invariant holds of every reachable state: types, one      *)
(* holder, and what has gone out at each stage of an attempt.              *)
THEOREM Invariance == Spec => []IInv
BY InitStep, NextStep, PTL DEF Spec

(* Rows and jobs keep their shape.                                         *)
THEOREM TypeCorrect == Spec => []TypeOK
<1>1. IInv => TypeOK
  BY DEF IInv
<1> QED
  BY <1>1, Invariance, PTL

(* No two cycles, of any number and in any number of instances, work on    *)
(* one event at the same time.                                             *)
THEOREM SingleHolder == Spec => []OneHolder
<1>1. IInv => OneHolder
  BY DEF IInv
<1> QED
  BY <1>1, Invariance, PTL

-----------------------------------------------------------------------------
(* The refinement.                                                         *)

LEMMA RefinedInit == Init => Promise!Init
BY DEF Init, Promise!Init, NoEvent

LEMMA RefinedClaim ==
  ASSUME IInv, NEW c \in Cycles, NEW e \in Events, Claim(c, e)
  PROVE  Promise!Try(e) \/ UNCHANGED Promise!promised
<1>1. CASE e \in Due
  BY <1>1 DEF Claim, Claimable, Due, Promise!Try, IInv, TypeOK, Event
<1>2. CASE e \notin Due
  BY <1>2 DEF Claim, Claimable, Promise!promised
<1> QED
  BY <1>1, <1>2

LEMMA RefinedNotify ==
  ASSUME IInv, NEW c \in Cycles, NEW e \in Events, Notify(c, e)
  PROVE  Promise!Notice(e) \/ UNCHANGED Promise!promised
<1>1. event[e].status = "PROCESSING"
  BY DEF Notify, Step, IInv, OneHolder, Holds
<1> QED
  BY <1>1 DEF Notify, Promise!Notice, Promise!promised

LEMMA RefinedMail ==
  ASSUME IInv, NEW c \in Cycles, NEW e \in Events, Mail(c, e)
  PROVE  Promise!Mail(e) \/ UNCHANGED Promise!promised
<1>1. /\ event[e].status = "PROCESSING"
      /\ e \in notified /\ mails[e] < event[e].attempts
  BY DEF Mail, Step, IInv, OneHolder, Holds, Told, StageInv
<1> QED
  BY <1>1 DEF Mail, Promise!Mail, Promise!promised

LEMMA RefinedDeliver ==
  ASSUME IInv, NEW c \in Cycles, NEW e \in Events, Deliver(c, e)
  PROVE  Promise!Succeed(e) \/ UNCHANGED Promise!promised
<1>1. CASE job[c][e].stage = "mailed" /\ event' = [event EXCEPT ![e].status = "DELIVERED"]
  <2>1. /\ event[e].status = "PROCESSING"
        /\ e \in notified /\ (MailEnabled => mails[e] > 0)
    BY <1>1 DEF IInv, OneHolder, Holds, Told, StageInv
  <2> QED
    BY <1>1, <2>1 DEF Deliver, Promise!Succeed, IInv, TypeOK, Event
<1>2. CASE UNCHANGED event
  BY <1>2 DEF Deliver, Promise!promised
<1> QED
  BY <1>1, <1>2 DEF Deliver

LEMMA RefinedFail ==
  ASSUME IInv, NEW c \in Cycles, NEW e \in Events, Fail(c, e)
  PROVE  Promise!GiveUp(e)
<1>1. event[e].status = "PROCESSING" /\ job[c][e].attempts \in Nat \ {0}
  BY DEF Fail, IInv, TypeOK, Job, OneHolder, Holds, Told, StageInv
<1>2. delay(job[c][e].attempts) \in 1..60
  BY <1>1, DelayBound
<1> QED
  BY <1>1, <1>2 DEF Fail, Promise!GiveUp, IInv, TypeOK, Event

LEMMA RefinedStep == IInv /\ [Next]_vars => [Promise!Next]_(Promise!promised)
<1> SUFFICES ASSUME IInv, [Next]_vars
             PROVE  Promise!Next \/ UNCHANGED Promise!promised
  OBVIOUS
<1>1. ASSUME Tick PROVE Promise!Pass
  BY <1>1 DEF Tick, Promise!Pass, IInv, TypeOK
<1>2. ASSUME NEW e \in Events, Publish(e) PROVE Promise!Accept(e)
  <2>1. event[e] = NoEvent
    BY <1>2 DEF Publish, IInv, Told, EventInv
  <2>2. \A x \in Events :
          /\ event'[x].status = IF x = e THEN "PENDING" ELSE event[x].status
          /\ event'[x].availableAt = IF x = e THEN clock ELSE event[x].availableAt
          /\ event'[x].attempts = event[x].attempts
    <3> DEFINE row == [NoEvent EXCEPT !.status = "PENDING", !.availableAt = clock]
    <3>1. /\ row \in Event
          /\ row.status = "PENDING" /\ row.attempts = 0 /\ row.availableAt = clock
      BY DEF IInv, TypeOK, NoEvent, Event, Status
    <3>2. event' = [event EXCEPT ![e] = row]
      BY <1>2 DEF Publish
    <3> HIDE DEF row
    <3>3. \A x \in Events : event'[x] = IF x = e THEN row ELSE event[x]
      BY <3>1, <3>2, EventChange DEF IInv
    <3> QED
      BY <2>1, <3>1, <3>3 DEF NoEvent
  <2>3. event[e].status = "ABSENT"
    BY <2>1 DEF NoEvent
  <2>4. [x \in Events |-> event'[x].status]
          = [[x \in Events |-> event[x].status] EXCEPT ![e] = "PENDING"]
    BY <2>2
  <2>5. [x \in Events |-> event'[x].availableAt]
          = [[x \in Events |-> event[x].availableAt] EXCEPT ![e] = clock]
    BY <2>2
  <2>6. [x \in Events |-> event'[x].attempts] = [x \in Events |-> event[x].attempts]
    BY <2>2
  <2>7. UNCHANGED <<clock, notified, read, mails>>
    BY <1>2 DEF Publish
  <2> QED
    BY <2>3, <2>4, <2>5, <2>6, <2>7 DEF Promise!Accept
<1>3. ASSUME NEW c \in Cycles, Poll(c) \/ Crash(c) PROVE UNCHANGED Promise!promised
  BY <1>3 DEF Poll, Crash, Promise!promised
<1>4. CASE UNCHANGED vars
  BY <1>4 DEF vars, Promise!promised
<1>5. ASSUME NEW e \in Events, MarkRead(e) PROVE Promise!Read(e)
  BY <1>5 DEF MarkRead, Promise!Read
<1> QED
  BY <1>1, <1>2, <1>3, <1>4, <1>5, RefinedClaim, RefinedNotify, RefinedMail, RefinedDeliver,
     RefinedFail DEF Next, Handle, Promise!Next

(* The overlapping polls implement Delivery: back-off, one mail for each   *)
(* attempt at most and only after the notification, and a DELIVERED that   *)
(* is true and final, for any number of events, cycles and crashes.        *)
THEOREM Refinement == Spec => ImplementsDelivery
BY RefinedInit, RefinedStep, Invariance, PTL DEF Spec, ImplementsDelivery, Promise!Spec

-----------------------------------------------------------------------------
(* The web client: its inductive invariant.                                *)

Pairs == {Nothing} \cup [session : Sessions, token : Tokens]

Kinds == {"login", "load", "switch", "logout"}
Places == {"idle", "sent", "ok", "failed", "unauthorized", "wait"}

PageCall == [tab : Tabs \cup {None}, kind : Kinds,
             captured : Pairs, access : Tokens \cup {None}, skipRefresh : BOOLEAN,
             effects : Nat, awaits : Calls \cup {None}]

WebTypes ==
  /\ live \in [Sessions -> Tokens \cup {None}]
  /\ opened \in SUBSET Sessions
  /\ spent \in SUBSET Tokens
  /\ issuedTo \in [Tokens -> Sessions \cup {None}]
  /\ expired \in SUBSET Tokens
  /\ cookie \in Pairs
  /\ stored \in [Tabs -> Pairs]
  /\ layout \in [Tabs -> Pairs]
  /\ promise \in [Tabs -> Calls \cup {None}]
  /\ refresh \in [Calls -> [phase : {"none", "sent", "granted", "refused"},
                            presented : Pairs, token : Tokens \cup {None}]]
  /\ pc \in [Calls -> Places]
  /\ call \in [Calls -> PageCall]
  /\ spentBy \in [Tokens -> Tabs \cup {None}]
  /\ lost \in SUBSET Sessions

\* A call that waits, the refresh it waits for and the promise of their tab.
WaitInv(k) ==
  /\ IF At(k, "idle") THEN call[k] = NoCall ELSE Tab(k) \in Tabs
  /\ At(k, "wait") =>
       /\ call[k].awaits \in Calls
       /\ refresh[call[k].awaits] # NoRefresh
       /\ Tab(call[k].awaits) = Tab(k)
  /\ refresh[k].phase = "none" => refresh[k] = NoRefresh
  /\ refresh[k].phase = "granted" <=> refresh[k].token # None
  /\ refresh[k].phase = "granted" => refresh[k].presented # Nothing
  /\ refresh[k] # NoRefresh =>
       /\ At(k, "wait")
       /\ call[k].awaits = k
       /\ promise[Tab(k)] = k

PromiseInv(b) ==
  promise[b] # None => refresh[promise[b]] # NoRefresh /\ Tab(promise[b]) = b

\* What is sent again has not been done yet.
EffectInv(k) ==
  /\ call[k].effects <= 1
  /\ pc[k] \in {"sent", "unauthorized", "wait"} => call[k].effects = 0

\* The tokens of a session: one is live, the others are spent.
TokenInv ==
  /\ \A s \in Sessions : live[s] # None =>
       s \in opened /\ issuedTo[live[s]] = s /\ live[s] \notin spent
  /\ \A t \in Tokens : issuedTo[t] # None =>
       issuedTo[t] \in opened /\ (t \in spent \/ live[issuedTo[t]] = t)
  /\ \A t \in spent : issuedTo[t] # None

Issued(t) == t \in Tokens /\ issuedTo[t] # None

\* What pages have captured was issued once; the session they keep with it may
\* be another one.
PageInv ==
  /\ \A b \in Tabs : /\ stored[b] # Nothing => Issued(stored[b].token)
                     /\ layout[b] # Nothing => Issued(layout[b].token)
  /\ \A k \in Calls :
       /\ call[k].captured # Nothing => Issued(call[k].captured.token)
       /\ call[k].access # None => Issued(call[k].access)
       /\ ~At(k, "idle") /\ call[k].kind # "login" =>
            call[k].access # None /\ call[k].captured # Nothing
       /\ At(k, "ok") => call[k].captured # Nothing

Own(pair) == pair # Nothing => issuedTo[pair.token] = pair.session

\* The pair an answer is bringing to a call.
Brings(k) ==
  IF At(k, "ok") /\ call[k].kind = "login" THEN call[k].captured
  ELSE IF refresh[k].phase = "granted"
       THEN [session |-> refresh[k].presented.session, token |-> refresh[k].token]
       ELSE Nothing

\* Nobody has used, or could have used, a token that is still on its way.
WayInv(k) ==
  /\ Own(refresh[k].presented)
  /\ Brings(k) \in Pairs /\ Own(Brings(k))
  /\ Brings(k) # Nothing =>
       /\ live[Brings(k).session] \in {Brings(k).token, None}
       /\ cookie.token # Brings(k).token
       /\ \A q \in Calls : refresh[q].presented.token # Brings(k).token
       /\ \A q \in Calls \ {k} : Brings(q).token # Brings(k).token

\* A used token of an open session.
Stale(pair) == pair # Nothing /\ pair.token \in spent /\ live[pair.session] # None

\* If the cookies hold one, then its successor is on its way, or is lost.
CookieInv ==
  /\ Own(cookie)
  /\ Stale(cookie) =>
       \/ cookie.session \in lost
       \/ \E k \in Calls : /\ refresh[k].phase = "granted"
                           /\ refresh[k].presented = cookie
                           /\ Tab(k) = spentBy[cookie.token]

SentInv(k) ==
  refresh[k].phase = "sent" /\ Stale(refresh[k].presented) =>
    \/ refresh[k].presented.session \in lost
    \/ spentBy[refresh[k].presented.token] # Tab(k)

Waits == (\A k \in Calls : WaitInv(k)) /\ \A b \in Tabs : PromiseInv(b)
Does == \A k \in Calls : EffectInv(k)
Ways == CookieInv /\ \A k \in Calls : WayInv(k) /\ SentInv(k)

WebInv == WebTypes /\ Waits /\ Does /\ TokenInv /\ PageInv /\ Ways

-----------------------------------------------------------------------------
(* What the steps do, call by call.                                        *)

LEMMA PairFacts ==
  /\ Nothing \in Pairs /\ Nothing.session = None /\ Nothing.token = None
  /\ None \notin Tokens /\ None \notin Sessions /\ None \notin Tabs /\ None \notin Calls
  /\ \A p \in Pairs : /\ p.session \in Sessions \cup {None}
                      /\ p.token \in Tokens \cup {None}
                      /\ p = Nothing <=> p.token = None
                      /\ p = Nothing <=> p.session = None
  /\ \A s \in Sessions, t \in Tokens :
       /\ [session |-> s, token |-> t] \in Pairs
       /\ [session |-> s, token |-> t] # Nothing
  /\ \A p \in Pairs, q \in Pairs : p.session = q.session /\ p.token = q.token => p = q
BY TabsAssumption DEF Pairs, Nothing

LEMMA NoCallFacts ==
  /\ NoCall \in PageCall /\ NoCall.tab = None /\ NoCall.effects = 0
  /\ NoCall.captured = Nothing /\ NoCall.access = None
BY DEF NoCall, PageCall, Pairs, Kinds

\* One call moves on; the others, and all refreshes, stay where they are.
Alone(k) ==
  /\ \A q \in Calls \ {k} : pc'[q] = pc[q] /\ call'[q] = call[q]
  /\ UNCHANGED <<promise, refresh>>

LEMMA BeginDoes ==
  ASSUME WebTypes, NEW k \in Calls, NEW b \in Tabs, NEW kind \in Kinds, NEW s \in Pairs,
         Begin(k, b, kind, s)
  PROVE  /\ WebTypes' /\ Alone(k)
         /\ pc[k] = "idle" /\ pc'[k] = "sent"
         /\ call'[k].tab = b /\ call'[k].kind = kind /\ call'[k].captured = s
         /\ call'[k].access = s.token /\ call'[k].effects = 0
         /\ UNCHANGED <<server, browser, lost>>
<1> DEFINE new == [NoCall EXCEPT !.tab = b, !.kind = kind, !.captured = s,
                                 !.access = s.token, !.skipRefresh = kind = "logout"]
<1>1. new \in PageCall
  BY PairFacts, NoCallFacts DEF PageCall
<1>2. /\ new.tab = b /\ new.kind = kind /\ new.captured = s
      /\ new.access = s.token /\ new.effects = 0
  BY DEF NoCall
<1> HIDE DEF new
<1>3. /\ call' = [call EXCEPT ![k] = new] /\ pc' = [pc EXCEPT ![k] = "sent"]
      /\ pc[k] = "idle"
      /\ UNCHANGED <<server, browser, promise, refresh, lost>>
  BY DEF Begin, At, Goto, new
<1>4. call \in [Calls -> PageCall] /\ pc \in [Calls -> Places] /\ "sent" \in Places
  BY DEF WebTypes, Places
<1>5. call' \in [Calls -> PageCall] /\ pc' \in [Calls -> Places]
  BY <1>1, <1>3, <1>4
<1>6. WebTypes'
  BY <1>3, <1>5 DEF WebTypes, server, browser
<1> QED
  BY <1>2, <1>3, <1>4, <1>6 DEF Alone

\* Ending an open session retires its token.
LEMMA EndDoes ==
  ASSUME WebTypes, NEW s \in Sessions, EndSession(s)
  PROVE  /\ live[s] \in Tokens
         /\ live' = [live EXCEPT ![s] = None]
         /\ spent' = spent \cup {live[s]}
         /\ opened' = opened /\ issuedTo' = issuedTo /\ lost' = lost \ {s}
         /\ \A t \in Tokens : issuedTo[t] # s => spentBy'[t] = spentBy[t]
         /\ expired' \in SUBSET Tokens
         /\ spentBy' \in [Tokens -> Tabs \cup {None}]
<1>1. /\ live \in [Sessions -> Tokens \cup {None}]
      /\ spentBy \in [Tokens -> Tabs \cup {None}] /\ expired \in SUBSET Tokens
  BY DEF WebTypes
<1>2. /\ live[s] # None
      /\ live' = [x \in Sessions |-> IF x \in {s} THEN None ELSE live[x]]
      /\ spent' = spent \cup {live[x] : x \in {s}}
      /\ opened' = opened /\ issuedTo' = issuedTo /\ lost' = lost \ {s}
      /\ expired' = expired \cup {t \in Tokens : issuedTo[t] = s}
      /\ spentBy' = [t \in Tokens |-> IF t \in {x \in Tokens : issuedTo[x] = s}
                                      THEN None ELSE spentBy[t]]
  BY DEF EndSession, Server!Close
<1> QED
  BY <1>1, <1>2

LEMMA EndTypes ==
  ASSUME WebTypes, NEW s \in Sessions, EndSession(s),
         cookie' \in Pairs, stored' \in [Tabs -> Pairs], layout' \in [Tabs -> Pairs],
         promise' = promise, refresh' = refresh,
         pc' \in [Calls -> Places], call' \in [Calls -> PageCall]
  PROVE  WebTypes'
<1>1. live' \in [Sessions -> Tokens \cup {None}] /\ spent' \in SUBSET Tokens
      /\ lost' \in SUBSET Sessions
  BY EndDoes DEF WebTypes
<1> QED
  BY <1>1, EndDoes DEF WebTypes

LEMMA LoginDoes ==
  ASSUME WebTypes, NEW k \in Calls, ServeLogin(k)
  PROVE  /\ WebTypes' /\ Alone(k)
         /\ pc[k] = "sent" /\ call[k].kind = "login"
         /\ UNCHANGED <<expired, spentBy, browser, lost>>
         /\ call'[k].tab = call[k].tab /\ call'[k].kind = call[k].kind
         /\ call'[k].access = call[k].access /\ call'[k].effects = call[k].effects
         /\ \/ /\ pc'[k] = "failed"
               /\ UNCHANGED <<live, opened, spent, issuedTo, call>>
            \/ /\ pc'[k] = "ok"
               /\ \E s \in Sessions, t \in Tokens :
                    /\ call'[k].captured = [session |-> s, token |-> t]
                    /\ s \notin opened /\ t \notin Server!Issued
                    /\ live' = [live EXCEPT ![s] = t]
                    /\ opened' = opened \cup {s}
                    /\ spent' = spent
                    /\ issuedTo' = [issuedTo EXCEPT ![t] = s]
<1>1. /\ call \in [Calls -> PageCall] /\ pc \in [Calls -> Places]
      /\ "ok" \in Places /\ "failed" \in Places
      /\ live \in [Sessions -> Tokens \cup {None}]
      /\ issuedTo \in [Tokens -> Sessions \cup {None}] /\ opened \in SUBSET Sessions
  BY DEF WebTypes, Places
<1>2. /\ pc[k] = "sent" /\ call[k].kind = "login"
      /\ UNCHANGED <<expired, spentBy, browser, promise, refresh, lost>>
  BY DEF ServeLogin, At
<1>3. CASE Goto(k, "failed") /\ UNCHANGED <<live, opened, spent, issuedTo, call>>
  <2>1. pc' = [pc EXCEPT ![k] = "failed"] /\ pc' \in [Calls -> Places]
    BY <1>1, <1>3 DEF Goto
  <2>2. WebTypes'
    BY <1>2, <1>3, <2>1 DEF WebTypes, browser
  <2> QED
    BY <1>1, <1>2, <1>3, <2>1, <2>2 DEF Alone
<1>4. ASSUME NEW s \in Sessions, NEW t \in Tokens,
             Server!Open(s, t), issuedTo' = [issuedTo EXCEPT ![t] = s],
             call' = [call EXCEPT ![k].captured = [session |-> s, token |-> t]],
             Goto(k, "ok")
      PROVE  /\ WebTypes' /\ Alone(k) /\ pc'[k] = "ok"
             /\ call'[k].captured = [session |-> s, token |-> t]
             /\ call'[k].tab = call[k].tab /\ call'[k].kind = call[k].kind
             /\ call'[k].access = call[k].access /\ call'[k].effects = call[k].effects
             /\ s \notin opened /\ t \notin Server!Issued
             /\ live' = [live EXCEPT ![s] = t]
             /\ opened' = opened \cup {s}
             /\ spent' = spent
  <2>1. pc' = [pc EXCEPT ![k] = "ok"] /\ pc' \in [Calls -> Places]
    BY <1>1, <1>4 DEF Goto
  <2>2. /\ s \notin opened /\ t \notin Server!Issued
        /\ live' = [live EXCEPT ![s] = t]
        /\ opened' = opened \cup {s}
        /\ spent' = spent
    BY <1>4 DEF Server!Open, Server!Issued
  <2> DEFINE pair == [session |-> s, token |-> t]
  <2>3. pair \in Pairs
    BY PairFacts
  <2>4. call' = [call EXCEPT ![k].captured = pair]
    BY <1>4
  <2> HIDE DEF pair
  <2>5. [call[k] EXCEPT !.captured = pair] \in PageCall
    BY <1>1, <2>3 DEF PageCall
  <2>6. call' \in [Calls -> PageCall]
    BY <1>1, <2>4, <2>5
  <2>7. /\ live' \in [Sessions -> Tokens \cup {None}]
        /\ issuedTo' \in [Tokens -> Sessions \cup {None}] /\ opened' \in SUBSET Sessions
    BY <1>1, <1>4, <2>2
  <2>8. WebTypes'
    BY <1>2, <2>1, <2>2, <2>6, <2>7 DEF WebTypes, browser
  <2>9. call[k] \in PageCall
    BY <1>1
  <2>10. /\ call'[k].captured = pair
         /\ call'[k].tab = call[k].tab /\ call'[k].kind = call[k].kind
         /\ call'[k].access = call[k].access /\ call'[k].effects = call[k].effects
    BY <1>1, <2>4, <2>9 DEF PageCall
  <2> QED
    BY <1>1, <1>2, <2>1, <2>2, <2>4, <2>8, <2>10 DEF Alone, pair
<1> QED
  BY <1>2, <1>3, <1>4 DEF ServeLogin

\* What a call keeps while it is served.
Keeps(k) ==
  /\ call'[k].tab = call[k].tab
  /\ call'[k].kind = call[k].kind
  /\ call'[k].captured = call[k].captured
  /\ call'[k].access = call[k].access

LEMMA ServeDoes ==
  ASSUME WebTypes, PageInv, NEW k \in Calls, Serve(k)
  PROVE  /\ WebTypes' /\ Alone(k) /\ Keeps(k) /\ UNCHANGED browser
         /\ pc[k] = "sent" /\ call[k].kind # "login"
         /\ \/ pc'[k] \in {"ok", "failed"} /\ call'[k].effects = call[k].effects + 1
            \/ pc'[k] \in {"failed", "unauthorized"} /\ call'[k].effects = call[k].effects
         /\ \/ UNCHANGED <<server, lost>>
            \/ \E s \in Sessions : EndSession(s)
<1>1. /\ call \in [Calls -> PageCall] /\ pc \in [Calls -> Places]
      /\ {"ok", "failed", "unauthorized"} \subseteq Places
      /\ call[k] \in PageCall
  BY DEF WebTypes, Places
<1>2. /\ pc[k] = "sent" /\ call[k].kind # "login"
      /\ UNCHANGED <<browser, promise, refresh>>
  BY DEF Serve, At
<1>3. issuedTo[call[k].access] \in Sessions
  <2>1. Issued(call[k].access)
    BY <1>2 DEF PageInv, At
  <2> QED
    BY <2>1 DEF Issued, WebTypes
<1>4. CASE Served(k) /\ (Goto(k, "ok") \/ Goto(k, "failed"))
  <2>1. /\ pc' \in [Calls -> Places] /\ pc'[k] \in {"ok", "failed"}
        /\ \A q \in Calls \ {k} : pc'[q] = pc[q]
    BY <1>1, <1>4 DEF Goto
  <2>2. call' = [call EXCEPT ![k].effects = call[k].effects + 1]
    BY <1>1, <1>4 DEF Served
  <2>3. [call[k] EXCEPT !.effects = call[k].effects + 1] \in PageCall
    BY <1>1 DEF PageCall
  <2>4. call' \in [Calls -> PageCall] /\ \A q \in Calls \ {k} : call'[q] = call[q]
    BY <1>1, <2>2, <2>3
  <2>5. Keeps(k) /\ call'[k].effects = call[k].effects + 1
    BY <1>1, <2>2 DEF Keeps, PageCall
  <2>6. CASE call[k].kind = "logout"
    <3>1. EndSession(issuedTo[call[k].access])
      BY <1>4, <2>6 DEF Served
    <3>2. /\ cookie' \in Pairs /\ stored' \in [Tabs -> Pairs] /\ layout' \in [Tabs -> Pairs]
          /\ promise' = promise /\ refresh' = refresh
      BY <1>2 DEF WebTypes, browser
    <3>3. WebTypes'
      BY <1>3, <2>1, <2>4, <3>1, <3>2, EndTypes
    <3> QED
      BY <1>2, <1>3, <2>1, <2>4, <2>5, <3>1, <3>3 DEF Alone
  <2>7. CASE call[k].kind # "logout"
    <3>1. UNCHANGED <<server, lost>>
      BY <1>4, <2>7 DEF Served
    <3>2. WebTypes'
      BY <1>2, <2>1, <2>4, <3>1 DEF WebTypes, server, browser
    <3> QED
      BY <1>2, <2>1, <2>4, <2>5, <3>1, <3>2 DEF Alone
  <2> QED
    BY <2>6, <2>7
<1>5. CASE (Goto(k, "unauthorized") \/ Goto(k, "failed")) /\ UNCHANGED <<server, lost, call>>
  <2>1. /\ pc' \in [Calls -> Places] /\ pc'[k] \in {"failed", "unauthorized"}
        /\ \A q \in Calls \ {k} : pc'[q] = pc[q]
    BY <1>1, <1>5 DEF Goto
  <2>2. WebTypes'
    BY <1>2, <1>5, <2>1 DEF WebTypes, server, browser
  <2> QED
    BY <1>2, <1>5, <2>1, <2>2 DEF Alone, Keeps
<1> QED
  BY <1>4, <1>5 DEF Serve

\* What the end of a call leaves behind.
Ended(k) == pc'[k] = "idle" /\ call'[k] = NoCall

LEMMA FinishDoes ==
  ASSUME WebTypes, NEW k \in Calls, Finish(k)
  PROVE  /\ Ended(k) /\ pc' \in [Calls -> Places] /\ call' \in [Calls -> PageCall]
         /\ \A q \in Calls \ {k} : pc'[q] = pc[q] /\ call'[q] = call[q]
BY NoCallFacts DEF WebTypes, Finish, Goto, Ended, Places

LEMMA GoOnDoes ==
  ASSUME WebTypes, NEW k \in Calls, NEW next \in Kinds, GoOn(k, next)
  PROVE  /\ pc' \in [Calls -> Places] /\ call' \in [Calls -> PageCall]
         /\ \A q \in Calls \ {k} : pc'[q] = pc[q] /\ call'[q] = call[q]
         /\ pc'[k] = "sent" /\ call'[k].tab = call[k].tab /\ call'[k].kind = next
         /\ call'[k].captured = call[k].captured
         /\ call'[k].access = call[k].captured.token
         /\ call'[k].effects = 0
<1>1. /\ call \in [Calls -> PageCall] /\ pc \in [Calls -> Places] /\ "sent" \in Places
      /\ call[k] \in PageCall
  BY DEF WebTypes, Places
<1> DEFINE new == [call[k] EXCEPT !.kind = next, !.access = call[k].captured.token,
                                  !.skipRefresh = FALSE, !.effects = 0]
<1>2. call[k].captured.token \in Tokens \cup {None}
  BY <1>1, PairFacts DEF PageCall
<1>3. /\ new \in PageCall
      /\ new.tab = call[k].tab /\ new.kind = next /\ new.captured = call[k].captured
      /\ new.access = call[k].captured.token /\ new.effects = 0
  BY <1>1, <1>2 DEF PageCall
<1> HIDE DEF new
<1>4. call' = [call EXCEPT ![k] = new] /\ pc' = [pc EXCEPT ![k] = "sent"]
  BY DEF GoOn, Goto, new
<1> QED
  BY <1>1, <1>3, <1>4

\* What a page does once it has its answer: it is done, or it sends its next
\* call, with the token it has captured.
PageGoesOn(k) ==
  \/ Ended(k)
  \/ /\ pc'[k] = "sent" /\ call'[k].tab = call[k].tab /\ call'[k].kind # "login"
     /\ call'[k].captured = call[k].captured
     /\ call'[k].access = call[k].captured.token
     /\ call'[k].effects = 0

LEMMA ReceiveDoes ==
  ASSUME WebTypes, NEW k \in Calls, Tab(k) \in Tabs, Receive(k)
  PROVE  /\ WebTypes' /\ Alone(k) /\ PageGoesOn(k) /\ UNCHANGED <<server, lost>>
         /\ pc[k] = "ok"
         /\ \/ call[k].kind = "login" /\ cookie' = call[k].captured
            \/ call[k].kind # "login" /\ cookie' \in {cookie, Nothing}
         /\ \A b \in Tabs :
              /\ stored'[b] \in {stored[b], call[k].captured, Nothing}
              /\ layout'[b] \in {layout[b], call[k].captured, Nothing}
              /\ stored'[b] = call[k].captured =>
                   \/ stored'[b] = stored[b]
                   \/ b = Tab(k) /\ call[k].kind \in {"login", "switch"}
                   \/ stored'[b] = Nothing
<1>1. /\ stored \in [Tabs -> Pairs] /\ layout \in [Tabs -> Pairs] /\ cookie \in Pairs
      /\ call \in [Calls -> PageCall]
      /\ Nothing \in Pairs
  BY PairFacts DEF WebTypes
<1>2. call[k] \in PageCall /\ call[k].captured \in Pairs
  BY <1>1 DEF PageCall
<1>3. pc[k] = "ok" /\ UNCHANGED <<server, promise, refresh, lost>>
  BY DEF Receive, At
<1>4. {"load", "switch"} \subseteq Kinds /\ "login" \notin {"load", "switch"}
  BY DEF Kinds
<1>5. CASE LoggedIn(k)
  <2>1. /\ call[k].kind = "login" /\ cookie' = call[k].captured
        /\ stored' = [stored EXCEPT ![Tab(k)] = call[k].captured]
        /\ layout' = [layout EXCEPT ![Tab(k)] = call[k].captured]
        /\ Finish(k) \/ GoOn(k, "switch")
    BY <1>5 DEF LoggedIn, SetSessionCookies, Save, Mount
  <2>2. /\ pc' \in [Calls -> Places] /\ call' \in [Calls -> PageCall] /\ PageGoesOn(k)
        /\ \A q \in Calls \ {k} : pc'[q] = pc[q] /\ call'[q] = call[q]
    BY <2>1, <1>4, FinishDoes, GoOnDoes DEF PageGoesOn
  <2>3. stored' \in [Tabs -> Pairs] /\ layout' \in [Tabs -> Pairs]
    BY <1>1, <1>2, <2>1
  <2>4. WebTypes'
    BY <1>2, <1>3, <2>1, <2>2, <2>3 DEF WebTypes, server
  <2> QED
    BY <1>1, <1>3, <2>1, <2>2, <2>4 DEF Alone
<1>6. CASE Loaded(k)
  <2>1. /\ call[k].kind = "load" /\ UNCHANGED browser
        /\ Finish(k) \/ GoOn(k, "load") \/ GoOn(k, "switch")
    BY <1>6 DEF Loaded
  <2>2. /\ pc' \in [Calls -> Places] /\ call' \in [Calls -> PageCall] /\ PageGoesOn(k)
        /\ \A q \in Calls \ {k} : pc'[q] = pc[q] /\ call'[q] = call[q]
    BY <2>1, <1>4, FinishDoes, GoOnDoes DEF PageGoesOn
  <2>3. WebTypes'
    BY <1>3, <2>1, <2>2 DEF WebTypes, server, browser
  <2> QED
    BY <1>3, <2>1, <2>2, <2>3 DEF Alone, browser
<1>7. CASE Switched(k)
  <2>1. /\ call[k].kind = "switch" /\ UNCHANGED <<cookie, layout>> /\ Finish(k)
        /\ stored' = [stored EXCEPT ![Tab(k)] = call[k].captured]
    BY <1>7 DEF Switched, Save
  <2>2. /\ pc' \in [Calls -> Places] /\ call' \in [Calls -> PageCall] /\ PageGoesOn(k)
        /\ \A q \in Calls \ {k} : pc'[q] = pc[q] /\ call'[q] = call[q]
    BY <2>1, FinishDoes DEF PageGoesOn
  <2>3. stored' \in [Tabs -> Pairs]
    BY <1>1, <1>2, <2>1
  <2>4. WebTypes'
    BY <1>3, <2>1, <2>2, <2>3 DEF WebTypes, server
  <2> QED
    BY <1>1, <1>3, <2>1, <2>2, <2>4 DEF Alone
<1>8. CASE LoggedOut(k)
  <2>1. /\ call[k].kind = "logout" /\ cookie' = Nothing /\ Finish(k)
        /\ stored' = [stored EXCEPT ![Tab(k)] = Nothing]
        /\ layout' = [layout EXCEPT ![Tab(k)] = Nothing]
    BY <1>8 DEF LoggedOut, ClearSessionCookies, Clear, Save, Mount
  <2>2. /\ pc' \in [Calls -> Places] /\ call' \in [Calls -> PageCall] /\ PageGoesOn(k)
        /\ \A q \in Calls \ {k} : pc'[q] = pc[q] /\ call'[q] = call[q]
    BY <2>1, FinishDoes DEF PageGoesOn
  <2>3. stored' \in [Tabs -> Pairs] /\ layout' \in [Tabs -> Pairs]
    BY <1>1, <2>1
  <2>4. WebTypes'
    BY <1>1, <1>3, <2>1, <2>2, <2>3 DEF WebTypes, server
  <2> QED
    BY <1>1, <1>3, <2>1, <2>2, <2>4 DEF Alone
<1> QED
  BY <1>5, <1>6, <1>7, <1>8 DEF Receive

LEMMA ThrowDoes ==
  ASSUME WebTypes, NEW k \in Calls, Throw(k)
  PROVE  /\ WebTypes' /\ Alone(k) /\ Ended(k) /\ UNCHANGED <<server, cookie, lost>>
         /\ pc[k] \in {"unauthorized", "failed"}
         /\ \A b \in Tabs : /\ stored'[b] \in {stored[b], Nothing}
                            /\ layout'[b] \in {layout[b], Nothing}
<1>1. /\ stored \in [Tabs -> Pairs] /\ layout \in [Tabs -> Pairs] /\ Nothing \in Pairs
  BY PairFacts DEF WebTypes
<1>2. /\ pc[k] \in {"unauthorized", "failed"} /\ Finish(k)
      /\ UNCHANGED <<server, cookie, promise, refresh, lost>>
      /\ stored' \in {stored, [stored EXCEPT ![Tab(k)] = Nothing]}
      /\ layout' \in {layout, [layout EXCEPT ![Tab(k)] = Nothing]}
  BY DEF Throw, Clear, Save, Mount
<1>3. /\ Ended(k) /\ pc' \in [Calls -> Places] /\ call' \in [Calls -> PageCall]
      /\ \A q \in Calls \ {k} : pc'[q] = pc[q] /\ call'[q] = call[q]
  BY <1>2, FinishDoes
<1>4. stored' \in [Tabs -> Pairs] /\ layout' \in [Tabs -> Pairs]
  BY <1>1, <1>2
<1>5. WebTypes'
  BY <1>2, <1>3, <1>4 DEF WebTypes, server
<1> QED
  BY <1>1, <1>2, <1>3, <1>5 DEF Alone

Refreshes == [phase : {"none", "sent", "granted", "refused"},
              presented : Pairs, token : Tokens \cup {None}]

LEMMA NoRefreshFacts ==
  /\ NoRefresh \in Refreshes /\ NoRefresh.phase = "none"
  /\ NoRefresh.presented = Nothing /\ NoRefresh.token = None
BY PairFacts DEF NoRefresh, Refreshes

\* A call joins the refresh of its tab, or begins one.
LEMMA AwaitDoes ==
  ASSUME WebTypes, NEW k \in Calls, Tab(k) \in Tabs, AwaitRefresh(k)
  PROVE  /\ WebTypes' /\ UNCHANGED <<server, browser, lost>> /\ Keeps(k)
         /\ pc[k] = "unauthorized" /\ pc'[k] = "wait"
         /\ call'[k].effects = call[k].effects
         /\ \A q \in Calls \ {k} : /\ pc'[q] = pc[q] /\ call'[q] = call[q]
                                   /\ refresh'[q] = refresh[q]
         /\ \/ /\ promise[Tab(k)] \in Calls /\ call'[k].awaits = promise[Tab(k)]
               /\ UNCHANGED <<promise, refresh>>
            \/ /\ promise[Tab(k)] = None /\ call'[k].awaits = k
               /\ promise' = [promise EXCEPT ![Tab(k)] = k]
               /\ refresh'[k].phase = "sent" /\ refresh'[k].presented = cookie
               /\ refresh'[k].token = None
<1>1. /\ call \in [Calls -> PageCall] /\ pc \in [Calls -> Places] /\ "wait" \in Places
      /\ call[k] \in PageCall /\ cookie \in Pairs
      /\ promise \in [Tabs -> Calls \cup {None}] /\ promise[Tab(k)] \in Calls \cup {None}
      /\ refresh \in [Calls -> Refreshes]
  BY DEF WebTypes, Places, Refreshes
<1>2. /\ pc[k] = "unauthorized" /\ pc' = [pc EXCEPT ![k] = "wait"]
      /\ UNCHANGED <<server, browser, lost>>
  BY DEF AwaitRefresh, Retriable, At, Goto
<1>3. /\ pc' \in [Calls -> Places] /\ pc'[k] = "wait"
      /\ \A q \in Calls \ {k} : pc'[q] = pc[q]
  BY <1>1, <1>2
<1>4. ASSUME NEW a \in Calls, call' = [call EXCEPT ![k].awaits = a]
      PROVE  /\ call' \in [Calls -> PageCall] /\ Keeps(k)
             /\ call'[k].effects = call[k].effects /\ call'[k].awaits = a
             /\ \A q \in Calls \ {k} : call'[q] = call[q]
  <2>1. [call[k] EXCEPT !.awaits = a] \in PageCall
    BY <1>1 DEF PageCall
  <2> QED
    BY <1>1, <1>4, <2>1 DEF Keeps, PageCall
<1>5. CASE Refreshing(Tab(k)) /\ call' = [call EXCEPT ![k].awaits = promise[Tab(k)]]
           /\ UNCHANGED <<promise, refresh>>
  <2>1. promise[Tab(k)] \in Calls
    BY <1>1, <1>5 DEF Refreshing
  <2>2. WebTypes'
    BY <1>2, <1>3, <1>4, <1>5, <2>1 DEF WebTypes, server, browser
  <2> QED
    BY <1>2, <1>3, <1>4, <1>5, <2>1, <2>2
<1>6. CASE /\ ~Refreshing(Tab(k))
           /\ call' = [call EXCEPT ![k].awaits = k]
           /\ promise' = [promise EXCEPT ![Tab(k)] = k]
           /\ refresh' = [refresh EXCEPT ![k] =
                [NoRefresh EXCEPT !.phase = "sent", !.presented = cookie]]
  <2> DEFINE new == [NoRefresh EXCEPT !.phase = "sent", !.presented = cookie]
  <2>1. new \in Refreshes
    BY <1>1, NoRefreshFacts DEF Refreshes
  <2>2. new.phase = "sent" /\ new.presented = cookie /\ new.token = None
    BY DEF NoRefresh
  <2>3. refresh' = [refresh EXCEPT ![k] = new]
    BY <1>6
  <2> HIDE DEF new
  <2>4. /\ refresh' \in [Calls -> Refreshes] /\ refresh'[k] = new
        /\ \A q \in Calls \ {k} : refresh'[q] = refresh[q]
    BY <1>1, <2>1, <2>3
  <2>5. promise' \in [Tabs -> Calls \cup {None}]
    BY <1>1, <1>6
  <2>6. WebTypes'
    BY <1>2, <1>3, <1>4, <1>6, <2>4, <2>5 DEF WebTypes, server, browser, Refreshes
  <2>7. promise[Tab(k)] = None
    BY <1>6 DEF Refreshing
  <2> QED
    BY <1>2, <1>3, <1>4, <1>6, <2>2, <2>4, <2>6, <2>7
<1> QED
  BY <1>5, <1>6 DEF AwaitRefresh

\* The refresh of k moves on; everything else in the tabs stays.
LEMMA ServeRefreshDoes ==
  ASSUME WebTypes, NEW k \in Calls, ServeRefresh(k), Tab(k) \in Tabs
  PROVE  /\ WebTypes' /\ UNCHANGED <<expired, browser, promise, pc, call>>
         /\ \A q \in Calls \ {k} : refresh'[q] = refresh[q]
         /\ refresh[k].phase = "sent"
         /\ refresh'[k].presented = refresh[k].presented
         /\ \/ /\ refresh'[k].phase = "refused" /\ refresh'[k].token = refresh[k].token
               /\ UNCHANGED <<server, lost>>
            \/ \E t \in Tokens, c \in Pairs :
                 /\ c = refresh[k].presented /\ c # Nothing /\ live[c.session] = c.token
                 /\ t \notin Server!Issued
                 /\ live' = [live EXCEPT ![c.session] = t]
                 /\ spent' = spent \cup {c.token}
                 /\ opened' = opened
                 /\ issuedTo' = [issuedTo EXCEPT ![t] = c.session]
                 /\ spentBy' = [spentBy EXCEPT ![c.token] = Tab(k)]
                 /\ \/ /\ refresh'[k].phase = "granted" /\ refresh'[k].token = t
                       /\ lost' = lost
                    \/ /\ refresh'[k].phase = "refused" /\ refresh'[k].token = refresh[k].token
                       /\ lost' = lost \cup {c.session}
<1>1. /\ refresh \in [Calls -> Refreshes] /\ refresh[k] \in Refreshes
      /\ live \in [Sessions -> Tokens \cup {None}]
      /\ issuedTo \in [Tokens -> Sessions \cup {None}] /\ opened \in SUBSET Sessions
      /\ spent \in SUBSET Tokens /\ lost \in SUBSET Sessions
      /\ spentBy \in [Tokens -> Tabs \cup {None}]
  BY DEF WebTypes, Refreshes
<1>2. /\ refresh[k].phase = "sent"
      /\ UNCHANGED <<expired, browser, promise, pc, call>>
  BY DEF ServeRefresh
<1>3. ASSUME refresh' = [refresh EXCEPT ![k].phase = "refused"]
      PROVE  /\ refresh' \in [Calls -> Refreshes]
             /\ \A q \in Calls \ {k} : refresh'[q] = refresh[q]
             /\ refresh'[k].phase = "refused" /\ refresh'[k].token = refresh[k].token
             /\ refresh'[k].presented = refresh[k].presented
  <2>1. [refresh[k] EXCEPT !.phase = "refused"] \in Refreshes
    BY <1>1 DEF Refreshes
  <2> QED
    BY <1>1, <1>3, <2>1 DEF Refreshes
<1>4. CASE /\ refresh' = [refresh EXCEPT ![k].phase = "refused"]
           /\ UNCHANGED <<live, opened, spent, issuedTo, spentBy, lost>>
  <2>1. WebTypes'
    BY <1>1, <1>2, <1>3, <1>4 DEF WebTypes, browser, Refreshes
  <2> QED
    BY <1>2, <1>3, <1>4, <2>1 DEF server
<1>5. ASSUME NEW t \in Tokens, NEW c, c = refresh[k].presented,
             HasCookies(c), live[c.session] = c.token,
             Server!Rotate(c.session, t),
             issuedTo' = [issuedTo EXCEPT ![t] = c.session],
             spentBy' = [spentBy EXCEPT ![c.token] = Tab(k)],
             \/ /\ refresh' = [refresh EXCEPT ![k].phase = "granted", ![k].token = t]
                /\ UNCHANGED lost
             \/ /\ refresh' = [refresh EXCEPT ![k].phase = "refused"]
                /\ lost' = lost \cup {c.session}
      PROVE  /\ WebTypes'
             /\ c \in Pairs /\ c # Nothing /\ t \notin Server!Issued
             /\ live' = [live EXCEPT ![c.session] = t]
             /\ spent' = spent \cup {c.token}
             /\ opened' = opened
             /\ refresh'[k].presented = refresh[k].presented
             /\ \A q \in Calls \ {k} : refresh'[q] = refresh[q]
             /\ \/ /\ refresh'[k].phase = "granted" /\ refresh'[k].token = t
                   /\ lost' = lost
                \/ /\ refresh'[k].phase = "refused" /\ refresh'[k].token = refresh[k].token
                   /\ lost' = lost \cup {c.session}
  <2>1. c \in Pairs /\ c # Nothing
    BY <1>1, <1>5 DEF Refreshes, HasCookies
  <2>2. c.session \in Sessions /\ c.token \in Tokens
    BY <2>1, PairFacts
  <2>3. /\ t \notin Server!Issued
        /\ live' = [live EXCEPT ![c.session] = t]
        /\ spent' = spent \cup {c.token}
        /\ opened' = opened
    BY <1>5 DEF Server!Rotate, Server!Issued
  <2>4. /\ live' \in [Sessions -> Tokens \cup {None}] /\ spent' \in SUBSET Tokens
        /\ issuedTo' \in [Tokens -> Sessions \cup {None}] /\ opened' \in SUBSET Sessions
        /\ spentBy' \in [Tokens -> Tabs \cup {None}]
    BY <1>1, <1>5, <2>2, <2>3
  <2>5. /\ refresh' \in [Calls -> Refreshes]
        /\ refresh'[k].presented = refresh[k].presented
        /\ \A q \in Calls \ {k} : refresh'[q] = refresh[q]
        /\ \/ /\ refresh'[k].phase = "granted" /\ refresh'[k].token = t
              /\ lost' = lost
           \/ /\ refresh'[k].phase = "refused" /\ refresh'[k].token = refresh[k].token
              /\ lost' = lost \cup {c.session}
    <3>1. CASE /\ refresh' = [refresh EXCEPT ![k].phase = "granted", ![k].token = t]
               /\ UNCHANGED lost
      <4> DEFINE new == [refresh[k] EXCEPT !.phase = "granted", !.token = t]
      <4>1. /\ new \in Refreshes /\ new.phase = "granted" /\ new.token = t
            /\ new.presented = refresh[k].presented
        BY <1>1 DEF Refreshes
      <4>2. refresh' = [refresh EXCEPT ![k] = new]
        BY <1>1, <3>1
      <4> HIDE DEF new
      <4> QED
        BY <1>1, <3>1, <4>1, <4>2
    <3>2. CASE /\ refresh' = [refresh EXCEPT ![k].phase = "refused"]
               /\ lost' = lost \cup {c.session}
      BY <1>3, <3>2
    <3> QED
      BY <1>5, <3>1, <3>2
  <2>6. lost' \in SUBSET Sessions
    BY <1>1, <2>2, <2>5
  <2>7. WebTypes'
    BY <1>2, <2>4, <2>5, <2>6 DEF WebTypes, browser, Refreshes
  <2> QED
    BY <2>1, <2>3, <2>5, <2>7
<1>6. CASE \E t \in Tokens :
             LET c == refresh[k].presented
             IN /\ HasCookies(c) /\ live[c.session] = c.token
                /\ Server!Rotate(c.session, t)
                /\ issuedTo' = [issuedTo EXCEPT ![t] = c.session]
                /\ spentBy' = [spentBy EXCEPT ![c.token] = Tab(k)]
                /\ \/ /\ refresh' = [refresh EXCEPT ![k].phase = "granted", ![k].token = t]
                      /\ UNCHANGED lost
                   \/ /\ refresh' = [refresh EXCEPT ![k].phase = "refused"]
                      /\ lost' = lost \cup {c.session}
  BY <1>2, <1>5, <1>6
<1> QED
  BY <1>4, <1>6 DEF ServeRefresh

\* Who waits for the refresh of k.
Waiting(k) == {q \in Calls : At(q, "wait") /\ call[q].awaits = k}

LEMMA SettleDoes ==
  ASSUME WebTypes, Waits, NEW k \in Calls, Tab(k) \in Tabs, RefreshSettles(k)
  PROVE  /\ WebTypes' /\ UNCHANGED <<server, layout, lost>>
         /\ refresh[k].phase \in {"granted", "refused"}
         /\ cookie' = IF refresh[k].phase = "granted"
                      THEN [session |-> refresh[k].presented.session, token |-> refresh[k].token]
                      ELSE cookie
         /\ promise' = [promise EXCEPT ![Tab(k)] = None]
         /\ refresh' = [refresh EXCEPT ![k] = NoRefresh]
         /\ \A q \in Calls \ Waiting(k) : pc'[q] = pc[q] /\ call'[q] = call[q]
         /\ \/ /\ \A q \in Waiting(k) : Ended(q)
               /\ stored' = [stored EXCEPT ![Tab(k)] = Nothing]
            \/ /\ refresh[k].phase = "granted"
               /\ stored[Tab(k)] # Nothing
               /\ stored' = [stored EXCEPT ![Tab(k)] =
                    [session |-> stored[Tab(k)].session, token |-> refresh[k].token]]
               /\ \A q \in Waiting(k) :
                    /\ pc'[q] = "sent" /\ call'[q].tab = call[q].tab
                    /\ call'[q].kind = call[q].kind
                    /\ call'[q].captured = call[q].captured
                    /\ call'[q].access = refresh[k].token
                    /\ call'[q].effects = call[q].effects
<1>1. /\ refresh \in [Calls -> Refreshes] /\ refresh[k] \in Refreshes
      /\ stored \in [Tabs -> Pairs] /\ cookie \in Pairs
      /\ call \in [Calls -> PageCall] /\ pc \in [Calls -> Places]
      /\ {"idle", "sent"} \subseteq Places
      /\ promise \in [Tabs -> Calls \cup {None}]
      /\ NoRefresh \in Refreshes /\ Nothing \in Pairs /\ NoCall \in PageCall
  BY NoRefreshFacts, NoCallFacts, PairFacts DEF WebTypes, Refreshes, Places
<1> DEFINE b == Tab(k)
           pair == [session |-> refresh[k].presented.session, token |-> refresh[k].token]
<1>2. /\ refresh[k].phase \in {"granted", "refused"}
      /\ IF refresh[k].phase = "granted" THEN cookie' = pair ELSE cookie' = cookie
      /\ promise' = [promise EXCEPT ![b] = None]
      /\ refresh' = [refresh EXCEPT ![k] = NoRefresh]
      /\ UNCHANGED <<server, layout, lost>>
  BY DEF RefreshSettles, SetSessionCookies, Settled
<1>3. refresh[k].phase = "granted" => pair \in Pairs /\ refresh[k].token \in Tokens
  BY <1>1, PairFacts DEF Waits, WaitInv, Refreshes
<1>4. cookie' \in Pairs /\ promise' \in [Tabs -> Calls \cup {None}]
      /\ refresh' \in [Calls -> Refreshes]
  BY <1>1, <1>2, <1>3
<1> HIDE DEF pair
<1>5. CASE Result(k) = None
  <2>1. /\ stored' = [stored EXCEPT ![b] = Nothing]
        /\ pc' = [q \in Calls |-> IF q \in Waiting(k) THEN "idle" ELSE pc[q]]
        /\ call' = [q \in Calls |-> IF q \in Waiting(k) THEN NoCall ELSE call[q]]
    BY <1>5 DEF RefreshSettles, Waiting, Clear, Save
  <2>2. /\ stored' \in [Tabs -> Pairs] /\ pc' \in [Calls -> Places]
        /\ call' \in [Calls -> PageCall]
    BY <1>1, <2>1
  <2>3. /\ \A q \in Calls \ Waiting(k) : pc'[q] = pc[q] /\ call'[q] = call[q]
        /\ \A q \in Waiting(k) : Ended(q)
    BY <2>1 DEF Waiting, Ended
  <2>4. WebTypes'
    BY <1>2, <1>4, <2>2 DEF WebTypes, server, Refreshes
  <2> QED
    BY <1>2, <2>1, <2>3, <2>4 DEF pair
<1>6. CASE Result(k) # None
  <2>1. stored[b] # Nothing /\ Result(k) = refresh[k].token
    BY <1>6 DEF Result
  <2>2. refresh[k].phase = "granted" /\ refresh[k].token \in Tokens
    BY <1>1, <1>3, <1>6, <2>1 DEF Waits, WaitInv
  <2> DEFINE kept == [session |-> stored[b].session, token |-> refresh[k].token]
             sent(q) == [call[q] EXCEPT !.access = refresh[k].token, !.skipRefresh = TRUE,
                                        !.awaits = None]
  <2>3. kept \in Pairs
    <3>1. stored[b] \in Pairs /\ stored[b].session \in Sessions
      BY <1>1, <2>1, PairFacts
    <3> QED
      BY <3>1, <2>2, PairFacts
  <2>4. stored' = [stored EXCEPT ![b] = kept]
    BY <1>6, <2>1 DEF RefreshSettles, Save
  <2>5. /\ pc' = [q \in Calls |-> IF q \in Waiting(k) THEN "sent" ELSE pc[q]]
        /\ call' = [q \in Calls |-> IF q \in Waiting(k) THEN sent(q) ELSE call[q]]
    BY <1>6, <2>1 DEF RefreshSettles, Waiting
  <2>6. \A q \in Calls : /\ sent(q) \in PageCall
                         /\ sent(q).tab = call[q].tab /\ sent(q).kind = call[q].kind
                         /\ sent(q).captured = call[q].captured
                         /\ sent(q).access = refresh[k].token
                         /\ sent(q).effects = call[q].effects
    <3> SUFFICES ASSUME NEW q \in Calls
                 PROVE  /\ sent(q) \in PageCall
                        /\ sent(q).tab = call[q].tab /\ sent(q).kind = call[q].kind
                        /\ sent(q).captured = call[q].captured
                        /\ sent(q).access = refresh[k].token
                        /\ sent(q).effects = call[q].effects
      OBVIOUS
    <3>1. call[q] \in PageCall
      BY <1>1
    <3> QED
      BY <3>1, <2>2 DEF PageCall
  <2>7. stored' \in [Tabs -> Pairs]
    <3> HIDE DEF kept
    <3> QED
      BY <1>1, <2>3, <2>4
  <2> HIDE DEF sent
  <2>8. /\ pc' \in [Calls -> Places] /\ call' \in [Calls -> PageCall]
        /\ \A q \in Calls \ Waiting(k) : pc'[q] = pc[q] /\ call'[q] = call[q]
        /\ \A q \in Waiting(k) : pc'[q] = "sent" /\ call'[q] = sent(q)
    BY <1>1, <2>5, <2>6 DEF Waiting
  <2>9. WebTypes'
    BY <1>2, <1>4, <2>7, <2>8 DEF WebTypes, server, Refreshes
  <2>10. \A q \in Waiting(k) : q \in Calls
    BY DEF Waiting
  <2> QED
    BY <1>2, <2>1, <2>2, <2>4, <2>6, <2>8, <2>9, <2>10 DEF pair
<1> QED
  BY <1>5, <1>6

\* The calls of a tab, which a reload drops.
Mine(b) == {k \in Calls : Tab(k) = b}

LEMMA ReloadDoes ==
  ASSUME WebTypes, Waits, NEW b \in Tabs, Reload(b)
  PROVE  /\ WebTypes' /\ UNCHANGED <<server, cookie, stored>>
         /\ \A k \in Mine(b) : Ended(k) /\ refresh'[k] = NoRefresh
         /\ \A k \in Calls \ Mine(b) :
              pc'[k] = pc[k] /\ call'[k] = call[k] /\ refresh'[k] = refresh[k]
         /\ promise' = [promise EXCEPT ![b] = None]
         /\ layout' = [layout EXCEPT ![b] = stored[b]]
         /\ lost \subseteq lost'
         /\ \A k \in Mine(b) : refresh[k].phase = "granted" => refresh[k].presented.session \in lost'
<1>1. /\ refresh \in [Calls -> Refreshes]
      /\ layout \in [Tabs -> Pairs] /\ stored[b] \in Pairs
      /\ call \in [Calls -> PageCall] /\ pc \in [Calls -> Places] /\ "idle" \in Places
      /\ promise \in [Tabs -> Calls \cup {None}] /\ lost \in SUBSET Sessions
      /\ NoRefresh \in Refreshes /\ NoCall \in PageCall
  BY NoRefreshFacts, NoCallFacts DEF WebTypes, Refreshes, Places
<1>2. /\ pc' = [k \in Calls |-> IF k \in Mine(b) THEN "idle" ELSE pc[k]]
      /\ call' = [k \in Calls |-> IF k \in Mine(b) THEN NoCall ELSE call[k]]
      /\ refresh' = [k \in Calls |-> IF k \in Mine(b) THEN NoRefresh ELSE refresh[k]]
      /\ promise' = [promise EXCEPT ![b] = None]
      /\ lost' = lost \cup {refresh[k].presented.session :
                              k \in {q \in Mine(b) : refresh[q].phase = "granted"}}
      /\ layout' = [layout EXCEPT ![b] = stored[b]]
      /\ UNCHANGED <<server, cookie, stored>>
  BY DEF Reload, Mine, Mount
<1>3. \A k \in Calls : refresh[k].phase = "granted" => refresh[k].presented.session \in Sessions
  <2>1. \A k \in Calls : refresh[k].presented \in Pairs
    BY <1>1 DEF Refreshes
  <2> QED
    BY <2>1, PairFacts DEF Waits, WaitInv
<1>4. lost' \in SUBSET Sessions
  BY <1>1, <1>2, <1>3 DEF Mine
<1>5. /\ pc' \in [Calls -> Places] /\ call' \in [Calls -> PageCall]
      /\ refresh' \in [Calls -> Refreshes] /\ layout' \in [Tabs -> Pairs]
      /\ promise' \in [Tabs -> Calls \cup {None}]
  BY <1>1, <1>2
<1>6. WebTypes'
  BY <1>2, <1>4, <1>5 DEF WebTypes, server, Refreshes
<1> QED
  BY <1>1, <1>2, <1>6 DEF Mine, Ended

-----------------------------------------------------------------------------
(* Who waits, and for what.                                                *)

\* A step of a call that waits neither before nor after it.
LEMMA PageStepWaits ==
  ASSUME WebTypes, Waits, NEW k \in Calls, Alone(k),
         pc[k] # "wait", pc'[k] # "wait",
         IF pc'[k] = "idle" THEN call'[k] = NoCall ELSE call'[k].tab \in Tabs
  PROVE  Waits'
<1>1. promise' = promise /\ refresh' = refresh
  BY DEF Alone
<1>2. \A q \in Calls \ {k} : pc'[q] = pc[q] /\ call'[q] = call[q]
  BY DEF Alone
<1>3. refresh[k] = NoRefresh
  BY DEF Waits, WaitInv, At
<1>4. ASSUME NEW q \in Calls
      PROVE  WaitInv(q)'
  <2>1. WaitInv(q)
    BY DEF Waits
  <2>2. CASE q = k
    BY <2>1, <2>2, <1>1, <1>3 DEF WaitInv, At, Tab
  <2>3. CASE q # k
    <3>1. pc'[q] = pc[q] /\ call'[q] = call[q]
      BY <2>3, <1>2
    <3>2. pc[q] = "wait" => /\ call[q].awaits # k /\ call[q].awaits \in Calls
                            /\ call'[call[q].awaits] = call[call[q].awaits]
      BY <2>1, <1>2, <1>3 DEF WaitInv, At
    <3> QED
      BY <2>1, <3>1, <3>2, <1>1 DEF WaitInv, At, Tab
  <2> QED
    BY <2>2, <2>3
<1>5. ASSUME NEW b \in Tabs
      PROVE  PromiseInv(b)'
  <2>1. PromiseInv(b)
    BY DEF Waits
  <2>2. promise[b] # None => promise[b] \in Calls /\ promise[b] # k
    BY <2>1, <1>3 DEF PromiseInv, WebTypes
  <2> QED
    BY <2>1, <2>2, <1>1, <1>2 DEF PromiseInv, Tab
<1> QED
  BY <1>4, <1>5 DEF Waits

LEMMA AwaitWaits ==
  ASSUME WebTypes, Waits, NEW k \in Calls, Tab(k) \in Tabs, AwaitRefresh(k)
  PROVE  Waits'
<1>1. /\ pc[k] = "unauthorized" /\ pc'[k] = "wait" /\ call'[k].tab = call[k].tab
      /\ \A q \in Calls \ {k} : /\ pc'[q] = pc[q] /\ call'[q] = call[q]
                                /\ refresh'[q] = refresh[q]
  BY AwaitDoes DEF Keeps
<1>2. refresh[k] = NoRefresh /\ refresh[k].phase = "none"
  BY <1>1, NoRefreshFacts DEF Waits, WaitInv, At
<1>3. \A q \in Calls : Tab(q)' = Tab(q)
  BY <1>1 DEF Tab
<1>4. CASE promise[Tab(k)] \in Calls /\ call'[k].awaits = promise[Tab(k)]
           /\ UNCHANGED <<promise, refresh>>
  <2>1. refresh[promise[Tab(k)]] # NoRefresh /\ Tab(promise[Tab(k)]) = Tab(k)
    BY <1>4, TabsAssumption DEF Waits, PromiseInv
  <2>2. ASSUME NEW q \in Calls
        PROVE  WaitInv(q)'
    <3>1. WaitInv(q)
      BY DEF Waits
    <3>2. CASE q = k
      <4>1. promise[Tab(k)] # k
        BY <2>1, <1>2
      <4> QED
        BY <3>1, <3>2, <2>1, <1>1, <1>2, <1>3, <1>4 DEF WaitInv, At
    <3>3. CASE q # k
      BY <3>1, <3>3, <1>1, <1>3, <1>4 DEF WaitInv, At
    <3> QED
      BY <3>2, <3>3
  <2>3. ASSUME NEW b \in Tabs
        PROVE  PromiseInv(b)'
    <3>1. PromiseInv(b) /\ (promise[b] # None => promise[b] \in Calls)
      BY DEF Waits, WebTypes
    <3> QED
      BY <3>1, <1>3, <1>4 DEF PromiseInv
  <2> QED
    BY <2>2, <2>3 DEF Waits
<1>5. CASE /\ promise[Tab(k)] = None /\ call'[k].awaits = k
           /\ promise' = [promise EXCEPT ![Tab(k)] = k]
           /\ refresh'[k].phase = "sent" /\ refresh'[k].presented = cookie
           /\ refresh'[k].token = None
  <2>1. refresh'[k] # NoRefresh
    BY <1>5, NoRefreshFacts
  <2>2. /\ promise'[Tab(k)] = k
        /\ \A b \in Tabs \ {Tab(k)} : promise'[b] = promise[b]
    BY <1>5 DEF WebTypes
  <2>3. ASSUME NEW q \in Calls
        PROVE  WaitInv(q)'
    <3>1. WaitInv(q)
      BY DEF Waits
    <3>2. CASE q = k
      BY <3>1, <3>2, <2>1, <2>2, <1>1, <1>3, <1>5 DEF WaitInv, At
    <3>3. CASE q # k
      <4>1. pc[q] = "wait" => call[q].awaits # k
        BY <3>1, <1>2 DEF WaitInv, At
      <4>2. refresh[q] # NoRefresh => promise'[Tab(q)] = q
        <5>1. refresh[q] # NoRefresh => promise[Tab(q)] = q /\ Tab(q) \in Tabs
          BY <3>1 DEF WaitInv, At
        <5>2. q # None
          BY TabsAssumption
        <5> QED
          BY <5>1, <5>2, <1>5, <2>2
      <4> QED
        BY <3>1, <3>3, <4>1, <4>2, <1>1, <1>3 DEF WaitInv, At
    <3> QED
      BY <3>2, <3>3
  <2>4. ASSUME NEW b \in Tabs
        PROVE  PromiseInv(b)'
    <3>1. PromiseInv(b) /\ (promise[b] # None => promise[b] \in Calls)
      BY DEF Waits, WebTypes
    <3>2. CASE b = Tab(k)
      BY <3>2, <2>1, <2>2, <1>3 DEF PromiseInv
    <3>3. CASE b # Tab(k)
      BY <3>1, <3>3, <2>2, <1>1, <1>2, <1>3 DEF PromiseInv
    <3> QED
      BY <3>2, <3>3
  <2> QED
    BY <2>3, <2>4 DEF Waits
<1> QED
  BY <1>4, <1>5, AwaitDoes

\* Calls come and go, and a tab's promise with them.
LEMMA ServeRefreshWaits ==
  ASSUME WebTypes, Waits, NEW k \in Calls, Tab(k) \in Tabs, ServeRefresh(k)
  PROVE  Waits'
<1>1. /\ UNCHANGED <<promise, pc, call>>
      /\ \A q \in Calls \ {k} : refresh'[q] = refresh[q]
      /\ refresh[k].phase = "sent"
      /\ refresh'[k].presented = refresh[k].presented
  BY ServeRefreshDoes
<1>2. \/ refresh'[k].phase = "refused" /\ refresh'[k].token = refresh[k].token
      \/ /\ refresh'[k].phase = "granted" /\ refresh'[k].token \in Tokens
         /\ refresh[k].presented # Nothing
  BY ServeRefreshDoes
<1>3. refresh[k] # NoRefresh /\ refresh'[k] # NoRefresh /\ None \notin Tokens
  BY <1>1, <1>2, NoRefreshFacts, PairFacts
<1>4. \A q \in Calls : WaitInv(q)'
  <2> SUFFICES ASSUME NEW q \in Calls PROVE WaitInv(q)'
    OBVIOUS
  <2>1. WaitInv(q)
    BY DEF Waits
  <2>2. \A p \in Calls : refresh[p] # NoRefresh => refresh'[p] # NoRefresh
    BY <1>1, <1>3
  <2>3. CASE q = k
    BY <2>1, <2>2, <2>3, <1>1, <1>2, <1>3 DEF WaitInv, At, Tab
  <2>4. CASE q # k
    BY <2>1, <2>2, <2>4, <1>1 DEF WaitInv, At, Tab
  <2> QED
    BY <2>3, <2>4
<1>5. \A b \in Tabs : PromiseInv(b)'
  <2> SUFFICES ASSUME NEW b \in Tabs PROVE PromiseInv(b)'
    OBVIOUS
  <2>1. PromiseInv(b) /\ (promise[b] # None => promise[b] \in Calls)
    BY DEF Waits, WebTypes
  <2> QED
    BY <2>1, <1>1, <1>3 DEF PromiseInv, Tab
<1> QED
  BY <1>4, <1>5 DEF Waits

\* A refresh that settles leaves nobody waiting for it.
LEMMA SettleWaits ==
  ASSUME WebTypes, Waits, NEW k \in Calls, Tab(k) \in Tabs, RefreshSettles(k)
  PROVE  Waits'
<1>1. /\ refresh[k].phase \in {"granted", "refused"}
      /\ promise' = [promise EXCEPT ![Tab(k)] = None]
      /\ refresh' = [refresh EXCEPT ![k] = NoRefresh]
      /\ \A q \in Calls \ Waiting(k) : pc'[q] = pc[q] /\ call'[q] = call[q]
      /\ \/ \A q \in Waiting(k) : Ended(q)
         \/ \A q \in Waiting(k) : pc'[q] = "sent" /\ call'[q].tab = call[q].tab
  BY SettleDoes
<1>2. /\ refresh[k] # NoRefresh /\ promise[Tab(k)] = k
      /\ refresh'[k] = NoRefresh
      /\ \A q \in Calls \ {k} : refresh'[q] = refresh[q]
      /\ promise'[Tab(k)] = None
      /\ \A b \in Tabs \ {Tab(k)} : promise'[b] = promise[b]
  BY <1>1, NoRefreshFacts DEF Waits, WaitInv, WebTypes
<1>3. ASSUME NEW q \in Calls, q # k, refresh[q] # NoRefresh
      PROVE  q \notin Waiting(k) /\ Tab(q) # Tab(k) /\ Tab(q) \in Tabs
  <2>1. WaitInv(q)
    BY DEF Waits
  <2> QED
    BY <2>1, <1>2, <1>3 DEF WaitInv, At, Waiting
<1>4. ASSUME NEW q \in Calls
      PROVE  WaitInv(q)'
  <2>1. WaitInv(q)
    BY DEF Waits
  <2>2. CASE q \in Waiting(k)
    <3>1. Tab(q) \in Tabs
      BY <2>1, <2>2 DEF WaitInv, Waiting, At
    <3>2. refresh'[q] = NoRefresh
      BY <2>2, <1>2, <1>3
    <3>3. \/ pc'[q] = "idle" /\ call'[q] = NoCall
          \/ pc'[q] = "sent" /\ call'[q].tab \in Tabs
      BY <1>1, <2>2, <3>1 DEF Ended, Tab
    <3> QED
      BY <3>2, <3>3, NoRefreshFacts, PairFacts DEF WaitInv, At, Tab
  <2>3. CASE q \notin Waiting(k)
    <3>1. pc'[q] = pc[q] /\ call'[q] = call[q]
      BY <2>3, <1>1
    <3>2. pc[q] = "wait" => /\ call[q].awaits \in Calls /\ call[q].awaits # k
                            /\ refresh[call[q].awaits] # NoRefresh
      BY <2>1, <2>3 DEF WaitInv, At, Waiting
    <3>3. pc[q] = "wait" => call'[call[q].awaits] = call[call[q].awaits]
      BY <3>2, <1>1, <1>3
    <3>4. q # k
      <4>1. WaitInv(k)
        BY DEF Waits
      <4> QED
        BY <4>1, <2>3, <1>2 DEF WaitInv, At, Waiting
    <3>5. refresh[q] # NoRefresh => promise'[Tab(q)] = promise[Tab(q)]
      BY <3>4, <1>2, <1>3
    <3> QED
      BY <2>1, <3>1, <3>2, <3>3, <3>4, <3>5, <1>2 DEF WaitInv, At, Tab
  <2> QED
    BY <2>2, <2>3
<1>5. ASSUME NEW b \in Tabs
      PROVE  PromiseInv(b)'
  <2>1. PromiseInv(b) /\ (promise[b] # None => promise[b] \in Calls)
    BY DEF Waits, WebTypes
  <2>2. CASE b = Tab(k)
    BY <2>2, <1>2 DEF PromiseInv
  <2>3. CASE b # Tab(k)
    <3>1. promise[b] # None => promise[b] # k
      BY <2>1, <2>3 DEF PromiseInv
    <3>2. promise[b] # None => call'[promise[b]] = call[promise[b]]
      BY <2>1, <3>1, <1>1, <1>3 DEF PromiseInv
    <3> QED
      BY <2>1, <2>3, <3>1, <3>2, <1>2 DEF PromiseInv, Tab
  <2> QED
    BY <2>2, <2>3
<1> QED
  BY <1>4, <1>5 DEF Waits

LEMMA ReloadWaits ==
  ASSUME WebTypes, Waits, NEW b \in Tabs, Reload(b)
  PROVE  Waits'
<1>1. /\ \A k \in Mine(b) : Ended(k) /\ refresh'[k] = NoRefresh
      /\ \A k \in Calls \ Mine(b) :
           pc'[k] = pc[k] /\ call'[k] = call[k] /\ refresh'[k] = refresh[k]
      /\ promise'[b] = None
      /\ \A c \in Tabs \ {b} : promise'[c] = promise[c]
  <2>1. promise' = [promise EXCEPT ![b] = None] /\ promise \in [Tabs -> Calls \cup {None}]
    BY ReloadDoes DEF WebTypes
  <2> QED
    BY <2>1, ReloadDoes
<1>2. ASSUME NEW q \in Calls
      PROVE  WaitInv(q)'
  <2>1. WaitInv(q)
    BY DEF Waits
  <2>2. CASE q \in Mine(b)
    BY <2>2, <1>1, NoRefreshFacts, PairFacts DEF WaitInv, At, Ended
  <2>3. CASE q \notin Mine(b)
    <3>1. pc'[q] = pc[q] /\ call'[q] = call[q] /\ refresh'[q] = refresh[q] /\ Tab(q) # b
      BY <2>3, <1>1 DEF Mine
    <3>2. pc[q] = "wait" => /\ call[q].awaits \in Calls \ Mine(b)
                            /\ refresh[call[q].awaits] # NoRefresh
      BY <2>1, <3>1 DEF WaitInv, At, Mine
    <3>3. pc[q] = "wait" => /\ call'[call[q].awaits] = call[call[q].awaits]
                            /\ refresh'[call[q].awaits] = refresh[call[q].awaits]
      BY <3>2, <1>1
    <3>4. refresh[q] # NoRefresh => promise'[Tab(q)] = promise[Tab(q)]
      BY <2>1, <3>1, <1>1 DEF WaitInv, At
    <3> QED
      BY <2>1, <3>1, <3>2, <3>3, <3>4 DEF WaitInv, At, Tab
  <2> QED
    BY <2>2, <2>3
<1>3. ASSUME NEW c \in Tabs
      PROVE  PromiseInv(c)'
  <2>1. PromiseInv(c) /\ (promise[c] # None => promise[c] \in Calls)
    BY DEF Waits, WebTypes
  <2>2. CASE c = b
    BY <2>2, <1>1 DEF PromiseInv
  <2>3. CASE c # b
    <3>1. promise[c] # None => promise[c] \in Calls \ Mine(b)
      BY <2>1, <2>3 DEF PromiseInv, Mine
    <3> QED
      BY <2>1, <2>3, <3>1, <1>1 DEF PromiseInv, Tab
  <2> QED
    BY <2>2, <2>3
<1> QED
  BY <1>2, <1>3 DEF Waits

-----------------------------------------------------------------------------
(* The tokens of the sessions.                                             *)

LEMMA FreshToken ==
  ASSUME TokenInv, NEW t \in Tokens, t \notin Server!Issued
  PROVE  issuedTo[t] = None /\ t \notin spent /\ \A s \in opened : live[s] # t
BY DEF TokenInv, Server!Issued

LEMMA OpenTokens ==
  ASSUME WebTypes, TokenInv, NEW s \in Sessions, NEW t \in Tokens,
         s \notin opened, t \notin Server!Issued,
         live' = [live EXCEPT ![s] = t], opened' = opened \cup {s}, spent' = spent,
         issuedTo' = [issuedTo EXCEPT ![t] = s]
  PROVE  TokenInv' /\ \A u : Issued(u) => Issued(u)' /\ issuedTo'[u] = issuedTo[u]
<1>1. /\ issuedTo[t] = None /\ t \notin spent
      /\ live \in [Sessions -> Tokens \cup {None}]
      /\ issuedTo \in [Tokens -> Sessions \cup {None}] /\ spent \subseteq Tokens
      /\ None \notin Sessions /\ None \notin Tokens
  BY FreshToken, PairFacts DEF WebTypes
<1>2. /\ live'[s] = t /\ \A x \in Sessions \ {s} : live'[x] = live[x]
      /\ issuedTo'[t] = s /\ \A u \in Tokens \ {t} : issuedTo'[u] = issuedTo[u]
  BY <1>1
<1>3. \A x \in Sessions : live'[x] # None =>
        x \in opened' /\ issuedTo'[live'[x]] = x /\ live'[x] \notin spent'
  BY <1>1, <1>2 DEF TokenInv
<1>4. \A u \in Tokens : issuedTo'[u] # None =>
        issuedTo'[u] \in opened' /\ (u \in spent' \/ live'[issuedTo'[u]] = u)
  BY <1>1, <1>2 DEF TokenInv
<1>5. \A u \in spent' : issuedTo'[u] # None
  BY <1>1, <1>2 DEF TokenInv
<1> QED
  BY <1>1, <1>2, <1>3, <1>4, <1>5 DEF TokenInv, Issued

LEMMA RotateTokens ==
  ASSUME WebTypes, TokenInv, NEW s \in Sessions, NEW t \in Tokens, NEW old \in Tokens,
         live[s] = old, t \notin Server!Issued,
         live' = [live EXCEPT ![s] = t], opened' = opened, spent' = spent \cup {old},
         issuedTo' = [issuedTo EXCEPT ![t] = s]
  PROVE  TokenInv' /\ \A u : Issued(u) => Issued(u)' /\ issuedTo'[u] = issuedTo[u]
<1>1. /\ issuedTo[t] = None /\ t \notin spent
      /\ live \in [Sessions -> Tokens \cup {None}]
      /\ issuedTo \in [Tokens -> Sessions \cup {None}] /\ spent \subseteq Tokens
      /\ None \notin Sessions /\ None \notin Tokens
      /\ s \in opened /\ issuedTo[old] = s /\ old # t
  BY FreshToken, PairFacts DEF WebTypes, TokenInv
<1>2. /\ live'[s] = t /\ \A x \in Sessions \ {s} : live'[x] = live[x]
      /\ issuedTo'[t] = s /\ \A u \in Tokens \ {t} : issuedTo'[u] = issuedTo[u]
  BY <1>1
<1>3. \A x \in Sessions : live'[x] # None =>
        x \in opened' /\ issuedTo'[live'[x]] = x /\ live'[x] \notin spent'
  BY <1>1, <1>2 DEF TokenInv
<1>4. \A u \in Tokens : issuedTo'[u] # None =>
        issuedTo'[u] \in opened' /\ (u \in spent' \/ live'[issuedTo'[u]] = u)
  BY <1>1, <1>2 DEF TokenInv
<1>5. \A u \in spent' : issuedTo'[u] # None
  BY <1>1, <1>2 DEF TokenInv
<1> QED
  BY <1>1, <1>2, <1>3, <1>4, <1>5 DEF TokenInv, Issued

LEMMA EndTokens ==
  ASSUME WebTypes, TokenInv, NEW s \in Sessions, EndSession(s)
  PROVE  TokenInv' /\ \A u : Issued(u) => Issued(u)' /\ issuedTo'[u] = issuedTo[u]
<1>1. /\ live[s] \in Tokens /\ live' = [live EXCEPT ![s] = None]
      /\ spent' = spent \cup {live[s]} /\ opened' = opened /\ issuedTo' = issuedTo
      /\ live \in [Sessions -> Tokens \cup {None}]
      /\ issuedTo \in [Tokens -> Sessions \cup {None}]
      /\ None \notin Sessions /\ None \notin Tokens
  BY EndDoes, PairFacts DEF WebTypes
<1>2. live'[s] = None /\ \A x \in Sessions \ {s} : live'[x] = live[x]
  BY <1>1
<1>3. \A x \in Sessions : live'[x] # None =>
        x \in opened' /\ issuedTo'[live'[x]] = x /\ live'[x] \notin spent'
  BY <1>1, <1>2 DEF TokenInv
<1>4. \A u \in Tokens : issuedTo'[u] # None =>
        issuedTo'[u] \in opened' /\ (u \in spent' \/ live'[issuedTo'[u]] = u)
  BY <1>1, <1>2 DEF TokenInv
<1>5. \A u \in spent' : issuedTo'[u] # None
  BY <1>1 DEF TokenInv
<1> QED
  BY <1>1, <1>3, <1>4, <1>5 DEF TokenInv, Issued

-----------------------------------------------------------------------------
(* The pairs that are held, presented or on their way.                     *)

\* Refreshes keep their tab while they last.
Stay == \A q \in Calls : refresh'[q] # NoRefresh => Tab(q)' = Tab(q)

LEMMA WayFacts ==
  ASSUME WebTypes, TokenInv, Ways
  PROVE  /\ cookie \in Pairs
         /\ \A k \in Calls : Brings(k) \in Pairs /\ refresh[k].presented \in Pairs
         /\ \A p \in Pairs : p # Nothing => /\ p.session \in Sessions /\ p.token \in Tokens
                                            /\ p.session # None /\ p.token # None
         /\ \A p \in Pairs : p # Nothing /\ Own(p) => Issued(p.token) /\ p.session \in opened
BY PairFacts DEF WebTypes, TokenInv, Ways, WayInv, Own, Issued

\* A step of which the server and the refreshes know nothing, and that brings
\* nobody a new pair.
LEMMA QuietWays ==
  ASSUME WebTypes, Ways, Stay, UNCHANGED <<live, spent, issuedTo, spentBy, lost, refresh>>,
         cookie' \in {cookie, Nothing},
         \A q \in Calls : Brings(q)' \in {Brings(q), Nothing}
  PROVE  Ways'
<1>1. ASSUME NEW p
      PROVE  Own(p)' = Own(p) /\ Stale(p)' = Stale(p)
  BY DEF Own, Stale
<1>2. ASSUME NEW k \in Calls
      PROVE  WayInv(k)'
  <2>1. WayInv(k) /\ \A q \in Calls : WayInv(q)
    BY DEF Ways
  <2>2. Nothing \in Pairs /\ Nothing.token = None /\ \A p \in Pairs : p # Nothing => p.token # None
    BY PairFacts
  <2>3. Own(Nothing)
    BY DEF Own
  <2> QED
    BY <2>1, <2>2, <2>3, <1>1 DEF WayInv
<1>3. ASSUME NEW k \in Calls
      PROVE  SentInv(k)'
  <2>1. SentInv(k) /\ (refresh[k].phase = "sent" => Tab(k)' = Tab(k))
    BY NoRefreshFacts DEF Ways, Stay
  <2> QED
    BY <2>1, <1>1 DEF SentInv
<1>4. CookieInv'
  <2>1. CASE cookie' = Nothing
    BY <2>1 DEF CookieInv, Own, Stale
  <2>2. CASE cookie' = cookie
    <3>1. \A k \in Calls : refresh[k].phase = "granted" => Tab(k)' = Tab(k)
      BY NoRefreshFacts DEF Stay
    <3> QED
      BY <2>2, <3>1, <1>1 DEF Ways, CookieInv
  <2> QED
    BY <2>1, <2>2
<1> QED
  BY <1>2, <1>3, <1>4 DEF Ways

\* The answer to k arrives and sets the cookies.
LEMMA ArriveWays ==
  ASSUME WebTypes, TokenInv, Ways, Stay, UNCHANGED <<live, spent, issuedTo, spentBy, lost>>,
         NEW k \in Calls, Brings(k) # Nothing, cookie' = Brings(k), Brings(k)' = Nothing,
         refresh'[k] \in {refresh[k], NoRefresh},
         \A q \in Calls \ {k} : Brings(q)' = Brings(q) /\ refresh'[q] = refresh[q]
  PROVE  Ways'
<1>1. ASSUME NEW p
      PROVE  Own(p)' = Own(p) /\ Stale(p)' = Stale(p)
  BY DEF Own, Stale
<1>2. WayInv(k) /\ \A q \in Calls : WayInv(q)
  BY DEF Ways
<1>3. /\ Nothing \in Pairs /\ Nothing.token = None
      /\ \A p \in Pairs : p # Nothing => p.token # None
      /\ Own(Nothing) /\ NoRefresh.presented = Nothing
  BY PairFacts, NoRefreshFacts DEF Own
<1>4. CookieInv'
  <2>1. Own(Brings(k)) /\ Brings(k) \in Pairs /\ live[Brings(k).session] \in {Brings(k).token, None}
    BY <1>2 DEF WayInv
  <2>2. Brings(k).session \in Sessions
    BY <2>1, PairFacts
  <2>3. ~Stale(Brings(k))
    BY <2>1, <2>2 DEF Stale, TokenInv
  <2> QED
    BY <2>1, <2>3, <1>1 DEF CookieInv
<1>5. ASSUME NEW q \in Calls
      PROVE  WayInv(q)'
  <2>1. CASE q = k
    BY <2>1, <1>1, <1>2, <1>3 DEF WayInv
  <2>2. CASE q # k
    <3>1. WayInv(q) /\ Brings(q)' = Brings(q) /\ refresh'[q] = refresh[q]
      BY <2>2, <1>2
    <3>2. Brings(q) # Nothing => /\ cookie'.token # Brings(q).token
                                 /\ \A p \in Calls : refresh'[p].presented.token # Brings(q).token
                                 /\ \A p \in Calls \ {q} : Brings(p)'.token # Brings(q).token
      BY <2>2, <3>1, <1>2, <1>3 DEF WayInv
    <3> QED
      BY <3>1, <3>2, <1>1 DEF WayInv
  <2> QED
    BY <2>1, <2>2
<1>6. ASSUME NEW q \in Calls
      PROVE  SentInv(q)'
  <2>1. SentInv(q) /\ (refresh'[q].phase = "sent" => refresh'[q] = refresh[q] /\ Tab(q)' = Tab(q))
    BY NoRefreshFacts DEF Ways, Stay
  <2> QED
    BY <2>1, <1>1 DEF SentInv
<1> QED
  BY <1>4, <1>5, <1>6 DEF Ways

\* The refresh of k begins with the cookies, while no other one of its tab is
\* under way.
LEMMA AwaitWays ==
  ASSUME WebTypes, Ways, UNCHANGED <<live, spent, issuedTo, spentBy, lost, cookie>>,
         NEW k \in Calls, refresh[k] = NoRefresh,
         refresh'[k].phase = "sent", refresh'[k].presented = cookie,
         \A q \in Calls : Tab(q)' = Tab(q) /\ Brings(q)' = Brings(q),
         \A q \in Calls \ {k} : refresh'[q] = refresh[q],
         \A q \in Calls : refresh[q] # NoRefresh => Tab(q) # Tab(k)
  PROVE  Ways'
<1>1. ASSUME NEW p
      PROVE  Own(p)' = Own(p) /\ Stale(p)' = Stale(p)
  BY DEF Own, Stale
<1>2. CookieInv /\ (\A q \in Calls : WayInv(q) /\ SentInv(q)) /\ Own(cookie)
  BY DEF Ways, CookieInv
<1>3. refresh[k].phase = "none"
  BY NoRefreshFacts
<1>4. CookieInv'
  BY <1>1, <1>2, <1>3 DEF CookieInv
<1>5. ASSUME NEW q \in Calls
      PROVE  WayInv(q)'
  <2>1. WayInv(q) /\ Brings(q)' = Brings(q) /\ \A p \in Calls \ {q} : Brings(p)' = Brings(p)
    BY <1>2
  <2>2. \A p \in Calls : refresh'[p].presented \in {refresh[p].presented, cookie}
    OBVIOUS
  <2> QED
    BY <2>1, <2>2, <1>1, <1>2 DEF WayInv
<1>6. ASSUME NEW q \in Calls
      PROVE  SentInv(q)'
  <2>1. CASE q = k
    <3>1. \A p \in Calls : refresh[p].phase = "granted" => Tab(p) # Tab(k)
      BY NoRefreshFacts
    <3>2. Stale(cookie) => cookie.session \in lost \/ spentBy[cookie.token] # Tab(k)
      BY <1>2, <3>1 DEF CookieInv
    <3> QED
      BY <2>1, <3>2, <1>1 DEF SentInv
  <2>2. CASE q # k
    BY <2>2, <1>1, <1>2 DEF SentInv
  <2> QED
    BY <2>1, <2>2
<1> QED
  BY <1>4, <1>5, <1>6 DEF Ways

\* Refreshes end without their answer being heard: it was a refusal, or it is
\* lost.
LEMMA DropWays ==
  ASSUME WebTypes, Ways, Stay, UNCHANGED <<live, spent, issuedTo, spentBy, cookie>>,
         lost \subseteq lost',
         \A q \in Calls : \/ refresh'[q] = refresh[q] /\ Brings(q)' \in {Brings(q), Nothing}
                          \/ /\ refresh'[q] = NoRefresh /\ Brings(q)' = Nothing
                             /\ refresh[q].phase = "granted" =>
                                  refresh[q].presented.session \in lost'
  PROVE  Ways'
<1>1. ASSUME NEW p
      PROVE  Own(p)' = Own(p) /\ Stale(p)' = Stale(p)
  BY DEF Own, Stale
<1>2. CookieInv /\ (\A q \in Calls : WayInv(q) /\ SentInv(q)) /\ Own(cookie)
  BY DEF Ways, CookieInv
<1>3. /\ Nothing \in Pairs /\ Nothing.token = None
      /\ \A p \in Pairs : p # Nothing => p.token # None
      /\ Own(Nothing) /\ NoRefresh.presented = Nothing /\ NoRefresh.phase = "none"
  BY PairFacts, NoRefreshFacts DEF Own
<1>4. CookieInv'
  <2>1. CASE ~Stale(cookie)
    BY <2>1, <1>1, <1>2 DEF CookieInv
  <2>2. CASE cookie.session \in lost
    BY <2>2, <1>1, <1>2 DEF CookieInv
  <2>3. ASSUME NEW q \in Calls, refresh[q].phase = "granted", refresh[q].presented = cookie,
               Tab(q) = spentBy[cookie.token]
        PROVE  CookieInv'
    <3>1. CASE refresh'[q] = refresh[q]
      <4>1. Tab(q)' = Tab(q)
        BY <2>3, <3>1, <1>3 DEF Stay
      <4> QED
        BY <2>3, <3>1, <4>1, <1>1, <1>2 DEF CookieInv
    <3>2. CASE cookie.session \in lost'
      BY <3>2, <1>1, <1>2 DEF CookieInv
    <3> QED
      BY <2>3, <3>1, <3>2
  <2> QED
    BY <2>1, <2>2, <2>3, <1>2 DEF CookieInv
<1>5. ASSUME NEW q \in Calls
      PROVE  WayInv(q)'
  <2>1. WayInv(q) /\ Brings(q)' \in {Brings(q), Nothing}
    BY <1>2
  <2>2. \A p \in Calls : /\ refresh'[p].presented \in {refresh[p].presented, Nothing}
                         /\ Brings(p)' \in {Brings(p), Nothing}
    BY <1>3
  <2> QED
    BY <2>1, <2>2, <1>1, <1>3 DEF WayInv
<1>6. ASSUME NEW q \in Calls
      PROVE  SentInv(q)'
  <2>1. SentInv(q) /\ (refresh'[q].phase = "sent" => refresh'[q] = refresh[q] /\ Tab(q)' = Tab(q))
    BY <1>2, <1>3 DEF Stay
  <2> QED
    BY <2>1, <1>1 DEF SentInv
<1> QED
  BY <1>4, <1>5, <1>6 DEF Ways

\* The server ends a session: of its tokens nothing is said any more.
LEMMA EndWays ==
  ASSUME WebTypes, TokenInv, Ways, Stay, NEW s \in Sessions, EndSession(s),
         UNCHANGED <<cookie, refresh>>,
         \A q \in Calls : Brings(q)' \in {Brings(q), Nothing}
  PROVE  Ways'
<1>1. /\ live[s] \in Tokens /\ live' = [live EXCEPT ![s] = None]
      /\ spent' = spent \cup {live[s]} /\ issuedTo' = issuedTo /\ lost' = lost \ {s}
      /\ issuedTo[live[s]] = s
      /\ \A t \in Tokens : issuedTo[t] # s => spentBy'[t] = spentBy[t]
      /\ None \notin Tokens
  BY EndDoes, PairFacts DEF TokenInv
<1>2. live'[s] = None /\ \A x \in Sessions \ {s} : live'[x] = live[x]
  BY <1>1 DEF WebTypes
<1>3. CookieInv /\ (\A q \in Calls : WayInv(q) /\ SentInv(q)) /\ Own(cookie)
  BY DEF Ways, CookieInv
<1>4. /\ Nothing \in Pairs /\ Nothing.token = None
      /\ \A p \in Pairs : p # Nothing => /\ p.session \in Sessions /\ p.token \in Tokens
                                         /\ p.token # None
      /\ Own(Nothing)
  BY PairFacts DEF Own
<1>5. \A p : Own(p)' = Own(p)
  BY <1>1 DEF Own
<1>6. ASSUME NEW p \in Pairs, Own(p), Stale(p)'
      PROVE  /\ Stale(p) /\ p.session # s
             /\ p.session \in lost => p.session \in lost'
             /\ spentBy'[p.token] = spentBy[p.token]
  <2>1. p # Nothing /\ p.token \in spent' /\ live'[p.session] # None
    BY <1>6 DEF Stale
  <2>2. p.session \in Sessions /\ p.token \in Tokens /\ issuedTo[p.token] = p.session
    BY <2>1, <1>4, <1>6 DEF Own
  <2>3. p.session # s /\ live'[p.session] = live[p.session]
    BY <2>1, <2>2, <1>2
  <2>4. p.token \in spent
    BY <2>1, <2>2, <2>3, <1>1
  <2> QED
    BY <2>1, <2>2, <2>3, <2>4, <1>1 DEF Stale
<1>7. CookieInv'
  <2>1. cookie \in Pairs /\ \A q \in Calls : refresh[q].phase = "granted" => Tab(q)' = Tab(q)
    BY NoRefreshFacts DEF WebTypes, Stay
  <2>2. CASE ~Stale(cookie)'
    BY <2>2, <1>3, <1>5 DEF CookieInv
  <2>3. CASE Stale(cookie)'
    <3>1. /\ Stale(cookie) /\ spentBy'[cookie.token] = spentBy[cookie.token]
          /\ cookie.session \in lost => cookie.session \in lost'
      BY <2>1, <2>3, <1>3, <1>6
    <3> QED
      BY <2>1, <3>1, <1>3, <1>5 DEF CookieInv
  <2> QED
    BY <2>2, <2>3
<1>8. ASSUME NEW q \in Calls
      PROVE  WayInv(q)'
  <2>1. WayInv(q) /\ Brings(q)' \in {Brings(q), Nothing} /\ refresh' = refresh /\ cookie' = cookie
    BY <1>3
  <2>2. Brings(q) \in Pairs
    BY <2>1 DEF WayInv
  <2>3. Brings(q) # Nothing => live'[Brings(q).session] \in {Brings(q).token, None}
    BY <2>1, <2>2, <1>2, <1>4 DEF WayInv
  <2> QED
    BY <2>1, <2>2, <2>3, <1>4, <1>5 DEF WayInv
<1>9. ASSUME NEW q \in Calls
      PROVE  SentInv(q)'
  <2>1. SentInv(q) /\ (refresh[q].phase = "sent" => Tab(q)' = Tab(q))
    BY <1>3, NoRefreshFacts DEF Stay
  <2>2. refresh[q].presented \in Pairs /\ Own(refresh[q].presented)
    BY <1>3 DEF WayInv, WebTypes
  <2> QED
    BY <2>1, <2>2, <1>6 DEF SentInv
<1> QED
  BY <1>7, <1>8, <1>9 DEF Ways

\* A session is opened with a token nobody has seen.
LEMMA OpenWays ==
  ASSUME WebTypes, TokenInv, Ways, Stay, UNCHANGED <<spentBy, lost, cookie, refresh>>,
         NEW k \in Calls, NEW s \in Sessions, NEW t \in Tokens,
         s \notin opened, t \notin Server!Issued,
         live' = [live EXCEPT ![s] = t], spent' = spent,
         issuedTo' = [issuedTo EXCEPT ![t] = s],
         Brings(k)' = [session |-> s, token |-> t], Brings(k) = Nothing,
         \A q \in Calls \ {k} : Brings(q)' = Brings(q)
  PROVE  Ways'
<1>1. /\ issuedTo[t] = None
      /\ live'[s] = t /\ \A x \in Sessions \ {s} : live'[x] = live[x]
      /\ issuedTo'[t] = s /\ \A u \in Tokens \ {t} : issuedTo'[u] = issuedTo[u]
  BY FreshToken DEF WebTypes
<1>2. CookieInv /\ (\A q \in Calls : WayInv(q) /\ SentInv(q)) /\ Own(cookie)
  BY DEF Ways, CookieInv
<1>3. /\ Nothing \in Pairs /\ Nothing.token = None /\ None \notin Tokens
      /\ \A p \in Pairs : p # Nothing => p.token # None /\ p.session \in Sessions
      /\ Own(Nothing)
  BY PairFacts DEF Own
<1>4. ASSUME NEW p \in Pairs, Own(p)
      PROVE  /\ p.token # t /\ Own(p)' /\ Stale(p)' = Stale(p)
             /\ p # Nothing => live'[p.session] = live[p.session]
  <2>1. CASE p = Nothing
    BY <2>1, <1>3 DEF Own, Stale
  <2>2. CASE p # Nothing
    <3>1. Issued(p.token) /\ p.session \in opened /\ p.session \in Sessions
      BY <2>2, <1>3, <1>4, WayFacts
    <3> QED
      BY <2>2, <3>1, <1>1, <1>4 DEF Own, Stale, Issued
  <2> QED
    BY <2>1, <2>2
<1>5. cookie \in Pairs /\ \A q \in Calls : refresh[q].phase \in {"sent", "granted"} => Tab(q)' = Tab(q)
  BY NoRefreshFacts DEF WebTypes, Stay
<1>6. CookieInv'
  <2>1. Own(cookie)' /\ Stale(cookie)' = Stale(cookie)
    BY <1>2, <1>4, <1>5
  <2> QED
    BY <2>1, <1>2, <1>5 DEF CookieInv
<1>7. \A q \in Calls : /\ refresh[q].presented \in Pairs /\ Own(refresh[q].presented)
                       /\ Brings(q) \in Pairs /\ Own(Brings(q))
  BY <1>2 DEF WayInv, WebTypes
<1>8. ASSUME NEW q \in Calls
      PROVE  WayInv(q)'
  <2>1. Own(refresh[q].presented)'
    BY <1>4, <1>7
  <2>2. \A p \in Calls : refresh[p].presented.token # t /\ Brings(p).token # t
    BY <1>4, <1>7
  <2>3. cookie.token # t
    BY <1>2, <1>4, <1>5
  <2>4. CASE q = k
    <3> DEFINE pair == [session |-> s, token |-> t]
    <3>1. pair \in Pairs /\ pair.session = s /\ pair.token = t
      BY PairFacts
    <3>2. Brings(q)' = pair
      BY <2>4
    <3> HIDE DEF pair
    <3>3. Own(pair)'
      BY <3>1, <1>1 DEF Own
    <3>4. \A p \in Calls \ {q} : Brings(p)'.token # t
      BY <2>2, <2>4
    <3> QED
      BY <3>1, <3>2, <3>3, <3>4, <2>1, <2>2, <2>3, <1>1 DEF WayInv
  <2>5. CASE q # k
    <3>1. Brings(q)' = Brings(q) /\ WayInv(q) /\ Own(Brings(q))'
      BY <2>5, <1>2, <1>4, <1>7
    <3>2. Brings(q) # Nothing => live'[Brings(q).session] = live[Brings(q).session]
      BY <1>4, <1>7
    <3>3. \A p \in Calls \ {q} : Brings(q) # Nothing => Brings(p)'.token # Brings(q).token
      BY <2>2, <3>1 DEF WayInv
    <3> QED
      BY <3>1, <3>2, <3>3, <2>1 DEF WayInv
  <2> QED
    BY <2>4, <2>5
<1>9. ASSUME NEW q \in Calls
      PROVE  SentInv(q)'
  <2>1. SentInv(q) /\ Stale(refresh[q].presented)' = Stale(refresh[q].presented)
    BY <1>2, <1>4, <1>7
  <2> QED
    BY <2>1, <1>5 DEF SentInv
<1> QED
  BY <1>6, <1>8, <1>9 DEF Ways

\* The refresh of k trades the live token of a session for one nobody has
\* seen, and brings it to the tab, or it is lost.
LEMMA RotateWays ==
  ASSUME WebTypes, TokenInv, Ways, UNCHANGED <<cookie, call>>,
         NEW k \in Calls, NEW t \in Tokens, NEW c \in Pairs,
         refresh[k].phase = "sent", c = refresh[k].presented, c # Nothing,
         live[c.session] = c.token, t \notin Server!Issued,
         live' = [live EXCEPT ![c.session] = t], spent' = spent \cup {c.token},
         issuedTo' = [issuedTo EXCEPT ![t] = c.session],
         spentBy' = [spentBy EXCEPT ![c.token] = Tab(k)],
         refresh'[k].presented = c, refresh'[k].phase # "sent",
         \A q \in Calls \ {k} : refresh'[q] = refresh[q] /\ Brings(q)' = Brings(q),
         Brings(k) = Nothing,
         \/ /\ refresh'[k].phase = "granted" /\ lost' = lost
            /\ Brings(k)' = [session |-> c.session, token |-> t]
         \/ Brings(k)' = Nothing /\ lost' = lost \cup {c.session},
         \A q \in Calls \ {k} : refresh[q] # NoRefresh => Tab(q) # Tab(k),
         Tab(k) \in Tabs
  PROVE  Ways'
<1>0. c.session \in Sessions /\ c.token \in Tokens /\ None \notin Tokens
  BY PairFacts
<1>1. /\ issuedTo[t] = None
      /\ live'[c.session] = t /\ \A x \in Sessions \ {c.session} : live'[x] = live[x]
      /\ issuedTo'[t] = c.session /\ \A u \in Tokens \ {t} : issuedTo'[u] = issuedTo[u]
      /\ spentBy'[c.token] = Tab(k) /\ \A u \in Tokens \ {c.token} : spentBy'[u] = spentBy[u]
      /\ \A q : Tab(q)' = Tab(q)
      /\ lost \subseteq lost'
  BY <1>0, FreshToken DEF WebTypes, Tab
<1>2. CookieInv /\ (\A q \in Calls : WayInv(q) /\ SentInv(q)) /\ Own(cookie)
  BY DEF Ways, CookieInv
<1>3. /\ Nothing \in Pairs /\ Nothing.token = None
      /\ \A p \in Pairs : p # Nothing => /\ p.token # None /\ p.token \in Tokens
                                         /\ p.session \in Sessions
      /\ Own(Nothing)
      /\ \A p \in Pairs, q \in Pairs : p.session = q.session /\ p.token = q.token => p = q
  BY PairFacts DEF Own
<1>4. \A q \in Calls : /\ refresh[q].presented \in Pairs /\ Own(refresh[q].presented)
                       /\ Brings(q) \in Pairs /\ Own(Brings(q))
  BY <1>2 DEF WayInv, WebTypes
<1>5. issuedTo[c.token] = c.session
  BY <1>4 DEF Own
<1>6. ASSUME NEW p \in Pairs, Own(p)
      PROVE  /\ p.token # t /\ Own(p)'
             /\ Stale(p)' => p = c \/ (Stale(p) /\ p.token # c.token /\ p.token \in Tokens)
  <2>1. CASE p = Nothing
    BY <2>1, <1>0, <1>3 DEF Own, Stale
  <2>2. CASE p # Nothing
    <3>1. /\ Issued(p.token) /\ p.session \in Sessions /\ p.token \in Tokens
          /\ issuedTo[p.token] = p.session
      BY <2>2, <1>3, <1>6, WayFacts DEF Own
    <3>2. p.token # t
      BY <3>1, <1>1 DEF Issued
    <3>3. Own(p)'
      BY <3>1, <3>2, <1>1 DEF Own
    <3>4. CASE p.token = c.token
      <4>1. p.session = c.session
        BY <3>1, <3>4, <1>5
      <4>2. p = c
        BY <3>4, <4>1, <1>3
      <4> QED
        BY <3>2, <3>3, <4>2
    <3>5. CASE p.token # c.token
      <4>1. live'[p.session] # None => live[p.session] # None
        BY <3>1, <1>0, <1>1
      <4> QED
        BY <2>2, <3>1, <3>2, <3>3, <3>5, <4>1 DEF Stale
    <3> QED
      BY <3>4, <3>5
  <2> QED
    BY <2>1, <2>2
<1>7. CookieInv'
  <2>0. cookie \in Pairs
    BY DEF WebTypes
  <2>1. Own(cookie)'
    BY <2>0, <1>2, <1>6
  <2>2. CASE ~Stale(cookie)'
    BY <2>1, <2>2 DEF CookieInv
  <2>3. CASE cookie = c
    <3>1. \/ cookie'.session \in lost'
          \/ /\ refresh'[k].phase = "granted" /\ refresh'[k].presented = cookie'
             /\ Tab(k)' = spentBy'[cookie'.token]
      BY <2>3, <1>1
    <3> QED
      BY <2>1, <3>1 DEF CookieInv
  <2>4. CASE Stale(cookie) /\ cookie.token # c.token /\ cookie.token \in Tokens
    <3>1. \/ cookie.session \in lost
          \/ \E q \in Calls : /\ refresh[q].phase = "granted"
                              /\ refresh[q].presented = cookie
                              /\ Tab(q) = spentBy[cookie.token]
      BY <2>4, <1>2 DEF CookieInv
    <3>2. spentBy'[cookie.token] = spentBy[cookie.token]
      BY <2>4, <1>1
    <3>3. \A q \in Calls : refresh[q].phase = "granted" => refresh'[q] = refresh[q]
      OBVIOUS
    <3> QED
      BY <2>1, <3>1, <3>2, <3>3, <1>1 DEF CookieInv
  <2> QED
    BY <2>0, <2>2, <2>3, <2>4, <1>2, <1>6
<1>8. ASSUME NEW q \in Calls
      PROVE  WayInv(q)'
  <2>1. \A p \in Calls : refresh'[p].presented = refresh[p].presented
    OBVIOUS
  <2>2. Own(refresh[q].presented)'
    BY <1>4, <1>6
  <2>3. \A p \in Calls : refresh[p].presented.token # t /\ Brings(p).token # t
    BY <1>4, <1>6
  <2>4. cookie.token # t
    BY <1>2, <1>6 DEF WebTypes
  <2>5. CASE q = k /\ Brings(k)' = Nothing
    BY <2>1, <2>2, <2>5, <1>3 DEF WayInv, Own
  <2>6. CASE q = k /\ Brings(k)' = [session |-> c.session, token |-> t]
    <3> DEFINE pair == [session |-> c.session, token |-> t]
    <3>1. pair \in Pairs /\ pair.session = c.session /\ pair.token = t
      BY <1>0, PairFacts
    <3>2. Brings(q)' = pair
      BY <2>6
    <3> HIDE DEF pair
    <3>3. Own(pair)'
      BY <3>1, <1>1 DEF Own
    <3>4. \A p \in Calls \ {q} : Brings(p)'.token # t
      BY <2>3, <2>6
    <3> QED
      BY <3>1, <3>2, <3>3, <3>4, <2>1, <2>2, <2>3, <2>4, <1>1 DEF WayInv
  <2>7. CASE q # k
    <3>1. Brings(q)' = Brings(q) /\ WayInv(q) /\ Own(Brings(q))'
      BY <2>7, <1>2, <1>4, <1>6
    <3>2. Brings(q) # Nothing => Brings(q).session # c.session
      <4>1. Brings(q) # Nothing => /\ Brings(q).token # c.token
                                   /\ live[Brings(q).session] \in {Brings(q).token, None}
        BY <3>1 DEF WayInv
      <4> QED
        BY <4>1, <1>0
    <3>3. Brings(q) # Nothing => live'[Brings(q).session] = live[Brings(q).session]
      BY <3>2, <1>1, <1>3, <1>4
    <3>4. \A p \in Calls \ {q} : Brings(q) # Nothing => Brings(p)'.token # Brings(q).token
      <4> SUFFICES ASSUME NEW p \in Calls \ {q}, Brings(q) # Nothing
                   PROVE  Brings(p)'.token # Brings(q).token
        OBVIOUS
      <4>1. CASE p # k
        BY <4>1, <3>1 DEF WayInv
      <4>2. CASE p = k /\ Brings(k)' = Nothing
        BY <4>2, <1>3, <1>4
      <4>3. CASE p = k /\ Brings(k)' = [session |-> c.session, token |-> t]
        BY <4>3, <2>3
      <4> QED
        BY <4>1, <4>2, <4>3
    <3> QED
      BY <3>1, <3>3, <3>4, <2>1, <2>2 DEF WayInv
  <2> QED
    BY <2>5, <2>6, <2>7
<1>9. ASSUME NEW q \in Calls
      PROVE  SentInv(q)'
  <2>1. CASE q = k
    BY <2>1 DEF SentInv
  <2>2. CASE q # k
    <3> SUFFICES ASSUME refresh[q].phase = "sent", Stale(refresh[q].presented)'
                 PROVE  \/ refresh[q].presented.session \in lost'
                        \/ spentBy'[refresh[q].presented.token] # Tab(q)
      BY <2>2, <1>1 DEF SentInv
    <3>1. CASE refresh[q].presented = c
      BY <2>2, <3>1, <1>1, NoRefreshFacts
    <3>2. CASE /\ Stale(refresh[q].presented) /\ refresh[q].presented.token # c.token
               /\ refresh[q].presented.token \in Tokens
      BY <3>2, <1>1, <1>2 DEF SentInv
    <3> QED
      BY <3>1, <3>2, <1>4, <1>6
  <2> QED
    BY <2>1, <2>2
<1> QED
  BY <1>7, <1>8, <1>9 DEF Ways

-----------------------------------------------------------------------------
(* The inductive invariant of the web client, step by step.                *)

\* What a page holds of tokens that were issued.
PageOK(pair) == pair # Nothing => Issued(pair.token)

CallOK(k) ==
  /\ PageOK(call[k].captured)
  /\ call[k].access # None => Issued(call[k].access)
  /\ ~At(k, "idle") /\ call[k].kind # "login" =>
       call[k].access # None /\ call[k].captured # Nothing
  /\ At(k, "ok") => call[k].captured # Nothing

LEMMA PageParts ==
  PageInv <=> /\ \A b \in Tabs : PageOK(stored[b]) /\ PageOK(layout[b])
              /\ \A k \in Calls : CallOK(k)
BY DEF PageInv, PageOK, CallOK

\* Nothing that was issued is forgotten.
Remember == \A u : Issued(u) => Issued(u)'

LEMMA PagesStay ==
  ASSUME PageInv, Remember
  PROVE  /\ \A b \in Tabs : PageOK(stored[b])' \/ stored'[b] # stored[b]
         /\ \A b \in Tabs : PageOK(layout[b])' \/ layout'[b] # layout[b]
         /\ \A k \in Calls : PageOK(call[k].captured)' \/ call'[k].captured # call[k].captured
         /\ PageOK(Nothing)'
         /\ \A k \in Calls : pc'[k] = pc[k] /\ call'[k] = call[k] => CallOK(k)'
         /\ \A k \in Calls : Ended(k) => CallOK(k)'
BY NoCallFacts DEF PageInv, Remember, PageOK, CallOK, Ended, At

\* A call that serves a page goes on to its answer.
LEMMA KeepsOK ==
  ASSUME PageInv, Remember, NEW k \in Calls, Keeps(k), pc[k] # "idle",
         pc'[k] = "ok" => call[k].kind # "login"
  PROVE  CallOK(k)'
BY DEF PageInv, Remember, PageOK, CallOK, Keeps, At

LEMMA ForgetNothing ==
  ASSUME issuedTo' = issuedTo
  PROVE  Remember
BY DEF Remember, Issued

\* A step of one call that waits for no refresh.
LEMMA PageStepBrings ==
  ASSUME Waits, NEW k \in Calls, Alone(k), pc[k] # "wait"
  PROVE  /\ Stay /\ refresh[k] = NoRefresh /\ refresh' = refresh /\ promise' = promise
         /\ \A q \in Calls \ {k} : Brings(q)' = Brings(q)
         /\ Brings(k) = IF pc[k] = "ok" /\ call[k].kind = "login"
                        THEN call[k].captured ELSE Nothing
         /\ Brings(k)' = IF pc'[k] = "ok" /\ call'[k].kind = "login"
                         THEN call'[k].captured ELSE Nothing
<1>1. refresh[k] = NoRefresh /\ refresh' = refresh /\ promise' = promise
  BY DEF Waits, WaitInv, At, Alone
<1>2. \A q \in Calls \ {k} : pc'[q] = pc[q] /\ call'[q] = call[q]
  BY DEF Alone
<1>3. Stay
  BY <1>1, <1>2 DEF Stay, Tab
<1>4. \A q \in Calls \ {k} : Brings(q)' = Brings(q)
  BY <1>1, <1>2 DEF Brings, At
<1> QED
  BY <1>1, <1>3, <1>4, NoRefreshFacts DEF Brings, At

LEMMA OthersDo ==
  ASSUME Does, NEW k \in Calls, \A q \in Calls \ {k} : pc'[q] = pc[q] /\ call'[q] = call[q],
         EffectInv(k)'
  PROVE  Does'
BY DEF Does, EffectInv

LEMMA TabOf ==
  ASSUME Waits, NEW k \in Calls, pc[k] # "idle"
  PROVE  Tab(k) \in Tabs
BY DEF Waits, WaitInv, At

LEMMA BeginStep ==
  ASSUME WebInv, NEW k \in Calls, NEW b \in Tabs, NEW kind \in Kinds, NEW s \in Pairs,
         Begin(k, b, kind, s), PageOK(s), kind = "login" \/ s # Nothing
  PROVE  WebInv'
<1>1. WebTypes /\ Waits /\ Does /\ TokenInv /\ PageInv /\ Ways
  BY DEF WebInv
<1>2. /\ WebTypes' /\ Alone(k)
      /\ pc[k] = "idle" /\ pc'[k] = "sent"
      /\ call'[k].tab = b /\ call'[k].kind = kind /\ call'[k].captured = s
      /\ call'[k].access = s.token /\ call'[k].effects = 0
      /\ UNCHANGED <<server, browser, lost>>
  BY <1>1, BeginDoes
<1>3. Waits'
  BY <1>1, <1>2, PageStepWaits
<1>4. Does'
  BY <1>1, <1>2, OthersDo DEF EffectInv, Alone
<1>5. TokenInv' /\ Remember
  BY <1>1, <1>2, ForgetNothing DEF TokenInv, server
<1>6. PageInv'
  <2>1. PageOK(s)' /\ (s # Nothing => s.token # None) /\ (s.token # None => s # Nothing)
    BY <1>5, PairFacts DEF PageOK, Remember
  <2>2. CallOK(k)'
    BY <1>2, <2>1 DEF CallOK, PageOK, At
  <2>3. \A q \in Calls \ {k} : CallOK(q)'
    BY <1>1, <1>2, <1>5, PagesStay DEF Alone
  <2>4. \A c \in Tabs : PageOK(stored[c])' /\ PageOK(layout[c])'
    BY <1>1, <1>2, <1>5, PagesStay DEF browser
  <2> QED
    BY <2>2, <2>3, <2>4, PageParts DEF PageInv, PageOK, CallOK
<1>7. Ways'
  <2>1. \A q \in Calls : Brings(q)' \in {Brings(q), Nothing}
    BY <1>1, <1>2, PageStepBrings
  <2>2. Stay /\ refresh' = refresh
    BY <1>1, <1>2, PageStepBrings
  <2> QED
    BY <1>1, <1>2, <2>1, <2>2, QuietWays DEF server, browser
<1> QED
  BY <1>2, <1>3, <1>4, <1>5, <1>6, <1>7 DEF WebInv

LEMMA LoginStep ==
  ASSUME WebInv, NEW k \in Calls, ServeLogin(k)
  PROVE  WebInv'
<1>1. WebTypes /\ Waits /\ Does /\ TokenInv /\ PageInv /\ Ways
  BY DEF WebInv
<1>2. /\ WebTypes' /\ Alone(k)
      /\ pc[k] = "sent" /\ call[k].kind = "login" /\ pc'[k] \in {"ok", "failed"}
      /\ UNCHANGED <<expired, spentBy, browser, lost>>
      /\ call'[k].tab = call[k].tab /\ call'[k].kind = call[k].kind
      /\ call'[k].access = call[k].access /\ call'[k].effects = call[k].effects
  BY <1>1, LoginDoes
<1>3. Waits'
  <2>1. call'[k].tab \in Tabs
    BY <1>1, <1>2, TabOf DEF Tab
  <2> QED
    BY <1>1, <1>2, <2>1, PageStepWaits
<1>4. Does'
  <2>1. EffectInv(k)
    BY <1>1 DEF Does
  <2> QED
    BY <1>1, <1>2, <2>1, OthersDo DEF EffectInv, Alone
<1>5. /\ Stay /\ refresh' = refresh
      /\ \A q \in Calls \ {k} : Brings(q)' = Brings(q)
      /\ Brings(k) = Nothing
      /\ Brings(k)' = IF pc'[k] = "ok" THEN call'[k].captured ELSE Nothing
  BY <1>1, <1>2, PageStepBrings
<1>6. CASE pc'[k] = "failed" /\ UNCHANGED <<live, opened, spent, issuedTo, call>>
  <2>1. TokenInv' /\ Remember
    BY <1>1, <1>6, ForgetNothing DEF TokenInv
  <2>2. PageInv'
    <3>1. CallOK(k)'
      BY <1>1, <1>2, <1>6, <2>1, KeepsOK DEF Keeps
    <3>2. \A q \in Calls \ {k} : CallOK(q)'
      BY <1>1, <1>2, <2>1, PagesStay DEF Alone
    <3>3. \A c \in Tabs : PageOK(stored[c])' /\ PageOK(layout[c])'
      BY <1>1, <1>2, <2>1, PagesStay DEF browser
    <3> QED
      BY <3>1, <3>2, <3>3 DEF PageInv, PageOK, CallOK
  <2>3. Ways'
    <3>1. \A q \in Calls : Brings(q)' \in {Brings(q), Nothing}
      BY <1>5, <1>6
    <3> QED
      BY <1>1, <1>2, <1>5, <1>6, <3>1, QuietWays DEF browser
  <2> QED
    BY <1>2, <1>3, <1>4, <2>1, <2>2, <2>3 DEF WebInv
<1>7. ASSUME NEW s \in Sessions, NEW t \in Tokens, pc'[k] = "ok",
             call'[k].captured = [session |-> s, token |-> t],
             s \notin opened, t \notin Server!Issued,
             live' = [live EXCEPT ![s] = t],
             opened' = opened \cup {s},
             spent' = spent,
             issuedTo' = [issuedTo EXCEPT ![t] = s]
      PROVE  WebInv'
  <2>1. TokenInv' /\ Remember
    BY <1>1, <1>7, OpenTokens DEF Remember
  <2>2. PageInv'
    <3>1. /\ call'[k].captured # Nothing /\ call'[k].captured.token = t
          /\ issuedTo'[t] = s /\ s # None
      BY <1>1, <1>7, PairFacts DEF WebTypes
    <3>2. PageOK(call[k].captured)'
      BY <3>1 DEF PageOK, Issued
    <3>3. CallOK(k)'
      BY <1>1, <1>2, <2>1, <3>1, <3>2 DEF CallOK, At, PageInv, Remember
    <3>4. \A q \in Calls \ {k} : CallOK(q)'
      BY <1>1, <1>2, <2>1, PagesStay DEF Alone
    <3>5. \A c \in Tabs : PageOK(stored[c])' /\ PageOK(layout[c])'
      BY <1>1, <1>2, <2>1, PagesStay DEF browser
    <3> QED
      BY <3>3, <3>4, <3>5 DEF PageInv, PageOK, CallOK
  <2>3. Brings(k)' = [session |-> s, token |-> t]
    BY <1>5, <1>7
  <2>4. Ways'
    BY <1>1, <1>2, <1>5, <1>7, <2>3, OpenWays DEF browser
  <2> QED
    BY <1>2, <1>3, <1>4, <2>1, <2>2, <2>4 DEF WebInv
<1> QED
  BY <1>1, <1>6, <1>7, LoginDoes

LEMMA ServeStep ==
  ASSUME WebInv, NEW k \in Calls, Serve(k)
  PROVE  WebInv'
<1>1. WebTypes /\ Waits /\ Does /\ TokenInv /\ PageInv /\ Ways
  BY DEF WebInv
<1>2. /\ WebTypes' /\ Alone(k) /\ Keeps(k) /\ UNCHANGED browser
      /\ pc[k] = "sent" /\ call[k].kind # "login"
      /\ pc'[k] \in {"ok", "failed", "unauthorized"}
      /\ \/ pc'[k] \in {"ok", "failed"} /\ call'[k].effects = call[k].effects + 1
         \/ pc'[k] \in {"failed", "unauthorized"} /\ call'[k].effects = call[k].effects
      /\ UNCHANGED <<server, lost>> \/ \E s \in Sessions : EndSession(s)
  BY <1>1, ServeDoes
<1>3. Waits'
  <2>1. call'[k].tab \in Tabs
    BY <1>1, <1>2, TabOf DEF Tab, Keeps
  <2> QED
    BY <1>1, <1>2, <2>1, PageStepWaits
<1>4. Does'
  <2>1. call[k].effects = 0
    BY <1>1, <1>2 DEF Does, EffectInv
  <2> QED
    BY <1>1, <1>2, <2>1, OthersDo DEF EffectInv, Alone
<1>5. TokenInv' /\ Remember
  <2>1. CASE UNCHANGED <<server, lost>>
    BY <1>1, <2>1, ForgetNothing DEF TokenInv, server
  <2>2. ASSUME NEW s \in Sessions, EndSession(s)
        PROVE  TokenInv' /\ Remember
    BY <1>1, <2>2, EndTokens DEF Remember
  <2> QED
    BY <1>2, <2>1, <2>2
<1>6. PageInv'
  <2>1. CallOK(k)'
    BY <1>1, <1>2, <1>5, KeepsOK
  <2>2. \A q \in Calls \ {k} : CallOK(q)'
    BY <1>1, <1>2, <1>5, PagesStay DEF Alone
  <2>3. \A c \in Tabs : PageOK(stored[c])' /\ PageOK(layout[c])'
    BY <1>1, <1>2, <1>5, PagesStay DEF browser
  <2> QED
    BY <2>1, <2>2, <2>3 DEF PageInv, PageOK, CallOK
<1>7. Ways'
  <2>1. /\ Stay /\ refresh' = refresh /\ cookie' = cookie
        /\ \A q \in Calls : Brings(q)' \in {Brings(q), Nothing}
    BY <1>1, <1>2, PageStepBrings DEF Keeps, browser
  <2>2. CASE UNCHANGED <<server, lost>>
    BY <1>1, <2>1, <2>2, QuietWays DEF server
  <2>3. ASSUME NEW s \in Sessions, EndSession(s)
        PROVE  Ways'
    BY <1>1, <2>1, <2>3, EndWays
  <2> QED
    BY <1>2, <2>2, <2>3
<1> QED
  BY <1>2, <1>3, <1>4, <1>5, <1>6, <1>7 DEF WebInv

LEMMA ReceiveStep ==
  ASSUME WebInv, NEW k \in Calls, Receive(k)
  PROVE  WebInv'
<1>1. WebTypes /\ Waits /\ Does /\ TokenInv /\ PageInv /\ Ways
  BY DEF WebInv
<1>2. pc[k] = "ok" /\ Tab(k) \in Tabs
  BY <1>1, TabOf DEF Receive, At
<1>3. /\ WebTypes' /\ Alone(k) /\ PageGoesOn(k) /\ UNCHANGED <<server, lost>>
      /\ \/ call[k].kind = "login" /\ cookie' = call[k].captured
         \/ call[k].kind # "login" /\ cookie' \in {cookie, Nothing}
      /\ \A b \in Tabs : /\ stored'[b] \in {stored[b], call[k].captured, Nothing}
                         /\ layout'[b] \in {layout[b], call[k].captured, Nothing}
  BY <1>1, <1>2, ReceiveDoes
<1>4. call[k].captured # Nothing /\ call[k].captured \in Pairs /\ Issued(call[k].captured.token)
  BY <1>1, <1>2 DEF PageInv, At, WebTypes, PageCall
<1>5. \/ pc'[k] = "idle" /\ call'[k] = NoCall
      \/ pc'[k] = "sent" /\ call'[k].tab \in Tabs /\ call'[k].effects = 0
  BY <1>2, <1>3 DEF PageGoesOn, Ended, Tab
<1>6. Waits'
  BY <1>1, <1>2, <1>3, <1>5, PageStepWaits
<1>7. Does'
  BY <1>1, <1>3, <1>5, OthersDo, NoCallFacts DEF EffectInv, Alone
<1>8. TokenInv' /\ Remember
  BY <1>1, <1>3, ForgetNothing DEF TokenInv, server
<1>9. PageInv'
  <2>1. PageOK(call[k].captured)' \/ call'[k].captured # call[k].captured
    BY <1>1, <1>8, PagesStay
  <2>2. Issued(call[k].captured.token) /\ issuedTo' = issuedTo
    BY <1>3, <1>4 DEF server
  <2>3. \A p : p \in {call[k].captured, Nothing} => PageOK(p)'
    BY <2>2 DEF PageOK, Issued
  <2>4. CallOK(k)'
    <3>1. CASE Ended(k)
      BY <3>1, <1>1, <1>8, PagesStay
    <3>2. CASE /\ pc'[k] = "sent" /\ call'[k].kind # "login"
               /\ call'[k].captured = call[k].captured
               /\ call'[k].access = call[k].captured.token
      <4>1. call[k].captured.token # None
        BY <1>4, PairFacts
      <4> QED
        BY <3>2, <4>1, <1>4, <2>2 DEF CallOK, PageOK, At, Issued
    <3> QED
      BY <3>1, <3>2, <1>3 DEF PageGoesOn
  <2>5. \A q \in Calls \ {k} : CallOK(q)'
    BY <1>1, <1>3, <1>8, PagesStay DEF Alone
  <2>6. \A c \in Tabs : PageOK(stored[c])' /\ PageOK(layout[c])'
    <3> SUFFICES ASSUME NEW c \in Tabs
                 PROVE  PageOK(stored[c])' /\ PageOK(layout[c])'
      OBVIOUS
    <3>1. /\ stored'[c] \in {stored[c], call[k].captured, Nothing}
          /\ layout'[c] \in {layout[c], call[k].captured, Nothing}
      BY <1>3
    <3>2. PageOK(stored[c]) /\ PageOK(layout[c])
      BY <1>1 DEF PageInv, PageOK
    <3> QED
      BY <3>1, <3>2, <2>2 DEF PageOK, Issued
  <2> QED
    BY <2>4, <2>5, <2>6 DEF PageInv, PageOK, CallOK
<1>10. Ways'
  <2>1. /\ Stay /\ refresh' = refresh
        /\ \A q \in Calls \ {k} : Brings(q)' = Brings(q)
        /\ Brings(k) = IF call[k].kind = "login" THEN call[k].captured ELSE Nothing
        /\ Brings(k)' = Nothing
    BY <1>1, <1>2, <1>3, <1>5, PageStepBrings
  <2>2. CASE call[k].kind = "login"
    BY <1>1, <1>3, <1>4, <2>1, <2>2, ArriveWays DEF server
  <2>3. CASE call[k].kind # "login"
    <3>1. cookie' \in {cookie, Nothing}
      BY <1>3, <2>3
    <3>2. \A q \in Calls : Brings(q)' \in {Brings(q), Nothing}
      BY <2>1
    <3> QED
      BY <1>1, <1>3, <2>1, <3>1, <3>2, QuietWays DEF server
  <2> QED
    BY <2>2, <2>3
<1> QED
  BY <1>3, <1>6, <1>7, <1>8, <1>9, <1>10 DEF WebInv

LEMMA ThrowStep ==
  ASSUME WebInv, NEW k \in Calls, Throw(k)
  PROVE  WebInv'
<1>1. WebTypes /\ Waits /\ Does /\ TokenInv /\ PageInv /\ Ways
  BY DEF WebInv
<1>2. /\ WebTypes' /\ Alone(k) /\ Ended(k) /\ UNCHANGED <<server, cookie, lost>>
      /\ pc[k] \in {"unauthorized", "failed"}
      /\ \A b \in Tabs : /\ stored'[b] \in {stored[b], Nothing}
                         /\ layout'[b] \in {layout[b], Nothing}
  BY <1>1, ThrowDoes
<1>3. pc'[k] = "idle" /\ call'[k] = NoCall
  BY <1>2 DEF Ended
<1>4. Waits'
  BY <1>1, <1>2, <1>3, PageStepWaits
<1>5. Does'
  BY <1>1, <1>2, <1>3, OthersDo, NoCallFacts DEF EffectInv, Alone
<1>6. TokenInv' /\ Remember
  BY <1>1, <1>2, ForgetNothing DEF TokenInv, server
<1>7. PageInv'
  <2>1. \A q \in Calls : CallOK(q)'
    BY <1>1, <1>2, <1>6, PagesStay DEF Alone
  <2>2. ASSUME NEW c \in Tabs
        PROVE  PageOK(stored[c])' /\ PageOK(layout[c])'
    <3>1. PageOK(stored[c]) /\ PageOK(layout[c]) /\ issuedTo' = issuedTo
      BY <1>1, <1>2 DEF PageInv, PageOK, server
    <3>2. stored'[c] \in {stored[c], Nothing} /\ layout'[c] \in {layout[c], Nothing}
      BY <1>2
    <3> QED
      BY <3>1, <3>2 DEF PageOK, Issued
  <2> QED
    BY <2>1, <2>2 DEF PageInv, PageOK, CallOK
<1>8. Ways'
  <2>1. /\ Stay /\ refresh' = refresh
        /\ \A q \in Calls : Brings(q)' \in {Brings(q), Nothing}
    BY <1>1, <1>2, <1>3, PageStepBrings
  <2> QED
    BY <1>1, <1>2, <2>1, QuietWays DEF server
<1> QED
  BY <1>2, <1>4, <1>5, <1>6, <1>7, <1>8 DEF WebInv

\* The refresh under way in a tab is the only one.
LEMMA OneRefresh ==
  ASSUME Waits, NEW k \in Calls, NEW q \in Calls, q # k, refresh[q] # NoRefresh,
         refresh[k] # NoRefresh \/ promise[Tab(k)] = None
  PROVE  Tab(q) # Tab(k)
<1>1. promise[Tab(q)] = q
  BY DEF Waits, WaitInv
<1>2. refresh[k] # NoRefresh => promise[Tab(k)] = k
  BY DEF Waits, WaitInv
<1>3. q # None
  BY TabsAssumption
<1> QED
  BY <1>1, <1>2, <1>3

LEMMA AwaitStep ==
  ASSUME WebInv, NEW k \in Calls, AwaitRefresh(k)
  PROVE  WebInv'
<1>1. WebTypes /\ Waits /\ Does /\ TokenInv /\ PageInv /\ Ways
  BY DEF WebInv
<1>2. pc[k] = "unauthorized" /\ Tab(k) \in Tabs
  BY <1>1, TabOf DEF AwaitRefresh, Retriable, At
<1>3. /\ WebTypes' /\ UNCHANGED <<server, browser, lost>> /\ Keeps(k)
      /\ pc'[k] = "wait"
      /\ call'[k].effects = call[k].effects
      /\ \A q \in Calls \ {k} : /\ pc'[q] = pc[q] /\ call'[q] = call[q]
                                /\ refresh'[q] = refresh[q]
      /\ \/ UNCHANGED <<promise, refresh>>
         \/ /\ promise[Tab(k)] = None
            /\ refresh'[k].phase = "sent" /\ refresh'[k].presented = cookie
  BY <1>1, <1>2, AwaitDoes
<1>4. Waits'
  BY <1>1, <1>2, AwaitWaits
<1>5. Does'
  <2>1. call[k].effects = 0
    BY <1>1, <1>2 DEF Does, EffectInv
  <2> QED
    BY <1>1, <1>3, <2>1, OthersDo DEF EffectInv
<1>6. TokenInv' /\ Remember
  BY <1>1, <1>3, ForgetNothing DEF TokenInv, server
<1>7. PageInv'
  <2>1. CallOK(k)'
    BY <1>1, <1>2, <1>3, <1>6, KeepsOK
  <2>2. \A q \in Calls \ {k} : CallOK(q)'
    BY <1>1, <1>3, <1>6, PagesStay
  <2>3. \A c \in Tabs : PageOK(stored[c])' /\ PageOK(layout[c])'
    BY <1>1, <1>3, <1>6, PagesStay DEF browser
  <2> QED
    BY <2>1, <2>2, <2>3 DEF PageInv, PageOK, CallOK
<1>8. Ways'
  <2>1. refresh[k] = NoRefresh
    BY <1>1, <1>2 DEF Waits, WaitInv, At
  <2>2. \A q \in Calls : Tab(q)' = Tab(q)
    BY <1>3 DEF Tab, Keeps
  <2>3. \A q \in Calls : Brings(q)' = Brings(q)
    <3>1. \A q \in Calls \ {k} : Brings(q)' = Brings(q)
      BY <1>3 DEF Brings, At
    <3>2. Brings(k) = Nothing
      BY <2>1, <1>2, NoRefreshFacts DEF Brings, At
    <3>3. refresh'[k].phase # "granted"
      BY <1>3, <2>1, NoRefreshFacts
    <3>4. Brings(k)' = Nothing
      BY <1>3, <3>3 DEF Brings, At
    <3> QED
      BY <3>1, <3>2, <3>4
  <2>4. CASE UNCHANGED <<promise, refresh>>
    BY <1>1, <1>3, <2>2, <2>3, <2>4, QuietWays DEF Stay, server, browser
  <2>5. CASE /\ promise[Tab(k)] = None
             /\ refresh'[k].phase = "sent" /\ refresh'[k].presented = cookie
    <3>1. \A q \in Calls : refresh[q] # NoRefresh => Tab(q) # Tab(k)
      BY <1>1, <2>1, <2>5, OneRefresh
    <3> QED
      BY <1>1, <1>3, <2>1, <2>2, <2>3, <2>5, <3>1, AwaitWays DEF server, browser
  <2> QED
    BY <1>3, <2>4, <2>5
<1> QED
  BY <1>3, <1>4, <1>5, <1>6, <1>7, <1>8 DEF WebInv

\* Where a refresh is under way, its tab is there.
LEMMA RefreshTab ==
  ASSUME Waits, NEW k \in Calls, refresh[k].phase # "none"
  PROVE  Tab(k) \in Tabs /\ refresh[k] # NoRefresh /\ pc[k] = "wait"
BY NoRefreshFacts DEF Waits, WaitInv, At

LEMMA ServeRefreshStep ==
  ASSUME WebInv, NEW k \in Calls, ServeRefresh(k)
  PROVE  WebInv'
<1>1. WebTypes /\ Waits /\ Does /\ TokenInv /\ PageInv /\ Ways
  BY DEF WebInv
<1>2. refresh[k].phase = "sent" /\ Tab(k) \in Tabs /\ refresh[k] # NoRefresh /\ pc[k] = "wait"
  BY <1>1, RefreshTab DEF ServeRefresh
<1>3. /\ WebTypes' /\ UNCHANGED <<expired, browser, promise, pc, call>>
      /\ \A q \in Calls \ {k} : refresh'[q] = refresh[q]
      /\ refresh'[k].presented = refresh[k].presented
  BY <1>1, <1>2, ServeRefreshDoes
<1>4. Waits' /\ Does'
  BY <1>1, <1>2, <1>3, ServeRefreshWaits DEF Does, EffectInv
<1>5. /\ \A q \in Calls \ {k} : Brings(q)' = Brings(q)
      /\ Brings(k) = Nothing
      /\ Brings(k)' = IF refresh'[k].phase = "granted"
                      THEN [session |-> refresh[k].presented.session, token |-> refresh'[k].token]
                      ELSE Nothing
      /\ \A q \in Calls : Tab(q)' = Tab(q)
  BY <1>2, <1>3 DEF Brings, At, Tab
<1>6. ASSUME TokenInv', Remember
      PROVE  PageInv'
  <2>1. \A q \in Calls : CallOK(q)'
    BY <1>1, <1>3, <1>6, PagesStay
  <2>2. \A c \in Tabs : PageOK(stored[c])' /\ PageOK(layout[c])'
    BY <1>1, <1>3, <1>6, PagesStay DEF browser
  <2> QED
    BY <2>1, <2>2 DEF PageInv, PageOK, CallOK
<1>7. CASE refresh'[k].phase = "refused" /\ UNCHANGED <<server, lost>>
  <2>1. TokenInv' /\ Remember
    BY <1>1, <1>7, ForgetNothing DEF TokenInv, server
  <2>2. Ways'
    <3>1. \A q \in Calls : Brings(q)' = Brings(q)
      BY <1>5, <1>7
    <3>2. CookieInv'
      <4>1. \A q \in Calls : refresh[q].phase = "granted" => refresh'[q] = refresh[q]
        BY <1>2, <1>3
      <4> QED
        BY <1>1, <1>3, <1>5, <1>7, <4>1
        DEF Ways, CookieInv, Own, Stale, server, browser
    <3>3. ASSUME NEW q \in Calls
          PROVE  WayInv(q)'
      <4>1. WayInv(q) /\ \A p \in Calls : refresh'[p].presented = refresh[p].presented
        BY <1>1, <1>3 DEF Ways
      <4> QED
        BY <1>3, <1>7, <3>1, <4>1 DEF WayInv, Own, server, browser
    <3>4. ASSUME NEW q \in Calls
          PROVE  SentInv(q)'
      <4>1. SentInv(q) /\ (refresh'[q].phase = "sent" => refresh'[q] = refresh[q])
        BY <1>1, <1>3, <1>7 DEF Ways
      <4> QED
        BY <1>5, <1>7, <4>1 DEF SentInv, Stale, server
    <3> QED
      BY <3>2, <3>3, <3>4 DEF Ways
  <2> QED
    BY <1>3, <1>4, <1>6, <2>1, <2>2 DEF WebInv
<1>8. ASSUME NEW t \in Tokens, NEW c \in Pairs,
             c = refresh[k].presented, c # Nothing, live[c.session] = c.token,
             t \notin Server!Issued,
             live' = [live EXCEPT ![c.session] = t],
             spent' = spent \cup {c.token},
             opened' = opened,
             issuedTo' = [issuedTo EXCEPT ![t] = c.session],
             spentBy' = [spentBy EXCEPT ![c.token] = Tab(k)],
             \/ /\ refresh'[k].phase = "granted" /\ refresh'[k].token = t
                /\ lost' = lost
             \/ refresh'[k].phase = "refused" /\ lost' = lost \cup {c.session}
      PROVE  WebInv'
  <2>1. c.session \in Sessions /\ c.token \in Tokens
    BY <1>8, PairFacts
  <2>2. TokenInv' /\ Remember
    BY <1>1, <1>8, <2>1, RotateTokens DEF Remember
  <2>3. \A q \in Calls \ {k} : refresh[q] # NoRefresh => Tab(q) # Tab(k)
    BY <1>1, <1>2, OneRefresh
  <2>4. \/ /\ refresh'[k].phase = "granted" /\ lost' = lost
           /\ Brings(k)' = [session |-> c.session, token |-> t]
        \/ Brings(k)' = Nothing /\ lost' = lost \cup {c.session}
    BY <1>5, <1>8
  <2>5. Ways'
    BY <1>1, <1>2, <1>3, <1>5, <1>8, <2>3, <2>4, RotateWays DEF browser
  <2> QED
    BY <1>3, <1>4, <1>6, <2>2, <2>5 DEF WebInv
<1> QED
  BY <1>1, <1>2, <1>7, <1>8, ServeRefreshDoes

LEMMA SettleStep ==
  ASSUME WebInv, NEW k \in Calls, RefreshSettles(k)
  PROVE  WebInv'
<1>1. WebTypes /\ Waits /\ Does /\ TokenInv /\ PageInv /\ Ways
  BY DEF WebInv
<1>2. Tab(k) \in Tabs /\ refresh[k] # NoRefresh /\ pc[k] = "wait"
      /\ refresh[k].phase \in {"granted", "refused"}
  BY <1>1, RefreshTab DEF RefreshSettles
<1>3. /\ WebTypes' /\ UNCHANGED <<server, layout, lost>>
      /\ cookie' = IF refresh[k].phase = "granted"
                   THEN [session |-> refresh[k].presented.session, token |-> refresh[k].token]
                   ELSE cookie
      /\ refresh' = [refresh EXCEPT ![k] = NoRefresh]
      /\ \A q \in Calls \ Waiting(k) : pc'[q] = pc[q] /\ call'[q] = call[q]
      /\ \/ /\ \A q \in Waiting(k) : Ended(q)
            /\ stored' = [stored EXCEPT ![Tab(k)] = Nothing]
         \/ /\ refresh[k].phase = "granted"
            /\ stored' = [stored EXCEPT ![Tab(k)] =
                 [session |-> stored[Tab(k)].session, token |-> refresh[k].token]]
            /\ \A q \in Waiting(k) :
                 /\ pc'[q] = "sent" /\ call'[q].tab = call[q].tab
                 /\ call'[q].kind = call[q].kind
                 /\ call'[q].captured = call[q].captured
                 /\ call'[q].access = refresh[k].token
                 /\ call'[q].effects = call[q].effects
  BY <1>1, <1>2, SettleDoes
<1>4. Waits'
  BY <1>1, <1>2, SettleWaits
<1>5. /\ refresh'[k] = NoRefresh /\ \A q \in Calls \ {k} : refresh'[q] = refresh[q]
      /\ \A q \in Waiting(k) : q \in Calls /\ pc[q] = "wait"
      /\ \A q \in Waiting(k) \ {k} : refresh[q] = NoRefresh
  BY <1>1, <1>3 DEF WebTypes, Waits, WaitInv, Waiting, At
<1>6. Does'
  <2> SUFFICES ASSUME NEW q \in Calls PROVE EffectInv(q)'
    BY DEF Does
  <2>1. EffectInv(q)
    BY <1>1 DEF Does
  <2>2. CASE q \notin Waiting(k)
    BY <2>1, <2>2, <1>3 DEF EffectInv
  <2>3. CASE q \in Waiting(k) /\ Ended(q)
    BY <2>3, NoCallFacts DEF EffectInv, Ended
  <2>4. CASE q \in Waiting(k) /\ pc'[q] = "sent" /\ call'[q].effects = call[q].effects
    BY <2>1, <2>4, <1>5 DEF EffectInv
  <2> QED
    BY <2>2, <2>3, <2>4, <1>3
<1>7. TokenInv' /\ Remember
  BY <1>1, <1>3, ForgetNothing DEF TokenInv, server
<1>8. refresh[k].phase = "granted" => Issued(refresh[k].token)
  <2>1. Brings(k) \in Pairs /\ Own(Brings(k))
    BY <1>1 DEF Ways, WayInv
  <2>2. refresh[k].phase = "granted" =>
          Brings(k) = [session |-> refresh[k].presented.session, token |-> refresh[k].token]
    BY <1>2 DEF Brings, At
  <2>3. refresh[k].phase = "granted" => refresh[k].token # None
    BY <1>1 DEF Waits, WaitInv
  <2>4. refresh[k].phase = "granted" => Brings(k) # Nothing /\ Brings(k).token = refresh[k].token
    BY <2>2, <2>3, PairFacts
  <2> QED
    BY <1>1, <2>1, <2>4, WayFacts
<1>9. PageInv'
  <2>1. ASSUME NEW q \in Calls
        PROVE  CallOK(q)'
    <3>1. CASE q \notin Waiting(k)
      BY <3>1, <1>1, <1>3, <1>7, PagesStay
    <3>2. CASE Ended(q)
      BY <3>2, <1>1, <1>7, PagesStay
    <3>3. CASE /\ refresh[k].phase = "granted" /\ q \in Waiting(k)
               /\ pc'[q] = "sent"
               /\ call'[q].kind = call[q].kind
               /\ call'[q].captured = call[q].captured
               /\ call'[q].access = refresh[k].token
      <4>1. CallOK(q) /\ pc[q] = "wait"
        <5>1. CallOK(q)
          BY <1>1, PageParts
        <5> QED
          BY <5>1, <3>3, <1>5
      <4>2. PageOK(call[q].captured)'
        BY <3>3, <1>1, <1>7, PagesStay
      <4>3. refresh[k].token # None
        BY <3>3, <1>8, PairFacts DEF Issued
      <4>4. issuedTo' = issuedTo
        BY <1>3 DEF server
      <4> QED
        BY <3>3, <1>8, <4>1, <4>2, <4>3, <4>4 DEF CallOK, At, Issued
    <3> QED
      BY <3>1, <3>2, <3>3, <1>3
  <2>2. ASSUME NEW c \in Tabs
        PROVE  PageOK(stored[c])' /\ PageOK(layout[c])'
    <3>0. stored \in [Tabs -> Pairs] /\ issuedTo' = issuedTo /\ layout' = layout
      BY <1>1, <1>3 DEF WebTypes, server
    <3>1. PageOK(stored[c]) /\ PageOK(layout[c])
      BY <1>1 DEF PageInv, PageOK
    <3>2. CASE c # Tab(k)
      BY <3>0, <3>1, <3>2, <1>2, <1>3 DEF PageOK, Issued
    <3>3. CASE c = Tab(k) /\ stored'[c] = Nothing
      BY <3>0, <3>1, <3>3 DEF PageOK, Issued
    <3>4. CASE /\ c = Tab(k) /\ refresh[k].phase = "granted"
               /\ stored'[c] = [session |-> stored[Tab(k)].session, token |-> refresh[k].token]
      <4>1. stored'[c].token = refresh[k].token
        BY <3>4
      <4> QED
        BY <3>0, <3>1, <3>4, <4>1, <1>8 DEF PageOK, Issued
    <3> QED
      BY <3>0, <3>2, <3>3, <3>4, <1>2, <1>3
  <2> QED
    BY <2>1, <2>2 DEF PageInv, PageOK, CallOK
<1>10. Ways'
  <2>1. Stay
    <3> SUFFICES ASSUME NEW q \in Calls, refresh'[q] # NoRefresh
                 PROVE  Tab(q)' = Tab(q)
      BY DEF Stay
    <3>1. q # k /\ q \notin Waiting(k)
      BY <1>5
    <3> QED
      BY <3>1, <1>3 DEF Tab
  <2>2. ASSUME NEW q \in Calls, q # k
        PROVE  Brings(q)' = Brings(q)
    <3>1. CASE q \notin Waiting(k)
      BY <2>2, <3>1, <1>3, <1>5 DEF Brings, At
    <3>2. CASE q \in Waiting(k)
      <4>1. pc[q] = "wait" /\ pc'[q] \in {"idle", "sent"}
            /\ refresh[q].phase = "none" /\ refresh'[q].phase = "none"
        BY <2>2, <3>2, <1>3, <1>5, NoRefreshFacts DEF Ended
      <4> QED
        BY <4>1 DEF Brings, At
    <3> QED
      BY <3>1, <3>2
  <2>3. Brings(k)' = Nothing
    <3>1. k \in Waiting(k)
      BY <1>1, <1>2 DEF Waits, WaitInv, Waiting
    <3>2. pc'[k] \in {"idle", "sent"} /\ refresh'[k].phase = "none"
      BY <3>1, <1>3, <1>5, NoRefreshFacts DEF Ended
    <3> QED
      BY <3>2 DEF Brings, At
  <2>4. CASE refresh[k].phase = "granted"
    <3>1. Brings(k) = cookie' /\ Brings(k).token = refresh[k].token
      BY <2>4, <1>2, <1>3 DEF Brings, At
    <3>2. refresh[k].token # None
      BY <2>4, <1>1 DEF Waits, WaitInv
    <3>3. Brings(k) # Nothing
      BY <3>1, <3>2, PairFacts
    <3> QED
      BY <3>1, <3>3, <1>1, <1>3, <1>5, <2>1, <2>2, <2>3, ArriveWays DEF server
  <2>5. CASE refresh[k].phase = "refused"
    <3>1. cookie' = cookie
      BY <2>5, <1>3
    <3>2. \A q \in Calls :
            \/ refresh'[q] = refresh[q] /\ Brings(q)' \in {Brings(q), Nothing}
            \/ /\ refresh'[q] = NoRefresh /\ Brings(q)' = Nothing
               /\ refresh[q].phase = "granted" => refresh[q].presented.session \in lost'
      BY <2>5, <1>5, <2>2, <2>3
    <3> QED
      BY <3>1, <3>2, <1>1, <1>3, <2>1, DropWays DEF server
  <2> QED
    BY <1>2, <2>4, <2>5
<1> QED
  BY <1>3, <1>4, <1>6, <1>7, <1>9, <1>10 DEF WebInv

LEMMA ExpireStep ==
  ASSUME WebInv, NEW t \in Tokens, Expire(t)
  PROVE  WebInv'
<1>1. WebTypes /\ Waits /\ Does /\ TokenInv /\ PageInv /\ Ways
  BY DEF WebInv
<1>2. /\ expired' \in SUBSET Tokens
      /\ UNCHANGED <<live, opened, spent, issuedTo, spentBy, lost, cookie, stored, layout>>
      /\ UNCHANGED <<promise, refresh, pc, call>>
  BY <1>1 DEF Expire, WebTypes, browser, calls
<1>3. WebTypes'
  BY <1>1, <1>2 DEF WebTypes
<1>4. Waits' /\ Does' /\ TokenInv' /\ PageInv'
  BY <1>1, <1>2 DEF Waits, WaitInv, PromiseInv, At, Tab, Does, EffectInv, TokenInv,
                    PageInv, Issued
<1>5. Ways'
  <2>1. Stay /\ \A q \in Calls : Brings(q)' = Brings(q)
    BY <1>2 DEF Stay, Tab, Brings, At
  <2> QED
    BY <1>1, <1>2, <2>1, QuietWays
<1> QED
  BY <1>3, <1>4, <1>5 DEF WebInv

LEMMA RevokeStep ==
  ASSUME WebInv, NEW s \in Sessions, Revoke(s)
  PROVE  WebInv'
<1>1. WebTypes /\ Waits /\ Does /\ TokenInv /\ PageInv /\ Ways
  BY DEF WebInv
<1>2. /\ EndSession(s)
      /\ UNCHANGED <<cookie, stored, layout, promise, refresh, pc, call>>
  BY DEF Revoke, browser, calls
<1>3. WebTypes'
  <2>1. /\ cookie' \in Pairs /\ stored' \in [Tabs -> Pairs] /\ layout' \in [Tabs -> Pairs]
        /\ promise' = promise /\ refresh' = refresh
        /\ pc' \in [Calls -> Places] /\ call' \in [Calls -> PageCall]
    BY <1>1, <1>2 DEF WebTypes
  <2> QED
    BY <1>1, <1>2, <2>1, EndTypes
<1>4. Waits' /\ Does'
  BY <1>1, <1>2 DEF Waits, WaitInv, PromiseInv, At, Tab, Does, EffectInv
<1>5. TokenInv' /\ issuedTo' = issuedTo
  BY <1>1, <1>2, EndTokens, EndDoes
<1>6. PageInv'
  BY <1>1, <1>2, <1>5 DEF PageInv, Issued, At
<1>7. Ways'
  <2>1. Stay /\ \A q \in Calls : Brings(q)' = Brings(q)
    BY <1>2 DEF Stay, Tab, Brings, At
  <2> QED
    BY <1>1, <1>2, <2>1, EndWays
<1> QED
  BY <1>3, <1>4, <1>5, <1>6, <1>7 DEF WebInv

LEMMA ReloadStep ==
  ASSUME WebInv, NEW b \in Tabs, Reload(b)
  PROVE  WebInv'
<1>1. WebTypes /\ Waits /\ Does /\ TokenInv /\ PageInv /\ Ways
  BY DEF WebInv
<1>2. /\ WebTypes' /\ UNCHANGED <<server, cookie, stored>>
      /\ \A k \in Mine(b) : Ended(k) /\ refresh'[k] = NoRefresh
      /\ \A k \in Calls \ Mine(b) :
           pc'[k] = pc[k] /\ call'[k] = call[k] /\ refresh'[k] = refresh[k]
      /\ layout' = [layout EXCEPT ![b] = stored[b]]
      /\ lost \subseteq lost'
      /\ \A k \in Mine(b) : refresh[k].phase = "granted" => refresh[k].presented.session \in lost'
  BY <1>1, ReloadDoes
<1>3. Waits'
  BY <1>1, ReloadWaits
<1>4. Does'
  BY <1>1, <1>2, NoCallFacts DEF Does, EffectInv, Ended
<1>5. TokenInv' /\ Remember
  BY <1>1, <1>2, ForgetNothing DEF TokenInv, server
<1>6. PageInv'
  <2>1. \A q \in Calls : CallOK(q)'
    BY <1>1, <1>2, <1>5, PagesStay
  <2>2. ASSUME NEW c \in Tabs
        PROVE  PageOK(stored[c])' /\ PageOK(layout[c])'
    <3>1. PageOK(stored[b]) /\ PageOK(stored[c]) /\ PageOK(layout[c]) /\ issuedTo' = issuedTo
      BY <1>1, <1>2 DEF PageInv, PageOK, server
    <3>2. layout'[c] \in {layout[c], stored[b]} /\ stored' = stored
      BY <1>1, <1>2 DEF WebTypes
    <3> QED
      BY <3>1, <3>2 DEF PageOK, Issued
  <2> QED
    BY <2>1, <2>2 DEF PageInv, PageOK, CallOK
<1>7. Ways'
  <2>1. Stay
    BY <1>2 DEF Stay, Tab
  <2>2. ASSUME NEW q \in Calls
        PROVE  \/ refresh'[q] = refresh[q] /\ Brings(q)' \in {Brings(q), Nothing}
               \/ /\ refresh'[q] = NoRefresh /\ Brings(q)' = Nothing
                  /\ refresh[q].phase = "granted" => refresh[q].presented.session \in lost'
    <3>1. CASE q \in Mine(b)
      BY <3>1, <1>2, NoRefreshFacts DEF Brings, At, Ended
    <3>2. CASE q \notin Mine(b)
      BY <3>2, <1>2 DEF Brings, At
    <3> QED
      BY <3>1, <3>2
  <2> QED
    BY <1>1, <1>2, <2>1, <2>2, DropWays DEF server
<1> QED
  BY <1>2, <1>3, <1>4, <1>5, <1>6, <1>7 DEF WebInv

LEMMA WebStart == WebInit => WebInv
<1> SUFFICES ASSUME WebInit PROVE WebInv
  OBVIOUS
<1>1. /\ live = [s \in Sessions |-> None] /\ opened = {} /\ spent = {}
      /\ issuedTo = [t \in Tokens |-> None] /\ expired = {}
      /\ cookie = Nothing
      /\ stored = [b \in Tabs |-> Nothing] /\ layout = [b \in Tabs |-> Nothing]
      /\ promise = [b \in Tabs |-> None]
      /\ refresh = [k \in Calls |-> NoRefresh]
      /\ pc = [k \in Calls |-> "idle"] /\ call = [k \in Calls |-> NoCall]
      /\ spentBy = [t \in Tokens |-> None] /\ lost = {}
  BY DEF WebInit, Server!Init
<1>2. WebTypes
  BY <1>1, PairFacts, NoRefreshFacts, NoCallFacts DEF WebTypes, Places, Refreshes
<1>3. \A k \in Calls : pc[k] = "idle" /\ call[k] = NoCall /\ refresh[k] = NoRefresh
  BY <1>1
<1>4. Waits
  <2>1. \A b \in Tabs : PromiseInv(b)
    BY <1>1 DEF PromiseInv
  <2>2. \A k \in Calls : WaitInv(k)
    BY <1>3, NoRefreshFacts DEF WaitInv, At
  <2> QED
    BY <2>1, <2>2 DEF Waits
<1>5. Does
  BY <1>3, NoCallFacts DEF Does, EffectInv
<1>6. TokenInv
  BY <1>1 DEF TokenInv
<1>7. PageInv
  BY <1>1, <1>3, NoCallFacts DEF PageInv, At
<1>8. Ways
  <2>1. CookieInv
    BY <1>1 DEF CookieInv, Own, Stale
  <2>2. ASSUME NEW k \in Calls
        PROVE  WayInv(k) /\ SentInv(k)
    <3>1. Brings(k) = Nothing
      BY <1>3, NoRefreshFacts DEF Brings, At
    <3> QED
      BY <1>3, <3>1, NoRefreshFacts, PairFacts DEF WayInv, SentInv, Own
  <2> QED
    BY <2>1, <2>2 DEF Ways
<1> QED
  BY <1>2, <1>4, <1>5, <1>6, <1>7, <1>8 DEF WebInv

LEMMA WebStep == WebInv /\ [WebNext]_webVars => WebInv'
<1> SUFFICES ASSUME WebInv, [WebNext]_webVars PROVE WebInv'
  OBVIOUS
<1>1. CASE UNCHANGED webVars
  BY <1>1 DEF WebInv, WebTypes, Waits, WaitInv, PromiseInv, Does, EffectInv, TokenInv,
              PageInv, Issued, Ways, CookieInv, WayInv, SentInv, Stale, Own, Brings, At, Tab,
              webVars, server, browser, calls
<1>2. ASSUME NEW k \in Calls, NEW b \in Tabs,
             LogIn(k, b) \/ Load(k, b) \/ Switch(k, b) \/ LogOut(k, b)
      PROVE  WebInv'
  <2>1. /\ stored[b] \in Pairs /\ layout[b] \in Pairs /\ Nothing \in Pairs
        /\ PageOK(stored[b]) /\ PageOK(layout[b]) /\ PageOK(Nothing)
    BY PairFacts, PageParts DEF WebInv, WebTypes, PageOK
  <2>2. {"login", "load", "switch", "logout"} \subseteq Kinds
    BY DEF Kinds
  <2>3. CASE LogIn(k, b)
    BY <2>1, <2>2, <2>3, BeginStep DEF LogIn
  <2>4. CASE Load(k, b)
    BY <2>1, <2>2, <2>4, BeginStep DEF Load
  <2>5. CASE Switch(k, b)
    BY <2>1, <2>2, <2>5, BeginStep DEF Switch
  <2>6. CASE LogOut(k, b)
    BY <2>1, <2>2, <2>6, BeginStep DEF LogOut
  <2> QED
    BY <1>2, <2>3, <2>4, <2>5, <2>6
<1>3. ASSUME NEW k \in Calls,
             \/ ServeLogin(k) \/ Serve(k) \/ Receive(k) \/ Throw(k)
             \/ AwaitRefresh(k) \/ ServeRefresh(k) \/ RefreshSettles(k)
      PROVE  WebInv'
  BY <1>3, LoginStep, ServeStep, ReceiveStep, ThrowStep, AwaitStep, ServeRefreshStep, SettleStep
<1> QED
  BY <1>1, <1>2, <1>3, ExpireStep, RevokeStep, ReloadStep DEF WebNext

\* Every state of the browser and the server satisfies the inductive invariant:
\* the types, who waits for which refresh, what was done, and where the
\* successor of a used token is.
THEOREM WebInvariance == WebSpec => []WebInv
<1> QED
  BY WebStart, WebStep, PTL DEF WebSpec

\* Nobody waits for a refresh that is not under way in the same tab, however
\* calls of apiFetch share refreshPromise and reloads drop it.
THEOREM WaitingEnds == WebSpec => []NobodyWaitsInVain
<1>1. WebInv => NobodyWaitsInVain
  BY DEF WebInv, Waits, WaitInv, PromiseInv, NobodyWaitsInVain, At
<1> QED
  BY <1>1, WebInvariance, PTL

\* What a page asks of the server is done once at most, though apiFetch sends a
\* refused call again after a refresh.
THEOREM DoneOnce == WebSpec => []AtMostOneEffect
<1>1. WebInv => AtMostOneEffect
  BY DEF WebInv, Does, EffectInv, AtMostOneEffect
<1> QED
  BY <1>1, WebInvariance, PTL

\* A tab does not present a token it has used itself while the session is open,
\* unless the answer to that refresh was lost.
THEOREM OwnTokenOnce == WebSpec => []NoSelfRefusal
<1>1. WebInv => NoSelfRefusal
  BY DEF WebInv, Ways, SentInv, Stale, NoSelfRefusal
<1> QED
  BY <1>1, WebInvariance, PTL

\* Only a step of a login, or of a page that switches the organization, stores
\* a session in a tab that has none.
LEMMA StoresStep ==
  ASSUME WebInv, WebNext, NEW b \in Tabs, stored[b] = Nothing, stored'[b] # Nothing
  PROVE  \E k \in Calls : Tab(k) = b /\ At(k, "ok") /\ call[k].kind \in {"login", "switch"}
<1>1. WebTypes /\ Waits
  BY DEF WebInv
<1>2. stored \in [Tabs -> Pairs]
  BY <1>1 DEF WebTypes
<1>3. stored' # stored
  OBVIOUS
<1>4. ASSUME NEW k \in Calls, Receive(k)
      PROVE  Tab(k) = b /\ At(k, "ok") /\ call[k].kind \in {"login", "switch"}
  <2>1. pc[k] = "ok" /\ Tab(k) \in Tabs
    BY <1>1, <1>4, TabOf DEF Receive, At
  <2>2. /\ stored'[b] \in {stored[b], call[k].captured, Nothing}
        /\ stored'[b] = call[k].captured =>
             \/ stored'[b] = stored[b]
             \/ b = Tab(k) /\ call[k].kind \in {"login", "switch"}
             \/ stored'[b] = Nothing
    BY <1>1, <1>4, <2>1, ReceiveDoes
  <2> QED
    BY <2>1, <2>2 DEF At
<1>5. ASSUME NEW k \in Calls, Throw(k)
      PROVE  FALSE
  BY <1>1, <1>5, ThrowDoes
<1>6. ASSUME NEW k \in Calls, RefreshSettles(k)
      PROVE  FALSE
  <2>1. refresh[k].phase # "none" /\ Tab(k) \in Tabs
    BY <1>1, <1>6, RefreshTab DEF RefreshSettles
  <2>2. \/ stored' = [stored EXCEPT ![Tab(k)] = Nothing]
        \/ /\ stored[Tab(k)] # Nothing
           /\ stored' = [stored EXCEPT ![Tab(k)] =
                [session |-> stored[Tab(k)].session, token |-> refresh[k].token]]
    BY <1>1, <1>6, <2>1, SettleDoes
  <2> QED
    BY <1>2, <2>1, <2>2
<1>7. ASSUME NEW k \in Calls, NEW c \in Tabs,
             LogIn(k, c) \/ Load(k, c) \/ Switch(k, c) \/ LogOut(k, c)
      PROVE  FALSE
  BY <1>3, <1>7 DEF LogIn, Load, Switch, LogOut, Begin, browser
<1>8. ASSUME NEW k \in Calls,
             ServeLogin(k) \/ Serve(k) \/ AwaitRefresh(k) \/ ServeRefresh(k)
      PROVE  FALSE
  BY <1>3, <1>8 DEF ServeLogin, Serve, AwaitRefresh, ServeRefresh, browser
<1> QED
  BY <1>3, <1>4, <1>5, <1>6, <1>7, <1>8 DEF WebNext, Expire, Revoke, Reload, browser

\* A tab that has signed out stays signed out until it logs in, or until a page
\* writes back the session it captured before: an answered refresh does not.
THEOREM StaysOut == WebSpec => SignedOutStaysOut
<1>1. WebInv /\ [WebNext]_webVars =>
        [\A b \in Tabs : stored[b] = Nothing /\ stored'[b] # Nothing =>
           \E k \in Calls : Tab(k) = b /\ At(k, "ok")
                            /\ call[k].kind \in {"login", "switch"}]_webVars
  BY StoresStep
<1> QED
  BY <1>1, WebInvariance, PTL DEF WebSpec, SignedOutStaysOut
=============================================================================
