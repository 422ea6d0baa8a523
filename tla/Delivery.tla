------------------------------ MODULE Delivery ------------------------------
(***************************************************************************)
(* What the outbox promises of each event it has taken: it is tried by one *)
(* worker at a time, each attempt tells the assignee at most once by mail  *)
(* and never before the notification is there, a failed attempt is not     *)
(* repeated at once nor later than in an hour, and what is delivered has   *)
(* been told and is never touched again.  A notification stays read.       *)
(* Outbox is shown to implement it.                                        *)
(***************************************************************************)
EXTENDS Integers

CONSTANTS Events, MailEnabled

VARIABLES now,
          status,    \* where each event stands
          attempts,  \* how often it has been tried
          notBefore, \* when it may be tried
          noticed,   \* events with a notification
          read,      \* those whose notification was read
          mails      \* mails sent for each event

promised == <<now, status, attempts, notBefore, noticed, read, mails>>

Init ==
  /\ now = 0
  /\ status = [e \in Events |-> "ABSENT"]
  /\ attempts = [e \in Events |-> 0]
  /\ notBefore = [e \in Events |-> 0]
  /\ noticed = {}
  /\ read = {}
  /\ mails = [e \in Events |-> 0]

Pass ==
  /\ now' > now
  /\ UNCHANGED <<status, attempts, notBefore, noticed, read, mails>>

Accept(e) ==
  /\ status[e] = "ABSENT"
  /\ status' = [status EXCEPT ![e] = "PENDING"]
  /\ notBefore' = [notBefore EXCEPT ![e] = now]
  /\ UNCHANGED <<now, attempts, noticed, read, mails>>

Try(e) ==
  /\ status[e] \in {"PENDING", "FAILED"}
  /\ notBefore[e] <= now
  /\ status' = [status EXCEPT ![e] = "PROCESSING"]
  /\ attempts' = [attempts EXCEPT ![e] = @ + 1]
  /\ UNCHANGED <<now, notBefore, noticed, read, mails>>

Notice(e) ==
  /\ status[e] = "PROCESSING"
  /\ noticed' = noticed \cup {e}
  /\ UNCHANGED <<now, status, attempts, notBefore, read, mails>>

Mail(e) ==
  /\ status[e] = "PROCESSING"
  /\ e \in noticed
  /\ mails[e] < attempts[e]
  /\ mails' = [mails EXCEPT ![e] = @ + 1]
  /\ UNCHANGED <<now, status, attempts, notBefore, noticed, read>>

Read(e) ==
  /\ e \in noticed
  /\ read' = read \cup {e}
  /\ UNCHANGED <<now, status, attempts, notBefore, noticed, mails>>

Succeed(e) ==
  /\ status[e] = "PROCESSING"
  /\ e \in noticed /\ (MailEnabled => mails[e] > 0)
  /\ status' = [status EXCEPT ![e] = "DELIVERED"]
  /\ UNCHANGED <<now, attempts, notBefore, noticed, read, mails>>

GiveUp(e) ==
  /\ status[e] = "PROCESSING"
  /\ status' = [status EXCEPT ![e] = "FAILED"]
  /\ \E minutes \in 1..60 : notBefore' = [notBefore EXCEPT ![e] = now + minutes]
  /\ UNCHANGED <<now, attempts, noticed, read, mails>>

Next ==
  \/ Pass
  \/ \E e \in Events :
       \/ Accept(e) \/ Try(e) \/ Notice(e) \/ Read(e)
       \/ Mail(e) \/ Succeed(e) \/ GiveUp(e)

Spec == Init /\ [][Next]_promised
=============================================================================
