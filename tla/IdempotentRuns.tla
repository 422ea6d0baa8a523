--------------------------- MODULE IdempotentRuns ----------------------------
(***************************************************************************)
(* What the assistant promises its callers, without saying how: a key      *)
(* stands for at most one run at a time, a run works only until it has     *)
(* ended, its end is final, and all that is left after forgetting is that  *)
(* a run still under way may finish what it is doing.  AgentRuns is shown  *)
(* to implement this.                                                      *)
(***************************************************************************)
EXTENDS Integers

CONSTANTS Runs, Keys, None

VARIABLES status,  \* where each run stands
          key,     \* the key it stands for
          work     \* how often each run has acted on the outside

promised == <<status, key, work>>

Ends == {"SUCCEEDED", "FAILED"}

Live(n) == status[n] \in {"RUNNING"} \cup Ends

Init ==
  /\ status = [n \in Runs |-> "ABSENT"]
  /\ key = [n \in Runs |-> None]
  /\ work = [n \in Runs |-> 0]

Begin(n, k) ==
  /\ status[n] = "ABSENT"
  /\ \A m \in Runs : Live(m) => key[m] # k
  /\ status' = [status EXCEPT ![n] = "RUNNING"]
  /\ key' = [key EXCEPT ![n] = k]
  /\ UNCHANGED work

Work(n) ==
  /\ status[n] \in {"RUNNING", "DELETED"}
  /\ work' = [work EXCEPT ![n] = @ + 1]
  /\ UNCHANGED <<status, key>>

End(n, end) ==
  /\ status[n] = "RUNNING"
  /\ status' = [status EXCEPT ![n] = end]
  /\ UNCHANGED <<key, work>>

\* Everything the user has said is gone at once.
Forget ==
  /\ status' = [n \in Runs |-> IF Live(n) THEN "DELETED" ELSE status[n]]
  /\ UNCHANGED <<key, work>>

Next ==
  \/ \E n \in Runs :
       \/ \E k \in Keys : Begin(n, k)
       \/ Work(n)
       \/ \E end \in Ends : End(n, end)
  \/ Forget

Spec == Init /\ [][Next]_promised
=============================================================================
