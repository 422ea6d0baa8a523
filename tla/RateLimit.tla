----------------------------- MODULE RateLimit ------------------------------
(***************************************************************************)
(* The request limits of rate-limit.store.ts and its two guards.  Every    *)
(* API instance counts a try on a key in Redis, which all instances share, *)
(* or, while Redis is not ready or a command fails, in its own memory.     *)
(* The two stores keep their windows differently: Redis sets the key's     *)
(* expiry anew at every increment, memory once per window.  An agent       *)
(* request is counted for its user and then for its organization, an       *)
(* authentication request for its address.                                 *)
(***************************************************************************)
EXTENDS Integers, Sequences, FiniteSets

CONSTANTS Instances,  \* API processes
          Users,      \* users of one organization, and their "agent:user" keys
          Org,        \* the "agent:organization" key
          Addresses,  \* "auth" keys: an address and a path
          Redis,
          UserLimit, OrgLimit, AuthLimit,
          Window,     \* windowMs
          MaxClock,   \* bound of the model's clock
          MaxTries    \* bound of the tries that are counted

ASSUME LimitAssumption ==
  /\ Redis \notin Instances
  /\ Org \notin Users \cup Addresses
  /\ {UserLimit, OrgLimit, AuthLimit} \subseteq Nat
  /\ Window \in Nat \ {0}
  /\ MaxClock \in Nat
  /\ MaxTries \in Nat

LimitKeys == Users \cup {Org} \cup Addresses
Stores == Instances \cup {Redis}
Times == 0..MaxClock

VARIABLES clock,
          bucket,  \* of each store and key: its count and when that is forgotten
          asking,  \* agent requests of each instance between their increments
          log      \* ghost: the tries, in any store, and whether it let them pass

limitVars == <<clock, bucket, asking, log>>

Limit(k) ==
  IF k = Org THEN OrgLimit ELSE IF k \in Users THEN UserLimit ELSE AuthLimit

Live(s, k) == bucket[s][k].resetAt > clock

\* Tries are known by their place in the log.
Tries(k) == {n \in DOMAIN log : log[n].key = k}
Admitted(s, k) == {n \in Tries(k) : log[n].store = s /\ log[n].admitted}

\* How many of them happened within the window that begins at t.
InWindow(N, t) == Cardinality({n \in N : t <= log[n].time /\ log[n].time < t + Window})

LimitInit ==
  /\ clock = 0
  /\ bucket = [s \in Stores |-> [k \in LimitKeys |-> [count |-> 0, resetAt |-> 0]]]
  /\ asking = [i \in Instances |-> 0]
  /\ log = <<>>

-----------------------------------------------------------------------------
(* The stores                                                              *)

\* (variant of RedisIncrement) the expiry is set with the first try only
RedisIncrementFixed(k) ==
  IF Live(Redis, k)
  THEN [bucket[Redis][k] EXCEPT !.count = @ + 1]
  ELSE [count |-> 1, resetAt |-> clock + Window]

\* (variant of RedisIncrement) the count outlives its expiry
RedisIncrementForever(k) ==
  [count |-> bucket[Redis][k].count + 1, resetAt |-> clock + Window]

\* INCR and PEXPIRE, in one MULTI.
RedisIncrement(k) ==
  [count |-> IF Live(Redis, k) THEN bucket[Redis][k].count + 1 ELSE 1,
   resetAt |-> clock + Window]

\* (variant of MemoryIncrement) every try starts the window anew
MemoryIncrementSliding(i, k) ==
  [count |-> IF Live(i, k) THEN bucket[i][k].count + 1 ELSE 1,
   resetAt |-> clock + Window]

MemoryIncrement(i, k) ==
  IF Live(i, k)
  THEN [bucket[i][k] EXCEPT !.count = @ + 1]
  ELSE [count |-> 1, resetAt |-> clock + Window]

\* The answer a guard compares with its limit.
Admits(s, k) == bucket'[s][k].count <= Limit(k)

\* The store s answers: Redis, or the memory of the instance.  A command that
\* failed may have been executed all the same.
Increment(i, k, s) ==
  /\ Len(log) < MaxTries
  /\ \/ /\ s = Redis
        /\ bucket' = [bucket EXCEPT ![Redis][k] = RedisIncrement(k)]
     \/ /\ s = i
        /\ \E counted \in {bucket[Redis][k], RedisIncrement(k)} :
             bucket' = [bucket EXCEPT ![i][k] = MemoryIncrement(i, k),
                                      ![Redis][k] = counted]
  /\ log' = Append(log, [key |-> k, store |-> s, time |-> clock, admitted |-> Admits(s, k)])
  /\ UNCHANGED clock

-----------------------------------------------------------------------------
(* The guards                                                              *)

\* login, register and the other routes behind AuthRateLimitGuard
Authenticate(i, a) ==
  /\ \E s \in {Redis, i} : Increment(i, a, s)
  /\ UNCHANGED asking

\* enforce, up to its first answer: a refused user costs the organization
\* nothing.
AskAgent(i, u) ==
  \E s \in {Redis, i} :
    /\ Increment(i, u, s)
    /\ asking' = IF Admits(s, u) THEN [asking EXCEPT ![i] = @ + 1] ELSE asking

AskOrganization(i) ==
  /\ asking[i] > 0
  /\ \E s \in {Redis, i} : Increment(i, Org, s)
  /\ asking' = [asking EXCEPT ![i] = @ - 1]

Tick ==
  /\ clock < MaxClock
  /\ clock' = clock + 1
  /\ UNCHANGED <<bucket, asking, log>>

LimitNext ==
  \/ Tick
  \/ \E i \in Instances :
       \/ \E a \in Addresses : Authenticate(i, a)
       \/ \E u \in Users : AskAgent(i, u)
       \/ AskOrganization(i)

LimitSpec == LimitInit /\ [][LimitNext]_limitVars
-----------------------------------------------------------------------------
(* Properties                                                              *)

(* However requests, instances and failing commands interleave, Redis      *)
(* admits no more than the limit in any window, and the memory of an       *)
(* instance no more than twice the limit, at the seam of two windows.      *)
AdmittedWithinLimit ==
  \A k \in LimitKeys, t \in Times :
    /\ InWindow(Admitted(Redis, k), t) <= Limit(k)
    /\ \A i \in Instances : InWindow(Admitted(i, k), t) <= 2 * Limit(k)

\* The next try on the key would be refused.
Refuses(s, k) == Live(s, k) /\ bucket[s][k].count >= Limit(k)

\* With that try, there are more tries than the limit in the last window.
RefusesAboveLimit(s, k) ==
  Refuses(s, k) => InWindow(Tries(k), clock - Window + 1) >= Limit(k)

\* Since some moment at least the limit of tries, and never a whole window
\* without one.
RefusesUnpaused(k) ==
  Refuses(Redis, k) => \E t \in 0..clock :
    /\ Cardinality({n \in Tries(k) : t <= log[n].time}) >= Limit(k)
    /\ \A u \in t..clock : \E n \in Tries(k) : u - Window < log[n].time /\ log[n].time <= u

(* Nobody is refused without having earned it.  Memory refuses who tries   *)
(* more often than the limit within the last window.  Redis, where every   *)
(* try, refused or not, lengthens the wait, refuses who has used up the    *)
(* limit and since then not paused for one whole window: a pause of one    *)
(* window is always enough, however commands fail and instances take turns.*)
RefusalsAreEarned ==
  \A k \in LimitKeys : /\ RefusesUnpaused(k)
                       /\ \A i \in Instances : RefusesAboveLimit(i, k)
=============================================================================
