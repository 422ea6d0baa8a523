--------------------------- MODULE SessionsProofs ---------------------------
(***************************************************************************)
(* Safety of Sessions for every set of users, sessions, tokens and         *)
(* requests and every pair of lifetimes.                                   *)
(***************************************************************************)
EXTENDS Sessions, TLAPS

-----------------------------------------------------------------------------
(* The inductive invariant.                                                *)

\* Every live token belongs to the ACTIVE session that names it, and back.
ChainInv ==
  /\ \A t \in Tokens : token[t].status # "ABSENT" =>
       /\ token[t].session \in Sessions
       /\ session[token[t].session].status # "ABSENT"
  /\ \A t \in Tokens : token[t].status = "ACTIVE" =>
       /\ session[token[t].session].status = "ACTIVE"
       /\ session[token[t].session].refreshTokenHash = t
  /\ \A s \in Sessions : session[s].status = "ACTIVE" =>
       /\ session[s].owner \in Users
       /\ session[s].refreshTokenHash \in Tokens
       /\ token[session[s].refreshTokenHash].status = "ACTIVE"
       /\ token[session[s].refreshTokenHash].session = s

\* No row is locked twice, and a locked session or token is ACTIVE.
LockInv ==
  /\ \A p, q \in Requests : p # q => held[p] \cap held[q] = {}
  /\ \A r \in Requests, s \in Sessions : s \in held[r] => session[s].status = "ACTIVE"
  /\ \A r \in Requests, t \in Tokens : t \in held[r] => token[t].status = "ACTIVE"

Refreshing == {"readSession", "readToken", "consume", "rotate"}

\* What a refresh knows of the rows it works on.
RefreshInv(r) ==
  /\ pc[r] \in Refreshing =>
       /\ call[r].session \in Sessions
       /\ call[r].token \in Tokens
       /\ session[call[r].session].status # "ABSENT"
       /\ token[call[r].token].status # "ABSENT"
  /\ pc[r] \in Refreshing \ {"rotate"} => held[r] = {}
  /\ pc[r] \in {"consume", "rotate"} => token[call[r].token].session = call[r].session
  /\ pc[r] = "rotate" => held[r] = {call[r].token}

\* What a revocation has done so far: it holds the sessions it has passed,
\* and no live token of a target escapes it.
RevokeInv(r) ==
  /\ pc[r] \in {"sessions", "tokens"} =>
       /\ held[r] \cap Sessions \subseteq call[r].targets
       /\ \A s \in call[r].targets : session[s].status # "ABSENT"
  /\ pc[r] = "sessions" =>
       /\ todo[r] \subseteq call[r].targets
       /\ \A t \in Tokens : t \notin held[r]
       /\ \A s \in call[r].targets \ todo[r] : session[s].status = "ACTIVE" => s \in held[r]
  /\ pc[r] = "tokens" =>
       /\ todo[r] \subseteq Tokens
       /\ \A t \in Tokens \cap (held[r] \cup todo[r]) :
            token[t].status # "ABSENT" /\ token[t].session \in call[r].targets
       /\ \A s \in call[r].targets : session[s].status = "ACTIVE" => s \in held[r]
       /\ \A t \in Tokens : token[t].status = "ACTIVE" /\ token[t].session \in call[r].targets
            => t \in held[r] \cup todo[r]

\* The other labels hold no session and no token.
IdleInv(r) ==
  /\ pc[r] \in {"idle", "login", "userRow"} => held[r] = {}
  /\ pc[r] = "find" => held[r] \subseteq Users
  /\ pc[r] \in {"login", "userRow", "find"} => call[r].user \in Users

\* Lifetimes: capped by the absolute one, and never beyond what the clock
\* readings of the requests in flight allow.
TimeInv ==
  /\ \A s \in Sessions : session[s].expiresAt <= session[s].absoluteExpiresAt
  /\ \A s \in Sessions : session[s].expiresAt <= clock + Sliding
  /\ \A r \in Requests : pc[r] \in Refreshing =>
       /\ call[r].at <= clock
       /\ token[call[r].token].status = "ACTIVE" =>
            session[token[call[r].token].session].expiresAt <= call[r].at + Sliding

IInv ==
  /\ TypeOK
  /\ ChainInv
  /\ LockInv
  /\ \A r \in Requests : RefreshInv(r) /\ RevokeInv(r) /\ IdleInv(r)
  /\ TimeInv

-----------------------------------------------------------------------------
(* Every step preserves it, action by action.                              *)

\* A refresh that gives up on its session starts a revocation of it alone,
\* while it holds no row.
LEMMA RevokeAndThrowStep ==
  ASSUME IInv, NEW r \in Requests, NEW plan \in {"INACTIVE", "REUSE"},
         pc[r] \in {"readSession", "readToken", "consume"}, RevokeAndThrow(r, plan)
  PROVE  IInv'
<1> USE RowsAssumption, TimeAssumption DEF IInv, RevokeAndThrow, Goto, rows
<1> DEFINE c == [call[r] EXCEPT !.targets = {call[r].session}, !.plan = plan]
<1>1. TypeOK'
  <2>0. call[r] \in Call /\ call[r].session \in Sessions
    BY DEF TypeOK, RefreshInv, Refreshing
  <2>1. c \in Call
    BY <2>0 DEF Call
  <2>2. call' = [call EXCEPT ![r] = c]
    BY DEF TypeOK, Call
  <2>3. call' \in [Requests -> Call]
    BY <2>1, <2>2 DEF TypeOK
  <2>4. todo' \in [Requests -> SUBSET (Sessions \cup Tokens)]
    BY DEF TypeOK, RefreshInv, Refreshing
  <2> QED
    BY <2>3, <2>4 DEF TypeOK, Labels
<1>2. ChainInv'
  BY DEF ChainInv
<1>3. LockInv'
  BY DEF LockInv
<1>4. ASSUME NEW q \in Requests PROVE RefreshInv(q)'
  BY DEF TypeOK, RefreshInv, Refreshing, Call
<1>5. ASSUME NEW q \in Requests PROVE RevokeInv(q)'
  BY DEF TypeOK, RevokeInv, RefreshInv, Refreshing, Call
<1>6. ASSUME NEW q \in Requests PROVE IdleInv(q)'
  BY DEF TypeOK, IdleInv, Call
<1>7. TimeInv'
  BY DEF TypeOK, TimeInv, Refreshing, Call
<1> QED
  BY <1>1, <1>2, <1>3, <1>4, <1>5, <1>6, <1>7

\* The reads of refresh only move the request along.
LEMMA GotoStep ==
  ASSUME IInv, NEW r \in Requests, NEW label \in {"readToken", "consume"},
         pc[r] \in {"readSession", "readToken"}, Goto(r, label),
         label = "consume" => token[call[r].token].session = call[r].session,
         UNCHANGED <<clock, rows, call, todo, held>>
  PROVE  IInv'
<1> USE DEF IInv, Goto, rows
<1>1. TypeOK'
  BY DEF TypeOK, Labels
<1>2. ChainInv'
  BY DEF ChainInv
<1>3. LockInv'
  BY DEF LockInv
<1>4. ASSUME NEW q \in Requests PROVE RefreshInv(q)'
  BY DEF TypeOK, RefreshInv, Refreshing
<1>5. ASSUME NEW q \in Requests PROVE RevokeInv(q)'
  BY DEF TypeOK, RevokeInv
<1>6. ASSUME NEW q \in Requests PROVE IdleInv(q)'
  BY DEF TypeOK, IdleInv
<1>7. TimeInv'
  BY DEF TypeOK, TimeInv, Refreshing
<1> QED
  BY <1>1, <1>2, <1>3, <1>4, <1>5, <1>6, <1>7

\* A request that ends without writing gives back its locks.
LEMMA AbortStep ==
  ASSUME IInv, NEW r \in Requests,
         pc[r] # "idle", UNCHANGED rows, Finish(r)
  PROVE  IInv'
<1> USE RowsAssumption DEF IInv, Finish, Goto, rows
<1>1. TypeOK'
  BY DEF TypeOK, Call, NoCall, Labels
<1>2. ChainInv'
  BY DEF ChainInv
<1>3. LockInv'
  BY DEF TypeOK, LockInv
<1>4. ASSUME NEW q \in Requests PROVE RefreshInv(q)'
  BY DEF TypeOK, RefreshInv, Refreshing
<1>5. ASSUME NEW q \in Requests PROVE RevokeInv(q)'
  BY DEF TypeOK, RevokeInv
<1>6. ASSUME NEW q \in Requests PROVE IdleInv(q)'
  BY DEF TypeOK, IdleInv
<1>7. TimeInv'
  BY DEF TypeOK, TimeInv, Refreshing
<1> QED
  BY <1>1, <1>2, <1>3, <1>4, <1>5, <1>6, <1>7

\* The three reads and the locking of refresh, by the lemmas above.
LEMMA ReadSessionStep ==
  ASSUME IInv, NEW r \in Requests, ReadSession(r)
  PROVE  IInv'
BY AbortStep, RevokeAndThrowStep, GotoStep DEF ReadSession

\* The token read by hash belongs to the session the cookie names.
LEMMA ReadTokenStep ==
  ASSUME IInv, NEW r \in Requests, ReadToken(r)
  PROVE  IInv'
BY AbortStep, RevokeAndThrowStep, GotoStep DEF ReadToken

\* The loser of a consume revokes; the winner locks a token that is ACTIVE.
LEMMA ConsumeStep ==
  ASSUME IInv, NEW r \in Requests, Consume(r)
  PROVE  IInv'
<1>1. CASE RevokeAndThrow(r, "REUSE")
  BY <1>1, RevokeAndThrowStep DEF Consume
<1>2. CASE /\ pc[r] = "consume"
           /\ Free(r, call[r].token)
           /\ token[call[r].token].status = "ACTIVE"
           /\ held' = [held EXCEPT ![r] = @ \cup {call[r].token}]
           /\ Goto(r, "rotate")
           /\ UNCHANGED <<clock, rows, call, todo>>
  <2> USE <1>2, RowsAssumption DEF IInv, Goto, rows
  <2>1. TypeOK'
    BY DEF TypeOK, Labels, RefreshInv, Refreshing
  <2>2. ChainInv'
    BY DEF ChainInv
  <2>3. LockInv'
    BY DEF TypeOK, LockInv, Free, RefreshInv, Refreshing
  <2>4. ASSUME NEW q \in Requests PROVE RefreshInv(q)'
    BY DEF TypeOK, RefreshInv, Refreshing
  <2>5. ASSUME NEW q \in Requests PROVE RevokeInv(q)'
    BY DEF TypeOK, RevokeInv
  <2>6. ASSUME NEW q \in Requests PROVE IdleInv(q)'
    BY DEF TypeOK, IdleInv
  <2>7. TimeInv'
    BY DEF TypeOK, TimeInv, Refreshing
  <2> QED
    BY <2>1, <2>2, <2>3, <2>4, <2>5, <2>6, <2>7
<1> QED
  BY <1>1, <1>2 DEF Consume, Consumable

\* What a rotation finds and what it leaves, row by row.
Rotated(s, t, next, expiry) ==
  /\ session[s].status = "ACTIVE" /\ session[s].refreshTokenHash = t
  /\ token[t].status = "ACTIVE" /\ token[t].session = s
  /\ token[next].status = "ABSENT"
  /\ session[s].expiresAt <= expiry /\ expiry <= session[s].absoluteExpiresAt
  /\ session'[s] = [session[s] EXCEPT !.expiresAt = expiry, !.refreshTokenHash = next]
  /\ \A x \in Sessions \ {s} : session'[x] = session[x]
  /\ token'[t] = [token[t] EXCEPT !.status = "USED"]
  /\ token'[next] = [status |-> "ACTIVE", session |-> s, expiresAt |-> expiry]
  /\ \A x \in Tokens \ {t, next} : token'[x] = token[x]
  /\ session' \in [Sessions -> Session]
  /\ token' \in [Tokens -> RefreshToken]

\* A rotation starts from the session's own live token and only lengthens
\* its life, within the absolute cap.
LEMMA RotateRows ==
  ASSUME IInv, NEW r \in Requests, Rotate(r)
  PROVE  /\ call[r].session \in Sessions
         /\ call[r].token \in Tokens
         /\ \E next \in Tokens, expiry \in Nat :
              /\ Rotated(call[r].session, call[r].token, next, expiry)
              /\ expiry <= clock + Sliding
<1> DEFINE s == call[r].session
           t == call[r].token
           expiry == nextRefreshExpiry(call[r].at, session[s].absoluteExpiresAt)
<1> USE TimeAssumption DEF IInv
<1>1. PICK next \in Tokens :
        /\ token[next].status = "ABSENT"
        /\ token' = [token EXCEPT ![t].status = "USED",
             ![next] = [status |-> "ACTIVE", session |-> s, expiresAt |-> expiry]]
        /\ session' = [session EXCEPT ![s].expiresAt = expiry, ![s].refreshTokenHash = next]
  BY DEF Rotate
<1>2. /\ s \in Sessions /\ t \in Tokens /\ t # next
      /\ session[s].status = "ACTIVE" /\ session[s].refreshTokenHash = t
      /\ token[t].status = "ACTIVE" /\ token[t].session = s
      /\ pc[r] = "rotate"
  BY <1>1 DEF Rotate, RefreshInv, Refreshing, ChainInv, LockInv
<1>3. /\ expiry \in Nat /\ expiry <= session[s].absoluteExpiresAt
      /\ session[s].expiresAt <= expiry /\ expiry <= clock + Sliding
  BY <1>2 DEF nextRefreshExpiry, TypeOK, Session, Call, TimeInv, Refreshing
<1> HIDE DEF s, t, expiry
<1>4. /\ token'[t] = [token[t] EXCEPT !.status = "USED"]
      /\ token'[next] = [status |-> "ACTIVE", session |-> s, expiresAt |-> expiry]
      /\ \A x \in Tokens \ {t, next} : token'[x] = token[x]
      /\ token' \in [Tokens -> RefreshToken]
  <2>1. token[t] \in RefreshToken
    BY <1>2 DEF TypeOK
  <2>2. [token[t] EXCEPT !.status = "USED"] \in RefreshToken
    BY <2>1 DEF RefreshToken, TokenStatus
  <2>3. [status |-> "ACTIVE", session |-> s, expiresAt |-> expiry] \in RefreshToken
    BY <1>2, <1>3 DEF RefreshToken, TokenStatus
  <2>4. token' = [token EXCEPT ![t] = [token[t] EXCEPT !.status = "USED"],
             ![next] = [status |-> "ACTIVE", session |-> s, expiresAt |-> expiry]]
    BY <1>1, <1>2 DEF TypeOK
  <2> QED
    BY <1>2, <2>2, <2>3, <2>4 DEF TypeOK
<1>5. /\ session'[s] = [session[s] EXCEPT !.expiresAt = expiry, !.refreshTokenHash = next]
      /\ \A x \in Sessions \ {s} : session'[x] = session[x]
      /\ session' \in [Sessions -> Session]
  BY <1>1, <1>2, <1>3 DEF TypeOK, Session
<1>6. Rotated(s, t, next, expiry)
  BY <1>1, <1>2, <1>3, <1>4, <1>5 DEF Rotated
<1> QED
  BY <1>2, <1>3, <1>6 DEF s, t

\* The same, field by field.
LEMMA RotatedFields ==
  ASSUME TypeOK, NEW s \in Sessions, NEW t \in Tokens, NEW next \in Tokens, NEW expiry \in Nat,
         Rotated(s, t, next, expiry)
  PROVE  /\ t # next
         /\ session[s].status = "ACTIVE" /\ session[s].refreshTokenHash = t
         /\ token[t].status = "ACTIVE" /\ token[t].session = s /\ token[next].status = "ABSENT"
         /\ session'[s].status = "ACTIVE" /\ session'[s].refreshTokenHash = next
         /\ session'[s].owner = session[s].owner /\ session'[s].expiresAt = expiry
         /\ session'[s].absoluteExpiresAt = session[s].absoluteExpiresAt
         /\ token'[t].status = "USED" /\ token'[t].session = s
         /\ token'[next].status = "ACTIVE" /\ token'[next].session = s
         /\ session[s].expiresAt <= expiry /\ expiry <= session[s].absoluteExpiresAt
         /\ \A x \in Sessions \ {s} : session'[x] = session[x]
         /\ \A x \in Tokens \ {t, next} : token'[x] = token[x]
<1>1. session[s] \in Session /\ token[t] \in RefreshToken
  BY DEF TypeOK
<1>2. t # next
  BY DEF Rotated
<1> QED
  BY <1>1, <1>2 DEF Rotated, Session, RefreshToken

\* The presented token is used up and the fresh one takes its place.
LEMMA RotateStep ==
  ASSUME IInv, NEW r \in Requests, Rotate(r)
  PROVE  IInv'
<1> DEFINE s == call[r].session
           t == call[r].token
<1> USE RowsAssumption, TimeAssumption DEF IInv
<1>1. PICK next \in Tokens, expiry \in Nat :
        Rotated(s, t, next, expiry) /\ expiry <= clock + Sliding
  BY RotateRows
<1>2. /\ s \in Sessions /\ t \in Tokens /\ held[r] = {t} /\ next \in Tokens
      /\ expiry \in Nat /\ expiry <= clock + Sliding
  BY <1>1, RotateRows DEF Rotate, RefreshInv
<1> HIDE DEF s, t
<1>3. /\ t # next
      /\ session[s].status = "ACTIVE" /\ session[s].refreshTokenHash = t
      /\ token[t].status = "ACTIVE" /\ token[t].session = s /\ token[next].status = "ABSENT"
      /\ session'[s].status = "ACTIVE" /\ session'[s].refreshTokenHash = next
      /\ session'[s].owner = session[s].owner /\ session'[s].expiresAt = expiry
      /\ session'[s].absoluteExpiresAt = session[s].absoluteExpiresAt
      /\ token'[t].status = "USED" /\ token'[t].session = s
      /\ token'[next].status = "ACTIVE" /\ token'[next].session = s
      /\ session[s].expiresAt <= expiry /\ expiry <= session[s].absoluteExpiresAt
      /\ \A x \in Sessions \ {s} : session'[x] = session[x]
      /\ \A x \in Tokens \ {t, next} : token'[x] = token[x]
  BY <1>1, <1>2, RotatedFields
<1>4. /\ user' = user /\ clock' = clock /\ Finish(r)
      /\ \A q \in Requests \ {r} : /\ pc'[q] = pc[q] /\ call'[q] = call[q]
                                  /\ todo'[q] = todo[q] /\ held'[q] = held[q]
      /\ pc'[r] = "idle" /\ held'[r] = {}
  BY DEF Rotate, Finish, Goto, TypeOK
<1>5. TypeOK'
  BY <1>1, <1>4 DEF Rotated, TypeOK, Finish, Goto, Labels, Call, NoCall
<1>6. ChainInv'
  BY <1>2, <1>3 DEF ChainInv
<1>7. LockInv'
  BY <1>2, <1>3, <1>4 DEF LockInv
<1>8. ASSUME NEW q \in Requests PROVE RefreshInv(q)'
  <2>1. CASE q = r
    BY <1>4, <2>1 DEF RefreshInv, Refreshing
  <2>2. CASE q # r
    BY <1>2, <1>3, <1>4, <2>2 DEF RefreshInv, Refreshing
  <2> QED
    BY <2>1, <2>2
<1>9. ASSUME NEW q \in Requests PROVE RevokeInv(q)'
  <2>1. CASE q = r
    BY <1>4, <2>1 DEF RevokeInv
  <2>2. CASE q # r
    <3>1. s \notin held[q]
      BY <2>2 DEF Rotate, Free, s
    <3>2. t \notin held[q] /\ call[q].targets \subseteq Sessions
      BY <1>2, <2>2 DEF LockInv, TypeOK, Call
    <3> QED
      BY <1>2, <1>3, <1>4, <2>2, <3>1, <3>2 DEF RevokeInv
  <2> QED
    BY <2>1, <2>2
<1>10. ASSUME NEW q \in Requests PROVE IdleInv(q)'
  BY <1>4 DEF IdleInv
<1>11. TimeInv'
  <2>1. \A x \in Sessions : x # s => session'[x].expiresAt = session[x].expiresAt
    BY <1>3
  <2>2. ASSUME NEW q \in Requests, pc'[q] \in Refreshing, token'[call'[q].token].status = "ACTIVE"
        PROVE  session'[token'[call'[q].token].session].expiresAt <= call'[q].at + Sliding
    <3>1. /\ q # r /\ call[q].token \in Tokens \ {t, next}
          /\ token[call[q].token].status = "ACTIVE"
          /\ token[call[q].token].session # s
      BY <1>2, <1>3, <1>4, <2>2 DEF RefreshInv, Refreshing, ChainInv
    <3> QED
      BY <1>3, <1>4, <2>2, <3>1 DEF TimeInv, ChainInv
  <2> QED
    BY <1>2, <1>3, <1>4, <2>1, <2>2 DEF TimeInv, Refreshing
<1> QED
  BY <1>5, <1>6, <1>7, <1>8, <1>9, <1>10, <1>11

\* The new session and its token are rows no other request has seen.
LEMMA createSessionStep ==
  ASSUME IInv, NEW r \in Requests, createSession(r)
  PROVE  IInv'
<1> USE RowsAssumption, TimeAssumption DEF IInv, createSession, Finish, nextRefreshExpiry, Goto, rows
<1>1. TypeOK'
  BY DEF TypeOK, ChainInv, IdleInv, Call, NoCall, Session, RefreshToken, Labels,
         UserStatus, SessionStatus, TokenStatus
<1>2. ChainInv'
  BY <1>1 DEF TypeOK, ChainInv, IdleInv, Session, RefreshToken
<1>3. LockInv'
  BY <1>1 DEF TypeOK, ChainInv, LockInv, RevokeInv, IdleInv, Call, Session,
              RefreshToken
<1>4. ASSUME NEW q \in Requests PROVE RefreshInv(q)'
  BY <1>1 DEF TypeOK, ChainInv, LockInv, RefreshInv, Refreshing, Call, NoCall,
              Session, RefreshToken
<1>5. ASSUME NEW q \in Requests PROVE RevokeInv(q)'
  BY <1>1 DEF TypeOK, ChainInv, LockInv, RevokeInv, IdleInv, Call, NoCall, Session,
              RefreshToken
<1>6. ASSUME NEW q \in Requests PROVE IdleInv(q)'
  BY <1>1 DEF TypeOK, IdleInv, RevokeInv, Call, NoCall
<1>7. TimeInv'
  BY <1>1 DEF TypeOK, ChainInv, TimeInv, LockInv, RefreshInv, Refreshing, Call, NoCall,
              Session, RefreshToken
<1> QED
  BY <1>1, <1>2, <1>3, <1>4, <1>5, <1>6, <1>7

\* deactivate's first statement.
LEMMA UpdateUserStep ==
  ASSUME IInv, NEW r \in Requests, UpdateUser(r)
  PROVE  IInv'
<1> USE RowsAssumption, TimeAssumption DEF IInv, UpdateUser, Free, Goto, rows
<1>1. TypeOK'
  BY DEF TypeOK, ChainInv, IdleInv, Call, NoCall, Session, RefreshToken, Labels,
         UserStatus, SessionStatus, TokenStatus
<1>2. ChainInv'
  BY <1>1 DEF TypeOK, ChainInv, IdleInv, Session, RefreshToken
<1>3. LockInv'
  BY <1>1 DEF TypeOK, ChainInv, LockInv, RevokeInv, IdleInv, Call, Session,
              RefreshToken
<1>4. ASSUME NEW q \in Requests PROVE RefreshInv(q)'
  BY <1>1 DEF TypeOK, ChainInv, LockInv, RefreshInv, Refreshing, Call, NoCall,
              Session, RefreshToken
<1>5. ASSUME NEW q \in Requests PROVE RevokeInv(q)'
  BY <1>1 DEF TypeOK, ChainInv, LockInv, RevokeInv, IdleInv, Call, NoCall, Session,
              RefreshToken
<1>6. ASSUME NEW q \in Requests PROVE IdleInv(q)'
  BY <1>1 DEF TypeOK, IdleInv, RevokeInv, Call, NoCall
<1>7. TimeInv'
  BY <1>1 DEF TypeOK, ChainInv, TimeInv, LockInv, RefreshInv, Refreshing, Call, NoCall,
              Session, RefreshToken
<1> QED
  BY <1>1, <1>2, <1>3, <1>4, <1>5, <1>6, <1>7

\* The sessions found are ACTIVE and belong to the user.
LEMMA FindSessionsStep ==
  ASSUME IInv, NEW r \in Requests, FindSessions(r)
  PROVE  IInv'
<1> DEFINE found == {s \in Sessions : /\ session[s].status = "ACTIVE"
                                     /\ session[s].owner = call[r].user}
           c == [call[r] EXCEPT !.targets = found]
<1> USE DEF IInv
<1>1. /\ found \in SUBSET Sessions
      /\ \A s \in found : session[s].status = "ACTIVE"
  OBVIOUS
<1>2. c \in Call
  <2> HIDE DEF found
  <2> QED
    BY <1>1 DEF TypeOK, Call
<1>3. /\ call' = [call EXCEPT ![r] = c]
      /\ todo' = [todo EXCEPT ![r] = found]
      /\ pc' = [pc EXCEPT ![r] = "sessions"]
      /\ pc[r] = "find"
      /\ UNCHANGED <<clock, user, session, token, held>>
  BY DEF FindSessions, TypeOK, Call, Goto, rows
<1>4. c.targets = found
  BY DEF TypeOK, Call
<1> HIDE DEF found, c
<1>5. TypeOK'
  BY <1>1, <1>2, <1>3 DEF TypeOK, Labels
<1>6. ChainInv' /\ LockInv'
  BY <1>3 DEF ChainInv, LockInv
<1>7. ASSUME NEW q \in Requests PROVE RefreshInv(q)'
  BY <1>3 DEF TypeOK, RefreshInv, Refreshing
<1>8. ASSUME NEW q \in Requests PROVE RevokeInv(q)'
  BY <1>1, <1>3, <1>4, RowsAssumption DEF TypeOK, RevokeInv, IdleInv
<1>9. ASSUME NEW q \in Requests PROVE IdleInv(q)'
  BY <1>3 DEF TypeOK, IdleInv
<1>10. TimeInv'
  BY <1>3 DEF TypeOK, TimeInv, Refreshing
<1> QED
  BY <1>5, <1>6, <1>7, <1>8, <1>9, <1>10

\* A session the revocation has passed is held, or was closed already.
LEMMA LockSessionStep ==
  ASSUME IInv, NEW r \in Requests, LockSession(r)
  PROVE  IInv'
<1> USE RowsAssumption, TimeAssumption DEF IInv, LockSession, Free, Goto, rows
<1>1. TypeOK'
  BY DEF TypeOK, ChainInv, IdleInv, Call, NoCall, Session, RefreshToken, Labels,
         UserStatus, SessionStatus, TokenStatus
<1>2. ChainInv'
  BY <1>1 DEF TypeOK, ChainInv, IdleInv, Session, RefreshToken
<1>3. LockInv'
  BY <1>1 DEF TypeOK, ChainInv, LockInv, RevokeInv, IdleInv, Call, Session,
              RefreshToken
<1>4. ASSUME NEW q \in Requests PROVE RefreshInv(q)'
  BY <1>1 DEF TypeOK, ChainInv, LockInv, RefreshInv, Refreshing, Call, NoCall,
              Session, RefreshToken
<1>5. ASSUME NEW q \in Requests PROVE RevokeInv(q)'
  BY <1>1 DEF TypeOK, ChainInv, LockInv, RevokeInv, IdleInv, Call, NoCall, Session,
              RefreshToken
<1>6. ASSUME NEW q \in Requests PROVE IdleInv(q)'
  BY <1>1 DEF TypeOK, IdleInv, RevokeInv, Call, NoCall
<1>7. TimeInv'
  BY <1>1 DEF TypeOK, ChainInv, TimeInv, LockInv, RefreshInv, Refreshing, Call, NoCall,
              Session, RefreshToken
<1> QED
  BY <1>1, <1>2, <1>3, <1>4, <1>5, <1>6, <1>7

\* The statement on the tokens sees every live token of the targets.
LEMMA StartTokensStep ==
  ASSUME IInv, NEW r \in Requests, StartTokens(r)
  PROVE  IInv'
<1> USE RowsAssumption, TimeAssumption DEF IInv, StartTokens, ActiveTokensOf, Goto, rows
<1>1. TypeOK'
  BY DEF TypeOK, ChainInv, IdleInv, Call, NoCall, Session, RefreshToken, Labels,
         UserStatus, SessionStatus, TokenStatus
<1>2. ChainInv'
  BY <1>1 DEF TypeOK, ChainInv, IdleInv, Session, RefreshToken
<1>3. LockInv'
  BY <1>1 DEF TypeOK, ChainInv, LockInv, RevokeInv, IdleInv, Call, Session,
              RefreshToken
<1>4. ASSUME NEW q \in Requests PROVE RefreshInv(q)'
  BY <1>1 DEF TypeOK, ChainInv, LockInv, RefreshInv, Refreshing, Call, NoCall,
              Session, RefreshToken
<1>5. ASSUME NEW q \in Requests PROVE RevokeInv(q)'
  BY <1>1 DEF TypeOK, ChainInv, LockInv, RevokeInv, IdleInv, Call, NoCall, Session,
              RefreshToken
<1>6. ASSUME NEW q \in Requests PROVE IdleInv(q)'
  BY <1>1 DEF TypeOK, IdleInv, RevokeInv, Call, NoCall
<1>7. TimeInv'
  BY <1>1 DEF TypeOK, ChainInv, TimeInv, LockInv, RefreshInv, Refreshing, Call, NoCall,
              Session, RefreshToken
<1> QED
  BY <1>1, <1>2, <1>3, <1>4, <1>5, <1>6, <1>7

\* A live token the revocation has passed is held.
LEMMA LockTokenStep ==
  ASSUME IInv, NEW r \in Requests, LockToken(r)
  PROVE  IInv'
<1> USE RowsAssumption, TimeAssumption DEF IInv, LockToken, Free, Goto, rows
<1>1. TypeOK'
  BY DEF TypeOK, ChainInv, IdleInv, Call, NoCall, Session, RefreshToken, Labels,
         UserStatus, SessionStatus, TokenStatus
<1>2. ChainInv'
  BY <1>1 DEF TypeOK, ChainInv, IdleInv, Session, RefreshToken
<1>3. LockInv'
  BY <1>1 DEF TypeOK, ChainInv, LockInv, RevokeInv, IdleInv, Call, Session,
              RefreshToken
<1>4. ASSUME NEW q \in Requests PROVE RefreshInv(q)'
  BY <1>1 DEF TypeOK, ChainInv, LockInv, RefreshInv, Refreshing, Call, NoCall,
              Session, RefreshToken
<1>5. ASSUME NEW q \in Requests PROVE RevokeInv(q)'
  BY <1>1 DEF TypeOK, ChainInv, LockInv, RevokeInv, IdleInv, Call, NoCall, Session,
              RefreshToken
<1>6. ASSUME NEW q \in Requests PROVE IdleInv(q)'
  BY <1>1 DEF TypeOK, IdleInv, RevokeInv, Call, NoCall
<1>7. TimeInv'
  BY <1>1 DEF TypeOK, ChainInv, TimeInv, LockInv, RefreshInv, Refreshing, Call, NoCall,
              Session, RefreshToken
<1> QED
  BY <1>1, <1>2, <1>3, <1>4, <1>5, <1>6, <1>7

\* A commit closes sessions and retires their live tokens together.
LEMMA CommitStep ==
  ASSUME IInv, NEW r \in Requests, Commit(r)
  PROVE  IInv'
<1> USE RowsAssumption DEF IInv
<1>1. \A s \in Sessions : session'[s] =
        IF s \in held[r] THEN [session[s] EXCEPT !.status = "REVOKED"] ELSE session[s]
  BY DEF Commit, Write
<1>2. \A t \in Tokens : token'[t] =
        IF t \in held[r] THEN [token[t] EXCEPT !.status = "REVOKED"] ELSE token[t]
  BY DEF Commit, Write
<1>3. TypeOK'
  <2>1. session' \in [Sessions -> Session]
    BY <1>1 DEF Commit, Write, TypeOK, Session, SessionStatus
  <2>2. token' \in [Tokens -> RefreshToken]
    BY <1>2 DEF Commit, Write, TypeOK, RefreshToken, TokenStatus
  <2>3. user' \in [Users -> UserStatus]
    BY DEF Commit, Write, TypeOK, UserStatus
  <2> QED
    BY <2>1, <2>2, <2>3 DEF Commit, Finish, Goto, TypeOK, Labels, Call, NoCall
<1>4. \A s \in Sessions : session[s].status = "ACTIVE" =>
        (s \in held[r] <=> session[s].refreshTokenHash \in held[r])
  BY DEF Commit, RevokeInv, ChainInv, LockInv, TypeOK
<1>5. \A s \in Sessions :
        /\ session'[s].owner = session[s].owner
        /\ session'[s].refreshTokenHash = session[s].refreshTokenHash
        /\ session'[s].expiresAt = session[s].expiresAt
        /\ session'[s].absoluteExpiresAt = session[s].absoluteExpiresAt
        /\ session'[s].status = IF s \in held[r] THEN "REVOKED" ELSE session[s].status
  <2> TAKE s \in Sessions
  <2>1. session[s] \in Session
    BY DEF TypeOK
  <2>2. CASE s \in held[r]
    BY <1>1, <2>1, <2>2 DEF Session
  <2>3. CASE s \notin held[r]
    BY <1>1, <2>3
  <2> QED
    BY <2>2, <2>3
<1>6. \A t \in Tokens :
        /\ token'[t].session = token[t].session
        /\ token'[t].status = IF t \in held[r] THEN "REVOKED" ELSE token[t].status
  BY <1>2 DEF TypeOK, RefreshToken
<1>7. /\ clock' = clock /\ pc'[r] = "idle" /\ held'[r] = {}
      /\ \A q \in Requests \ {r} : /\ pc'[q] = pc[q] /\ call'[q] = call[q]
                                  /\ todo'[q] = todo[q] /\ held'[q] = held[q]
  BY DEF Commit, Finish, Goto, TypeOK
<1>8. ChainInv'
  <2>1. \A t \in Tokens : token[t].status # "ABSENT" => token[t].session \in Sessions
    BY DEF ChainInv
  <2>2. ASSUME NEW t \in Tokens, token'[t].status # "ABSENT"
        PROVE  /\ token'[t].session \in Sessions
               /\ session'[token'[t].session].status # "ABSENT"
    BY <1>5, <1>6, <2>2 DEF ChainInv, LockInv
  <2>3. ASSUME NEW t \in Tokens, token'[t].status = "ACTIVE"
        PROVE  /\ session'[token'[t].session].status = "ACTIVE"
               /\ session'[token'[t].session].refreshTokenHash = t
    BY <1>4, <1>5, <1>6, <2>3 DEF ChainInv
  <2>4. ASSUME NEW s \in Sessions, session'[s].status = "ACTIVE"
        PROVE  /\ session'[s].owner \in Users
               /\ session'[s].refreshTokenHash \in Tokens
               /\ token'[session'[s].refreshTokenHash].status = "ACTIVE"
               /\ token'[session'[s].refreshTokenHash].session = s
    <3>1. s \notin held[r] /\ session[s].status = "ACTIVE"
      BY <1>5, <2>4
    <3>2. session[s].refreshTokenHash \in Tokens \ held[r]
      BY <1>4, <3>1 DEF ChainInv
    <3> QED
      BY <1>5, <1>6, <3>1, <3>2 DEF ChainInv
  <2> QED
    BY <2>2, <2>3, <2>4 DEF ChainInv
<1>9. LockInv'
  BY <1>5, <1>6, <1>7 DEF LockInv
<1>10. ASSUME NEW q \in Requests PROVE RefreshInv(q)'
  BY <1>5, <1>6, <1>7 DEF RefreshInv, Refreshing, LockInv
<1>11. ASSUME NEW q \in Requests PROVE RevokeInv(q)'
  <2>1. CASE q = r
    BY <1>7, <2>1 DEF RevokeInv
  <2>2. CASE q # r
    <3>1. /\ held[q] \cap held[r] = {}
          /\ pc'[q] = pc[q] /\ call'[q] = call[q] /\ todo'[q] = todo[q] /\ held'[q] = held[q]
      BY <1>7, <2>2 DEF LockInv
    <3>2. call[q].targets \subseteq Sessions
      BY DEF TypeOK, Call
    <3>3. pc[q] \in {"sessions", "tokens"} =>
            \A s \in call[q].targets : session'[s].status # "ABSENT"
      BY <1>5, <3>2 DEF RevokeInv
    <3> QED
      BY <1>5, <1>6, <3>1, <3>2, <3>3 DEF RevokeInv
  <2> QED
    BY <2>1, <2>2
<1>12. ASSUME NEW q \in Requests PROVE IdleInv(q)'
  BY <1>7 DEF IdleInv
<1>13. TimeInv'
  BY <1>5, <1>6, <1>7 DEF TimeInv, RefreshInv, Refreshing, ChainInv
<1> QED
  BY <1>3, <1>8, <1>9, <1>10, <1>11, <1>12, <1>13

\* A new request holds nothing and knows what it has just read.
LEMMA ArriveStep ==
  ASSUME IInv, NEW r \in Requests, Arrive(r)
  PROVE  IInv'
<1> USE RowsAssumption DEF IInv
<1>1. PICK label \in Labels, c \in Call, first \in SUBSET Sessions :
        /\ Begin(r, label, c, first)
        /\ label \in {"login", "readSession", "sessions", "find", "userRow"}
        /\ label = "readSession" => /\ c.session \in Sessions
                                    /\ c.token \in Tokens
                                    /\ session[c.session].status # "ABSENT"
                                    /\ token[c.token].status # "ABSENT"
                                    /\ c.at = clock
        /\ label = "sessions" => /\ first = c.targets
                                 /\ \A s \in c.targets : session[s].status # "ABSENT"
        /\ label \in {"login", "find", "userRow"} => c.user \in Users
  <2>1. CASE \E u \in Users : Login(r, u)
    BY <2>1 DEF Login, Labels, Call, NoCall
  <2>2. CASE \E s \in Sessions, t \in Tokens : Refresh(r, s, t)
    BY <2>2 DEF Refresh, Labels, Call, NoCall, TypeOK
  <2>3. CASE \E s \in Sessions : Logout(r, s)
    <3>1. PICK s \in Sessions : Logout(r, s)
      BY <2>3
    <3> DEFINE c == [NoCall EXCEPT !.session = s, !.targets = {s}]
    <3>2. session[s].status = "ACTIVE" /\ Begin(r, "sessions", c, {s})
      BY <3>1 DEF Logout, Authorised
    <3>3. session[s].owner \in Users
      BY <3>2 DEF ChainInv
    <3>4. c \in Call /\ c.targets = {s}
      BY <3>3 DEF Call, NoCall
    <3> HIDE DEF c
    <3> QED
      BY <3>2, <3>4 DEF Labels
  <2>4. CASE \E s \in Sessions : LogoutAll(r, s)
    <3>1. PICK s \in Sessions : LogoutAll(r, s)
      BY <2>4
    <3> DEFINE c == [NoCall EXCEPT !.session = s, !.user = session[s].owner]
    <3>2. session[s].status = "ACTIVE" /\ Begin(r, "find", c, {})
      BY <3>1 DEF LogoutAll, Authorised
    <3>3. session[s].owner \in Users
      BY <3>2 DEF ChainInv
    <3>4. c \in Call /\ c.user \in Users
      BY <3>3 DEF Call, NoCall
    <3> HIDE DEF c
    <3> QED
      BY <3>2, <3>4 DEF Labels
  <2>5. CASE \E s \in Sessions : Deactivate(r, s)
    <3>1. PICK s \in Sessions : Deactivate(r, s)
      BY <2>5
    <3> DEFINE c == [NoCall EXCEPT !.session = s, !.user = session[s].owner]
    <3>2. session[s].status = "ACTIVE" /\ Begin(r, "userRow", c, {})
      BY <3>1 DEF Deactivate, Authorised
    <3>3. session[s].owner \in Users
      BY <3>2 DEF ChainInv
    <3>4. c \in Call /\ c.user \in Users
      BY <3>3 DEF Call, NoCall
    <3> HIDE DEF c
    <3> QED
      BY <3>2, <3>4 DEF Labels
  <2> QED
    BY <2>1, <2>2, <2>3, <2>4, <2>5 DEF Arrive
<1>2. held[r] = {}
  BY <1>1 DEF Begin, IdleInv
<1> USE <1>1, <1>2 DEF Begin, Goto, rows
<1>3. TypeOK'
  BY DEF TypeOK
<1>4. ChainInv' /\ LockInv'
  BY DEF ChainInv, LockInv
<1>5. ASSUME NEW q \in Requests PROVE RefreshInv(q)'
  BY DEF TypeOK, RefreshInv, Refreshing
<1>6. ASSUME NEW q \in Requests PROVE RevokeInv(q)'
  BY DEF TypeOK, RevokeInv
<1>7. ASSUME NEW q \in Requests PROVE IdleInv(q)'
  BY DEF TypeOK, IdleInv
<1>8. TimeInv'
  BY DEF TypeOK, TimeInv, ChainInv, Refreshing
<1> QED
  BY <1>3, <1>4, <1>5, <1>6, <1>7, <1>8

-----------------------------------------------------------------------------
(* The invariant holds of every behaviour.                                 *)

\* It holds of the empty database.
LEMMA InitInv == Init => IInv
BY TimeAssumption
   DEF Init, IInv, TypeOK, ChainInv, LockInv, RefreshInv, RevokeInv, IdleInv, TimeInv,
       Refreshing, Labels, UserStatus, SessionStatus, TokenStatus, Session, RefreshToken,
       Call, NoCall, NoSession, NoToken

\* It is kept by every step and by stuttering.
LEMMA NextInv == IInv /\ [Next]_vars => IInv'
<1> SUFFICES ASSUME IInv, [Next]_vars
             PROVE  IInv'
  OBVIOUS
<1>1. CASE UNCHANGED vars
  BY <1>1 DEF vars, rows, IInv, TypeOK, ChainInv, LockInv, RefreshInv, RevokeInv, IdleInv,
              TimeInv, Refreshing
<1>2. CASE Tick
  BY <1>2, TimeAssumption
     DEF Tick, rows, IInv, TypeOK, ChainInv, LockInv, RefreshInv, RevokeInv, IdleInv,
         TimeInv, Refreshing, Session, Call
<1>3. ASSUME NEW r \in Requests, Arrive(r) \/ Progress(r) \/ Abort(r)
      PROVE  IInv'
  <2>1. CASE Arrive(r)
    BY <2>1, ArriveStep
  <2>2. CASE createSession(r)
    BY <2>2, createSessionStep
  <2>3. CASE ReadSession(r) \/ ReadToken(r) \/ Consume(r) \/ Rotate(r)
    BY <2>3, ReadSessionStep, ReadTokenStep, ConsumeStep, RotateStep
  <2>4. CASE UpdateUser(r) \/ FindSessions(r)
    BY <2>4, UpdateUserStep, FindSessionsStep
  <2>5. CASE LockSession(r) \/ StartTokens(r) \/ LockToken(r) \/ Commit(r)
    BY <2>5, LockSessionStep, StartTokensStep, LockTokenStep, CommitStep
  <2>6. CASE ThrowUnauthorized(r) \/ OutOfIds(r) \/ Abort(r)
    BY <2>6, AbortStep DEF ThrowUnauthorized, OutOfIds, Abort
  <2> QED
    BY <1>3, <2>1, <2>2, <2>3, <2>4, <2>5, <2>6 DEF Progress
<1> QED
  BY <1>1, <1>2, <1>3 DEF Next

\* Row contents, locks, the progress of every request and the lifetimes keep
\* the relations above, whatever the requests of auth.service.ts interleave.
THEOREM Invariance == Spec => []IInv
<1>1. Init => IInv
  BY InitInv
<1>2. IInv /\ [Next]_vars => IInv'
  BY NextInv
<1> QED
  BY <1>1, <1>2, PTL DEF Spec

-----------------------------------------------------------------------------
(* State properties.                                                       *)

\* Every variable keeps its type: the rows of auth.service.ts's tables and
\* the progress of every request.
THEOREM TypeCorrect == Spec => []TypeOK
<1>1. IInv => TypeOK
  BY DEF IInv
<1> QED
  BY <1>1, Invariance, PTL

\* However requests interleave, an ACTIVE session has the one ACTIVE token
\* its row names and a closed session has none.
THEOREM LiveTokens == Spec => []OneLiveToken
<1>1. IInv => OneLiveToken
  BY DEF IInv, ChainInv, OneLiveToken
<1> QED
  BY <1>1, Invariance, PTL

\* What JwtGuard lets through is within the session's absolute lifetime.
THEOREM WithinAbsolute == Spec => []AuthorisedWithinAbsolute
<1>1. IInv => AuthorisedWithinAbsolute
  BY DEF IInv, TimeInv, TypeOK, Session, AuthorisedWithinAbsolute, Authorised
<1> QED
  BY <1>1, Invariance, PTL

-----------------------------------------------------------------------------
(* Step properties.  Only three kinds of step write a row.                 *)

\* createSession, the rotation of refresh and the commit of a revocation are
\* the only steps that write rows.
LEMMA RowSteps ==
  ASSUME Next
  PROVE  UNCHANGED rows \/ \E r \in Requests : createSession(r) \/ Rotate(r) \/ Commit(r)
<1>1. CASE Tick
  BY <1>1 DEF Tick
<1>2. ASSUME NEW r \in Requests, Arrive(r)
      PROVE  UNCHANGED rows
  BY <1>2 DEF Arrive, Login, Refresh, Logout, LogoutAll, Deactivate, Begin
<1>3. ASSUME NEW r \in Requests, ReadSession(r) \/ ReadToken(r) \/ Consume(r)
      PROVE  UNCHANGED rows
  BY <1>3 DEF ReadSession, ReadToken, Consume, RevokeAndThrow
<1>4. ASSUME NEW r \in Requests,
             UpdateUser(r) \/ FindSessions(r) \/ LockSession(r) \/ StartTokens(r) \/ LockToken(r)
      PROVE  UNCHANGED rows
  BY <1>4 DEF UpdateUser, FindSessions, LockSession, StartTokens, LockToken
<1>5. ASSUME NEW r \in Requests, ThrowUnauthorized(r) \/ OutOfIds(r) \/ Abort(r)
      PROVE  UNCHANGED rows
  BY <1>5 DEF ThrowUnauthorized, OutOfIds, Abort
<1> QED
  BY <1>1, <1>2, <1>3, <1>4, <1>5 DEF Next, Progress

\* createSession writes two rows that were absent.
LEMMA createSessionRows ==
  ASSUME IInv, NEW r \in Requests, createSession(r)
  PROVE  \E s \in Sessions, t \in Tokens :
           /\ session[s].status = "ABSENT" /\ token[t].status = "ABSENT"
           /\ token'[t].session = s /\ token'[t].status = "ACTIVE"
           /\ \A x \in Sessions \ {s} : session'[x] = session[x]
           /\ \A x \in Tokens \ {t} : token'[x] = token[x]
BY DEF createSession, IInv, TypeOK

\* A token row that does not exist belongs to no session.
Unissued == \A t \in Tokens : token[t].status = "ABSENT" => token[t].session = None

LEMMA UnissuedStep == IInv /\ Unissued /\ [Next]_vars => Unissued'
<1> SUFFICES ASSUME IInv, Unissued, [Next]_vars, NEW t \in Tokens, token'[t].status = "ABSENT"
             PROVE  token'[t].session = None
  BY DEF Unissued
<1>1. CASE UNCHANGED rows \/ UNCHANGED vars
  BY <1>1 DEF rows, vars, Unissued
<1>2. ASSUME NEW r \in Requests, createSession(r) PROVE token'[t].session = None
  BY <1>2, createSessionRows DEF Unissued
<1>3. ASSUME NEW r \in Requests, Rotate(r) PROVE token'[t].session = None
  <2>1. PICK s \in Sessions, u \in Tokens, next \in Tokens, expiry \in Nat :
          Rotated(s, u, next, expiry)
    BY <1>3, RotateRows
  <2> QED
    BY <2>1, RotatedFields DEF IInv, Unissued
<1>4. ASSUME NEW r \in Requests, Commit(r) PROVE token'[t].session = None
  BY <1>4 DEF Commit, Write, IInv, TypeOK, RefreshToken, Unissued
<1> QED
  BY RowSteps, <1>1, <1>2, <1>3, <1>4

\* A revoked or expired session is over: no refresh, logout or deactivation
\* writes its row or a token of its again, and it is given no new token.
THEOREM Closed == Spec => ClosedIsFinal
<1> DEFINE Over(s) == session[s].status \in {"REVOKED", "EXPIRED"}
           Untouched(s) ==
             /\ session'[s] = session[s]
             /\ \A t \in Tokens : s \in {token[t].session, token'[t].session} =>
                  token'[t] = token[t]
<1>1. IInv /\ Unissued /\ [Next]_vars => [\A s \in Sessions : Over(s) => Untouched(s)]_vars
  <2> SUFFICES ASSUME IInv, Unissued, Next, NEW s \in Sessions, Over(s) PROVE Untouched(s)
    OBVIOUS
  <2>0. s # None
    BY RowsAssumption
  <2>1. CASE UNCHANGED rows
    BY <2>1 DEF rows
  <2>2. ASSUME NEW r \in Requests, createSession(r) PROVE Untouched(s)
    BY <2>0, <2>2, createSessionRows DEF Unissued
  <2>3. ASSUME NEW r \in Requests, Rotate(r) PROVE Untouched(s)
    <3>1. PICK x \in Sessions, t \in Tokens, next \in Tokens, expiry \in Nat :
            Rotated(x, t, next, expiry)
      BY <2>3, RotateRows
    <3> QED
      BY <2>0, <3>1, RotatedFields DEF IInv, Unissued
  <2>4. ASSUME NEW r \in Requests, Commit(r) PROVE Untouched(s)
    <3>1. /\ \A t \in Tokens : t \in held[r] => token[t].status = "ACTIVE"
          /\ \A t \in Tokens : token[t].status = "ACTIVE" =>
               session[token[t].session].status = "ACTIVE"
          /\ s \notin held[r]
      BY DEF IInv, LockInv, ChainInv
    <3>2. session'[s] = session[s]
      BY <2>4, <3>1 DEF Commit, Write
    <3>3. ASSUME NEW t \in Tokens
          PROVE  /\ token'[t].session = token[t].session
                 /\ token[t].session = s => token'[t] = token[t]
      BY <2>4, <3>1 DEF Commit, Write, IInv, TypeOK, RefreshToken
    <3> QED
      BY <3>2, <3>3
  <2> QED
    BY RowSteps, <2>1, <2>2, <2>3, <2>4
<1>2. Init => Unissued
  BY DEF Init, NoToken, Unissued
<1>3. Spec => []Unissued
  BY <1>2, UnissuedStep, Invariance, PTL DEF Spec
<1> QED
  BY <1>1, <1>3, Invariance, PTL DEF Spec, ClosedIsFinal

\* A presented token never buys two successors.
THEOREM OneSuccessor == Spec => OneSuccessorPerToken
<1> DEFINE Good(t) ==
             /\ token[t].status \notin {"ABSENT", "ACTIVE"} => token'[t] = token[t]
             /\ token[t].status = "ABSENT" /\ token'[t].status = "ACTIVE" =>
                  LET s == token'[t].session
                  IN \/ session[s].status = "ABSENT"
                     \/ /\ token[session[s].refreshTokenHash].status = "ACTIVE"
                        /\ token'[session[s].refreshTokenHash].status = "USED"
<1>1. IInv /\ [Next]_vars => [\A t \in Tokens : Good(t)]_vars
  <2> SUFFICES ASSUME IInv, Next, NEW t \in Tokens PROVE Good(t)
    OBVIOUS
  <2>1. CASE UNCHANGED rows
    BY <2>1 DEF rows
  <2>2. ASSUME NEW r \in Requests, createSession(r) PROVE Good(t)
    BY <2>2 DEF createSession, IInv, TypeOK
  <2>3. ASSUME NEW r \in Requests, Rotate(r) PROVE Good(t)
    <3>1. PICK s \in Sessions, u \in Tokens, next \in Tokens, expiry \in Nat :
            Rotated(s, u, next, expiry)
      BY <2>3, RotateRows
    <3> QED
      BY <3>1, RotatedFields DEF IInv
  <2>4. ASSUME NEW r \in Requests, Commit(r) PROVE Good(t)
    BY <2>4 DEF Commit, Write, IInv, LockInv
  <2> QED
    BY RowSteps, <2>1, <2>2, <2>3, <2>4
<1> QED
  BY <1>1, Invariance, PTL DEF Spec, OneSuccessorPerToken

\* A rotation never shortens the session.
THEOREM ExpiryGrows == Spec => ExpiryNeverRecedes
<1> DEFINE Grows == \A s \in Sessions : session[s].status = "ACTIVE" =>
             session'[s].expiresAt >= session[s].expiresAt
<1>1. IInv /\ [Next]_vars => [Grows]_vars
  <2> SUFFICES ASSUME IInv, Next, NEW s \in Sessions, session[s].status = "ACTIVE"
               PROVE  session'[s].expiresAt >= session[s].expiresAt
    OBVIOUS
  <2>0. session[s] \in Session /\ session[s].expiresAt \in Nat
    BY DEF IInv, TypeOK, Session
  <2>1. CASE UNCHANGED rows
    BY <2>0, <2>1 DEF rows
  <2>2. ASSUME NEW r \in Requests, createSession(r)
        PROVE  session'[s].expiresAt >= session[s].expiresAt
    <3>1. session'[s] = session[s]
      BY <2>2 DEF createSession, IInv, TypeOK
    <3> QED
      BY <2>0, <3>1
  <2>3. ASSUME NEW r \in Requests, Rotate(r)
        PROVE  session'[s].expiresAt >= session[s].expiresAt
    <3>1. PICK x \in Sessions, t \in Tokens, next \in Tokens, expiry \in Nat :
            Rotated(x, t, next, expiry)
      BY <2>3, RotateRows
    <3>2. session'[s].expiresAt = IF s = x THEN expiry ELSE session[s].expiresAt
      BY <3>1, RotatedFields DEF IInv
    <3> QED
      BY <2>0, <3>1, <3>2 DEF Rotated
  <2>4. ASSUME NEW r \in Requests, Commit(r)
        PROVE  session'[s].expiresAt >= session[s].expiresAt
    <3>1. session'[s].expiresAt = session[s].expiresAt
      BY <2>0, <2>4 DEF Commit, Write, Session
    <3> QED
      BY <2>0, <3>1
  <2> QED
    BY RowSteps, <2>1, <2>2, <2>3, <2>4
<1> QED
  BY <1>1, Invariance, PTL DEF Spec, ExpiryNeverRecedes

\* When a revocation answers, nothing it found is live any more.
THEOREM RevocationCompletes == Spec => RevocationIsComplete
<1> DEFINE Complete(r) == Commit(r) =>
             /\ \A s \in call[r].targets : session'[s].status # "ACTIVE"
             /\ \A t \in Tokens : token'[t].status = "ACTIVE" =>
                  token'[t].session \notin call[r].targets
<1>1. IInv /\ [Next]_vars => [\A r \in Requests : Complete(r)]_vars
  <2> SUFFICES ASSUME IInv, NEW r \in Requests, Commit(r) PROVE Complete(r)
    OBVIOUS
  <2>1. /\ \A s \in call[r].targets : session[s].status = "ACTIVE" => s \in held[r]
        /\ \A t \in Tokens : token[t].status = "ACTIVE" /\ token[t].session \in call[r].targets
             => t \in held[r]
        /\ call[r].targets \subseteq Sessions
    BY DEF Commit, IInv, RevokeInv, TypeOK, Call
  <2>2. \A s \in Sessions : session'[s].status =
          IF s \in held[r] THEN "REVOKED" ELSE session[s].status
    BY DEF Commit, Write, IInv, TypeOK, Session
  <2>3. \A t \in Tokens : /\ token'[t].session = token[t].session
                          /\ token'[t].status =
                               IF t \in held[r] THEN "REVOKED" ELSE token[t].status
    BY DEF Commit, Write, IInv, TypeOK, RefreshToken
  <2> QED
    BY <2>1, <2>2, <2>3
<1> QED
  BY <1>1, Invariance, PTL DEF Spec, RevocationIsComplete

-----------------------------------------------------------------------------
(* The sessions implement RefreshChain.                                    *)

\* The empty database is the empty chain.
LEMMA ChainInit == Init => Chain!Init
BY DEF Init, Chain!Init, NoSession, NoToken

\* The tokens the abstract chain has issued are the rows that exist.
LEMMA ChainIssued ==
  ASSUME IInv, NEW t \in Tokens, token[t].status = "ABSENT"
  PROVE  t \notin Chain!Issued
BY RowsAssumption DEF IInv, ChainInv, Chain!Issued

\* A login opens a chain.
LEMMA ChainCreate ==
  ASSUME IInv, NEW r \in Requests, createSession(r)
  PROVE  \E s \in Sessions, t \in Tokens : Chain!Open(s, t)
<1>1. PICK s \in Sessions, t \in Tokens :
        /\ session[s].status = "ABSENT"
        /\ token[t].status = "ABSENT"
        /\ session'[s].status = "ACTIVE" /\ session'[s].refreshTokenHash = t
        /\ token'[t].status = "ACTIVE"
        /\ \A x \in Sessions \ {s} : session'[x] = session[x]
        /\ \A x \in Tokens \ {t} : token'[x] = token[x]
  BY DEF createSession, IInv, TypeOK
<1> DEFINE live == [x \in Sessions |->
                      IF session[x].status = "ACTIVE" THEN session[x].refreshTokenHash ELSE None]
<1>2. t \notin Chain!Issued
  BY <1>1, ChainIssued
<1>3. live' = [live EXCEPT ![s] = t]
  BY <1>1
<1>4. {x \in Sessions : session'[x].status # "ABSENT"}
        = {x \in Sessions : session[x].status # "ABSENT"} \cup {s}
  BY <1>1
<1>5. {x \in Tokens : token'[x].status \notin {"ABSENT", "ACTIVE"}}
        = {x \in Tokens : token[x].status \notin {"ABSENT", "ACTIVE"}}
  BY <1>1
<1>6. Chain!Open(s, t)
  BY <1>1, <1>2, <1>3, <1>4, <1>5 DEF Chain!Open
<1> QED
  BY <1>6

\* A refresh rotates one.
LEMMA ChainRotate ==
  ASSUME IInv, NEW r \in Requests, Rotate(r)
  PROVE  \E s \in Sessions, t \in Tokens : Chain!Rotate(s, t)
<1>1. PICK s \in Sessions, t \in Tokens, next \in Tokens, expiry \in Nat :
        Rotated(s, t, next, expiry)
  BY RotateRows
<1>2. /\ session[s].status = "ACTIVE" /\ session[s].refreshTokenHash = t
      /\ token[t].status = "ACTIVE" /\ token[next].status = "ABSENT"
      /\ session'[s].status = "ACTIVE" /\ session'[s].refreshTokenHash = next
      /\ \A x \in Sessions \ {s} : session'[x] = session[x]
      /\ token'[t].status = "USED" /\ token'[next].status = "ACTIVE"
      /\ \A x \in Tokens \ {t, next} : token'[x] = token[x]
      /\ t # None
  BY <1>1, RotatedFields, RowsAssumption DEF IInv
<1>3. next \notin Chain!Issued
  BY <1>2, ChainIssued
<1> QED
  BY <1>2, <1>3 DEF Chain!Rotate

\* A revocation closes the chains of the sessions it holds.
LEMMA ChainClose ==
  ASSUME IInv, NEW r \in Requests, Commit(r)
  PROVE  Chain!Close(held[r] \cap Sessions)
<1> DEFINE S == held[r] \cap Sessions
<1>1. \A s \in Sessions :
        /\ session'[s].refreshTokenHash = session[s].refreshTokenHash
        /\ session'[s].status = IF s \in S THEN "REVOKED" ELSE session[s].status
  BY DEF Commit, Write, IInv, TypeOK, Session
<1>2. \A t \in Tokens :
        token'[t].status = IF t \in held[r] THEN "REVOKED" ELSE token[t].status
  BY DEF Commit, Write, IInv, TypeOK, RefreshToken
<1>3. \A s \in S : /\ session[s].status = "ACTIVE"
                   /\ session[s].refreshTokenHash \in Tokens \cap held[r]
  BY DEF Commit, IInv, LockInv, RevokeInv, ChainInv
<1>4. \A t \in Tokens \cap held[r] :
        /\ token[t].status = "ACTIVE"
        /\ token[t].session \in S
        /\ session[token[t].session].refreshTokenHash = t
  BY DEF Commit, IInv, LockInv, RevokeInv, ChainInv
<1>5. \A t \in Tokens : t \in held[r] <=> \E s \in S : t = session[s].refreshTokenHash
  BY <1>3, <1>4
<1> HIDE DEF S
<1>6. S \in SUBSET Sessions
  BY DEF S
<1> DEFINE live == [s \in Sessions |->
                      IF session[s].status = "ACTIVE" THEN session[s].refreshTokenHash ELSE None]
<1>7. \A s \in S : live[s] = session[s].refreshTokenHash /\ live[s] # None
  BY <1>3, <1>6, RowsAssumption
<1>8. live' = [s \in Sessions |-> IF s \in S THEN None ELSE live[s]]
  BY <1>1
<1>9. {t \in Tokens : token'[t].status \notin {"ABSENT", "ACTIVE"}}
        = {t \in Tokens : token[t].status \notin {"ABSENT", "ACTIVE"}} \cup {live[s] : s \in S}
  <2>1. {live[s] : s \in S} = Tokens \cap held[r]
    <3> HIDE DEF live
    <3>1. \A s \in S : live[s] \in Tokens \cap held[r]
      BY <1>3, <1>7
    <3>2. \A t \in Tokens \cap held[r] : \E s \in S : t = live[s]
      BY <1>5, <1>7
    <3> QED
      BY <3>1, <3>2
  <2>2. \A t \in Tokens : t \in held[r] => token[t].status = "ACTIVE"
    BY DEF IInv, LockInv
  <2> HIDE DEF live
  <2> QED
    BY <1>2, <2>1, <2>2
<1>10. {s \in Sessions : session'[s].status # "ABSENT"}
         = {s \in Sessions : session[s].status # "ABSENT"}
  BY <1>1, <1>3
<1>11. Chain!Close(S)
  BY <1>7, <1>8, <1>9, <1>10 DEF Chain!Close
<1> QED
  BY <1>11 DEF S

\* Every behaviour of the sessions is a behaviour of the one-time chains.
THEOREM Refinement == Spec => ImplementsChain
<1>1. Init => Chain!Init
  BY ChainInit
<1>2. IInv /\ [Next]_vars => [Chain!Next]_Chain!vars
  <2> SUFFICES ASSUME IInv, [Next]_vars PROVE [Chain!Next]_Chain!vars
    OBVIOUS
  <2>1. CASE UNCHANGED rows
    BY <2>1 DEF rows, Chain!vars
  <2>2. CASE UNCHANGED vars
    BY <2>2 DEF vars, rows, Chain!vars
  <2>3. ASSUME NEW r \in Requests, createSession(r) \/ Rotate(r)
        PROVE  Chain!Next
    BY <2>3, ChainCreate, ChainRotate DEF Chain!Next
  <2>4. ASSUME NEW r \in Requests, Commit(r)
        PROVE  Chain!Next
    <3>1. Chain!Close(held[r] \cap Sessions)
      BY <2>4, ChainClose
    <3>2. PICK S \in SUBSET Sessions : S = held[r] \cap Sessions
      OBVIOUS
    <3>3. Chain!Close(S)
      BY <3>1, <3>2, Zenon DEF Chain!Close
    <3> QED
      BY <3>3 DEF Chain!Next
  <2> QED
    BY <2>1, <2>2, <2>3, <2>4, RowSteps
<1> QED
  BY <1>1, <1>2, Invariance, PTL DEF Spec, ImplementsChain, Chain!Spec
=============================================================================
