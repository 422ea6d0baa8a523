------------------------------ MODULE Sessions ------------------------------
(***************************************************************************)
(* Server sessions and their rotating refresh tokens, as auth.service.ts   *)
(* keeps them in PostgreSQL, with the requests that work on them at the    *)
(* same time: login, refresh, logout, logout-all and deactivate.           *)
(*                                                                         *)
(* A request is one HTTP call served by one API instance.  Each Prisma     *)
(* interactive transaction runs under READ COMMITTED: a plain read sees    *)
(* the last committed row and takes no lock, an UPDATE ... WHERE waits for *)
(* the row, re-evaluates its condition on the committed row and keeps the  *)
(* row locked until the transaction ends.  The writes of a transaction     *)
(* become visible together, when it commits; a callback that throws rolls  *)
(* all of them back.  `held` is the set of rows a transaction has updated. *)
(***************************************************************************)
EXTENDS Integers, FiniteSets

CONSTANTS Users,      \* registered accounts
          Sessions,   \* ids of Session rows
          Tokens,     \* ids (hashes) of RefreshToken rows
          Requests,   \* requests in flight at the same time
          None,       \* SQL NULL
          Sliding,    \* REFRESH_TOKEN_TTL
          Absolute,   \* REFRESH_TOKEN_ABSOLUTE_TTL
          MaxClock    \* bound of the model's clock

ASSUME RowsAssumption ==
  /\ Users \cap Sessions = {}
  /\ Users \cap Tokens = {}
  /\ Sessions \cap Tokens = {}
  /\ None \notin Users \cup Sessions \cup Tokens

ASSUME TimeAssumption ==
  /\ Sliding \in Nat \ {0}
  /\ Absolute \in Nat \ {0}
  /\ MaxClock \in Nat

VARIABLES clock,    \* the wall clock the API instances and the database share
          user,     \* [Users -> status]
          session,  \* committed Session rows
          token,    \* committed RefreshToken rows
          pc,       \* where each request stands
          call,     \* what each request was asked, and what it has read
          todo,     \* rows the running UPDATE has still to visit
          held      \* rows updated, and locked, by the open transaction

rows == <<user, session, token>>
vars == <<clock, user, session, token, pc, call, todo, held>>

-----------------------------------------------------------------------------
(* The rows.  "ABSENT" is a row that does not exist yet.                   *)

UserStatus    == {"ACTIVE", "DISABLED"}
SessionStatus == {"ABSENT", "ACTIVE", "EXPIRED", "REVOKED"}
TokenStatus   == {"ABSENT", "ACTIVE", "USED", "EXPIRED", "REVOKED"}

Session == [status: SessionStatus, owner: Users \cup {None}, expiresAt: Nat,
            absoluteExpiresAt: Nat, refreshTokenHash: Tokens \cup {None}]
RefreshToken == [status: TokenStatus, session: Sessions \cup {None}, expiresAt: Nat]

NoSession == [status |-> "ABSENT", owner |-> None, expiresAt |-> 0,
              absoluteExpiresAt |-> 0, refreshTokenHash |-> None]
NoToken == [status |-> "ABSENT", session |-> None, expiresAt |-> 0]

Call == [session: Sessions \cup {None}, token: Tokens \cup {None},
         user: Users \cup {None}, at: Nat, targets: SUBSET Sessions,
         plan: {"OK", "INACTIVE", "REUSE"}]
NoCall == [session |-> None, token |-> None, user |-> None, at |-> 0,
           targets |-> {}, plan |-> "OK"]

Labels == {"idle", "login", "readSession", "readToken", "consume", "rotate",
           "userRow", "find", "sessions", "tokens"}

-----------------------------------------------------------------------------
(* Helpers                                                                 *)

\* No other open transaction has updated this row.
Free(r, row) == \A q \in Requests \ {r} : row \notin held[q]

\* (variant of ActiveTokensOf) revocation that forgets the token rows
NoTokensOf(S) == {}

ActiveTokensOf(S) ==
  {t \in Tokens : token[t].status = "ACTIVE" /\ token[t].session \in S}

\* (variants of nextRefreshExpiry) without the absolute cap; sign error
UncappedExpiry(now, absoluteExpiresAt) == now + Sliding
ExpiryInThePast(now, absoluteExpiresAt) == now - Sliding

nextRefreshExpiry(now, absoluteExpiresAt) ==
  IF now + Sliding < absoluteExpiresAt THEN now + Sliding ELSE absoluteExpiresAt

\* JwtGuard: what the guard asks of the session an access token names.
Authorised(s) ==
  /\ session[s].status = "ACTIVE"
  /\ session[s].expiresAt > clock
  /\ user[session[s].owner] = "ACTIVE"

Goto(r, label) == pc' = [pc EXCEPT ![r] = label]

Begin(r, label, c, first) ==
  /\ pc[r] = "idle"
  /\ Goto(r, label)
  /\ call' = [call EXCEPT ![r] = c]
  /\ todo' = [todo EXCEPT ![r] = first]
  /\ UNCHANGED <<clock, rows, held>>

\* The transaction ends, by commit or by rollback, and its locks go.
Finish(r) ==
  /\ Goto(r, "idle")
  /\ call' = [call EXCEPT ![r] = NoCall]
  /\ todo' = [todo EXCEPT ![r] = {}]
  /\ held' = [held EXCEPT ![r] = {}]
  /\ UNCHANGED clock

Init ==
  /\ clock = 0
  /\ user = [u \in Users |-> "ACTIVE"]
  /\ session = [s \in Sessions |-> NoSession]
  /\ token = [t \in Tokens |-> NoToken]
  /\ pc = [r \in Requests |-> "idle"]
  /\ call = [r \in Requests |-> NoCall]
  /\ todo = [r \in Requests |-> {}]
  /\ held = [r \in Requests |-> {}]

Tick ==
  /\ clock < MaxClock
  /\ clock' = clock + 1
  /\ UNCHANGED <<rows, pc, call, todo, held>>

-----------------------------------------------------------------------------
(* login: the account is read and the password compared; the session is    *)
(* created later, in a transaction of its own.                             *)

Login(r, u) ==
  /\ user[u] = "ACTIVE"
  /\ Begin(r, "login", [NoCall EXCEPT !.user = u], {})

createSession(r) ==
  /\ pc[r] = "login"
  /\ \E s \in Sessions, t \in Tokens :
       LET absolute == clock + Absolute
           expiry == nextRefreshExpiry(clock, absolute)
       IN /\ session[s].status = "ABSENT"
          /\ token[t].status = "ABSENT"
          /\ session' = [session EXCEPT ![s] =
               [status |-> "ACTIVE", owner |-> call[r].user, expiresAt |-> expiry,
                absoluteExpiresAt |-> absolute, refreshTokenHash |-> t]]
          /\ token' = [token EXCEPT ![t] =
               [status |-> "ACTIVE", session |-> s, expiresAt |-> expiry]]
  /\ UNCHANGED user
  /\ Finish(r)

-----------------------------------------------------------------------------
(* refresh: the cookies name a session and carry a token.  `now` is taken  *)
(* before the transaction starts.                                          *)

Refresh(r, s, t) ==
  /\ session[s].status # "ABSENT"
  /\ token[t].status # "ABSENT"
  /\ Begin(r, "readSession",
           [NoCall EXCEPT !.session = s, !.token = t, !.at = clock], {})

\* revokeSession and expireSession visit the same rows; the refresh that
\* calls them throws right after, so `plan` keeps the answer it will give.
RevokeAndThrow(r, plan) ==
  /\ Goto(r, "sessions")
  /\ call' = [call EXCEPT ![r].targets = {call[r].session}, ![r].plan = plan]
  /\ todo' = [todo EXCEPT ![r] = {call[r].session}]
  /\ UNCHANGED <<clock, rows, held>>

ReadSession(r) ==
  LET s == session[call[r].session]
      now == call[r].at
      expired == s.expiresAt <= now \/ s.absoluteExpiresAt <= now
  IN /\ pc[r] = "readSession"
     /\ \/ /\ s.status = "ACTIVE" /\ ~expired /\ user[s.owner] = "ACTIVE"
           /\ Goto(r, "readToken")
           /\ UNCHANGED <<clock, rows, call, todo, held>>
        \/ /\ s.status = "ACTIVE" /\ expired
           /\ RevokeAndThrow(r, "INACTIVE")
        \/ /\ s.status # "ACTIVE" \/ (~expired /\ user[s.owner] # "ACTIVE")
           /\ Finish(r)
           /\ UNCHANGED rows

ReadToken(r) ==
  LET t == token[call[r].token]
      live == t.status = "ACTIVE" /\ t.expiresAt > call[r].at
  IN /\ pc[r] = "readToken"
     /\ \/ /\ t.session # call[r].session
           /\ Finish(r)
           /\ UNCHANGED rows
        \/ /\ t.session = call[r].session /\ ~live
           /\ RevokeAndThrow(r, "REUSE")
        \/ /\ t.session = call[r].session /\ live
           /\ Goto(r, "consume")
           /\ UNCHANGED <<clock, rows, call, todo, held>>

\* (variant of Consumable) an update by id alone
ConsumableById(t) == TRUE

\* The condition PostgreSQL re-evaluates once it has the token row.
Consumable(t) == token[t].status = "ACTIVE"

\* updateMany where status = ACTIVE: of two refreshes with one token, the
\* second waits for the first and then finds no row to update.
Consume(r) ==
  LET t == call[r].token
  IN /\ pc[r] = "consume"
     /\ Free(r, t)
     /\ \/ /\ Consumable(t)
           /\ held' = [held EXCEPT ![r] = @ \cup {t}]
           /\ Goto(r, "rotate")
           /\ UNCHANGED <<clock, rows, call, todo>>
        \/ /\ ~Consumable(t)
           /\ RevokeAndThrow(r, "REUSE")

\* session.update by id, refreshToken.create and the commit.
Rotate(r) ==
  LET s == call[r].session
      t == call[r].token
      expiry == nextRefreshExpiry(call[r].at, session[s].absoluteExpiresAt)
  IN /\ pc[r] = "rotate"
     /\ Free(r, s)
     /\ \E next \in Tokens :
          /\ token[next].status = "ABSENT"
          /\ token' = [token EXCEPT
               ![t].status = "USED",
               ![next] = [status |-> "ACTIVE", session |-> s, expiresAt |-> expiry]]
          /\ session' = [session EXCEPT ![s].expiresAt = expiry,
                                        ![s].refreshTokenHash = next]
     /\ UNCHANGED user
     /\ Finish(r)

-----------------------------------------------------------------------------
(* logout, logout-all and deactivate, behind JwtGuard                      *)

Logout(r, s) ==
  /\ Authorised(s)
  /\ Begin(r, "sessions", [NoCall EXCEPT !.session = s, !.targets = {s}], {s})

LogoutAll(r, s) ==
  /\ Authorised(s)
  /\ Begin(r, "find", [NoCall EXCEPT !.session = s, !.user = session[s].owner], {})

Deactivate(r, s) ==
  /\ Authorised(s)
  /\ Begin(r, "userRow", [NoCall EXCEPT !.session = s, !.user = session[s].owner], {})

UpdateUser(r) ==
  /\ pc[r] = "userRow"
  /\ Free(r, call[r].user)
  /\ held' = [held EXCEPT ![r] = @ \cup {call[r].user}]
  /\ Goto(r, "find")
  /\ UNCHANGED <<clock, rows, call, todo>>

\* revokeAllSessions first reads which sessions of the user are ACTIVE.
FindSessions(r) ==
  LET found == {s \in Sessions : /\ session[s].status = "ACTIVE"
                                 /\ session[s].owner = call[r].user}
  IN /\ pc[r] = "find"
     /\ Goto(r, "sessions")
     /\ call' = [call EXCEPT ![r].targets = found]
     /\ todo' = [todo EXCEPT ![r] = found]
     /\ UNCHANGED <<clock, rows, held>>

\* session.updateMany where status = ACTIVE, row by row; then the statement
\* on the tokens starts from the rows that are ACTIVE and committed.
LockSession(r) ==
  /\ pc[r] = "sessions"
  /\ \E s \in todo[r] :
       /\ Free(r, s)
       /\ todo' = [todo EXCEPT ![r] = @ \ {s}]
       /\ held' = [held EXCEPT ![r] =
                     IF session[s].status = "ACTIVE" THEN @ \cup {s} ELSE @]
  /\ UNCHANGED <<clock, rows, pc, call>>

StartTokens(r) ==
  /\ pc[r] = "sessions"
  /\ todo[r] = {}
  /\ Goto(r, "tokens")
  /\ todo' = [todo EXCEPT ![r] = ActiveTokensOf(call[r].targets)]
  /\ UNCHANGED <<clock, rows, call, held>>

LockToken(r) ==
  /\ pc[r] = "tokens"
  /\ \E t \in todo[r] :
       /\ Free(r, t)
       /\ todo' = [todo EXCEPT ![r] = @ \ {t}]
       /\ held' = [held EXCEPT ![r] =
                     IF token[t].status = "ACTIVE" THEN @ \cup {t} ELSE @]
  /\ UNCHANGED <<clock, rows, pc, call>>

\* Every row the transaction updated is written, together.
Write(r) ==
  /\ user' = [u \in Users |-> IF u \in held[r] THEN "DISABLED" ELSE user[u]]
  /\ session' = [s \in Sessions |->
       IF s \in held[r] THEN [session[s] EXCEPT !.status = "REVOKED"] ELSE session[s]]
  /\ token' = [t \in Tokens |->
       IF t \in held[r] THEN [token[t] EXCEPT !.status = "REVOKED"] ELSE token[t]]

Commit(r) ==
  /\ pc[r] = "tokens"
  /\ todo[r] = {}
  /\ call[r].plan = "OK"
  /\ Write(r)
  /\ Finish(r)

\* A refresh that revoked or expired the session throws out of the
\* transaction callback: Prisma rolls the transaction back.
ThrowUnauthorized(r) ==
  /\ pc[r] = "tokens"
  /\ todo[r] = {}
  /\ call[r].plan # "OK"
  /\ UNCHANGED rows
  /\ Finish(r)

-----------------------------------------------------------------------------
(* Failures.  A transaction may be rolled back at any point: lost          *)
(* connection, dead API instance, transaction timeout.  PostgreSQL breaks  *)
(* a cycle of waiting transactions by rolling one of them back.            *)

Abort(r) ==
  /\ pc[r] # "idle"
  /\ UNCHANGED rows
  /\ Finish(r)

\* The ids of the model are finite: a request that needs a fresh one fails.
OutOfIds(r) ==
  /\ \/ /\ pc[r] = "login"
        /\ \A s \in Sessions : session[s].status # "ABSENT"
     \/ /\ pc[r] \in {"login", "rotate"}
        /\ \A t \in Tokens : token[t].status # "ABSENT"
  /\ Abort(r)

-----------------------------------------------------------------------------
Progress(r) ==
  \/ createSession(r)
  \/ ReadSession(r) \/ ReadToken(r) \/ Consume(r) \/ Rotate(r)
  \/ UpdateUser(r) \/ FindSessions(r)
  \/ LockSession(r) \/ StartTokens(r) \/ LockToken(r)
  \/ Commit(r) \/ ThrowUnauthorized(r) \/ OutOfIds(r)

Arrive(r) ==
  \/ \E u \in Users : Login(r, u)
  \/ \E s \in Sessions, t \in Tokens : Refresh(r, s, t)
  \/ \E s \in Sessions : Logout(r, s) \/ LogoutAll(r, s) \/ Deactivate(r, s)

Next ==
  \/ Tick
  \/ \E r \in Requests : Arrive(r) \/ Progress(r) \/ Abort(r)

Spec == Init /\ [][Next]_vars

-----------------------------------------------------------------------------
(* Properties                                                              *)

(* Every variable keeps the shape of its rows; expiry times never become   *)
(* negative and a request never forgets what it is about.                  *)
TypeOK ==
  /\ clock \in Nat
  /\ user \in [Users -> UserStatus]
  /\ session \in [Sessions -> Session]
  /\ token \in [Tokens -> RefreshToken]
  /\ pc \in [Requests -> Labels]
  /\ call \in [Requests -> Call]
  /\ todo \in [Requests -> SUBSET (Sessions \cup Tokens)]
  /\ held \in [Requests -> SUBSET (Users \cup Sessions \cup Tokens)]

(* An ACTIVE session has exactly one ACTIVE refresh token, the one its row *)
(* names, and a session that is not ACTIVE has none, however refreshes,    *)
(* logouts and rollbacks interleave: a lost race never leaves a second     *)
(* usable token behind and a revocation never misses the one just issued.  *)
OneLiveToken ==
  /\ \A t \in Tokens : token[t].status = "ACTIVE" =>
       /\ session[token[t].session].status = "ACTIVE"
       /\ session[token[t].session].refreshTokenHash = t
  /\ \A s \in Sessions : session[s].status = "ACTIVE" =>
       token[session[s].refreshTokenHash].status = "ACTIVE"

(* JwtGuard compares expiresAt alone; a session it lets through is still   *)
(* within the absolute lifetime it was created with, however often and     *)
(* with however old a clock reading it was refreshed.                      *)
AuthorisedWithinAbsolute ==
  \A s \in Sessions : Authorised(s) => clock < session[s].absoluteExpiresAt

(* A revoked or expired session is over: its row is never written again -  *)
(* the refresh that updates it by id cannot bring it back or extend it -   *)
(* and neither is a token of its, nor is it given one.                     *)
ClosedIsFinal ==
  [][\A s \in Sessions : session[s].status \in {"REVOKED", "EXPIRED"} =>
       /\ session'[s] = session[s]
       /\ \A t \in Tokens : s \in {token[t].session, token'[t].session} =>
            token'[t] = token[t]]_vars

(* A refresh token that is USED, REVOKED or EXPIRED stays so, and a token  *)
(* is issued to an existing session only by retiring its live token in the *)
(* same step: one presented token never buys two successors.               *)
OneSuccessorPerToken ==
  [][\A t \in Tokens :
       /\ token[t].status \notin {"ABSENT", "ACTIVE"} => token'[t] = token[t]
       /\ token[t].status = "ABSENT" /\ token'[t].status = "ACTIVE" =>
            LET s == token'[t].session
            IN \/ session[s].status = "ABSENT"
               \/ /\ token[session[s].refreshTokenHash].status = "ACTIVE"
                  /\ token'[session[s].refreshTokenHash].status = "USED"]_vars

(* A rotation never shortens the session: the clock reading a refresh      *)
(* carries is never older than the one that issued the token it presents.  *)
ExpiryNeverRecedes ==
  [][\A s \in Sessions : session[s].status = "ACTIVE" =>
       session'[s].expiresAt >= session[s].expiresAt]_vars

(* When logout, logout-all or deactivate answers, no session it found      *)
(* ACTIVE is still ACTIVE and no token of those sessions can be refreshed, *)
(* not even one issued by a refresh that ran between its two reads.        *)
RevocationIsComplete ==
  [][\A r \in Requests : Commit(r) =>
       /\ \A s \in call[r].targets : session'[s].status # "ACTIVE"
       /\ \A t \in Tokens : token'[t].status = "ACTIVE" =>
            token'[t].session \notin call[r].targets]_vars

(* The tests say that a refresh which detects the reuse of a token revokes *)
(* the session: once it has answered so, the session is not ACTIVE.        *)
ReuseRevokesSession ==
  [][\A r \in Requests : ThrowUnauthorized(r) /\ call[r].plan = "REUSE" =>
       session'[call[r].session].status # "ACTIVE"]_vars

-----------------------------------------------------------------------------
(* The sessions implement the chains of RefreshChain: the live token is    *)
(* the one an ACTIVE session names, a spent one is any issued token that   *)
(* is not ACTIVE.                                                          *)
Chain == INSTANCE RefreshChain WITH
  live   <- [s \in Sessions |->
               IF session[s].status = "ACTIVE" THEN session[s].refreshTokenHash ELSE None],
  opened <- {s \in Sessions : session[s].status # "ABSENT"},
  spent  <- {t \in Tokens : token[t].status \notin {"ABSENT", "ACTIVE"}}

ImplementsChain == Chain!Spec
=============================================================================
