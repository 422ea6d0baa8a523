---------------------------- MODULE PasswordReset ----------------------------
(***************************************************************************)
(* Password recovery of one account, as auth.service.ts serves it: a code  *)
(* is mailed, answered and traded for a reset token, and the token for a   *)
(* new password.  Requests overlap: each step is one statement or one      *)
(* awaited call, `held` the rows an open transaction has updated (see      *)
(* Sessions for the locking rules), and logins run beside them.            *)
(***************************************************************************)
EXTENDS Integers

CONSTANTS Otps,         \* ids of PasswordResetOtp rows, and the codes mailed for them
          Sessions,     \* ids of Session rows
          Passwords,
          FirstPassword,
          Requests,     \* requests in flight at the same time
          None,
          Ttl,          \* PASSWORD_RESET_OTP_TTL_MS
          MaxAttempts,  \* PASSWORD_RESET_MAX_ATTEMPTS
          MaxClock,     \* bound of the model's clock
          MaxGuesses    \* bound of the ghost counter of wrong answers

ASSUME ResetAssumption ==
  /\ FirstPassword \in Passwords
  /\ None \notin Otps \cup Passwords \cup Sessions
  /\ Ttl \in Nat \ {0}
  /\ MaxAttempts \in Nat \ {0}
  /\ MaxClock \in Nat
  /\ MaxGuesses \in Nat

VARIABLES clock,
          account,   \* the User row: status and password
          otp,       \* committed PasswordResetOtp rows
          session,   \* Session rows: "ABSENT", "ACTIVE" or "REVOKED"
          guesses,   \* ghost: wrong answers compared with each code
          pc,
          call,      \* what each request was asked, and what it has read
          held       \* rows updated, and locked, by the open transaction

rows == <<account, otp, session>>
vars == <<clock, account, otp, session, guesses, pc, call, held>>

\* tokens counts the reset tokens issued on the code; the row keeps the
\* hash of the last one.
Otp == [issued: BOOLEAN, attempts: 0..MaxAttempts, createdAt: Nat, expiresAt: Nat,
        tokens: Nat, consumed: BOOLEAN]
NoOtp == [issued |-> FALSE, attempts |-> 0, createdAt |-> 0, expiresAt |-> 0,
          tokens |-> 0, consumed |-> FALSE]

Call == [otp: Otps \cup {None}, answer: Otps \cup {None}, attempts: 0..MaxAttempts,
         token: Nat, password: Passwords \cup {None}, at: Nat, targets: SUBSET Sessions]
NoCall == [otp |-> None, answer |-> None, attempts |-> 0, token |-> 0,
           password |-> None, at |-> 0, targets |-> {}]

Labels == {"idle", "retire", "insert", "mail", "undo", "lookup", "wrong", "right",
           "check", "password", "consume", "find", "revoke", "open"}

Goto(r, label) == pc' = [pc EXCEPT ![r] = label]

Begin(r, label, c) ==
  /\ pc[r] = "idle"
  /\ Goto(r, label)
  /\ call' = [call EXCEPT ![r] = c]
  /\ UNCHANGED <<clock, rows, guesses, held>>

Finish(r) ==
  /\ Goto(r, "idle")
  /\ call' = [call EXCEPT ![r] = NoCall]
  /\ held' = [held EXCEPT ![r] = {}]
  /\ UNCHANGED clock

Free(r, row) == \A q \in Requests \ {r} : row \notin held[q]

Init ==
  /\ clock = 0
  /\ account = [status |-> "ACTIVE", password |-> FirstPassword]
  /\ otp = [o \in Otps |-> NoOtp]
  /\ session = [s \in Sessions |-> "ABSENT"]
  /\ guesses = [o \in Otps |-> 0]
  /\ pc = [r \in Requests |-> "idle"]
  /\ call = [r \in Requests |-> NoCall]
  /\ held = [r \in Requests |-> {}]

Tick ==
  /\ clock < MaxClock
  /\ clock' = clock + 1
  /\ UNCHANGED <<rows, guesses, pc, call, held>>

\* deactivateUser, whose steps Sessions has in full.
Deactivate ==
  /\ \A r \in Requests : "account" \notin held[r]
  /\ account' = [account EXCEPT !.status = "DISABLED"]
  /\ session' = [s \in Sessions |-> IF session[s] = "ACTIVE" THEN "REVOKED" ELSE session[s]]
  /\ UNCHANGED <<clock, otp, guesses, pc, call, held>>

-----------------------------------------------------------------------------
(* requestPasswordReset.  An unknown or disabled account is answered the   *)
(* same and nothing is done.                                               *)

RequestReset(r) ==
  /\ account.status = "ACTIVE"
  /\ Begin(r, "retire", [NoCall EXCEPT !.at = clock])

\* updateMany where consumedAt is null: the rows this statement can see.
RetireCodes(r) ==
  LET live == {o \in Otps : otp[o].issued /\ ~otp[o].consumed}
  IN /\ pc[r] = "retire"
     /\ \A o \in live : Free(r, o)
     /\ held' = [held EXCEPT ![r] = live]
     /\ Goto(r, "insert")
     /\ UNCHANGED <<clock, rows, guesses, call>>

InsertCode(r) ==
  /\ pc[r] = "insert"
  /\ \E o \in Otps :
       /\ ~otp[o].issued
       /\ otp' = [x \in Otps |->
            IF x = o THEN [NoOtp EXCEPT !.issued = TRUE, !.createdAt = clock,
                                        !.expiresAt = call[r].at + Ttl]
            ELSE IF x \in held[r] THEN [otp[x] EXCEPT !.consumed = TRUE]
            ELSE otp[x]]
       /\ call' = [call EXCEPT ![r].otp = o]
  /\ Goto(r, "mail")
  /\ held' = [held EXCEPT ![r] = {}]
  /\ UNCHANGED <<clock, account, session, guesses>>

SendCode(r) ==
  /\ pc[r] = "mail"
  /\ \/ Finish(r)                     \* delivery.sent
     \/ /\ Goto(r, "undo")
        /\ UNCHANGED <<clock, call, held>>
  /\ UNCHANGED <<rows, guesses>>

UndoCode(r) ==
  /\ pc[r] = "undo"
  /\ Free(r, call[r].otp)
  /\ otp' = [otp EXCEPT ![call[r].otp].consumed = TRUE]
  /\ UNCHANGED <<account, session, guesses>>
  /\ Finish(r)

-----------------------------------------------------------------------------
(* verifyPasswordResetOtp: the answer is some mailed code, or a wrong one. *)

Verify(r, answer) == Begin(r, "lookup", [NoCall EXCEPT !.answer = answer, !.at = clock])

\* The rows findFirst may return: the latest of those still open.
Latest(now) ==
  LET open == {o \in Otps : /\ otp[o].issued /\ ~otp[o].consumed
                            /\ otp[o].tokens = 0 /\ otp[o].expiresAt > now}
  IN {o \in open : \A x \in open : otp[x].createdAt <= otp[o].createdAt}

LookUp(r) ==
  /\ pc[r] = "lookup"
  /\ \/ \E o \in Latest(call[r].at) :
          /\ otp[o].attempts < MaxAttempts
          /\ guesses[o] < MaxGuesses
          /\ call' = [call EXCEPT ![r] = [@ EXCEPT !.otp = o, !.attempts = otp[o].attempts]]
          /\ Goto(r, IF call[r].answer = o THEN "right" ELSE "wrong")
          /\ guesses' = [guesses EXCEPT ![o] = IF call[r].answer = o THEN @ ELSE @ + 1]
          /\ UNCHANGED <<clock, held>>
     \/ /\ \A o \in Latest(call[r].at) :
             otp[o].attempts >= MaxAttempts \/ guesses[o] >= MaxGuesses
        /\ UNCHANGED guesses
        /\ Finish(r)
  /\ UNCHANGED rows

\* (variant of Exhausted) off by one
ExhaustedLate(attempts) == attempts > MaxAttempts

Exhausted(attempts) == attempts >= MaxAttempts

\* (variant of CountWrongAnswer) the attempts left are counted down
CountDownWrongAnswer(r) ==
  /\ pc[r] = "wrong"
  /\ Free(r, call[r].otp)
  /\ otp' = [otp EXCEPT ![call[r].otp].attempts = call[r].attempts - 1]
  /\ UNCHANGED <<account, session, guesses>>
  /\ Finish(r)

\* The update writes the attempts read at look-up, plus one.
CountWrongAnswer(r) ==
  LET o == call[r].otp
      attempts == call[r].attempts + 1
  IN /\ pc[r] = "wrong"
     /\ Free(r, o)
     /\ otp' = [otp EXCEPT ![o] = [@ EXCEPT !.attempts = attempts,
                                           !.consumed = otp[o].consumed \/ Exhausted(attempts)]]
     /\ UNCHANGED <<account, session, guesses>>
     /\ Finish(r)

\* (variant of Verifiable) an update by id that trusts the look-up
VerifiableById(o, now) == TRUE

\* What the update asks of the row once more.
Verifiable(o, now) ==
  /\ ~otp[o].consumed
  /\ otp[o].tokens = 0
  /\ otp[o].expiresAt > now

IssueToken(r) ==
  LET o == call[r].otp
  IN /\ pc[r] = "right"
     /\ Free(r, o)
     /\ otp' = IF Verifiable(o, call[r].at) THEN [otp EXCEPT ![o].tokens = @ + 1] ELSE otp
     /\ UNCHANGED <<account, session, guesses>>
     /\ Finish(r)

-----------------------------------------------------------------------------
(* confirmPasswordReset: the k-th token issued on a code, and a password.  *)
(* `now` is read and the password hashed before the transaction starts.    *)

Confirm(r, o, k, p) ==
  /\ k \in 1..otp[o].tokens
  /\ Begin(r, "check", [NoCall EXCEPT !.otp = o, !.token = k, !.password = p, !.at = clock])

CheckToken(r) ==
  LET o == call[r].otp
      good == /\ otp[o].tokens = call[r].token
              /\ ~otp[o].consumed
              /\ otp[o].expiresAt > call[r].at
  IN /\ pc[r] = "check"
     /\ \/ good /\ Goto(r, "password") /\ UNCHANGED <<clock, call, held>>
        \/ ~good /\ Finish(r)
     /\ UNCHANGED <<rows, guesses>>

UpdatePassword(r) ==
  /\ pc[r] = "password"
  /\ Free(r, "account")
  /\ held' = [held EXCEPT ![r] = @ \cup {"account"}]
  /\ Goto(r, "consume")
  /\ UNCHANGED <<clock, rows, guesses, call>>

ConsumeCode(r) ==
  /\ pc[r] = "consume"
  /\ Free(r, call[r].otp)
  /\ held' = [held EXCEPT ![r] = @ \cup {call[r].otp}]
  /\ Goto(r, "find")
  /\ UNCHANGED <<clock, rows, guesses, call>>

\* revokeAllSessions reads the ACTIVE sessions, then revokes those.
FindSessions(r) ==
  /\ pc[r] = "find"
  /\ call' = [call EXCEPT ![r].targets = {s \in Sessions : session[s] = "ACTIVE"}]
  /\ Goto(r, "revoke")
  /\ UNCHANGED <<clock, rows, guesses, held>>

\* (variant of CommitReset) the code is left as it was
CommitWithoutConsuming(r) ==
  /\ pc[r] = "revoke"
  /\ account' = [account EXCEPT !.password = call[r].password]
  /\ session' = [s \in Sessions |->
       IF s \in call[r].targets /\ session[s] = "ACTIVE" THEN "REVOKED" ELSE session[s]]
  /\ UNCHANGED <<otp, guesses>>
  /\ Finish(r)

CommitReset(r) ==
  /\ pc[r] = "revoke"
  /\ account' = [account EXCEPT !.password = call[r].password]
  /\ otp' = [otp EXCEPT ![call[r].otp].consumed = TRUE]
  /\ session' = [s \in Sessions |->
       IF s \in call[r].targets /\ session[s] = "ACTIVE" THEN "REVOKED" ELSE session[s]]
  /\ UNCHANGED guesses
  /\ Finish(r)

-----------------------------------------------------------------------------
(* login: the hash is read and compared; the session comes later.          *)

Login(r, p) ==
  /\ account = [status |-> "ACTIVE", password |-> p]
  /\ Begin(r, "open", [NoCall EXCEPT !.password = p])

OpenSession(r) ==
  /\ pc[r] = "open"
  /\ \E s \in Sessions :
       /\ session[s] = "ABSENT"
       /\ session' = [session EXCEPT ![s] = "ACTIVE"]
  /\ UNCHANGED <<account, otp, guesses>>
  /\ Finish(r)

-----------------------------------------------------------------------------
\* A request whose connection or instance is lost is rolled back, or stops
\* between two of its statements.
Abort(r) ==
  /\ pc[r] # "idle"
  /\ UNCHANGED <<rows, guesses>>
  /\ Finish(r)

\* The ids of the model are finite: a request that needs a fresh one fails.
OutOfIds(r) ==
  /\ \/ pc[r] = "insert" /\ \A o \in Otps : otp[o].issued
     \/ pc[r] = "open" /\ \A s \in Sessions : session[s] # "ABSENT"
  /\ Abort(r)

Progress(r) ==
  \/ RetireCodes(r) \/ InsertCode(r) \/ SendCode(r) \/ UndoCode(r)
  \/ LookUp(r) \/ CountWrongAnswer(r) \/ IssueToken(r)
  \/ CheckToken(r) \/ UpdatePassword(r) \/ ConsumeCode(r)
  \/ FindSessions(r) \/ CommitReset(r)
  \/ OpenSession(r) \/ OutOfIds(r)

Arrive(r) ==
  \/ RequestReset(r)
  \/ \E answer \in Otps \cup {None} :
       (answer \in Otps => otp[answer].issued) /\ Verify(r, answer)
  \/ \E o \in Otps, p \in Passwords : \E k \in 1..otp[o].tokens : Confirm(r, o, k, p)
  \/ \E p \in Passwords : Login(r, p)

Next ==
  \/ Tick
  \/ Deactivate
  \/ \E r \in Requests : Arrive(r) \/ Progress(r) \/ Abort(r)

Spec == Init /\ [][Next]_vars

-----------------------------------------------------------------------------
(* Properties                                                              *)

(* The rows of the account, the codes and the requests keep their shape;   *)
(* in particular no stale write takes the attempts past their maximum.     *)
TypeOK ==
  /\ clock \in Nat
  /\ account \in [status: {"ACTIVE", "DISABLED"}, password: Passwords]
  /\ otp \in [Otps -> Otp]
  /\ session \in [Sessions -> {"ABSENT", "ACTIVE", "REVOKED"}]
  /\ guesses \in [Otps -> Nat]
  /\ pc \in [Requests -> Labels]
  /\ call \in [Requests -> Call]
  /\ held \in [Requests -> SUBSET (Otps \cup {"account"})]

(* A code whose recorded attempts reached the maximum is consumed, though  *)
(* the answers that were counted read and wrote the row at different times *)
(* and may have overwritten each other.                                    *)
LockedOut == \A o \in Otps : otp[o].attempts >= MaxAttempts => otp[o].consumed

(* A code yields one reset token in its life, and none once it is          *)
(* consumed: two right answers, a right answer overtaken by the last wrong *)
(* one, by a newer code or by a failed delivery get a token at most once.  *)
OneTokenPerCode ==
  [][\A o \in Otps :
       /\ otp'[o].tokens # otp[o].tokens => otp[o].tokens = 0 /\ ~otp[o].consumed
       /\ otp[o].consumed => otp'[o].consumed]_vars

(* The password changes only through the token last issued on a code; the  *)
(* same step spends the code and closes every session the reset found, so  *)
(* what logins, verifications and newer codes did in between cannot leave  *)
(* the code or one of those sessions usable.                               *)
ResetIsComplete ==
  [][account'.password # account.password =>
       \E r \in Requests :
         LET o == call[r].otp
         IN /\ pc[r] = "revoke" /\ pc'[r] = "idle"
            /\ otp[o].tokens = call[r].token
            /\ otp'[o].consumed
            /\ \A s \in call[r].targets : session'[s] = "REVOKED"
            /\ \A s \in Sessions \ call[r].targets : session'[s] = session[s]]_vars

(* README: a code "accepts at most five verification attempts": no more    *)
(* wrong answers are ever compared with it.                                *)
AttemptsAreBounded == \A o \in Otps : guesses[o] <= MaxAttempts
=============================================================================
