------------------------- MODULE PasswordResetProofs --------------------------
(***************************************************************************)
(* Safety of PasswordReset for any number of codes, sessions, passwords    *)
(* and requests, and any number of attempts.                               *)
(***************************************************************************)
EXTENDS PasswordReset, TLAPS

-----------------------------------------------------------------------------
(* The inductive invariant.                                                *)

\* A row nobody has inserted says nothing.
Unissued == \A o \in Otps : ~otp[o].issued => otp[o] = NoOtp

Resetting == {"password", "consume", "find", "revoke"}

\* How far a request has come, and what it has read that no other request
\* can have taken back.
CallInv(r) ==
  LET c == call[r]
  IN /\ pc[r] = "insert" => \A o \in held[r] : o \in Otps /\ otp[o].issued
     /\ pc[r] \in {"mail", "undo", "wrong", "right", "check"} \cup Resetting =>
          c.otp \in Otps /\ otp[c.otp].issued
     /\ pc[r] = "wrong" => c.attempts < MaxAttempts
     /\ pc[r] \in {"check"} \cup Resetting => c.token # 0 /\ c.password \in Passwords
     /\ pc[r] \in Resetting => otp[c.otp].tokens = c.token
     /\ pc[r] = "revoke" => \A s \in c.targets : session[s] # "ABSENT"

IInv ==
  /\ TypeOK
  /\ Unissued
  /\ LockedOut
  /\ \A r \in Requests : CallInv(r)

-----------------------------------------------------------------------------
(* What no step takes back: a row, the one token of a code, the end of a   *)
(* code, a session that was opened.                                        *)

Kept ==
  /\ \A o \in Otps : /\ otp[o].issued => otp'[o].issued
                     /\ otp'[o].tokens # otp[o].tokens => otp[o].tokens = 0 /\ ~otp[o].consumed
                     /\ otp[o].consumed => otp'[o].consumed
  /\ \A s \in Sessions : session[s] # "ABSENT" => session'[s] # "ABSENT"

\* Every step preserves the invariant and keeps what must be kept.
Good == IInv' /\ Kept

\* A step leaves the requests alone that do not take it.
LEMMA CallStays ==
  ASSUME IInv, Kept, NEW q \in Requests,
         pc'[q] = pc[q], call'[q] = call[q], held'[q] = held[q]
  PROVE  CallInv(q)'
<1>1. CallInv(q)
  BY DEF IInv
<1>2. call[q].targets \subseteq Sessions
  BY DEF IInv, TypeOK, Call
<1> QED
  BY <1>1, <1>2 DEF Kept, CallInv, Resetting

LEMMA NoCallIsCall == NoCall \in Call /\ "idle" \in Labels
BY ResetAssumption DEF NoCall, Call, Labels

\* A request reads, or takes locks.
LEMMA ReadStep ==
  ASSUME IInv, NEW r \in Requests, UNCHANGED rows, clock' \in Nat, guesses' \in [Otps -> Nat],
         NEW label \in Labels, NEW c \in Call, NEW locks \in SUBSET (Otps \cup {"account"}),
         pc' = [pc EXCEPT ![r] = label], call' = [call EXCEPT ![r] = c],
         held' = [held EXCEPT ![r] = locks], CallInv(r)'
  PROVE  Good
<1>1. TypeOK'
  BY DEF IInv, TypeOK, rows
<1>2. Kept
  BY DEF Kept, rows, IInv, TypeOK
<1>3. \A q \in Requests : CallInv(q)'
  BY CallStays, <1>2 DEF IInv, TypeOK
<1>4. Unissued' /\ LockedOut'
  BY DEF IInv, Unissued, LockedOut, rows
<1> QED
  BY <1>1, <1>2, <1>3, <1>4 DEF IInv, Good

\* A request writes and ends.
LEMMA WriteStep ==
  ASSUME IInv, NEW r \in Requests, Finish(r), Kept, guesses' = guesses,
         account' \in [status: {"ACTIVE", "DISABLED"}, password: Passwords],
         otp' \in [Otps -> Otp], session' \in [Sessions -> {"ABSENT", "ACTIVE", "REVOKED"}],
         Unissued', LockedOut'
  PROVE  Good
<1>1. /\ pc' = [pc EXCEPT ![r] = "idle"] /\ call' = [call EXCEPT ![r] = NoCall]
      /\ held' = [held EXCEPT ![r] = {}] /\ clock' = clock
  BY DEF Finish, Goto
<1>2. TypeOK'
  BY <1>1, NoCallIsCall DEF IInv, TypeOK
<1>3. CallInv(r)'
  BY <1>1 DEF CallInv, IInv, TypeOK, Resetting
<1>4. ASSUME NEW q \in Requests, q # r PROVE CallInv(q)'
  BY <1>1, <1>4, CallStays DEF IInv, TypeOK
<1> QED
  BY <1>2, <1>3, <1>4 DEF IInv, Good

\* A request ends and writes nothing.
LEMMA AbortStep == ASSUME IInv, NEW r \in Requests, UNCHANGED <<rows, guesses>>, Finish(r)
                   PROVE  Good
<1>1. /\ pc' = [pc EXCEPT ![r] = "idle"] /\ call' = [call EXCEPT ![r] = NoCall]
      /\ held' = [held EXCEPT ![r] = {}] /\ clock' = clock
  BY DEF Finish, Goto
<1>2. CallInv(r)'
  BY <1>1 DEF CallInv, IInv, TypeOK, Resetting
<1>3. clock' \in Nat /\ guesses' \in [Otps -> Nat]
  BY <1>1 DEF IInv, TypeOK
<1> QED
  BY <1>1, <1>2, <1>3, NoCallIsCall, ReadStep

-----------------------------------------------------------------------------
LEMMA InitStep == Init => IInv
<1> SUFFICES ASSUME Init PROVE IInv
  OBVIOUS
<1>1. NoOtp \in Otp /\ ~NoOtp.issued /\ NoOtp.attempts = 0
  BY ResetAssumption DEF NoOtp, Otp
<1>2. TypeOK
  BY <1>1, NoCallIsCall, ResetAssumption DEF Init, TypeOK
<1>3. Unissued /\ LockedOut
  BY <1>1, ResetAssumption DEF Init, Unissued, LockedOut
<1>4. \A r \in Requests : CallInv(r)
  BY DEF Init, CallInv, Resetting
<1> QED
  BY <1>2, <1>3, <1>4 DEF IInv

LEMMA TickStep == ASSUME IInv, Tick PROVE Good
<1>1. TypeOK'
  BY DEF IInv, TypeOK, Tick, rows
<1>2. Kept
  BY DEF Kept, Tick, rows
<1>3. Unissued' /\ LockedOut'
  BY DEF IInv, Unissued, LockedOut, Tick, rows
<1>4. \A q \in Requests : CallInv(q)'
  BY <1>2, CallStays DEF Tick
<1> QED
  BY <1>1, <1>2, <1>3, <1>4 DEF IInv, Good

LEMMA DeactivateStep == ASSUME IInv, Deactivate PROVE Good
<1>1. TypeOK'
  BY DEF IInv, TypeOK, Deactivate
<1>2. Kept
  BY DEF Kept, Deactivate, IInv, TypeOK
<1>3. Unissued' /\ LockedOut'
  BY DEF IInv, Unissued, LockedOut, Deactivate
<1>4. \A q \in Requests : CallInv(q)'
  BY <1>2, CallStays DEF Deactivate
<1> QED
  BY <1>1, <1>2, <1>3, <1>4 DEF IInv, Good

-----------------------------------------------------------------------------
(* requestPasswordReset                                                    *)

\* A request that begins has read what its first step needs.
LEMMA BeginStep ==
  ASSUME IInv, NEW r \in Requests, NEW label \in {"retire", "lookup", "check", "open"},
         NEW c \in Call, Begin(r, label, c),
         label = "check" => c.otp \in Otps /\ c.token \in 1..otp[c.otp].tokens
                            /\ c.password \in Passwords
  PROVE  Good
<1>1. /\ pc' = [pc EXCEPT ![r] = label] /\ call' = [call EXCEPT ![r] = c]
      /\ UNCHANGED <<clock, rows, guesses, held>>
  BY DEF Begin, Goto
<1>2. held' = [held EXCEPT ![r] = held[r]] /\ held[r] \in SUBSET (Otps \cup {"account"})
  BY <1>1 DEF IInv, TypeOK
<1>3. label \in Labels /\ clock' \in Nat /\ guesses' \in [Otps -> Nat]
  BY <1>1 DEF Labels, IInv, TypeOK
<1>4. pc'[r] = label /\ call'[r] = c
  BY <1>1 DEF IInv, TypeOK
<1>5. label = "check" => otp[c.otp].issued
  <2> SUFFICES ASSUME label = "check", ~otp[c.otp].issued PROVE FALSE
    OBVIOUS
  <2>1. otp[c.otp] = NoOtp
    BY DEF IInv, Unissued
  <2> QED
    BY <2>1 DEF NoOtp
<1>6. label = "check" => c.token # 0
  BY DEF IInv, TypeOK, Otp
<1>7. CallInv(r)'
  BY <1>1, <1>4, <1>5, <1>6 DEF CallInv, Resetting, rows
<1> QED
  BY <1>1, <1>2, <1>3, <1>7, ReadStep

LEMMA ArriveStep == ASSUME IInv, NEW r \in Requests, Arrive(r) PROVE Good
<1> USE ResetAssumption
<1>1. clock \in Nat
  BY DEF IInv, TypeOK
<1>2. CASE RequestReset(r)
  <2>1. [NoCall EXCEPT !.at = clock] \in Call
    BY <1>1 DEF NoCall, Call
  <2> QED
    BY <1>2, <2>1, BeginStep DEF RequestReset
<1>3. ASSUME NEW answer \in Otps \cup {None}, Verify(r, answer) PROVE Good
  <2> DEFINE c == [NoCall EXCEPT !.answer = answer, !.at = clock]
  <2>1. c \in Call
    BY <1>1, NoCallIsCall DEF Call
  <2>2. Begin(r, "lookup", c)
    BY <1>3 DEF Verify
  <2> HIDE DEF c
  <2> QED
    BY <2>1, <2>2, BeginStep
<1>4. ASSUME NEW o \in Otps, NEW p \in Passwords, NEW k \in 1..otp[o].tokens, Confirm(r, o, k, p)
      PROVE  Good
  <2> DEFINE c == [NoCall EXCEPT !.otp = o, !.token = k, !.password = p, !.at = clock]
  <2>1. otp[o].tokens \in Nat
    BY DEF IInv, TypeOK, Otp
  <2>2. k \in Nat
    BY <2>1
  <2>3. c \in Call /\ c.otp = o /\ c.token = k /\ c.password = p
    BY <1>1, <2>2, NoCallIsCall DEF Call
  <2>4. Begin(r, "check", c)
    BY <1>4 DEF Confirm
  <2> HIDE DEF c
  <2> QED
    BY <2>3, <2>4, BeginStep
<1>5. ASSUME NEW p \in Passwords, Login(r, p) PROVE Good
  <2>1. [NoCall EXCEPT !.password = p] \in Call
    BY DEF NoCall, Call
  <2> QED
    BY <1>5, <2>1, BeginStep DEF Login
<1> QED
  BY <1>2, <1>3, <1>4, <1>5 DEF Arrive

\* A step that only moves a request on, and may take locks.
LEMMA MoveStep ==
  ASSUME IInv, NEW r \in Requests, NEW label \in Labels,
         NEW locks \in SUBSET (Otps \cup {"account"}),
         Goto(r, label), held' = [held EXCEPT ![r] = locks],
         UNCHANGED <<clock, rows, guesses, call>>, CallInv(r)'
  PROVE  Good
<1>1. call' = [call EXCEPT ![r] = call[r]] /\ call[r] \in Call
  BY DEF IInv, TypeOK
<1>2. clock' \in Nat /\ guesses' \in [Otps -> Nat]
  BY DEF IInv, TypeOK
<1> QED
  BY <1>1, <1>2, ReadStep DEF Goto

LEMMA RetireStep == ASSUME IInv, NEW r \in Requests, RetireCodes(r) PROVE Good
<1> DEFINE live == {o \in Otps : otp[o].issued /\ ~otp[o].consumed}
<1>1. held' = [held EXCEPT ![r] = live] /\ Goto(r, "insert")
      /\ UNCHANGED <<clock, rows, guesses, call>>
  BY DEF RetireCodes
<1>2. CallInv(r)'
  BY <1>1 DEF Goto, CallInv, Resetting, IInv, TypeOK, rows
<1>3. "insert" \in Labels /\ live \in SUBSET (Otps \cup {"account"})
  BY DEF Labels
<1> HIDE DEF live
<1> QED
  BY <1>1, <1>2, <1>3, MoveStep

LEMMA InsertStep == ASSUME IInv, NEW r \in Requests, InsertCode(r) PROVE Good
<1> USE ResetAssumption
<1>1. PICK o \in Otps :
        /\ ~otp[o].issued
        /\ otp' = [x \in Otps |->
             IF x = o THEN [NoOtp EXCEPT !.issued = TRUE, !.createdAt = clock,
                                         !.expiresAt = call[r].at + Ttl]
             ELSE IF x \in held[r] THEN [otp[x] EXCEPT !.consumed = TRUE]
             ELSE otp[x]]
        /\ call' = [call EXCEPT ![r].otp = o]
  BY DEF InsertCode
<1> DEFINE row == [NoOtp EXCEPT !.issued = TRUE, !.createdAt = clock,
                                !.expiresAt = call[r].at + Ttl]
           c == [call[r] EXCEPT !.otp = o]
<1>2. pc' = [pc EXCEPT ![r] = "mail"] /\ held' = [held EXCEPT ![r] = {}]
      /\ UNCHANGED <<clock, account, session, guesses>>
  BY DEF InsertCode, Goto
<1>3. call[r] \in Call /\ clock \in Nat
  BY DEF IInv, TypeOK
<1>4. NoOtp \in Otp /\ NoOtp.attempts = 0 /\ NoOtp.tokens = 0
  BY DEF NoOtp, Otp
<1>5. row \in Otp /\ row.issued /\ row.attempts = 0 /\ row.tokens = 0
  <2>1. call[r].at + Ttl \in Nat
    BY <1>3 DEF Call
  <2> QED
    BY <1>3, <1>4, <2>1 DEF Otp
<1>6. c \in Call /\ c.otp = o
  BY <1>3 DEF Call
<1>7. otp[o] = NoOtp
  BY <1>1 DEF IInv, Unissued
<1>8. otp[o].tokens = 0 /\ ~otp[o].consumed
  BY <1>7 DEF NoOtp
<1>9. otp' = [x \in Otps |-> IF x = o THEN row
                             ELSE IF x \in held[r] THEN [otp[x] EXCEPT !.consumed = TRUE]
                             ELSE otp[x]]
  BY <1>1
<1>10. call' = [call EXCEPT ![r] = c]
  BY <1>1
<1> HIDE DEF row, c
<1>11. ASSUME NEW x \in Otps
       PROVE  /\ otp'[x] \in Otp
              /\ otp[x].issued => otp'[x].issued
              /\ otp'[x].tokens # otp[x].tokens => otp[x].tokens = 0 /\ ~otp[x].consumed
              /\ otp[x].consumed => otp'[x].consumed
              /\ otp'[x].attempts >= MaxAttempts => otp'[x].consumed
  <2>1. CASE x = o
    <3>1. otp'[x] = row
      BY <1>9, <2>1
    <3> QED
      BY <1>1, <1>5, <1>8, <2>1, <3>1
  <2>2. CASE x # o
    <3>1. otp[x] \in Otp /\ (otp[x].attempts >= MaxAttempts => otp[x].consumed)
      BY DEF IInv, TypeOK, LockedOut
    <3>2. otp'[x] = [otp[x] EXCEPT !.consumed = TRUE] \/ otp'[x] = otp[x]
      BY <1>9, <2>2
    <3> QED
      BY <3>1, <3>2 DEF Otp
  <2> QED
    BY <2>1, <2>2
<1>12. \A x \in Otps : ~otp'[x].issued => x # o /\ ~otp[x].issued
  BY <1>5, <1>9, <1>11
<1>13. ASSUME NEW x \in Otps, ~otp'[x].issued PROVE otp'[x] = NoOtp
  <2>1. x # o /\ otp[x] = NoOtp /\ ~otp[x].issued
    BY <1>12, <1>13 DEF IInv, Unissued
  <2>2. x \notin held[r]
    BY <2>1 DEF IInv, CallInv, InsertCode
  <2> QED
    BY <1>9, <2>1, <2>2
<1>14. TypeOK'
  <2>1. call' \in [Requests -> Call] /\ pc' \in [Requests -> Labels]
        /\ held' \in [Requests -> SUBSET (Otps \cup {"account"})]
    BY <1>2, <1>6, <1>10 DEF IInv, TypeOK, Labels
  <2>2. otp' \in [Otps -> Otp]
    BY <1>9, <1>11
  <2> QED
    BY <1>2, <2>1, <2>2 DEF IInv, TypeOK
<1>15. Kept
  BY <1>2, <1>11 DEF Kept
<1>16. CallInv(r)'
  <2>1. pc'[r] = "mail" /\ call'[r] = c
    BY <1>2, <1>10 DEF IInv, TypeOK
  <2>2. otp'[o].issued
    BY <1>5, <1>9
  <2> QED
    BY <1>6, <2>1, <2>2 DEF CallInv, Resetting
<1>17. ASSUME NEW q \in Requests, q # r PROVE CallInv(q)'
  BY <1>2, <1>10, <1>15, <1>17, CallStays DEF IInv, TypeOK
<1>18. Unissued' /\ LockedOut'
  BY <1>11, <1>13 DEF Unissued, LockedOut
<1> QED
  BY <1>14, <1>15, <1>16, <1>17, <1>18 DEF IInv, Good

LEMMA SendStep == ASSUME IInv, NEW r \in Requests, SendCode(r) PROVE Good
<1>1. CASE Finish(r)
  BY <1>1, AbortStep DEF SendCode
<1>2. CASE Goto(r, "undo") /\ UNCHANGED <<clock, call, held>>
  <2>1. held' = [held EXCEPT ![r] = held[r]] /\ held[r] \in SUBSET (Otps \cup {"account"})
    BY <1>2 DEF IInv, TypeOK
  <2>2. CallInv(r)'
    BY <1>2 DEF SendCode, Goto, CallInv, Resetting, IInv, TypeOK, rows
  <2>3. "undo" \in Labels
    BY DEF Labels
  <2> QED
    BY <1>2, <2>1, <2>2, <2>3, MoveStep DEF SendCode
<1> QED
  BY <1>1, <1>2 DEF SendCode

\* The code a request works on gets another row.
LEMMA RowStep ==
  ASSUME IInv, NEW r \in Requests, Finish(r), UNCHANGED <<account, session, guesses>>,
         NEW o \in Otps, otp[o].issued, NEW row \in Otp, otp' = [otp EXCEPT ![o] = row],
         row.issued, row.tokens # otp[o].tokens => otp[o].tokens = 0 /\ ~otp[o].consumed,
         otp[o].consumed => row.consumed, row.attempts >= MaxAttempts => row.consumed
  PROVE  Good
<1>1. otp' \in [Otps -> Otp] /\ otp'[o] = row /\ \A x \in Otps \ {o} : otp'[x] = otp[x]
  BY DEF IInv, TypeOK
<1>2. Kept
  BY <1>1 DEF Kept
<1>3. Unissued' /\ LockedOut'
  BY <1>1 DEF IInv, Unissued, LockedOut
<1>4. /\ account' \in [status: {"ACTIVE", "DISABLED"}, password: Passwords]
      /\ session' \in [Sessions -> {"ABSENT", "ACTIVE", "REVOKED"}]
  BY DEF IInv, TypeOK
<1> QED
  BY <1>1, <1>2, <1>3, <1>4, WriteStep

LEMMA UndoStep == ASSUME IInv, NEW r \in Requests, UndoCode(r) PROVE Good
<1> DEFINE o == call[r].otp
           row == [otp[o] EXCEPT !.consumed = TRUE]
<1>1. o \in Otps /\ otp[o].issued
  BY DEF UndoCode, IInv, CallInv
<1>2. otp[o] \in Otp
  BY <1>1 DEF IInv, TypeOK
<1>3. row \in Otp /\ row.issued = otp[o].issued /\ row.tokens = otp[o].tokens /\ row.consumed
  BY <1>2 DEF Otp
<1>4. otp' = [otp EXCEPT ![o] = row] /\ Finish(r) /\ UNCHANGED <<account, session, guesses>>
  BY DEF UndoCode
<1> HIDE DEF o, row
<1> QED
  BY <1>1, <1>3, <1>4, RowStep

-----------------------------------------------------------------------------
(* verifyPasswordResetOtp                                                  *)

LEMMA LookUpStep == ASSUME IInv, NEW r \in Requests, LookUp(r) PROVE Good
<1>1. CASE Finish(r) /\ UNCHANGED guesses
  BY <1>1, AbortStep DEF LookUp
<1>2. ASSUME NEW o \in Latest(call[r].at),
             otp[o].attempts < MaxAttempts,
             call' = [call EXCEPT ![r] = [@ EXCEPT !.otp = o, !.attempts = otp[o].attempts]],
             Goto(r, IF call[r].answer = o THEN "right" ELSE "wrong"),
             guesses' = [guesses EXCEPT ![o] = IF call[r].answer = o THEN @ ELSE @ + 1],
             UNCHANGED <<clock, held, rows>>
      PROVE  Good
  <2> DEFINE c == [call[r] EXCEPT !.otp = o, !.attempts = otp[o].attempts]
             label == IF call[r].answer = o THEN "right" ELSE "wrong"
  <2>1. o \in Otps /\ otp[o].issued
    BY DEF Latest
  <2>2. call[r] \in Call /\ otp[o] \in Otp
    BY <2>1 DEF IInv, TypeOK
  <2>3. otp[o].attempts \in 0..MaxAttempts
    BY <2>2 DEF Otp
  <2>4. c \in Call /\ c.otp = o /\ c.attempts = otp[o].attempts
    BY <2>1, <2>2, <2>3 DEF Call
  <2>5. guesses' \in [Otps -> Nat] /\ clock' \in Nat
    BY <1>2, <2>1 DEF IInv, TypeOK
  <2>6. label \in {"right", "wrong"} /\ label \in Labels /\ pc' = [pc EXCEPT ![r] = label]
    BY <1>2 DEF Goto, Labels
  <2>7. call' = [call EXCEPT ![r] = c]
    BY <1>2
  <2>8. held' = [held EXCEPT ![r] = held[r]] /\ held[r] \in SUBSET (Otps \cup {"account"})
    BY <1>2 DEF IInv, TypeOK
  <2> HIDE DEF c, label
  <2>9. CallInv(r)'
    <3>1. pc'[r] = label /\ call'[r] = c /\ otp' = otp
      BY <1>2, <2>6, <2>7 DEF IInv, TypeOK, rows
    <3> QED
      BY <1>2, <2>1, <2>4, <2>6, <3>1 DEF CallInv, Resetting
  <2> QED
    BY <1>2, <2>4, <2>5, <2>6, <2>7, <2>8, <2>9, ReadStep
<1> QED
  BY <1>1, <1>2 DEF LookUp

\* However old the count that is written, it stays below the maximum or
\* consumes the code.
LEMMA CountStep == ASSUME IInv, NEW r \in Requests, CountWrongAnswer(r) PROVE Good
<1> USE ResetAssumption
<1> DEFINE o == call[r].otp
           attempts == call[r].attempts + 1
           row == [otp[o] EXCEPT !.attempts = attempts,
                                 !.consumed = otp[o].consumed \/ Exhausted(attempts)]
<1>1. o \in Otps /\ otp[o].issued /\ call[r].attempts < MaxAttempts
  BY DEF CountWrongAnswer, IInv, CallInv
<1>2. otp[o] \in Otp /\ call[r] \in Call
  BY <1>1 DEF IInv, TypeOK
<1>3. attempts \in 0..MaxAttempts
  BY <1>1, <1>2 DEF Call
<1>4. otp' = [otp EXCEPT ![o] = row] /\ Finish(r) /\ UNCHANGED <<account, session, guesses>>
  BY DEF CountWrongAnswer
<1> HIDE DEF attempts
<1>5. Exhausted(attempts) \in BOOLEAN /\ (attempts >= MaxAttempts => Exhausted(attempts))
  BY DEF Exhausted
<1>6. /\ row \in Otp
      /\ row.issued = otp[o].issued /\ row.tokens = otp[o].tokens
      /\ otp[o].consumed => row.consumed
      /\ row.attempts >= MaxAttempts => row.consumed
  BY <1>2, <1>3, <1>5 DEF Otp
<1> HIDE DEF o, row
<1> QED
  BY <1>1, <1>4, <1>6, RowStep

LEMMA IssueStep == ASSUME IInv, NEW r \in Requests, IssueToken(r) PROVE Good
<1> DEFINE o == call[r].otp
           row == [otp[o] EXCEPT !.tokens = @ + 1]
<1>1. o \in Otps /\ otp[o].issued /\ Finish(r) /\ UNCHANGED <<account, session, guesses>>
  BY DEF IssueToken, IInv, CallInv
<1>2. CASE otp' = otp
  BY <1>1, <1>2, AbortStep DEF rows
<1>3. CASE Verifiable(o, call[r].at) /\ otp' = [otp EXCEPT ![o].tokens = @ + 1]
  <2>1. otp[o] \in Otp /\ ~otp[o].consumed /\ otp[o].tokens = 0
    BY <1>1, <1>3 DEF IInv, TypeOK, Verifiable
  <2>2. /\ row \in Otp /\ row.issued = otp[o].issued /\ row.attempts = otp[o].attempts
        /\ row.consumed = otp[o].consumed
    BY <2>1 DEF Otp
  <2>3. row.attempts >= MaxAttempts => row.consumed
    BY <1>1, <2>2 DEF IInv, LockedOut
  <2>4. otp' = [otp EXCEPT ![o] = row]
    BY <1>3
  <2> HIDE DEF o, row
  <2> QED
    BY <1>1, <2>1, <2>2, <2>3, <2>4, RowStep
<1> QED
  BY <1>2, <1>3 DEF IssueToken

-----------------------------------------------------------------------------
(* confirmPasswordReset                                                    *)

LEMMA CheckStep == ASSUME IInv, NEW r \in Requests, CheckToken(r) PROVE Good
<1>1. CASE Finish(r)
  BY <1>1, AbortStep DEF CheckToken
<1>2. CASE /\ otp[call[r].otp].tokens = call[r].token
           /\ Goto(r, "password") /\ UNCHANGED <<clock, call, held>>
  <2>1. held' = [held EXCEPT ![r] = held[r]] /\ held[r] \in SUBSET (Otps \cup {"account"})
    BY <1>2 DEF IInv, TypeOK
  <2>2. CallInv(r)'
    BY <1>2 DEF CheckToken, Goto, CallInv, Resetting, IInv, TypeOK, rows
  <2>3. "password" \in Labels
    BY DEF Labels
  <2> QED
    BY <1>2, <2>1, <2>2, <2>3, MoveStep DEF CheckToken
<1> QED
  BY <1>1, <1>2 DEF CheckToken

LEMMA PasswordStep == ASSUME IInv, NEW r \in Requests, UpdatePassword(r) PROVE Good
<1>1. held' = [held EXCEPT ![r] = held[r] \cup {"account"}] /\ Goto(r, "consume")
      /\ UNCHANGED <<clock, rows, guesses, call>>
  BY DEF UpdatePassword
<1>2. held[r] \cup {"account"} \in SUBSET (Otps \cup {"account"}) /\ "consume" \in Labels
  BY DEF IInv, TypeOK, Labels
<1>3. CallInv(r)'
  BY DEF UpdatePassword, Goto, CallInv, Resetting, IInv, TypeOK, rows
<1> QED
  BY <1>1, <1>2, <1>3, MoveStep

LEMMA ConsumeStep == ASSUME IInv, NEW r \in Requests, ConsumeCode(r) PROVE Good
<1>1. held' = [held EXCEPT ![r] = held[r] \cup {call[r].otp}] /\ Goto(r, "find")
      /\ UNCHANGED <<clock, rows, guesses, call>>
  BY DEF ConsumeCode
<1>2. call[r].otp \in Otps
  BY DEF ConsumeCode, IInv, CallInv, Resetting
<1>3. held[r] \cup {call[r].otp} \in SUBSET (Otps \cup {"account"}) /\ "find" \in Labels
  BY <1>2 DEF IInv, TypeOK, Labels
<1>4. CallInv(r)'
  BY DEF ConsumeCode, Goto, CallInv, Resetting, IInv, TypeOK, rows
<1> QED
  BY <1>1, <1>3, <1>4, MoveStep

LEMMA FindStep == ASSUME IInv, NEW r \in Requests, FindSessions(r) PROVE Good
<1> DEFINE active == {s \in Sessions : session[s] = "ACTIVE"}
           c == [call[r] EXCEPT !.targets = active]
<1>1. call' = [call EXCEPT ![r] = c] /\ pc' = [pc EXCEPT ![r] = "revoke"]
      /\ UNCHANGED <<clock, rows, guesses, held>>
  BY DEF FindSessions, Goto
<1>2. call[r] \in Call
  BY DEF IInv, TypeOK
<1>3. /\ c \in Call /\ c.otp = call[r].otp /\ c.token = call[r].token
      /\ c.password = call[r].password /\ c.targets = active
  BY <1>2 DEF Call
<1>4. held' = [held EXCEPT ![r] = held[r]] /\ held[r] \in SUBSET (Otps \cup {"account"})
  BY <1>1 DEF IInv, TypeOK
<1>5. "revoke" \in Labels /\ clock' \in Nat /\ guesses' \in [Otps -> Nat]
  BY <1>1 DEF Labels, IInv, TypeOK
<1>6. CallInv(r)'
  <2>1. pc'[r] = "revoke" /\ call'[r] = c /\ otp' = otp /\ session' = session
    BY <1>1 DEF IInv, TypeOK, rows
  <2>2. CallInv(r) /\ pc[r] = "find"
    BY DEF IInv, FindSessions
  <2> HIDE DEF c
  <2> QED
    BY <1>3, <2>1, <2>2 DEF CallInv, Resetting
<1> HIDE DEF c
<1> QED
  BY <1>1, <1>3, <1>4, <1>5, <1>6, ReadStep

LEMMA CommitStep == ASSUME IInv, NEW r \in Requests, CommitReset(r) PROVE Good
<1> DEFINE o == call[r].otp
           row == [otp[o] EXCEPT !.consumed = TRUE]
<1>1. o \in Otps /\ otp[o].issued /\ call[r].password \in Passwords
  BY DEF CommitReset, IInv, CallInv, Resetting
<1>2. otp[o] \in Otp
  BY <1>1 DEF IInv, TypeOK
<1>3. row \in Otp /\ row.issued = otp[o].issued /\ row.tokens = otp[o].tokens /\ row.consumed
  BY <1>2 DEF Otp
<1>4. otp' = [otp EXCEPT ![o] = row] /\ Finish(r) /\ guesses' = guesses
  BY DEF CommitReset
<1> HIDE DEF row
<1>5. otp' \in [Otps -> Otp] /\ otp'[o] = row /\ \A x \in Otps \ {o} : otp'[x] = otp[x]
  BY <1>1, <1>3, <1>4 DEF IInv, TypeOK
<1>6. account' \in [status: {"ACTIVE", "DISABLED"}, password: Passwords]
  BY <1>1 DEF CommitReset, IInv, TypeOK
<1>7. session' \in [Sessions -> {"ABSENT", "ACTIVE", "REVOKED"}]
      /\ \A s \in Sessions : session[s] # "ABSENT" => session'[s] # "ABSENT"
  BY DEF CommitReset, IInv, TypeOK
<1>8. Kept
  BY <1>1, <1>3, <1>5, <1>7 DEF Kept
<1>9. Unissued' /\ LockedOut'
  BY <1>1, <1>3, <1>5 DEF IInv, Unissued, LockedOut
<1> QED
  BY <1>4, <1>5, <1>6, <1>7, <1>8, <1>9, WriteStep

-----------------------------------------------------------------------------
LEMMA OpenStep == ASSUME IInv, NEW r \in Requests, OpenSession(r) PROVE Good
<1>1. UNCHANGED <<account, otp, guesses>> /\ Finish(r)
  BY DEF OpenSession
<1>2. session' \in [Sessions -> {"ABSENT", "ACTIVE", "REVOKED"}]
      /\ \A s \in Sessions : session[s] # "ABSENT" => session'[s] # "ABSENT"
  BY DEF OpenSession, IInv, TypeOK
<1>3. Kept
  BY <1>1, <1>2 DEF Kept
<1>4. Unissued' /\ LockedOut' /\ otp' \in [Otps -> Otp]
      /\ account' \in [status: {"ACTIVE", "DISABLED"}, password: Passwords]
  BY <1>1 DEF IInv, Unissued, LockedOut, TypeOK
<1> QED
  BY <1>1, <1>2, <1>3, <1>4, WriteStep

LEMMA EndStep == ASSUME IInv, NEW r \in Requests, Abort(r) \/ OutOfIds(r) PROVE Good
BY AbortStep DEF Abort, OutOfIds

LEMMA NextStep == ASSUME IInv, [Next]_vars PROVE Good
<1>1. CASE UNCHANGED vars
  <2>1. IInv'
    BY <1>1 DEF vars, rows, IInv, TypeOK, Unissued, LockedOut, CallInv, Resetting
  <2> QED
    BY <1>1, <2>1 DEF vars, rows, Good, Kept
<1>2. CASE Next
  BY <1>2, TickStep, DeactivateStep, ArriveStep, EndStep, RetireStep, InsertStep, SendStep,
     UndoStep, LookUpStep, CountStep, IssueStep, CheckStep, PasswordStep, ConsumeStep,
     FindStep, CommitStep, OpenStep
     DEF Next, Progress
<1> QED
  BY <1>1, <1>2

(* The invariant holds in every reachable state.                           *)
THEOREM Invariance == Spec => []IInv
<1>1. IInv /\ [Next]_vars => IInv'
  BY NextStep DEF Good
<1> QED
  BY InitStep, <1>1, PTL DEF Spec

(* Rows and requests keep their shape; no stale write takes the attempts   *)
(* of a code past their maximum.                                           *)
THEOREM TypeCorrect == Spec => []TypeOK
<1>1. IInv => TypeOK
  BY DEF IInv
<1> QED
  BY <1>1, Invariance, PTL

(* A code whose attempts reached the maximum is consumed.                  *)
THEOREM Locked == Spec => []LockedOut
<1>1. IInv => LockedOut
  BY DEF IInv
<1> QED
  BY <1>1, Invariance, PTL

(* A code yields one reset token, and none once it is consumed.            *)
THEOREM OneToken == Spec => OneTokenPerCode
<1>1. IInv /\ [Next]_vars =>
        [\A o \in Otps :
           /\ otp'[o].tokens # otp[o].tokens => otp[o].tokens = 0 /\ ~otp[o].consumed
           /\ otp[o].consumed => otp'[o].consumed]_vars
  BY NextStep DEF Good, Kept
<1> QED
  BY <1>1, Invariance, PTL DEF Spec, OneTokenPerCode

\* Only the end of a reset changes the password.
LEMMA OnlyResets ==
  ASSUME IInv, [Next]_vars, account'.password # account.password
  PROVE  \E r \in Requests : CommitReset(r)
<1>1. ~Deactivate
  <2> SUFFICES ASSUME Deactivate PROVE FALSE
    OBVIOUS
  <2>1. account \in [status: {"ACTIVE", "DISABLED"}, password: Passwords]
    BY DEF IInv, TypeOK
  <2>2. account'.password = account.password
    BY <2>1 DEF Deactivate
  <2> QED
    BY <2>2
<1>2. account' # account
  OBVIOUS
<1>3. ~UNCHANGED vars /\ ~Tick
  BY <1>2 DEF vars, rows, Tick
<1>4. ASSUME NEW r \in Requests PROVE ~Arrive(r) /\ ~Abort(r)
  BY <1>2 DEF Arrive, RequestReset, Verify, Confirm, Login, Begin, Abort, rows
<1>5. ASSUME NEW r \in Requests, Progress(r) PROVE CommitReset(r)
  BY <1>2, <1>4, <1>5 DEF Progress, RetireCodes, InsertCode, SendCode, UndoCode, LookUp,
     CountWrongAnswer, IssueToken, CheckToken, UpdatePassword, ConsumeCode, FindSessions,
     OpenSession, OutOfIds, rows
<1> QED
  BY <1>1, <1>3, <1>4, <1>5 DEF Next

(* The password changes only with the token last issued, and the step      *)
(* spends the code and closes every session the reset found.               *)
THEOREM Complete == Spec => ResetIsComplete
<1> DEFINE Completes == account'.password # account.password =>
             \E r \in Requests :
               LET o == call[r].otp
               IN /\ pc[r] = "revoke" /\ pc'[r] = "idle"
                  /\ otp[o].tokens = call[r].token
                  /\ otp'[o].consumed
                  /\ \A s \in call[r].targets : session'[s] = "REVOKED"
                  /\ \A s \in Sessions \ call[r].targets : session'[s] = session[s]
<1>1. ASSUME IInv, [Next]_vars, account'.password # account.password
      PROVE  Completes
  <2>1. PICK r \in Requests : CommitReset(r)
    BY <1>1, OnlyResets
  <2>2. pc[r] = "revoke" /\ pc'[r] = "idle"
    BY <1>1, <2>1 DEF CommitReset, Finish, Goto, IInv, TypeOK
  <2>3. /\ call[r].otp \in Otps /\ otp[call[r].otp].tokens = call[r].token
        /\ \A s \in call[r].targets : session[s] # "ABSENT"
        /\ call[r].targets \subseteq Sessions
    BY <1>1, <2>2 DEF IInv, CallInv, Resetting, TypeOK, Call
  <2>4. otp'[call[r].otp].consumed
    <3>1. otp[call[r].otp] \in Otp
      BY <1>1, <2>3 DEF IInv, TypeOK
    <3>2. otp'[call[r].otp] = [otp[call[r].otp] EXCEPT !.consumed = TRUE]
      BY <1>1, <2>1, <2>3 DEF CommitReset, IInv, TypeOK
    <3> QED
      BY <3>1, <3>2 DEF Otp
  <2>5. /\ \A s \in call[r].targets : session'[s] = "REVOKED"
        /\ \A s \in Sessions \ call[r].targets : session'[s] = session[s]
    BY <1>1, <2>1, <2>3 DEF CommitReset, IInv, TypeOK
  <2> QED
    BY <2>2, <2>3, <2>4, <2>5
<1>2. IInv /\ [Next]_vars => [Completes]_vars
  BY <1>1
<1> QED
  BY <1>2, Invariance, PTL DEF Spec, ResetIsComplete
=============================================================================
