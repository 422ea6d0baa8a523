----------------------------- MODULE TeamProofs ------------------------------
(***************************************************************************)
(* Safety of Team for any number of users, invitations and requests.       *)
(***************************************************************************)
EXTENDS Team, TLAPS

-----------------------------------------------------------------------------
(* The inductive invariant.                                                *)

Members ==
  /\ Owner \in account
  /\ member[Owner] = [status |-> "ACTIVE", role |-> "OWNER"]
  /\ \A u \in Users \ {Owner} : member[u].status # "ABSENT" => member[u].role \in Roles

Invitations ==
  \A i \in Invites : /\ invite[i].status = "ABSENT" => accepted[i] = 0
                     /\ invite[i].status # "ABSENT" => invite[i].role \in Roles

\* An invitation of this user, whatever has become of it.
Invited(i, u) ==
  i \in Invites /\ u \in Users /\ invite[i].status # "ABSENT" /\ invite[i].email = u

\* A request that has read a row will write about somebody it may concern,
\* although the rows it has read may have changed.
CallInv(r) ==
  LET c == call[r]
  IN /\ pc[r] \in {"revokeOthers", "insert"} =>
          c.actor \in Users /\ c.user \in Users /\ c.role \in Roles
     /\ pc[r] = "revoke" => c.invite \in Invites /\ invite[c.invite].status # "ABSENT"
     /\ pc[r] \in {"acceptCheck", "acceptWrite", "register"} => Invited(c.invite, c.user)
     /\ pc[r] \in {"acceptCheck", "acceptWrite"} => c.user \in account
     /\ pc[r] \in {"acceptWrite", "register", "setRole", "remove"} => c.user # Owner
     /\ pc[r] \in {"setRole", "remove", "switch"} =>
          c.user \in Users /\ member[c.user].status # "ABSENT"
     /\ pc[r] = "setRole" => c.role \in Roles

IInv ==
  /\ TypeOK
  /\ Members
  /\ Invitations
  /\ MembersWereInvited
  /\ \A r \in Requests : CallInv(r)

-----------------------------------------------------------------------------
(* What no step takes back.                                                *)

Kept ==
  /\ account \subseteq account'
  /\ \A i \in Invites :
       /\ accepted'[i] >= accepted[i]
       /\ invite[i].status # "ABSENT" =>
            /\ invite'[i].status # "ABSENT"
            /\ invite'[i].email = invite[i].email
            /\ invite'[i].role = invite[i].role
  /\ \A u \in Users : member[u].status # "ABSENT" => member'[u].status # "ABSENT"

\* Who was invited as what stays so.
LEMMA InvitedStays ==
  ASSUME IInv, Kept, TypeOK', NEW u \in Users, NEW role \in Roles, InvitedAs(u, role)
  PROVE  InvitedAs(u, role)'
<1>1. PICK i \in Invites : accepted[i] > 0 /\ invite[i].email = u /\ invite[i].role = role
  BY DEF InvitedAs
<1>2. invite[i].status # "ABSENT" /\ accepted[i] \in Nat /\ accepted'[i] \in Nat
  BY <1>1 DEF IInv, Invitations, TypeOK
<1>3. accepted'[i] > 0 /\ invite'[i].email = u /\ invite'[i].role = role
  BY <1>1, <1>2 DEF Kept
<1> QED
  BY <1>3 DEF InvitedAs

\* A step leaves the requests alone that do not take it.
LEMMA CallStays ==
  ASSUME IInv, Kept, NEW q \in Requests, pc'[q] = pc[q], call'[q] = call[q]
  PROVE  CallInv(q)'
BY DEF IInv, Kept, CallInv, Invited

\* A step on invitations only.
LEMMA InviteStep ==
  ASSUME IInv, TypeOK', Kept, Invitations', UNCHANGED <<account, member, tenant, accepted>>,
         \A q \in Requests : CallInv(q)'
  PROVE  IInv'
<1>1. Members'
  BY DEF IInv, Members
<1>2. MembersWereInvited'
  BY InvitedStays DEF IInv, MembersWereInvited
<1> QED
  BY <1>1, <1>2 DEF IInv

\* A request reads.
LEMMA ReadStep ==
  ASSUME IInv, NEW r \in Requests, UNCHANGED rows, NEW label \in Labels, NEW c \in Call,
         pc' = [pc EXCEPT ![r] = label], call' = [call EXCEPT ![r] = c], CallInv(r)'
  PROVE  IInv'
<1>1. TypeOK'
  BY DEF IInv, TypeOK, rows
<1>2. Kept
  BY <1>1 DEF Kept, rows, IInv, TypeOK
<1>3. \A q \in Requests : CallInv(q)'
  BY CallStays, <1>2 DEF IInv, TypeOK
<1>4. Invitations'
  BY DEF IInv, Invitations, rows
<1> QED
  BY <1>1, <1>2, <1>3, <1>4, InviteStep DEF rows

LEMMA NoCallIsCall == NoCall \in Call /\ "idle" \in Labels
BY DEF NoCall, Call, Labels

\* A request ends, and whatever it has written is kept.
LEMMA Finished ==
  ASSUME IInv, Kept, NEW r \in Requests, Finish(r)
  PROVE  \A q \in Requests : CallInv(q)'
<1>1. pc' = [pc EXCEPT ![r] = "idle"] /\ call' = [call EXCEPT ![r] = NoCall]
  BY DEF Finish, Goto
<1>2. CallInv(r)'
  BY <1>1 DEF CallInv, IInv, TypeOK
<1>3. ASSUME NEW q \in Requests, q # r PROVE CallInv(q)'
  BY <1>1, <1>3, CallStays DEF IInv, TypeOK
<1> QED
  BY <1>2, <1>3

LEMMA AbortStep == ASSUME IInv, NEW r \in Requests, UNCHANGED rows, Finish(r) PROVE IInv'
<1>1. pc' = [pc EXCEPT ![r] = "idle"] /\ call' = [call EXCEPT ![r] = NoCall]
  BY DEF Finish, Goto
<1>2. CallInv(r)'
  BY <1>1 DEF CallInv, IInv, TypeOK
<1> QED
  BY <1>1, <1>2, NoCallIsCall, ReadStep

LEMMA SettledIs ==
  ASSUME NEW i \in Invites, invite[i] \in Invitation,
         NEW status \in {"ACCEPTED", "REVOKED", "EXPIRED"}
  PROVE  /\ Settled(i, status) \in Invitation
         /\ Settled(i, status).status = status
         /\ Settled(i, status).email = invite[i].email
         /\ Settled(i, status).role = invite[i].role
BY DEF Settled, Invitation

LEMMA ExpiredIs ==
  ASSUME TypeOK
  PROVE  /\ Expired \in [Invites -> Invitation]
         /\ \A i \in Invites : /\ (Expired[i].status = "ABSENT") <=> (invite[i].status = "ABSENT")
                               /\ Expired[i].email = invite[i].email
                               /\ Expired[i].role = invite[i].role
BY SettledIs DEF Expired, TypeOK

-----------------------------------------------------------------------------
LEMMA InitStep == Init => IInv
<1> SUFFICES ASSUME Init PROVE IInv
  OBVIOUS
<1> USE TeamAssumption DEF Init
<1>1. TypeOK
  BY NoCallIsCall DEF TypeOK, Membership, NoMember, Invitation, NoInvite
<1>2. Members /\ MembersWereInvited
  BY DEF Members, MembersWereInvited, NoMember
<1>3. Invitations
  BY DEF Invitations, NoInvite
<1>4. \A r \in Requests : CallInv(r)
  BY DEF CallInv
<1> QED
  BY <1>1, <1>2, <1>3, <1>4 DEF IInv

LEMMA DueStep == ASSUME IInv, NEW i \in Invites, BecomeDue(i) PROVE IInv'
<1> DEFINE row == [invite[i] EXCEPT !.due = TRUE]
<1>1. /\ row \in Invitation /\ row.status = invite[i].status /\ row.email = invite[i].email
      /\ row.role = invite[i].role
  BY DEF IInv, TypeOK, Invitation
<1>2. invite' = [invite EXCEPT ![i] = row]
  BY DEF BecomeDue, IInv, TypeOK
<1> HIDE DEF row
<1>3. TypeOK' /\ Kept
  <2>1. TypeOK'
    BY <1>1, <1>2 DEF BecomeDue, IInv, TypeOK
  <2>2. Kept
    BY <1>1, <1>2 DEF BecomeDue, IInv, TypeOK, Kept
  <2> QED
    BY <2>1, <2>2
<1>4. Invitations'
  BY <1>1, <1>2 DEF BecomeDue, IInv, TypeOK, Invitations
<1>5. \A q \in Requests : CallInv(q)'
  BY <1>3, CallStays DEF BecomeDue
<1> QED
  BY <1>3, <1>4, <1>5, InviteStep DEF BecomeDue

\* Expiring the invitations, alone or on the way to an acceptance.
LEMMA ExpireFacts ==
  ASSUME IInv, invite' = Expired, UNCHANGED <<account, member, tenant, accepted>>
  PROVE  Kept /\ Invitations' /\ invite' \in [Invites -> Invitation]
<1>1. TypeOK
  BY DEF IInv
<1> QED
  BY <1>1, ExpiredIs DEF IInv, TypeOK, Kept, Invitations

LEMMA ExpireStep == ASSUME IInv, expirePendingInvitations PROVE IInv'
<1>1. Kept /\ Invitations' /\ invite' \in [Invites -> Invitation]
  BY ExpireFacts DEF expirePendingInvitations
<1>2. TypeOK'
  BY <1>1 DEF expirePendingInvitations, IInv, TypeOK
<1>3. \A q \in Requests : CallInv(q)'
  BY <1>1, CallStays DEF expirePendingInvitations
<1> QED
  BY <1>1, <1>2, <1>3, InviteStep DEF expirePendingInvitations

LEMMA RegisterAloneStep == ASSUME IInv, NEW u \in Users, RegisterAlone(u) PROVE IInv'
<1> USE DEF RegisterAlone
<1>1. TypeOK' /\ Kept /\ Invitations'
  BY DEF IInv, TypeOK, Kept, Invitations
<1>2. Members'
  BY DEF IInv, Members
<1>3. MembersWereInvited'
  BY <1>1, InvitedStays DEF IInv, MembersWereInvited
<1>4. \A q \in Requests : CallInv(q)'
  BY <1>1, CallStays
<1> QED
  BY <1>1, <1>2, <1>3, <1>4 DEF IInv

-----------------------------------------------------------------------------
(* Requests that only read                                                 *)

LEMMA CreateInvitationStep ==
  ASSUME IInv, NEW r \in Requests, NEW actor \in Users, NEW u \in Users, NEW role \in Roles,
         CreateInvitation(r, actor, u, role)
  PROVE  IInv'
<1> DEFINE c == [NoCall EXCEPT !.actor = actor, !.user = u, !.role = role]
<1>1. c \in Call /\ c.actor = actor /\ c.user = u /\ c.role = role
  BY DEF NoCall, Call
<1>2. /\ pc' = [pc EXCEPT ![r] = "revokeOthers"] /\ call' = [call EXCEPT ![r] = c]
      /\ UNCHANGED rows
  BY DEF CreateInvitation, Begin, Goto
<1> HIDE DEF c
<1>3. pc'[r] = "revokeOthers" /\ call'[r] = c
  BY <1>2 DEF IInv, TypeOK
<1>4. CallInv(r)'
  BY <1>1, <1>3 DEF CallInv
<1> QED
  BY <1>1, <1>2, <1>4, ReadStep DEF Labels

LEMMA RevokeOthersStep == ASSUME IInv, NEW r \in Requests, RevokeOthers(r) PROVE IInv'
<1> DEFINE others == {i \in Invites : invite[i].status = "PENDING"
                                        /\ invite[i].email = call[r].user}
           c == [call[r] EXCEPT !.others = others]
<1>1. call[r] \in Call /\ others \in SUBSET Invites
  BY DEF IInv, TypeOK
<1>2. c \in Call /\ c.actor = call[r].actor /\ c.user = call[r].user /\ c.role = call[r].role
  BY <1>1 DEF Call
<1>3. /\ pc[r] = "revokeOthers" /\ pc' = [pc EXCEPT ![r] = "insert"]
      /\ call' = [call EXCEPT ![r] = c] /\ UNCHANGED rows
  BY DEF RevokeOthers, Goto, IInv, TypeOK
<1> HIDE DEF c, others
<1>4. pc'[r] = "insert" /\ call'[r] = c
  BY <1>3 DEF IInv, TypeOK
<1>5. CallInv(r)'
  BY <1>2, <1>3, <1>4 DEF CallInv, IInv
<1> QED
  BY <1>2, <1>3, <1>5, ReadStep DEF Labels

LEMMA RevokeInvitationStep ==
  ASSUME IInv, NEW r \in Requests, NEW actor \in Users, NEW i \in Invites,
         RevokeInvitation(r, actor, i)
  PROVE  IInv'
<1> DEFINE c == [NoCall EXCEPT !.invite = i]
<1>1. c \in Call /\ c.invite = i
  BY DEF NoCall, Call
<1>2. /\ invite[i].status = "PENDING"
      /\ pc' = [pc EXCEPT ![r] = "revoke"] /\ call' = [call EXCEPT ![r] = c]
      /\ UNCHANGED rows
  BY DEF RevokeInvitation, Begin, Goto
<1> HIDE DEF c
<1>3. pc'[r] = "revoke" /\ call'[r] = c
  BY <1>2 DEF IInv, TypeOK
<1>4. CallInv(r)'
  BY <1>1, <1>2, <1>3 DEF CallInv, rows
<1> QED
  BY <1>1, <1>2, <1>4, ReadStep DEF Labels

\* The owner is a member, so whoever may be changed or may join is another.
LEMMA OwnerIsMember ==
  ASSUME IInv
  PROVE  ~Changeable(Owner) /\ ~Joinable(Owner) /\ Owner \in account
BY DEF IInv, Members, Changeable, Joinable

LEMMA AcceptCheckStep == ASSUME IInv, NEW r \in Requests, AcceptCheck(r) PROVE IInv'
<1>1. CASE Finish(r)
  BY <1>1, AbortStep DEF AcceptCheck
<1>2. CASE Joinable(call[r].user) /\ Goto(r, "acceptWrite") /\ UNCHANGED call
  <2>1. call[r] \in Call /\ call' = [call EXCEPT ![r] = call[r]]
    BY <1>2 DEF IInv, TypeOK
  <2>2. pc[r] = "acceptCheck" /\ pc' = [pc EXCEPT ![r] = "acceptWrite"] /\ UNCHANGED rows
    BY <1>2 DEF AcceptCheck, Goto
  <2>3. pc'[r] = "acceptWrite" /\ call'[r] = call[r] /\ call[r].user # Owner
    BY <1>2, <2>2, OwnerIsMember DEF IInv, TypeOK
  <2>4. CallInv(r)'
    BY <2>2, <2>3 DEF CallInv, Invited, IInv, rows
  <2> QED
    BY <2>1, <2>2, <2>4, ReadStep DEF Labels
<1> QED
  BY <1>1, <1>2 DEF AcceptCheck

LEMMA RegisterStep ==
  ASSUME IInv, NEW r \in Requests, NEW u \in Users, NEW i \in Invites, Register(r, u, i)
  PROVE  IInv'
<1> DEFINE c == [NoCall EXCEPT !.user = u, !.invite = i]
<1>1. c \in Call /\ c.invite = i /\ c.user = u
  BY DEF NoCall, Call
<1>2. /\ invite[i].status = "PENDING" /\ invite[i].email = u /\ u # Owner
      /\ pc' = [pc EXCEPT ![r] = "register"] /\ call' = [call EXCEPT ![r] = c]
      /\ UNCHANGED rows
  BY OwnerIsMember DEF Register, Begin, Goto, Addressed
<1> HIDE DEF c
<1>3. pc'[r] = "register" /\ call'[r] = c
  BY <1>2 DEF IInv, TypeOK
<1>4. CallInv(r)'
  BY <1>1, <1>2, <1>3 DEF CallInv, Invited, rows
<1> QED
  BY <1>1, <1>2, <1>4, ReadStep DEF Labels

LEMMA UpdateRoleStep ==
  ASSUME IInv, NEW r \in Requests, NEW actor \in Users, NEW u \in Users, NEW role \in Roles,
         UpdateMembershipRole(r, actor, u, role)
  PROVE  IInv'
<1> DEFINE c == [NoCall EXCEPT !.user = u, !.role = role]
<1>1. c \in Call /\ c.user = u /\ c.role = role
  BY DEF NoCall, Call
<1>2. /\ member[u].status # "ABSENT" /\ u # Owner
      /\ pc' = [pc EXCEPT ![r] = "setRole"] /\ call' = [call EXCEPT ![r] = c]
      /\ UNCHANGED rows
  BY OwnerIsMember DEF UpdateMembershipRole, Begin, Goto, Changeable
<1> HIDE DEF c
<1>3. pc'[r] = "setRole" /\ call'[r] = c
  BY <1>2 DEF IInv, TypeOK
<1>4. CallInv(r)'
  BY <1>1, <1>2, <1>3 DEF CallInv, rows
<1> QED
  BY <1>1, <1>2, <1>4, ReadStep DEF Labels

LEMMA RemoveMemberStep ==
  ASSUME IInv, NEW r \in Requests, NEW actor \in Users, NEW u \in Users,
         RemoveMember(r, actor, u)
  PROVE  IInv'
<1> DEFINE c == [NoCall EXCEPT !.user = u]
<1>1. c \in Call /\ c.user = u
  BY DEF NoCall, Call
<1>2. /\ member[u].status # "ABSENT" /\ u # Owner
      /\ pc' = [pc EXCEPT ![r] = "remove"] /\ call' = [call EXCEPT ![r] = c]
      /\ UNCHANGED rows
  BY OwnerIsMember DEF RemoveMember, Begin, Goto, Changeable
<1> HIDE DEF c
<1>3. pc'[r] = "remove" /\ call'[r] = c
  BY <1>2 DEF IInv, TypeOK
<1>4. CallInv(r)'
  BY <1>1, <1>2, <1>3 DEF CallInv, rows
<1> QED
  BY <1>1, <1>2, <1>4, ReadStep DEF Labels

LEMMA SwitchActiveStep ==
  ASSUME IInv, NEW r \in Requests, NEW u \in Users, SwitchActive(r, u) PROVE IInv'
<1> DEFINE c == [NoCall EXCEPT !.user = u]
<1>1. c \in Call /\ c.user = u
  BY DEF NoCall, Call
<1>2. /\ member[u].status # "ABSENT"
      /\ pc' = [pc EXCEPT ![r] = "switch"] /\ call' = [call EXCEPT ![r] = c]
      /\ UNCHANGED rows
  BY DEF SwitchActive, Begin, Goto, MayUse, IsMember
<1> HIDE DEF c
<1>3. pc'[r] = "switch" /\ call'[r] = c
  BY <1>2 DEF IInv, TypeOK
<1>4. CallInv(r)'
  BY <1>1, <1>2, <1>3 DEF CallInv, rows
<1> QED
  BY <1>1, <1>2, <1>4, ReadStep DEF Labels

-----------------------------------------------------------------------------
(* Requests that write                                                     *)

LEMMA AcceptInvitationStep ==
  ASSUME IInv, NEW r \in Requests, NEW u \in Users, NEW i \in Invites,
         AcceptInvitation(r, u, i)
  PROVE  IInv'
<1> DEFINE c == [NoCall EXCEPT !.user = u, !.invite = i]
<1>1. c \in Call /\ c.invite = i /\ c.user = u
  BY DEF NoCall, Call
<1>2. /\ u \in account /\ Expired[i].status = "PENDING" /\ invite[i].email = u
      /\ pc' = [pc EXCEPT ![r] = "acceptCheck"] /\ call' = [call EXCEPT ![r] = c]
      /\ invite' = Expired /\ UNCHANGED <<account, member, tenant, accepted>>
  BY DEF AcceptInvitation, Begin, Goto, Addressed
<1> HIDE DEF c
<1>3. Kept /\ Invitations' /\ invite' \in [Invites -> Invitation]
  BY <1>2, ExpireFacts
<1>4. TypeOK'
  BY <1>1, <1>2, <1>3 DEF IInv, TypeOK, Labels
<1>5. invite'[i].status # "ABSENT" /\ invite'[i].email = u
  BY <1>2, ExpiredIs DEF IInv
<1>6. CallInv(r)'
  <2>1. pc'[r] = "acceptCheck" /\ call'[r] = c
    BY <1>2 DEF IInv, TypeOK
  <2> QED
    BY <1>1, <1>2, <1>5, <2>1 DEF CallInv, Invited
<1>7. \A q \in Requests : CallInv(q)'
  BY <1>2, <1>3, <1>6, CallStays DEF IInv, TypeOK
<1> QED
  BY <1>2, <1>3, <1>4, <1>7, InviteStep

LEMMA InsertStep == ASSUME IInv, NEW r \in Requests, InsertInvitation(r) PROVE IInv'
<1> DEFINE c == call[r]
           row == [status |-> "PENDING", email |-> c.user, role |-> c.role,
                   invitedBy |-> c.actor, due |-> FALSE]
<1>1. c.actor \in Users /\ c.user \in Users /\ c.role \in Roles
  BY DEF InsertInvitation, IInv, CallInv
<1>2. row \in Invitation /\ row.status = "PENDING" /\ row.role \in Roles
  BY <1>1 DEF Invitation
<1>3. PICK new \in Invites :
        /\ invite[new].status = "ABSENT"
        /\ invite' = [i \in Invites |->
             IF i = new THEN row
             ELSE IF i \in c.others /\ invite[i].status = "PENDING"
             THEN Settled(i, "REVOKED") ELSE invite[i]]
  BY DEF InsertInvitation
<1> HIDE DEF row
<1>4. ASSUME NEW i \in Invites
      PROVE  /\ invite'[i] \in Invitation
             /\ invite[i].status # "ABSENT" =>
                  /\ invite'[i].status # "ABSENT"
                  /\ invite'[i].email = invite[i].email
                  /\ invite'[i].role = invite[i].role
             /\ invite'[i].status # "ABSENT" =>
                  invite[i].status # "ABSENT" \/ invite'[i].role \in Roles
  <2>1. CASE i = new
    BY <1>2, <1>3, <2>1
  <2>2. CASE i # new /\ i \in c.others /\ invite[i].status = "PENDING"
    <3>1. invite[i] \in Invitation /\ invite'[i] = Settled(i, "REVOKED")
      BY <1>3, <2>2 DEF IInv, TypeOK
    <3> QED
      BY <2>2, <3>1, SettledIs
  <2>3. CASE i # new /\ ~(i \in c.others /\ invite[i].status = "PENDING")
    BY <1>3, <2>3 DEF IInv, TypeOK
  <2> QED
    BY <2>1, <2>2, <2>3
<1>5. Finish(r) /\ UNCHANGED <<account, member, tenant, accepted>>
  BY DEF InsertInvitation
<1>6. Kept
  BY <1>4, <1>5 DEF Kept, IInv, TypeOK
<1>7. TypeOK'
  <2>1. invite' \in [Invites -> Invitation]
    BY <1>3, <1>4
  <2> QED
    BY <1>5, <2>1, NoCallIsCall DEF IInv, TypeOK, Finish, Goto
<1>8. Invitations'
  BY <1>4, <1>5 DEF IInv, Invitations
<1> QED
  BY <1>5, <1>6, <1>7, <1>8, Finished, InviteStep

LEMMA RevokeStep == ASSUME IInv, NEW r \in Requests, Revoke(r) PROVE IInv'
<1> DEFINE i == call[r].invite
           row == Settled(i, "REVOKED")
<1>1. i \in Invites /\ invite[i].status # "ABSENT"
  BY DEF Revoke, IInv, CallInv
<1>2. /\ row \in Invitation /\ row.status = "REVOKED" /\ row.email = invite[i].email
      /\ row.role = invite[i].role
  BY <1>1, SettledIs DEF IInv, TypeOK
<1>3. /\ invite' = [invite EXCEPT ![i] = row] /\ Finish(r)
      /\ UNCHANGED <<account, member, tenant, accepted>>
  BY DEF Revoke
<1> HIDE DEF i, row
<1>4. TypeOK' /\ Kept
  BY <1>1, <1>2, <1>3, NoCallIsCall DEF IInv, TypeOK, Kept, Finish, Goto
<1>5. Invitations'
  BY <1>1, <1>2, <1>3 DEF IInv, TypeOK, Invitations
<1> QED
  BY <1>3, <1>4, <1>5, Finished, InviteStep

\* Somebody joins: the membership, the invitation and the session, together.
LEMMA JoinStep ==
  ASSUME IInv, NEW r \in Requests, NEW u \in Users, u # Owner, NEW i \in Invites,
         Invited(i, u), Join(u, i), Finish(r), tenant' = tenant \cup {u},
         account' \in SUBSET Users, account \subseteq account', u \in account'
  PROVE  IInv'
<1> DEFINE row == Settled(i, "ACCEPTED")
           place == [status |-> "ACTIVE", role |-> invite[i].role]
<1>1. invite[i].status # "ABSENT" /\ invite[i].email = u /\ invite[i].role \in Roles
  BY DEF Invited, IInv, Invitations
<1>2. /\ row \in Invitation /\ row.status = "ACCEPTED" /\ row.email = u
      /\ row.role = invite[i].role
  BY <1>1, SettledIs DEF IInv, TypeOK
<1>3. place \in Membership /\ place.status = "ACTIVE" /\ place.role = invite[i].role
  BY <1>1 DEF Membership
<1>4. /\ member' = [member EXCEPT ![u] = place] /\ invite' = [invite EXCEPT ![i] = row]
      /\ accepted' = [accepted EXCEPT ![i] = @ + 1]
  BY DEF Join
<1> HIDE DEF row, place
<1>5. TypeOK'
  BY <1>2, <1>3, <1>4, NoCallIsCall DEF IInv, TypeOK, Finish, Goto
<1>6. Kept
  BY <1>1, <1>2, <1>3, <1>4 DEF IInv, TypeOK, Kept
<1>7. Members'
  BY <1>1, <1>3, <1>4 DEF IInv, TypeOK, Members
<1>8. Invitations'
  BY <1>1, <1>2, <1>4 DEF IInv, TypeOK, Invitations
<1>9. MembersWereInvited'
  <2>1. \E role \in Roles : InvitedAs(u, role)'
    BY <1>1, <1>2, <1>4 DEF IInv, TypeOK, InvitedAs
  <2>2. ASSUME NEW v \in Users \ {Owner}, v # u, member'[v].status # "ABSENT" \/ v \in tenant'
        PROVE  v \in account' /\ \E role \in Roles : InvitedAs(v, role)'
    <3>1. member[v].status # "ABSENT" \/ v \in tenant
      BY <1>4, <2>2 DEF IInv, TypeOK
    <3>2. v \in account /\ \E role \in Roles : InvitedAs(v, role)
      BY <3>1 DEF IInv, MembersWereInvited
    <3> QED
      BY <1>5, <1>6, <3>2, InvitedStays
  <2> QED
    BY <2>1, <2>2 DEF MembersWereInvited
<1> QED
  BY <1>5, <1>6, <1>7, <1>8, <1>9, Finished DEF IInv

LEMMA AcceptWriteStep == ASSUME IInv, NEW r \in Requests, AcceptWrite(r) PROVE IInv'
<1>1. /\ call[r].user \in Users /\ call[r].user # Owner /\ call[r].user \in account
      /\ call[r].invite \in Invites /\ Invited(call[r].invite, call[r].user)
  BY DEF AcceptWrite, IInv, CallInv, Invited
<1> QED
  BY <1>1, JoinStep DEF AcceptWrite, IInv, TypeOK

LEMMA RegisterWriteStep == ASSUME IInv, NEW r \in Requests, RegisterWrite(r) PROVE IInv'
<1>1. CASE call[r].user \in account
  BY <1>1, AbortStep DEF RegisterWrite
<1>2. CASE call[r].user \notin account
  <2>1. /\ call[r].user \in Users /\ call[r].user # Owner
        /\ call[r].invite \in Invites /\ Invited(call[r].invite, call[r].user)
    BY DEF RegisterWrite, IInv, CallInv, Invited
  <2> QED
    BY <1>2, <2>1, JoinStep DEF RegisterWrite, IInv, TypeOK
<1> QED
  BY <1>1, <1>2

\* A step on one membership, of somebody who is not the owner.
LEMMA MemberStep ==
  ASSUME IInv, NEW r \in Requests, Finish(r), NEW u \in Users, u # Owner,
         NEW place \in Membership, place.status # "ABSENT", place.role \in Roles,
         member[u].status # "ABSENT", member' = [member EXCEPT ![u] = place],
         tenant' \subseteq tenant, UNCHANGED <<account, invite, accepted>>
  PROVE  IInv'
<1>1. TypeOK'
  BY NoCallIsCall DEF IInv, TypeOK, Finish, Goto
<1>2. Kept
  BY DEF IInv, TypeOK, Kept
<1>3. Members' /\ Invitations'
  BY DEF IInv, TypeOK, Members, Invitations
<1>4. MembersWereInvited'
  <2>1. ASSUME NEW v \in Users \ {Owner}, member'[v].status # "ABSENT" \/ v \in tenant'
        PROVE  v \in account' /\ \E role \in Roles : InvitedAs(v, role)'
    <3>1. member[v].status # "ABSENT" \/ v \in tenant
      BY <2>1 DEF IInv, TypeOK
    <3>2. v \in account /\ \E role \in Roles : InvitedAs(v, role)
      BY <3>1 DEF IInv, MembersWereInvited
    <3> QED
      BY <1>1, <1>2, <3>2, InvitedStays
  <2> QED
    BY <2>1 DEF MembersWereInvited
<1> QED
  BY <1>1, <1>2, <1>3, <1>4, Finished DEF IInv

LEMMA SetRoleStep == ASSUME IInv, NEW r \in Requests, SetRole(r) PROVE IInv'
<1> DEFINE u == call[r].user
           place == [member[u] EXCEPT !.role = call[r].role]
<1>1. /\ u \in Users /\ u # Owner /\ member[u].status # "ABSENT" /\ call[r].role \in Roles
      /\ member[u] \in Membership
  BY DEF SetRole, IInv, CallInv, TypeOK
<1>2. place \in Membership /\ place.status = member[u].status /\ place.role \in Roles
  BY <1>1 DEF Membership
<1>3. member' = [member EXCEPT ![u] = place]
  BY <1>1 DEF SetRole, IInv, TypeOK
<1> HIDE DEF u, place
<1> QED
  BY <1>1, <1>2, <1>3, MemberStep DEF SetRole

LEMMA RemoveStep == ASSUME IInv, NEW r \in Requests, Remove(r) PROVE IInv'
<1> DEFINE u == call[r].user
           place == [member[u] EXCEPT !.status = "REMOVED"]
<1>1. /\ u \in Users /\ u # Owner /\ member[u].status # "ABSENT" /\ member[u].role \in Roles
      /\ member[u] \in Membership
  BY DEF Remove, IInv, CallInv, TypeOK, Members
<1>2. place \in Membership /\ place.status = "REMOVED" /\ place.role = member[u].role
  BY <1>1 DEF Membership
<1>3. member' = [member EXCEPT ![u] = place]
  BY <1>1 DEF Remove, IInv, TypeOK
<1>4. tenant' \subseteq tenant
  BY DEF Remove
<1> HIDE DEF u, place
<1> QED
  BY <1>1, <1>2, <1>3, <1>4, MemberStep DEF Remove

LEMMA SwitchStep == ASSUME IInv, NEW r \in Requests, Switch(r) PROVE IInv'
<1>1. call[r].user \in Users /\ member[call[r].user].status # "ABSENT"
  BY DEF Switch, IInv, CallInv
<1>2. TypeOK'
  BY <1>1, NoCallIsCall DEF Switch, IInv, TypeOK, Finish, Goto
<1>3. Kept
  BY <1>2 DEF Switch, IInv, TypeOK, Kept
<1>4. Members' /\ Invitations'
  BY DEF Switch, IInv, Members, Invitations
<1>5. MembersWereInvited'
  <2>1. ASSUME NEW v \in Users \ {Owner}, member'[v].status # "ABSENT" \/ v \in tenant'
        PROVE  v \in account' /\ \E role \in Roles : InvitedAs(v, role)'
    <3>1. member[v].status # "ABSENT" \/ v \in tenant
      BY <1>1, <2>1 DEF Switch
    <3>2. v \in account /\ \E role \in Roles : InvitedAs(v, role)
      BY <3>1 DEF IInv, MembersWereInvited
    <3> QED
      BY <1>2, <1>3, <3>2, InvitedStays DEF Switch
  <2> QED
    BY <2>1 DEF MembersWereInvited
<1> QED
  BY <1>2, <1>3, <1>4, <1>5, Finished DEF Switch, IInv

LEMMA NextStep == IInv /\ [Next]_vars => IInv'
<1> SUFFICES ASSUME IInv, [Next]_vars PROVE IInv'
  OBVIOUS
<1>1. CASE UNCHANGED vars
  BY <1>1 DEF vars, IInv, TypeOK, Members, Invitations, MembersWereInvited, InvitedAs,
     CallInv, Invited
<1>2. ASSUME NEW r \in Requests, Arrive(r) PROVE IInv'
  BY <1>2, CreateInvitationStep, UpdateRoleStep, RevokeInvitationStep, RemoveMemberStep
  DEF Arrive
<1>3. ASSUME NEW r \in Requests, Proceed(r) PROVE IInv'
  BY <1>3, RevokeOthersStep, InsertStep, RevokeStep, AcceptCheckStep, AcceptWriteStep,
     RegisterWriteStep, SetRoleStep, RemoveStep, SwitchStep DEF Proceed
<1>4. ASSUME NEW r \in Requests, Abort(r) PROVE IInv'
  BY <1>4, AbortStep DEF Abort
<1>5. CASE Next
  BY <1>2, <1>3, <1>4, <1>5, DueStep, ExpireStep, RegisterAloneStep, AcceptInvitationStep,
     RegisterStep, SwitchActiveStep DEF Next, Answer
<1> QED
  BY <1>1, <1>5

-----------------------------------------------------------------------------
(* The inductive invariant holds of every reachable state: what a request  *)
(* has read about a member or an invitation still concerns somebody the    *)
(* write may touch.                                                        *)
THEOREM Invariance == Spec => []IInv
BY InitStep, NextStep, PTL DEF Spec

(* Rows and requests keep their shape.                                     *)
THEOREM TypeCorrect == Spec => []TypeOK
<1>1. IInv => TypeOK
  BY DEF IInv
<1> QED
  BY <1>1, Invariance, PTL

(* Whoever created the organization stays its only owner.                  *)
THEOREM Ownership == Spec => []OwnerStays
<1>1. ASSUME IInv, NEW u \in Users
      PROVE  member[u] = [status |-> "ACTIVE", role |-> "OWNER"] <=> u = Owner
  <2>1. CASE u = Owner
    BY <1>1, <2>1 DEF IInv, Members
  <2>2. CASE u # Owner
    <3>1. member[u].status # "ABSENT" => member[u].role # "OWNER"
      BY <1>1, <2>2, TeamAssumption DEF IInv, Members
    <3> QED
      BY <2>2, <3>1
  <2> QED
    BY <2>1, <2>2
<1>2. IInv => OwnerStays
  BY <1>1 DEF OwnerStays
<1> QED
  BY <1>2, Invariance, PTL

(* Nobody is a member without an accepted invitation of their own.         *)
THEOREM Admission == Spec => []MembersWereInvited
<1>1. IInv => MembersWereInvited
  BY DEF IInv
<1> QED
  BY <1>1, Invariance, PTL
=============================================================================
