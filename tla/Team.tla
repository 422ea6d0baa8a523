-------------------------------- MODULE Team --------------------------------
(***************************************************************************)
(* One organization's members and invitations: team.service.ts, the        *)
(* registration that carries an invitation, and the switch of a session to *)
(* the organization, behind OrgGuard and RolesGuard.  A handler first      *)
(* reads, one step here, and writes later in one transaction; the writes   *)
(* go by id and do not ask again what the reads found.                     *)
(***************************************************************************)
EXTENDS Integers

CONSTANTS Users,    \* people, each with one email address
          Owner,    \* who created the organization
          Invites,  \* ids of Invitation rows, and their tokens
          Requests, \* requests in flight at the same time
          Roles,    \* the roles an invitation may carry
          None

ASSUME TeamAssumption ==
  /\ Owner \in Users
  /\ None \notin Users \cup Invites
  /\ Roles \subseteq {"ADMIN", "MEMBER", "VIEWER"}
  /\ Roles # {}

VARIABLES account,  \* users who have registered
          member,   \* Membership rows
          invite,   \* Invitation rows
          tenant,   \* users whose session points to the organization
          accepted, \* ghost: how often each invitation was accepted
          pc,
          call      \* what each request was asked, and what it has read

rows == <<account, member, invite, tenant, accepted>>
vars == <<account, member, invite, tenant, accepted, pc, call>>

Membership == [status: {"ABSENT", "ACTIVE", "REMOVED"}, role: Roles \cup {"OWNER", None}]
Invitation == [status: {"ABSENT", "PENDING", "ACCEPTED", "REVOKED", "EXPIRED"},
               email: Users \cup {None}, role: Roles \cup {None},
               invitedBy: Users \cup {None}, due: BOOLEAN]

NoMember == [status |-> "ABSENT", role |-> None]
NoInvite == [status |-> "ABSENT", email |-> None, role |-> None, invitedBy |-> None,
             due |-> FALSE]

Call == [actor: Users \cup {None}, user: Users \cup {None}, invite: Invites \cup {None},
         role: Roles \cup {None}, others: SUBSET Invites]
NoCall == [actor |-> None, user |-> None, invite |-> None, role |-> None, others |-> {}]

Labels == {"idle", "revokeOthers", "insert", "revoke", "acceptCheck", "acceptWrite",
           "register", "setRole", "remove", "switch"}

Goto(r, label) == pc' = [pc EXCEPT ![r] = label]

Begin(r, label, c) ==
  /\ pc[r] = "idle"
  /\ Goto(r, label)
  /\ call' = [call EXCEPT ![r] = c]

Finish(r) ==
  /\ Goto(r, "idle")
  /\ call' = [call EXCEPT ![r] = NoCall]

\* OrgGuard, then RolesGuard
IsMember(u) == member[u].status = "ACTIVE"

MayUse(u, roles) == IsMember(u) /\ member[u].role \in roles

Init ==
  /\ account = {Owner}
  /\ member = [u \in Users |->
       IF u = Owner THEN [status |-> "ACTIVE", role |-> "OWNER"] ELSE NoMember]
  /\ invite = [i \in Invites |-> NoInvite]
  /\ tenant = {}
  /\ accepted = [i \in Invites |-> 0]
  /\ pc = [r \in Requests |-> "idle"]
  /\ call = [r \in Requests |-> NoCall]

-----------------------------------------------------------------------------
(* Time: an invitation becomes due, and a later listing expires it.        *)

BecomeDue(i) ==
  /\ invite[i].status = "PENDING" /\ ~invite[i].due
  /\ invite' = [invite EXCEPT ![i].due = TRUE]
  /\ UNCHANGED <<account, member, tenant, accepted, pc, call>>

\* An invitation that is answered; its expiry no longer matters.
Settled(i, status) == [invite[i] EXCEPT !.status = status, !.due = FALSE]

Expired ==
  [i \in Invites |->
     IF invite[i].status = "PENDING" /\ invite[i].due
     THEN Settled(i, "EXPIRED") ELSE invite[i]]

expirePendingInvitations ==
  /\ invite' = Expired
  /\ UNCHANGED <<account, member, tenant, accepted, pc, call>>

-----------------------------------------------------------------------------
(* createInvitation and revokeInvitation                                   *)

MayInvite(actor, role) ==
  /\ MayUse(actor, {"OWNER", "ADMIN"})
  /\ ~(member[actor].role = "ADMIN" /\ role = "ADMIN")

CreateInvitation(r, actor, u, role) ==
  /\ MayInvite(actor, role)
  /\ ~(u \in account /\ member[u].status = "ACTIVE")
  /\ Begin(r, "revokeOthers", [NoCall EXCEPT !.actor = actor, !.user = u, !.role = role])
  /\ UNCHANGED rows

\* updateMany, on the rows the statement can see.
RevokeOthers(r) ==
  /\ pc[r] = "revokeOthers"
  /\ call' = [call EXCEPT ![r].others =
       {i \in Invites : invite[i].status = "PENDING" /\ invite[i].email = call[r].user}]
  /\ Goto(r, "insert")
  /\ UNCHANGED rows

InsertInvitation(r) ==
  LET c == call[r]
  IN /\ pc[r] = "insert"
     /\ \E new \in Invites :
          /\ invite[new].status = "ABSENT"
          /\ invite' = [i \in Invites |->
               IF i = new
               THEN [status |-> "PENDING", email |-> c.user, role |-> c.role,
                     invitedBy |-> c.actor, due |-> FALSE]
               ELSE IF i \in c.others /\ invite[i].status = "PENDING"
               THEN Settled(i, "REVOKED") ELSE invite[i]]
     /\ Finish(r)
     /\ UNCHANGED <<account, member, tenant, accepted>>

RevokeInvitation(r, actor, i) ==
  /\ MayUse(actor, {"OWNER", "ADMIN"})
  /\ invite[i].status = "PENDING"
  /\ member[actor].role = "OWNER" \/ invite[i].invitedBy = actor
  /\ Begin(r, "revoke", [NoCall EXCEPT !.invite = i])
  /\ UNCHANGED rows

\* invitation.update by id
Revoke(r) ==
  /\ pc[r] = "revoke"
  /\ invite' = [invite EXCEPT ![call[r].invite] = Settled(call[r].invite, "REVOKED")]
  /\ Finish(r)
  /\ UNCHANGED <<account, member, tenant, accepted>>

-----------------------------------------------------------------------------
(* acceptInvitation, and register with an invitation                       *)

\* (variant of Addressed) whoever has the token
AddressedToAnyone(i, u) == TRUE

Addressed(i, u) == invite[i].email = u

\* findPendingInvitation, and whose invitation it is
AcceptInvitation(r, u, i) ==
  /\ u \in account
  /\ Expired[i].status = "PENDING"
  /\ Addressed(i, u)
  /\ Begin(r, "acceptCheck", [NoCall EXCEPT !.user = u, !.invite = i])
  /\ invite' = Expired
  /\ UNCHANGED <<account, member, tenant, accepted>>

Joinable(u) == member[u].status # "ACTIVE"

AcceptCheck(r) ==
  /\ pc[r] = "acceptCheck"
  /\ IF Joinable(call[r].user)
     THEN Goto(r, "acceptWrite") /\ UNCHANGED call
     ELSE Finish(r)
  /\ UNCHANGED rows

\* (variant of Join) the status of the invitation is copied, too
JoinAsInvited(u, i) ==
  /\ member' = [member EXCEPT ![u] = [status |-> invite[i].status, role |-> invite[i].role]]
  /\ invite' = [invite EXCEPT ![i] = Settled(i, "ACCEPTED")]
  /\ accepted' = [accepted EXCEPT ![i] = @ + 1]

\* The membership the user gets, and the invitation, by id.
Join(u, i) ==
  /\ member' = [member EXCEPT ![u] = [status |-> "ACTIVE", role |-> invite[i].role]]
  /\ invite' = [invite EXCEPT ![i] = Settled(i, "ACCEPTED")]
  /\ accepted' = [accepted EXCEPT ![i] = @ + 1]

\* membership.upsert, invitation.update and the session, in one transaction
AcceptWrite(r) ==
  /\ pc[r] = "acceptWrite"
  /\ Join(call[r].user, call[r].invite)
  /\ tenant' = tenant \cup {call[r].user}
  /\ UNCHANGED account
  /\ Finish(r)

\* Registration reads the invitation without expiring the others.
Register(r, u, i) ==
  /\ u \notin account
  /\ invite[i].status = "PENDING" /\ ~invite[i].due
  /\ Addressed(i, u)
  /\ Begin(r, "register", [NoCall EXCEPT !.user = u, !.invite = i])
  /\ UNCHANGED rows

\* user.create fails when another registration took the address.  The session
\* that is opened right after the commit is part of this step.
RegisterWrite(r) ==
  /\ pc[r] = "register"
  /\ IF call[r].user \in account
     THEN UNCHANGED rows
     ELSE /\ account' = account \cup {call[r].user}
          /\ Join(call[r].user, call[r].invite)
          /\ tenant' = tenant \cup {call[r].user}
  /\ Finish(r)

\* Without an invitation a user gets an organization of their own.
RegisterAlone(u) ==
  /\ u \notin account
  /\ account' = account \cup {u}
  /\ UNCHANGED <<member, invite, tenant, accepted, pc, call>>

-----------------------------------------------------------------------------
(* updateMembershipRole, removeMember, and the switch of a session         *)

\* (variant of Changeable) the role is not looked at
ChangeableAny(u) == member[u].status = "ACTIVE"

Changeable(u) == member[u].status = "ACTIVE" /\ member[u].role # "OWNER"

UpdateMembershipRole(r, actor, u, role) ==
  /\ MayUse(actor, {"OWNER"})
  /\ Changeable(u)
  /\ Begin(r, "setRole", [NoCall EXCEPT !.user = u, !.role = role])
  /\ UNCHANGED rows

SetRole(r) ==
  /\ pc[r] = "setRole"
  /\ member' = [member EXCEPT ![call[r].user].role = call[r].role]
  /\ Finish(r)
  /\ UNCHANGED <<account, invite, tenant, accepted>>

RemoveMember(r, actor, u) ==
  /\ MayUse(actor, {"OWNER"})
  /\ Changeable(u)
  /\ u # actor
  /\ Begin(r, "remove", [NoCall EXCEPT !.user = u])
  /\ UNCHANGED rows

Remove(r) ==
  /\ pc[r] = "remove"
  /\ member' = [member EXCEPT ![call[r].user].status = "REMOVED"]
  /\ tenant' = tenant \ {call[r].user}
  /\ Finish(r)
  /\ UNCHANGED <<account, invite, accepted>>

SwitchActive(r, u) ==
  /\ MayUse(u, Roles \cup {"OWNER"})
  /\ Begin(r, "switch", [NoCall EXCEPT !.user = u])
  /\ UNCHANGED rows

Switch(r) ==
  /\ pc[r] = "switch"
  /\ tenant' = tenant \cup {call[r].user}
  /\ Finish(r)
  /\ UNCHANGED <<account, member, invite, accepted>>

-----------------------------------------------------------------------------
\* A request that fails before its transaction commits, or finds no id left.
Abort(r) ==
  /\ pc[r] # "idle"
  /\ Finish(r)
  /\ UNCHANGED rows

Arrive(r) ==
  \/ \E actor \in Users, u \in Users, role \in Roles :
       CreateInvitation(r, actor, u, role) \/ UpdateMembershipRole(r, actor, u, role)
  \/ \E actor \in Users, i \in Invites : RevokeInvitation(r, actor, i)
  \/ \E actor \in Users, u \in Users : RemoveMember(r, actor, u)

\* What somebody who need not be a member yet may do.
Answer(r) == \E u \in Users, i \in Invites : AcceptInvitation(r, u, i)

Proceed(r) ==
  \/ RevokeOthers(r) \/ InsertInvitation(r) \/ Revoke(r)
  \/ AcceptCheck(r) \/ AcceptWrite(r) \/ RegisterWrite(r)
  \/ SetRole(r) \/ Remove(r) \/ Switch(r)

Next ==
  \/ \E i \in Invites : BecomeDue(i)
  \/ expirePendingInvitations
  \/ \E u \in Users : RegisterAlone(u)
  \/ \E r \in Requests :
       \/ Arrive(r) \/ Answer(r) \/ Proceed(r) \/ Abort(r)
       \/ \E u \in Users, i \in Invites : Register(r, u, i)
       \/ \E u \in Users : SwitchActive(r, u)

Spec == Init /\ [][Next]_vars

-----------------------------------------------------------------------------
(* Properties                                                              *)

(* Rows and requests keep their shape.                                     *)
TypeOK ==
  /\ account \in SUBSET Users
  /\ member \in [Users -> Membership]
  /\ invite \in [Invites -> Invitation]
  /\ tenant \in SUBSET Users
  /\ accepted \in [Invites -> Nat]
  /\ pc \in [Requests -> Labels]
  /\ call \in [Requests -> Call]

(* The organization always has its owner, ACTIVE, and no other: no         *)
(* invitation, however late it is accepted, and no role change or removal  *)
(* that acts on an old reading demotes, removes or adds an owner.          *)
OwnerStays ==
  \A u \in Users : member[u] = [status |-> "ACTIVE", role |-> "OWNER"] <=> u = Owner

InvitedAs(u, role) ==
  \E i \in Invites : accepted[i] > 0 /\ invite[i].email = u /\ invite[i].role = role

(* Nobody becomes a member, and no session points to the organization,     *)
(* without an accepted invitation to that person's own address.            *)
MembersWereInvited ==
  \A u \in Users \ {Owner} :
    member[u].status # "ABSENT" \/ u \in tenant =>
      u \in account /\ \E role \in Roles : InvitedAs(u, role)
=============================================================================
