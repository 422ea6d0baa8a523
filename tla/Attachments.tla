---------------------------- MODULE Attachments -----------------------------
(***************************************************************************)
(* Files attached to a work item: attachments.service.ts over Attachment   *)
(* and AuditLog rows in PostgreSQL and the objects of a store outside it.  *)
(* An upload writes the object first, a removal deletes it first, and each *)
(* then runs one transaction.  A call that is reported to fail may have    *)
(* had its effect: an object half written, a commit whose answer was lost. *)
(* Work items are never deleted, so looking one up always finds it.        *)
(***************************************************************************)
EXTENDS Integers

CONSTANTS Files,     \* storage keys, and the ids of their Attachment rows
          Users,
          Admins,    \* the users whose role is OWNER or ADMIN
          Requests,  \* uploads and removals in flight at the same time
          None

ASSUME FilesAssumption ==
  /\ Admins \subseteq Users
  /\ None \notin Files \cup Users

VARIABLES row,     \* Attachment rows
          object,  \* storage keys the object store has
          audit,   \* ATTACHMENT_UPLOADED and ATTACHMENT_DELETED rows of each
          doubt,   \* ghost: files of an upload that failed with an unknown
                   \* effect, or whose instance was lost
          removal, \* ghost: files some removal has deleted from the store
          pc,
          call     \* the file each request works on, and who asked

rows == <<row, audit>>
vars == <<row, object, audit, doubt, removal, pc, call>>

Row == [status: {"ABSENT", "STORED", "DELETED"}, uploadedBy: Users \cup {None}]
NoRow == [status |-> "ABSENT", uploadedBy |-> None]
Audit == [uploaded: Nat, deleted: Nat]
NoAudit == [uploaded |-> 0, deleted |-> 0]
Call == [file: Files \cup {None}, user: Users \cup {None}]
NoCall == [file |-> None, user |-> None]
Labels == {"idle", "put", "insert", "compensate", "deleteObject", "deleteRow"}

At(r, label) == pc[r] = label
Goto(r, label) == pc' = [pc EXCEPT ![r] = label]
Begin(r, label, f, u) ==
  /\ At(r, "idle")
  /\ Goto(r, label)
  /\ call' = [call EXCEPT ![r] = [file |-> f, user |-> u]]
Continue(r, label) == Goto(r, label) /\ UNCHANGED call
Finish(r) == Goto(r, "idle") /\ call' = [call EXCEPT ![r] = NoCall]

Stored(f) == row[f].status = "STORED"

Init ==
  /\ row = [f \in Files |-> NoRow]
  /\ object = {}
  /\ audit = [f \in Files |-> NoAudit]
  /\ doubt = {}
  /\ removal = {}
  /\ pc = [r \in Requests |-> "idle"]
  /\ call = [r \in Requests |-> NoCall]

-----------------------------------------------------------------------------
\* A missing, empty, too large or unsupported file, an attachment that is not
\* there, or a user who may not remove it: the request throws.
Refuse(r) == At(r, "idle") /\ UNCHANGED vars

(* upload: the storage key has a new UUID                                  *)

Unused(f) ==
  /\ row[f].status = "ABSENT"
  /\ f \notin object \cup doubt
  /\ \A r \in Requests : call[r].file # f

Upload(r, u) ==
  /\ \E f \in Files : Unused(f) /\ Begin(r, "put", f, u)
  /\ UNCHANGED <<rows, object, doubt, removal>>

\* objectStorage.put, outside the try block.
Put(r) ==
  LET f == call[r].file
  IN /\ At(r, "put")
     /\ \/ /\ object' = object \cup {f}
           /\ Continue(r, "insert")
           /\ UNCHANGED doubt
        \/ /\ object' \in {object, object \cup {f}}
           /\ doubt' = doubt \cup {f}
           /\ Finish(r)
     /\ UNCHANGED <<rows, removal>>

\* (variant of InsertRow) nobody is named as the uploader
InsertRowOfNobody(f, u) ==
  /\ row' = [row EXCEPT ![f].status = "STORED"]
  /\ audit' = [audit EXCEPT ![f].uploaded = @ + 1]

InsertRow(f, u) ==
  /\ row' = [row EXCEPT ![f] = [status |-> "STORED", uploadedBy |-> u]]
  /\ audit' = [audit EXCEPT ![f].uploaded = @ + 1]

\* The transaction, and the way into its catch block.
Insert(r) ==
  LET f == call[r].file
  IN /\ At(r, "insert")
     /\ \/ InsertRow(f, call[r].user) /\ Finish(r) /\ UNCHANGED doubt
        \/ UNCHANGED <<rows, doubt>> /\ Continue(r, "compensate")
        \/ /\ InsertRow(f, call[r].user)
           /\ doubt' = doubt \cup {f}
           /\ Continue(r, "compensate")
     /\ UNCHANGED <<object, removal>>

\* (variant of Compensate) the catch block rethrows and leaves the object
CompensateNothing(r) ==
  /\ At(r, "compensate")
  /\ Finish(r)
  /\ UNCHANGED <<rows, object, doubt, removal>>

Compensate(r) ==
  LET f == call[r].file
  IN /\ At(r, "compensate")
     /\ \/ object' = object \ {f} /\ UNCHANGED doubt
        \/ object' \in {object, object \ {f}} /\ doubt' = doubt \cup {f}
     /\ Finish(r)
     /\ UNCHANGED <<rows, removal>>

-----------------------------------------------------------------------------
(* remove                                                                  *)

MayRemove(f, u) == row[f].uploadedBy = u \/ u \in Admins

Remove(r, f, u) ==
  /\ Stored(f) /\ MayRemove(f, u)
  /\ Begin(r, "deleteObject", f, u)
  /\ UNCHANGED <<rows, object, doubt, removal>>

\* Deleting an object that is not there succeeds, in both stores.
DeleteObject(r) ==
  LET f == call[r].file
  IN /\ At(r, "deleteObject")
     /\ \/ object' = object \ {f} /\ Continue(r, "deleteRow")
        \/ object' \in {object, object \ {f}} /\ Finish(r)
     /\ removal' = removal \cup (object \ object')
     /\ UNCHANGED <<rows, doubt>>

\* (variant of RowIsThere) deleteMany in place of delete
RowIsThereOrNot(f) == TRUE

\* Deleting a row that is not there throws, and the transaction with it.
RowIsThere(f) == Stored(f)

DeleteRow(r) ==
  LET f == call[r].file
  IN /\ At(r, "deleteRow")
     /\ \/ /\ RowIsThere(f)
           /\ row' = [row EXCEPT ![f].status = "DELETED"]
           /\ audit' = [audit EXCEPT ![f].deleted = @ + 1]
        \/ UNCHANGED rows
     /\ Finish(r)
     /\ UNCHANGED <<object, doubt, removal>>

-----------------------------------------------------------------------------
(* The instance that serves the request is lost.                           *)
Abort(r) ==
  /\ ~At(r, "idle")
  /\ doubt' = IF pc[r] \in {"put", "insert", "compensate"}
              THEN doubt \cup {call[r].file} ELSE doubt
  /\ Finish(r)
  /\ UNCHANGED <<rows, object, removal>>

Next ==
  \E r \in Requests :
    \/ Refuse(r)
    \/ \E u \in Users : Upload(r, u)
    \/ Put(r)
    \/ Insert(r)
    \/ Compensate(r)
    \/ \E f \in Files, u \in Users : Remove(r, f, u)
    \/ DeleteObject(r)
    \/ DeleteRow(r)
    \/ Abort(r)

Spec == Init /\ [][Next]_vars
-----------------------------------------------------------------------------
(* Properties                                                              *)

(* Rows and requests keep their shape; a row has its uploader, a request   *)
(* in flight its file.                                                     *)
TypeOK ==
  /\ row \in [Files -> Row]
  /\ \A f \in Files : row[f].status = "ABSENT" <=> row[f].uploadedBy = None
  /\ object \subseteq Files
  /\ audit \in [Files -> Audit]
  /\ doubt \subseteq Files /\ removal \subseteq Files
  /\ pc \in [Requests -> Labels]
  /\ call \in [Requests -> Call]
  /\ \A r \in Requests : At(r, "idle") <=> call[r] = NoCall

(* What can be listed can be downloaded, unless a removal has deleted its  *)
(* object and not yet, or never, its row; and the store keeps no object    *)
(* that no row names, unless an upload is under way.  The exceptions are   *)
(* the files of uploads whose effect is unknown.                           *)
FilesMatchRows ==
  \A f \in Files \ doubt :
    /\ Stored(f) => f \in object \/ f \in removal
    /\ f \in object => \/ Stored(f)
                       \/ \E r \in Requests : call[r].file = f /\ pc[r] \in {"insert", "compensate"}

(* The audit log tells the story of the rows: one upload for every row     *)
(* there ever was and one deletion for every row that is gone, whoever     *)
(* else was removing the same file.                                        *)
AuditTellsRows ==
  \A f \in Files :
    /\ audit[f].uploaded = IF row[f].status = "ABSENT" THEN 0 ELSE 1
    /\ audit[f].deleted = IF row[f].status = "DELETED" THEN 1 ELSE 0
=============================================================================
