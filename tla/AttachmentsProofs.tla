------------------------- MODULE AttachmentsProofs --------------------------
(***************************************************************************)
(* Safety of Attachments for every set of files, users, admins and         *)
(* requests in flight, and of ItemPage over it for every set of comments.  *)
(***************************************************************************)
EXTENDS ItemPage, TLAPS

-----------------------------------------------------------------------------
(* The inductive invariant.                                                *)

\* An upload whose row has not been inserted, as far as it knows rightly.
Fresh(r) ==
  \/ pc[r] \in {"put", "insert"}
  \/ pc[r] = "compensate" /\ call[r].file \notin doubt

\* A request in flight has a file and a user.
CallInv(r) ==
  pc[r] # "idle" => call[r].file \in Files /\ call[r].user \in Users

\* Nobody else works on the file of an upload that has no row yet.
UploadInv(r) ==
  /\ Fresh(r) => /\ row[call[r].file].status = "ABSENT"
                 /\ \A q \in Requests \ {r} : call[q].file # call[r].file
  /\ pc[r] = "insert" => call[r].file \in object

\* A removal works on a file that had a row, and never puts its object back.
RemovalInv(r) ==
  /\ pc[r] \in {"deleteObject", "deleteRow"} => row[call[r].file].status # "ABSENT"
  /\ pc[r] = "deleteRow" => call[r].file \notin object

RequestInv == \A r \in Requests : CallInv(r) /\ UploadInv(r) /\ RemovalInv(r)

IInv == TypeOK /\ RequestInv /\ FilesMatchRows /\ AuditTellsRows

-----------------------------------------------------------------------------
(* Every step preserves it, action by action.                              *)

\* The part of TypeOK that is about requests.
RequestTypes ==
  /\ pc \in [Requests -> Labels]
  /\ call \in [Requests -> Call]
  /\ \A r \in Requests : At(r, "idle") <=> call[r] = NoCall

LEMMA FinishTypes ==
  ASSUME TypeOK, NEW r \in Requests, Finish(r) PROVE RequestTypes'
BY DEF TypeOK, RequestTypes, Finish, Goto, At, Labels, Call, NoCall

LEMMA ContinueTypes ==
  ASSUME TypeOK, NEW r \in Requests, ~At(r, "idle"),
         NEW label \in Labels \ {"idle"}, Continue(r, label)
  PROVE  RequestTypes'
BY DEF TypeOK, RequestTypes, Continue, Goto, At

\* What a request in flight knows.
LEMMA InFlight ==
  ASSUME IInv, NEW r \in Requests, ~At(r, "idle")
  PROVE  /\ call[r].file \in Files /\ call[r].user \in Users
         /\ CallInv(r) /\ UploadInv(r) /\ RemovalInv(r)
BY DEF IInv, RequestInv, CallInv, At

LEMMA InitStep == Init => IInv
<1> SUFFICES ASSUME Init PROVE IInv
  OBVIOUS
<1> USE FilesAssumption DEF Init
<1>1. TypeOK
  BY DEF TypeOK, Row, NoRow, Audit, NoAudit, Call, NoCall, Labels, At
<1>2. RequestInv
  BY DEF RequestInv, CallInv, UploadInv, RemovalInv, Fresh
<1>3. FilesMatchRows /\ AuditTellsRows
  BY DEF FilesMatchRows, AuditTellsRows, Stored, NoRow, NoAudit
<1> QED
  BY <1>1, <1>2, <1>3 DEF IInv

\* The file of an upload is used by no other request and has no object yet.
LEMMA UploadStep ==
  ASSUME IInv, NEW r \in Requests, NEW u \in Users, Upload(r, u) PROVE IInv'
<1>1. PICK f \in Files : Unused(f) /\ Begin(r, "put", f, u)
  BY DEF Upload
<1> USE <1>1, FilesAssumption DEF IInv, Upload, Unused, Begin, Goto, At, rows
<1>2. TypeOK'
  BY DEF TypeOK, Call, NoCall, Labels
<1>3. RequestInv'
  BY DEF TypeOK, RequestInv, CallInv, UploadInv, RemovalInv, Fresh, Call, NoCall
<1>4. FilesMatchRows'
  BY DEF TypeOK, FilesMatchRows, Stored, Call
<1>5. AuditTellsRows'
  BY DEF AuditTellsRows
<1> QED
  BY <1>2, <1>3, <1>4, <1>5

LEMMA PutStep ==
  ASSUME IInv, NEW r \in Requests, Put(r) PROVE IInv'
<1> USE FilesAssumption DEF IInv, Put, Continue, Finish, Goto, At, rows
<1>a. call[r].file \in Files
  BY InFlight
<1>b. RequestTypes'
  BY FinishTypes, ContinueTypes DEF Labels
<1>1. TypeOK'
  BY <1>a, <1>b DEF TypeOK, RequestTypes
<1>2. RequestInv'
  <2>1. CASE Continue(r, "insert") /\ object' = object \cup {call[r].file} /\ UNCHANGED doubt
    BY <2>1 DEF TypeOK, RequestInv, CallInv, UploadInv, RemovalInv, Fresh
  <2>2. CASE Finish(r) /\ doubt' = doubt \cup {call[r].file}
    <3>1. object' \subseteq object \cup {call[r].file}
      OBVIOUS
    <3>2. object \subseteq object'
      OBVIOUS
    <3> QED
      BY <2>2, <3>1, <3>2
      DEF TypeOK, RequestInv, CallInv, UploadInv, RemovalInv, Fresh, Call, NoCall
  <2> QED
    BY <2>1, <2>2
<1>3. FilesMatchRows'
  BY DEF TypeOK, FilesMatchRows, Stored, Call, NoCall
<1>4. AuditTellsRows'
  BY DEF AuditTellsRows
<1> QED
  BY <1>1, <1>2, <1>3, <1>4

\* The row is inserted once: it was absent, and no other upload has its key.
LEMMA InsertStep ==
  ASSUME IInv, NEW r \in Requests, Insert(r) PROVE IInv'
<1> USE FilesAssumption DEF IInv, Insert, InsertRow, Continue, Finish, Goto, At, rows
<1>a. call[r].file \in Files /\ call[r].user \in Users
  BY InFlight
<1>b. RequestTypes'
  BY FinishTypes, ContinueTypes DEF Labels
<1>c. row' \in [Files -> Row]
  BY <1>a DEF TypeOK, Row
<1>d. audit' \in [Files -> Audit]
  BY <1>a DEF TypeOK, Audit
<1>e. \A f \in Files : row'[f].status = "ABSENT" <=> row'[f].uploadedBy = None
  BY <1>a DEF TypeOK, Row
<1>1. TypeOK'
  BY <1>a, <1>b, <1>c, <1>d, <1>e DEF TypeOK, RequestTypes
<1>2. RequestInv'
  BY DEF TypeOK, RequestInv, CallInv, UploadInv, RemovalInv, Fresh, Call, NoCall, Row
<1>3. FilesMatchRows'
  <2>1. SUFFICES ASSUME NEW f \in Files, f \notin doubt', Stored(f)' \/ f \in object
                 PROVE  /\ Stored(f)' => f \in object \/ f \in removal
                        /\ f \in object => \/ Stored(f)'
                                           \/ \E q \in Requests : /\ call'[q].file = f
                                                                /\ pc'[q] \in {"insert", "compensate"}
    BY DEF FilesMatchRows
  <2>2. CASE f = call[r].file
    BY <2>1, <2>2, InFlight DEF TypeOK, FilesMatchRows, Stored, UploadInv, Row
  <2>3. CASE f # call[r].file
    BY <2>1, <2>3 DEF TypeOK, FilesMatchRows, Stored
  <2> QED
    BY <2>2, <2>3
<1>4. AuditTellsRows'
  BY DEF TypeOK, AuditTellsRows, RequestInv, UploadInv, CallInv, Fresh, Row, Audit
<1> QED
  BY <1>1, <1>2, <1>3, <1>4

\* The object it deletes has no row, or its file is in doubt.
LEMMA CompensateStep ==
  ASSUME IInv, NEW r \in Requests, Compensate(r) PROVE IInv'
<1> USE FilesAssumption DEF IInv, Compensate, Finish, Goto, At, rows
<1>1. TypeOK'
  BY DEF TypeOK, Call, NoCall, Labels, RequestInv, CallInv
<1>2. RequestInv'
  BY DEF TypeOK, RequestInv, CallInv, UploadInv, RemovalInv, Fresh, Call, NoCall
<1>3. FilesMatchRows'
  BY DEF TypeOK, FilesMatchRows, Stored, RequestInv, UploadInv, CallInv, Fresh, Call, NoCall
<1>4. AuditTellsRows'
  BY DEF AuditTellsRows
<1> QED
  BY <1>1, <1>2, <1>3, <1>4

\* A removal begins on a stored file, which no fresh upload has.
LEMMA RemoveStep ==
  ASSUME IInv, NEW r \in Requests, NEW f \in Files, NEW u \in Users, Remove(r, f, u)
  PROVE  IInv'
<1> USE FilesAssumption DEF IInv, Remove, Begin, Goto, At, rows
<1>1. TypeOK'
  BY DEF TypeOK, Call, NoCall, Labels
<1>2. RequestInv'
  BY DEF TypeOK, RequestInv, CallInv, UploadInv, RemovalInv, Fresh, Stored, Call, NoCall
<1>3. FilesMatchRows'
  BY DEF TypeOK, FilesMatchRows, Stored, Call
<1>4. AuditTellsRows'
  BY DEF AuditTellsRows
<1> QED
  BY <1>1, <1>2, <1>3, <1>4

LEMMA DeleteObjectStep ==
  ASSUME IInv, NEW r \in Requests, DeleteObject(r) PROVE IInv'
<1> USE FilesAssumption DEF IInv, DeleteObject, Continue, Finish, Goto, At, rows
<1>a. call[r].file \in Files
  BY InFlight
<1>b. RequestTypes'
  BY FinishTypes, ContinueTypes DEF Labels
<1>1. TypeOK'
  BY <1>a, <1>b DEF TypeOK, RequestTypes
<1>2. RequestInv'
  BY DEF TypeOK, RequestInv, CallInv, UploadInv, RemovalInv, Fresh, Call, NoCall
<1>3. FilesMatchRows'
  BY DEF TypeOK, FilesMatchRows, Stored, RequestInv, RemovalInv, CallInv, Call, NoCall
<1>4. AuditTellsRows'
  BY DEF AuditTellsRows
<1> QED
  BY <1>1, <1>2, <1>3, <1>4

\* Only a stored row is deleted, so its deletion is recorded once.
LEMMA DeleteRowStep ==
  ASSUME IInv, NEW r \in Requests, DeleteRow(r) PROVE IInv'
<1> USE FilesAssumption DEF IInv, DeleteRow, RowIsThere, Stored, Finish, Goto, At, rows
<1>a. call[r].file \in Files
  BY InFlight
<1>b. RequestTypes'
  BY FinishTypes
<1>c. row' \in [Files -> Row]
  BY <1>a DEF TypeOK, Row
<1>d. audit' \in [Files -> Audit]
  BY <1>a DEF TypeOK, Audit
<1>e. \A f \in Files : row'[f].status = "ABSENT" <=> row'[f].uploadedBy = None
  BY <1>a DEF TypeOK, Row
<1>1. TypeOK'
  BY <1>a, <1>b, <1>c, <1>d, <1>e DEF TypeOK, RequestTypes
<1>2. RequestInv'
  BY DEF TypeOK, RequestInv, CallInv, UploadInv, RemovalInv, Fresh, Call, NoCall, Row
<1>3. FilesMatchRows'
  BY DEF TypeOK, FilesMatchRows, RequestInv, RemovalInv, CallInv, Call, NoCall, Row
<1>4. AuditTellsRows'
  BY DEF TypeOK, AuditTellsRows, RequestInv, CallInv, Row, Audit
<1> QED
  BY <1>1, <1>2, <1>3, <1>4

\* A lost upload leaves its file in doubt.
LEMMA AbortStep ==
  ASSUME IInv, NEW r \in Requests, Abort(r) PROVE IInv'
<1> USE FilesAssumption DEF IInv, Abort, Finish, Goto, At, rows
<1>1. TypeOK'
  BY DEF TypeOK, Call, NoCall, Labels, RequestInv, CallInv
<1>2. RequestInv'
  BY DEF TypeOK, RequestInv, CallInv, UploadInv, RemovalInv, Fresh, Call, NoCall
<1>3. FilesMatchRows'
  BY DEF TypeOK, FilesMatchRows, Stored, Call, NoCall
<1>4. AuditTellsRows'
  BY DEF AuditTellsRows
<1> QED
  BY <1>1, <1>2, <1>3, <1>4

-----------------------------------------------------------------------------
(* Theorems.                                                               *)

LEMMA NextStep == IInv /\ [Next]_vars => IInv'
<1> SUFFICES ASSUME IInv, [Next]_vars PROVE IInv'
  OBVIOUS
<1>1. CASE Next
  <2>1. PICK r \in Requests :
          \/ Refuse(r)
          \/ \E u \in Users : Upload(r, u)
          \/ Put(r) \/ Insert(r) \/ Compensate(r)
          \/ \E f \in Files, u \in Users : Remove(r, f, u)
          \/ DeleteObject(r) \/ DeleteRow(r) \/ Abort(r)
    BY <1>1 DEF Next
  <2>2. CASE Refuse(r)
    BY <2>2 DEF Refuse, vars, rows, IInv, TypeOK, At, RequestInv, CallInv, UploadInv,
       RemovalInv, Fresh, FilesMatchRows, AuditTellsRows, Stored
  <2> QED
    BY <2>1, <2>2, UploadStep, PutStep, InsertStep, CompensateStep, RemoveStep,
       DeleteObjectStep, DeleteRowStep, AbortStep
<1>2. CASE UNCHANGED vars
  BY <1>2 DEF vars, rows, IInv, TypeOK, At, RequestInv, CallInv, UploadInv,
     RemovalInv, Fresh, FilesMatchRows, AuditTellsRows, Stored
<1> QED
  BY <1>1, <1>2

(* The inductive invariant: beside what is checked, no two requests share  *)
(* the key of an upload in flight, and a removal never revives its object. *)
THEOREM Invariance == Spec => []IInv
<1> QED
  BY InitStep, NextStep, PTL DEF Spec

(* Attachment rows, objects, audit rows and requests keep their types.     *)
THEOREM TypeCorrect == Spec => []TypeOK
<1>1. IInv => TypeOK
  BY DEF IInv
<1> QED
  BY <1>1, Invariance, PTL

(* A stored row has its object unless a removal took it, and an object has *)
(* its row unless an upload is under way, however uploads, removals,       *)
(* failures and lost instances interleave.                                 *)
THEOREM RowsAndObjects == Spec => []FilesMatchRows
<1>1. IInv => FilesMatchRows
  BY DEF IInv
<1> QED
  BY <1>1, Invariance, PTL

(* One ATTACHMENT_UPLOADED row for every attachment there ever was and one *)
(* ATTACHMENT_DELETED row for every one that is gone, however many         *)
(* requests remove the same file.                                          *)
THEOREM AuditTrail == Spec => []AuditTellsRows
<1>1. IInv => AuditTellsRows
  BY DEF IInv
<1> QED
  BY <1>1, Invariance, PTL

-----------------------------------------------------------------------------
(* The page.                                                               *)

Rows(f) == row[f].status

PageTypes ==
  /\ phase \in {"loading", "open"}
  /\ thread \subseteq Comments
  /\ known \subseteq Files \cup Comments
  /\ gone \subseteq Files
  /\ asked \in [Requests -> {Nothing} \cup [op: {"upload", "delete"}, file: Files]]
  /\ reply \in [Requests \cup Comments -> {"none", "ok", "error"}]
  /\ fetched \in [item: SUBSET (Files \cup {None}), comments: SUBSET (Comments \cup {None})]

\* Nothing is under way on behalf of a page that is loading.
LoadInv ==
  phase = "loading" =>
    /\ known = {} /\ gone = {} /\ awaits = {}
    /\ \A r \in Requests : asked[r] = Nothing
    /\ \A c \in Comments : reply[c] = "none"
    /\ \A f \in fetched.item \ {None} : Rows(f) # "ABSENT"
    /\ fetched.comments \ {None} \subseteq thread

\* A file that is being uploaded is new to the page; an answer is true.
AskedInv(r) ==
  LET f == asked[r].file
  IN /\ asked[r] = Nothing => reply[r] = "none" /\ r \notin awaits
     /\ asked[r].op = "upload" =>
          /\ f \notin known \cup gone
          /\ \A q \in Requests \ {r} : asked[q].op # "upload"
          /\ pc[r] \in {"idle", "put", "insert", "compensate"}
          /\ reply[r] = "ok" => Rows(f) # "ABSENT"
     /\ asked[r].op = "delete" =>
          /\ f \in known
          /\ pc[r] \in {"idle", "deleteObject", "deleteRow"}
          /\ reply[r] = "ok" => Rows(f) = "DELETED"
     /\ asked[r] # Nothing /\ pc[r] # "idle" => call[r].file = f

Shows ==
  /\ PageKeepsUp
  /\ \A f \in gone : Rows(f) = "DELETED"
  /\ \A c \in Comments : reply[c] = "ok" => c \in thread

PageInv ==
  /\ IInv
  /\ PageTypes
  /\ LoadInv
  /\ Shows
  /\ \A r \in Requests : AskedInv(r)

LEMMA NothingIs == Nothing.op = "none" /\ Nothing.file = None
BY DEF Nothing

\* A row that is there stays, and a deleted one is never stored again.
RowsStay ==
  \A f \in Files : /\ Rows(f) # "ABSENT" => Rows(f)' # "ABSENT"
                   /\ Rows(f) = "DELETED" => Rows(f)' = "DELETED"

LEMMA RowsStayStep == ASSUME IInv, [Next]_vars PROVE RowsStay
<1>1. CASE UNCHANGED rows
  BY <1>1 DEF rows, RowsStay, Rows
<1>2. ASSUME NEW r \in Requests, Insert(r), ~UNCHANGED rows PROVE RowsStay
  <2>1. call[r].file \in Files /\ row[call[r].file].status = "ABSENT"
    BY <1>2, InFlight DEF Insert, At, UploadInv, Fresh
  <2>2. row' = [row EXCEPT ![call[r].file] =
                  [status |-> "STORED", uploadedBy |-> call[r].user]]
    BY <1>2 DEF Insert, InsertRow
  <2> QED
    BY <2>1, <2>2 DEF RowsStay, Rows, IInv, TypeOK
<1>3. ASSUME NEW r \in Requests, DeleteRow(r), ~UNCHANGED rows PROVE RowsStay
  <2>1. call[r].file \in Files
    BY <1>3, InFlight DEF DeleteRow, At
  <2>2. row' = [row EXCEPT ![call[r].file].status = "DELETED"]
    BY <1>3 DEF DeleteRow
  <2> QED
    BY <2>1, <2>2 DEF RowsStay, Rows, IInv, TypeOK, Row
<1> QED
  BY <1>1, <1>2, <1>3 DEF Next, vars, rows, Refuse, Upload, Put, Compensate, Remove, DeleteObject,
     Abort

\* The service moves, and what the page knows and shows is as it was.
LEMMA StoreStep ==
  ASSUME PageInv, [Next]_vars,
         UNCHANGED <<thread, activity, phase, fetched, shown, asked, awaits, known, gone>>,
         reply' \in [Requests \cup Comments -> {"none", "ok", "error"}],
         \A c \in Comments : reply'[c] = reply[c],
         \A r \in Requests : AskedInv(r)'
  PROVE  PageInv'
<1>1. IInv' /\ RowsStay
  BY NextStep, RowsStayStep DEF PageInv
<1>2. PageTypes'
  BY DEF PageInv, PageTypes
<1>3. LoadInv'
  <2>1. None \notin Files /\ fetched.item \subseteq Files \cup {None}
    BY FilesAssumption DEF PageInv, PageTypes
  <2> QED
    BY <1>1, <2>1 DEF PageInv, LoadInv, RowsStay
<1>4. Shows'
  <2>1. \A f \in known \cap Files : Stored(f)' => Stored(f)
    <3> SUFFICES ASSUME NEW f \in known \cap Files, Stored(f)', ~Stored(f) PROVE FALSE
      OBVIOUS
    <3>1. row[f].status \in {"ABSENT", "STORED", "DELETED"}
      BY DEF PageInv, IInv, TypeOK, Row
    <3> QED
      BY <1>1, <3>1 DEF PageInv, Shows, PageKeepsUp, RowsStay, Rows, Stored
  <2>2. There' \cap known \subseteq There
    BY <2>1 DEF There, PageInv, PageTypes
  <2>3. gone \cap There' = {}
    <3> SUFFICES ASSUME NEW f \in gone, f \in There' PROVE FALSE
      OBVIOUS
    <3>1. f \in Files /\ Rows(f)' = "DELETED"
      BY <1>1 DEF PageInv, PageTypes, Shows, RowsStay
    <3>2. f \notin thread'
      BY <3>1, PageAssumption DEF PageInv, PageTypes
    <3> QED
      BY <3>1, <3>2 DEF There, Stored, Rows
  <2>4. PageKeepsUp'
    BY <1>1, <2>2, <2>3 DEF PageInv, PageTypes, Shows, PageKeepsUp, RowsStay, Rows
  <2>5. \A f \in gone' : Rows(f)' = "DELETED"
    BY <1>1 DEF PageInv, PageTypes, Shows, RowsStay
  <2> QED
    BY <2>4, <2>5 DEF PageInv, Shows
<1> QED
  BY <1>1, <1>2, <1>3, <1>4 DEF PageInv

\* What a request was asked for is not touched by the steps of the others.
LEMMA AskedStays ==
  ASSUME PageInv, [Next]_vars, NEW q \in Requests, UNCHANGED <<asked, awaits, known, gone>>,
         reply'[q] = reply[q], pc'[q] = pc[q], call'[q] = call[q]
  PROVE  AskedInv(q)'
<1>1. AskedInv(q) /\ RowsStay
  BY RowsStayStep DEF PageInv
<1>2. asked[q].op \in {"upload", "delete"} => asked[q].file \in Files
  BY NothingIs DEF PageInv, PageTypes
<1> QED
  BY <1>1, <1>2 DEF AskedInv, RowsStay

\* A request that is still asked for, or done, knows its file.
LEMMA AskedFile ==
  ASSUME PageInv, NEW r \in Requests
  PROVE  /\ AskedInv(r)
         /\ asked[r] # Nothing => asked[r].op \in {"upload", "delete"} /\ asked[r].file \in Files
BY DEF PageInv, PageTypes

LEMMA PageInitStep == PageInit => PageInv
<1> SUFFICES ASSUME PageInit PROVE PageInv
  OBVIOUS
<1> USE DEF PageInit
<1>1. IInv
  BY InitStep
<1>2. PageTypes /\ LoadInv
  BY DEF PageTypes, LoadInv
<1>3. \A r \in Requests : AskedInv(r)
  BY NothingIs DEF AskedInv
<1>4. Shows
  BY DEF Shows, PageKeepsUp, There
<1> QED
  BY <1>1, <1>2, <1>3, <1>4 DEF PageInv

\* A step of the service touches one request.
LEMMA ServeTouches ==
  ASSUME IInv, NEW r \in Requests, discussion' = discussion,
         \/ Put(r) \/ Insert(r) \/ Compensate(r) \/ DeleteObject(r) \/ DeleteRow(r) \/ Abort(r)
  PROVE  /\ Next
         /\ \A q \in Requests \ {r} : pc'[q] = pc[q] /\ call'[q] = call[q]
         /\ pc[r] \in {"put", "insert", "compensate"} => pc'[r] \in {"idle", "insert", "compensate"}
         /\ pc[r] \in {"deleteObject", "deleteRow"} => pc'[r] \in {"idle", "deleteRow"}
         /\ pc[r] # "idle"
         /\ pc'[r] # "idle" => call'[r] = call[r]
         /\ rows' # rows =>
              \/ pc[r] = "insert" /\ row'[call[r].file].status = "STORED"
              \/ pc[r] = "deleteRow" /\ row'[call[r].file].status = "DELETED"
<1>1. Next
  BY DEF Next
<1>2. /\ \A q \in Requests \ {r} : pc'[q] = pc[q] /\ call'[q] = call[q]
      /\ pc'[r] # "idle" => call'[r] = call[r]
  BY DEF Put, Insert, Compensate, DeleteObject, DeleteRow, Abort, Continue, Finish, Goto, IInv, TypeOK
<1>3. /\ pc[r] \in {"put", "insert", "compensate"} => pc'[r] \in {"idle", "insert", "compensate"}
      /\ pc[r] \in {"deleteObject", "deleteRow"} => pc'[r] \in {"idle", "deleteRow"}
      /\ pc[r] # "idle"
  BY DEF Put, Insert, Compensate, DeleteObject, DeleteRow, Abort, Continue, Finish, Goto, At,
     IInv, TypeOK
<1>4. ASSUME rows' # rows
      PROVE  \/ pc[r] = "insert" /\ row'[call[r].file].status = "STORED"
             \/ pc[r] = "deleteRow" /\ row'[call[r].file].status = "DELETED"
  <2>1. CASE Insert(r)
    <3>1. call[r].file \in Files /\ pc[r] = "insert"
      BY <2>1, InFlight DEF Insert, At
    <3>2. row' = [row EXCEPT ![call[r].file] =
                    [status |-> "STORED", uploadedBy |-> call[r].user]]
      BY <1>4, <2>1 DEF Insert, InsertRow
    <3> QED
      BY <3>1, <3>2 DEF IInv, TypeOK
  <2>2. CASE DeleteRow(r)
    <3>1. call[r].file \in Files /\ pc[r] = "deleteRow"
      BY <2>2, InFlight DEF DeleteRow, At
    <3>2. row' = [row EXCEPT ![call[r].file].status = "DELETED"]
      BY <1>4, <2>2 DEF DeleteRow
    <3> QED
      BY <3>1, <3>2 DEF IInv, TypeOK, Row
  <2> QED
    BY <1>4, <2>1, <2>2 DEF Put, Compensate, DeleteObject, Abort, rows
<1> QED
  BY <1>1, <1>2, <1>3, <1>4

LEMMA ServeStep == ASSUME PageInv, NEW r \in Requests, Serve(r) PROVE PageInv'
<1>1. /\ Next
      /\ \A q \in Requests \ {r} : pc'[q] = pc[q] /\ call'[q] = call[q]
      /\ pc[r] \in {"put", "insert", "compensate"} => pc'[r] \in {"idle", "insert", "compensate"}
      /\ pc[r] \in {"deleteObject", "deleteRow"} => pc'[r] \in {"idle", "deleteRow"}
      /\ pc[r] # "idle"
      /\ pc'[r] # "idle" => call'[r] = call[r]
      /\ rows' # rows =>
           \/ pc[r] = "insert" /\ row'[call[r].file].status = "STORED"
           \/ pc[r] = "deleteRow" /\ row'[call[r].file].status = "DELETED"
  BY ServeTouches DEF Serve, PageInv
<1>2. /\ UNCHANGED <<thread, activity, phase, fetched, shown, asked, awaits, known, gone>>
      /\ \/ UNCHANGED reply
         \/ /\ r \in awaits /\ pc'[r] = "idle"
            /\ \E a \in {"error"} \cup (IF rows' # rows THEN {"ok"} ELSE {}) :
                 reply' = [reply EXCEPT ![r] = a]
  BY DEF Serve, Answer, view, discussion, At
<1>3. /\ reply' \in [Requests \cup Comments -> {"none", "ok", "error"}]
      /\ \A x \in (Requests \cup Comments) \ {r} : reply'[x] = reply[x]
      /\ reply'[r] # reply[r] => r \in awaits
      /\ reply'[r] = "ok" => reply[r] = "ok" \/ rows' # rows
  BY <1>2 DEF PageInv, PageTypes
<1>4. r \notin Comments
  BY PageAssumption
<1>5. RowsStay
  BY <1>1, RowsStayStep DEF PageInv
<1>6. AskedInv(r)'
  <2>1. CASE asked[r] = Nothing
    BY <1>2, <1>3, <2>1, AskedFile, NothingIs DEF AskedInv
  <2>2. CASE asked[r] # Nothing
    <3>1. /\ asked[r].op \in {"upload", "delete"} /\ asked[r].file \in Files /\ AskedInv(r)
          /\ call[r].file = asked[r].file
      BY <1>1, <2>2, AskedFile DEF AskedInv
    <3>2. /\ asked' = asked /\ known' = known /\ gone' = gone
          /\ asked'[r] # Nothing
          /\ pc'[r] # "idle" => call'[r].file = asked[r].file
      BY <1>1, <1>2, <2>2, <3>1
    <3>3. CASE asked[r].op = "upload"
      <4>1. /\ pc[r] \in {"put", "insert", "compensate"}
            /\ asked[r].file \notin known \cup gone
            /\ \A q \in Requests \ {r} : asked[q].op # "upload"
        BY <1>1, <3>1, <3>3 DEF AskedInv
      <4>2. reply'[r] = "ok" => Rows(asked[r].file)' # "ABSENT"
        BY <1>1, <1>3, <1>5, <3>1, <3>2, <3>3, <4>1 DEF AskedInv, RowsStay, Rows
      <4>3. pc'[r] \in {"idle", "put", "insert", "compensate"}
        BY <1>1, <4>1
      <4>4. asked[r].op # "delete"
        BY <3>3
      <4> QED
        BY <3>2, <4>1, <4>2, <4>3, <4>4 DEF AskedInv, Rows
    <3>4. CASE asked[r].op = "delete"
      <4>1. pc[r] \in {"deleteObject", "deleteRow"} /\ asked[r].file \in known
        BY <1>1, <3>1, <3>4 DEF AskedInv
      <4>2. reply'[r] = "ok" => Rows(asked[r].file)' = "DELETED"
        BY <1>1, <1>3, <1>5, <3>1, <3>2, <3>4, <4>1 DEF AskedInv, RowsStay, Rows
      <4>3. pc'[r] \in {"idle", "deleteObject", "deleteRow"}
        BY <1>1, <4>1
      <4>4. asked[r].op # "upload"
        BY <3>4
      <4> QED
        BY <3>2, <4>1, <4>2, <4>3, <4>4 DEF AskedInv, Rows
    <3> QED
      BY <3>1, <3>3, <3>4
  <2> QED
    BY <2>1, <2>2
<1>7. ASSUME NEW q \in Requests \ {r} PROVE AskedInv(q)'
  BY <1>1, <1>2, <1>3, AskedStays DEF PageInv
<1> QED
  BY <1>1, <1>2, <1>3, <1>4, <1>6, <1>7, StoreStep

-----------------------------------------------------------------------------
(* Loading                                                                 *)

\* The files and comments stay as they are.
LEMMA PageStep ==
  ASSUME PageInv, UNCHANGED vars, PageTypes', LoadInv', Shows', \A r \in Requests : AskedInv(r)'
  PROVE  PageInv'
BY NextStep DEF PageInv

LEMMA OpenStep == ASSUME PageInv, Open PROVE PageInv'
<1>1. UNCHANGED <<vars, discussion>> /\ phase' = "loading" /\ shown' = {} /\ known' = {}
      /\ gone' = {} /\ awaits' = {} /\ asked' = [r \in Requests |-> Nothing]
      /\ fetched' = [item |-> {None}, comments |-> {None}]
  BY DEF Open
<1>2. DOMAIN reply = Requests \cup Comments
  BY DEF PageInv, PageTypes
<1>3. reply' = [x \in Requests \cup Comments |-> "none"]
  BY <1>2 DEF Open
<1>4. PageTypes' /\ LoadInv'
  BY <1>1, <1>3 DEF PageInv, PageTypes, LoadInv, discussion
<1>5. Shows'
  BY <1>1, <1>3 DEF PageInv, Shows, PageKeepsUp, There, discussion, vars, rows
<1>6. \A r \in Requests : AskedInv(r)'
  BY <1>1, <1>3, NothingIs DEF AskedInv
<1> QED
  BY <1>1, <1>4, <1>5, <1>6, PageStep

LEMMA FetchStep == ASSUME PageInv, Fetch PROVE PageInv'
<1> DEFINE item == There \cap Files
<1>1. /\ UNCHANGED <<vars, discussion, phase, shown, asked, awaits, reply, known, gone>>
      /\ phase = "loading"
      /\ \/ fetched' = [fetched EXCEPT !.item = item]
         \/ fetched' = [fetched EXCEPT !.comments = thread]
  BY DEF Fetch
<1>2. item \subseteq Files /\ \A f \in item : Rows(f) # "ABSENT"
  BY PageAssumption DEF PageInv, PageTypes, There, Stored, Rows
<1> HIDE DEF item
<1>3. PageTypes'
  BY <1>1, <1>2 DEF PageInv, PageTypes, discussion
<1>4. LoadInv'
  BY <1>1, <1>2 DEF PageInv, PageTypes, LoadInv, discussion, vars, rows, Rows
<1>5. Shows' /\ \A r \in Requests : AskedInv(r)'
  BY <1>1 DEF PageInv, Shows, PageKeepsUp, There, Stored, AskedInv, Rows, discussion, vars, rows
<1> QED
  BY <1>1, <1>3, <1>4, <1>5, PageStep

LEMMA ShowStep == ASSUME PageInv, Show PROVE PageInv'
<1>1. /\ UNCHANGED <<vars, discussion, asked, awaits, reply, gone>>
      /\ phase = "loading" /\ phase' = "open"
      /\ None \notin fetched.item \cup fetched.comments
      /\ shown' = fetched.item \cup fetched.comments /\ known' = shown'
      /\ fetched' = [item |-> {}, comments |-> {}]
  BY DEF Show
<1>2. /\ fetched.item \subseteq Files /\ fetched.comments \subseteq thread
      /\ \A f \in fetched.item : Rows(f) # "ABSENT"
      /\ gone = {} /\ \A r \in Requests : asked[r] = Nothing
      /\ \A c \in Comments : reply[c] = "none"
  BY <1>1 DEF PageInv, PageTypes, LoadInv
<1>3. Files \cap Comments = {} /\ thread \subseteq Comments
  BY PageAssumption DEF PageInv, PageTypes
<1>4. PageTypes' /\ LoadInv'
  BY <1>1, <1>2, <1>3 DEF PageInv, PageTypes, LoadInv, discussion
<1>5. Shows'
  BY <1>1, <1>2, <1>3 DEF PageInv, Shows, PageKeepsUp, There, Stored, Rows, discussion, vars, rows
<1>6. \A r \in Requests : AskedInv(r)'
  BY <1>1, <1>2, NothingIs DEF PageInv, AskedInv
<1> QED
  BY <1>1, <1>4, <1>5, <1>6, PageStep

-----------------------------------------------------------------------------
(* What the page asks, and what colleagues do                              *)

\* A request begins: for the page, or for somebody else.
LEMMA BeginStep ==
  ASSUME PageInv, NEW r \in Requests, NEW f \in Files, NEW u \in Users,
         asked[r] = Nothing,
         \/ Unused(f) /\ Begin(r, "put", f, u)
         \/ Stored(f) /\ Begin(r, "deleteObject", f, u)
  PROVE  /\ call'[r].file = f
         /\ pc'[r] \in {"put", "deleteObject"}
         /\ Unused(f) => pc'[r] = "put" /\ f \notin known \cup gone
         /\ ~Unused(f) => pc'[r] = "deleteObject"
         /\ \A q \in Requests \ {r} : pc'[q] = pc[q] /\ call'[q] = call[q]
<1>1. Unused(f) => ~Stored(f)
  BY DEF Unused, Stored
<1>2. Unused(f) => f \notin known \cup gone
  BY DEF Unused, PageInv, Shows, PageKeepsUp, Rows
<1> QED
  BY <1>1, <1>2 DEF Begin, Goto, PageInv, IInv, TypeOK

\* The page has asked for it.
LEMMA AskStep ==
  ASSUME PageInv, NEW r \in Requests, NEW f \in Files, [Next]_vars, UNCHANGED rows,
         NEW op \in {"upload", "delete"}, Ask(r, op), UNCHANGED shown, call'[r].file = f,
         op = "upload" => /\ pc'[r] = "put" /\ f \notin known \cup gone
                          /\ \A q \in Requests : asked[q].op # "upload",
         op = "delete" => pc'[r] = "deleteObject" /\ f \in shown,
         \A q \in Requests \ {r} : pc'[q] = pc[q] /\ call'[q] = call[q]
  PROVE  PageInv'
<1> DEFINE new == [op |-> op, file |-> f]
<1>1. /\ phase = "open" /\ asked[r] = Nothing
      /\ asked' = [asked EXCEPT ![r] = new]
      /\ awaits' = awaits \cup {r}
      /\ UNCHANGED <<discussion, phase, fetched, reply, known, gone, shown>>
  BY DEF Ask
<1>2. new.op = op /\ new.file = f /\ new \in [op: {"upload", "delete"}, file: Files]
      /\ new # Nothing
  BY DEF Nothing
<1> HIDE DEF new
<1>3. asked'[r] = new /\ \A q \in Requests \ {r} : asked'[q] = asked[q]
  BY <1>1 DEF PageInv, PageTypes
<1>4. IInv'
  BY NextStep DEF PageInv
<1>5. PageTypes' /\ LoadInv'
  BY <1>1, <1>2 DEF PageInv, PageTypes, LoadInv, discussion
<1>6. Shows'
  BY <1>1 DEF PageInv, Shows, PageKeepsUp, There, Stored, Rows, discussion, rows
<1>7. AskedInv(r)'
  <2>1. reply'[r] = "none"
    BY <1>1, AskedFile DEF AskedInv
  <2>2. f \in shown => f \in known
    BY DEF PageInv, Shows, PageKeepsUp
  <2> QED
    BY <1>1, <1>2, <1>3, <2>1, <2>2 DEF AskedInv
<1>8. ASSUME NEW q \in Requests \ {r} PROVE AskedInv(q)'
  <2>1. AskedInv(q) /\ pc'[q] = pc[q] /\ call'[q] = call[q] /\ asked'[q] = asked[q]
        /\ asked'[r].op = op
    BY <1>2, <1>3 DEF PageInv
  <2>2. asked[q].op = "upload" => op # "upload"
    OBVIOUS
  <2> QED
    BY <1>1, <1>3, <2>1, <2>2 DEF AskedInv, Rows, rows
<1> QED
  BY <1>4, <1>5, <1>6, <1>7, <1>8 DEF PageInv

LEMMA AskUploadStep == ASSUME PageInv, NEW r \in Requests, UploadAttachment(r) PROVE PageInv'
<1>1. PICK f \in Files : Unused(f) /\ Begin(r, "put", f, Me)
  BY DEF UploadAttachment, Upload
<1>2. Me \in Users
  BY PageAssumption
<1>3. asked[r] = Nothing /\ Ask(r, "upload") /\ UNCHANGED shown
      /\ \A q \in Requests : asked[q].op # "upload"
  BY DEF UploadAttachment, Ask
<1>4. Next /\ UNCHANGED rows
  BY <1>2 DEF UploadAttachment, Upload, Next, rows
<1> QED
  BY <1>1, <1>2, <1>3, <1>4, BeginStep, AskStep

LEMMA AskDeleteStep ==
  ASSUME PageInv, NEW r \in Requests, NEW f \in Files, DeleteAttachment(r, f)
  PROVE  PageInv'
<1>1. Stored(f) /\ Begin(r, "deleteObject", f, Me) /\ f \in shown
  BY DEF DeleteAttachment, Remove
<1>2. Me \in Users /\ ~Unused(f)
  BY <1>1, PageAssumption DEF Unused, Stored
<1>3. asked[r] = Nothing /\ Ask(r, "delete") /\ UNCHANGED shown
  BY DEF DeleteAttachment, Ask
<1>4. Next /\ UNCHANGED rows
  BY <1>2 DEF DeleteAttachment, Remove, Next, rows
<1> QED
  BY <1>1, <1>2, <1>3, <1>4, BeginStep, AskStep

LEMMA ColleagueStep == ASSUME PageInv, Colleague PROVE PageInv'
<1>1. CASE UNCHANGED <<vars, thread, activity, view>>
  BY <1>1, NextStep DEF PageInv, PageTypes, LoadInv, Shows, PageKeepsUp, There, Stored, Rows,
     AskedInv, view, vars, rows
<1>2. ASSUME NEW r \in Requests, NEW u \in Users, asked[r] = Nothing,
             Upload(r, u) \/ \E f \in Files : Remove(r, f, u),
             UNCHANGED <<discussion, view>>
      PROVE  PageInv'
  <2>1. Next
    BY <1>2 DEF Next
  <2>2. \A q \in Requests \ {r} : pc'[q] = pc[q] /\ call'[q] = call[q]
    BY <1>2 DEF Upload, Remove, Begin, Goto, PageInv, IInv, TypeOK
  <2>3. AskedInv(r)'
    BY <1>2, AskedFile, NothingIs DEF AskedInv, view
  <2>4. ASSUME NEW q \in Requests \ {r} PROVE AskedInv(q)'
    BY <1>2, <2>1, <2>2, AskedStays DEF view
  <2>5. reply' \in [Requests \cup Comments -> {"none", "ok", "error"}]
    BY <1>2 DEF view, PageInv, PageTypes
  <2> QED
    BY <1>2, <2>1, <2>3, <2>4, <2>5, StoreStep DEF view, discussion
<1> QED
  BY <1>1, <1>2 DEF Colleague

LEMMA RefuseStep ==
  ASSUME PageInv, NEW r \in Requests, Refuse(r), UNCHANGED <<discussion, view>> PROVE PageInv'
BY NextStep DEF PageInv, PageTypes, LoadInv, Shows, PageKeepsUp, There, Stored, Rows,
   AskedInv, view, discussion, vars, rows, Refuse

-----------------------------------------------------------------------------
(* Comments, and answers                                                   *)

LEMMA AddCommentStep == ASSUME PageInv, NEW c \in Comments, AddComment(c) PROVE PageInv'
<1>1. /\ phase = "open" /\ awaits' = awaits \cup {c}
      /\ UNCHANGED <<vars, thread, activity, phase, fetched, shown, asked, reply, known, gone>>
  BY DEF AddComment
<1>2. c \notin Requests
  BY PageAssumption
<1>3. PageTypes' /\ LoadInv'
  BY <1>1 DEF PageInv, PageTypes, LoadInv
<1>4. Shows'
  BY <1>1 DEF PageInv, Shows, PageKeepsUp, There, Stored, Rows, vars, rows
<1>5. \A r \in Requests : AskedInv(r)'
  BY <1>1, <1>2 DEF PageInv, AskedInv, Rows, vars, rows
<1> QED
  BY <1>1, <1>3, <1>4, <1>5, PageStep

LEMMA CreateCommentStep == ASSUME PageInv, NEW c \in Comments, CreateComment(c) PROVE PageInv'
<1>1. /\ UNCHANGED <<vars, phase, fetched, shown, asked, awaits, known, gone>>
      /\ thread' \in {thread, thread \cup {c}} /\ (activity = thread => activity' = thread')
      /\ \/ UNCHANGED reply
         \/ \E a \in {"error", "ok"} : /\ reply' = [reply EXCEPT ![c] = a]
                                       /\ a = "ok" => c \in thread'
                                       /\ c \in awaits
  BY DEF CreateComment, Answer
<1>2. /\ reply' \in [Requests \cup Comments -> {"none", "ok", "error"}]
      /\ \A x \in (Requests \cup Comments) \ {c} : reply'[x] = reply[x]
      /\ reply'[c] = "ok" => reply[c] = "ok" \/ c \in thread'
      /\ reply'[c] # reply[c] => c \in awaits
  BY <1>1 DEF PageInv, PageTypes
<1>3. c \notin Requests /\ c \notin Files
  BY PageAssumption
<1>4. PageTypes' /\ LoadInv'
  BY <1>1, <1>2 DEF PageInv, PageTypes, LoadInv, Rows, vars, rows
<1>5. Shows'
  <2>1. There' \subseteq There \cup {c} /\ There' \cap Files = There \cap Files
    BY <1>1, <1>3 DEF There, Stored, vars, rows
  <2>2. c \in known => c \in thread
    BY DEF PageInv, Shows, PageKeepsUp
  <2>3. known \cap There' \subseteq shown
    BY <2>1, <2>2 DEF PageInv, Shows, PageKeepsUp, There
  <2>4. gone \cap There' = {}
    BY <1>3, <2>1 DEF PageInv, PageTypes, Shows, PageKeepsUp
  <2> QED
    BY <1>1, <1>2, <2>3, <2>4 DEF PageInv, Shows, PageKeepsUp, Rows, vars, rows
<1>6. \A r \in Requests : AskedInv(r)'
  BY <1>1, <1>2, <1>3 DEF PageInv, AskedInv, Rows, vars, rows
<1> QED
  BY <1>1, <1>4, <1>5, <1>6, PageStep

\* An answer that has been heard is nobody's any more.
LEMMA HeardIs ==
  ASSUME PageInv, NEW x \in Requests \cup Comments, Heard(x)
  PROVE  /\ UNCHANGED <<vars, discussion, phase, fetched>> /\ phase # "loading"
         /\ awaits' = awaits \ {x} /\ reply'[x] = "none"
         /\ reply' \in [Requests \cup Comments -> {"none", "ok", "error"}]
         /\ \A y \in (Requests \cup Comments) \ {x} : reply'[y] = reply[y]
<1>1. phase # "loading"
  <2> SUFFICES ASSUME phase = "loading" PROVE FALSE
    OBVIOUS
  <2>1. reply[x] = "none"
    BY DEF PageInv, LoadInv, AskedInv
  <2> QED
    BY <2>1 DEF Heard
<1> QED
  BY <1>1 DEF Heard, PageInv, PageTypes

LEMMA HearUploadStep == ASSUME PageInv, NEW r \in Requests, HearUpload(r) PROVE PageInv'
<1>1. PICK f : f = asked[r].file
  OBVIOUS
<1>2. asked[r].op = "upload" /\ f \in Files /\ AskedInv(r)
  BY <1>1, AskedFile, NothingIs DEF HearUpload
<1>3. /\ UNCHANGED <<vars, discussion, phase, fetched, gone>> /\ phase # "loading"
      /\ awaits' = awaits \ {r} /\ reply'[r] = "none"
      /\ reply' \in [Requests \cup Comments -> {"none", "ok", "error"}]
      /\ \A y \in (Requests \cup Comments) \ {r} : reply'[y] = reply[y]
      /\ asked' = [asked EXCEPT ![r] = Nothing]
      /\ \/ shown' = shown /\ known' = known
         \/ shown' = shown \cup {f} /\ known' = known \cup {f} /\ reply[r] = "ok"
  BY <1>1, HeardIs DEF HearUpload
<1>4. asked'[r] = Nothing /\ \A q \in Requests \ {r} : asked'[q] = asked[q]
  BY <1>3 DEF PageInv, PageTypes
<1>5. r \notin Comments /\ f \notin Comments
  BY <1>2, PageAssumption
<1>6. PageTypes' /\ LoadInv'
  BY <1>2, <1>3 DEF PageInv, PageTypes, LoadInv, discussion
<1>7. f \notin gone /\ (reply[r] = "ok" => Rows(f) # "ABSENT")
  BY <1>1, <1>2 DEF AskedInv
<1>8. Shows'
  <2>1. There' = There
    BY <1>3 DEF There, Stored, discussion, vars, rows
  <2>2. PageKeepsUp'
    BY <1>2, <1>3, <1>5, <1>7, <2>1 DEF PageInv, Shows, PageKeepsUp, Rows, discussion, vars, rows
  <2> QED
    BY <1>3, <1>5, <2>2 DEF PageInv, Shows, Rows, discussion, vars, rows
<1>9. AskedInv(r)'
  BY <1>3, <1>4, NothingIs DEF AskedInv
<1>10. ASSUME NEW q \in Requests \ {r} PROVE AskedInv(q)'
  <2>1. AskedInv(q) /\ asked[q].op # "upload"
    BY <1>2 DEF PageInv, AskedInv
  <2>2. asked'[q] = asked[q] /\ reply'[q] = reply[q] /\ known \subseteq known'
    BY <1>3, <1>4
  <2> QED
    BY <1>3, <2>1, <2>2 DEF AskedInv, Rows, vars, rows
<1> QED
  BY <1>3, <1>6, <1>8, <1>9, <1>10, PageStep

LEMMA HearDeleteStep == ASSUME PageInv, NEW r \in Requests, HearDelete(r) PROVE PageInv'
<1>1. PICK f : f = asked[r].file
  OBVIOUS
<1>2. asked[r].op = "delete" /\ f \in Files /\ AskedInv(r)
  BY <1>1, AskedFile, NothingIs DEF HearDelete
<1>3. /\ UNCHANGED <<vars, discussion, phase, fetched, known>> /\ phase # "loading"
      /\ awaits' = awaits \ {r} /\ reply'[r] = "none"
      /\ reply' \in [Requests \cup Comments -> {"none", "ok", "error"}]
      /\ \A y \in (Requests \cup Comments) \ {r} : reply'[y] = reply[y]
      /\ asked' = [asked EXCEPT ![r] = Nothing]
      /\ \/ shown' = shown /\ gone' = gone
         \/ shown' = shown \ {f} /\ gone' = gone \cup {f} /\ reply[r] = "ok"
  BY <1>1, HeardIs DEF HearDelete
<1>4. asked'[r] = Nothing /\ \A q \in Requests \ {r} : asked'[q] = asked[q]
  BY <1>3 DEF PageInv, PageTypes
<1>5. r \notin Comments /\ f \notin Comments
  BY <1>2, PageAssumption
<1>6. PageTypes' /\ LoadInv'
  BY <1>2, <1>3 DEF PageInv, PageTypes, LoadInv, discussion
<1>7. f \in known /\ (reply[r] = "ok" => Rows(f) = "DELETED" /\ f \notin There)
  <2>1. thread \subseteq Comments
    BY DEF PageInv, PageTypes
  <2> QED
    BY <1>1, <1>2, <1>5, <2>1 DEF AskedInv, There, Stored, Rows
<1>8. Shows'
  <2>1. There' = There
    BY <1>3 DEF There, Stored, discussion, vars, rows
  <2>2. PageKeepsUp'
    BY <1>2, <1>3, <1>7, <2>1 DEF PageInv, Shows, PageKeepsUp, Rows, discussion, vars, rows
  <2> QED
    BY <1>3, <1>5, <1>7, <2>2 DEF PageInv, Shows, Rows, discussion, vars, rows
<1>9. AskedInv(r)'
  BY <1>3, <1>4, NothingIs DEF AskedInv
<1>10. ASSUME NEW q \in Requests \ {r} PROVE AskedInv(q)'
  <2>1. AskedInv(q) /\ asked'[q] = asked[q] /\ reply'[q] = reply[q] /\ asked'[r].op # "upload"
    BY <1>3, <1>4, NothingIs DEF PageInv
  <2>2. asked[q].op = "upload" => asked[q].file \notin known'\cup gone'
    BY <1>3, <1>7, <2>1 DEF AskedInv
  <2>3. asked[q].op = "upload" => \A p \in Requests \ {q} : asked'[p].op # "upload"
    BY <1>4, <2>1 DEF AskedInv
  <2> QED
    BY <1>3, <2>1, <2>2, <2>3 DEF AskedInv, Rows, vars, rows
<1> QED
  BY <1>3, <1>6, <1>8, <1>9, <1>10, PageStep

LEMMA HearCommentStep == ASSUME PageInv, NEW c \in Comments, HearComment(c) PROVE PageInv'
<1>1. /\ UNCHANGED <<vars, discussion, phase, fetched, asked, gone>> /\ phase # "loading"
      /\ awaits' = awaits \ {c} /\ reply'[c] = "none"
      /\ reply' \in [Requests \cup Comments -> {"none", "ok", "error"}]
      /\ \A y \in (Requests \cup Comments) \ {c} : reply'[y] = reply[y]
      /\ \/ shown' = shown /\ known' = known
         \/ shown' = shown \cup {c} /\ known' = known \cup {c} /\ reply[c] = "ok"
  BY HeardIs DEF HearComment
<1>2. c \notin Requests /\ c \notin Files /\ (reply[c] = "ok" => c \in thread)
  BY PageAssumption DEF PageInv, Shows
<1>3. PageTypes' /\ LoadInv'
  BY <1>1 DEF PageInv, PageTypes, LoadInv, discussion
<1>4. Shows'
  <2>1. There' = There /\ c \notin gone
    BY <1>1, <1>2 DEF There, Stored, discussion, vars, rows, PageInv, PageTypes
  <2>2. PageKeepsUp'
    BY <1>1, <1>2, <2>1 DEF PageInv, Shows, PageKeepsUp, Rows, discussion, vars, rows
  <2> QED
    BY <1>1, <2>2 DEF PageInv, Shows, Rows, discussion, vars, rows
<1>5. ASSUME NEW r \in Requests PROVE AskedInv(r)'
  <2>1. AskedInv(r) /\ reply'[r] = reply[r]
        /\ (asked[r].op \in {"upload", "delete"} => asked[r].file # c)
    BY <1>1, <1>2, AskedFile, NothingIs
  <2> QED
    BY <1>1, <2>1 DEF AskedInv, Rows, vars, rows
<1> QED
  BY <1>1, <1>3, <1>4, <1>5, PageStep

LEMMA PageNextStep == PageInv /\ [PageNext]_pageVars => PageInv'
<1> SUFFICES ASSUME PageInv, [PageNext]_pageVars PROVE PageInv'
  OBVIOUS
<1>1. CASE UNCHANGED pageVars
  BY <1>1, NextStep DEF pageVars, PageInv, PageTypes, LoadInv, Shows, PageKeepsUp, There, Stored,
     Rows, AskedInv, view, discussion, vars, rows
<1>2. CASE PageNext
  BY <1>2, OpenStep, FetchStep, ShowStep, ColleagueStep, AskUploadStep, AskDeleteStep, ServeStep,
     HearUploadStep, HearDeleteStep, RefuseStep, AddCommentStep, CreateCommentStep,
     HearCommentStep
     DEF PageNext
<1> QED
  BY <1>1, <1>2

(* The page, its requests and their answers: a file that is being uploaded *)
(* is new to the page, and an answer is about what its request was for.    *)
THEOREM PageInvariance == PageSpec => []PageInv
BY PageInitStep, PageNextStep, PTL DEF PageSpec

(* The page shows what it was told is there, as long as it is, and nothing *)
(* it was told is gone, in whatever order it is answered.                  *)
THEOREM PageTold == PageSpec => []PageKeepsUp
<1>1. PageInv => PageKeepsUp
  BY DEF PageInv, Shows
<1> QED
  BY <1>1, PageInvariance, PTL
=============================================================================
