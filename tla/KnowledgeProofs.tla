--------------------------- MODULE KnowledgeProofs ----------------------------
(***************************************************************************)
(* Safety of Knowledge for any number of documents, texts and requests,    *)
(* and what cutting a text and putting it together again make of any text. *)
(***************************************************************************)
EXTENDS Knowledge, WellFoundedInduction, TLAPS

-----------------------------------------------------------------------------
(* The inductive invariant.                                                *)

OneDocumentPerContent ==
  \A d, e \in Docs : Stored(d) /\ Stored(e) /\ doc[d].content = doc[e].content => d = e

Indexing == {"createMany", "index", "ready", "cleanup", "fail"}
Retrying == {"retry", "indexing"}
Works(r, d) == pc[r] \in Indexing \cup Retrying /\ call[r].doc = d

Indexed(d, n) == \A k \in 1..n : <<d, k>> \in point
Clean(d) == \A k \in Nat \ {0} : <<d, k>> \notin point

\* The only request at work on a document, and how far it has come with it.
Alone(r, d) ==
  /\ \A q \in Requests : Works(q, d) => q = r
  /\ doc[d].status = IF pc[r] \in Indexing THEN "INDEXING" ELSE "FAILED"
  /\ call[r].content = doc[d].content /\ doc[d].content \in Contents
  /\ pc[r] # "createMany" => doc[d].chunked
  /\ pc[r] \in {"index", "ready"} => Indexed(d, call[r].done)
  /\ pc[r] = "ready" => call[r].done = Len(ChunksOf[doc[d].content])
  /\ pc[r] = "fail" /\ d \notin leaked => Clean(d)

CallInv(r) ==
  LET d == call[r].doc
  IN /\ pc[r] \in {"duplicate", "create"} => call[r].content \in Contents
     /\ pc[r] \in {"duplicate", "create", "createMany"} \cup Retrying => call[r].done = 0
     /\ pc[r] \in Indexing \cup Retrying \cup {"removePoints", "removeRow"} =>
          d \in Docs /\ doc[d].status # "ABSENT"
     /\ pc[r] \in Indexing \cup Retrying /\ d \notin disturbed => Alone(r, d)
     /\ pc[r] = "removeRow" => d \in disturbed

DocInv(d) ==
  d \notin disturbed =>
    /\ doc[d].status = "READY" =>
         /\ doc[d].content \in Contents /\ doc[d].chunked
         /\ Indexed(d, Len(ChunksOf[doc[d].content]))
    /\ doc[d].status = "FAILED" =>
         /\ doc[d].content \in Contents
         /\ d \notin leaked => Clean(d)

IInv ==
  /\ TypeOK
  /\ \A r \in Requests : CallInv(r)
  /\ \A d \in Docs : DocInv(d)

-----------------------------------------------------------------------------
(* What steps have in common.                                              *)

\* Nothing of a document has changed.
Same(d) ==
  /\ doc'[d] = doc[d]
  /\ \A k \in Nat \ {0} : (<<d, k>> \in point') <=> (<<d, k>> \in point)
  /\ (d \in leaked') <=> (d \in leaked)

\* A step of request r that touches no document but d.
Local(r, d) ==
  /\ \A q \in Requests \ {r} : pc'[q] = pc[q] /\ call'[q] = call[q]
  /\ disturbed \subseteq disturbed'
  /\ \A e \in Docs \ {d} : Same(e)
  /\ \A e \in Docs : doc[e].status # "ABSENT" => doc'[e].status # "ABSENT"

LEMMA SameIsSame ==
  ASSUME NEW d \in Docs, Same(d), NEW n
  PROVE  /\ Indexed(d, n)' <=> \A k \in 1..n : <<d, k>> \in point'
         /\ Clean(d)' <=> Clean(d)
BY DEF Same, Indexed, Clean

\* Requests and documents elsewhere do not notice.
LEMMA Elsewhere ==
  ASSUME IInv, NEW r \in Requests, NEW d, Local(r, d),
         \A e \in Docs : Works(r, e)' => Works(r, e) \/ e = d
  PROVE  /\ \A e \in Docs \ {d} : DocInv(e)'
         /\ \A q \in Requests \ {r} : call[q].doc # d => CallInv(q)'
<1>1. ASSUME NEW e \in Docs \ {d} PROVE DocInv(e)'
  BY <1>1 DEF IInv, DocInv, Local, Same, Indexed, Clean
<1>2. ASSUME NEW q \in Requests \ {r}, call[q].doc # d PROVE CallInv(q)'
  <2> DEFINE e == call[q].doc
  <2>1. CallInv(q) /\ pc'[q] = pc[q] /\ call'[q] = call[q]
    BY DEF IInv, Local
  <2>2. CASE pc[q] \in Indexing \cup Retrying /\ e \notin disturbed'
    <3>1. e \in Docs \ {d} /\ Alone(q, e)
      BY <1>2, <2>1, <2>2 DEF CallInv, Local
    <3>2. Same(e)
      BY <3>1 DEF Local
    <3>3. \A p \in Requests : Works(p, e)' => p = q
      BY <3>1 DEF Alone, Local, Works
    <3>4. Alone(q, e)'
      BY <2>1, <3>1, <3>2, <3>3 DEF Alone, Same, Indexed, Clean
    <3> QED
      BY <2>1, <2>2, <3>1, <3>4 DEF CallInv, Local, Indexing, Retrying
  <2>3. CASE ~(pc[q] \in Indexing \cup Retrying /\ e \notin disturbed')
    BY <2>1, <2>3 DEF CallInv, Local, Indexing, Retrying
  <2> QED
    BY <2>2, <2>3
<1> QED
  BY <1>1, <1>2

\* A step of a request on its document, on which it works alone, or which a
\* removal has disturbed.
LEMMA WorkStep ==
  ASSUME IInv, NEW r \in Requests, NEW d \in Docs, Local(r, d), call[r].doc = d,
         Works(r, d) \/ d \in disturbed', \A e \in Docs : Works(r, e)' => e = d,
         TypeOK', CallInv(r)', DocInv(d)'
  PROVE  IInv'
<1>1. ASSUME NEW q \in Requests \ {r}, call[q].doc = d PROVE CallInv(q)'
  <2>1. CallInv(q) /\ pc'[q] = pc[q] /\ call'[q] = call[q]
    BY DEF IInv, Local
  <2>2. d \notin disturbed' => pc[q] \notin Indexing \cup Retrying
    BY <1>1 DEF IInv, CallInv, Alone, Works, Local
  <2> QED
    BY <1>1, <2>1, <2>2 DEF CallInv, Local, Indexing, Retrying
<1> QED
  BY <1>1, Elsewhere DEF IInv

LEMMA LabelsAre ==
  /\ Indexing \subseteq Labels /\ Retrying \subseteq Labels
  /\ {"idle", "duplicate", "create", "removePoints", "removeRow"} \subseteq Labels
BY DEF Labels, Indexing, Retrying

LEMMA NoCallIsCall == NoCall \in Call /\ NoCall.doc = None /\ NoCall.done = 0
BY DEF NoCall, Call

\* A request moves on, and documents and points are as they were.
LEMMA MoveStep ==
  ASSUME IInv, NEW r \in Requests, NEW label \in Labels, NEW c \in Call,
         pc' = [pc EXCEPT ![r] = label], call' = [call EXCEPT ![r] = c],
         UNCHANGED <<doc, point, disturbed, leaked>>, lost' \subseteq Docs, CallInv(r)',
         \A e \in Docs : Works(r, e)' => Works(r, e)
  PROVE  IInv'
<1>1. TypeOK'
  BY DEF IInv, TypeOK, Stored
<1>2. Local(r, None)
  BY DEF Local, Same, IInv, TypeOK
<1>3. None \notin Docs
  BY KnowledgeAssumption
<1>4. ASSUME NEW q \in Requests \ {r}, call[q].doc = None PROVE CallInv(q)'
  <2>1. CallInv(q) /\ pc'[q] = pc[q] /\ call'[q] = call[q]
    BY DEF IInv, TypeOK
  <2> QED
    BY <1>3, <1>4, <2>1 DEF CallInv
<1> QED
  BY <1>1, <1>2, <1>3, <1>4, Elsewhere DEF IInv

\* A request ends, and documents and points are as they were.
LEMMA EndStep ==
  ASSUME IInv, NEW r \in Requests, Finish(r),
         UNCHANGED <<doc, point, disturbed, leaked>>, lost' \subseteq Docs
  PROVE  IInv'
<1>1. pc' = [pc EXCEPT ![r] = "idle"] /\ call' = [call EXCEPT ![r] = NoCall]
  BY DEF Finish, Goto
<1>2. pc'[r] = "idle"
  BY <1>1 DEF IInv, TypeOK
<1>3. CallInv(r)' /\ \A e \in Docs : ~Works(r, e)'
  BY <1>2 DEF CallInv, Works, Indexing, Retrying
<1> QED
  BY <1>1, <1>3, LabelsAre, NoCallIsCall, MoveStep

\* The row of a document changes and no other document gets its content.
LEMMA RowTypes ==
  ASSUME TypeOK, NEW d \in Docs, NEW row \in Doc, doc' = [doc EXCEPT ![d] = row],
         \/ row.content = doc[d].content /\ Stored(d)
         \/ row.status \notin {"INDEXING", "READY", "FAILED"}
         \/ \A e \in Docs : Stored(e) => doc[e].content # row.content
  PROVE  doc' \in [Docs -> Doc] /\ OneDocumentPerContent'
<1>1. doc' \in [Docs -> Doc] /\ doc'[d] = row /\ \A e \in Docs \ {d} : doc'[e] = doc[e]
  BY DEF TypeOK
<1>2. OneDocumentPerContent
  BY DEF TypeOK, OneDocumentPerContent
<1> QED
  BY <1>1, <1>2 DEF OneDocumentPerContent, Stored

\* A request ends or moves on, and writes the row of its document.
LEMMA RowStep ==
  ASSUME IInv, NEW r \in Requests, NEW d \in Docs, NEW row \in Doc, NEW label \in Labels,
         NEW c \in Call, call[r].doc = d, Works(r, d) \/ d \in disturbed,
         doc' = [doc EXCEPT ![d] = row], pc' = [pc EXCEPT ![r] = label],
         call' = [call EXCEPT ![r] = c], UNCHANGED <<point, disturbed, leaked>>,
         lost' \subseteq Docs, row.status # "ABSENT",
         \/ row.content = doc[d].content /\ Stored(d)
         \/ row.status \notin {"INDEXING", "READY", "FAILED"},
         label \in Indexing \cup Retrying => c.doc = d, CallInv(r)', DocInv(d)'
  PROVE  IInv'
<1>1. doc' \in [Docs -> Doc] /\ OneDocumentPerContent'
  BY RowTypes DEF IInv
<1>2. TypeOK'
  BY <1>1 DEF IInv, TypeOK, OneDocumentPerContent
<1>3. Local(r, d)
  BY DEF Local, Same, IInv, TypeOK
<1>4. \A e \in Docs : Works(r, e)' => e = d
  BY DEF Works, IInv, TypeOK
<1> QED
  BY <1>2, <1>3, <1>4, WorkStep

-----------------------------------------------------------------------------
LEMMA InitStep == Init => IInv
<1> SUFFICES ASSUME Init PROVE IInv
  OBVIOUS
<1> USE DEF Init
<1>1. NoDoc \in Doc /\ NoDoc.status = "ABSENT"
  BY DEF NoDoc, Doc
<1>2. \A d \in Docs : doc[d].status = "ABSENT"
  BY <1>1
<1>3. TypeOK
  BY <1>1, <1>2, NoCallIsCall, LabelsAre DEF TypeOK, Stored
<1>4. \A r \in Requests : CallInv(r)
  BY DEF CallInv, Indexing, Retrying
<1>5. \A d \in Docs : DocInv(d)
  BY <1>2 DEF DocInv
<1> QED
  BY <1>3, <1>4, <1>5 DEF IInv

-----------------------------------------------------------------------------
(* upload                                                                  *)

LEMMA UploadStep == ASSUME IInv, NEW r \in Requests, NEW text \in Contents, Upload(r, text)
                    PROVE  IInv'
<1> DEFINE c == [NoCall EXCEPT !.content = text]
<1>1. c \in Call /\ c.content = text /\ c.done = 0
  BY NoCallIsCall DEF Call
<1>2. pc' = [pc EXCEPT ![r] = "duplicate"] /\ call' = [call EXCEPT ![r] = c]
      /\ UNCHANGED <<doc, point, disturbed, leaked, lost>>
  BY DEF Upload, Begin, Goto, ghosts
<1> HIDE DEF c
<1>3. pc'[r] = "duplicate" /\ call'[r] = c /\ lost' \subseteq Docs
  BY <1>2 DEF IInv, TypeOK
<1>4. CallInv(r)' /\ \A e \in Docs : ~Works(r, e)'
  BY <1>1, <1>3 DEF CallInv, Works, Indexing, Retrying
<1> QED
  BY <1>1, <1>2, <1>3, <1>4, LabelsAre, MoveStep

\* A request goes on with the call it has.
LEMMA ContinueStep ==
  ASSUME IInv, NEW r \in Requests, NEW label \in Labels, Continue(r, label),
         UNCHANGED <<doc, point, ghosts>>, CallInv(r)',
         label \in Indexing \cup Retrying => pc[r] \in Indexing \cup Retrying
  PROVE  IInv'
<1>1. call' = [call EXCEPT ![r] = call[r]] /\ call[r] \in Call
      /\ pc' = [pc EXCEPT ![r] = label] /\ lost' \subseteq Docs
  BY DEF Continue, Goto, IInv, TypeOK, ghosts
<1>2. \A e \in Docs : Works(r, e)' => Works(r, e)
  BY <1>1 DEF Works, IInv, TypeOK
<1> QED
  BY <1>1, <1>2, MoveStep DEF ghosts

LEMMA FindDuplicateStep == ASSUME IInv, NEW r \in Requests, FindDuplicate(r) PROVE IInv'
<1>1. CASE Finish(r)
  BY <1>1, EndStep DEF FindDuplicate, ghosts, IInv, TypeOK
<1>2. CASE Continue(r, "create")
  <2>1. CallInv(r)'
    BY <1>2 DEF FindDuplicate, Continue, Goto, CallInv, IInv, TypeOK, Indexing, Retrying
  <2>2. "create" \notin Indexing \cup Retrying
    BY DEF Indexing, Retrying
  <2> QED
    BY <1>2, <2>1, <2>2, LabelsAre, ContinueStep DEF FindDuplicate
<1> QED
  BY <1>1, <1>2 DEF FindDuplicate

\* Nobody works on a document that is not there yet.
LEMMA CreateStep == ASSUME IInv, NEW r \in Requests, Create(r) PROVE IInv'
<1> DEFINE text == call[r].content
<1>1. CASE Finish(r) /\ UNCHANGED doc
  BY <1>1, EndStep DEF Create, ghosts, IInv, TypeOK
<1>2. ASSUME NEW d \in Docs, Insertable(text), doc[d].status = "ABSENT",
             doc' = [doc EXCEPT ![d] = [@ EXCEPT !.status = "INDEXING", !.content = text]],
             call' = [call EXCEPT ![r].doc = d], Goto(r, "createMany"),
             UNCHANGED <<point, ghosts>>
      PROVE  IInv'
  <2> DEFINE row == [doc[d] EXCEPT !.status = "INDEXING", !.content = text]
             c == [call[r] EXCEPT !.doc = d]
  <2>1. text \in Contents /\ doc[d] \in Doc /\ call[r] \in Call
    BY DEF Create, IInv, CallInv, TypeOK
  <2>2. row \in Doc /\ row.status = "INDEXING" /\ row.content = text
    BY <2>1 DEF Doc
  <2>3. c \in Call /\ c.doc = d /\ c.content = text /\ c.done = 0
    BY <2>1 DEF Call, Create, IInv, CallInv
  <2>4. doc' = [doc EXCEPT ![d] = row] /\ call' = [call EXCEPT ![r] = c]
        /\ pc' = [pc EXCEPT ![r] = "createMany"]
    BY <1>2 DEF Goto
  <2>5. \A e \in Docs : Stored(e) => doc[e].content # row.content
    BY <1>2, <2>2 DEF Insertable, Known
  <2> HIDE DEF row, c, text
  <2>6. doc' \in [Docs -> Doc] /\ OneDocumentPerContent' /\ doc'[d] = row
    BY <2>2, <2>4, <2>5, RowTypes DEF IInv, TypeOK
  <2>7. call' \in [Requests -> Call] /\ pc' \in [Requests -> Labels]
        /\ pc'[r] = "createMany" /\ call'[r] = c
        /\ \A q \in Requests \ {r} : pc'[q] = pc[q] /\ call'[q] = call[q]
    BY <2>3, <2>4, LabelsAre DEF IInv, TypeOK, Indexing
  <2>8. TypeOK'
    BY <1>2, <2>6, <2>7 DEF IInv, TypeOK, OneDocumentPerContent, ghosts
  <2>9. Local(r, d)
    BY <1>2, <2>2, <2>4, <2>6, <2>7 DEF Local, Same, ghosts, IInv, TypeOK
  <2>10. \A q \in Requests : call[q].doc = d =>
           pc[q] \notin Indexing \cup Retrying \cup {"removePoints", "removeRow"}
    BY <1>2 DEF IInv, CallInv
  <2>11. CallInv(r)'
    <3>1. \A q \in Requests : Works(q, d)' => q = r
      BY <2>7, <2>10 DEF Works
    <3> QED
      BY <2>1, <2>2, <2>3, <2>6, <2>7, <3>1 DEF CallInv, Alone, Indexing, Retrying
  <2>12. DocInv(d)'
    BY <2>2, <2>6 DEF DocInv
  <2>13. ASSUME NEW q \in Requests \ {r}, call[q].doc = d PROVE CallInv(q)'
    BY <2>7, <2>10, <2>13 DEF IInv, CallInv
  <2>14. \A e \in Docs : Works(r, e)' => e = d
    BY <2>3, <2>7 DEF Works
  <2> QED
    BY <2>8, <2>9, <2>11, <2>12, <2>13, <2>14, Elsewhere DEF IInv
<1> QED
  BY <1>1, <1>2 DEF Create

LEMMA CreateChunksStep == ASSUME IInv, NEW r \in Requests, CreateChunks(r) PROVE IInv'
<1> DEFINE d == call[r].doc
<1>1. d \in Docs /\ Works(r, d)
  BY DEF CreateChunks, IInv, CallInv, Works, Indexing
<1>2. CASE Finish(r) /\ UNCHANGED doc /\ lost' = lost \cup {d}
  <2>1. lost' \subseteq Docs
    BY <1>1, <1>2 DEF IInv, TypeOK
  <2> QED
    BY <1>2, <2>1, EndStep DEF CreateChunks
<1>3. CASE Stored(d) /\ doc' = [doc EXCEPT ![d].chunked = TRUE] /\ Continue(r, "index")
           /\ UNCHANGED lost
  <2> DEFINE row == [doc[d] EXCEPT !.chunked = TRUE]
  <2>1. doc[d] \in Doc /\ call[r] \in Call /\ pc[r] = "createMany"
    BY <1>1 DEF CreateChunks, IInv, TypeOK
  <2>2. /\ row \in Doc /\ row.status = doc[d].status /\ row.content = doc[d].content
        /\ row.chunked
    BY <2>1 DEF Doc
  <2>3. doc' = [doc EXCEPT ![d] = row] /\ pc' = [pc EXCEPT ![r] = "index"]
        /\ call' = [call EXCEPT ![r] = call[r]] /\ UNCHANGED <<point, disturbed, leaked, lost>>
    BY <1>3 DEF CreateChunks, Continue, Goto, IInv, TypeOK
  <2> HIDE DEF row
  <2>4. doc'[d] = row /\ pc'[r] = "index" /\ call'[r] = call[r]
        /\ \A q \in Requests \ {r} : pc'[q] = pc[q] /\ call'[q] = call[q]
    BY <1>1, <2>3 DEF IInv, TypeOK
  <2>5. (d \notin disturbed => Alone(r, d)) /\ call[r].done = 0 /\ doc[d].status # "ABSENT"
    BY <2>1 DEF IInv, CallInv, Indexing
  <2>6. CallInv(r)'
    <3>1. d \notin disturbed => Alone(r, d)'
      BY <1>1, <2>1, <2>2, <2>3, <2>4, <2>5 DEF Alone, Works, Indexed, Indexing
    <3> QED
      BY <1>1, <2>2, <2>3, <2>4, <2>5, <3>1 DEF CallInv, Indexing, Retrying
  <2>7. DocInv(d)'
    BY <2>1, <2>2, <2>3, <2>4, <2>5 DEF DocInv, Alone, Indexing
  <2> QED
    BY <1>1, <1>3, <2>1, <2>2, <2>3, <2>6, <2>7, LabelsAre, RowStep DEF Stored, Indexing, IInv, TypeOK
<1> QED
  BY <1>2, <1>3 DEF CreateChunks

-----------------------------------------------------------------------------
(* index                                                                   *)

\* One more point; the others of the document stay.
LEMMA IndexStep == ASSUME IInv, NEW r \in Requests, IndexChunk(r) PROVE IInv'
<1>0. PICK d \in Docs, k \in Nat \ {0} : d = call[r].doc /\ k = call[r].done + 1
  <2>1. call[r].doc \in Docs /\ call[r].done \in Nat
    BY DEF IndexChunk, IInv, CallInv, Indexing, TypeOK, Call
  <2> QED
    BY <2>1
<1>1. d = call[r].doc /\ k = call[r].done + 1
      /\ Works(r, d) /\ pc[r] = "index" /\ call[r] \in Call
      /\ doc[d].status # "ABSENT" /\ (d \notin disturbed => Alone(r, d))
  BY <1>0 DEF IndexChunk, IInv, CallInv, Works, Indexing, TypeOK
<1>2. CASE Continue(r, "cleanup") /\ UNCHANGED point
  <2>1. pc'[r] = "cleanup" /\ call'[r] = call[r] /\ UNCHANGED <<doc, point, ghosts>>
        /\ \A q \in Requests \ {r} : pc'[q] = pc[q] /\ call'[q] = call[q]
    BY <1>2 DEF IndexChunk, Continue, Goto, IInv, TypeOK
  <2>2. d \notin disturbed => Alone(r, d)'
    BY <1>1, <2>1 DEF Alone, Works, Indexing, ghosts
  <2>3. CallInv(r)'
    BY <1>1, <2>1, <2>2 DEF CallInv, Indexing, Retrying, ghosts
  <2> QED
    BY <1>1, <1>2, <2>1, <2>3, LabelsAre, ContinueStep DEF Indexing
<1>3. CASE /\ point' = point \cup {<<d, k>>} /\ call' = [call EXCEPT ![r].done = k]
           /\ Goto(r, IF k = Len(ChunksOf[call[r].content]) THEN "ready" ELSE "index")
  <2> DEFINE c == [call[r] EXCEPT !.done = k]
             label == IF k = Len(ChunksOf[call[r].content]) THEN "ready" ELSE "index"
  <2>1. k \in Nat \ {0}
    OBVIOUS
  <2>2. c \in Call /\ c.doc = d /\ c.done = k /\ c.content = call[r].content
    BY <1>1, <2>1 DEF Call
  <2>3. label \in {"index", "ready"} /\ label \in Labels
        /\ (label = "ready" => k = Len(ChunksOf[call[r].content]))
    BY DEF Labels
  <2>4. call' = [call EXCEPT ![r] = c] /\ pc' = [pc EXCEPT ![r] = label]
        /\ UNCHANGED <<doc, ghosts>>
    BY <1>3 DEF IndexChunk, Goto
  <2>5. point \subseteq point' /\ <<d, k>> \in point' /\ point' \subseteq Docs \X (Nat \ {0})
        /\ \A e \in Docs \ {d} : \A n \in Nat \ {0} : <<e, n>> \in point' <=> <<e, n>> \in point
    BY <1>1, <1>3, <2>1 DEF IInv, TypeOK
  <2> HIDE DEF c, label
  <2>6. pc'[r] = label /\ call'[r] = c
        /\ \A q \in Requests \ {r} : pc'[q] = pc[q] /\ call'[q] = call[q]
    BY <2>4 DEF IInv, TypeOK
  <2>7. TypeOK'
    BY <2>2, <2>3, <2>4, <2>5 DEF IInv, TypeOK, Stored, ghosts
  <2>8. Local(r, d)
    BY <2>4, <2>5, <2>6 DEF Local, Same, ghosts
  <2>9. d \notin disturbed => Alone(r, d)'
    <3> SUFFICES ASSUME d \notin disturbed PROVE Alone(r, d)'
      OBVIOUS
    <3>1. Indexed(d, k)'
      BY <1>1, <2>1, <2>5 DEF Alone, Indexed, Call
    <3>2. \A q \in Requests : Works(q, d)' => q = r
      BY <1>1, <2>6 DEF Alone, Works
    <3> QED
      BY <1>1, <2>2, <2>3, <2>4, <2>6, <3>1, <3>2 DEF Alone, Indexing, ghosts
  <2>10. CallInv(r)'
    BY <1>1, <2>2, <2>3, <2>4, <2>6, <2>9 DEF CallInv, Indexing, Retrying, ghosts
  <2>11. DocInv(d)'
    BY <1>1, <2>4 DEF DocInv, Alone, Indexing, ghosts
  <2>12. \A e \in Docs : Works(r, e)' => e = d
    BY <2>2, <2>6 DEF Works
  <2> QED
    BY <1>1, <2>7, <2>8, <2>10, <2>11, <2>12, WorkStep
<1> QED
  BY <1>1, <1>2, <1>3 DEF IndexChunk, NextChunk

\* A request writes the status of its document and ends, or goes on.
LEMMA StatusStep ==
  ASSUME IInv, NEW r \in Requests, NEW d \in Docs, call[r].doc = d,
         pc[r] \in Indexing \cup Retrying, Stored(d),
         NEW status \in {"INDEXING", "READY", "FAILED"}, NEW label \in Labels,
         doc' = [doc EXCEPT ![d].status = status], pc' = [pc EXCEPT ![r] = label],
         UNCHANGED <<point, ghosts>>,
         \/ label = "idle" /\ call' = [call EXCEPT ![r] = NoCall] /\ status # "INDEXING"
         \/ label = "index" /\ UNCHANGED call /\ status = "INDEXING" /\ pc[r] = "indexing",
         status = "READY" => pc[r] = "ready",
         status = "FAILED" => pc[r] = "fail"
  PROVE  IInv'
<1> DEFINE row == [doc[d] EXCEPT !.status = status]
<1>1. doc[d] \in Doc /\ call[r] \in Call /\ (d \notin disturbed => Alone(r, d))
  BY DEF IInv, TypeOK, CallInv
<1>2. /\ row \in Doc /\ row.status = status /\ row.content = doc[d].content
      /\ row.chunked = doc[d].chunked
  BY <1>1 DEF Doc
<1>3. PICK c \in Call : /\ call' = [call EXCEPT ![r] = c]
                        /\ label = "index" => c = call[r]
  <2>1. CASE UNCHANGED call
    <3>1. call' = [call EXCEPT ![r] = call[r]]
      BY <2>1 DEF IInv, TypeOK
    <3> QED
      BY <1>1, <3>1
  <2>2. CASE label = "idle" /\ call' = [call EXCEPT ![r] = NoCall]
    BY <2>2, NoCallIsCall
  <2> QED
    BY <2>1, <2>2
<1>4. doc' = [doc EXCEPT ![d] = row]
  OBVIOUS
<1> HIDE DEF row
<1>5. doc'[d] = row /\ pc'[r] = label /\ call'[r] = c
      /\ \A q \in Requests \ {r} : pc'[q] = pc[q] /\ call'[q] = call[q]
  BY <1>3, <1>4 DEF IInv, TypeOK
<1>6. CallInv(r)'
  <2>1. CASE label = "idle"
    BY <1>5, <2>1 DEF CallInv, Indexing, Retrying
  <2>2. CASE label = "index"
    <3>1. call[r].done = 0 /\ pc[r] = "indexing"
      BY <2>2 DEF IInv, CallInv, Retrying
    <3>2. d \notin disturbed => Alone(r, d)'
      BY <1>1, <1>2, <1>3, <1>5, <2>2, <3>1 DEF Alone, Works, Indexed, Indexing, Retrying
    <3> QED
      BY <1>2, <1>3, <1>5, <2>2, <3>2 DEF CallInv, Indexing, Retrying, ghosts
  <2> QED
    BY <2>1, <2>2
<1>7. DocInv(d)'
  BY <1>1, <1>2, <1>5 DEF DocInv, Alone, Indexed, Clean, ghosts, Indexing, Retrying
<1>8. lost' \subseteq Docs /\ Works(r, d)
  BY DEF ghosts, IInv, TypeOK, Works
<1>9. label \in Indexing \cup Retrying => c.doc = d
  BY <1>3 DEF Indexing, Retrying
<1> QED
  BY <1>2, <1>3, <1>4, <1>6, <1>7, <1>8, <1>9, RowStep DEF ghosts

LEMMA ReadyStep == ASSUME IInv, NEW r \in Requests, SetReady(r) PROVE IInv'
<1> DEFINE d == call[r].doc
<1>1. d \in Docs /\ pc[r] = "ready" /\ doc[d].status # "ABSENT" /\ pc[r] \in Indexing
      /\ (d \notin disturbed => Alone(r, d))
  BY DEF SetReady, IInv, CallInv, Indexing
<1>2. CASE Continue(r, "cleanup") /\ UNCHANGED doc
  <2>1. pc'[r] = "cleanup" /\ call'[r] = call[r] /\ UNCHANGED <<doc, point, ghosts>>
        /\ \A q \in Requests \ {r} : pc'[q] = pc[q] /\ call'[q] = call[q]
    BY <1>2 DEF SetReady, Continue, Goto, IInv, TypeOK
  <2>2. d \notin disturbed => Alone(r, d)'
    BY <1>1, <2>1 DEF Alone, Works, Indexing, ghosts
  <2>3. CallInv(r)'
    BY <1>1, <2>1, <2>2 DEF CallInv, Indexing, Retrying, ghosts
  <2> QED
    BY <1>1, <1>2, <2>1, <2>3, LabelsAre, ContinueStep DEF Indexing
<1>3. CASE Stored(d) /\ doc' = [doc EXCEPT ![d].status = "READY"] /\ Finish(r)
  BY <1>1, <1>3, LabelsAre, StatusStep DEF SetReady, Finish, Goto
<1> QED
  BY <1>2, <1>3 DEF SetReady

LEMMA PointsOfAre ==
  ASSUME NEW d \in Docs
  PROVE  /\ \A k \in Nat \ {0} : <<d, k>> \notin point \ PointsOf(d)
         /\ \A e \in Docs \ {d} : \A k \in Nat \ {0} :
              <<e, k>> \in point \ PointsOf(d) <=> <<e, k>> \in point
BY DEF PointsOf

\* The points of a document are deleted, or not, and the request goes on.
LEMMA PointsStep ==
  ASSUME IInv, NEW r \in Requests, NEW d \in Docs, call[r].doc = d,
         NEW label \in Labels, Continue(r, label), UNCHANGED <<doc, lost>>,
         disturbed' \in {disturbed, disturbed \cup {d}}, Works(r, d) \/ d \in disturbed',
         point' \in {point, point \ PointsOf(d)},
         leaked' \in {leaked, leaked \cup {d}, leaked \ {d}},
         d \notin leaked' => Clean(d)' \/ UNCHANGED <<point, leaked>>,
         \/ pc[r] = "cleanup" /\ label = "fail" /\ (d \notin leaked' => Clean(d)')
         \/ pc[r] = "retry" /\ label = "indexing"
         \/ pc[r] = "removePoints" /\ label = "removeRow" /\ d \in disturbed'
  PROVE  IInv'
<1>1. pc'[r] = label /\ UNCHANGED call
      /\ \A q \in Requests \ {r} : pc'[q] = pc[q] /\ call'[q] = call[q]
  BY DEF Continue, Goto, IInv, TypeOK
<1>2. TypeOK'
  <2>1. pc' \in [Requests -> Labels]
    BY DEF Continue, Goto, IInv, TypeOK
  <2> QED
    BY <1>1, <2>1 DEF IInv, TypeOK, Stored
<1>3. Local(r, d)
  BY <1>1, PointsOfAre DEF Local, Same
<1>4. CallInv(r) /\ doc[d].status # "ABSENT"
  BY DEF IInv, CallInv, Indexing, Retrying
<1>5. d \notin disturbed' => Alone(r, d)'
  BY <1>1, <1>4 DEF Alone, CallInv, Works, Indexing, Retrying
<1>6. CallInv(r)'
  BY <1>1, <1>4, <1>5 DEF CallInv, Indexing, Retrying
<1>7. DocInv(d)'
  BY <1>4 DEF IInv, DocInv, CallInv, Alone, Clean, Indexing, Retrying
<1> QED
  BY <1>1, <1>2, <1>3, <1>6, <1>7, WorkStep DEF Works

LEMMA CleanUpStep == ASSUME IInv, NEW r \in Requests, CleanUp(r) PROVE IInv'
<1>1. PICK d \in Docs : d = call[r].doc /\ Works(r, d)
  BY DEF CleanUp, IInv, CallInv, Works, Indexing
<1>2. CASE point' = point \ PointsOf(d) /\ leaked' = leaked \ {d}
  <2>1. Clean(d)'
    BY <1>2, PointsOfAre DEF Clean
  <2> QED
    BY <1>1, <1>2, <2>1, LabelsAre, PointsStep DEF CleanUp, Indexing
<1>3. CASE leaked' = leaked \cup {d} /\ UNCHANGED point
  BY <1>1, <1>3, LabelsAre, PointsStep DEF CleanUp, Indexing
<1> QED
  BY <1>1, <1>2, <1>3 DEF CleanUp

LEMMA FailedStep == ASSUME IInv, NEW r \in Requests, SetFailed(r) PROVE IInv'
<1>1. PICK d \in Docs : d = call[r].doc /\ pc[r] = "fail" /\ pc[r] \in Indexing
  BY DEF SetFailed, IInv, CallInv, Indexing
<1>2. CASE Stored(d) /\ doc' = [doc EXCEPT ![d].status = "FAILED"] /\ UNCHANGED lost
  BY <1>1, <1>2, LabelsAre, StatusStep DEF SetFailed, Finish, Goto, ghosts
<1>3. CASE lost' = lost \cup {d} /\ UNCHANGED doc
  <2>1. lost' \subseteq Docs
    BY <1>3 DEF IInv, TypeOK
  <2> QED
    BY <1>3, <2>1, EndStep DEF SetFailed
<1> QED
  BY <1>1, <1>2, <1>3 DEF SetFailed

-----------------------------------------------------------------------------
(* retry                                                                   *)

\* A second retry that reads FAILED before the first has written disturbs the
\* document; the first one works on it alone.
LEMMA RetryStep == ASSUME IInv, NEW r \in Requests, NEW d \in Docs, Retry(r, d) PROVE IInv'
<1> DEFINE c == [NoCall EXCEPT !.doc = d, !.content = doc[d].content]
<1>1. doc[d] \in Doc /\ doc[d].status = "FAILED" /\ doc[d].chunked
  BY DEF Retry, Retryable, IInv, TypeOK
<1>2. c \in Call /\ c.doc = d /\ c.content = doc[d].content /\ c.done = 0
  BY <1>1, NoCallIsCall DEF Call, Doc
<1>3. /\ pc' = [pc EXCEPT ![r] = "retry"] /\ call' = [call EXCEPT ![r] = c]
      /\ UNCHANGED <<doc, point, leaked, lost>>
      /\ disturbed' \in {disturbed, disturbed \cup {d}}
      /\ (\E q \in Requests : call[q].doc = d /\ pc[q] \in Retrying) => d \in disturbed'
  BY DEF Retry, Begin, Goto, Retrying
<1> HIDE DEF c
<1>4. pc'[r] = "retry" /\ call'[r] = c
      /\ \A q \in Requests \ {r} : pc'[q] = pc[q] /\ call'[q] = call[q]
  BY <1>3 DEF IInv, TypeOK
<1>5. TypeOK'
  BY <1>2, <1>3, LabelsAre DEF IInv, TypeOK, Stored, Retrying
<1>6. Local(r, d)
  BY <1>3, <1>4 DEF Local, Same
<1>7. d \notin disturbed' => \A q \in Requests : ~Works(q, d)
  <2> SUFFICES ASSUME d \notin disturbed', NEW q \in Requests, Works(q, d) PROVE FALSE
    OBVIOUS
  <2>1. pc[q] \in Indexing
    BY <1>3 DEF Works
  <2>2. d \notin disturbed
    BY <1>3
  <2>3. Alone(q, d)
    BY <2>1, <2>2 DEF IInv, CallInv, Works
  <2> QED
    BY <1>1, <2>1, <2>3 DEF Alone
<1>8. DocInv(d)' /\ (d \notin disturbed' => doc[d].content \in Contents)
  BY <1>1, <1>3 DEF IInv, DocInv, Clean
<1>9. CallInv(r)'
  <2>1. d \notin disturbed' => Alone(r, d)'
    BY <1>1, <1>2, <1>3, <1>4, <1>7, <1>8 DEF Alone, Works, Indexing, Retrying
  <2> QED
    BY <1>1, <1>2, <1>3, <1>4, <2>1 DEF CallInv, Indexing, Retrying
<1>10. ASSUME NEW q \in Requests \ {r}, call[q].doc = d PROVE CallInv(q)'
  <2>1. CallInv(q) /\ pc'[q] = pc[q] /\ call'[q] = call[q]
    BY <1>4 DEF IInv
  <2>2. d \notin disturbed' => pc[q] \notin Indexing \cup Retrying
    BY <1>7, <1>10 DEF Works
  <2> QED
    BY <1>3, <1>10, <2>1, <2>2 DEF CallInv, Indexing, Retrying
<1>11. \A e \in Docs : Works(r, e)' => e = d
  BY <1>2, <1>4 DEF Works
<1> QED
  BY <1>5, <1>6, <1>8, <1>9, <1>10, <1>11, Elsewhere DEF IInv

LEMMA DeleteOldStep == ASSUME IInv, NEW r \in Requests, DeleteOldPoints(r) PROVE IInv'
<1>1. PICK d \in Docs : d = call[r].doc /\ Works(r, d)
  BY DEF DeleteOldPoints, IInv, CallInv, Works, Retrying
<1>2. CASE point' = point \ PointsOf(d) /\ leaked' = leaked \ {d}
  <2>1. Clean(d)'
    BY <1>2, PointsOfAre DEF Clean
  <2> QED
    BY <1>1, <1>2, <2>1, LabelsAre, PointsStep DEF DeleteOldPoints, Retrying
<1>3. CASE UNCHANGED <<point, leaked>>
  BY <1>1, <1>3, LabelsAre, PointsStep DEF DeleteOldPoints, Retrying
<1> QED
  BY <1>1, <1>2, <1>3 DEF DeleteOldPoints

LEMMA SetIndexingStep == ASSUME IInv, NEW r \in Requests, SetIndexing(r) PROVE IInv'
<1>1. PICK d \in Docs : d = call[r].doc /\ pc[r] = "indexing" /\ pc[r] \in Retrying
  BY DEF SetIndexing, IInv, CallInv, Retrying
<1>2. CASE Stored(d) /\ doc' = [doc EXCEPT ![d].status = "INDEXING"] /\ Continue(r, "index")
  BY <1>1, <1>2, LabelsAre, StatusStep DEF SetIndexing, Continue, Goto, Indexing
<1>3. CASE Finish(r) /\ UNCHANGED doc
  BY <1>3, EndStep DEF SetIndexing, ghosts, IInv, TypeOK
<1> QED
  BY <1>1, <1>2, <1>3 DEF SetIndexing

-----------------------------------------------------------------------------
(* remove                                                                  *)

LEMMA RemoveStep == ASSUME IInv, NEW r \in Requests, NEW d \in Docs, Remove(r, d) PROVE IInv'
<1> DEFINE c == [NoCall EXCEPT !.doc = d, !.chunked = doc[d].chunked]
<1>1. doc[d] \in Doc /\ doc[d].status # "ABSENT"
  BY DEF Remove, Stored, IInv, TypeOK
<1>2. c \in Call /\ c.doc = d
  BY <1>1, NoCallIsCall DEF Call, Doc
<1>3. pc' = [pc EXCEPT ![r] = "removePoints"] /\ call' = [call EXCEPT ![r] = c]
      /\ UNCHANGED <<doc, point, disturbed, leaked, lost>>
  BY DEF Remove, Begin, Goto, ghosts
<1> HIDE DEF c
<1>4. pc'[r] = "removePoints" /\ call'[r] = c /\ lost' \subseteq Docs
  BY <1>3 DEF IInv, TypeOK
<1>5. CallInv(r)' /\ \A e \in Docs : ~Works(r, e)'
  BY <1>1, <1>2, <1>3, <1>4 DEF CallInv, Works, Indexing, Retrying
<1> QED
  BY <1>2, <1>3, <1>4, <1>5, LabelsAre, MoveStep

LEMMA RemovePointsStep == ASSUME IInv, NEW r \in Requests, RemovePoints(r) PROVE IInv'
<1>1. PICK d \in Docs : d = call[r].doc
  BY DEF RemovePoints, IInv, CallInv
<1>2. /\ point' \in {point, point \ PointsOf(d)} /\ disturbed' = disturbed \cup {d}
      /\ pc[r] = "removePoints" /\ Continue(r, "removeRow") /\ UNCHANGED <<doc, leaked, lost>>
  BY <1>1 DEF RemovePoints
<1>3. d \notin leaked' => Clean(d)' \/ UNCHANGED <<point, leaked>>
  <2>1. CASE point' = point
    BY <1>2, <2>1
  <2>2. CASE point' = point \ PointsOf(d)
    BY <2>2, PointsOfAre DEF Clean
  <2> QED
    BY <1>2, <2>1, <2>2
<1> QED
  BY <1>1, <1>2, <1>3, LabelsAre, PointsStep

LEMMA RemoveRowStep == ASSUME IInv, NEW r \in Requests, RemoveRow(r) PROVE IInv'
<1>1. PICK d \in Docs : d = call[r].doc /\ d \in disturbed
  BY DEF RemoveRow, IInv, CallInv
<1>2. CASE UNCHANGED doc
  BY <1>2, EndStep DEF RemoveRow, ghosts, IInv, TypeOK
<1>3. CASE doc' = [doc EXCEPT ![d] = [NoDoc EXCEPT !.status = "REMOVED"]]
  <2> DEFINE row == [NoDoc EXCEPT !.status = "REMOVED"]
  <2>1. NoDoc \in Doc
    BY DEF NoDoc, Doc
  <2>2. row \in Doc /\ row.status = "REMOVED"
    BY <2>1 DEF Doc
  <2> HIDE DEF row
  <2>3. pc' = [pc EXCEPT ![r] = "idle"] /\ call' = [call EXCEPT ![r] = NoCall]
        /\ UNCHANGED <<point, disturbed, leaked, lost>>
    BY DEF RemoveRow, Finish, Goto, ghosts
  <2>4. CallInv(r)'
    <3>1. pc'[r] = "idle"
      BY <2>3 DEF IInv, TypeOK
    <3> QED
      BY <3>1 DEF CallInv, Indexing, Retrying
  <2>5. DocInv(d)'
    BY <1>1, <2>3 DEF DocInv
  <2>6. lost' \subseteq Docs /\ "idle" \in Labels /\ "idle" \notin Indexing \cup Retrying
    BY <2>3, LabelsAre DEF IInv, TypeOK, Indexing, Retrying
  <2>7. doc' = [doc EXCEPT ![d] = row]
    BY <1>3 DEF row
  <2> QED
    BY <1>1, <2>2, <2>3, <2>4, <2>5, <2>6, <2>7, NoCallIsCall, RowStep
<1> QED
  BY <1>1, <1>2, <1>3 DEF RemoveRow

LEMMA AbortStep == ASSUME IInv, NEW r \in Requests, Abort(r) PROVE IInv'
<1>1. lost' \subseteq Docs
  BY DEF Abort, IInv, TypeOK, Call
<1> QED
  BY <1>1, EndStep DEF Abort

-----------------------------------------------------------------------------
LEMMA NextStep == ASSUME IInv, [Next]_vars PROVE IInv'
<1>1. CASE UNCHANGED vars
  <2>1. TypeOK'
    BY <1>1 DEF vars, ghosts, IInv, TypeOK, Stored
  <2>2. \A d \in Docs : DocInv(d)'
    BY <1>1 DEF vars, ghosts, IInv, DocInv, Indexed, Clean
  <2>3. \A r \in Requests : CallInv(r)'
    BY <1>1 DEF vars, ghosts, IInv, CallInv, Alone, Works, Indexed, Clean
  <2> QED
    BY <2>1, <2>2, <2>3 DEF IInv
<1>2. CASE Next
  BY <1>2, UploadStep, FindDuplicateStep, CreateStep, CreateChunksStep, IndexStep, ReadyStep,
     CleanUpStep, FailedStep, RetryStep, DeleteOldStep, SetIndexingStep, RemoveStep,
     RemovePointsStep, RemoveRowStep, AbortStep
     DEF Next, Proceed
<1> QED
  BY <1>1, <1>2

(* The invariant holds in every reachable state.                           *)
THEOREM Invariance == Spec => []IInv
BY InitStep, NextStep, PTL DEF Spec

(* Rows, points and requests keep their shape, and no two documents of the *)
(* workspace have the same content.                                        *)
THEOREM TypeCorrect == Spec => []TypeOK
<1>1. IInv => TypeOK
  BY DEF IInv
<1> QED
  BY <1>1, Invariance, PTL

(* A FAILED document has left nothing in the vector store, unless a        *)
(* removal or a second retry disturbed it or its clean-up failed.          *)
THEOREM Tidy == Spec => []FailedIsClean
<1>1. IInv => FailedIsClean
  BY DEF IInv, DocInv, Clean, FailedIsClean, PointsOf
<1> QED
  BY <1>1, Invariance, PTL

-----------------------------------------------------------------------------
(* Numbers: the least of them, the greatest, and induction over a range.   *)

\* From the well-foundedness of the natural numbers.
LEMMA Least ==
  ASSUME NEW T \in SUBSET Nat, T # {}
  PROVE  \E x \in T : \A y \in T : x <= y
<1>1. PICK x \in T : \A y \in T : ~ (<<y, x>> \in OpToRel(<, Nat))
  BY NatLessThanWellFounded, WFMin
<1>2. \A y \in T : ~(y < x)
  BY <1>1 DEF OpToRel
<1> QED
  BY <1>2

LEMMA MinOf ==
  ASSUME NEW T \in SUBSET Nat, T # {}
  PROVE  Min(T) \in T /\ \A y \in T : Min(T) <= y
BY Least DEF Min

LEMMA MaxOf ==
  ASSUME NEW n \in Nat, NEW T \in SUBSET (0..n), T # {}
  PROVE  Max(T) \in T /\ \A y \in T : y <= Max(T)
<1> DEFINE U == {n - y : y \in T}
<1>1. U \in SUBSET Nat /\ U # {}
  <2>1. ASSUME NEW y \in T PROVE n - y \in Nat
    OBVIOUS
  <2>2. \A u \in U : u \in Nat
    BY <2>1
  <2>3. PICK y \in T : TRUE
    OBVIOUS
  <2>4. n - y \in U
    BY <2>3
  <2> QED
    BY <2>2, <2>4
<1>2. PICK u \in U : \A y \in U : u <= y
  BY <1>1, Least
<1>3. PICK x \in T : u = n - x
  OBVIOUS
<1>4. \A y \in T : n - x <= n - y
  BY <1>2, <1>3
<1>5. \A y \in T : x >= y
  BY <1>4
<1> QED
  BY <1>5 DEF Max

\* What holds of a number if it holds of all the smaller ones, or of all the
\* greater ones, holds of a whole range.
LEMMA Upward ==
  ASSUME NEW n \in Nat, NEW G,
         \A k \in 0..n : 0..(k - 1) \subseteq G => k \in G
  PROVE  0..n \subseteq G
<1> SUFFICES ASSUME (0..n) \ G # {} PROVE FALSE
  OBVIOUS
<1> DEFINE T == (0..n) \ G
<1>0. T \in SUBSET Nat /\ T # {}
  OBVIOUS
<1>1. PICK x \in T : \A y \in T : x <= y
  <2> HIDE DEF T
  <2> QED
    BY <1>0, Least
<1>2. 0..(x - 1) \subseteq G
  BY <1>1
<1> QED
  BY <1>1, <1>2

LEMMA Downward ==
  ASSUME NEW n \in Nat, NEW G,
         \A k \in 0..n : (k + 1)..n \subseteq G => k \in G
  PROVE  0..n \subseteq G
<1> DEFINE H == {k \in 0..n : n - k \in G}
<1>1. ASSUME NEW k \in 0..n, 0..(k - 1) \subseteq H
      PROVE  k \in H
  <2>1. ASSUME NEW j \in (n - k + 1)..n
        PROVE  j \in G
    <3>1. n - j \in 0..(k - 1)
      BY <2>1
    <3>2. n - (n - j) \in G
      BY <1>1, <3>1
    <3> QED
      BY <3>2
  <2>2. n - k \in 0..n /\ n - k \in G
    BY <2>1
  <2> QED
    BY <2>2
<1>2. 0..n \subseteq H
  BY <1>1, Upward
<1>3. ASSUME NEW k \in 0..n
      PROVE  k \in G
  <2>1. n - k \in H
    BY <1>2
  <2>2. n - (n - k) \in G
    BY <2>1
  <2> QED
    BY <2>2
<1> QED
  BY <1>3

-----------------------------------------------------------------------------
(* One turn of the loop of chunkMarkdown.                                  *)

\* Letters have positions in the text.
LEMMA InkOf ==
  ASSUME NEW text \in Seq(Nat)
  PROVE  Len(text) \in Nat /\ Ink(text) \subseteq 0..(Len(text) - 1)
BY DEF Ink

\* A chunk ends behind its beginning, no further than its size allows; behind
\* the middle of it unless the text ends before.
LEMMA EndOf ==
  ASSUME NEW text \in Seq(Nat), NEW start \in 0..(Len(text) - 1)
  PROVE  /\ End(text, start) \in (start + 1)..Len(text)
         /\ End(text, start) <= start + Size
         /\ End(text, start) < Len(text) => End(text, start) > start + Size \div 2
<1> DEFINE maxEnd == Min({start + Size, Len(text)})
           breaks == {i \in (start + Size \div 2 + 1)..maxEnd :
                        i < Len(text) /\ At(text, i) = Newline}
<1>1. Len(text) \in Nat /\ Size \in Nat /\ Size > 0
  BY ChunkingAssumption
<1>2. Size \div 2 \in Nat /\ Size \div 2 < Size
  BY <1>1
<1>3. maxEnd \in {start + Size, Len(text)} /\ maxEnd <= start + Size /\ maxEnd <= Len(text)
  <2>1. {start + Size, Len(text)} \in SUBSET Nat /\ {start + Size, Len(text)} # {}
    BY <1>1
  <2> QED
    BY <2>1, MinOf
<1>4. maxEnd \in Nat
  BY <1>1, <1>3
<1> HIDE DEF maxEnd
<1>5. breaks # {} => Max(breaks) \in breaks
  <2>1. breaks \in SUBSET (0..maxEnd)
    BY <1>1, <1>2, <1>4
  <2> HIDE DEF breaks
  <2> QED
    BY <1>4, <2>1, MaxOf
<1>6. End(text, start) = IF maxEnd < Len(text) /\ breaks # {} THEN Max(breaks) ELSE maxEnd
  BY DEF End, maxEnd
<1>7. CASE maxEnd < Len(text) /\ breaks # {}
  <2>1. PICK b \in breaks : End(text, start) = b
    BY <1>5, <1>6, <1>7
  <2>2. b \in (start + Size \div 2 + 1)..maxEnd
    BY <2>1
  <2> HIDE DEF breaks
  <2> QED
    BY <1>1, <1>2, <1>3, <1>4, <2>1, <2>2
<1>8. CASE ~(maxEnd < Len(text) /\ breaks # {})
  <2>1. End(text, start) = maxEnd
    BY <1>6, <1>8
  <2> HIDE DEF breaks
  <2> QED
    BY <1>1, <1>2, <1>3, <1>4, <2>1
<1> QED
  BY <1>7, <1>8

\* The next chunk begins behind the beginning of this one, and no letter lies
\* between its beginning and where the overlap would have it begin.
LEMMA NextOf ==
  ASSUME NEW text \in Seq(Nat), NEW start \in 0..(Len(text) - 1), End(text, start) < Len(text)
  PROVE  LET end == End(text, start)
             next == NextStart(text, start, end)
         IN /\ next \in (start + 1)..Len(text)
            /\ next >= end - Overlap
            /\ next < Len(text) => next \in Ink(text)
            /\ \A i \in Ink(text) : i >= start + 1 /\ i >= end - Overlap => i >= next
<1> DEFINE end == End(text, start)
           back == Max({end - Overlap, start + 1})
           from == {i \in Ink(text) : i >= back} \cup {Len(text)}
<1>1. Len(text) \in Nat /\ Ink(text) \subseteq 0..(Len(text) - 1) /\ Overlap \in Nat
  BY InkOf, ChunkingAssumption
<1>2. end \in (start + 1)..Len(text)
  BY EndOf
<1> HIDE DEF end
<1>3. /\ back \in Int /\ back >= end - Overlap /\ back >= start + 1
      /\ back = end - Overlap \/ back = start + 1
  <2>1. \E x \in {end - Overlap, start + 1} : \A y \in {end - Overlap, start + 1} : x >= y
    BY <1>1, <1>2
  <2>2. back \in {end - Overlap, start + 1} /\ \A y \in {end - Overlap, start + 1} : back >= y
    BY <2>1 DEF Max
  <2> QED
    BY <1>1, <1>2, <2>2
<1> HIDE DEF back
<1>4. from \in SUBSET Nat /\ from # {}
  BY <1>1
<1>5. Min(from) \in from /\ \A y \in from : Min(from) <= y
  <2> HIDE DEF from
  <2> QED
    BY <1>4, MinOf
<1>6. NextStart(text, start, end) = Min(from)
  BY DEF NextStart, back
<1>7. back <= Len(text)
  BY <1>1, <1>2, <1>3
<1>8. /\ Min(from) \in (start + 1)..Len(text)
      /\ Min(from) >= end - Overlap
      /\ Min(from) < Len(text) => Min(from) \in Ink(text)
      /\ \A i \in Ink(text) : i >= start + 1 /\ i >= end - Overlap => i >= Min(from)
  <2>1. Min(from) \in Nat /\ Min(from) <= Len(text)
    BY <1>4, <1>5
  <2>2. Min(from) >= back
    BY <1>1, <1>5, <1>7
  <2>3. ASSUME NEW i \in Ink(text), i >= start + 1, i >= end - Overlap
        PROVE  i >= Min(from)
    <3>1. i >= back
      BY <1>1, <1>3, <2>3
    <3>2. i \in from
      BY <3>1
    <3> QED
      BY <1>1, <1>5, <2>1, <3>2
  <2>4. Min(from) < Len(text) => Min(from) \in Ink(text)
    BY <1>1, <1>5
  <2> QED
    BY <1>1, <1>2, <1>3, <2>1, <2>2, <2>3, <2>4
<1> QED
  BY <1>6, <1>8 DEF end

\* trim goes from the first letter of a part to the last one.
LEMMA TrimOf ==
  ASSUME NEW text \in Seq(Nat), NEW from \in Nat, NEW to \in 0..Len(text),
         Ink(text) \cap from..(to - 1) # {}
  PROVE  LET piece == Trim(text, from, to)
         IN /\ piece = [from |-> piece.from, to |-> piece.to]
            /\ piece.from \in Ink(text) /\ piece.to \in Nat /\ piece.to - 1 \in Ink(text)
            /\ from <= piece.from /\ piece.from < piece.to /\ piece.to <= to
            /\ \A i \in Ink(text) : from <= i /\ i < to => piece.from <= i /\ i < piece.to
<1> DEFINE ink == Ink(text) \cap from..(to - 1)
<1>1. /\ Len(text) \in Nat /\ ink \in SUBSET Nat /\ ink \in SUBSET (0..Len(text)) /\ ink # {}
      /\ ink \subseteq Ink(text) /\ \A i \in ink : from <= i /\ i < to
      /\ \A i \in Ink(text) : from <= i /\ i < to => i \in ink
  BY InkOf
<1>2. Trim(text, from, to) = [from |-> Min(ink), to |-> Max(ink) + 1]
  BY DEF Trim
<1> HIDE DEF ink
<1>3. Min(ink) \in ink /\ \A i \in ink : Min(ink) <= i
  BY <1>1, MinOf
<1>4. Max(ink) \in ink /\ \A i \in ink : i <= Max(ink)
  BY <1>1, MaxOf
<1>5. Min(ink) \in Nat /\ Max(ink) \in Nat
  BY <1>1, <1>3, <1>4
<1>6. \A i \in Ink(text) : from <= i /\ i < to => Min(ink) <= i /\ i < Max(ink) + 1
  BY <1>1, <1>3, <1>4, <1>5
<1> QED
  BY <1>1, <1>2, <1>3, <1>4, <1>5, <1>6

-----------------------------------------------------------------------------
(* The loop as a whole: the recursive function of Chunks exists.           *)

\* What a turn pushes, and what it and the turns after it push, which f says.
Cut(text, start) ==
  IF Ink(text) \cap start..(End(text, start) - 1) = {} THEN <<>>
  ELSE <<Trim(text, start, End(text, start))>>

Rest(text, f, start) ==
  IF start = Len(text) THEN <<>>
  ELSE IF End(text, start) = Len(text) THEN Cut(text, start)
  ELSE Cut(text, start) \o f[NextStart(text, start, End(text, start))]

Cuts(text, f) == f = [start \in 0..Len(text) |-> Rest(text, f, start)]

\* What the recursive function of Chunks stands for.
LEMMA ChunksAreCuts ==
  ASSUME NEW text
  PROVE  Chunks(text) = (CHOOSE f : Cuts(text, f))[0]
BY DEF Chunks, Cuts, Rest, Cut

\* A turn asks for later ones only.
LEMMA RestLooksAhead ==
  ASSUME NEW text \in Seq(Nat), NEW start \in 0..Len(text), NEW f, NEW g,
         \A next \in (start + 1)..Len(text) : f[next] = g[next]
  PROVE  Rest(text, f, start) = Rest(text, g, start)
<1>1. CASE start = Len(text)
  BY <1>1 DEF Rest
<1>2. CASE start # Len(text) /\ End(text, start) = Len(text)
  BY <1>2 DEF Rest
<1>3. CASE start # Len(text) /\ End(text, start) # Len(text)
  <2>1. start \in 0..(Len(text) - 1) /\ Len(text) \in Nat
    BY <1>3
  <2>2. End(text, start) < Len(text)
    BY <1>3, <2>1, EndOf
  <2>3. NextStart(text, start, End(text, start)) \in (start + 1)..Len(text)
    BY <2>1, <2>2, NextOf
  <2> QED
    BY <1>3, <2>3 DEF Rest
<1> QED
  BY <1>1, <1>2, <1>3

\* From the end of the text back, there is such a function on ever more of it.
LEMMA LoopEnds ==
  ASSUME NEW text \in Seq(Nat)
  PROVE  \E f : Cuts(text, f)
<1> DEFINE n == Len(text)
           From(m, f) == f = [start \in m..n |-> Rest(text, f, start)]
           G == {m \in 0..n : \E f : From(m, f)}
<1>1. n \in Nat
  OBVIOUS
<1>2. ASSUME NEW m \in 0..n, (m + 1)..n \subseteq G
      PROVE  m \in G
  <2>1. \E g : \A k \in (m + 1)..n : g[k] = Rest(text, g, k)
    <3>1. CASE m = n
      BY <3>1
    <3>2. CASE m # n
      <4>1. m + 1 \in G
        BY <1>1, <1>2, <3>2
      <4>2. PICK g : From(m + 1, g)
        BY <4>1
      <4>3. \A k \in (m + 1)..n : g[k] = Rest(text, g, k)
        BY <4>2
      <4> QED
        BY <4>3
    <3> QED
      BY <3>1, <3>2
  <2>2. PICK g : \A k \in (m + 1)..n : g[k] = Rest(text, g, k)
    BY <2>1
  <2> DEFINE f == [k \in m..n |-> Rest(text, g, k)]
  <2>3. \A k \in (m + 1)..n : f[k] = g[k]
    BY <1>1, <2>2
  <2>4. ASSUME NEW k \in m..n
        PROVE  Rest(text, g, k) = Rest(text, f, k)
    <3> HIDE DEF f
    <3>1. k \in 0..Len(text) /\ k >= m /\ n = Len(text)
      BY <1>1
    <3> HIDE DEF n
    <3>2. \A next \in (k + 1)..n : next \in (m + 1)..n
      BY <1>1, <3>1
    <3>3. \A next \in (k + 1)..n : g[next] = f[next]
      BY <2>3, <3>2
    <3> QED
      BY <3>1, <3>3, RestLooksAhead
  <2>5. From(m, f)
    <3>1. f = [k \in m..n |-> Rest(text, g, k)]
      OBVIOUS
    <3> HIDE DEF f
    <3> QED
      BY <2>4, <3>1
  <2> HIDE DEF f
  <2> QED
    BY <2>5
<1>3. 0..n \subseteq G
  <2> HIDE DEF G
  <2> QED
    BY <1>1, <1>2, Downward
<1>4. 0 \in G
  BY <1>1, <1>3
<1>5. PICK f : From(0, f)
  BY <1>4
<1> QED
  BY <1>5 DEF Cuts

\* The chunks from each position on.
CutsOf(text) == CHOOSE f : Cuts(text, f)

\* So it is what its equation says.
LEMMA CutsFrom ==
  ASSUME NEW text \in Seq(Nat)
  PROVE  /\ Chunks(text) = CutsOf(text)[0]
         /\ \A start \in 0..Len(text) : CutsOf(text)[start] = Rest(text, CutsOf(text), start)
<1>1. Cuts(text, CutsOf(text))
  BY LoopEnds DEF CutsOf
<1>2. CutsOf(text) = [start \in 0..Len(text) |-> Rest(text, CutsOf(text), start)]
  BY <1>1 DEF Cuts
<1>3. Chunks(text) = CutsOf(text)[0]
  BY ChunksAreCuts DEF CutsOf
<1> QED
  BY <1>2, <1>3

-----------------------------------------------------------------------------
(* What the loop pushes, from any position on.                             *)

Piece == [from: Nat, to: Nat]
Holds(chunk, i) == chunk.from <= i /\ i < chunk.to

\* The chunks of a text leave out no letter of it.
Covered(text) ==
  \A i \in Ink(text) : \E k \in 1..Len(Chunks(text)) : Holds(Chunks(text)[k], i)

\* Chunks from a position on: letters at both ends, no longer than the size
\* allows, no more of them than positions, and every letter in one of them.
Good(text, start, cuts) ==
  /\ cuts \in Seq(Piece) /\ Len(cuts) <= Len(text) - start
  /\ \A k \in 1..Len(cuts) :
       /\ cuts[k].from \in Ink(text) /\ cuts[k].to - 1 \in Ink(text)
       /\ start <= cuts[k].from /\ cuts[k].from < cuts[k].to
       /\ cuts[k].to <= cuts[k].from + Size
  /\ \A i \in Ink(text) : i >= start => \E k \in 1..Len(cuts) : Holds(cuts[k], i)

\* One turn, for the letters up to its end.
LEMMA CutIsGood ==
  ASSUME NEW text \in Seq(Nat), NEW start \in 0..(Len(text) - 1)
  PROVE  LET end == End(text, start)
             cut == Cut(text, start)
         IN /\ cut \in Seq(Piece) /\ Len(cut) <= 1
            /\ \A k \in 1..Len(cut) :
                 /\ cut[k].from \in Ink(text) /\ cut[k].to - 1 \in Ink(text)
                 /\ start <= cut[k].from /\ cut[k].from < cut[k].to /\ cut[k].to <= end
                 /\ cut[k].to <= cut[k].from + Size
            /\ \A i \in Ink(text) : start <= i /\ i < end =>
                 \E k \in 1..Len(cut) : Holds(cut[k], i)
<1> DEFINE end == End(text, start)
           cut == Cut(text, start)
           piece == Trim(text, start, end)
<1>1. /\ Len(text) \in Nat /\ Ink(text) \subseteq 0..(Len(text) - 1) /\ Size \in Nat
      /\ end \in (start + 1)..Len(text) /\ end <= start + Size
  BY InkOf, EndOf, ChunkingAssumption
<1>2. CASE Ink(text) \cap start..(end - 1) = {}
  <2>1. cut = <<>>
    BY <1>2 DEF Cut
  <2>2. \A i \in Ink(text) : ~(start <= i /\ i < end)
    <3> HIDE DEF end
    <3> QED
      BY <1>1, <1>2
  <2> HIDE DEF cut, end
  <2>3. cut \in Seq(Piece) /\ Len(cut) = 0
    BY <2>1
  <2> QED
    BY <2>2, <2>3 DEF cut, end
<1>3. CASE Ink(text) \cap start..(end - 1) # {}
  <2>1. cut = <<piece>>
    BY <1>3 DEF Cut
  <2>2. /\ piece = [from |-> piece.from, to |-> piece.to]
        /\ piece.from \in Ink(text) /\ piece.to \in Nat /\ piece.to - 1 \in Ink(text)
        /\ start <= piece.from /\ piece.from < piece.to /\ piece.to <= end
        /\ \A i \in Ink(text) : start <= i /\ i < end => piece.from <= i /\ i < piece.to
    <3>1. start \in Nat /\ end \in 0..Len(text)
      BY <1>1
    <3> QED
      BY <1>3, <3>1, TrimOf
  <2> HIDE DEF piece, cut, end
  <2>3. piece \in Piece /\ piece.to <= piece.from + Size
    BY <1>1, <2>2 DEF Piece
  <2>4. cut \in Seq(Piece) /\ Len(cut) = 1 /\ cut[1] = piece
    BY <2>1, <2>3
  <2> QED
    BY <2>2, <2>3, <2>4 DEF Holds, cut, end
<1> QED
  BY <1>2, <1>3

\* By induction from the end of the text back.
LEMMA CutsAreGood ==
  ASSUME NEW text \in Seq(Nat), NEW start \in 0..Len(text)
  PROVE  Good(text, start, CutsOf(text)[start])
<1> DEFINE n == Len(text)
           cuts == CutsOf(text)
           G == {s \in 0..n : Good(text, s, cuts[s])}
<1>1. n \in Nat /\ Ink(text) \subseteq 0..(n - 1) /\ Size \in Nat
  BY InkOf, ChunkingAssumption
<1>2. ASSUME NEW s \in 0..n, (s + 1)..n \subseteq G
      PROVE  s \in G
  <2> DEFINE end == End(text, s)
             cut == Cut(text, s)
             next == NextStart(text, s, end)
  <2>1. cuts[s] = Rest(text, cuts, s)
    BY CutsFrom
  <2>2. CASE s = n
    <3>1. cuts[s] = <<>>
      BY <2>1, <2>2 DEF Rest
    <3>2. \A i \in Ink(text) : ~(i >= s)
      BY <1>1, <2>2
    <3> HIDE DEF cuts
    <3>3. cuts[s] \in Seq(Piece) /\ Len(cuts[s]) = 0
      BY <3>1
    <3>4. Len(cuts[s]) <= Len(text) - s
      BY <1>1, <2>2, <3>3
    <3>5. Good(text, s, cuts[s])
      BY <3>2, <3>3, <3>4 DEF Good
    <3> QED
      BY <3>5
  <2>3. CASE s # n
    <3>1. /\ s \in 0..(n - 1) /\ end \in (s + 1)..n
          /\ cut \in Seq(Piece) /\ Len(cut) <= 1
          /\ \A k \in 1..Len(cut) :
               /\ cut[k].from \in Ink(text) /\ cut[k].to - 1 \in Ink(text)
               /\ s <= cut[k].from /\ cut[k].from < cut[k].to
               /\ cut[k].to <= cut[k].from + Size
          /\ \A i \in Ink(text) : s <= i /\ i < end => \E k \in 1..Len(cut) : Holds(cut[k], i)
      <4>1. s \in 0..(Len(text) - 1)
        BY <2>3
      <4> QED
        BY <4>1, CutIsGood, EndOf
    <3>2. CASE end = n
      <4>1. cuts[s] = cut
        BY <2>1, <2>3, <3>2 DEF Rest
      <4> HIDE DEF cut, end, cuts
      <4>2. Len(cut) <= Len(text) - s
        <5>1. Len(cut) \in Nat
          BY <3>1
        <5> QED
          BY <1>1, <3>1, <5>1
      <4>3. \A i \in Ink(text) : i >= s => s <= i /\ i < end
        BY <1>1, <3>2
      <4>4. Good(text, s, cut)
        <5> HIDE DEF n
        <5> QED
          BY <3>1, <4>2, <4>3 DEF Good
      <4> QED
        BY <4>1, <4>4
    <3>3. CASE end # n
      <4>1. cuts[s] = cut \o cuts[next]
        BY <2>1, <2>3, <3>3 DEF Rest
      <4>2. /\ next \in (s + 1)..n
            /\ \A i \in Ink(text) : i >= end => i >= next
        <5>1. s \in 0..(Len(text) - 1) /\ end < Len(text)
          BY <3>1, <3>3
        <5>2. /\ next \in (s + 1)..n
              /\ \A i \in Ink(text) : i >= s + 1 /\ i >= end - Overlap => i >= next
          BY <5>1, NextOf
        <5>3. ASSUME NEW i \in Ink(text), i >= end PROVE i >= s + 1 /\ i >= end - Overlap
          <6> HIDE DEF end
          <6> QED
            BY <1>1, <3>1, <5>3, ChunkingAssumption
        <5> QED
          BY <5>2, <5>3
      <4>3. Good(text, next, cuts[next])
        BY <1>2, <4>2
      <4> DEFINE rest == cuts[next]
      <4> HIDE DEF cut, end, rest, next, n, cuts
      <4>4. /\ rest \in Seq(Piece) /\ Len(rest) \in Nat /\ Len(cut) \in Nat
            /\ cuts[s] \in Seq(Piece) /\ Len(cuts[s]) = Len(cut) + Len(rest)
            /\ \A k \in 1..Len(cut) : cuts[s][k] = cut[k]
            /\ \A k \in 1..Len(rest) : cuts[s][Len(cut) + k] = rest[k]
        BY <3>1, <4>1, <4>3 DEF Good, rest
      <4>5. Len(cuts[s]) <= n - s
        BY <1>1, <3>1, <4>2, <4>3, <4>4 DEF Good, rest, n
      <4>6. ASSUME NEW k \in 1..Len(cuts[s])
            PROVE  /\ cuts[s][k].from \in Ink(text) /\ cuts[s][k].to - 1 \in Ink(text)
                   /\ s <= cuts[s][k].from /\ cuts[s][k].from < cuts[s][k].to
                   /\ cuts[s][k].to <= cuts[s][k].from + Size
        <5>1. CASE k <= Len(cut)
          BY <3>1, <4>4, <5>1
        <5>2. CASE k > Len(cut)
          <6>1. k - Len(cut) \in 1..Len(rest) /\ cuts[s][k] = rest[k - Len(cut)]
            BY <4>4, <5>2
          <6>2. next <= rest[k - Len(cut)].from
            BY <4>3, <6>1 DEF Good, rest
          <6>3. s <= rest[k - Len(cut)].from
            <7>1. rest[k - Len(cut)].from \in Ink(text)
              BY <4>3, <6>1 DEF Good, rest
            <7>2. rest[k - Len(cut)].from \in Int
              BY <1>1, <7>1
            <7> QED
              BY <1>1, <4>2, <6>2, <7>2
          <6> QED
            BY <4>3, <6>1, <6>3 DEF Good, rest
        <5> QED
          BY <4>4, <5>1, <5>2
      <4>7. ASSUME NEW i \in Ink(text), i >= s
            PROVE  \E k \in 1..Len(cuts[s]) : Holds(cuts[s][k], i)
        <5>1. CASE i < end
          <6>1. PICK k \in 1..Len(cut) : Holds(cut[k], i)
            BY <3>1, <4>7, <5>1
          <6>2. k \in 1..Len(cuts[s]) /\ cuts[s][k] = cut[k]
            BY <4>4
          <6> QED
            BY <6>1, <6>2
        <5>2. CASE i >= end
          <6>1. PICK k \in 1..Len(rest) : Holds(rest[k], i)
            BY <4>2, <4>3, <5>2 DEF Good, rest
          <6>2. Len(cut) + k \in 1..Len(cuts[s]) /\ cuts[s][Len(cut) + k] = rest[k]
            BY <4>4
          <6> QED
            BY <6>1, <6>2
        <5>3. i \in Int /\ end \in Int
          BY <1>1, <3>1
        <5> QED
          BY <5>1, <5>2, <5>3
      <4>8. Good(text, s, cuts[s])
        BY <4>4, <4>5, <4>6, <4>7 DEF Good, n
      <4> QED
        BY <4>8
    <3> QED
      BY <3>2, <3>3
  <2> QED
    BY <2>2, <2>3
<1>3. 0..n \subseteq G
  <2> HIDE DEF G
  <2> QED
    BY <1>1, <1>2, Downward
<1> QED
  BY <1>3

(* Cutting a text loses nothing of it and wastes nothing: every letter is  *)
(* in a chunk; a chunk begins and ends with a letter, is no longer than    *)
(* CHUNK_SIZE, and there are no more of them than characters, so that the  *)
(* loop ends.                                                              *)
THEOREM Cutting ==
  ASSUME NEW text \in Seq(Nat)
  PROVE  /\ Covered(text)
         /\ Chunks(text) \in Seq(Piece) /\ Len(Chunks(text)) <= Len(text)
         /\ \A k \in 1..Len(Chunks(text)) :
              LET chunk == Chunks(text)[k]
              IN /\ chunk.from \in Ink(text) /\ chunk.to - 1 \in Ink(text)
                 /\ chunk.from < chunk.to /\ chunk.to <= chunk.from + Size
<1> DEFINE cuts == Chunks(text)
<1>1. Good(text, 0, cuts)
  <2>1. 0 \in 0..Len(text)
    OBVIOUS
  <2> QED
    BY <2>1, CutsAreGood, CutsFrom
<1>2. Ink(text) \subseteq 0..(Len(text) - 1) /\ Len(text) \in Nat
  BY InkOf
<1> HIDE DEF cuts
<1>3. /\ cuts \in Seq(Piece) /\ Len(cuts) <= Len(text)
      /\ \A k \in 1..Len(cuts) :
           /\ cuts[k].from \in Ink(text) /\ cuts[k].to - 1 \in Ink(text)
           /\ cuts[k].from < cuts[k].to /\ cuts[k].to <= cuts[k].from + Size
  BY <1>1, <1>2 DEF Good
<1>4. \A i \in Ink(text) : \E k \in 1..Len(cuts) : Holds(cuts[k], i)
  BY <1>1, <1>2 DEF Good
<1> QED
  BY <1>3, <1>4 DEF Covered, cuts

-----------------------------------------------------------------------------
(* Chunks of a plain text overlap by what a reader's page looks for.       *)

Blanks == (Overlap - MinRepeat) \div 2

\* The arithmetic of the sizes.
LEMMA Numbers ==
  /\ Size \in Nat /\ Overlap \in Nat /\ MinRepeat \in Nat /\ MinRepeat >= 1
  /\ Blanks \in Nat /\ MinRepeat <= Overlap - 2 * Blanks /\ Blanks < Overlap
  /\ Overlap <= Size \div 2
BY ChunkingAssumption DEF Blanks

\* A plain text has a letter wherever one looks.
LEMMA PlainWindow ==
  ASSUME NEW text \in Seq(Nat), Plain(text), NEW i \in Nat, i + Blanks < Len(text)
  PROVE  \E j \in Ink(text) : i <= j /\ j <= i + Blanks
<1>1. i \in 0..(Len(text) - Blanks - 1)
  BY Numbers
<1>2. i..(i + Blanks) \cap Ink(text) # {}
  BY <1>1 DEF Plain, Blanks
<1> QED
  BY <1>2, Numbers

Entry(text, start) == \/ start \in Ink(text)
                      \/ start = 0 /\ Ink(text) # {}

\* One turn: a chunk that begins with the first letter there is, and the next
\* one begins with a letter of it.
LEMMA PlainTurn ==
  ASSUME NEW text \in Seq(Nat), Plain(text), NEW start \in 0..(Len(text) - 1), Entry(text, start)
  PROVE  LET end == End(text, start)
             piece == Trim(text, start, end)
             next == NextStart(text, start, end)
         IN /\ Cut(text, start) = <<piece>>
            /\ piece \in Piece /\ piece.from \in Ink(text) /\ piece.to - 1 \in Ink(text)
            /\ start <= piece.from /\ piece.from < piece.to /\ piece.to <= end
            /\ \A i \in Ink(text) : start <= i => piece.from <= i
            /\ \A i \in Ink(text) : start <= i /\ i < end => i < piece.to
            /\ end < Len(text) => /\ next \in Ink(text) /\ next > start
                                  /\ piece.to - next \in MinRepeat..Overlap
                                  /\ end <= End(text, next)
<1> DEFINE end == End(text, start)
           piece == Trim(text, start, end)
           next == NextStart(text, start, end)
<1>1. /\ Len(text) \in Nat /\ Ink(text) \subseteq 0..(Len(text) - 1)
      /\ end \in (start + 1)..Len(text)
      /\ end < Len(text) => end > start + Overlap
  <2>1. end \in (start + 1)..Len(text) /\ (end < Len(text) => end > start + Size \div 2)
    BY EndOf
  <2>2. Size \div 2 \in Int
    BY Numbers
  <2>3. Len(text) \in Nat /\ Ink(text) \subseteq 0..(Len(text) - 1)
    BY InkOf
  <2> HIDE DEF end
  <2> QED
    BY <2>1, <2>2, <2>3, Numbers
<1>2. Ink(text) \cap start..(end - 1) # {}
  <2>1. CASE start \in Ink(text)
    <3> HIDE DEF end
    <3> QED
      BY <1>1, <2>1
  <2>2. CASE start = 0 /\ end = Len(text) /\ Ink(text) # {}
    <3> HIDE DEF end
    <3> QED
      BY <1>1, <2>2
  <2>3. CASE start = 0 /\ end < Len(text)
    <3> HIDE DEF end
    <3>1. 0 \in Nat /\ 0 + Blanks < Len(text) /\ Blanks < end
      BY <1>1, <2>3, Numbers
    <3>2. PICK j \in Ink(text) : 0 <= j /\ j <= 0 + Blanks
      BY <3>1, PlainWindow
    <3>3. j \in start..(end - 1)
      BY <1>1, <2>3, <3>1, <3>2, Numbers
    <3> QED
      BY <3>2, <3>3
  <2>4. end = Len(text) \/ end < Len(text)
    <3> HIDE DEF end
    <3> QED
      BY <1>1
  <2> QED
    BY <2>1, <2>2, <2>3, <2>4 DEF Entry
<1>3. Cut(text, start) = <<piece>>
  BY <1>2 DEF Cut
<1>4. /\ piece = [from |-> piece.from, to |-> piece.to]
      /\ piece.from \in Ink(text) /\ piece.to \in Nat /\ piece.to - 1 \in Ink(text)
      /\ start <= piece.from /\ piece.from < piece.to /\ piece.to <= end
      /\ \A i \in Ink(text) : start <= i /\ i < end => piece.from <= i /\ i < piece.to
  <2>1. start \in Nat /\ end \in 0..Len(text)
    <3> HIDE DEF end
    <3> QED
      BY <1>1
  <2> QED
    BY <1>2, <2>1, TrimOf
<1>5. end < Len(text) => /\ next \in (start + 1)..Len(text)
                         /\ next >= end - Overlap
                         /\ next < Len(text) => next \in Ink(text)
                         /\ \A i \in Ink(text) : i >= start + 1 /\ i >= end - Overlap => i >= next
  BY NextOf
<1>6. next \in 0..(Len(text) - 1) => /\ End(text, next) \in (next + 1)..Len(text)
                                     /\ End(text, next) < Len(text) => End(text, next) > next + Size \div 2
  BY EndOf
<1> DEFINE later == End(text, next)
<1> HIDE DEF piece, next, end, later
<1>7. ASSUME end < Len(text)
      PROVE  /\ next \in Ink(text) /\ next > start
             /\ piece.to - next \in MinRepeat..Overlap
             /\ end <= later
  <2> DEFINE e == end - Overlap
  <2>1. /\ e \in Nat /\ e >= start + 1 /\ e + Blanks < end /\ end \in Nat
        /\ end - Blanks - 1 \in Nat /\ end - Blanks - 1 >= start
    BY <1>1, <1>7, Numbers
  <2>2. next \in Ink(text) /\ next > start /\ next <= e + Blanks
    <3>1. e + Blanks < Len(text)
      BY <1>7, <2>1, <1>1, Numbers
    <3>2. PICK j \in Ink(text) : e <= j /\ j <= e + Blanks
      <4> HIDE DEF e
      <4> QED
        BY <2>1, <3>1, PlainWindow
    <3>3. j \in Nat /\ j >= start + 1 /\ j >= end - Overlap
      BY <1>1, <2>1, <3>2
    <3>4. j >= next
      BY <1>5, <1>7, <3>2, <3>3
    <3> QED
      BY <1>1, <1>5, <1>7, <2>1, <3>1, <3>2, <3>3, <3>4, Numbers
  <2>3. piece.to >= end - Blanks
    <3>1. (end - Blanks - 1) + Blanks < Len(text)
      BY <1>7, <2>1, <1>1, Numbers
    <3>2. PICK j \in Ink(text) : end - Blanks - 1 <= j /\ j <= (end - Blanks - 1) + Blanks
      BY <2>1, <3>1, PlainWindow
    <3>3. j \in Nat /\ start <= j /\ j < end
      BY <1>1, <2>1, <3>2, Numbers
    <3>4. j < piece.to /\ piece.to \in Nat
      BY <1>4, <3>2, <3>3
    <3> DEFINE t == piece.to
    <3>5. j < t /\ t \in Nat
      BY <3>4
    <3> HIDE DEF t
    <3>6. t >= end - Blanks
      BY <2>1, <3>2, <3>3, <3>5, Numbers
    <3> QED
      BY <3>6 DEF t
  <2>4. piece.to - next \in MinRepeat..Overlap
    <3>1. next \in Nat /\ next >= end - Overlap
      <4>1. next \in Nat
        BY <1>1, <2>2
      <4> QED
        BY <1>5, <1>7, <4>1
    <3>2. piece.to \in Nat /\ piece.to <= end
      BY <1>4
    <3> DEFINE t == piece.to
    <3>3. t \in Nat /\ t <= end /\ t >= end - Blanks
      BY <2>3, <3>2
    <3> HIDE DEF t
    <3>4. t - next >= MinRepeat /\ t - next <= Overlap
      BY <2>1, <2>2, <3>1, <3>3, Numbers
    <3>5. t - next \in MinRepeat..Overlap
      BY <3>1, <3>3, <3>4, Numbers
    <3> QED
      BY <3>5 DEF t
  <2>5. end <= later
    <3>1. next \in 0..(Len(text) - 1) /\ next \in Nat /\ next >= end - Overlap
      <4>1. next \in 0..(Len(text) - 1)
        BY <1>1, <2>2
      <4> QED
        BY <1>1, <1>5, <1>7, <4>1
    <3>2. later \in Nat /\ later <= Len(text) /\ (later < Len(text) => later > next + Size \div 2)
      BY <1>1, <1>6, <3>1 DEF later
    <3>3. Size \div 2 \in Nat
      BY Numbers
    <3> QED
      BY <1>1, <2>1, <3>1, <3>2, <3>3, Numbers
  <2> QED
    BY <2>2, <2>4, <2>5
<1>8. piece \in Piece
  <2>1. piece.from \in Nat
    BY <1>1, <1>4
  <2> QED
    BY <1>4, <2>1 DEF Piece
<1>9. ASSUME NEW i \in Ink(text), start <= i
      PROVE  piece.from <= i
  <2>1. i \in Nat /\ end \in Nat /\ piece.from \in Nat
    BY <1>1, <1>4
  <2>2. CASE i < end
    BY <1>4, <1>9, <2>2
  <2>3. CASE i >= end
    BY <1>4, <2>1, <2>3
  <2> QED
    BY <2>1, <2>2, <2>3
<1> QED
  BY <1>3, <1>4, <1>7, <1>8, <1>9 DEF piece, next, end, later

\* Chunks from a position on: the first begins with the first letter, the last
\* ends with the last one, and each goes back into the one before.
Chained(text, start, cuts) ==
  /\ cuts \in Seq(Piece) /\ Len(cuts) > 0
  /\ cuts[1].from \in Ink(text) /\ start <= cuts[1].from
  /\ \A i \in Ink(text) : start <= i => cuts[1].from <= i
  /\ \A k \in 1..Len(cuts) : cuts[k].from \in Ink(text) /\ cuts[k].to - 1 \in Ink(text)
                            /\ start <= cuts[k].from /\ cuts[k].from < cuts[k].to
  /\ \A i \in Ink(text) : i < cuts[Len(cuts)].to
  /\ \A k \in 1..(Len(cuts) - 1) : /\ cuts[k].to - cuts[k + 1].from \in MinRepeat..Overlap
                                   /\ cuts[k].to <= cuts[k + 1].to

\* A chunk in front of such chunks.
LEMMA Chain ==
  ASSUME NEW text \in Seq(Nat), NEW start \in Nat, NEW next \in Ink(text), start < next,
         NEW piece \in Piece, NEW rest, Chained(text, next, rest),
         piece.from \in Ink(text), piece.to - 1 \in Ink(text),
         start <= piece.from, piece.from < piece.to,
         \A i \in Ink(text) : start <= i => piece.from <= i,
         piece.to - next \in MinRepeat..Overlap, piece.to <= rest[1].to
  PROVE  Chained(text, start, <<piece>> \o rest)
<1> DEFINE cuts == <<piece>> \o rest
<1>1. /\ rest \in Seq(Piece) /\ Len(rest) \in Nat /\ Len(rest) > 0
      /\ cuts \in Seq(Piece) /\ Len(cuts) = 1 + Len(rest)
      /\ cuts[1] = piece /\ \A k \in 1..Len(rest) : cuts[k + 1] = rest[k]
  BY DEF Chained
<1>2. Ink(text) \subseteq Nat
  BY InkOf
<1> HIDE DEF cuts
<1>3. rest[1].from = next
  BY <1>1, <1>2 DEF Chained
<1>4. ASSUME NEW k \in 1..Len(cuts)
      PROVE  /\ cuts[k].from \in Ink(text) /\ cuts[k].to - 1 \in Ink(text)
             /\ start <= cuts[k].from /\ cuts[k].from < cuts[k].to
  <2>1. CASE k = 1
    BY <1>1, <2>1
  <2>2. CASE k # 1
    <3>1. k - 1 \in 1..Len(rest) /\ cuts[k] = rest[k - 1]
      BY <1>1, <2>2
    <3>2. rest[k - 1].from \in Ink(text) /\ next <= rest[k - 1].from
      BY <3>1 DEF Chained
    <3>3. start <= rest[k - 1].from
      BY <1>2, <3>2
    <3> QED
      BY <3>1, <3>3 DEF Chained
  <2> QED
    BY <2>1, <2>2
<1>5. ASSUME NEW k \in 1..(Len(cuts) - 1)
      PROVE  cuts[k].to - cuts[k + 1].from \in MinRepeat..Overlap /\ cuts[k].to <= cuts[k + 1].to
  <2>1. CASE k = 1
    <3>1. cuts[2] = rest[1]
      BY <1>1
    <3> QED
      BY <1>1, <1>3, <2>1, <3>1
  <2>2. CASE k # 1
    <3> DEFINE p == k - 1
               l == Len(rest)
    <3>1. p \in 1..(l - 1) /\ p \in 1..l /\ k \in 1..l /\ p + 1 = k
      <4>1. l \in Nat /\ k \in 1..l
        BY <1>1
      <4> HIDE DEF l
      <4> QED
        BY <2>2, <4>1
    <3> HIDE DEF p
    <3>2. cuts[k] = rest[p] /\ cuts[k + 1] = rest[k]
      BY <1>1, <3>1
    <3>3. rest[p].to - rest[p + 1].from \in MinRepeat..Overlap /\ rest[p].to <= rest[p + 1].to
      BY <3>1 DEF Chained
    <3> QED
      BY <3>1, <3>2, <3>3
  <2> QED
    BY <2>1, <2>2
<1>6. cuts[Len(cuts)] = rest[Len(rest)]
  BY <1>1
<1> QED
  BY <1>1, <1>4, <1>5, <1>6 DEF Chained, cuts

\* By the same induction.
LEMMA CutsAreChained ==
  ASSUME NEW text \in Seq(Nat), Plain(text), NEW start \in 0..(Len(text) - 1), Entry(text, start)
  PROVE  Chained(text, start, CutsOf(text)[start])
<1> DEFINE n == Len(text) - 1
           cuts == CutsOf(text)
           G == {s \in 0..n : Entry(text, s) => Chained(text, s, cuts[s])}
<1>1. /\ n \in Nat /\ Len(text) \in Nat /\ Len(text) = n + 1
      /\ Ink(text) \subseteq 0..n /\ Ink(text) \subseteq Nat
  <2>1. Len(text) \in Nat /\ Len(text) - 1 >= 0
    <3>1. Len(text) \in Nat
      BY InkOf
    <3> DEFINE l == Len(text)
    <3> HIDE DEF l
    <3> QED
      BY <3>1 DEF l
  <2> QED
    BY <2>1, InkOf
<1> HIDE DEF n
<1>2. ASSUME NEW s \in 0..n, (s + 1)..n \subseteq G, Entry(text, s)
      PROVE  Chained(text, s, cuts[s])
  <2> DEFINE end == End(text, s)
             piece == Trim(text, s, end)
             next == NextStart(text, s, end)
  <2>1. s \in 0..Len(text) /\ s # Len(text) /\ s \in 0..(Len(text) - 1) /\ s \in Nat
    <3> DEFINE l == Len(text)
    <3>1. l \in Nat /\ l = n + 1
      BY <1>1
    <3> HIDE DEF l
    <3> QED
      BY <1>1, <3>1 DEF l
  <2>2. cuts[s] = Rest(text, cuts, s)
    BY <2>1, CutsFrom
  <2>3. /\ Cut(text, s) = <<piece>>
        /\ piece \in Piece /\ piece.from \in Ink(text) /\ piece.to - 1 \in Ink(text)
        /\ s <= piece.from /\ piece.from < piece.to /\ piece.to <= end
        /\ \A i \in Ink(text) : s <= i => piece.from <= i
        /\ \A i \in Ink(text) : s <= i /\ i < end => i < piece.to
        /\ end < Len(text) => /\ next \in Ink(text) /\ next > s
                              /\ piece.to - next \in MinRepeat..Overlap
                              /\ end <= End(text, next)
    BY <1>2, <2>1, PlainTurn
  <2>4. end \in (s + 1)..Len(text)
    BY <2>1, EndOf
  <2>5. CASE end = Len(text)
    <3>1. cuts[s] = <<piece>>
      BY <2>1, <2>2, <2>3, <2>5 DEF Rest
    <3> HIDE DEF piece, cuts, end, next
    <3>2. cuts[s] \in Seq(Piece) /\ Len(cuts[s]) = 1 /\ cuts[s][1] = piece
      BY <2>3, <3>1
    <3>3. ASSUME NEW i \in Ink(text)
          PROVE  i < piece.to
      <4>1. i \in Nat /\ i < end /\ piece.from \in Nat /\ piece.to \in Nat
        BY <1>1, <2>3, <2>5 DEF Piece
      <4> QED
        BY <2>1, <2>3, <4>1
    <3> QED
      BY <2>3, <3>2, <3>3 DEF Chained
  <2>6. CASE end # Len(text)
    <3>1. end < Len(text)
      <4> HIDE DEF end
      <4> QED
        BY <1>1, <2>4, <2>6
    <3>2. cuts[s] = <<piece>> \o cuts[next]
      BY <2>1, <2>2, <2>3, <2>6 DEF Rest
    <3> DEFINE later == Trim(text, next, End(text, next))
    <3> HIDE DEF piece, cuts, end, next, later
    <3>3. next \in (s + 1)..n /\ next \in Ink(text) /\ Entry(text, next)
      <4>1. next \in Ink(text) /\ next > s
        BY <2>3, <3>1
      <4>2. next \in 0..n
        BY <1>1, <4>1
      <4>3. next \in (s + 1)..n
        BY <1>1, <2>1, <4>1, <4>2
      <4> QED
        BY <4>1, <4>3 DEF Entry
    <3>4. Chained(text, next, cuts[next])
      BY <1>2, <3>3
    <3>5. piece.to <= cuts[next][1].to
      <4>1. /\ Cut(text, next) = <<later>> /\ later \in Piece
            /\ \A i \in Ink(text) : next <= i /\ i < End(text, next) => i < later.to
        <5>1. next \in 0..(Len(text) - 1)
          BY <1>1, <3>3
        <5> QED
          BY <3>3, <5>1, PlainTurn DEF later
      <4>2. cuts[next][1] = later
        <5>1. next \in 0..Len(text) /\ next # Len(text)
          <6> DEFINE l == Len(text)
          <6>1. l \in Nat /\ l = n + 1
            BY <1>1
          <6> HIDE DEF l
          <6> QED
            BY <1>1, <2>1, <3>3, <6>1 DEF l
        <5>2. cuts[next] = Rest(text, cuts, next)
          BY <5>1, CutsFrom DEF cuts
        <5>3. cuts[next] \in Seq(Piece)
          BY <3>4 DEF Chained
        <5>4. CASE End(text, next) = Len(text)
          BY <4>1, <5>1, <5>2, <5>4 DEF Rest
        <5>5. CASE End(text, next) # Len(text)
          <6> DEFINE after == NextStart(text, next, End(text, next))
          <6>1. cuts[next] = <<later>> \o cuts[after]
            BY <4>1, <5>1, <5>2, <5>5 DEF Rest
          <6>2. cuts[after] \in Seq(Piece)
            <7>1. next \in 0..(Len(text) - 1)
              BY <1>1, <3>3
            <7>2. End(text, next) \in (next + 1)..Len(text)
              BY <7>1, EndOf
            <7>3. End(text, next) < Len(text)
              BY <1>1, <5>5, <7>1, <7>2
            <7>4. after \in 0..Len(text)
              <8>1. after \in (next + 1)..Len(text)
                BY <7>1, <7>3, NextOf
              <8> HIDE DEF after
              <8> QED
                BY <1>1, <7>1, <8>1
            <7> HIDE DEF after
            <7> QED
              BY <7>4, CutsAreGood DEF Good, cuts
          <6> HIDE DEF after
          <6> QED
            BY <4>1, <6>1, <6>2
        <5> QED
          BY <5>4, <5>5
      <4>3. /\ piece.to \in Nat /\ later.to \in Nat /\ next \in Nat /\ end \in Nat
            /\ piece.to - next >= 1 /\ end <= End(text, next)
        BY <1>1, <2>3, <2>4, <3>1, <3>3, <4>1, Numbers DEF Piece
      <4>4. End(text, next) \in Nat
        <5>1. next \in 0..(Len(text) - 1)
          BY <1>1, <3>3
        <5>2. End(text, next) \in (next + 1)..Len(text)
          BY <5>1, EndOf
        <5>3. next \in Nat
          BY <1>1, <3>3
        <5> QED
          BY <1>1, <5>2, <5>3
      <4>5. next <= piece.to - 1 /\ piece.to - 1 < End(text, next)
        BY <2>3, <4>3, <4>4
      <4>6. piece.to - 1 < later.to
        BY <2>3, <4>1, <4>5
      <4> QED
        BY <4>2, <4>3, <4>6
    <3>6. Chained(text, s, <<piece>> \o cuts[next])
      BY <2>1, <2>3, <3>1, <3>4, <3>5, Chain
    <3> QED
      BY <3>2, <3>6
  <2> QED
    BY <2>5, <2>6
<1>3. 0..n \subseteq G
  <2>1. ASSUME NEW s \in 0..n, (s + 1)..n \subseteq G
        PROVE  s \in G
    BY <1>2, <2>1
  <2> HIDE DEF G
  <2> QED
    BY <1>1, <2>1, Downward
<1> QED
  BY <1>1, <1>3

-----------------------------------------------------------------------------
(* Putting the chunks together again.                                      *)

\* Parts of texts, texts put together, and when two are the same.
LEMMA PartOf ==
  ASSUME NEW s \in Seq(Nat), NEW m \in Nat \ {0}, NEW n \in Nat, m <= n + 1, n <= Len(s)
  PROVE  LET part == SubSeq(s, m, n)
         IN /\ part \in Seq(Nat) /\ Len(part) = n - m + 1
            /\ \A i \in 1..(n - m + 1) : part[i] = s[m + i - 1]
OBVIOUS

LEMMA EndsOf ==
  ASSUME NEW s \in Seq(Nat), NEW n \in Nat, n <= Len(s)
  PROVE  LET tail == SubSeq(s, Len(s) - n + 1, Len(s))
             head == SubSeq(s, 1, n)
         IN /\ tail \in Seq(Nat) /\ Len(tail) = n /\ \A i \in 1..n : tail[i] = s[Len(s) - n + i]
            /\ head \in Seq(Nat) /\ Len(head) = n /\ \A i \in 1..n : head[i] = s[i]
<1> DEFINE l == Len(s)
           m == l - n + 1
<1>1. /\ l \in Nat /\ m \in Nat \ {0} /\ m <= l + 1 /\ l - m + 1 = n
      /\ \A i \in 1..n : m + i - 1 = l - n + i
  <2>1. l \in Nat /\ n <= l
    OBVIOUS
  <2> HIDE DEF l
  <2> QED
    BY <2>1
<1>2. /\ SubSeq(s, m, l) \in Seq(Nat) /\ Len(SubSeq(s, m, l)) = l - m + 1
      /\ \A i \in 1..(l - m + 1) : SubSeq(s, m, l)[i] = s[m + i - 1]
  <2>1. l <= Len(s)
    BY <1>1
  <2> HIDE DEF m, l
  <2> QED
    BY <1>1, <2>1, PartOf
<1>3. /\ SubSeq(s, 1, n) \in Seq(Nat) /\ Len(SubSeq(s, 1, n)) = n
      /\ \A i \in 1..n : SubSeq(s, 1, n)[i] = s[i]
  OBVIOUS
<1> HIDE DEF m, l
<1>4. \A i \in 1..n : SubSeq(s, m, l)[i] = s[l - n + i]
  BY <1>1, <1>2
<1>5. SubSeq(s, m, l) \in Seq(Nat) /\ Len(SubSeq(s, m, l)) = n
  BY <1>1, <1>2
<1> QED
  BY <1>3, <1>4, <1>5 DEF m, l

LEMMA JoinOf ==
  ASSUME NEW s \in Seq(Nat), NEW t \in Seq(Nat)
  PROVE  /\ s \o t \in Seq(Nat) /\ Len(s \o t) = Len(s) + Len(t)
         /\ \A i \in 1..Len(s) : (s \o t)[i] = s[i]
         /\ \A i \in 1..Len(t) : (s \o t)[Len(s) + i] = t[i]
OBVIOUS

LEMMA SameText ==
  ASSUME NEW s \in Seq(Nat), NEW t \in Seq(Nat), Len(s) = Len(t),
         \A i \in 1..Len(s) : s[i] = t[i]
  PROVE  s = t
OBVIOUS

LEMMA SliceOf ==
  ASSUME NEW text \in Seq(Nat), NEW from \in Nat, NEW to \in Nat, from <= to, to <= Len(text)
  PROVE  LET slice == Slice(text, from, to)
         IN /\ slice \in Seq(Nat) /\ Len(slice) = to - from
            /\ \A i \in 1..(to - from) : slice[i] = text[from + i]
BY DEF Slice

\* A part of a text whose end begins the next part: the end is found again,
\* and nothing else is taken for it.
LEMMA CombineOf ==
  ASSUME NEW text \in Seq(Nat), Plain(text),
         NEW a \in Nat, NEW b \in Nat, NEW x \in Nat, NEW y \in Nat,
         a <= x, b <= y, y <= Len(text), b - x \in MinRepeat..Overlap
  PROVE  Combine(Slice(text, a, b), Slice(text, x, y)) = Slice(text, a, y)
<1> DEFINE guide == Slice(text, a, b)
           next == Slice(text, x, y)
           whole == Slice(text, a, y)
           m == b - x
           most == Min({Len(guide), Len(next), MaxRepeat})
<1>1. /\ Len(text) \in Nat /\ m \in Nat /\ m >= MinRepeat /\ m <= Overlap
      /\ m <= b - a /\ m <= y - x /\ x < b /\ a < b /\ x < y /\ a < y
      /\ a <= b /\ b <= Len(text) /\ x <= y /\ a <= y
  BY Numbers
<1>2. /\ guide \in Seq(Nat) /\ Len(guide) = b - a
      /\ \A i \in 1..(b - a) : guide[i] = text[a + i]
  BY <1>1, SliceOf
<1>3. /\ next \in Seq(Nat) /\ Len(next) = y - x
      /\ \A i \in 1..(y - x) : next[i] = text[x + i]
  BY <1>1, SliceOf
<1>4. /\ whole \in Seq(Nat) /\ Len(whole) = y - a
      /\ \A i \in 1..(y - a) : whole[i] = text[a + i]
  BY <1>1, SliceOf
<1>5. /\ most \in Nat /\ most <= b - a /\ most <= y - x /\ m <= most
  <2> DEFINE T == {Len(guide), Len(next), MaxRepeat}
  <2>1. T \in SUBSET Nat /\ T # {} /\ \A t \in T : m <= t
    BY <1>1, <1>2, <1>3, ChunkingAssumption
  <2>2. Min(T) \in T /\ \A t \in T : Min(T) <= t
    <3> HIDE DEF T
    <3> QED
      BY <2>1, MinOf
  <2>3. Min(T) \in Nat /\ m <= Min(T) /\ Min(T) <= Len(guide) /\ Min(T) <= Len(next)
    BY <2>1, <2>2
  <2> QED
    BY <1>2, <1>3, <2>3
<1>6. Repeats(guide, next) =
        {n \in MinRepeat..most : SubSeq(guide, Len(guide) - n + 1, Len(guide)) = SubSeq(next, 1, n)}
  BY DEF Repeats
<1> HIDE DEF guide, next, whole, most
<1>7. m \in Repeats(guide, next)
  <2> DEFINE s == SubSeq(guide, (b - a) - m + 1, b - a)
             t == SubSeq(next, 1, m)
  <2> HIDE DEF m
  <2>1. s \in Seq(Nat) /\ Len(s) = m /\ \A i \in 1..m : s[i] = guide[(b - a) - m + i]
    <3>1. m \in Nat /\ m <= Len(guide)
      BY <1>1, <1>2
    <3>2. LET tail == SubSeq(guide, Len(guide) - m + 1, Len(guide))
          IN tail \in Seq(Nat) /\ Len(tail) = m /\ \A i \in 1..m : tail[i] = guide[Len(guide) - m + i]
      BY <1>2, <3>1, EndsOf
    <3> QED
      BY <1>2, <3>2
  <2>2. t \in Seq(Nat) /\ Len(t) = m /\ \A i \in 1..m : t[i] = next[i]
    BY <1>1, <1>3, EndsOf
  <2> USE DEF m
  <2>3. ASSUME NEW i \in 1..m
        PROVE  s[i] = t[i]
    <3>1. (b - a) - m + i \in 1..(b - a) /\ a + ((b - a) - m + i) = x + i /\ i \in 1..(y - x)
      BY <1>1
    <3>2. guide[(b - a) - m + i] = text[a + ((b - a) - m + i)] /\ next[i] = text[x + i]
      BY <1>2, <1>3, <3>1
    <3> QED
      BY <2>1, <2>2, <3>1, <3>2
  <2> HIDE DEF s, t
  <2>4. s = t
    BY <2>1, <2>2, <2>3
  <2>5. m \in MinRepeat..most
    BY <1>1, <1>5, Numbers
  <2> QED
    BY <1>2, <1>6, <2>4, <2>5 DEF s, t
<1>8. ASSUME NEW n \in Repeats(guide, next)
      PROVE  n = m
  <2>1. n \in MinRepeat..most /\ SubSeq(guide, (b - a) - n + 1, b - a) = SubSeq(next, 1, n)
    BY <1>2, <1>6, <1>8
  <2>2. n \in Nat /\ MinRepeat <= n /\ n <= b - a /\ n <= y - x
    BY <1>1, <1>5, <2>1, Numbers
  <2> DEFINE s == SubSeq(text, b - n + 1, b - n + MinRepeat)
             t == SubSeq(text, x + 1, x + MinRepeat)
             l == Len(text) - MinRepeat + 1
  <2>3. ASSUME NEW i \in 1..MinRepeat
        PROVE  text[b - n + i] = text[x + i]
    <3>1. /\ (b - a) - n + i \in 1..(b - a) /\ a + ((b - a) - n + i) = b - n + i
          /\ i \in 1..(y - x) /\ i \in 1..n
      BY <1>1, <2>2, Numbers
    <3>2. guide[(b - a) - n + i] = text[b - n + i] /\ next[i] = text[x + i]
      BY <1>2, <1>3, <3>1
    <3>3. SubSeq(guide, (b - a) - n + 1, b - a)[i] = guide[(b - a) - n + i]
      BY <1>2, <2>2, <3>1, EndsOf
    <3>4. SubSeq(next, 1, n)[i] = next[i]
      BY <1>3, <2>2, <3>1, EndsOf
    <3> QED
      BY <2>1, <3>2, <3>3, <3>4
  <2>4. s \in Seq(Nat) /\ Len(s) = MinRepeat /\ \A i \in 1..MinRepeat : s[i] = text[b - n + i]
    <3> DEFINE from == b - n + 1
               to == b - n + MinRepeat
    <3>1. /\ from \in Nat \ {0} /\ to \in Nat /\ from <= to + 1 /\ to <= Len(text)
          /\ to - from + 1 = MinRepeat /\ \A i \in 1..MinRepeat : from + i - 1 = b - n + i
      BY <1>1, <2>2, Numbers
    <3> HIDE DEF from, to
    <3>2. /\ SubSeq(text, from, to) \in Seq(Nat)
          /\ Len(SubSeq(text, from, to)) = to - from + 1
          /\ \A i \in 1..(to - from + 1) : SubSeq(text, from, to)[i] = text[from + i - 1]
      BY <3>1, PartOf
    <3>3. s = SubSeq(text, from, to)
      BY DEF from, to
    <3> HIDE DEF s
    <3> QED
      BY <3>1, <3>2, <3>3
  <2>5. t \in Seq(Nat) /\ Len(t) = MinRepeat /\ \A i \in 1..MinRepeat : t[i] = text[x + i]
    BY <1>1, <2>2, Numbers
  <2> HIDE DEF s, t
  <2>6. s = t
    BY <2>3, <2>4, <2>5, SameText
  <2>7. /\ b - n + 1 \in 1..l /\ x + 1 \in 1..l
        /\ (b - n + 1) + MinRepeat - 1 = b - n + MinRepeat
        /\ (x + 1) + MinRepeat - 1 = x + MinRepeat
    BY <1>1, <2>2, Numbers
  <2>8. b - n + 1 = x + 1
    <3>1. \A i, j \in 1..l :
            SubSeq(text, i, i + MinRepeat - 1) = SubSeq(text, j, j + MinRepeat - 1) => i = j
      BY DEF Plain
    <3> HIDE DEF l
    <3> QED
      BY <2>6, <2>7, <3>1 DEF s, t
  <2> QED
    BY <2>2, <2>8
<1>9. Repeats(guide, next) = {m} /\ Max(Repeats(guide, next)) = m
  <2>1. Repeats(guide, next) = {m}
    BY <1>7, <1>8
  <2>2. {m} \in SUBSET (0..m) /\ {m} # {}
    BY <1>1
  <2>3. Max({m}) \in {m}
    BY <1>1, <2>2, MaxOf
  <2> QED
    BY <2>1, <2>3
<1>10. guide # <<>>
  BY <1>1, <1>2
<1>11. Combine(guide, next) = guide \o SubSeq(next, m + 1, y - x)
  <2>1. Repeats(guide, next) # {}
    BY <1>9
  <2> QED
    BY <1>3, <1>9, <1>10, <2>1 DEF Combine
<1>12. guide \o SubSeq(next, m + 1, y - x) = whole
  <2> DEFINE s == SubSeq(next, m + 1, y - x)
             c == guide \o s
  <2>1. s \in Seq(Nat) /\ Len(s) = y - b /\ \A i \in 1..(y - b) : s[i] = next[m + i]
    <3> DEFINE from == m + 1
               to == y - x
    <3>1. /\ from \in Nat \ {0} /\ to \in Nat /\ from <= to + 1 /\ to <= Len(next)
          /\ to - from + 1 = y - b /\ \A i \in 1..(y - b) : from + i - 1 = m + i
      BY <1>1, <1>3
    <3> HIDE DEF from, to
    <3>2. /\ SubSeq(next, from, to) \in Seq(Nat)
          /\ Len(SubSeq(next, from, to)) = to - from + 1
          /\ \A i \in 1..(to - from + 1) : SubSeq(next, from, to)[i] = next[from + i - 1]
      BY <1>3, <3>1, PartOf
    <3>3. s = SubSeq(next, from, to)
      BY DEF from, to
    <3> HIDE DEF s
    <3> QED
      BY <3>1, <3>2, <3>3
  <2> HIDE DEF s
  <2>2. /\ c \in Seq(Nat) /\ Len(c) = y - a
        /\ \A i \in 1..(b - a) : c[i] = guide[i]
        /\ \A i \in 1..(y - b) : c[(b - a) + i] = s[i]
    <3>1. /\ c \in Seq(Nat) /\ Len(c) = Len(guide) + Len(s)
          /\ \A i \in 1..Len(guide) : c[i] = guide[i]
          /\ \A i \in 1..Len(s) : c[Len(guide) + i] = s[i]
      BY <1>2, <2>1, JoinOf
    <3> HIDE DEF c
    <3>2. (b - a) + (y - b) = y - a
      BY <1>1
    <3> QED
      BY <1>2, <2>1, <3>1, <3>2
  <2> HIDE DEF c
  <2>3. ASSUME NEW i \in 1..(y - a)
        PROVE  c[i] = text[a + i]
    <3>1. CASE i <= b - a
      BY <1>1, <1>2, <2>2, <3>1
    <3>2. CASE i > b - a
      <4> DEFINE j == i - (b - a)
      <4>1. j \in 1..(y - b) /\ (b - a) + j = i /\ m + j \in 1..(y - x) /\ x + (m + j) = a + i
        BY <1>1, <3>2
      <4>2. c[i] = s[j] /\ s[j] = next[m + j] /\ next[m + j] = text[x + (m + j)]
        <5> HIDE DEF j, m
        <5> QED
          BY <1>3, <2>1, <2>2, <4>1
      <4> QED
        BY <4>1, <4>2
    <3> QED
      BY <1>1, <3>1, <3>2
  <2>4. c = whole
    <3>1. \A i \in 1..Len(c) : c[i] = whole[i]
      BY <1>4, <2>2, <2>3
    <3> QED
      BY <1>4, <2>2, <3>1, SameText
  <2> QED
    BY <2>4 DEF c, s
<1> QED
  BY <1>11, <1>12 DEF guide, next, whole

-----------------------------------------------------------------------------
(* The page puts all of them together, by induction from the first one on. *)

\* What a guide of the first n chunks says, which g says of fewer.
Guides(text, cuts, g) ==
  g = [n \in 0..Len(cuts) |->
         IF n = 0 THEN <<>>
         ELSE Combine(g[n - 1], Slice(text, cuts[n].from, cuts[n].to))]

\* What the recursive function of Guide stands for.
LEMMA GuideOf ==
  ASSUME NEW text
  PROVE  Guide(text) = (CHOOSE g : Guides(text, Chunks(text), g))[Len(Chunks(text))]
BY DEF Guide, Guides

\* Chunks that overlap by what the reader's page looks for give back the text
\* from the first letter to the last.
LEMMA ChainReads ==
  ASSUME NEW text \in Seq(Nat), Plain(text), NEW cuts, Chained(text, 0, cuts)
  PROVE  LET N == Len(cuts)
         IN (CHOOSE g : Guides(text, cuts, g))[N] = Slice(text, cuts[1].from, cuts[N].to)
<1> DEFINE N == Len(cuts)
           h == [n \in 0..N |-> IF n = 0 THEN <<>> ELSE Slice(text, cuts[1].from, cuts[n].to)]
           g == CHOOSE g : Guides(text, cuts, g)
<1>1. N \in Nat /\ N > 0 /\ Len(text) \in Nat /\ Ink(text) \subseteq 0..(Len(text) - 1)
  BY InkOf DEF Chained
<1>2. \A k \in 1..N : /\ cuts[k].from \in Nat /\ cuts[k].to \in Nat
                      /\ cuts[k].from < cuts[k].to /\ cuts[k].to <= Len(text)
                      /\ cuts[1].from <= cuts[k].from
  <2> SUFFICES ASSUME NEW k \in 1..N
               PROVE  /\ cuts[k].from \in Nat /\ cuts[k].to \in Nat
                      /\ cuts[k].from < cuts[k].to /\ cuts[k].to <= Len(text)
                      /\ cuts[1].from <= cuts[k].from
    OBVIOUS
  <2>1. /\ cuts[k].from \in Ink(text) /\ cuts[k].to - 1 \in Ink(text)
        /\ 0 <= cuts[k].from /\ cuts[k].from < cuts[k].to
    BY DEF Chained
  <2>2. cuts[1].from <= cuts[k].from
    BY <2>1 DEF Chained
  <2>3. cuts[k] \in Piece
    BY DEF Chained
  <2>4. cuts[k].from \in Nat /\ cuts[k].to \in Nat
    BY <2>3 DEF Piece
  <2>5. cuts[k].to <= Len(text)
    BY <1>1, <2>1, <2>4
  <2> QED
    BY <2>1, <2>2, <2>4, <2>5
<1> HIDE DEF N
<1>3. ASSUME NEW n \in 1..N
      PROVE  h[n] = Combine(h[n - 1], Slice(text, cuts[n].from, cuts[n].to))
  <2>1. CASE n = 1
    <3>1. h[n - 1] = <<>> /\ h[n] = Slice(text, cuts[n].from, cuts[n].to)
      BY <1>1, <2>1
    <3> HIDE DEF h
    <3> QED
      BY <3>1 DEF Combine
  <2>2. CASE n # 1
    <3> DEFINE p == n - 1
               a == cuts[1].from
               b == cuts[p].to
               x == cuts[n].from
               y == cuts[n].to
    <3>1. p \in 1..(N - 1) /\ p \in 1..N /\ p + 1 = n /\ 1 \in 1..N
      BY <1>1, <2>2
    <3>2. h[p] = Slice(text, a, b) /\ h[n] = Slice(text, a, y)
      BY <1>1, <3>1
    <3>3. b - x \in MinRepeat..Overlap /\ b <= y
      BY <3>1 DEF Chained, N
    <3>4. a \in Nat /\ b \in Nat /\ x \in Nat /\ y \in Nat /\ a <= x /\ y <= Len(text)
      BY <1>2, <3>1
    <3> HIDE DEF a, b, x, y, h
    <3>5. Combine(Slice(text, a, b), Slice(text, x, y)) = Slice(text, a, y)
      BY <3>3, <3>4, CombineOf
    <3> QED
      BY <3>2, <3>5 DEF x, y
  <2> QED
    BY <2>1, <2>2
<1>4. Guides(text, cuts, h)
  <2>1. ASSUME NEW n \in 0..N
        PROVE  h[n] = IF n = 0 THEN <<>>
                      ELSE Combine(h[n - 1], Slice(text, cuts[n].from, cuts[n].to))
    <3>1. CASE n = 0
      BY <3>1
    <3>2. CASE n # 0
      <4>1. n \in 1..N
        BY <1>1, <3>2
      <4> HIDE DEF h
      <4> QED
        BY <1>3, <3>2, <4>1
    <3> QED
      BY <3>1, <3>2
  <2>2. h = [n \in 0..N |-> h[n]]
    OBVIOUS
  <2> HIDE DEF h
  <2>3. h = [n \in 0..N |-> IF n = 0 THEN <<>>
                          ELSE Combine(h[n - 1], Slice(text, cuts[n].from, cuts[n].to))]
    BY <2>1, <2>2
  <2> QED
    BY <2>3 DEF Guides, N
<1>5. Guides(text, cuts, g)
  <2> HIDE DEF h
  <2> QED
    BY <1>4
<1> DEFINE G == {n \in 0..N : g[n] = h[n]}
<1>6. ASSUME NEW n \in 0..N, 0..(n - 1) \subseteq G
      PROVE  n \in G
  <2> HIDE DEF g
  <2>1. g[n] = IF n = 0 THEN <<>> ELSE Combine(g[n - 1], Slice(text, cuts[n].from, cuts[n].to))
    BY <1>5 DEF Guides, N
  <2>2. CASE n = 0
    BY <2>1, <2>2
  <2>3. CASE n # 0
    <3>1. n \in 1..N /\ n - 1 \in 0..(n - 1)
      BY <1>1, <2>3
    <3> HIDE DEF h
    <3>2. g[n - 1] = h[n - 1]
      BY <1>6, <3>1
    <3>3. h[n] = Combine(h[n - 1], Slice(text, cuts[n].from, cuts[n].to))
      BY <1>3, <3>1
    <3> QED
      BY <2>1, <2>3, <3>2, <3>3
  <2> QED
    BY <2>2, <2>3
<1>7. 0..N \subseteq G
  <2> HIDE DEF G
  <2> QED
    BY <1>1, <1>6, Upward
<1>8. N \in 0..N /\ N # 0
  BY <1>1
<1>9. h[N] = Slice(text, cuts[1].from, cuts[N].to)
  BY <1>8
<1> HIDE DEF h, g
<1> QED
  BY <1>7, <1>8, <1>9 DEF g, N

(* What a reader is shown of a plain text is the text, without the blanks  *)
(* around it: no letter is lost where two chunks meet, and none is shown   *)
(* twice.                                                                  *)
THEOREM Reading ==
  ASSUME NEW text \in Seq(Nat), Plain(text)
  PROVE  Guide(text) = Trimmed(text)
<1> DEFINE cuts == Chunks(text)
           N == Len(cuts)
           whole == Trim(text, 0, Len(text))
<1>1. Len(text) \in Nat /\ Ink(text) \subseteq 0..(Len(text) - 1) /\ Ink(text) \subseteq Nat
  BY InkOf
<1>2. Guide(text) = (CHOOSE g : Guides(text, cuts, g))[N]
  BY GuideOf
<1>3. CASE Ink(text) = {}
  <2>1. /\ cuts \in Seq(Piece)
        /\ \A k \in 1..Len(cuts) : cuts[k].from \in Ink(text)
    BY Cutting
  <2> HIDE DEF cuts
  <2>2. N = 0
    <3>1. N \in Nat /\ ~(1 \in 1..N)
      BY <1>3, <2>1
    <3> QED
      BY <3>1
  <2> DEFINE h == [n \in 0..N |-> <<>>]
  <2>3. Guides(text, cuts, h)
    <3>1. h = [n \in 0..N |-> IF n = 0 THEN <<>>
                            ELSE Combine(h[n - 1], Slice(text, cuts[n].from, cuts[n].to))]
      BY <2>2
    <3> HIDE DEF h
    <3> QED
      BY <3>1 DEF Guides
  <2> DEFINE g == CHOOSE g : Guides(text, cuts, g)
  <2>4. Guides(text, cuts, g)
    <3> HIDE DEF h
    <3> QED
      BY <2>3
  <2> HIDE DEF g
  <2>5. g[0] = <<>>
    <3>1. 0 \in 0..Len(cuts)
      BY <2>2
    <3> QED
      BY <2>4, <3>1 DEF Guides
  <2> QED
    BY <1>2, <1>3, <2>2, <2>5 DEF Trimmed, g
<1>4. CASE Ink(text) # {}
  <2>1. 0 \in 0..(Len(text) - 1)
    BY <1>1, <1>4
  <2>2. Chained(text, 0, cuts)
    <3>1. Entry(text, 0)
      BY <1>4 DEF Entry
    <3>2. cuts = CutsOf(text)[0]
      BY CutsFrom
    <3> QED
      BY <2>1, <3>1, <3>2, CutsAreChained
  <2>3. Guide(text) = Slice(text, cuts[1].from, cuts[N].to)
    <3> HIDE DEF cuts
    <3> QED
      BY <1>2, <2>2, ChainReads
  <2> HIDE DEF cuts
  <2>4. /\ N \in Nat /\ N > 0 /\ cuts[1].from \in Nat /\ cuts[N].to \in Nat
        /\ cuts[1].from \in Ink(text) /\ cuts[N].to - 1 \in Ink(text)
        /\ \A i \in Ink(text) : cuts[1].from <= i /\ i < cuts[N].to
    <3>1. cuts \in Seq(Piece) /\ N \in Nat /\ N > 0 /\ 1 \in 1..N /\ N \in 1..N
      BY <2>2 DEF Chained
    <3>2. cuts[1] \in Piece /\ cuts[N] \in Piece
      BY <3>1
    <3>3. \A i \in Ink(text) : 0 <= i
      BY <1>1
    <3> QED
      BY <2>2, <3>1, <3>2, <3>3 DEF Chained, Piece
  <2>5. /\ whole.from \in Ink(text) /\ whole.to \in Nat /\ whole.to - 1 \in Ink(text)
        /\ \A i \in Ink(text) : whole.from <= i /\ i < whole.to
    <3>1. Ink(text) \cap 0..(Len(text) - 1) # {} /\ 0 \in Nat /\ Len(text) \in 0..Len(text)
      BY <1>1, <1>4
    <3>2. /\ whole.from \in Ink(text) /\ whole.to \in Nat /\ whole.to - 1 \in Ink(text)
          /\ \A i \in Ink(text) : 0 <= i /\ i < Len(text) => whole.from <= i /\ i < whole.to
      BY <3>1, TrimOf
    <3> HIDE DEF whole
    <3> QED
      BY <1>1, <3>2
  <2> DEFINE a == cuts[1].from
             b == cuts[N].to
             c == whole.from
             d == whole.to
  <2>6. a = c /\ b = d
    <3>1. /\ a \in Nat /\ b \in Nat /\ c \in Nat /\ d \in Nat
          /\ a <= c /\ c <= a /\ d - 1 < b /\ b - 1 < d
      BY <1>1, <2>4, <2>5
    <3> HIDE DEF a, b, c, d
    <3> QED
      BY <3>1
  <2>7. Trimmed(text) = Slice(text, whole.from, whole.to)
    BY <1>4 DEF Trimmed
  <2> QED
    BY <2>3, <2>6, <2>7
<1> QED
  BY <1>3, <1>4

-----------------------------------------------------------------------------
(* What uploads, failures and retries make of it.                          *)

(* A search can cite every letter of a READY document, unless a removal or *)
(* a second retry disturbed it: cutting leaves out no letter, and indexing *)
(* no chunk.                                                               *)
THEOREM Searchable == Spec => []ReadyIsSearchable
<1>1. ASSUME IInv PROVE ReadyIsSearchable
  <2> SUFFICES ASSUME NEW d \in Docs, doc[d].status = "READY", d \notin disturbed,
                      NEW i \in Ink(doc[d].content)
               PROVE  \E p \in Retrievable :
                        p[1] = d /\ LET chunk == ChunksOf[doc[d].content][p[2]]
                                   IN chunk.from <= i /\ i < chunk.to
    BY DEF ReadyIsSearchable
  <2> DEFINE text == doc[d].content
  <2>1. text \in Contents /\ doc[d].chunked /\ Indexed(d, Len(ChunksOf[text]))
    BY <1>1 DEF IInv, DocInv
  <2>2. ChunksOf[text] = Chunks(text)
    BY <2>1 DEF ChunksOf
  <2>3. PICK k \in 1..Len(Chunks(text)) : LET chunk == Chunks(text)[k]
                                         IN chunk.from <= i /\ i < chunk.to
    <3>1. text \in Seq(Nat)
      BY <2>1, KnowledgeAssumption
    <3>2. Covered(text)
      BY <3>1, Cutting
    <3> QED
      BY <3>2 DEF Covered, Holds
  <2>4. <<d, k>> \in point
    BY <2>1, <2>2, <2>3 DEF Indexed
  <2>5. <<d, k>> \in Retrievable
    BY <2>1, <2>4 DEF Retrievable
  <2> QED
    BY <2>2, <2>3, <2>5
<1> QED
  BY <1>1, Invariance, PTL

(* What the reader's page shows of a stored document is its text, as long  *)
(* as the text says nothing twice.                                         *)
THEOREM ReadsAsText == Spec => []GuidesReadAsText
<1>1. Misread = {}
  <2>1. ASSUME NEW text \in Texts \cup Contents, Plain(text)
        PROVE  Guide(text) = Trimmed(text)
    <3>1. text \in Seq(Nat)
      BY KnowledgeAssumption
    <3> QED
      BY <2>1, <3>1, Reading
  <2> QED
    BY <2>1 DEF Misread
<1>2. ASSUME IInv PROVE GuidesReadAsText
  BY <1>1 DEF GuidesReadAsText
<1> QED
  BY <1>2, Invariance, PTL
=============================================================================
