------------------------------ MODULE Knowledge -----------------------------
(***************************************************************************)
(* The knowledge documents of one workspace: knowledge.service.ts keeps a  *)
(* document and its chunks in PostgreSQL and a point for each chunk in a   *)
(* vector store, and nothing but the order of the awaited calls, one step  *)
(* each, keeps the two together.  A call that is reported to fail has had  *)
(* no effect.  Retrieval reads the points and then the rows of READY       *)
(* documents; it changes nothing.                                          *)
(***************************************************************************)
EXTENDS Chunking

CONSTANTS Docs,      \* ids of KnowledgeDocument rows
          Contents,  \* texts that are uploaded, which stand for their contentHash
          Texts,     \* texts on which cutting and combining are compared
          Requests,  \* uploads, retries and removals in flight at the same time
          None

ASSUME KnowledgeAssumption ==
  /\ None \notin Docs \cup Contents
  /\ Contents \cup Texts \subseteq Seq(Nat)

VARIABLES doc,       \* KnowledgeDocument rows; chunked: their chunks are stored
          point,     \* chunks that have a point in the vector store
          disturbed, \* ghost: documents a removal has touched, or two retries at once
          leaked,    \* ghost: documents whose last clean-up failed
          lost,      \* ghost: documents a request was lost over
          pc,
          call       \* the document of each request, and how far it has indexed

ghosts == <<disturbed, leaked, lost>>
vars == <<doc, point, disturbed, leaked, lost, pc, call>>

Doc == [status: {"ABSENT", "INDEXING", "READY", "FAILED", "REMOVED"},
        content: Contents \cup {None}, chunked: BOOLEAN]
NoDoc == [status |-> "ABSENT", content |-> None, chunked |-> FALSE]

ChunksOf == [c \in Contents |-> Chunks(c)]

PointsOf(d) == {d} \X (Nat \ {0})

Call == [doc: Docs \cup {None}, content: Contents \cup {None}, done: Nat,
         chunked: BOOLEAN]
NoCall == [doc |-> None, content |-> None, done |-> 0, chunked |-> FALSE]

Labels == {"idle", "duplicate", "create", "createMany", "index", "ready", "cleanup",
           "fail", "retry", "indexing", "removePoints", "removeRow"}

Goto(r, label) == pc' = [pc EXCEPT ![r] = label]
Continue(r, label) == Goto(r, label) /\ UNCHANGED call

Begin(r, label, c) ==
  /\ pc[r] = "idle"
  /\ Goto(r, label)
  /\ call' = [call EXCEPT ![r] = c]

Finish(r) ==
  /\ Goto(r, "idle")
  /\ call' = [call EXCEPT ![r] = NoCall]

Stored(d) == doc[d].status \in {"INDEXING", "READY", "FAILED"}

Init ==
  /\ doc = [d \in Docs |-> NoDoc]
  /\ point = {}
  /\ disturbed = {} /\ leaked = {} /\ lost = {}
  /\ pc = [r \in Requests |-> "idle"]
  /\ call = [r \in Requests |-> NoCall]

-----------------------------------------------------------------------------
(* upload                                                                  *)

Known(c) == \E d \in Docs : Stored(d) /\ doc[d].content = c

Upload(r, c) ==
  /\ Acceptable(c)
  /\ Begin(r, "duplicate", [NoCall EXCEPT !.content = c])
  /\ UNCHANGED <<doc, point, ghosts>>

FindDuplicate(r) ==
  /\ pc[r] = "duplicate"
  /\ IF Known(call[r].content) THEN Finish(r) ELSE Continue(r, "create")
  /\ UNCHANGED <<doc, point, ghosts>>

\* (variant of Insertable) the look-up is trusted
InsertableAlways(c) == TRUE

\* The unique index on workspace and contentHash.
Insertable(c) == ~Known(c)

Create(r) ==
  LET c == call[r].content
  IN /\ pc[r] = "create"
     /\ \/ /\ Insertable(c)
           /\ \E d \in Docs :
                /\ doc[d].status = "ABSENT"
                /\ doc' = [doc EXCEPT ![d] = [@ EXCEPT !.status = "INDEXING", !.content = c]]
                /\ call' = [call EXCEPT ![r].doc = d]
           /\ Goto(r, "createMany")
        \/ /\ ~Insertable(c) \/ \A d \in Docs : doc[d].status # "ABSENT"
           /\ Finish(r)
           /\ UNCHANGED doc
     /\ UNCHANGED <<point, ghosts>>

\* The chunks refer to the document.  An error is not caught here.
CreateChunks(r) ==
  LET d == call[r].doc
  IN /\ pc[r] = "createMany"
     /\ \/ /\ Stored(d)
           /\ doc' = [doc EXCEPT ![d].chunked = TRUE]
           /\ Continue(r, "index")
           /\ UNCHANGED lost
        \/ /\ lost' = lost \cup {d}
           /\ Finish(r)
           /\ UNCHANGED doc
     /\ UNCHANGED <<point, disturbed, leaked>>

-----------------------------------------------------------------------------
(* index, of upload and retry                                              *)

\* (variant of NextChunk) starts at the second chunk
NextChunkButFirst(done) == IF done = 0 THEN 2 ELSE done + 1

NextChunk(done) == done + 1

IndexChunk(r) ==
  LET d == call[r].doc
      k == NextChunk(call[r].done)
  IN /\ pc[r] = "index"
     /\ \/ /\ point' = point \cup {<<d, k>>}
           /\ call' = [call EXCEPT ![r].done = k]
           /\ Goto(r, IF k = Len(ChunksOf[call[r].content]) THEN "ready" ELSE "index")
        \/ Continue(r, "cleanup") /\ UNCHANGED point
     /\ UNCHANGED <<doc, ghosts>>

SetReady(r) ==
  LET d == call[r].doc
  IN /\ pc[r] = "ready"
     /\ \/ /\ Stored(d)
           /\ doc' = [doc EXCEPT ![d].status = "READY"]
           /\ Finish(r)
        \/ Continue(r, "cleanup") /\ UNCHANGED doc
     /\ UNCHANGED <<point, ghosts>>

\* (variants of CleanUp) only the chunk that failed is removed; the error of
\* the clean-up is not caught
CleanUpLast(r) ==
  LET d == call[r].doc
  IN /\ pc[r] = "cleanup"
     /\ \/ /\ point' = point \ {<<d, call[r].done + 1>>}
           /\ leaked' = leaked \ {d}
        \/ leaked' = leaked \cup {d} /\ UNCHANGED point
     /\ Continue(r, "fail")
     /\ UNCHANGED <<doc, disturbed, lost>>

CleanUpThrows(r) ==
  LET d == call[r].doc
  IN /\ pc[r] = "cleanup"
     /\ \/ /\ point' = point \ PointsOf(d)
           /\ leaked' = leaked \ {d}
           /\ Continue(r, "fail")
        \/ leaked' = leaked \cup {d} /\ UNCHANGED point /\ Finish(r)
     /\ UNCHANGED <<doc, disturbed, lost>>

\* The error of the clean-up itself is ignored.
CleanUp(r) ==
  LET d == call[r].doc
  IN /\ pc[r] = "cleanup"
     /\ \/ /\ point' = point \ PointsOf(d)
           /\ leaked' = leaked \ {d}
        \/ leaked' = leaked \cup {d} /\ UNCHANGED point
     /\ Continue(r, "fail")
     /\ UNCHANGED <<doc, disturbed, lost>>

SetFailed(r) ==
  LET d == call[r].doc
  IN /\ pc[r] = "fail"
     /\ \/ /\ Stored(d)
           /\ doc' = [doc EXCEPT ![d].status = "FAILED"]
           /\ UNCHANGED lost
        \/ lost' = lost \cup {d} /\ UNCHANGED doc
     /\ Finish(r)
     /\ UNCHANGED <<point, disturbed, leaked>>

-----------------------------------------------------------------------------
(* retry                                                                   *)

Retryable(d) == doc[d].status = "FAILED" /\ doc[d].chunked

\* A second retry may read FAILED before the first one has written.
Retry(r, d) ==
  /\ Retryable(d)
  /\ Begin(r, "retry", [NoCall EXCEPT !.doc = d, !.content = doc[d].content])
  /\ disturbed' = IF \E q \in Requests : call[q].doc = d /\ pc[q] \in {"retry", "indexing"}
                  THEN disturbed \cup {d} ELSE disturbed
  /\ UNCHANGED <<doc, point, leaked, lost>>

DeleteOldPoints(r) ==
  LET d == call[r].doc
  IN /\ pc[r] = "retry"
     /\ \/ /\ point' = point \ PointsOf(d)
           /\ leaked' = leaked \ {d}
        \/ UNCHANGED <<point, leaked>>
     /\ Continue(r, "indexing")
     /\ UNCHANGED <<doc, disturbed, lost>>

SetIndexing(r) ==
  LET d == call[r].doc
  IN /\ pc[r] = "indexing"
     /\ \/ /\ Stored(d)
           /\ doc' = [doc EXCEPT ![d].status = "INDEXING"]
           /\ Continue(r, "index")
        \/ Finish(r) /\ UNCHANGED doc
     /\ UNCHANGED <<point, ghosts>>

-----------------------------------------------------------------------------
(* remove: the points of the chunks it has read, then the row              *)

Remove(r, d) ==
  /\ Stored(d)
  /\ Begin(r, "removePoints", [NoCall EXCEPT !.doc = d, !.chunked = doc[d].chunked])
  /\ UNCHANGED <<doc, point, ghosts>>

RemovePoints(r) ==
  LET d == call[r].doc
  IN /\ pc[r] = "removePoints"
     /\ point' = IF call[r].chunked THEN point \ PointsOf(d) ELSE point
     /\ disturbed' = disturbed \cup {d}
     /\ Continue(r, "removeRow")
     /\ UNCHANGED <<doc, leaked, lost>>

\* The chunks go with the document.
RemoveRow(r) ==
  LET d == call[r].doc
  IN /\ pc[r] = "removeRow"
     /\ \/ Stored(d) /\ doc' = [doc EXCEPT ![d] = [NoDoc EXCEPT !.status = "REMOVED"]]
        \/ UNCHANGED doc
     /\ Finish(r)
     /\ UNCHANGED <<point, ghosts>>

-----------------------------------------------------------------------------
\* The instance stops, or an error is not caught.
Abort(r) ==
  /\ pc[r] # "idle"
  /\ lost' = IF call[r].doc = None THEN lost ELSE lost \cup {call[r].doc}
  /\ Finish(r)
  /\ UNCHANGED <<doc, point, disturbed, leaked>>

\* retrieve: what a search of the vector store may lead to.
Retrievable == {p \in point : doc[p[1]].status = "READY" /\ doc[p[1]].chunked}

Proceed(r) ==
  \/ FindDuplicate(r) \/ Create(r) \/ CreateChunks(r)
  \/ IndexChunk(r) \/ SetReady(r) \/ CleanUp(r) \/ SetFailed(r)
  \/ DeleteOldPoints(r) \/ SetIndexing(r)
  \/ RemovePoints(r) \/ RemoveRow(r)

Next ==
  \E r \in Requests :
    \/ \E c \in Contents : Upload(r, c)
    \/ \E d \in Docs : Retry(r, d) \/ Remove(r, d)
    \/ Proceed(r)
    \/ Abort(r)

\* Every awaited call returns, with a result or an error.
Spec == Init /\ [][Next]_vars /\ \A r \in Requests : WF_vars(Proceed(r))

-----------------------------------------------------------------------------
(* Properties                                                              *)

(* Rows, points and requests keep their shape, and no two documents of the *)
(* workspace have the same content.                                        *)
TypeOK ==
  /\ doc \in [Docs -> Doc]
  /\ \A d, e \in Docs : Stored(d) /\ Stored(e) /\ doc[d].content = doc[e].content => d = e
  /\ point \subseteq Docs \X (Nat \ {0})
  /\ disturbed \subseteq Docs /\ leaked \subseteq Docs /\ lost \subseteq Docs
  /\ pc \in [Requests -> Labels]
  /\ call \in [Requests -> Call]

(* Every letter of a READY document is in a chunk that a search can cite,  *)
(* however often its indexing failed and was retried, unless a removal     *)
(* stopped half-way or two retries ran at once.                            *)
ReadyIsSearchable ==
  \A d \in Docs : doc[d].status = "READY" /\ d \notin disturbed =>
    \A i \in Ink(doc[d].content) :
      \E p \in Retrievable :
        p[1] = d /\ LET chunk == ChunksOf[doc[d].content][p[2]]
                   IN chunk.from <= i /\ i < chunk.to

\* Texts that a reader does not find again in their chunks.
Misread == {text \in Texts \cup Contents : Plain(text) /\ Guide(text) # Trimmed(text)}

(* Cutting a guide loses nothing and taking away the overlaps of its       *)
(* chunks takes nothing else: a reader of a document finds every word      *)
(* once, in order, whichever of Texts it is (no step above looks into it), *)
(* as long as it says nothing twice: the page looks for the overlap by     *)
(* comparing, and a longer repetition is mistaken for it.                  *)
GuidesReadAsText == \A d \in Docs : doc[d].chunked => Misread = {}

(* A FAILED document has left nothing in the vector store, with the same   *)
(* exceptions, and unless the clean-up failed, too.                        *)
FailedIsClean ==
  \A d \in Docs : doc[d].status = "FAILED" /\ d \notin disturbed \cup leaked =>
    point \cap PointsOf(d) = {}

(* No document stays INDEXING, where it can be neither used nor retried,   *)
(* unless the request that indexed it was lost.                            *)
IndexingEnds ==
  \A d \in Docs : doc[d].status = "INDEXING" ~> doc[d].status # "INDEXING" \/ d \in lost
=============================================================================
