------------------------------ MODULE Chunking ------------------------------
(***************************************************************************)
(* How a guide is cut into overlapping chunks (chunkMarkdown), which are   *)
(* what the assistant searches, and put together again for a reader        *)
(* (combineGuideSections).  A text is a sequence of characters; those that *)
(* are neither Space nor Newline are letters.  Positions count from 0, as  *)
(* in the code, and a chunk is a range of them: from included, to not.     *)
(***************************************************************************)
EXTENDS Integers, Sequences, FiniteSetsExt

CONSTANTS Size, Overlap,          \* CHUNK_SIZE, CHUNK_OVERLAP
          MinRepeat, MaxRepeat,   \* the overlaps that the reader's page looks for: 24, 300
          MaxChunks,              \* MAX_CHUNKS_PER_DOCUMENT
          MaxText                 \* MAX_KNOWLEDGE_TEXT_CHARACTERS

ASSUME ChunkingAssumption ==
  /\ Size \in Nat \ {0} /\ Overlap \in Nat
  /\ 2 * Overlap <= Size
  /\ MinRepeat \in Nat \ {0} /\ MaxRepeat \in Nat
  /\ MinRepeat <= Overlap /\ Overlap <= MaxRepeat
  /\ MaxChunks \in Nat /\ MaxText \in Nat

Space == 0
Newline == 1

At(text, i) == text[i + 1]
Slice(text, from, to) == SubSeq(text, from + 1, to)
Ink(text) == {i \in 0..(Len(text) - 1) : At(text, i) \notin {Space, Newline}}

\* trim, of the part between two positions with a letter in it
Trim(text, from, to) ==
  LET ink == Ink(text) \cap from..(to - 1)
  IN [from |-> Min(ink), to |-> Max(ink) + 1]

\* A chunk ends before the last line break of its second half, if it has one.
End(text, start) ==
  LET maxEnd == Min({start + Size, Len(text)})
      breaks == {i \in (start + Size \div 2 + 1)..maxEnd :
                   i < Len(text) /\ At(text, i) = Newline}
  IN IF maxEnd < Len(text) /\ breaks # {} THEN Max(breaks) ELSE maxEnd

\* (variant of NextStart) the character at the end is taken for a break
NextStartAfter(text, start, end) == end + 1

\* The next one goes back by the overlap, and begins at a letter.
NextStart(text, start, end) ==
  LET back == Max({end - Overlap, start + 1})
  IN Min({i \in Ink(text) : i >= back} \cup {Len(text)})

Chunks(text) ==
  LET from[start \in 0..Len(text)] ==
        LET end == End(text, start)
            chunk == IF Ink(text) \cap start..(end - 1) = {} THEN <<>>
                     ELSE <<Trim(text, start, end)>>
        IN IF start = Len(text) THEN <<>>
           ELSE IF end = Len(text) THEN chunk
           ELSE chunk \o from[NextStart(text, start, end)]
  IN from[0]

\* What an upload accepts: KnowledgeDocumentExtractor, then the chunk limit.
Acceptable(text) ==
  /\ Ink(text) # {}
  /\ Len(text) <= MaxText
  /\ Len(Chunks(text)) <= MaxChunks

-----------------------------------------------------------------------------
(* combineGuideSections                                                    *)

\* Lengths of an end of the guide that the next section begins with.
Repeats(guide, next) ==
  {n \in MinRepeat..Min({Len(guide), Len(next), MaxRepeat}) :
     SubSeq(guide, Len(guide) - n + 1, Len(guide)) = SubSeq(next, 1, n)}

Combine(guide, next) ==
  IF guide = <<>> THEN next
  ELSE IF Repeats(guide, next) = {} THEN guide \o <<Newline, Newline>> \o next
  ELSE guide \o SubSeq(next, Max(Repeats(guide, next)) + 1, Len(next))

Guide(text) ==
  LET chunks == Chunks(text)
      guide[n \in 0..Len(chunks)] ==
        IF n = 0 THEN <<>>
        ELSE Combine(guide[n - 1], Slice(text, chunks[n].from, chunks[n].to))
  IN guide[Len(chunks)]

\* The text without the blanks around it.
Trimmed(text) ==
  LET whole == Trim(text, 0, Len(text))
  IN IF Ink(text) = {} THEN <<>> ELSE Slice(text, whole.from, whole.to)

\* Texts that say nothing twice, and have no more blanks in a row than leave
\* an overlap long enough to be recognised.
Plain(text) ==
  /\ \A i, j \in 1..(Len(text) - MinRepeat + 1) :
       SubSeq(text, i, i + MinRepeat - 1) = SubSeq(text, j, j + MinRepeat - 1) => i = j
  /\ LET blanks == (Overlap - MinRepeat) \div 2
     IN \A i \in 0..(Len(text) - blanks - 1) : i..(i + blanks) \cap Ink(text) # {}
=============================================================================
