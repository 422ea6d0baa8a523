---------------------------- MODULE MCKnowledge -----------------------------
(* An instance of Knowledge for TLC.                                       *)
EXTENDS Knowledge

CONSTANTS d1, d2, r1, r2

MCDocs == {d1, d2}
MCRequests == {r1, r2}

\* Two chunks, the first of which ends at a line break.
MCContents == {<<2, 3, 4, 5, 6, 7, Newline, 8, 9, 10>>}

\* Texts of one length with every choice of single blanks between their letters,
\* which are all different or come again after the given distance.
TextsOf(n, distance) ==
  LET Alone(shape) == \A i \in 2..(n - 2) : shape[i] = 2 \/ shape[i + 1] = 2
      Write(shape) == [i \in 1..n |-> IF i \in {1, n} \/ shape[i] = 2
                                      THEN 2 + (i % distance) ELSE shape[i]]
  IN {Write(shape) : shape \in {shape \in [2..(n - 1) -> {Space, Newline, 2}] : Alone(shape)}}

MCTexts == TextsOf(9, 9) \cup TextsOf(11, 7) \cup TextsOf(12, 12) \cup TextsOf(13, 13)
=============================================================================
