----------------------------- MODULE Selection ------------------------------
(***************************************************************************)
(* SelectSeq by a set instead of a test, with a recursive function: the    *)
(* prover neither expands SelectSeq nor instantiates facts about tests.    *)
(***************************************************************************)
EXTENDS Naturals, Sequences

\* the elements of s that are in S, in their order
Only(s, S) ==
  LET picked[i \in 0..Len(s)] ==
        IF i = 0 THEN <<>>
        ELSE IF s[i] \in S THEN Append(picked[i - 1], s[i]) ELSE picked[i - 1]
  IN picked[Len(s)]
=============================================================================
