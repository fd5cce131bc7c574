----------------------------- MODULE SeqFilter -----------------------------
(***************************************************************************)
(* The loops that pass over some elements of a sequence.                   *)
(***************************************************************************)
EXTENDS SequencesExt

\* The members of S in a sequence, in their order: SelectSeq with a set for
\* the test, as a fold that can be reasoned about.
Those(seq, S) == FoldLeft(LAMBDA kept, t : IF t \in S THEN Append(kept, t) ELSE kept, <<>>, seq)
=============================================================================
