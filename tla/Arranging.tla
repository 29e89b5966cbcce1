----------------------------- MODULE Arranging -----------------------------
(***************************************************************************)
(* Sets brought into an order, and parts of sequences.  Not by SortSeq and *)
(* SelectSeq: the provers have no rules for these.                         *)
(***************************************************************************)
EXTENDS Naturals, Sequences, FiniteSets

\* The members of a finite set as the total order R puts them.
Arranged(S, R) ==
  LET Following(n) == CHOOSE x \in S : Cardinality({y \in S : <<y, x>> \in R}) = n - 1
      placed[n \in 0..Cardinality(S)] ==
        IF n = 0 THEN <<>> ELSE Append(placed[n - 1], Following(n))
  IN placed[Cardinality(S)]

\* What is in seq at the places of S, in the order of seq.
Kept(seq, S) ==
  LET kept[n \in 0..Len(seq)] ==
        IF n = 0 THEN <<>>
        ELSE IF n \in S THEN Append(kept[n - 1], seq[n]) ELSE kept[n - 1]
  IN kept[Len(seq)]

=============================================================================
