--------------------------- MODULE MCReviewStore ---------------------------
(* Small instances of ReviewStore. *)
EXTENDS ReviewStore, TLC

CONSTANTS r1, r2, r3, MaxRows

Trio == {r1, r2, r3}
TrioUrgency == r1 :> 1 @@ r2 :> 2 @@ r3 :> 2
OnlyFirst == {r1}

\* Bounds the rows the offline evaluation files on its own.
RowBound == Cardinality(regressions) <= MaxRows
=============================================================================
