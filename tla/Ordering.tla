------------------------------ MODULE Ordering -----------------------------
(***************************************************************************)
(* What ORDER BY and LIMIT make of a finite set of rows: the element with  *)
(* k - 1 others before it is the k-th, and the first n of a sequence.      *)
(* PublishedLayerProofs shows that this is the set in order.               *)
(***************************************************************************)
EXTENDS Integers, FiniteSets, Sequences

Ordered(S, before(_, _)) ==
  [k \in 1..Cardinality(S) |->
     CHOOSE x \in S : Cardinality({y \in S : before(y, x)}) = k - 1]

Take(s, n) == SubSeq(s, 1, IF Len(s) < n THEN Len(s) ELSE n)
=============================================================================
