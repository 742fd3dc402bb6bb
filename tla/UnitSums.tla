------------------------------ MODULE UnitSums ------------------------------
(***************************************************************************)
(* The sum of a function with natural values, as the number of its units:  *)
(* a wallet w that holds n units owns the pairs <<w, 1>> .. <<w, n>>.      *)
(* Counting a set needs no recursion, so facts about sums follow from      *)
(* facts about cardinalities.                                              *)
(***************************************************************************)
EXTENDS Integers, FiniteSets

Units(f) == UNION {{w} \X (1 .. f[w]) : w \in DOMAIN f}

SumOf(f) == Cardinality(Units(f))
=============================================================================
