------------------------------ MODULE FHEUint ------------------------------
(***************************************************************************)
(* Plaintext semantics of the homomorphic operations the contracts call on *)
(* euint64 handles.  The TFHE library never reverts on a value: additions  *)
(* and subtractions wrap modulo 2^64, and a condition on an encrypted      *)
(* value can only select between two amounts.  Word stands for 2^64; the   *)
(* handle 0 (an uninitialised slot) reads as the amount 0.                 *)
(***************************************************************************)
EXTENDS Integers

CONSTANT Word     \* 2^64 in the code; every definition works for any positive width

ASSUME WordAssumption == Word \in Nat \ {0}

Amount == 0 .. Word - 1

\* TFHE.add
Add(a, b) == IF a + b < Word THEN a + b ELSE a + b - Word

\* TFHE.sub
Sub(a, b) == IF a >= b THEN a - b ELSE a - b + Word

\* TFHE.asEuint64 of a uint256: the low 64 bits.
AsEuint64(v) == v % Word

\* TFHE.select
Select(cond, a, b) == IF cond THEN a ELSE b

\* Token._clampedSub: 0 instead of a wrapped difference.
ClampedSub(lhs, rhs) == Select(lhs >= rhs, Sub(lhs, rhs), 0)

\* Mutant of SelectLeSub: the frozen part may be spent.
SelectLeAll(a, b, c) == Select(a <= b, a, 0)

\* Token._selectLeSub: a when a <= b - c, otherwise 0.  The difference wraps.
SelectLeSub(a, b, c) == Select(a <= Sub(b, c), a, 0)
=============================================================================
