---------------------------- MODULE CommonProofs ----------------------------
(***************************************************************************)
(* Facts cited by the proofs about several modules: about sums of finitely *)
(* many natural numbers, cited wherever a total is compared with what it   *)
(* is made of, and about loops.                                            *)
(***************************************************************************)
EXTENDS UnitSums, Integers, Sequences, FiniteSetTheorems, FunctionTheorems, WellFoundedInduction,
        TLAPS

(***************************************************************************)
(* Sums.                                                                   *)
(***************************************************************************)

\* The units of one wallet from number a + 1 to number b.
UnitRange(w, a, b) == {w} \X ((a + 1) .. b)

\* A range of units is as large as the interval of their numbers.
LEMMA UnitRangeSize ==
  ASSUME NEW w, NEW a \in Nat, NEW d \in Nat
  PROVE  /\ IsFiniteSet(UnitRange(w, a, a + d))
         /\ Cardinality(UnitRange(w, a, a + d)) = d
<1> DEFINE I == (a + 1) .. (a + d)
<1>1. IsFiniteSet(I) /\ Cardinality(I) = d
  BY FS_Interval
<1>2. IsFiniteSet({w}) /\ Cardinality({w}) = 1
  BY FS_Singleton
<1>3. /\ IsFiniteSet({w} \X I)
      /\ Cardinality({w} \X I) = Cardinality({w}) * Cardinality(I)
  BY <1>1, <1>2, FS_Product
<1> QED BY <1>1, <1>2, <1>3 DEF UnitRange

\* The units of finitely many wallets are finitely many.
LEMMA UnitsFinite ==
  ASSUME NEW S, IsFiniteSet(S), NEW f \in [S -> Nat]
  PROVE  IsFiniteSet(Units(f)) /\ SumOf(f) \in Nat
<1> DEFINE U(w) == {w} \X (1 .. f[w])
<1>1. ASSUME NEW w \in S PROVE IsFiniteSet(U(w))
  <2>1. U(w) = UnitRange(w, 0, 0 + f[w])
    BY DEF UnitRange
  <2> QED BY <2>1, UnitRangeSize
<1>2. IsFiniteSet({U(w) : w \in S})
  <2>1. {U(w) : w \in S} = {[x \in S |-> U(x)][w] : w \in S}
    OBVIOUS
  <2> DEFINE g == [x \in S |-> U(x)]
             T == {U(w) : w \in S}
  <2>2. g \in Surjection(S, T)
    BY DEF Surjection
  <2> QED BY <2>2, FS_Surjection
<1>3. IsFiniteSet(UNION {U(w) : w \in S})
  <2> DEFINE T == {U(w) : w \in S}
  <2>1. \A t \in T : IsFiniteSet(t)
    BY <1>1
  <2> HIDE DEF T
  <2>2. IsFiniteSet(UNION T)
    BY <1>2, <2>1, FS_UNION DEF T
  <2> QED BY <2>2 DEF T
<1>4. DOMAIN f = S
  OBVIOUS
<1> QED BY <1>3, <1>4, FS_CardinalityType DEF Units, SumOf

\* Crediting one entry raises the sum by the amount credited.
LEMMA SumAdd ==
  ASSUME NEW S, IsFiniteSet(S), NEW f \in [S -> Nat], NEW g \in [S -> Nat],
         NEW a \in S, NEW d \in Nat,
         g[a] = f[a] + d,
         \A w \in S \ {a} : g[w] = f[w]
  PROVE  SumOf(g) = SumOf(f) + d
<1> DEFINE D == UnitRange(a, f[a], f[a] + d)
<1>1. Units(g) = Units(f) \cup D
  <2>1. ASSUME NEW u PROVE u \in Units(g) <=> u \in Units(f) \cup D
    <3>1. u \in Units(g) <=> \E w \in S, i \in Nat : i \in 1 .. g[w] /\ u = <<w, i>>
      BY DEF Units
    <3>2. u \in Units(f) <=> \E w \in S, i \in Nat : i \in 1 .. f[w] /\ u = <<w, i>>
      BY DEF Units
    <3>3. u \in D <=> \E i \in (f[a] + 1) .. (f[a] + d) : u = <<a, i>>
      BY DEF UnitRange
    <3>4. 1 .. g[a] = (1 .. f[a]) \cup ((f[a] + 1) .. (f[a] + d))
      OBVIOUS
    <3> QED BY <3>1, <3>2, <3>3, <3>4
  <2> QED BY <2>1
<1>2. Units(f) \cap D = {}
  <2>1. ASSUME NEW u \in Units(f), u \in D PROVE FALSE
    <3>1. PICK w \in S, i \in Nat : i \in 1 .. f[w] /\ u = <<w, i>>
      BY <2>1 DEF Units
    <3>2. PICK j \in (f[a] + 1) .. (f[a] + d) : u = <<a, j>>
      BY <2>1 DEF UnitRange
    <3> QED BY <3>1, <3>2
  <2> QED BY <2>1
<1>3. IsFiniteSet(Units(f)) /\ SumOf(f) \in Nat
  BY UnitsFinite
<1>4. IsFiniteSet(D) /\ Cardinality(D) = d
  BY UnitRangeSize
<1>5. Cardinality(Units(f) \cup D)
        = Cardinality(Units(f)) + Cardinality(D) - Cardinality(Units(f) \cap D)
  BY <1>3, <1>4, FS_Union
<1>6. Cardinality(Units(f) \cap D) = 0
  BY <1>2, FS_EmptySet
<1> QED BY <1>1, <1>3, <1>4, <1>5, <1>6 DEF SumOf

\* Replacing one entry changes the sum by the difference.
LEMMA SumUpdate ==
  ASSUME NEW S, IsFiniteSet(S), NEW f \in [S -> Nat], NEW g \in [S -> Nat],
         NEW a \in S,
         \A w \in S \ {a} : g[w] = f[w]
  PROVE  /\ SumOf(f) \in Nat /\ SumOf(g) \in Nat
         /\ SumOf(g) + f[a] = SumOf(f) + g[a]
<1> DEFINE h == [f EXCEPT ![a] = 0]
<1>1. /\ h \in [S -> Nat]
      /\ f[a] \in Nat /\ g[a] \in Nat
      /\ g[a] = h[a] + g[a] /\ \A w \in S \ {a} : g[w] = h[w]
      /\ f[a] = h[a] + f[a] /\ \A w \in S \ {a} : f[w] = h[w]
  OBVIOUS
<1> HIDE DEF h
<1>2. SumOf(f) \in Nat /\ SumOf(g) \in Nat /\ SumOf(h) \in Nat
  BY <1>1, UnitsFinite
<1>3. SumOf(g) = SumOf(h) + g[a]
  BY <1>1, SumAdd
<1>4. SumOf(f) = SumOf(h) + f[a]
  BY <1>1, SumAdd
<1> QED BY <1>1, <1>2, <1>3, <1>4

\* One entry is at most the sum.
LEMMA SumBound ==
  ASSUME NEW S, IsFiniteSet(S), NEW f \in [S -> Nat], NEW a \in S
  PROVE  f[a] <= SumOf(f)
<1> DEFINE g == [f EXCEPT ![a] = 0]
<1>1. /\ g \in [S -> Nat] /\ g[a] = 0 /\ f[a] \in Nat
      /\ \A w \in S \ {a} : g[w] = f[w]
  OBVIOUS
<1> HIDE DEF g
<1>2. /\ SumOf(f) \in Nat /\ SumOf(g) \in Nat
      /\ SumOf(g) + f[a] = SumOf(f) + g[a]
  BY <1>1, SumUpdate
<1> QED BY <1>1, <1>2

\* Two different entries together are at most the sum.
LEMMA SumBounds ==
  ASSUME NEW S, IsFiniteSet(S), NEW f \in [S -> Nat],
         NEW a \in S, NEW b \in S, a # b
  PROVE  f[a] + f[b] <= SumOf(f)
<1> DEFINE g == [f EXCEPT ![a] = 0]
<1>1. /\ g \in [S -> Nat] /\ g[a] = 0 /\ g[b] = f[b]
      /\ f[a] \in Nat /\ f[b] \in Nat
      /\ \A w \in S \ {a} : g[w] = f[w]
  OBVIOUS
<1> HIDE DEF g
<1>2. /\ SumOf(f) \in Nat /\ SumOf(g) \in Nat
      /\ SumOf(g) + f[a] = SumOf(f) + g[a]
  BY <1>1, SumUpdate
<1>3. g[b] <= SumOf(g)
  BY <1>1, SumBound
<1> QED BY <1>1, <1>2, <1>3

\* Moving units from one entry to another leaves the sum alone.
LEMMA SumMove ==
  ASSUME NEW S, IsFiniteSet(S), NEW f \in [S -> Nat], NEW g \in [S -> Nat],
         NEW a \in S, NEW b \in S, a # b,
         g[a] + g[b] = f[a] + f[b],
         \A w \in S \ {a, b} : g[w] = f[w]
  PROVE  SumOf(g) = SumOf(f)
<1> DEFINE h == [f EXCEPT ![a] = g[a]]
<1>1. /\ h \in [S -> Nat] /\ h[a] = g[a] /\ h[b] = f[b]
      /\ f[a] \in Nat /\ f[b] \in Nat /\ g[a] \in Nat /\ g[b] \in Nat
      /\ \A w \in S \ {a} : h[w] = f[w]
      /\ \A w \in S \ {b} : g[w] = h[w]
  OBVIOUS
<1> HIDE DEF h
<1>2. /\ SumOf(f) \in Nat /\ SumOf(h) \in Nat
      /\ SumOf(h) + f[a] = SumOf(f) + h[a]
  BY <1>1, SumUpdate
<1>3. /\ SumOf(g) \in Nat
      /\ SumOf(g) + h[b] = SumOf(h) + g[b]
  BY <1>1, SumUpdate
<1> QED BY <1>1, <1>2, <1>3

\* A new entry raises the sum by its value.
LEMMA SumExtend ==
  ASSUME NEW S, IsFiniteSet(S), NEW a, a \notin S,
         NEW f \in [S -> Nat], NEW g \in [S \cup {a} -> Nat],
         \A w \in S : g[w] = f[w]
  PROVE  SumOf(f) \in Nat /\ SumOf(g) = SumOf(f) + g[a]
<1> DEFINE T == S \cup {a}
           h == [w \in T |-> IF w = a THEN 0 ELSE f[w]]
<1>1. IsFiniteSet(T) /\ a \in T
  BY FS_AddElement
<1>2. /\ h \in [T -> Nat] /\ g \in [T -> Nat] /\ g[a] \in Nat
      /\ g[a] = h[a] + g[a] /\ \A w \in T \ {a} : g[w] = h[w]
      /\ h[a] = 0 /\ \A w \in S : h[w] = f[w]
  OBVIOUS
<1>3. Units(h) = Units(f)
  <2>1. DOMAIN h = T /\ DOMAIN f = S
    OBVIOUS
  <2> HIDE DEF h
  <2>2. ASSUME NEW u PROVE u \in Units(h) <=> u \in Units(f)
    <3>1. u \in Units(h) <=> \E w \in T, i \in Nat : i \in 1 .. h[w] /\ u = <<w, i>>
      BY <1>2, <2>1 DEF Units
    <3>2. u \in Units(f) <=> \E w \in S, i \in Nat : i \in 1 .. f[w] /\ u = <<w, i>>
      BY <2>1 DEF Units
    <3>3. 1 .. h[a] = {}
      BY <1>2
    <3> QED BY <1>2, <3>1, <3>2, <3>3
  <2> QED BY <2>2
<1> HIDE DEF h, T
<1>4. SumOf(g) = SumOf(h) + g[a]
  BY <1>1, <1>2, SumAdd
<1>5. SumOf(f) \in Nat
  BY UnitsFinite
<1> QED BY <1>3, <1>4, <1>5 DEF SumOf

\* g is f, and one more.
Grown(S, a, T, f, g) ==
  /\ a \notin S /\ T = S \cup {a}
  /\ f \in [S -> Nat] /\ g \in [T -> Nat]
  /\ \A w \in S : g[w] = f[w]

\* A sum over one element more.
LEMMA SumGrows ==
  ASSUME NEW S, IsFiniteSet(S), NEW a, NEW T, NEW f, NEW g, Grown(S, a, T, f, g)
  PROVE  SumOf(g) = SumOf(f) + g[a]
BY SumExtend DEF Grown

\* A sum over a list with one element more.
LEMMA SumAppend ==
  ASSUME NEW n \in Nat, NEW f \in [1 .. n -> Nat], NEW g \in [1 .. n + 1 -> Nat],
         \A i \in 1 .. n : g[i] = f[i]
  PROVE  SumOf(g) = SumOf(f) + g[n + 1]
<1> DEFINE S == 1 .. n
           T == 1 .. n + 1
           a == n + 1
<1>1. IsFiniteSet(S)
  BY FS_Interval
<1>2. Grown(S, a, T, f, g)
  BY DEF Grown
<1> HIDE DEF S, T, a
<1>3. SumOf(g) = SumOf(f) + g[a]
  BY <1>1, <1>2, SumGrows
<1> QED BY <1>3 DEF a

\* Nothing but zeros sums up to zero.
LEMMA SumZero ==
  ASSUME NEW S
  PROVE  SumOf([w \in S |-> 0]) = 0
<1>1. Units([w \in S |-> 0]) = {}
  BY DEF Units
<1> QED BY <1>1, FS_EmptySet DEF SumOf

-----------------------------------------------------------------------------
(***************************************************************************)
(* Induction for the loops of the code.  A loop over a list is a function  *)
(* of the number of rounds done, each value made from the one before; what *)
(* holds after every round holds of the result.  The principle is stated   *)
(* for the set of the rounds after which a fact holds, and it rests on     *)
(* every nonempty set of numbers having a least element.                   *)
(***************************************************************************)

LEMMA LeastNumber ==
  ASSUME NEW T \in SUBSET Nat, T # {}
  PROVE  \E x \in T : \A y \in T : x <= y
<1>1. PICK x \in T : \A y \in T : ~(<<y, x>> \in OpToRel(<, Nat))
  BY NatLessThanWellFounded, WFMin
<1>2. \A y \in T : ~(y < x)
  BY <1>1 DEF OpToRel
<1> QED BY <1>2

LEMMA GreatestNumber ==
  ASSUME NEW n \in Nat, NEW T \in SUBSET (1 .. n), T # {}
  PROVE  \E x \in T : \A y \in T : y <= x
<1> DEFINE Mirror == {n - x : x \in T}
<1>1. Mirror \in SUBSET Nat /\ Mirror # {}
  <2>1. \A x \in T : n - x \in Nat
    OBVIOUS
  <2>2. PICK w \in T : TRUE
    OBVIOUS
  <2>3. n - w \in Mirror
    OBVIOUS
  <2> QED BY <2>1, <2>3
<1>2. PICK z \in Mirror : \A y \in Mirror : z <= y
  <2> HIDE DEF Mirror
  <2> QED BY <1>1, LeastNumber
<1>3. PICK x \in T : z = n - x
  OBVIOUS
<1>4. ASSUME NEW y \in T PROVE y <= x
  <2>1. z <= n - y
    BY <1>2
  <2> QED BY <1>3, <2>1
<1> QED BY <1>4

LEMMA InductionUpTo ==
  ASSUME NEW m \in Nat, NEW Good \in SUBSET (0 .. m), 0 \in Good,
         \A n \in 0 .. m : n # m /\ n \in Good => n + 1 \in Good
  PROVE  Good = 0 .. m
<1> DEFINE Bad == (0 .. m) \ Good
<1> SUFFICES ASSUME Bad # {} PROVE FALSE
  OBVIOUS
<1>1. Bad \in SUBSET Nat
  OBVIOUS
<1>2. PICK x \in Bad : \A y \in Bad : x <= y
  <2> HIDE DEF Bad
  <2> QED BY <1>1, LeastNumber
<1>3. x # 0 /\ x - 1 \in 0 .. m
  OBVIOUS
<1>4. x - 1 \in Good
  BY <1>2, <1>3
<1> QED BY <1>3, <1>4

\* The values of a loop of m rounds that stays within S, after each number of
\* rounds.
IsHistory(after, m, S, start, round) ==
  /\ after \in [0 .. m -> S]
  /\ after[0] = start
  /\ \A n \in 1 .. m : after[n] = round[n][after[n - 1]]

LEMMA LoopHistory ==
  ASSUME NEW m \in Nat, NEW S, NEW start \in S, NEW round \in [1 .. m -> [S -> S]]
  PROVE  \E after : IsHistory(after, m, S, start, round)
<1> DEFINE History(k, after) == IsHistory(after, k, S, start, round)
           Good == {k \in 0 .. m : \E after : History(k, after)}
<1>1. 0 \in Good
  <2>1. History(0, [n \in 0 .. 0 |-> start]) /\ 0 \in 0 .. m
    BY DEF IsHistory
  <2> HIDE DEF History
  <2> QED BY <2>1
<1>2. ASSUME NEW k \in 0 .. m, k # m, k \in Good
      PROVE  k + 1 \in Good
  <2>1. PICK after : History(k, after)
    BY <1>2
  <2>2. /\ k + 1 \in 1 .. m /\ k \in Nat /\ after \in [0 .. k -> S] /\ after[k] \in S
        /\ after[0] = start /\ \A n \in 1 .. k : after[n] = round[n][after[n - 1]]
    BY <1>2, <2>1 DEF IsHistory
  <2> DEFINE last == round[k + 1][after[k]]
             longer == [n \in 0 .. k + 1 |-> IF n = k + 1 THEN last ELSE after[n]]
  <2>3. round[k + 1] \in [S -> S]
    BY <2>2
  <2>4. last \in S
    BY <2>2, <2>3
  <2>5. \A n \in 1 .. k + 1 : longer[n] = round[n][longer[n - 1]]
    <3> SUFFICES ASSUME NEW n \in 1 .. k + 1 PROVE longer[n] = round[n][longer[n - 1]]
      OBVIOUS
    <3> HIDE DEF last
    <3>1. CASE n = k + 1
      <4>1. longer[n] = last /\ longer[n - 1] = after[k]
        BY <2>2, <3>1
      <4> QED BY <3>1, <4>1 DEF last
    <3>2. CASE n # k + 1
      BY <2>2, <3>2
    <3> QED BY <3>1, <3>2
  <2>6. longer \in [0 .. k + 1 -> S]
    <3> HIDE DEF last
    <3> QED BY <2>2, <2>4
  <2>7. longer[0] = start
    BY <2>2
  <2>8. History(k + 1, longer)
    <3> HIDE DEF longer
    <3> QED BY <2>5, <2>6, <2>7 DEF IsHistory
  <2> HIDE DEF History
  <2> QED BY <2>2, <2>8
<1>3. m \in Good
  <2> HIDE DEF Good
  <2>1. Good \in SUBSET (0 .. m)
    BY DEF Good
  <2>2. \A n \in 0 .. m : n # m /\ n \in Good => n + 1 \in Good
    BY <1>2
  <2>3. Good = 0 .. m
    BY <1>1, <2>1, <2>2, InductionUpTo
  <2> QED BY <2>3
<1> QED BY <1>3
=============================================================================
