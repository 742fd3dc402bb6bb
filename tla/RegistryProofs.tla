--------------------------- MODULE RegistryProofs ---------------------------
(***************************************************************************)
(* Proofs about Registry, for any identities, issuers, topics, registries  *)
(* and storages: the two lists that swap and pop keeps beside a mapping,   *)
(* the claims of a topic and the registries of a storage; and the index of *)
(* issuers by topic, which is kept beside the topics of each issuer with   *)
(* lists that may repeat an entry, so that what is compared is how often   *)
(* each list mentions it.                                                  *)
(***************************************************************************)
EXTENDS Registry, CommonProofs, FiniteSetTheorems, TLAPS

(***************************************************************************)
(* Lists without repetition.                                               *)
(***************************************************************************)

\* A new entry at the end.
LEMMA Appended ==
  ASSUME NEW S, NEW list \in Seq(S), NEW e \in S, e \notin Range(list), IsInjective(list)
  PROVE  /\ Append(list, e) \in Seq(S)
         /\ Range(Append(list, e)) = Range(list) \cup {e}
         /\ IsInjective(Append(list, e))
<1> DEFINE n == Len(list)
           longer == Append(list, e)
<1>1. longer \in Seq(S) /\ DOMAIN longer = 1 .. n + 1 /\ DOMAIN list = 1 .. n /\ n \in Nat
  OBVIOUS
<1>2. /\ \A k \in 1 .. n : longer[k] = list[k]
      /\ longer[n + 1] = e
  OBVIOUS
<1> HIDE DEF longer, n
<1>3. Range(longer) = Range(list) \cup {e}
  <2>1. ASSUME NEW k \in 1 .. n + 1
        PROVE  longer[k] \in Range(list) \cup {e}
    BY <1>1, <1>2 DEF Range
  <2>2. ASSUME NEW k \in 1 .. n
        PROVE  list[k] \in Range(longer)
    BY <1>1, <1>2 DEF Range
  <2>3. e \in Range(longer)
    BY <1>1, <1>2 DEF Range
  <2> QED BY <1>1, <2>1, <2>2, <2>3 DEF Range
<1>4. IsInjective(longer)
  BY <1>1, <1>2 DEF IsInjective, Range
<1> QED BY <1>1, <1>3, <1>4 DEF longer

\* The last entry takes the place of the one that is struck; a list that does
\* not have the entry stays as it is.
LEMMA Popped ==
  ASSUME NEW S, NEW list \in Seq(S), NEW e, IsInjective(list)
  PROVE  /\ SwapAndPop(list, e) \in Seq(S)
         /\ Range(SwapAndPop(list, e)) = Range(list) \ {e}
         /\ IsInjective(SwapAndPop(list, e))
<1> DEFINE n == Len(list)
           found == {p \in DOMAIN list : list[p] = e}
           shorter == SwapAndPop(list, e)
<1>1. n \in Nat /\ DOMAIN list = 1 .. n /\ \A k \in 1 .. n : list[k] \in S
  OBVIOUS
<1>2. \A j, k \in 1 .. n : list[j] = list[k] => j = k
  BY <1>1 DEF IsInjective
<1>3. CASE found = {}
  <2>1. shorter = list
    BY <1>3 DEF SwapAndPop
  <2>2. e \notin Range(list)
    BY <1>1, <1>3 DEF Range
  <2> QED BY <2>1, <2>2
<1>4. CASE found # {}
  <2>1. PICK p \in 1 .. n : list[p] = e
    BY <1>1, <1>4
  <2>2. found = {p}
    BY <1>1, <1>2, <2>1
  <2>3. (CHOOSE x \in found : \A q \in found : x <= q) = p
    BY <1>1, <2>1, <2>2
  <2>4. shorter = [k \in 1 .. n - 1 |-> IF k = p THEN list[n] ELSE list[k]]
    BY <1>4, <2>3 DEF SwapAndPop, Last
  <2>5. n - 1 \in Nat
    BY <1>1, <2>1
  <2>6. \A k \in 1 .. n - 1 : (IF k = p THEN list[n] ELSE list[k]) \in S
    BY <1>1, <2>1
  <2> HIDE DEF shorter, n, found
  <2>7. shorter \in Seq(S) /\ DOMAIN shorter = 1 .. n - 1
    BY <2>4, <2>5, <2>6
  <2>8. \A k \in 1 .. n - 1 : shorter[k] = IF k = p THEN list[n] ELSE list[k]
    BY <2>4
  <2>9. Range(shorter) = Range(list) \ {e}
    <3>1. ASSUME NEW k \in 1 .. n - 1
          PROVE  shorter[k] \in Range(list) \ {e}
      BY <1>1, <1>2, <2>1, <2>8 DEF Range
    <3>2. ASSUME NEW k \in 1 .. n, list[k] # e
          PROVE  list[k] \in Range(shorter)
      <4>1. CASE k = n
        <5>1. p \in 1 .. n - 1 /\ shorter[p] = list[k]
          BY <1>1, <2>1, <2>8, <3>2, <4>1
        <5> QED BY <2>7, <5>1 DEF Range
      <4>2. CASE k # n
        <5>1. k \in 1 .. n - 1 /\ shorter[k] = list[k]
          BY <1>1, <2>1, <2>8, <3>2, <4>2
        <5> QED BY <2>7, <5>1 DEF Range
      <4> QED BY <4>1, <4>2
    <3>3. Range(shorter) \subseteq Range(list) \ {e}
      BY <2>7, <3>1 DEF Range
    <3>4. Range(list) \ {e} \subseteq Range(shorter)
      BY <1>1, <3>2 DEF Range
    <3> QED BY <3>3, <3>4
  <2>10. IsInjective(shorter)
    <3>1. ASSUME NEW q \in 1 .. n - 1, NEW r \in 1 .. n - 1, shorter[q] = shorter[r]
          PROVE  q = r
      BY <1>1, <1>2, <2>1, <2>8, <3>1
    <3> QED BY <2>7, <3>1 DEF IsInjective
  <2> QED BY <2>7, <2>9, <2>10 DEF shorter
<1> QED BY <1>3, <1>4

\* Striking an entry leaves a list over the same set, repetitions or not.
LEMMA PoppedType ==
  ASSUME NEW S, NEW list \in Seq(S), NEW e
  PROVE  SwapAndPop(list, e) \in Seq(S)
<1> DEFINE n == Len(list)
           found == {p \in DOMAIN list : list[p] = e}
           first == CHOOSE x \in found : \A q \in found : x <= q
<1>1. n \in Nat /\ DOMAIN list = 1 .. n /\ \A k \in 1 .. n : list[k] \in S
  OBVIOUS
<1>2. CASE found = {}
  BY <1>2 DEF SwapAndPop
<1>3. CASE found # {}
  <2>1. n - 1 \in Nat /\ list[n] \in S
    BY <1>1, <1>3
  <2>2. SwapAndPop(list, e) = [k \in 1 .. n - 1 |-> IF k = first THEN list[n] ELSE list[k]]
    BY <1>3 DEF SwapAndPop, Last
  <2> HIDE DEF first, found, n
  <2>3. \A k \in 1 .. n - 1 : (IF k = first THEN list[n] ELSE list[k]) \in S
    BY <1>1, <2>1
  <2> QED BY <2>1, <2>2, <2>3
<1> QED BY <1>2, <1>3

(***************************************************************************)
(* How often a list mentions an entry.                                     *)
(***************************************************************************)

LEMMA Positions ==
  ASSUME NEW S, NEW list \in Seq(S), NEW e
  PROVE  /\ IsFiniteSet({p \in DOMAIN list : list[p] = e})
         /\ Mentions(list, e) \in Nat
         /\ e \in Range(list) <=> Mentions(list, e) > 0
<1> DEFINE P == {p \in DOMAIN list : list[p] = e}
<1>1. P \in SUBSET (1 .. Len(list)) /\ Len(list) \in Nat
  OBVIOUS
<1>2. IsFiniteSet(P)
  BY <1>1, FS_Interval, FS_Subset
<1>3. Cardinality(P) \in Nat /\ (Cardinality(P) = 0 <=> P = {})
  BY <1>2, FS_CardinalityType, FS_EmptySet
<1>4. e \in Range(list) <=> P # {}
  BY DEF Range
<1> HIDE DEF P
<1>5. e \in Range(list) <=> Cardinality(P) > 0
  BY <1>3, <1>4
<1> QED BY <1>2, <1>3, <1>5 DEF P, Mentions

LEMMA MentionsAppended ==
  ASSUME NEW S, NEW list \in Seq(S), NEW e \in S, NEW x
  PROVE  Mentions(Append(list, e), x) = Mentions(list, x) + (IF x = e THEN 1 ELSE 0)
<1> DEFINE n == Len(list)
           longer == Append(list, e)
           P == {p \in DOMAIN list : list[p] = x}
           Q == {p \in DOMAIN longer : longer[p] = x}
<1>1. /\ DOMAIN longer = 1 .. n + 1 /\ DOMAIN list = 1 .. n /\ n \in Nat
      /\ longer[n + 1] = e /\ \A k \in 1 .. n : longer[k] = list[k]
  OBVIOUS
<1> HIDE DEF longer, n
<1>2. n + 1 \notin P /\ Q = IF x = e THEN P \cup {n + 1} ELSE P
  BY <1>1
<1>3. IsFiniteSet(P) /\ Cardinality(P) \in Nat
  BY Positions DEF Mentions
<1> HIDE DEF P, Q
<1>4. Cardinality(P \cup {n + 1}) = Cardinality(P) + 1
  <2> DEFINE k == n + 1
  <2>1. k \notin P
    BY <1>2
  <2> HIDE DEF k
  <2>2. Cardinality(P \cup {k}) = Cardinality(P) + 1
    BY <1>3, <2>1, FS_AddElement
  <2> QED BY <2>2 DEF k
<1>5. Cardinality(Q) = Cardinality(P) + (IF x = e THEN 1 ELSE 0)
  BY <1>2, <1>3, <1>4
<1> QED BY <1>5 DEF Mentions, P, Q, longer

\* Swap and pop takes out one mention and leaves the others.
LEMMA MentionsPopped ==
  ASSUME NEW S, NEW list \in Seq(S), NEW e, NEW x
  PROVE  Mentions(SwapAndPop(list, e), x)
           = Mentions(list, x) - (IF x = e /\ e \in Range(list) THEN 1 ELSE 0)
<1> DEFINE n == Len(list)
           shorter == SwapAndPop(list, e)
           found == {p \in DOMAIN list : list[p] = e}
           first == CHOOSE p \in found : \A q \in found : p <= q
           P == {p \in DOMAIN list : list[p] = x}
           Q == {p \in DOMAIN shorter : shorter[p] = x}
<1>1. DOMAIN list = 1 .. n /\ n \in Nat
  OBVIOUS
<1>2. IsFiniteSet(P) /\ Cardinality(P) \in Nat
  BY Positions DEF Mentions
<1>3. CASE found = {}
  <2>1. shorter = list /\ e \notin Range(list)
    BY <1>1, <1>3 DEF SwapAndPop, Range
  <2> HIDE DEF shorter
  <2> QED BY <1>2, <2>1 DEF shorter, Mentions
<1>4. CASE found # {}
  <2>1. first \in found /\ \A q \in found : first <= q
    <3>1. \E p \in found : \A q \in found : p <= q
      <4>1. found \in SUBSET Nat
        BY <1>1
      <4> HIDE DEF found
      <4> QED BY <1>4, <4>1, LeastNumber
    <3> HIDE DEF found
    <3> QED BY <3>1
  <2>2. shorter = [k \in 1 .. n - 1 |-> IF k = first THEN list[n] ELSE list[k]]
    BY <1>4 DEF SwapAndPop, Last
  <2>3. first \in 1 .. n /\ list[first] = e /\ e \in Range(list) /\ n - 1 \in Nat
    BY <1>1, <2>1 DEF Range
  <2> HIDE DEF shorter, found, first, n
  <2>4. /\ DOMAIN shorter = 1 .. n - 1
        /\ \A k \in 1 .. n - 1 : shorter[k] = IF k = first THEN list[n] ELSE list[k]
    BY <2>2
  <2>5. CASE x # e
    <3>1. CASE list[n] # x
      <4>1. Q = P
        BY <1>1, <2>3, <2>4, <2>5, <3>1
      <4>2. Cardinality(Q) = Cardinality(P)
        BY <4>1
      <4> HIDE DEF P, Q
      <4>3. Cardinality(Q) = Cardinality(P) - (IF x = e /\ e \in Range(list) THEN 1 ELSE 0)
        BY <1>2, <2>5, <4>2
      <4> QED BY <4>3 DEF Mentions, P, Q, shorter
    <3>2. CASE list[n] = x
      <4>1. first # n /\ first \notin P /\ n \in P /\ Q = (P \ {n}) \cup {first}
        BY <1>1, <2>3, <2>4, <2>5, <3>2
      <4> HIDE DEF P, Q
      <4>2. /\ IsFiniteSet(P \ {n}) /\ Cardinality(P \ {n}) = Cardinality(P) - 1
            /\ first \notin P \ {n}
        BY <1>2, <4>1, FS_RemoveElement
      <4> DEFINE rest == P \ {n}
      <4>3. IsFiniteSet(rest) /\ first \notin rest /\ Cardinality(rest) = Cardinality(P) - 1
        BY <4>2
      <4> HIDE DEF rest
      <4>4. Cardinality(rest \cup {first}) = Cardinality(rest) + 1
        BY <4>3, FS_AddElement
      <4>5. Q = rest \cup {first}
        BY <4>1 DEF rest
      <4>6. Cardinality(Q) = Cardinality(P) - (IF x = e /\ e \in Range(list) THEN 1 ELSE 0)
        BY <1>2, <2>5, <4>3, <4>4, <4>5
      <4> QED BY <4>6 DEF Mentions, P, Q, shorter
    <3> QED BY <3>1, <3>2
  <2>6. CASE x = e
    <3>1. \E p \in P : Q = P \ {p}
      <4>1. CASE list[n] = e
        <5>1. n \in P /\ Q = P \ {n}
          BY <1>1, <2>3, <2>4, <2>6, <4>1
        <5> QED BY <5>1
      <4>2. CASE list[n] # e
        <5>1. first \in P /\ Q = P \ {first}
          BY <1>1, <2>3, <2>4, <2>6, <4>2
        <5> QED BY <5>1
      <4> QED BY <4>1, <4>2
    <3> HIDE DEF P, Q
    <3>2. Cardinality(Q) = Cardinality(P) - 1
      BY <1>2, <3>1, FS_RemoveElement
    <3> QED BY <2>3, <2>6, <3>2 DEF Mentions, P, Q, shorter
  <2> QED BY <2>5, <2>6
<1> QED BY <1>3, <1>4

LEMMA PoppedLength ==
  ASSUME NEW S, NEW list \in Seq(S), NEW e
  PROVE  Len(SwapAndPop(list, e)) <= Len(list)
<1> DEFINE n == Len(list)
           found == {p \in DOMAIN list : list[p] = e}
           first == CHOOSE p \in found : \A q \in found : p <= q
<1>1. n \in Nat /\ DOMAIN list = 1 .. n
  OBVIOUS
<1>2. CASE found = {}
  BY <1>1, <1>2 DEF SwapAndPop
<1>3. CASE found # {}
  <2>1. n - 1 \in Nat
    BY <1>1, <1>3
  <2>2. SwapAndPop(list, e) = [k \in 1 .. n - 1 |-> IF k = first THEN list[n] ELSE list[k]]
    BY <1>3 DEF SwapAndPop, Last
  <2> HIDE DEF first, found, n
  <2> QED BY <2>1, <2>2 DEF n
<1> QED BY <1>2, <1>3

\* The mentions among the first n entries.
Named(list, n, e) == Cardinality({p \in 1 .. n : list[p] = e})

LEMMA NamedSteps ==
  ASSUME NEW S, NEW list \in Seq(S), NEW e
  PROVE  /\ Named(list, 0, e) = 0
         /\ Named(list, Len(list), e) = Mentions(list, e)
         /\ \A n \in 0 .. Len(list) : Named(list, n, e) \in Nat
         /\ \A n \in 0 .. Len(list) : n # Len(list) =>
              Named(list, n + 1, e) = Named(list, n, e) + (IF list[n + 1] = e THEN 1 ELSE 0)
         /\ \A n \in 0 .. Len(list) : Named(list, n, e) <= Mentions(list, e)
<1> DEFINE P(n) == {p \in 1 .. n : list[p] = e}
           m == Len(list)
<1>1. m \in Nat /\ DOMAIN list = 1 .. m
  OBVIOUS
<1>2. Named(list, 0, e) = 0
  <2>1. P(0) = {}
    OBVIOUS
  <2> QED BY <2>1, FS_EmptySet DEF Named
<1>3. Named(list, m, e) = Mentions(list, e)
  BY <1>1 DEF Named, Mentions
<1>4. \A n \in 0 .. m : IsFiniteSet(P(n)) /\ Cardinality(P(n)) \in Nat
  <2> TAKE n \in 0 .. m
  <2>1. P(n) \in SUBSET (1 .. n) /\ n \in Int
    OBVIOUS
  <2>2. IsFiniteSet(1 .. n)
    BY <2>1, FS_Interval
  <2> HIDE DEF P
  <2> QED BY <2>1, <2>2, FS_Subset, FS_CardinalityType
<1>5. ASSUME NEW n \in 0 .. m, n # m
      PROVE  Named(list, n + 1, e) = Named(list, n, e) + (IF list[n + 1] = e THEN 1 ELSE 0)
  <2>1. P(n + 1) = (IF list[n + 1] = e THEN P(n) \cup {n + 1} ELSE P(n)) /\ n + 1 \notin P(n)
    BY <1>1
  <2>2. IsFiniteSet(P(n)) /\ Cardinality(P(n)) \in Nat
    BY <1>4
  <2> HIDE DEF P
  <2>3. Cardinality(P(n) \cup {n + 1}) = Cardinality(P(n)) + 1
    <3> DEFINE k == n + 1
               old == P(n)
    <3>1. k \notin old /\ IsFiniteSet(old)
      BY <2>1, <2>2
    <3> HIDE DEF k, old
    <3>2. Cardinality(old \cup {k}) = Cardinality(old) + 1
      BY <3>1, FS_AddElement
    <3> QED BY <3>2 DEF k, old
  <2>4. Cardinality(P(n + 1)) = Cardinality(P(n)) + (IF list[n + 1] = e THEN 1 ELSE 0)
    BY <2>1, <2>2, <2>3
  <2> QED BY <2>4 DEF Named, P
<1>6. ASSUME NEW n \in 0 .. m PROVE Named(list, n, e) <= Mentions(list, e)
  <2>1. P(n) \in SUBSET P(m)
    BY <1>1
  <2>2. IsFiniteSet(P(m))
    BY <1>1, <1>4
  <2> HIDE DEF P
  <2>3. Cardinality(P(n)) <= Cardinality(P(m))
    BY <2>1, <2>2, FS_Subset
  <2> QED BY <1>3, <2>3 DEF Named, P
<1>7. \A n \in 0 .. m : Named(list, n, e) \in Nat
  BY <1>4 DEF Named
<1> QED BY <1>2, <1>3, <1>5, <1>6, <1>7

(***************************************************************************)
(* The loops over the topics of a call.                                    *)
(***************************************************************************)
LEMMA OneListing ==
  ASSUME NEW index \in [Topics -> Seq(Issuers)], NEW t \in Topics, NEW issuer \in Issuers
  PROVE  /\ Listing(index, issuer, t) \in [Topics -> Seq(Issuers)]
         /\ \A u \in Topics, i \in Issuers :
              Mentions(Listing(index, issuer, t)[u], i)
                = Mentions(index[u], i) + (IF u = t /\ i = issuer THEN 1 ELSE 0)
<1> DEFINE list == Append(index[t], issuer)
<1>1. list \in Seq(Issuers) /\ Listing(index, issuer, t) = [index EXCEPT ![t] = list]
  BY DEF Listing
<1>2. \A i \in Issuers :
        Mentions(list, i) = Mentions(index[t], i) + (IF i = issuer THEN 1 ELSE 0)
  BY MentionsAppended
<1>3. \A u \in Topics, i \in Issuers : Mentions(index[u], i) \in Nat
  BY Positions
<1> HIDE DEF list
<1>4. \A u \in Topics : Listing(index, issuer, t)[u] = IF u = t THEN list ELSE index[u]
  BY <1>1
<1>5. Listing(index, issuer, t) \in [Topics -> Seq(Issuers)]
  BY <1>1
<1>6. ASSUME NEW u \in Topics, NEW i \in Issuers
      PROVE  Mentions(Listing(index, issuer, t)[u], i)
               = Mentions(index[u], i) + (IF u = t /\ i = issuer THEN 1 ELSE 0)
  BY <1>2, <1>3, <1>4
<1> QED BY <1>5, <1>6

ListedOnce(old, new, issuer, t) ==
  \A u \in Topics, i \in Issuers :
    Mentions(new[u], i) = Mentions(old[u], i) + (IF u = t /\ i = issuer THEN 1 ELSE 0)

LEMMA ListingOnce ==
  ASSUME NEW index \in [Topics -> Seq(Issuers)], NEW t \in Topics, NEW issuer \in Issuers
  PROVE  ListedOnce(index, Listing(index, issuer, t), issuer, t)
BY OneListing DEF ListedOnce

LEMMA OneStriking ==
  ASSUME NEW index \in [Topics -> Seq(Issuers)], NEW t \in Topics, NEW issuer \in Issuers
  PROVE  /\ Striking(index, issuer, t) \in [Topics -> Seq(Issuers)]
         /\ \A u \in Topics, i \in Issuers :
              Mentions(Striking(index, issuer, t)[u], i)
                = Mentions(index[u], i)
                    - (IF u = t /\ i = issuer /\ Mentions(index[u], i) > 0 THEN 1 ELSE 0)
<1> DEFINE list == SwapAndPop(index[t], issuer)
<1>1. Striking(index, issuer, t) = [index EXCEPT ![t] = list]
  BY DEF Striking
<1>2. list \in Seq(Issuers)
  BY PoppedType
<1>3. \A i \in Issuers : Mentions(list, i)
        = Mentions(index[t], i) - (IF i = issuer /\ issuer \in Range(index[t]) THEN 1 ELSE 0)
  BY MentionsPopped
<1>4. \A u \in Topics, i \in Issuers :
        Mentions(index[u], i) \in Nat /\ (i \in Range(index[u]) <=> Mentions(index[u], i) > 0)
  BY Positions
<1> HIDE DEF list
<1>5. \A u \in Topics : Striking(index, issuer, t)[u] = IF u = t THEN list ELSE index[u]
  BY <1>1
<1>6. Striking(index, issuer, t) \in [Topics -> Seq(Issuers)]
  BY <1>1, <1>2
<1>7. ASSUME NEW u \in Topics, NEW i \in Issuers
      PROVE  Mentions(Striking(index, issuer, t)[u], i)
               = Mentions(index[u], i)
                   - (IF u = t /\ i = issuer /\ Mentions(index[u], i) > 0 THEN 1 ELSE 0)
  <2>1. CASE u = t
    BY <1>3, <1>4, <1>5, <2>1
  <2>2. CASE u # t
    BY <1>4, <1>5, <2>2
  <2> QED BY <2>1, <2>2
<1> QED BY <1>6, <1>7

LEMMA EnlistedHistory ==
  ASSUME NEW index \in [Topics -> Seq(Issuers)], NEW issuer \in Issuers,
         NEW topics \in Seq(Topics)
  PROVE  \E after \in [0 .. Len(topics) -> [Topics -> Seq(Issuers)]] :
           /\ after[0] = index
           /\ \A n \in 1 .. Len(topics) : after[n] = Listing(after[n - 1], issuer, topics[n])
           /\ Enlisted(index, issuer, topics) = after[Len(topics)]
<1> DEFINE m == Len(topics)
           I == [Topics -> Seq(Issuers)]
           round == [n \in 1 .. m |-> [idx \in I |-> Listing(idx, issuer, topics[n])]]
<1>1. m \in Nat /\ index \in I /\ \A n \in 1 .. m : topics[n] \in Topics
  OBVIOUS
<1>2. \A idx \in I, t \in Topics : Listing(idx, issuer, t) \in I
  BY OneListing
<1> HIDE DEF I, m
<1>3. round \in [1 .. m -> [I -> I]]
  BY <1>1, <1>2
<1>4. PICK g : IsHistory(g, m, I, index, round)
  <2> HIDE DEF round
  <2> QED BY <1>1, <1>3, LoopHistory
<1>5. g \in [0 .. m -> I] /\ g[0] = index
  BY <1>4 DEF IsHistory
<1>6. \A n \in 1 .. m : g[n] = Listing(g[n - 1], issuer, topics[n])
  <2> TAKE n \in 1 .. m
  <2>1. n - 1 \in 0 .. m
    BY <1>1
  <2>2. g[n - 1] \in I
    BY <1>5, <2>1
  <2> QED BY <1>4, <2>2 DEF IsHistory
<1> DEFINE IsLoop(f) ==
             f = [n \in 0 .. m |-> IF n = 0 THEN index
                                   ELSE Listing(f[n - 1], issuer, topics[n])]
           after == CHOOSE f : IsLoop(f)
<1>7. IsLoop(g)
  BY <1>1, <1>5, <1>6
<1>8. IsLoop(after)
  <2> HIDE DEF IsLoop
  <2> QED BY <1>7
<1>9. Enlisted(index, issuer, topics) = after[m]
  BY Zenon DEF Enlisted, m
<1> HIDE DEF after
<1>10. /\ DOMAIN after = 0 .. m /\ after[0] = index
       /\ \A n \in 1 .. m : after[n] = Listing(after[n - 1], issuer, topics[n])
  BY <1>1, <1>8
<1> DEFINE Good == {n \in 0 .. m : after[n] \in I}
<1>11. ASSUME NEW n \in 0 .. m, n # m, n \in Good
       PROVE  n + 1 \in Good
  <2>1. n + 1 \in 1 .. m /\ n + 1 - 1 = n /\ after[n] \in I
    BY <1>1, <1>11
  <2>2. after[n + 1] = Listing(after[n], issuer, topics[n + 1]) /\ topics[n + 1] \in Topics
    BY <1>1, <1>10, <2>1
  <2>3. after[n + 1] \in I
    BY <1>2, <2>1, <2>2
  <2> QED BY <2>1, <2>3
<1>12. Good = 0 .. m
  <2>1. 0 \in Good /\ Good \in SUBSET (0 .. m)
    BY <1>1, <1>10
  <2> HIDE DEF Good
  <2> QED BY <1>1, <1>11, <2>1, InductionUpTo
<1>13. after \in [0 .. m -> I]
  BY <1>8, <1>12
<1> QED BY <1>9, <1>10, <1>13 DEF m, I

LEMMA StruckHistory ==
  ASSUME NEW index \in [Topics -> Seq(Issuers)], NEW issuer \in Issuers,
         NEW topics \in Seq(Topics)
  PROVE  \E after \in [0 .. Len(topics) -> [Topics -> Seq(Issuers)]] :
           /\ after[0] = index
           /\ \A n \in 1 .. Len(topics) : after[n] = Striking(after[n - 1], issuer, topics[n])
           /\ Struck(index, issuer, topics) = after[Len(topics)]
<1> DEFINE m == Len(topics)
           I == [Topics -> Seq(Issuers)]
           round == [n \in 1 .. m |-> [idx \in I |-> Striking(idx, issuer, topics[n])]]
<1>1. m \in Nat /\ index \in I /\ \A n \in 1 .. m : topics[n] \in Topics
  OBVIOUS
<1>2. \A idx \in I, t \in Topics : Striking(idx, issuer, t) \in I
  BY OneStriking
<1> HIDE DEF I, m
<1>3. round \in [1 .. m -> [I -> I]]
  BY <1>1, <1>2
<1>4. PICK g : IsHistory(g, m, I, index, round)
  <2> HIDE DEF round
  <2> QED BY <1>1, <1>3, LoopHistory
<1>5. g \in [0 .. m -> I] /\ g[0] = index
  BY <1>4 DEF IsHistory
<1>6. \A n \in 1 .. m : g[n] = Striking(g[n - 1], issuer, topics[n])
  <2> TAKE n \in 1 .. m
  <2>1. n - 1 \in 0 .. m
    BY <1>1
  <2>2. g[n - 1] \in I
    BY <1>5, <2>1
  <2> QED BY <1>4, <2>2 DEF IsHistory
<1> DEFINE IsLoop(f) ==
             f = [n \in 0 .. m |-> IF n = 0 THEN index
                                   ELSE Striking(f[n - 1], issuer, topics[n])]
           after == CHOOSE f : IsLoop(f)
<1>7. IsLoop(g)
  BY <1>1, <1>5, <1>6
<1>8. IsLoop(after)
  <2> HIDE DEF IsLoop
  <2> QED BY <1>7
<1>9. Struck(index, issuer, topics) = after[m]
  BY Zenon DEF Struck, m
<1> HIDE DEF after
<1>10. /\ DOMAIN after = 0 .. m /\ after[0] = index
       /\ \A n \in 1 .. m : after[n] = Striking(after[n - 1], issuer, topics[n])
  BY <1>1, <1>8
<1> DEFINE Good == {n \in 0 .. m : after[n] \in I}
<1>11. ASSUME NEW n \in 0 .. m, n # m, n \in Good
       PROVE  n + 1 \in Good
  <2>1. n + 1 \in 1 .. m /\ n + 1 - 1 = n /\ after[n] \in I
    BY <1>1, <1>11
  <2>2. after[n + 1] = Striking(after[n], issuer, topics[n + 1]) /\ topics[n + 1] \in Topics
    BY <1>1, <1>10, <2>1
  <2>3. after[n + 1] \in I
    BY <1>2, <2>1, <2>2
  <2> QED BY <2>1, <2>3
<1>12. Good = 0 .. m
  <2>1. 0 \in Good /\ Good \in SUBSET (0 .. m)
    BY <1>1, <1>10
  <2> HIDE DEF Good
  <2> QED BY <1>1, <1>11, <2>1, InductionUpTo
<1>13. after \in [0 .. m -> I]
  BY <1>8, <1>12
<1> QED BY <1>9, <1>10, <1>13 DEF m, I

\* Enlisting names the issuer once more for each mention of a topic.
LEMMA EnlistedMentions ==
  ASSUME NEW index \in [Topics -> Seq(Issuers)], NEW issuer \in Issuers,
         NEW topics \in Seq(Topics)
  PROVE  /\ Enlisted(index, issuer, topics) \in [Topics -> Seq(Issuers)]
         /\ \A t \in Topics, i \in Issuers :
              Mentions(Enlisted(index, issuer, topics)[t], i)
                = Mentions(index[t], i) + (IF i = issuer THEN Mentions(topics, t) ELSE 0)
<1> DEFINE m == Len(topics)
           I == [Topics -> Seq(Issuers)]
<1>1. PICK after \in [0 .. m -> I] :
        /\ after[0] = index
        /\ \A n \in 1 .. m : after[n] = Listing(after[n - 1], issuer, topics[n])
        /\ Enlisted(index, issuer, topics) = after[m]
  BY EnlistedHistory
<1>2. m \in Nat /\ \A n \in 1 .. m : topics[n] \in Topics
  OBVIOUS
<1>3. SUFFICES ASSUME NEW t \in Topics, NEW i \in Issuers
               PROVE  Mentions(after[m][t], i)
                        = Mentions(index[t], i) + (IF i = issuer THEN Mentions(topics, t) ELSE 0)
  BY <1>1, <1>2
<1> DEFINE Count(n) == IF i = issuer THEN Named(topics, n, t) ELSE 0
           Good == {n \in 0 .. m : Mentions(after[n][t], i) = Mentions(index[t], i) + Count(n)}
<1>4. /\ Count(0) = 0 /\ Count(m) = (IF i = issuer THEN Mentions(topics, t) ELSE 0)
      /\ \A n \in 0 .. m : Count(n) \in Nat
      /\ \A n \in 0 .. m : n # m =>
           Count(n + 1) = Count(n) + (IF i = issuer /\ topics[n + 1] = t THEN 1 ELSE 0)
  <2>1. CASE i = issuer
    <3>1. \A n : Count(n) = Named(topics, n, t)
      BY <2>1
    <3> HIDE DEF Count
    <3> QED BY <2>1, <3>1, NamedSteps
  <2>2. CASE i # issuer
    BY <2>2
  <2> QED BY <2>1, <2>2
<1>5. Mentions(index[t], i) \in Nat
  BY Positions
<1> HIDE DEF Count, I, m
<1>6. 0 \in Good
  BY <1>1, <1>2, <1>4, <1>5
<1>7. ASSUME NEW n \in 0 .. m, n # m, n \in Good
      PROVE  n + 1 \in Good
  <2>1. n + 1 \in 1 .. m /\ n + 1 \in 0 .. m /\ n + 1 - 1 = n
    BY <1>2, <1>7
  <2>2. after[n] \in [Topics -> Seq(Issuers)] /\ topics[n + 1] \in Topics
    BY <1>1, <1>2, <2>1 DEF I
  <2> DEFINE idx == after[n]
             u == topics[n + 1]
  <2>3. after[n + 1] = Listing(idx, issuer, u)
    BY <1>1, <2>1
  <2>4. Mentions(after[n + 1][t], i)
          = Mentions(after[n][t], i) + (IF t = topics[n + 1] /\ i = issuer THEN 1 ELSE 0)
    <3>1. idx \in [Topics -> Seq(Issuers)] /\ u \in Topics
      BY <2>2
    <3> HIDE DEF idx, u
    <3>2. Mentions(Listing(idx, issuer, u)[t], i)
            = Mentions(idx[t], i) + (IF t = u /\ i = issuer THEN 1 ELSE 0)
      <4>1. ListedOnce(idx, Listing(idx, issuer, u), issuer, u)
        BY <3>1, ListingOnce
      <4> QED BY <4>1 DEF ListedOnce
    <3> QED BY <2>3, <3>2 DEF idx, u
  <2>5. Mentions(after[n][t], i) = Mentions(index[t], i) + Count(n)
    BY <1>7
  <2>6. Mentions(after[n + 1][t], i) = Mentions(index[t], i) + Count(n + 1)
    BY <1>4, <1>5, <1>7, <2>4, <2>5
  <2> QED BY <2>1, <2>6
<1>8. m \in Good
  <2>1. Good \in SUBSET (0 .. m)
    OBVIOUS
  <2> HIDE DEF Good
  <2>2. Good = 0 .. m
    BY <1>2, <1>6, <1>7, <2>1, InductionUpTo
  <2> QED BY <1>2, <2>2
<1> QED BY <1>4, <1>8

\* Striking takes the issuer out once for each mention of a topic, as long as
\* there are that many mentions to take.
LEMMA StruckMentions ==
  ASSUME NEW index \in [Topics -> Seq(Issuers)], NEW issuer \in Issuers,
         NEW topics \in Seq(Topics),
         \A t \in Topics : Mentions(index[t], issuer) = Mentions(topics, t)
  PROVE  /\ Struck(index, issuer, topics) \in [Topics -> Seq(Issuers)]
         /\ \A t \in Topics, i \in Issuers :
              Mentions(Struck(index, issuer, topics)[t], i)
                = IF i = issuer THEN 0 ELSE Mentions(index[t], i)
<1> DEFINE m == Len(topics)
           I == [Topics -> Seq(Issuers)]
<1>1. PICK after \in [0 .. m -> I] :
        /\ after[0] = index
        /\ \A n \in 1 .. m : after[n] = Striking(after[n - 1], issuer, topics[n])
        /\ Struck(index, issuer, topics) = after[m]
  BY StruckHistory
<1>2. m \in Nat /\ \A n \in 1 .. m : topics[n] \in Topics
  OBVIOUS
<1>3. SUFFICES ASSUME NEW t \in Topics, NEW i \in Issuers
               PROVE  Mentions(after[m][t], i) = IF i = issuer THEN 0 ELSE Mentions(index[t], i)
  BY <1>1, <1>2
<1> DEFINE Count(n) == IF i = issuer THEN Named(topics, n, t) ELSE 0
           Good == {n \in 0 .. m : Mentions(after[n][t], i) + Count(n) = Mentions(index[t], i)}
<1>4. /\ Count(0) = 0 /\ (i = issuer => Count(m) = Mentions(index[t], i))
      /\ (i # issuer => Count(m) = 0)
      /\ \A n \in 0 .. m : Count(n) \in Nat /\ (i = issuer => Count(n) <= Mentions(index[t], i))
      /\ \A n \in 0 .. m : n # m =>
           Count(n + 1) = Count(n) + (IF i = issuer /\ topics[n + 1] = t THEN 1 ELSE 0)
  BY NamedSteps
<1>5. /\ Mentions(index[t], i) \in Nat
      /\ \A n \in 0 .. m : Mentions(after[n][t], i) \in Nat
  BY <1>1, Positions
<1> HIDE DEF Count, I, m
<1>6. 0 \in Good
  BY <1>1, <1>2, <1>4, <1>5
<1>7. ASSUME NEW n \in 0 .. m, n # m, n \in Good
      PROVE  n + 1 \in Good
  <2>1. n + 1 \in 1 .. m /\ n + 1 \in 0 .. m /\ n + 1 - 1 = n
    BY <1>2, <1>7
  <2>2. after[n] \in [Topics -> Seq(Issuers)] /\ topics[n + 1] \in Topics
    BY <1>1, <1>2, <2>1 DEF I
  <2> DEFINE idx == after[n]
             u == topics[n + 1]
  <2>3. after[n + 1] = Striking(idx, issuer, u)
    BY <1>1, <2>1
  <2>4. Mentions(after[n + 1][t], i)
          = Mentions(after[n][t], i)
              - (IF t = topics[n + 1] /\ i = issuer /\ Mentions(after[n][t], i) > 0
                 THEN 1 ELSE 0)
    <3>1. idx \in [Topics -> Seq(Issuers)] /\ u \in Topics
      BY <2>2
    <3> HIDE DEF idx, u
    <3>2. Mentions(Striking(idx, issuer, u)[t], i)
            = Mentions(idx[t], i)
                - (IF t = u /\ i = issuer /\ Mentions(idx[t], i) > 0 THEN 1 ELSE 0)
      BY <3>1, OneStriking
    <3> QED BY <2>3, <3>2 DEF idx, u
  <2>5. Mentions(after[n][t], i) + Count(n) = Mentions(index[t], i)
    BY <1>7
  <2>6. Mentions(after[n + 1][t], i) + Count(n + 1) = Mentions(index[t], i)
    <3>1. Count(n) \in Nat /\ Count(n + 1) \in Nat /\ Mentions(after[n][t], i) \in Nat
      BY <1>4, <1>5, <2>1
    <3>2. CASE i = issuer /\ topics[n + 1] = t
      <4>1. Count(n + 1) = Count(n) + 1 /\ Count(n + 1) <= Mentions(index[t], i)
        BY <1>4, <1>7, <2>1, <3>2
      <4>2. Mentions(after[n][t], i) > 0
        BY <1>5, <2>5, <3>1, <4>1
      <4>3. Mentions(after[n + 1][t], i) = Mentions(after[n][t], i) - 1
        BY <2>4, <3>2, <4>2
      <4> QED BY <1>5, <2>5, <3>1, <4>1, <4>3
    <3>3. CASE ~(i = issuer /\ topics[n + 1] = t)
      <4>1. Count(n + 1) = Count(n)
        BY <1>4, <1>7, <3>1, <3>3
      <4> QED BY <2>4, <2>5, <3>1, <3>3, <4>1
    <3> QED BY <3>2, <3>3
  <2> QED BY <2>1, <2>6
<1>8. m \in Good
  <2>1. Good \in SUBSET (0 .. m)
    OBVIOUS
  <2> HIDE DEF Good
  <2>2. Good = 0 .. m
    BY <1>2, <1>6, <1>7, <2>1, InductionUpTo
  <2> QED BY <1>2, <2>2
<1>9. Mentions(after[m][t], i) + Count(m) = Mentions(index[t], i) /\ m \in 0 .. m
  BY <1>2, <1>8
<1> QED BY <1>4, <1>5, <1>9

(***************************************************************************)
(* The invariant.  That the list of a topic names each claim once is       *)
(* inductive with the types of claims and lists: removal strikes only the  *)
(* first entry it finds, so it must be the only one.                       *)
(***************************************************************************)
BindingsTypeOK ==
  /\ linked \in [Storages -> Seq(Registries)]
  /\ storageAgents \in [Storages -> SUBSET Registries]

IInv == ClaimsTypeOK /\ ClaimsListed /\ BindingsTypeOK

LEMMA InitIInv == Init => IInv
<1> SUFFICES ASSUME Init PROVE IInv
  OBVIOUS
<1>1. ClaimsTypeOK
  BY DEF Init, ClaimsInit, ClaimsTypeOK
<1>2. ClaimsListed
  BY DEF Init, ClaimsInit, ClaimsListed, Range, IsInjective
<1>3. BindingsTypeOK
  BY DEF Init, RegistryInit, BindingsTypeOK
<1> QED BY <1>1, <1>2, <1>3 DEF IInv

\* A claim s under issuer and topic, and the list that goes with it.
LEMMA ClaimWritten ==
  ASSUME ClaimsTypeOK, ClaimsListed,
         NEW holder \in Identities, NEW issuer \in Issuers, NEW topic \in Topics,
         NEW s \in Signature \cup {NoSignature}, NEW list \in Seq(Issuers),
         IsInjective(list),
         Range(list) = IF s = NoSignature THEN Range(claimsByTopic[holder][topic]) \ {issuer}
                       ELSE Range(claimsByTopic[holder][topic]) \cup {issuer},
         claims' = [claims EXCEPT ![holder][<<issuer, topic>>] = s],
         claimsByTopic' = [claimsByTopic EXCEPT ![holder][topic] = list],
         UNCHANGED <<claimKeys, revoked, unresponsive>>
  PROVE  ClaimsTypeOK' /\ ClaimsListed'
<1>1. \A h \in Identities, i \in Issuers, t \in Topics :
        claims'[h][<<i, t>>] =
          IF h = holder /\ i = issuer /\ t = topic THEN s ELSE claims[h][<<i, t>>]
  BY DEF ClaimsTypeOK
<1>2. \A h \in Identities, t \in Topics :
        claimsByTopic'[h][t] = IF h = holder /\ t = topic THEN list ELSE claimsByTopic[h][t]
  BY DEF ClaimsTypeOK
<1>3. ClaimsTypeOK'
  <2>1. claims' \in [Identities -> [Issuers \X Topics -> Signature \cup {NoSignature}]]
    BY DEF ClaimsTypeOK
  <2>2. claimsByTopic' \in [Identities -> [Topics -> Seq(Issuers)]]
    BY DEF ClaimsTypeOK
  <2> QED BY <2>1, <2>2 DEF ClaimsTypeOK
<1>4. ASSUME NEW h \in Identities, NEW t \in Topics
      PROVE  /\ IsInjective(claimsByTopic'[h][t])
             /\ Range(claimsByTopic'[h][t]) = {i \in Issuers : claims'[h][<<i, t>>] # NoSignature}
  <2>1. CASE h = holder /\ t = topic
    <3>1. claimsByTopic'[h][t] = list
      BY <1>2, <2>1
    <3>2. \A i \in Issuers :
            claims'[h][<<i, t>>] = IF i = issuer THEN s ELSE claims[holder][<<i, topic>>]
      BY <1>1, <2>1
    <3>3. Range(claimsByTopic[holder][topic])
            = {i \in Issuers : claims[holder][<<i, topic>>] # NoSignature}
      BY DEF ClaimsListed
    <3> QED BY <3>1, <3>2, <3>3
  <2>2. CASE ~(h = holder /\ t = topic)
    <3>1. claimsByTopic'[h][t] = claimsByTopic[h][t]
      BY <1>2, <2>2
    <3>2. \A i \in Issuers : claims'[h][<<i, t>>] = claims[h][<<i, t>>]
      BY <1>1, <2>2
    <3> QED BY <3>1, <3>2 DEF ClaimsListed
  <2> QED BY <2>1, <2>2
<1> QED BY <1>3, <1>4 DEF ClaimsListed

LEMMA AddClaimListed ==
  ASSUME ClaimsTypeOK, ClaimsListed,
         NEW holder \in Identities, NEW issuer \in Issuers, NEW topic \in Topics,
         NEW sig \in Signature, AddClaim(holder, issuer, topic, sig)
  PROVE  ClaimsTypeOK' /\ ClaimsListed'
<1> DEFINE old == claimsByTopic[holder][topic]
           list == IF claims[holder][<<issuer, topic>>] = NoSignature
                   THEN Append(old, issuer) ELSE old
<1>1. old \in Seq(Issuers)
  BY DEF ClaimsTypeOK
<1>2. IsInjective(old)
      /\ Range(old) = {i \in Issuers : claims[holder][<<i, topic>>] # NoSignature}
  BY DEF ClaimsListed
<1>3. sig # NoSignature
  BY ClaimsAssumption
<1>4. claims' = [claims EXCEPT ![holder][<<issuer, topic>>] = sig]
      /\ claimsByTopic' = [claimsByTopic EXCEPT ![holder][topic] = list]
      /\ UNCHANGED <<claimKeys, revoked, unresponsive>>
  BY DEF AddClaim
<1>5. list \in Seq(Issuers) /\ IsInjective(list) /\ Range(list) = Range(old) \cup {issuer}
  <2>1. CASE claims[holder][<<issuer, topic>>] = NoSignature
    <3>1. list = Append(old, issuer) /\ issuer \notin Range(old)
      BY <1>2, <2>1
    <3> HIDE DEF list, old
    <3> QED BY <1>1, <1>2, <3>1, Appended
  <2>2. CASE claims[holder][<<issuer, topic>>] # NoSignature
    <3>1. list = old /\ issuer \in Range(old)
      BY <1>2, <2>2
    <3> QED BY <1>1, <1>2, <3>1
  <2> QED BY <2>1, <2>2
<1> HIDE DEF list
<1> QED BY <1>3, <1>4, <1>5, ClaimWritten

LEMMA RemoveClaimListed ==
  ASSUME ClaimsTypeOK, ClaimsListed,
         NEW holder \in Identities, NEW issuer \in Issuers, NEW topic \in Topics,
         RemoveClaim(holder, issuer, topic)
  PROVE  ClaimsTypeOK' /\ ClaimsListed'
<1> DEFINE old == claimsByTopic[holder][topic]
           list == SwapAndPop(old, issuer)
<1>1. old \in Seq(Issuers) /\ IsInjective(old)
  BY DEF ClaimsTypeOK, ClaimsListed
<1>2. claims' = [claims EXCEPT ![holder][<<issuer, topic>>] = NoSignature]
      /\ claimsByTopic' = [claimsByTopic EXCEPT ![holder][topic] = list]
      /\ UNCHANGED <<claimKeys, revoked, unresponsive>>
  BY DEF RemoveClaim
<1>3. list \in Seq(Issuers) /\ IsInjective(list) /\ Range(list) = Range(old) \ {issuer}
  BY <1>1, Popped
<1> HIDE DEF list
<1> QED BY <1>2, <1>3, ClaimWritten

\* Whatever an issuer or a holder does.
LEMMA ClaimsStep ==
  ASSUME ClaimsTypeOK, ClaimsListed, ClaimsNext
  PROVE  ClaimsTypeOK' /\ ClaimsListed'
<1>1. ASSUME NEW issuer \in Issuers, NEW sig \in Signature \cup {NoSignature},
             RevokeClaimBySignature(issuer, sig)
      PROVE  ClaimsTypeOK' /\ ClaimsListed'
  <2> DEFINE T == Signature \cup {NoSignature}
  <2>1. revoked \in [Issuers -> SUBSET T] /\ sig \in T
    BY <1>1 DEF ClaimsTypeOK
  <2>2. revoked' = [revoked EXCEPT ![issuer] = @ \cup {sig}]
    BY <1>1 DEF RevokeClaimBySignature
  <2> HIDE DEF T
  <2>3. revoked' \in [Issuers -> SUBSET T]
    BY <2>1, <2>2
  <2>4. UNCHANGED <<claims, claimsByTopic, claimKeys, unresponsive>>
    BY <1>1 DEF RevokeClaimBySignature
  <2>5. ClaimsTypeOK'
    <3>1. revoked' \in [Issuers -> SUBSET (Signature \cup {NoSignature})]
      BY <2>3 DEF T
    <3> QED BY <2>4, <3>1 DEF ClaimsTypeOK
  <2>6. ClaimsListed'
    BY <2>4 DEF ClaimsListed
  <2> QED BY <2>5, <2>6
<1>2. ASSUME NEW holder \in Identities, NEW issuer \in Issuers, NEW topic \in Topics,
             NEW revoker \in Issuers, RevokeClaim(revoker, holder, issuer, topic)
      PROVE  ClaimsTypeOK' /\ ClaimsListed'
  <2>1. claims[holder][<<issuer, topic>>] \in Signature \cup {NoSignature}
    BY DEF ClaimsTypeOK
  <2> QED BY <1>1, <1>2, <2>1 DEF RevokeClaim
<1>3. ASSUME NEW issuer \in Issuers, NEW keys \in SUBSET Keys, ChangeClaimKeys(issuer, keys)
      PROVE  ClaimsTypeOK' /\ ClaimsListed'
  BY <1>3 DEF ChangeClaimKeys, ClaimsTypeOK, ClaimsListed
<1>4. ASSUME NEW issuer \in Issuers, ChangeResponse(issuer)
      PROVE  ClaimsTypeOK' /\ ClaimsListed'
  BY <1>4 DEF ChangeResponse, ClaimsTypeOK, ClaimsListed
<1> QED BY <1>1, <1>2, <1>3, <1>4, AddClaimListed, RemoveClaimListed, Zenon DEF ClaimsNext

\* Owners of the issuers and topics, and agents that register investors, touch
\* neither claims nor bindings.
LEMMA OtherSteps ==
  ASSUME IssuersNext \/ InvestorsNext
  PROVE  UNCHANGED <<claimVars, bindingVars>>
<1>1. ASSUME NEW issuer \in Issuers, NEW topics,
             \/ AddTrustedIssuer(issuer, topics)
             \/ UpdateIssuerClaimTopics(issuer, topics)
             \/ RemoveTrustedIssuer(issuer)
      PROVE  UNCHANGED <<claimVars, bindingVars>>
  BY <1>1 DEF AddTrustedIssuer, UpdateIssuerClaimTopics, RemoveTrustedIssuer
<1>2. ASSUME NEW topic \in Topics, AddClaimTopic(topic) \/ RemoveClaimTopic(topic)
      PROVE  UNCHANGED <<claimVars, bindingVars>>
  BY <1>2 DEF AddClaimTopic, RemoveClaimTopic
<1>3. ASSUME NEW r, NEW w, NEW id, Store(r, w, id)
      PROVE  UNCHANGED <<claimVars, bindingVars>>
  BY <1>3 DEF Store
<1>4. CASE IssuersNext
  BY <1>1, <1>2, <1>4, Zenon DEF IssuersNext
<1>5. CASE InvestorsNext
  BY <1>3, <1>5, Zenon DEF InvestorsNext, RegisterIdentity, UpdateIdentity, DeleteIdentity
<1> QED BY <1>4, <1>5

\* An owner's step on the registries of one storage.
LEMMA BindingStep ==
  ASSUME BindingsTypeOK, NEW r \in Registries, NEW s \in Storages,
         \/ SetIdentityRegistryStorage(r, s)
         \/ AddStorageAgent(s, r) \/ RemoveStorageAgent(s, r)
         \/ BindIdentityRegistry(s, r) \/ UnbindIdentityRegistry(s, r)
  PROVE  /\ UNCHANGED claimVars
         /\ BindingsTypeOK'
         /\ \A x \in Storages : LinkedMayWrite(x) =>
              LinkedMayWrite(x)' \/ AddStorageAgent(x, r) \/ RemoveStorageAgent(x, r)
<1> USE DEF LinkedMayWrite
<1>1. CASE SetIdentityRegistryStorage(r, s)
  BY <1>1 DEF SetIdentityRegistryStorage, BindingsTypeOK
<1>2. ASSUME NEW list \in Seq(Registries), NEW agents \in SUBSET Registries,
             Bindings(s, list, agents)
      PROVE  /\ UNCHANGED claimVars /\ BindingsTypeOK'
             /\ linked'[s] = list /\ storageAgents'[s] = agents
             /\ \A x \in Storages \ {s} :
                  linked'[x] = linked[x] /\ storageAgents'[x] = storageAgents[x]
  BY <1>2 DEF Bindings, BindingsTypeOK
<1>3. linked[s] \in Seq(Registries) /\ storageAgents[s] \in SUBSET Registries
  BY DEF BindingsTypeOK
<1>4. ASSUME NEW list \in Seq(Registries), NEW agents \in SUBSET Registries,
             Bindings(s, list, agents),
             LinkedMayWrite(s) => IsInjective(list) /\ Range(list) = agents
      PROVE  /\ UNCHANGED claimVars /\ BindingsTypeOK'
             /\ \A x \in Storages : LinkedMayWrite(x) => LinkedMayWrite(x)'
  <2>1. ASSUME NEW x \in Storages, LinkedMayWrite(x)
        PROVE  LinkedMayWrite(x)'
    <3>1. CASE x = s
      BY <1>2, <1>4, <2>1, <3>1
    <3>2. CASE x # s
      <4>1. linked'[x] = linked[x] /\ storageAgents'[x] = storageAgents[x]
        BY <1>2, <1>4, <3>2
      <4> QED BY <2>1, <4>1
    <3> QED BY <3>1, <3>2
  <2> QED BY <1>2, <1>4, <2>1
<1>5. CASE AddStorageAgent(s, r)
  <2>1. Bindings(s, linked[s], storageAgents[s] \cup {r})
    BY <1>5 DEF AddStorageAgent
  <2> QED BY <1>2, <1>3, <1>5, <2>1
<1>6. CASE RemoveStorageAgent(s, r)
  <2>1. Bindings(s, linked[s], storageAgents[s] \ {r})
    BY <1>6 DEF RemoveStorageAgent
  <2> QED BY <1>2, <1>3, <1>6, <2>1
<1>7. CASE BindIdentityRegistry(s, r)
  <2> DEFINE longer == Append(linked[s], r)
             wider == storageAgents[s] \cup {r}
  <2>1. r \notin storageAgents[s] /\ Bindings(s, longer, wider)
    BY <1>7 DEF BindIdentityRegistry
  <2>2. longer \in Seq(Registries) /\ wider \in SUBSET Registries
    BY <1>3
  <2>3. LinkedMayWrite(s) => IsInjective(longer) /\ Range(longer) = wider
    BY <1>3, <2>1, Appended
  <2> HIDE DEF longer, wider
  <2> QED BY <1>4, <2>1, <2>2, <2>3
<1>8. CASE UnbindIdentityRegistry(s, r)
  <2> DEFINE shorter == SwapAndPop(linked[s], r)
             fewer == storageAgents[s] \ {r}
  <2>1. Bindings(s, shorter, fewer)
    BY <1>8 DEF UnbindIdentityRegistry
  <2>2. shorter \in Seq(Registries) /\ fewer \in SUBSET Registries
    BY <1>3, PoppedType
  <2>3. LinkedMayWrite(s) => IsInjective(shorter) /\ Range(shorter) = fewer
    BY <1>3, Popped
  <2> HIDE DEF shorter, fewer
  <2> QED BY <1>4, <2>1, <2>2, <2>3
<1> QED BY <1>1, <1>5, <1>6, <1>7, <1>8

LEMMA NextIInv ==
  ASSUME IInv, [Next]_vars
  PROVE  IInv'
<1>1. CASE UNCHANGED vars
  BY <1>1 DEF IInv, ClaimsTypeOK, ClaimsListed, BindingsTypeOK, vars, claimVars, bindingVars
<1>2. CASE ClaimsNext /\ UNCHANGED <<issuerVars, identities, bindingVars>>
  <2>1. ClaimsTypeOK' /\ ClaimsListed'
    BY <1>2, ClaimsStep DEF IInv
  <2>2. BindingsTypeOK'
    BY <1>2 DEF IInv, BindingsTypeOK, bindingVars
  <2> QED BY <2>1, <2>2 DEF IInv
<1>3. CASE IssuersNext \/ InvestorsNext
  <2>1. UNCHANGED <<claimVars, bindingVars>>
    BY <1>3, OtherSteps
  <2> QED BY <2>1 DEF IInv, ClaimsTypeOK, ClaimsListed, BindingsTypeOK, claimVars, bindingVars
<1>4. CASE BindingsNext
  <2>1. UNCHANGED claimVars /\ BindingsTypeOK'
    BY <1>4, BindingStep, Zenon DEF IInv, BindingsNext
  <2> QED BY <2>1 DEF IInv, ClaimsTypeOK, ClaimsListed, claimVars
<1> QED BY <1>1, <1>2, <1>3, <1>4, Zenon DEF Next

\* Of a storage whose list names exactly the registries that may write, once
\* each, only a direct call of the agent functions makes the two differ.
LEMMA NextLinked ==
  ASSUME IInv, [Next]_vars, NEW s \in Storages, LinkedMayWrite(s), ~LinkedMayWrite(s)'
  PROVE  \E r \in Registries : AddStorageAgent(s, r) \/ RemoveStorageAgent(s, r)
<1>1. ~UNCHANGED bindingVars
  BY DEF LinkedMayWrite, bindingVars
<1>2. ~UNCHANGED vars /\ ~IssuersNext /\ ~InvestorsNext
  BY <1>1, OtherSteps DEF vars
<1>3. BindingsNext
  BY <1>1, <1>2, Zenon DEF Next
<1>4. PICK r \in Registries, t \in Storages :
        \/ SetIdentityRegistryStorage(r, t)
        \/ AddStorageAgent(t, r) \/ RemoveStorageAgent(t, r)
        \/ BindIdentityRegistry(t, r) \/ UnbindIdentityRegistry(t, r)
  BY <1>3, Zenon DEF BindingsNext
<1>5. LinkedMayWrite(s)' \/ AddStorageAgent(s, r) \/ RemoveStorageAgent(s, r)
  BY <1>4, BindingStep, Zenon DEF IInv
<1> QED BY <1>5

(***************************************************************************)
(* The two mappings between issuers and topics.                            *)
(***************************************************************************)
IndexesMatch(tops, index) ==
  \A i \in Issuers, t \in Topics : Mentions(index[t], i) = Mentions(tops[i], t)

LEMMA NoMentions == \A e : Mentions(<<>>, e) = 0
<1>1. \A e : {p \in DOMAIN <<>> : <<>>[p] = e} = {}
  OBVIOUS
<1> QED BY <1>1, FS_EmptySet DEF Mentions

\* Striking an issuer from every topic it has leaves it without any.
LEMMA StruckMatches ==
  ASSUME NEW tops \in [Issuers -> Seq(Topics)], NEW index \in [Topics -> Seq(Issuers)],
         IndexesMatch(tops, index), NEW issuer \in Issuers
  PROVE  /\ Struck(index, issuer, tops[issuer]) \in [Topics -> Seq(Issuers)]
         /\ IndexesMatch([tops EXCEPT ![issuer] = <<>>], Struck(index, issuer, tops[issuer]))
<1> DEFINE topics == tops[issuer]
           less == Struck(index, issuer, topics)
           none == [tops EXCEPT ![issuer] = <<>>]
<1>1. topics \in Seq(Topics)
  OBVIOUS
<1>2. \A t \in Topics : Mentions(index[t], issuer) = Mentions(topics, t)
  BY DEF IndexesMatch
<1>3. \A i \in Issuers : none[i] = IF i = issuer THEN <<>> ELSE tops[i]
  OBVIOUS
<1> HIDE DEF topics, none
<1>4. /\ less \in [Topics -> Seq(Issuers)]
      /\ \A t \in Topics, i \in Issuers :
           Mentions(less[t], i) = IF i = issuer THEN 0 ELSE Mentions(index[t], i)
  BY <1>1, <1>2, StruckMentions
<1> HIDE DEF less
<1>5. IndexesMatch(none, less)
  BY <1>3, <1>4, NoMentions DEF IndexesMatch
<1> QED BY <1>4, <1>5 DEF topics, none, less

\* Enlisting an issuer that has no topics under those it gets.
LEMMA EnlistedMatches ==
  ASSUME NEW tops \in [Issuers -> Seq(Topics)], NEW index \in [Topics -> Seq(Issuers)],
         IndexesMatch(tops, index), NEW issuer \in Issuers, tops[issuer] = <<>>,
         NEW topics \in Seq(Topics)
  PROVE  /\ Enlisted(index, issuer, topics) \in [Topics -> Seq(Issuers)]
         /\ IndexesMatch([tops EXCEPT ![issuer] = topics], Enlisted(index, issuer, topics))
<1> DEFINE more == Enlisted(index, issuer, topics)
           given == [tops EXCEPT ![issuer] = topics]
<1>1. \A i \in Issuers : given[i] = IF i = issuer THEN topics ELSE tops[i]
  OBVIOUS
<1>2. /\ more \in [Topics -> Seq(Issuers)]
      /\ \A t \in Topics, i \in Issuers :
           Mentions(more[t], i) = Mentions(index[t], i) + (IF i = issuer THEN Mentions(topics, t) ELSE 0)
  BY EnlistedMentions
<1>3. \A t \in Topics : Mentions(index[t], issuer) = 0 /\ Mentions(topics, t) \in Nat
  BY NoMentions, Positions DEF IndexesMatch
<1>4. \A i \in Issuers, t \in Topics : Mentions(index[t], i) \in Nat
  BY Positions
<1> HIDE DEF more, given
<1>5. ASSUME NEW i \in Issuers, NEW t \in Topics
      PROVE  Mentions(more[t], i) = Mentions(given[i], t)
  <2>1. CASE i = issuer
    BY <1>1, <1>2, <1>3, <2>1
  <2>2. CASE i # issuer
    <3>1. Mentions(more[t], i) = Mentions(index[t], i) + 0
      BY <1>2, <2>2
    <3>2. Mentions(index[t], i) = Mentions(tops[i], t)
      BY DEF IndexesMatch
    <3>3. given[i] = tops[i]
      BY <1>1, <2>2
    <3> QED BY <1>4, <3>1, <3>2, <3>3
  <2> QED BY <2>1, <2>2
<1>6. IndexesMatch(given, more)
  BY <1>5 DEF IndexesMatch
<1> QED BY <1>2, <1>6 DEF more, given

LEMMA TopicLists ==
  ASSUME NEW topics \in BoundedSeq(Topics, MaxTopics)
  PROVE  topics \in Seq(Topics)
BY RegistryAssumption DEF BoundedSeq, SeqOf

(***************************************************************************)
(* The types of the whole registry, and the two mappings, are inductive    *)
(* together.                                                               *)
(***************************************************************************)
RegistryInv == RegistryTypeOK /\ IssuerIndexesAgree

IssuersTypeOK ==
  /\ trustedIssuers \in Seq(Issuers) /\ Len(trustedIssuers) <= MaxIssuers
  /\ topicsOf \in [Issuers -> Seq(Topics)]
  /\ issuersFor \in [Topics -> Seq(Issuers)]
  /\ requiredTopics \in Seq(Topics) /\ Len(requiredTopics) <= MaxTopics

InvestorsTypeOK ==
  identities \in [Storages -> [Wallets -> Identities \cup {NoIdentity}]]

StoragesTypeOK ==
  /\ BindingsTypeOK
  /\ \A s \in Storages : Len(linked[s]) <= MaxRegistries
  /\ storageOf \in [Registries -> Storages]

LEMMA TypeParts == RegistryTypeOK <=> IssuersTypeOK /\ InvestorsTypeOK /\ StoragesTypeOK
BY DEF RegistryTypeOK, IssuersTypeOK, InvestorsTypeOK, StoragesTypeOK, BindingsTypeOK

LEMMA InitRegistryInv == Init => RegistryInv
<1> SUFFICES ASSUME Init PROVE RegistryInv
  OBVIOUS
<1> USE RegistryAssumption
<1>1. IssuersTypeOK
  BY DEF Init, RegistryInit, IssuersTypeOK
<1>2. InvestorsTypeOK
  BY DEF Init, RegistryInit, InvestorsTypeOK
<1>3. StoragesTypeOK
  <2>1. BindingsTypeOK
    BY DEF Init, RegistryInit, BindingsTypeOK
  <2>2. \A s \in Storages : linked[s] = <<>>
    BY DEF Init, RegistryInit
  <2>3. storageOf \in [Registries -> Storages]
    BY DEF Init, RegistryInit
  <2> QED BY <2>1, <2>2, <2>3 DEF StoragesTypeOK
<1>4. IssuerIndexesAgree
  <2>1. \A i \in Issuers : topicsOf[i] = <<>>
    BY DEF Init, RegistryInit
  <2>2. \A t \in Topics : issuersFor[t] = <<>>
    BY DEF Init, RegistryInit
  <2>3. trustedIssuers = <<>>
    BY DEF Init, RegistryInit
  <2>4. IsInjective(trustedIssuers) /\ Range(trustedIssuers) = {}
    BY <2>3 DEF IsInjective, Range
  <2> QED BY <2>1, <2>2, <2>4, NoMentions DEF IssuerIndexesAgree, IsTrusted
<1> QED BY <1>1, <1>2, <1>3, <1>4, TypeParts DEF RegistryInv

\* What an owner's step on the issuers has to show.
IssuersStep == IssuersTypeOK' /\ IssuerIndexesAgree'

LEMMA AddIssuerStep ==
  ASSUME IssuersTypeOK, IssuerIndexesAgree,
         NEW issuer \in Issuers, NEW topics \in Seq(Topics), AddTrustedIssuer(issuer, topics)
  PROVE  IssuersStep
<1>1. /\ topicsOf[issuer] = <<>> /\ topics # <<>> /\ Len(trustedIssuers) < MaxIssuers
      /\ trustedIssuers' = Append(trustedIssuers, issuer)
      /\ topicsOf' = [topicsOf EXCEPT ![issuer] = topics]
      /\ issuersFor' = Enlisted(issuersFor, issuer, topics)
      /\ requiredTopics' = requiredTopics
  BY DEF AddTrustedIssuer, IsTrusted, IsTopicList
<1>2. IndexesMatch(topicsOf, issuersFor)
  BY DEF IssuerIndexesAgree, IndexesMatch
<1>3. issuersFor' \in [Topics -> Seq(Issuers)] /\ IndexesMatch(topicsOf', issuersFor')
  BY <1>1, <1>2, EnlistedMatches DEF IssuersTypeOK
<1>4. /\ trustedIssuers' \in Seq(Issuers) /\ IsInjective(trustedIssuers')
      /\ Range(trustedIssuers') = Range(trustedIssuers) \cup {issuer}
  <2>1. issuer \notin Range(trustedIssuers) /\ IsInjective(trustedIssuers)
    BY <1>1 DEF IssuerIndexesAgree, IsTrusted
  <2> QED BY <1>1, <2>1, Appended DEF IssuersTypeOK
<1>5. \A i \in Issuers : topicsOf'[i] = IF i = issuer THEN topics ELSE topicsOf[i]
  BY <1>1 DEF IssuersTypeOK
<1>6. Range(trustedIssuers') = {i \in Issuers : topicsOf'[i] # <<>>}
  BY <1>1, <1>4, <1>5 DEF IssuerIndexesAgree, IsTrusted
<1>7. Len(trustedIssuers') <= MaxIssuers
  BY <1>1, RegistryAssumption DEF IssuersTypeOK
<1>8. topicsOf' \in [Issuers -> Seq(Topics)]
  BY <1>1 DEF IssuersTypeOK
<1>9. IssuersTypeOK'
  BY <1>1, <1>3, <1>4, <1>7, <1>8 DEF IssuersTypeOK
<1>10. IssuerIndexesAgree'
  BY <1>3, <1>4, <1>6 DEF IssuerIndexesAgree, IsTrusted, IndexesMatch
<1> QED BY <1>9, <1>10 DEF IssuersStep

LEMMA RemoveIssuerStep ==
  ASSUME IssuersTypeOK, IssuerIndexesAgree,
         NEW issuer \in Issuers, RemoveTrustedIssuer(issuer)
  PROVE  IssuersStep
<1>1. /\ trustedIssuers' = SwapAndPop(trustedIssuers, issuer)
      /\ topicsOf' = [topicsOf EXCEPT ![issuer] = <<>>]
      /\ issuersFor' = Struck(issuersFor, issuer, topicsOf[issuer])
      /\ requiredTopics' = requiredTopics
  BY DEF RemoveTrustedIssuer
<1>2. IndexesMatch(topicsOf, issuersFor)
  BY DEF IssuerIndexesAgree, IndexesMatch
<1>3. issuersFor' \in [Topics -> Seq(Issuers)] /\ IndexesMatch(topicsOf', issuersFor')
  BY <1>1, <1>2, StruckMatches DEF IssuersTypeOK
<1>4. /\ trustedIssuers' \in Seq(Issuers) /\ IsInjective(trustedIssuers')
      /\ Range(trustedIssuers') = Range(trustedIssuers) \ {issuer}
  <2>1. IsInjective(trustedIssuers)
    BY DEF IssuerIndexesAgree
  <2> QED BY <1>1, <2>1, Popped DEF IssuersTypeOK
<1>5. \A i \in Issuers : topicsOf'[i] = IF i = issuer THEN <<>> ELSE topicsOf[i]
  BY <1>1 DEF IssuersTypeOK
<1>6. Range(trustedIssuers') = {i \in Issuers : topicsOf'[i] # <<>>}
  BY <1>4, <1>5 DEF IssuerIndexesAgree, IsTrusted
<1>7. Len(trustedIssuers') <= MaxIssuers
  <2>1. Len(trustedIssuers') <= Len(trustedIssuers)
    BY <1>1, PoppedLength DEF IssuersTypeOK
  <2>2. Len(trustedIssuers') \in Nat /\ Len(trustedIssuers) \in Nat
    BY <1>4 DEF IssuersTypeOK
  <2> QED BY <2>1, <2>2, RegistryAssumption DEF IssuersTypeOK
<1>8. topicsOf' \in [Issuers -> Seq(Topics)]
  BY <1>1 DEF IssuersTypeOK
<1>9. IssuersTypeOK'
  BY <1>1, <1>3, <1>4, <1>7, <1>8 DEF IssuersTypeOK
<1>10. IssuerIndexesAgree'
  BY <1>3, <1>4, <1>6 DEF IssuerIndexesAgree, IsTrusted, IndexesMatch
<1> QED BY <1>9, <1>10 DEF IssuersStep

LEMMA UpdateIssuerStep ==
  ASSUME IssuersTypeOK, IssuerIndexesAgree,
         NEW issuer \in Issuers, NEW topics \in Seq(Topics),
         UpdateIssuerClaimTopics(issuer, topics)
  PROVE  IssuersStep
<1> DEFINE none == [topicsOf EXCEPT ![issuer] = <<>>]
           less == Struck(issuersFor, issuer, topicsOf[issuer])
<1>1. /\ topicsOf[issuer] # <<>> /\ topics # <<>>
      /\ issuersFor' = Enlisted(less, issuer, topics)
      /\ topicsOf' = [topicsOf EXCEPT ![issuer] = topics]
      /\ UNCHANGED <<trustedIssuers, requiredTopics>>
  BY DEF UpdateIssuerClaimTopics, IsTrusted, IsTopicList
<1>2. IndexesMatch(topicsOf, issuersFor)
  BY DEF IssuerIndexesAgree, IndexesMatch
<1>3. less \in [Topics -> Seq(Issuers)] /\ IndexesMatch(none, less)
  BY <1>2, StruckMatches DEF IssuersTypeOK
<1>4. /\ none \in [Issuers -> Seq(Topics)] /\ none[issuer] = <<>>
      /\ [none EXCEPT ![issuer] = topics] = topicsOf'
  BY <1>1 DEF IssuersTypeOK
<1> HIDE DEF none, less
<1>5. issuersFor' \in [Topics -> Seq(Issuers)] /\ IndexesMatch(topicsOf', issuersFor')
  <2>1. /\ Enlisted(less, issuer, topics) \in [Topics -> Seq(Issuers)]
        /\ IndexesMatch([none EXCEPT ![issuer] = topics], Enlisted(less, issuer, topics))
    BY <1>3, <1>4, EnlistedMatches
  <2> QED BY <1>1, <1>4, <2>1
<1>6. \A i \in Issuers : topicsOf'[i] # <<>> <=> topicsOf[i] # <<>>
  BY <1>1 DEF IssuersTypeOK
<1>7. IssuersTypeOK'
  BY <1>1, <1>5 DEF IssuersTypeOK
<1>8. IssuerIndexesAgree'
  BY <1>1, <1>5, <1>6 DEF IssuerIndexesAgree, IsTrusted, IndexesMatch
<1> QED BY <1>7, <1>8 DEF IssuersStep

LEMMA RequiredTopicsStep ==
  ASSUME IssuersTypeOK, IssuerIndexesAgree,
         NEW topic \in Topics, AddClaimTopic(topic) \/ RemoveClaimTopic(topic)
  PROVE  IssuersStep
<1>1. UNCHANGED <<trustedIssuers, topicsOf, issuersFor>>
  BY DEF AddClaimTopic, RemoveClaimTopic
<1>2. requiredTopics' \in Seq(Topics) /\ Len(requiredTopics') <= MaxTopics
  <2>1. CASE AddClaimTopic(topic)
    BY <2>1, RegistryAssumption DEF AddClaimTopic, IssuersTypeOK
  <2>2. CASE RemoveClaimTopic(topic)
    <3>1. requiredTopics' = SwapAndPop(requiredTopics, topic)
      BY <2>2 DEF RemoveClaimTopic
    <3>2. requiredTopics' \in Seq(Topics) /\ Len(requiredTopics') <= Len(requiredTopics)
      BY <3>1, PoppedType, PoppedLength DEF IssuersTypeOK
    <3> QED BY <3>2, RegistryAssumption DEF IssuersTypeOK
  <2> QED BY <2>1, <2>2
<1>3. IssuersTypeOK'
  BY <1>1, <1>2 DEF IssuersTypeOK
<1>4. IssuerIndexesAgree'
  BY <1>1 DEF IssuerIndexesAgree, IsTrusted
<1> QED BY <1>3, <1>4 DEF IssuersStep

\* Registration touches the identities only; a step on the bindings keeps the
\* list of each storage within its bound.
LEMMA StoredStep ==
  ASSUME RegistryTypeOK, NEW r \in Registries, NEW w \in Wallets,
         NEW id \in Identities \cup {NoIdentity}, Store(r, w, id)
  PROVE  InvestorsTypeOK' /\ UNCHANGED <<issuerVars, bindingVars>>
<1> DEFINE Ids == Identities \cup {NoIdentity}
           s == storageOf[r]
<1>1. identities \in [Storages -> [Wallets -> Ids]] /\ s \in Storages /\ id \in Ids
  BY DEF RegistryTypeOK
<1>2. identities' = [identities EXCEPT ![s][w] = id]
  BY DEF Store
<1> HIDE DEF Ids, s
<1>3. identities' \in [Storages -> [Wallets -> Ids]]
  BY <1>1, <1>2
<1> QED BY <1>3 DEF InvestorsTypeOK, Ids, Store

LEMMA BoundStep ==
  ASSUME StoragesTypeOK, NEW r \in Registries, NEW s \in Storages,
         \/ SetIdentityRegistryStorage(r, s)
         \/ AddStorageAgent(s, r) \/ RemoveStorageAgent(s, r)
         \/ BindIdentityRegistry(s, r) \/ UnbindIdentityRegistry(s, r)
  PROVE  StoragesTypeOK' /\ UNCHANGED <<issuerVars, identities>>
<1> USE DEF StoragesTypeOK
<1>1. BindingsTypeOK'
  BY BindingStep
<1>2. CASE SetIdentityRegistryStorage(r, s)
  BY <1>1, <1>2 DEF SetIdentityRegistryStorage
<1>3. ASSUME NEW list \in Seq(Registries), Len(list) <= MaxRegistries, NEW agents,
             Bindings(s, list, agents)
      PROVE  StoragesTypeOK' /\ UNCHANGED <<issuerVars, identities>>
  <2>1. \A x \in Storages : linked'[x] = IF x = s THEN list ELSE linked[x]
    BY <1>3 DEF Bindings, BindingsTypeOK
  <2>2. \A x \in Storages : Len(linked'[x]) <= MaxRegistries
    BY <1>3, <2>1
  <2> QED BY <1>1, <1>3, <2>2 DEF Bindings
<1>4. linked[s] \in Seq(Registries) /\ Len(linked[s]) <= MaxRegistries
  BY DEF BindingsTypeOK
<1>5. CASE AddStorageAgent(s, r)
  BY <1>3, <1>4, <1>5 DEF AddStorageAgent
<1>6. CASE RemoveStorageAgent(s, r)
  BY <1>3, <1>4, <1>6 DEF RemoveStorageAgent
<1>7. CASE BindIdentityRegistry(s, r)
  <2> DEFINE longer == Append(linked[s], r)
  <2>1. longer \in Seq(Registries) /\ Len(longer) <= MaxRegistries
    BY <1>4, <1>7, RegistryAssumption DEF BindIdentityRegistry
  <2>2. Bindings(s, longer, storageAgents[s] \cup {r})
    BY <1>7 DEF BindIdentityRegistry
  <2> HIDE DEF longer
  <2> QED BY <1>3, <2>1, <2>2
<1>8. CASE UnbindIdentityRegistry(s, r)
  <2> DEFINE shorter == SwapAndPop(linked[s], r)
  <2>1. shorter \in Seq(Registries) /\ Len(shorter) <= Len(linked[s])
    BY <1>4, PoppedType, PoppedLength
  <2>2. Len(shorter) <= MaxRegistries
    BY <1>4, <2>1, RegistryAssumption
  <2>3. Bindings(s, shorter, storageAgents[s] \ {r})
    BY <1>8 DEF UnbindIdentityRegistry
  <2> HIDE DEF shorter
  <2> QED BY <1>3, <2>1, <2>2, <2>3
<1> QED BY <1>2, <1>5, <1>6, <1>7, <1>8

LEMMA NextRegistryInv ==
  ASSUME RegistryInv, [Next]_vars
  PROVE  RegistryInv'
<1> USE DEF RegistryInv
<1>1. IssuersTypeOK /\ InvestorsTypeOK /\ StoragesTypeOK
  BY TypeParts
<1>2. ASSUME UNCHANGED issuerVars PROVE IssuersTypeOK' /\ IssuerIndexesAgree'
  BY <1>1, <1>2 DEF IssuersTypeOK, IssuerIndexesAgree, IsTrusted, issuerVars
<1>3. ASSUME UNCHANGED bindingVars PROVE StoragesTypeOK'
  BY <1>1, <1>3 DEF StoragesTypeOK, BindingsTypeOK, bindingVars
<1>4. ASSUME UNCHANGED identities PROVE InvestorsTypeOK'
  BY <1>1, <1>4 DEF InvestorsTypeOK
<1>5. ASSUME IssuersTypeOK', IssuerIndexesAgree', InvestorsTypeOK', StoragesTypeOK'
      PROVE  RegistryInv'
  BY <1>5 DEF RegistryTypeOK, IssuersTypeOK, InvestorsTypeOK, StoragesTypeOK, BindingsTypeOK
<1>6. CASE UNCHANGED vars
  BY <1>2, <1>3, <1>4, <1>5, <1>6 DEF vars
<1>7. CASE ClaimsNext /\ UNCHANGED <<issuerVars, identities, bindingVars>>
  BY <1>2, <1>3, <1>4, <1>5, <1>7
<1>8. CASE IssuersNext
  <2>1. ASSUME NEW issuer \in Issuers, NEW topics \in BoundedSeq(Topics, MaxTopics),
               AddTrustedIssuer(issuer, topics) \/ UpdateIssuerClaimTopics(issuer, topics)
        PROVE  IssuersStep /\ UNCHANGED <<identities, bindingVars>>
    <3>1. topics \in Seq(Topics)
      BY TopicLists
    <3>2. IssuersStep
      BY <1>1, <2>1, <3>1, AddIssuerStep, UpdateIssuerStep
    <3>3. UNCHANGED <<identities, bindingVars>>
      BY <2>1 DEF AddTrustedIssuer, UpdateIssuerClaimTopics
    <3> QED BY <3>2, <3>3
  <2>2. ASSUME NEW issuer \in Issuers, RemoveTrustedIssuer(issuer)
        PROVE  IssuersStep /\ UNCHANGED <<identities, bindingVars>>
    BY <1>1, <2>2, RemoveIssuerStep DEF RemoveTrustedIssuer
  <2>3. ASSUME NEW topic \in Topics, AddClaimTopic(topic) \/ RemoveClaimTopic(topic)
        PROVE  IssuersStep /\ UNCHANGED <<identities, bindingVars>>
    BY <1>1, <2>3, RequiredTopicsStep DEF AddClaimTopic, RemoveClaimTopic
  <2>4. IssuersStep /\ UNCHANGED <<identities, bindingVars>>
    BY <1>8, <2>1, <2>2, <2>3, Zenon DEF IssuersNext
  <2> QED BY <1>3, <1>4, <1>5, <2>4 DEF IssuersStep
<1>9. CASE InvestorsNext
  <2>1. ASSUME NEW r \in Registries, NEW w \in Wallets, NEW id \in Identities,
               RegisterIdentity(r, w, id) \/ UpdateIdentity(r, w, id)
        PROVE  InvestorsTypeOK' /\ UNCHANGED <<issuerVars, bindingVars>>
    BY <2>1, StoredStep DEF RegisterIdentity, UpdateIdentity
  <2>2. ASSUME NEW r \in Registries, NEW w \in Wallets, DeleteIdentity(r, w)
        PROVE  InvestorsTypeOK' /\ UNCHANGED <<issuerVars, bindingVars>>
    BY <2>2, StoredStep DEF DeleteIdentity
  <2>3. InvestorsTypeOK' /\ UNCHANGED <<issuerVars, bindingVars>>
    BY <1>9, <2>1, <2>2, Zenon DEF InvestorsNext
  <2> QED BY <1>2, <1>3, <1>5, <2>3
<1>10. CASE BindingsNext
  <2>1. StoragesTypeOK' /\ UNCHANGED <<issuerVars, identities>>
    BY <1>1, <1>10, BoundStep, Zenon DEF BindingsNext
  <2> QED BY <1>2, <1>4, <1>5, <2>1
<1> QED BY <1>6, <1>7, <1>8, <1>9, <1>10, Zenon DEF Next

\* Whoever the topic names is trusted on it, and the other way round.
LEMMA DecidedVerification ==
  ASSUME RegistryInv
  PROVE  VerifiedAsDecided
<1> USE DEF RegistryInv
<1>1. ASSUME NEW i \in Issuers, NEW t \in Topics
      PROVE  i \in Range(issuersFor[t]) <=> t \in Range(topicsOf[i])
  <2>1. i \in Range(issuersFor[t]) <=> Mentions(issuersFor[t], i) > 0
    BY Positions DEF RegistryTypeOK
  <2>2. t \in Range(topicsOf[i]) <=> Mentions(topicsOf[i], t) > 0
    BY Positions DEF RegistryTypeOK
  <2> QED BY <2>1, <2>2 DEF IssuerIndexesAgree
<1>2. ASSUME NEW i \in Issuers, NEW t \in Range(topicsOf[i])
      PROVE  i \in Range(trustedIssuers)
  BY <1>2 DEF IssuerIndexesAgree, IsTrusted, Range, RegistryTypeOK
<1>3. /\ Range(requiredTopics) \subseteq Topics
      /\ Range(trustedIssuers) \subseteq Issuers
      /\ \A t \in Topics : Range(issuersFor[t]) \subseteq Issuers
  BY DEF RegistryTypeOK, Range
<1>4. ASSUME NEW id, NEW t \in Range(requiredTopics)
      PROVE  (\E i \in Range(issuersFor[t]) : ClaimCounts(id, i, t))
               <=> \E i \in Range(trustedIssuers) :
                     t \in Range(topicsOf[i]) /\ ClaimCounts(id, i, t)
  BY <1>1, <1>2, <1>3
<1>5. ASSUME NEW id
      PROVE  PassesClaims(id) <=>
               \A t \in Range(requiredTopics) :
                 \E i \in Range(trustedIssuers) :
                   t \in Range(topicsOf[i]) /\ ClaimCounts(id, i, t)
  BY <1>4, Zenon DEF PassesClaims
<1> QED BY <1>5, Zenon DEF VerifiedAsDecided, IsVerified

(***************************************************************************)
(* The theorems.                                                           *)
(***************************************************************************)

\* ONCHAINID Identity: the claims a holder lists under a topic are those it
\* stores, each once, whatever order issuers, holders, owners and agents act in.
THEOREM ClaimsStayListed == Spec => []ClaimsListed
<1>1. IInv /\ [Next]_vars => IInv'
  BY NextIInv
<1>2. IInv => ClaimsListed
  BY DEF IInv
<1> QED BY InitIInv, <1>1, <1>2, PTL DEF Spec

\* IdentityRegistryStorage: binding and unbinding keep the list of linked
\* registries equal to the agents; addAgent and removeAgent, called directly,
\* are the only steps that part them.
THEOREM OnlyAgentCallsPartLinks == Spec => OnlyAgentCallsPart
<1>1. IInv /\ [Next]_vars => IInv'
  BY NextIInv
<1>2. IInv /\ [Next]_vars =>
        [ \A s \in Storages : LinkedMayWrite(s) /\ ~LinkedMayWrite(s)' =>
            \E r \in Registries : AddStorageAgent(s, r) \/ RemoveStorageAgent(s, r) ]_vars
  BY NextLinked
<1> QED BY InitIInv, <1>1, <1>2, PTL DEF Spec, OnlyAgentCallsPart

\* All the registries, issuers and claims keep to their types: in particular the
\* contracts' bounds on trusted issuers, required topics and linked registries
\* hold however calls are interleaved.
THEOREM RegistryTypeCorrect == Spec => []TypeOK
<1>1. IInv /\ RegistryInv /\ [Next]_vars => (IInv /\ RegistryInv)'
  BY NextIInv, NextRegistryInv
<1>2. IInv /\ RegistryInv => TypeOK
  BY DEF IInv, RegistryInv, TypeOK
<1> QED BY InitIInv, InitRegistryInv, <1>1, <1>2, PTL DEF Spec

\* TrustedIssuersRegistry: the topics of each issuer and the issuers of each topic
\* stay one relation, counted with repetitions, and the list names each issuer
\* that has topics once; nobody is left in the index when an issuer is removed.
THEOREM IssuerIndexesStayEqual == Spec => []IssuerIndexesAgree
<1>1. RegistryInv => IssuerIndexesAgree
  BY DEF RegistryInv
<1> QED BY InitRegistryInv, NextRegistryInv, <1>1, PTL DEF Spec

\* IdentityRegistry.isVerified, which reads only the issuers of a topic, accepts
\* a wallet exactly when the registered identity has a claim that counts of an
\* issuer trusted now on each required topic.
THEOREM VerificationAsDecided == Spec => []VerifiedAsDecided
BY InitRegistryInv, NextRegistryInv, DecidedVerification, PTL DEF Spec
=============================================================================
