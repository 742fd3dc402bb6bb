---------------------------- MODULE HistoryProofs ----------------------------
(***************************************************************************)
(* Proofs about History, for any sessions, addresses, contents and files.  *)
(*                                                                         *)
(* The copy of a session and the file are compared with the deployments in *)
(* the order they were made: a set of lists keeps the first n of them if   *)
(* it names them all, each under its kind and none after them, and what    *)
(* follows one in its list was deployed later.  While nothing disturbs the *)
(* history one session runs at a time, and its copy and the file keep      *)
(* every deployment but the one it is to save.  A scan from the newest     *)
(* entry down therefore stops at the latest deployment that matches.       *)
(***************************************************************************)
EXTENDS History, CommonProofs, FiniteSetTheorems, TLAPS

(***************************************************************************)
(* Removing what has been dropped from a list.                             *)
(***************************************************************************)

\* r holds the entries of list up to n that are not dropped, at the places pos.
PlacedAt(pos, r, list, n) ==
  /\ pos \in [1 .. Len(r) -> 1 .. n]
  /\ \A j, k \in 1 .. Len(r) : j < k => pos[j] < pos[k]
  /\ \A k \in 1 .. Len(r) : r[k] = list[pos[k]] /\ r[k] # ZeroAddress
  /\ \A q \in 1 .. n : list[q] # ZeroAddress => \E k \in 1 .. Len(r) : pos[k] = q

LEMMA OneKept ==
  ASSUME NEW S, NEW list \in Seq(S), NEW n \in 0 .. Len(list), n # Len(list),
         NEW r \in Seq(S), NEW pos, PlacedAt(pos, r, list, n)
  PROVE  /\ Keep(r, list[n + 1]) \in Seq(S)
         /\ \E p : PlacedAt(p, Keep(r, list[n + 1]), list, n + 1)
<1> DEFINE kept == Keep(r, list[n + 1])
           m == Len(r)
<1>1. n \in Nat /\ m \in Nat /\ n + 1 \in 1 .. Len(list) /\ list[n + 1] \in S
  OBVIOUS
<1>2. /\ pos \in [1 .. m -> 1 .. n]
      /\ \A j, k \in 1 .. m : j < k => pos[j] < pos[k]
      /\ \A k \in 1 .. m : r[k] = list[pos[k]] /\ r[k] # ZeroAddress
      /\ \A q \in 1 .. n : list[q] # ZeroAddress => \E k \in 1 .. m : pos[k] = q
  BY DEF PlacedAt
<1>3. CASE list[n + 1] = ZeroAddress
  <2>1. kept = r /\ pos \in [1 .. m -> 1 .. n + 1]
    BY <1>1, <1>2, <1>3 DEF Keep
  <2>2. \A q \in 1 .. n + 1 : list[q] # ZeroAddress => q \in 1 .. n
    BY <1>1, <1>3
  <2> HIDE DEF kept
  <2>3. PlacedAt(pos, kept, list, n + 1)
    BY <1>2, <2>1, <2>2 DEF PlacedAt
  <2> QED BY <2>1, <2>3 DEF kept
<1>4. CASE list[n + 1] # ZeroAddress
  <2> DEFINE longer == [k \in 1 .. m + 1 |-> IF k = m + 1 THEN n + 1 ELSE pos[k]]
  <2>1. /\ kept \in Seq(S) /\ Len(kept) = m + 1 /\ kept[m + 1] = list[n + 1]
        /\ \A k \in 1 .. m : kept[k] = r[k]
    BY <1>1, <1>4 DEF Keep
  <2>2. longer \in [1 .. m + 1 -> 1 .. n + 1]
    BY <1>1, <1>2
  <2>3. longer[m + 1] = n + 1 /\ \A k \in 1 .. m : longer[k] = pos[k]
    BY <1>1
  <2> HIDE DEF kept, longer, m
  <2> DEFINE last == m + 1
  <2>4. \A k \in 1 .. last : k = last \/ k \in 1 .. m
    BY <1>1
  <2>5. \A k \in 1 .. m : pos[k] \in 1 .. n /\ pos[k] < n + 1
    BY <1>1, <1>2
  <2>6. ASSUME NEW j \in 1 .. m + 1, NEW k \in 1 .. m + 1, j < k
        PROVE  longer[j] < longer[k]
    <3>1. j \in 1 .. m
      BY <1>1, <2>6
    <3>2. CASE k = m + 1
      BY <2>3, <2>5, <3>1, <3>2
    <3>3. CASE k # m + 1
      BY <1>2, <2>3, <2>4, <2>6, <3>1, <3>3
    <3> QED BY <3>2, <3>3
  <2>7. ASSUME NEW k \in 1 .. m + 1
        PROVE  kept[k] = list[longer[k]] /\ kept[k] # ZeroAddress
    <3>1. CASE k = m + 1
      BY <1>4, <2>1, <2>3, <3>1
    <3>2. CASE k # m + 1
      BY <1>2, <2>1, <2>3, <2>4, <3>2
    <3> QED BY <3>1, <3>2
  <2>8. ASSUME NEW q \in 1 .. n + 1, list[q] # ZeroAddress
        PROVE  \E k \in 1 .. m + 1 : longer[k] = q
    <3>1. CASE q = n + 1
      BY <1>1, <2>3, <3>1
    <3>2. CASE q # n + 1
      <4>1. q \in 1 .. n
        BY <1>1, <3>2
      <4>2. PICK k \in 1 .. m : pos[k] = q
        BY <1>2, <2>8, <4>1
      <4>3. k \in 1 .. m + 1 /\ longer[k] = q
        BY <1>1, <2>3, <4>2
      <4> QED BY <4>3
    <3> QED BY <3>1, <3>2
  <2>9. PlacedAt(longer, kept, list, n + 1)
    BY <2>1, <2>2, <2>6, <2>7, <2>8 DEF PlacedAt
  <2> QED BY <2>1, <2>9 DEF kept
<1> QED BY <1>3, <1>4

LEMMA KeptHistory ==
  ASSUME NEW S, NEW list \in Seq(S)
  PROVE  \E kept :
           /\ kept[0] = <<>>
           /\ \A n \in 1 .. Len(list) : kept[n] = Keep(kept[n - 1], list[n])
           /\ WithoutDropped(list) = kept[Len(list)]
<1> DEFINE m == Len(list)
           I == Seq(S)
           round == [n \in 1 .. m |-> [r \in I |-> Keep(r, list[n])]]
<1>1. m \in Nat /\ <<>> \in I /\ \A n \in 1 .. m : list[n] \in S
  OBVIOUS
<1>2. \A r \in I, s \in S : Keep(r, s) \in I
  BY DEF Keep
<1> HIDE DEF I, m
<1>3. round \in [1 .. m -> [I -> I]]
  BY <1>1, <1>2
<1>4. PICK g : IsHistory(g, m, I, <<>>, round)
  <2> HIDE DEF round
  <2> QED BY <1>1, <1>3, LoopHistory
<1>5. g \in [0 .. m -> I] /\ g[0] = <<>>
  BY <1>4 DEF IsHistory
<1>6. \A n \in 1 .. m : g[n] = Keep(g[n - 1], list[n])
  <2> TAKE n \in 1 .. m
  <2>1. n - 1 \in 0 .. m
    BY <1>1
  <2>2. g[n - 1] \in I
    BY <1>5, <2>1
  <2> QED BY <1>4, <2>2 DEF IsHistory
<1> DEFINE IsLoop(f) ==
             f = [n \in 0 .. m |-> IF n = 0 THEN <<>> ELSE Keep(f[n - 1], list[n])]
           after == CHOOSE f : IsLoop(f)
<1>7. IsLoop(g)
  BY <1>1, <1>5, <1>6
<1>8. IsLoop(after)
  <2> HIDE DEF IsLoop
  <2> QED BY <1>7
<1>9. WithoutDropped(list) = after[m]
  BY Zenon DEF WithoutDropped, m
<1> HIDE DEF after
<1>10. /\ after[0] = <<>>
       /\ \A n \in 1 .. m : after[n] = Keep(after[n - 1], list[n])
  BY <1>1, <1>8
<1> QED BY <1>9, <1>10 DEF m

LEMMA Filtered ==
  ASSUME NEW S, NEW list \in Seq(S)
  PROVE  /\ WithoutDropped(list) \in Seq(S)
         /\ \E pos : PlacedAt(pos, WithoutDropped(list), list, Len(list))
<1> DEFINE m == Len(list)
<1>1. PICK kept :
        /\ kept[0] = <<>>
        /\ \A n \in 1 .. m : kept[n] = Keep(kept[n - 1], list[n])
        /\ WithoutDropped(list) = kept[m]
  BY KeptHistory
<1> DEFINE Placed(n) == kept[n] \in Seq(S) /\ \E pos : PlacedAt(pos, kept[n], list, n)
           Good == {n \in 0 .. m : Placed(n)}
<1>2. m \in Nat
  OBVIOUS
<1>3. 0 \in Good
  <2> DEFINE none == [k \in 1 .. 0 |-> 0]
  <2>1. PlacedAt(none, <<>>, list, 0)
    BY DEF PlacedAt
  <2> HIDE DEF none
  <2>2. <<>> \in Seq(S) /\ kept[0] = <<>> /\ 0 \in 0 .. m
    BY <1>1, <1>2
  <2>3. Placed(0)
    BY <2>1, <2>2
  <2> QED BY <2>2, <2>3
<1>4. ASSUME NEW n \in 0 .. m, n # m, n \in Good
      PROVE  n + 1 \in Good
  <2>1. PICK pos : PlacedAt(pos, kept[n], list, n)
    BY <1>4
  <2>2. kept[n] \in Seq(S) /\ n + 1 \in 1 .. m /\ n + 1 \in 0 .. m /\ n + 1 - 1 = n
    BY <1>2, <1>4
  <2> DEFINE r == kept[n]
             next == Keep(r, list[n + 1])
  <2>3. kept[n + 1] = next
    BY <1>1, <2>2
  <2>4. next \in Seq(S) /\ \E p : PlacedAt(p, next, list, n + 1)
    <3>1. r \in Seq(S) /\ PlacedAt(pos, r, list, n)
      BY <2>1, <2>2
    <3> HIDE DEF r
    <3> QED BY <1>4, <3>1, OneKept
  <2> HIDE DEF next
  <2> QED BY <2>2, <2>3, <2>4
<1>5. m \in Good
  <2>1. Good \in SUBSET (0 .. m)
    OBVIOUS
  <2> HIDE DEF Good
  <2>2. Good = 0 .. m
    BY <1>2, <1>3, <1>4, <2>1, InductionUpTo
  <2> QED BY <1>2, <2>2
<1> QED BY <1>1, <1>5

(***************************************************************************)
(* Sets of lists.                                                          *)
(***************************************************************************)
Dropped == Addresses \cup {ZeroAddress}

\* l without entry i of its list of one kind.
Dropping(l, kind, i) == [l EXCEPT ![kind] = [@ EXCEPT ![i] = ZeroAddress]]
Adding(l, kind, a) == [l EXCEPT ![kind] = Append(@, a)]

LEMMA EmptyAre == AreLists(EmptyLists, Addresses)
BY DEF AreLists, EmptyLists

LEMMA WiderLists ==
  ASSUME NEW l, AreLists(l, Addresses)
  PROVE  AreLists(l, Dropped)
<1>1. \A k \in Kinds : l[k] \in Seq(Addresses)
  BY DEF AreLists
<1>2. \A k \in Kinds : l[k] \in Seq(Dropped)
  BY <1>1 DEF Dropped
<1> QED BY <1>2 DEF AreLists

LEMMA NarrowerLists ==
  ASSUME NEW l, AreLists(l, Dropped), \A k \in Kinds : \A i \in DOMAIN l[k] : l[k][i] # ZeroAddress
  PROVE  AreLists(l, Addresses)
<1>1. ASSUME NEW k \in Kinds PROVE l[k] \in Seq(Addresses)
  <2> DEFINE list == l[k]
  <2>1. list \in Seq(Dropped) /\ \A i \in 1 .. Len(list) : list[i] \in Dropped
    BY DEF AreLists
  <2>2. \A i \in 1 .. Len(list) : list[i] \in Addresses
    BY <2>1 DEF Dropped
  <2> HIDE DEF list
  <2>3. list \in Seq(Addresses)
    BY <2>1, <2>2
  <2> QED BY <2>3 DEF list
<1> QED BY <1>1 DEF AreLists

LEMMA AddingLists ==
  ASSUME NEW l, AreLists(l, Addresses), NEW kind \in Kinds, NEW a \in Addresses,
         \A i \in DOMAIN l[kind] : l[kind][i] # a
  PROVE  AreLists(Adding(l, kind, a), Addresses)
<1> DEFINE list == l[kind]
           n == Len(list)
           longer == Append(list, a)
<1>1. l \in [Kinds -> Seq(Addresses)] /\ list \in Seq(Addresses)
  BY DEF AreLists
<1>2. /\ longer \in Seq(Addresses) /\ DOMAIN longer = 1 .. n + 1 /\ DOMAIN list = 1 .. n
      /\ n \in Nat /\ longer[n + 1] = a /\ \A i \in 1 .. n : longer[i] = list[i]
  BY <1>1
<1>3. \A i, j \in 1 .. n : list[i] = list[j] => i = j \/ list[i] = ZeroAddress
  BY <1>2 DEF AreLists
<1>4. \A i \in 1 .. n : list[i] # a
  BY <1>2
<1>5. Adding(l, kind, a) = [l EXCEPT ![kind] = longer]
  BY DEF Adding
<1> HIDE DEF list, n, longer
<1>6. \A i, j \in DOMAIN longer : longer[i] = longer[j] => i = j \/ longer[i] = ZeroAddress
  BY <1>2, <1>3, <1>4
<1> DEFINE new == Adding(l, kind, a)
<1>7. new \in [Kinds -> Seq(Addresses)]
      /\ \A k \in Kinds : new[k] = IF k = kind THEN longer ELSE l[k]
  BY <1>1, <1>2, <1>5
<1> HIDE DEF new
<1>8. AreLists(new, Addresses)
  BY <1>6, <1>7 DEF AreLists
<1> QED BY <1>8 DEF new

LEMMA DroppingLists ==
  ASSUME NEW l, AreLists(l, Dropped), NEW kind \in Kinds, NEW i \in DOMAIN l[kind]
  PROVE  AreLists(Dropping(l, kind, i), Dropped)
<1> DEFINE list == l[kind]
           less == [list EXCEPT ![i] = ZeroAddress]
<1>1. l \in [Kinds -> Seq(Dropped)] /\ list \in Seq(Dropped) /\ ZeroAddress \in Dropped
  BY DEF AreLists, Dropped
<1>2. /\ less \in Seq(Dropped) /\ DOMAIN less = DOMAIN list
      /\ \A j \in DOMAIN list : less[j] = IF j = i THEN ZeroAddress ELSE list[j]
  BY <1>1
<1>3. \A h, j \in DOMAIN list : list[h] = list[j] => h = j \/ list[h] = ZeroAddress
  BY DEF AreLists
<1>4. Dropping(l, kind, i) = [l EXCEPT ![kind] = less]
  BY DEF Dropping
<1> HIDE DEF list, less
<1>5. \A h, j \in DOMAIN less : less[h] = less[j] => h = j \/ less[h] = ZeroAddress
  BY <1>2, <1>3
<1> DEFINE new == Dropping(l, kind, i)
<1>6. new \in [Kinds -> Seq(Dropped)]
      /\ \A k \in Kinds : new[k] = IF k = kind THEN less ELSE l[k]
  BY <1>1, <1>2, <1>4
<1> HIDE DEF new
<1>7. AreLists(new, Dropped)
  BY <1>5, <1>6 DEF AreLists
<1> QED BY <1>7 DEF new

LEMMA CleanedLists ==
  ASSUME NEW l, AreLists(l, Dropped), NEW kind \in Kinds,
         \A k \in Kinds \ {kind} : \A i \in DOMAIN l[k] : l[k][i] # ZeroAddress
  PROVE  AreLists(Cleaned(l, kind), Addresses)
<1> DEFINE list == l[kind]
           less == WithoutDropped(list)
           new == Cleaned(l, kind)
<1>1. l \in [Kinds -> Seq(Dropped)] /\ list \in Seq(Dropped)
  BY DEF AreLists
<1>2. PICK pos : PlacedAt(pos, less, list, Len(list))
  BY <1>1, Filtered
<1>3. less \in Seq(Dropped)
  BY <1>1, Filtered
<1>4. \A h, j \in DOMAIN list : list[h] = list[j] => h = j \/ list[h] = ZeroAddress
  BY DEF AreLists
<1>5. new \in [Kinds -> Seq(Dropped)]
      /\ \A k \in Kinds : new[k] = IF k = kind THEN less ELSE l[k]
  BY <1>1, <1>3 DEF Cleaned
<1>6. DOMAIN list = 1 .. Len(list) /\ DOMAIN less = 1 .. Len(less) /\ Len(less) \in Nat
  BY <1>1, <1>3
<1> HIDE DEF list, less, new
<1>7. \A k \in DOMAIN less : less[k] # ZeroAddress
  BY <1>2, <1>6 DEF PlacedAt
<1>8. ASSUME NEW h \in DOMAIN less, NEW j \in DOMAIN less, less[h] = less[j]
      PROVE  h = j
  <2>1. pos[h] \in DOMAIN list /\ pos[j] \in DOMAIN list
    BY <1>2, <1>6 DEF PlacedAt
  <2>2. pos[h] = pos[j]
    BY <1>2, <1>4, <1>6, <1>8, <2>1 DEF PlacedAt
  <2>3. ~(h < j) /\ ~(j < h)
    BY <1>2, <1>6, <2>1, <2>2 DEF PlacedAt
  <2> QED BY <1>6, <2>3
<1>9. AreLists(new, Dropped)
  BY <1>4, <1>5, <1>8 DEF AreLists, list
<1>10. \A k \in Kinds : \A i \in DOMAIN new[k] : new[k][i] # ZeroAddress
  BY <1>5, <1>7
<1>11. AreLists(new, Addresses)
  BY <1>9, <1>10, NarrowerLists
<1> QED BY <1>11 DEF new

(***************************************************************************)
(* A session and its copy.                                                 *)
(***************************************************************************)
Places == {"off", "ready", "save", "write", "scan", "answer"}
TaskType ==
  [at: Places, kind: Kinds, tag: Tags \cup {NoTag}, within: BOOLEAN, i: Nat,
   found: Dropped, dirty: BOOLEAN]

\* Only the list a session probes holds dropped entries.
SessionFits(t, l) ==
  /\ t \in TaskType
  /\ AreLists(l, IF t.at = "scan" THEN Dropped ELSE Addresses)
  /\ t.at = "save" => t.found \in Addresses
  /\ t.at = "scan" =>
       /\ t.i \in 0 .. Len(l[t.kind])
       /\ \A k \in Kinds \ {t.kind} : \A i \in DOMAIN l[k] : l[k][i] # ZeroAddress

SessionsFit ==
  /\ task \in [Sessions -> TaskType]
  /\ lists \in [Sessions -> [Kinds -> Seq(Dropped)]]
  /\ \A p \in Sessions : SessionFits(task[p], lists[p])

FileFits == AreLists(file.lists, Addresses)
CodeFits == code \in [Addresses -> Contents \cup {NoCode}]

TypeInv == SessionsFit /\ FileFits /\ CodeFits /\ faults \in 0 .. MaxFaults

LEMMA TypeInvSuffices == TypeInv => HistoryTypeOK
BY DEF TypeInv, SessionsFit, SessionFits, FileFits, CodeFits, HistoryTypeOK, TaskType, Places,
       Dropped

\* The step of one session replaces its task and its copy.
Moves(p, t, l) ==
  /\ task' = [task EXCEPT ![p] = t]
  /\ lists' = [lists EXCEPT ![p] = l]

LEMMA MovesFit ==
  ASSUME SessionsFit, NEW p \in Sessions, NEW t, NEW l, SessionFits(t, l), Moves(p, t, l)
  PROVE  SessionsFit'
<1>1. t \in TaskType
  BY DEF SessionFits
<1>2. l \in [Kinds -> Seq(Dropped)]
  <2>1. AreLists(l, Dropped)
    BY WiderLists DEF SessionFits
  <2> QED BY <2>1 DEF AreLists
<1>3. task' \in [Sessions -> TaskType] /\ lists' \in [Sessions -> [Kinds -> Seq(Dropped)]]
  <2> DEFINE T == TaskType
             L == [Kinds -> Seq(Dropped)]
  <2>1. t \in T /\ l \in L /\ task \in [Sessions -> T] /\ lists \in [Sessions -> L]
    BY <1>1, <1>2 DEF SessionsFit
  <2> HIDE DEF T, L
  <2>2. task' \in [Sessions -> T] /\ lists' \in [Sessions -> L]
    BY <2>1 DEF Moves
  <2> QED BY <2>2 DEF T, L
<1>4. \A q \in Sessions : /\ task'[q] = IF q = p THEN t ELSE task[q]
                          /\ lists'[q] = IF q = p THEN l ELSE lists[q]
  BY DEF Moves, SessionsFit
<1>5. \A q \in Sessions : SessionFits(task'[q], lists'[q])
  BY <1>4 DEF SessionsFit
<1> QED BY <1>3, <1>5 DEF SessionsFit

(***************************************************************************)
(* The steps of a session, as replacements of its task and its copy.       *)
(***************************************************************************)
Stored == IF Readable(file) /\ file.chain = Chain THEN file.lists ELSE EmptyLists

LEMMA TaskMoves ==
  ASSUME SessionsFit, NEW p \in Sessions, NEW t, task' = [task EXCEPT ![p] = t],
         UNCHANGED lists
  PROVE  Moves(p, t, lists[p])
<1>1. lists = [lists EXCEPT ![p] = lists[p]]
  BY DEF SessionsFit
<1> QED BY <1>1 DEF Moves

Replied(a) == [Ready EXCEPT !.found = a]

LEMMA LoadMoves ==
  ASSUME SessionsFit, NEW p \in Sessions, Load(p)
  PROVE  /\ ~Active(p) /\ Moves(p, Ready, Stored)
         /\ disturbed' = (disturbed \/ \E q \in Sessions : Active(q))
         /\ UNCHANGED <<code, born, file, faults>>
BY DEF Load, Moves, Stored

\* The task of p once it has deployed a, and the one that goes on to write it.
Saving(kind, a) == [Ready EXCEPT !.at = "save", !.kind = kind, !.found = a]
Writing(t) == [t EXCEPT !.at = "write", !.dirty = FALSE]
Written(t) == IF t.i = 0 THEN Ready ELSE [t EXCEPT !.at = "answer", !.dirty = FALSE]

LEMMA DeployMoves ==
  ASSUME SessionsFit, NEW p \in Sessions, NEW a \in Addresses, NEW c \in Contents,
         Deploy(p, a, c)
  PROVE  /\ task[p].at = "ready" /\ Moves(p, Saving(c.kind, a), lists[p])
         /\ UNCHANGED <<file, faults>>
BY TaskMoves DEF Deploy, Saving

LEMMA SaveMoves ==
  ASSUME SessionsFit, NEW p \in Sessions, Save(p)
  PROVE  /\ task[p].at = "save"
         /\ \/ /\ \E i \in DOMAIN lists[p][task[p].kind] :
                    lists[p][task[p].kind][i] = task[p].found
               /\ Moves(p, Ready, lists[p])
               /\ UNCHANGED file
            \/ /\ \A i \in DOMAIN lists[p][task[p].kind] :
                    lists[p][task[p].kind][i] # task[p].found
               /\ Moves(p, Writing(task[p]), Adding(lists[p], task[p].kind, task[p].found))
               /\ file' = Torn
         /\ UNCHANGED <<code, born, faults, disturbed>>
<1> DEFINE known == \E i \in DOMAIN lists[p][task[p].kind] :
                      lists[p][task[p].kind][i] = task[p].found
<1>1. CASE known /\ task' = [task EXCEPT ![p] = Ready] /\ UNCHANGED <<file, lists>>
  <2>1. Moves(p, Ready, lists[p])
    BY <1>1, TaskMoves
  <2> QED BY <1>1, <2>1 DEF Save
<1>2. CASE ~known /\ OpenForWrite(p, Adding(lists[p], task[p].kind, task[p].found), task[p])
  BY <1>2 DEF OpenForWrite, Moves, Writing, Save
<1> QED BY <1>1, <1>2 DEF Save, Adding

LEMMA FailWriteMoves ==
  ASSUME SessionsFit, NEW p \in Sessions, FailWrite(p)
  PROVE  /\ task[p].at = "write" /\ Moves(p, Written(task[p]), lists[p]) /\ disturbed'
         /\ faults < MaxFaults /\ faults' = faults + 1
         /\ UNCHANGED <<code, born, file>>
BY TaskMoves DEF FailWrite, Written

LEMMA StartMoves ==
  ASSUME SessionsFit, NEW p \in Sessions, NEW kind \in Kinds, NEW tag, NEW within,
         StartResolve(p, kind, tag, within)
  PROVE  /\ task[p].at = "ready"
         /\ \/ \E a \in Dropped : Moves(p, Replied(a), lists[p])
            \/ /\ kind = "ClaimIssuer" /\ within => TrustedIssuersOf(tag) = {}
               /\ Moves(p, [Ready EXCEPT !.at = "scan", !.kind = kind, !.tag = tag,
                              !.within = within, !.i = Len(lists[p][kind])], lists[p])
         /\ kind # "Token" => tag # NoTag
         /\ kind = "Token" => ~within
         /\ UNCHANGED <<code, born, file, faults, disturbed>>
<1> DEFINE trusted == TrustedIssuersOf(tag)
           a == IF Cardinality(trusted) = 1 THEN CHOOSE b \in trusted : TRUE ELSE ZeroAddress
           t == [Ready EXCEPT !.at = "scan", !.kind = kind, !.tag = tag,
                              !.within = within, !.i = Len(lists[p][kind])]
<1>1. CASE trusted # {} /\ Reply(p, a)
  <2>1. UNCHANGED lists
    BY DEF StartResolve
  <2>2. trusted \subseteq Addresses
    BY DEF TrustedIssuersOf
  <2>3. a \in Dropped
    <3> HIDE DEF trusted
    <3> QED BY <1>1, <2>2 DEF Dropped
  <2>4. Moves(p, Replied(a), lists[p])
    <3> HIDE DEF a
    <3> QED BY <1>1, <2>1, TaskMoves DEF Reply, Replied
  <2> HIDE DEF a
  <2>5. \E b \in Dropped : Moves(p, Replied(b), lists[p])
    BY <2>3, <2>4
  <2> QED BY <2>5 DEF StartResolve
<1>2. CASE ~(kind = "ClaimIssuer" /\ within /\ trusted # {}) /\ task' = [task EXCEPT ![p] = t]
  <2>1. UNCHANGED lists
    BY DEF StartResolve
  <2>2. Moves(p, t, lists[p])
    <3> HIDE DEF t
    <3> QED BY <1>2, <2>1, TaskMoves
  <2> QED BY <1>2, <2>2 DEF StartResolve
<1> QED BY <1>1, <1>2 DEF StartResolve

LEMMA VisitMoves ==
  ASSUME SessionsFit, NEW p \in Sessions, Visit(p)
  PROVE  LET t == task[p]
             a == lists[p][t.kind][t.i]
         IN /\ t.at = "scan" /\ t.found = ZeroAddress /\ t.i \in 1 .. Len(lists[p][t.kind])
            /\ \/ /\ IsA(a, t.kind) /\ Matches(a, t.kind, t.tag, t.within)
                  /\ Moves(p, [t EXCEPT !.found = a], lists[p])
               \/ /\ IsA(a, t.kind) /\ ~Matches(a, t.kind, t.tag, t.within)
                  /\ Moves(p, [t EXCEPT !.i = t.i - 1], lists[p])
               \/ /\ ~IsA(a, t.kind)
                  /\ Moves(p, [t EXCEPT !.i = t.i - 1], Dropping(lists[p], t.kind, t.i))
            /\ UNCHANGED <<code, born, file, faults, disturbed>>
<1> DEFINE t == task[p]
           l == lists[p]
           a == l[t.kind][t.i]
<1>1. t \in TaskType /\ t.at = "scan" /\ t.found = ZeroAddress /\ t.i > 0
  BY DEF SessionsFit, Visit, Scanning
<1>2. t.i \in 1 .. Len(l[t.kind])
  BY <1>1 DEF SessionsFit, SessionFits, TaskType
<1>3. CASE IsA(a, t.kind) /\ Matches(a, t.kind, t.tag, t.within)
  <2>1. task' = [task EXCEPT ![p] = [t EXCEPT !.found = a]] /\ UNCHANGED lists
    BY <1>3 DEF Visit
  <2>2. Moves(p, [t EXCEPT !.found = a], l)
    BY <2>1, TaskMoves
  <2> QED BY <1>1, <1>2, <1>3, <2>2 DEF Visit
<1>4. CASE IsA(a, t.kind) /\ ~Matches(a, t.kind, t.tag, t.within)
  <2>1. task' = [task EXCEPT ![p] = [t EXCEPT !.i = t.i - 1]] /\ UNCHANGED lists
    BY <1>4 DEF Visit
  <2>2. Moves(p, [t EXCEPT !.i = t.i - 1], l)
    BY <2>1, TaskMoves
  <2> QED BY <1>1, <1>2, <1>4, <2>2 DEF Visit
<1>5. CASE ~IsA(a, t.kind)
  <2>1. task' = [task EXCEPT ![p].i = t.i - 1]
        /\ lists' = [lists EXCEPT ![p][t.kind][t.i] = ZeroAddress]
    BY <1>5 DEF Visit
  <2>2. Moves(p, [t EXCEPT !.i = t.i - 1], Dropping(l, t.kind, t.i))
    BY <2>1 DEF Moves, Dropping
  <2> QED BY <1>1, <1>2, <1>5, <2>2 DEF Visit
<1> QED BY <1>3, <1>4, <1>5

LEMMA MisreadMoves ==
  ASSUME SessionsFit, NEW p \in Sessions, MisreadEntry(p)
  PROVE  /\ task[p].at = "scan" /\ task[p].found = ZeroAddress
         /\ task[p].i \in 1 .. Len(lists[p][task[p].kind])
         /\ Moves(p, [task[p] EXCEPT !.i = task[p].i - 1],
                  Dropping(lists[p], task[p].kind, task[p].i))
         /\ faults < MaxFaults /\ faults' = faults + 1 /\ disturbed'
         /\ UNCHANGED <<code, born, file>>
<1>1. task[p] \in TaskType /\ task[p].at = "scan" /\ task[p].found = ZeroAddress /\ task[p].i > 0
  BY DEF SessionsFit, MisreadEntry, Scanning
<1>2. task[p].i \in 1 .. Len(lists[p][task[p].kind])
  BY <1>1 DEF SessionsFit, SessionFits, TaskType
<1>3. Moves(p, [task[p] EXCEPT !.i = task[p].i - 1],
            Dropping(lists[p], task[p].kind, task[p].i))
  BY DEF MisreadEntry, Moves, Dropping
<1> QED BY <1>1, <1>2, <1>3 DEF MisreadEntry

Ended(t) == [t EXCEPT !.i = 1]

LEMMA EndMoves ==
  ASSUME SessionsFit, NEW p \in Sessions, EndScan(p)
  PROVE  /\ task[p].at = "scan" /\ ~(task[p].found = ZeroAddress /\ task[p].i > 0)
         /\ \/ /\ Moves(p, Writing(Ended(task[p])), Cleaned(lists[p], task[p].kind))
               /\ file' = Torn
            \/ /\ \A i \in DOMAIN lists[p][task[p].kind] :
                    lists[p][task[p].kind][i] # ZeroAddress
               /\ Moves(p, [Ended(task[p]) EXCEPT !.at = "answer"], lists[p])
               /\ UNCHANGED file
         /\ UNCHANGED <<code, born, faults, disturbed>>
<1> DEFINE dropped == \E i \in DOMAIN lists[p][task[p].kind] :
                        lists[p][task[p].kind][i] = ZeroAddress
<1>1. CASE dropped /\ OpenForWrite(p, Cleaned(lists[p], task[p].kind), Ended(task[p]))
  BY <1>1 DEF OpenForWrite, Moves, Writing, EndScan, Scanning
<1>2. CASE /\ ~dropped
           /\ task' = [task EXCEPT ![p] = [Ended(task[p]) EXCEPT !.at = "answer"]]
           /\ UNCHANGED <<file, lists>>
  <2>1. Moves(p, [Ended(task[p]) EXCEPT !.at = "answer"], lists[p])
    BY <1>2, TaskMoves
  <2> QED BY <1>2, <2>1 DEF EndScan, Scanning
<1> QED BY <1>1, <1>2 DEF EndScan, Ended

LEMMA AnswerMoves ==
  ASSUME SessionsFit, NEW p \in Sessions, Answer(p)
  PROVE  /\ task[p].at = "answer"
         /\ \E a \in Dropped : Moves(p, Replied(a), lists[p])
         /\ UNCHANGED <<code, born, file, faults, disturbed>>
<1> DEFINE t == task[p]
           salted == IF t.kind = "Token" THEN TokenFromSalt(p, t.tag) ELSE {}
           a == IF IsA(t.found, t.kind) THEN t.found
                ELSE IF t.tag # NoTag /\ salted # {} THEN CHOOSE b \in salted : TRUE
                ELSE ZeroAddress
<1>1. Reply(p, a) /\ UNCHANGED lists
  BY DEF Answer
<1>2. a \in Dropped
  <2>1. salted \subseteq Addresses
    BY DEF TokenFromSalt
  <2> HIDE DEF salted
  <2> QED BY <2>1 DEF IsA, Dropped
<1> HIDE DEF a
<1>3. Moves(p, Replied(a), lists[p])
  BY <1>1, TaskMoves DEF Reply, Replied
<1> QED BY <1>2, <1>3 DEF Answer

LEMMA FindMoves ==
  ASSUME SessionsFit, NEW p \in Sessions, NEW name, FindManager(p, name)
  PROVE  /\ task[p].at = "ready"
         /\ \E a \in Dropped : Moves(p, Replied(a), lists[p])
         /\ UNCHANGED <<code, born, file, faults, disturbed>>
<1> DEFINE l == lists[p]["DVATransferManager"]
           known(a) == IsA(a, "DVATransferManager") /\ code[a].listed /\ code[a].tag = name
           mine == {i \in DOMAIN l : known(l[i])}
           registered == \E a \in Addresses :
             IsA(a, "Identity") /\ code[a].tag = name /\ code[a].listed
           newest == CHOOSE i \in mine : \A j \in mine : j <= i
           r == IF \E i \in DOMAIN l : l[i] = name THEN name
                ELSE IF registered /\ mine # {} THEN l[newest] ELSE ZeroAddress
<1>1. Reply(p, r) /\ UNCHANGED lists
  BY DEF FindManager
<1>2. l \in Seq(Dropped)
  BY DEF SessionsFit, Kinds
<1>3. r \in Dropped
  <2>1. ASSUME mine # {} PROVE newest \in mine
    <3>1. mine \in SUBSET (1 .. Len(l)) /\ Len(l) \in Nat
      BY <1>2
    <3> HIDE DEF mine
    <3>2. \E i \in mine : \A j \in mine : j <= i
      BY <2>1, <3>1, GreatestNumber
    <3> QED BY <3>2
  <2>2. \A i \in DOMAIN l : l[i] \in Dropped
    BY <1>2
  <2> HIDE DEF l, registered, newest
  <2>3. CASE \E i \in DOMAIN l : l[i] = name
    BY <2>2, <2>3
  <2>4. CASE ~\E i \in DOMAIN l : l[i] = name
    <3>1. CASE mine # {}
      BY <2>1, <2>2, <2>4, <3>1 DEF Dropped
    <3>2. CASE mine = {}
      BY <2>4, <3>2 DEF Dropped
    <3> QED BY <3>1, <3>2
  <2> QED BY <2>3, <2>4
<1> HIDE DEF r
<1>4. Moves(p, Replied(r), lists[p])
  BY <1>1, TaskMoves DEF Reply, Replied
<1> QED BY <1>3, <1>4 DEF FindManager

LEMMA FactoryMoves ==
  ASSUME SessionsFit, NEW p \in Sessions, NEW token, ResolveTokenFactory(p, token)
  PROVE  /\ task[p].at = "ready"
         /\ \E a \in Dropped : Moves(p, Replied(a), lists[p])
         /\ UNCHANGED <<code, born, file, faults, disturbed>>
<1> DEFINE l == lists[p]["TREXFactory"]
           same == {l[i] : i \in {j \in DOMAIN l : code[l[j]].tag = code[code[token].by].tag}}
           r == IF (\A i \in DOMAIN l : IsA(l[i], "TREXFactory")) /\ Cardinality(same) = 1
                THEN CHOOSE a \in same : TRUE ELSE ZeroAddress
<1>1. Reply(p, r) /\ UNCHANGED lists
  BY DEF ResolveTokenFactory
<1>2. l \in Seq(Dropped)
  BY DEF SessionsFit, Kinds
<1>3. r \in Dropped
  <2>1. same \subseteq Dropped
    BY <1>2
  <2> HIDE DEF same
  <2>2. Cardinality({}) = 0
    BY FS_EmptySet
  <2> QED BY <2>1, <2>2 DEF Dropped
<1> HIDE DEF r
<1>4. Moves(p, Replied(r), lists[p])
  BY <1>1, TaskMoves DEF Reply, Replied
<1> QED BY <1>3, <1>4 DEF ResolveTokenFactory

LEMMA StopMoves ==
  ASSUME NEW p \in Sessions, Exit(p) \/ Crash(p)
  PROVE  /\ Moves(p, Off, EmptyLists)
         /\ UNCHANGED <<code, born, file, faults>>
BY DEF Exit, Crash, Stop, Moves

(***************************************************************************)
(* Types.                                                                  *)
(***************************************************************************)
LEMMA ReadyFits ==
  ASSUME NEW l, AreLists(l, Addresses), NEW a \in Dropped
  PROVE  SessionFits(Ready, l) /\ SessionFits(Replied(a), l)
<1>1. "Token" \in Kinds /\ ZeroAddress \in Dropped
  BY DEF Kinds, Dropped
<1>2. Ready \in TaskType /\ Replied(a) \in TaskType
  BY <1>1 DEF Ready, Replied, Off, TaskType, Places
<1>3. Ready.at = "ready" /\ Replied(a).at = "ready"
  BY DEF Ready, Replied, Off
<1> QED BY <1>2, <1>3 DEF SessionFits

LEMMA OffFits == SessionFits(Off, EmptyLists)
<1>1. "Token" \in Kinds /\ ZeroAddress \in Dropped
  BY DEF Kinds, Dropped
<1>2. Off \in TaskType
  BY <1>1 DEF Off, TaskType, Places
<1>3. Off.at = "off"
  BY DEF Off
<1> QED BY <1>2, <1>3, EmptyAre DEF SessionFits

LEMMA WritingFits ==
  ASSUME NEW t \in TaskType, NEW l, AreLists(l, Addresses)
  PROVE  SessionFits(Writing(t), l)
<1>1. Writing(t) \in TaskType /\ Writing(t).at = "write"
  BY DEF Writing, TaskType, Places
<1> QED BY <1>1 DEF SessionFits

LEMMA WrittenFits ==
  ASSUME NEW t \in TaskType, NEW l, AreLists(l, Addresses)
  PROVE  SessionFits(Written(t), l)
<1>1. CASE t.i = 0
  <2>1. ZeroAddress \in Dropped
    BY DEF Dropped
  <2> QED BY <1>1, <2>1, ReadyFits DEF Written
<1>2. CASE t.i # 0
  <2>1. Written(t) \in TaskType /\ Written(t).at = "answer"
    BY <1>2 DEF Written, TaskType, Places
  <2> QED BY <2>1 DEF SessionFits
<1> QED BY <1>1, <1>2

LEMMA TornFits == ASSUME file' = Torn PROVE FileFits'
BY EmptyAre DEF FileFits, Torn

LEMMA StoredAre == ASSUME FileFits PROVE AreLists(Stored, Addresses)
BY EmptyAre DEF Stored, FileFits

\* The lists a session that does not probe any holds.
LEMMA OwnLists ==
  ASSUME SessionsFit, NEW p \in Sessions
  PROVE  /\ task[p] \in TaskType
         /\ AreLists(lists[p], Dropped)
         /\ task[p].at # "scan" => AreLists(lists[p], Addresses)
         /\ task[p].at = "scan" => SessionFits(task[p], lists[p])
BY WiderLists DEF SessionsFit, SessionFits

\* A step of one session that leaves the file and the chain alone.
LEMMA QuietFits ==
  ASSUME TypeInv, NEW p \in Sessions, NEW t, NEW l, SessionFits(t, l), Moves(p, t, l),
         FileFits', CodeFits', faults' \in 0 .. MaxFaults
  PROVE  TypeInv'
BY MovesFit DEF TypeInv

LEMMA InitTypeInv == Init => TypeInv
<1> SUFFICES ASSUME Init PROVE TypeInv
  OBVIOUS
<1>1. SessionsFit
  <2>1. \A p \in Sessions : task[p] = Off /\ lists[p] = EmptyLists
    BY DEF Init
  <2>2. Off \in TaskType /\ EmptyLists \in [Kinds -> Seq(Dropped)]
    BY OffFits DEF SessionFits, EmptyLists
  <2>3. task \in [Sessions -> TaskType]
    BY <2>2 DEF Init
  <2>4. lists \in [Sessions -> [Kinds -> Seq(Dropped)]]
    BY <2>2 DEF Init
  <2> QED BY <2>1, <2>3, <2>4, OffFits DEF SessionsFit
<1>2. FileFits
  BY FilesAssumption DEF Init, FileFits
<1>3. CodeFits
  BY DEF Init, CodeFits
<1>4. faults \in 0 .. MaxFaults
  BY FaultsAssumption DEF Init
<1> QED BY <1>1, <1>2, <1>3, <1>4 DEF TypeInv

LEMMA SaveFits ==
  ASSUME TypeInv, NEW p \in Sessions, Save(p)
  PROVE  TypeInv'
<1> DEFINE t == task[p]
           l == lists[p]
<1>1. SessionsFit /\ FileFits /\ CodeFits /\ faults \in 0 .. MaxFaults
  BY DEF TypeInv
<1>2. /\ t \in TaskType /\ t.at = "save" /\ t.found \in Addresses /\ t.kind \in Kinds
      /\ AreLists(l, Addresses)
  BY <1>1, SaveMoves, OwnLists DEF SessionsFit, SessionFits, TaskType
<1>3. UNCHANGED <<code, faults>>
  BY <1>1, SaveMoves
<1>4. CASE Moves(p, Ready, l) /\ UNCHANGED file
  <2>1. SessionFits(Ready, l)
    BY <1>2, ReadyFits DEF Dropped
  <2> QED BY <1>1, <1>3, <1>4, <2>1, QuietFits DEF FileFits, CodeFits
<1>5. CASE /\ \A i \in DOMAIN l[t.kind] : l[t.kind][i] # t.found
           /\ Moves(p, Writing(t), Adding(l, t.kind, t.found))
           /\ file' = Torn
  <2>1. SessionFits(Writing(t), Adding(l, t.kind, t.found))
    BY <1>2, <1>5, AddingLists, WritingFits
  <2> QED BY <1>1, <1>3, <1>5, <2>1, TornFits, QuietFits DEF CodeFits
<1> QED BY <1>1, <1>4, <1>5, SaveMoves

LEMMA FinishWriteFits ==
  ASSUME TypeInv, NEW p \in Sessions, FinishWrite(p)
  PROVE  TypeInv'
<1>1. SessionsFit /\ FileFits /\ CodeFits /\ faults \in 0 .. MaxFaults
  BY DEF TypeInv
<1>2. task[p] \in TaskType /\ AreLists(lists[p], Addresses)
  BY <1>1, OwnLists DEF FinishWrite
<1>3. FileFits'
  <2>1. CASE file' = [chain |-> Chain, lists |-> lists[p]]
    BY <1>2, <2>1 DEF FileFits
  <2>2. CASE file' = Torn
    BY <2>2, TornFits
  <2> QED BY <2>1, <2>2 DEF FinishWrite
<1>4. /\ lists' = lists /\ UNCHANGED <<code, faults>>
      /\ task' = [q \in Sessions |-> IF q = p THEN Written(task[p])
                                     ELSE [task[q] EXCEPT !.dirty = task[q].at = "write"]]
  BY DEF FinishWrite, Written
<1>5. ASSUME NEW q \in Sessions
      PROVE  SessionFits(task'[q], lists'[q])
  <2>1. CASE q = p
    BY <1>2, <1>4, <2>1, WrittenFits
  <2>2. CASE q # p
    <3> DEFINE t == task[q]
               d == t.at = "write"
               u == [t EXCEPT !.dirty = d]
    <3>1. SessionFits(t, lists[q]) /\ t \in TaskType /\ d \in BOOLEAN
      BY <1>1 DEF SessionsFit
    <3>2. task'[q] = u
      BY <1>4, <2>2
    <3> HIDE DEF t, d
    <3>3. u \in TaskType /\ u.at = t.at /\ u.kind = t.kind /\ u.found = t.found /\ u.i = t.i
      BY <3>1 DEF TaskType
    <3> HIDE DEF u
    <3>4. SessionFits(u, lists[q])
      BY <3>1, <3>3 DEF SessionFits
    <3> QED BY <1>4, <3>2, <3>4
  <2> QED BY <2>1, <2>2
<1>6. task' \in [Sessions -> TaskType]
  <2>1. \A q \in Sessions : task'[q] \in TaskType
    BY <1>5 DEF SessionFits
  <2> QED BY <1>4, <2>1
<1>7. SessionsFit'
  BY <1>1, <1>4, <1>5, <1>6 DEF SessionsFit
<1> QED BY <1>1, <1>3, <1>4, <1>7 DEF TypeInv, CodeFits

LEMMA ScanFits ==
  ASSUME NEW t \in TaskType, NEW l, t.at = "scan", SessionFits(t, l),
         t.found = ZeroAddress, t.i \in 1 .. Len(l[t.kind])
  PROVE  /\ SessionFits([t EXCEPT !.i = t.i - 1], l)
         /\ SessionFits([t EXCEPT !.i = t.i - 1], Dropping(l, t.kind, t.i))
         /\ l[t.kind][t.i] \in Dropped
         /\ \A a \in Dropped : SessionFits([t EXCEPT !.found = a], l)
<1> DEFINE u == [t EXCEPT !.i = t.i - 1]
           list == l[t.kind]
           new == Dropping(l, t.kind, t.i)
<1>1. AreLists(l, Dropped) /\ t.kind \in Kinds
      /\ \A k \in Kinds \ {t.kind} : \A i \in DOMAIN l[k] : l[k][i] # ZeroAddress
  BY DEF SessionFits, TaskType
<1>2. list \in Seq(Dropped) /\ l \in [Kinds -> Seq(Dropped)]
  BY <1>1 DEF AreLists
<1>3. DOMAIN list = 1 .. Len(list) /\ Len(list) \in Nat
  BY <1>2
<1>4. t.i - 1 \in 0 .. Len(list) /\ t.i - 1 \in Nat
  BY <1>3
<1>5. u \in TaskType /\ u.at = "scan" /\ u.kind = t.kind /\ u.i = t.i - 1
  BY <1>4 DEF TaskType
<1>6. SessionFits(u, l)
  <2> HIDE DEF u
  <2> QED BY <1>1, <1>4, <1>5 DEF SessionFits
<1>7. AreLists(new, Dropped)
  BY <1>1, <1>3, DroppingLists
<1>8. /\ Len(new[t.kind]) = Len(list)
      /\ \A k \in Kinds \ {t.kind} : new[k] = l[k]
  BY <1>1, <1>2, <1>3 DEF Dropping
<1>9. SessionFits(u, new)
  <2> HIDE DEF u, new
  <2> QED BY <1>1, <1>4, <1>5, <1>7, <1>8 DEF SessionFits
<1>10. list[t.i] \in Dropped
  BY <1>2, <1>3
<1>11. ASSUME NEW a \in Dropped PROVE SessionFits([t EXCEPT !.found = a], l)
  <2> DEFINE v == [t EXCEPT !.found = a]
  <2>1. v \in TaskType /\ v.at = "scan" /\ v.kind = t.kind /\ v.i = t.i
    BY DEF TaskType
  <2> HIDE DEF v
  <2>2. SessionFits(v, l)
    BY <1>1, <2>1 DEF SessionFits
  <2> QED BY <2>2 DEF v
<1> QED BY <1>6, <1>9, <1>10, <1>11

LEMMA EndFits ==
  ASSUME TypeInv, NEW p \in Sessions, EndScan(p)
  PROVE  TypeInv'
<1> DEFINE t == task[p]
           l == lists[p]
<1>1. SessionsFit /\ FileFits /\ CodeFits /\ faults \in 0 .. MaxFaults
  BY DEF TypeInv
<1>2. t \in TaskType /\ t.at = "scan" /\ SessionFits(t, l) /\ t.kind \in Kinds
  BY <1>1, EndMoves, OwnLists DEF TaskType
<1>3. UNCHANGED <<code, faults>>
  BY <1>1, EndMoves
<1>4. /\ AreLists(l, Dropped)
      /\ \A k \in Kinds \ {t.kind} : \A i \in DOMAIN l[k] : l[k][i] # ZeroAddress
  BY <1>2 DEF SessionFits
<1>5. Ended(t) \in TaskType
  BY <1>2 DEF Ended, TaskType
<1>6. CASE /\ Moves(p, Writing(Ended(t)), Cleaned(l, t.kind))
           /\ file' = Torn
  <2>1. SessionFits(Writing(Ended(t)), Cleaned(l, t.kind))
    BY <1>2, <1>4, <1>5, CleanedLists, WritingFits
  <2> QED BY <1>1, <1>3, <1>6, <2>1, TornFits, QuietFits DEF CodeFits
<1>7. CASE /\ \A i \in DOMAIN l[t.kind] : l[t.kind][i] # ZeroAddress
           /\ Moves(p, [Ended(t) EXCEPT !.at = "answer"], l)
           /\ UNCHANGED file
  <2>1. AreLists(l, Addresses)
    <3>1. \A k \in Kinds : \A i \in DOMAIN l[k] : l[k][i] # ZeroAddress
      BY <1>4, <1>7
    <3> QED BY <1>4, <3>1, NarrowerLists
  <2> DEFINE u == [Ended(t) EXCEPT !.at = "answer"]
  <2>2. u \in TaskType /\ u.at = "answer"
    BY <1>5 DEF TaskType, Places
  <2> HIDE DEF u
  <2>3. SessionFits(u, l)
    BY <2>1, <2>2 DEF SessionFits
  <2>4. Moves(p, u, l) /\ UNCHANGED file
    BY <1>7 DEF u
  <2> QED BY <1>1, <1>3, <2>3, <2>4, QuietFits DEF CodeFits, FileFits
<1> QED BY <1>1, <1>6, <1>7, EndMoves

LEMMA RepliedFits ==
  ASSUME TypeInv, NEW p \in Sessions, task[p].at \in {"ready", "answer"}, NEW a \in Dropped,
         Moves(p, Replied(a), lists[p]), UNCHANGED <<code, file, faults>>
  PROVE  TypeInv'
<1>1. SessionsFit /\ FileFits /\ CodeFits /\ faults \in 0 .. MaxFaults
  BY DEF TypeInv
<1>2. SessionFits(Replied(a), lists[p])
  BY <1>1, OwnLists, ReadyFits
<1> QED BY <1>1, <1>2, QuietFits DEF FileFits, CodeFits

LEMMA UserFits ==
  ASSUME TypeInv, NEW p \in Sessions, UserNext(p)
  PROVE  TypeInv'
<1>1. SessionsFit /\ FileFits /\ CodeFits /\ faults \in 0 .. MaxFaults
  BY DEF TypeInv
<1>2. ASSUME Load(p) PROVE TypeInv'
  <2>1. AreLists(Stored, Addresses) /\ ZeroAddress \in Dropped
    BY <1>1, StoredAre DEF Dropped
  <2>2. SessionFits(Ready, Stored)
    BY <2>1, ReadyFits
  <2> QED BY <1>1, <1>2, <2>2, LoadMoves, QuietFits DEF FileFits, CodeFits
<1>3. ASSUME NEW a \in Addresses, NEW c \in Contents, Deploy(p, a, c)
      PROVE  TypeInv'
  <2> DEFINE t == Saving(c.kind, a)
  <2>1. AreLists(lists[p], Addresses)
    BY <1>1, <1>3, DeployMoves, OwnLists
  <2>2. c.kind \in Kinds
    BY ContentsAssumption DEF ContentType
  <2>3. t \in TaskType /\ t.at = "save" /\ t.found = a
    BY <2>2 DEF Saving, Ready, Off, TaskType, Places, Dropped
  <2> HIDE DEF t
  <2>4. SessionFits(t, lists[p])
    BY <2>1, <2>3 DEF SessionFits
  <2>5. Moves(p, t, lists[p]) /\ UNCHANGED <<file, faults>>
    BY <1>1, <1>3, DeployMoves DEF t
  <2>6. CodeFits'
    BY <1>1, <1>3 DEF Deploy, CodeFits
  <2> QED BY <1>1, <2>4, <2>5, <2>6, QuietFits DEF FileFits
<1>4. ASSUME NEW kind \in {"Token", "Identity", "ClaimIssuer"}, NEW tag \in Tags \cup {NoTag},
             NEW within \in BOOLEAN, StartResolve(p, kind, tag, within)
      PROVE  TypeInv'
  <2>0. kind \in Kinds
    BY DEF Kinds
  <2>1. /\ task[p].at = "ready" /\ AreLists(lists[p], Addresses)
        /\ UNCHANGED <<code, file, faults>>
    BY <1>1, <1>4, <2>0, StartMoves, OwnLists
  <2>2. CASE \E a \in Dropped : Moves(p, Replied(a), lists[p])
    BY <2>1, <2>2, RepliedFits
  <2> DEFINE t == [Ready EXCEPT !.at = "scan", !.kind = kind, !.tag = tag,
                              !.within = within, !.i = Len(lists[p][kind])]
  <2>3. CASE Moves(p, t, lists[p])
    <3>1. lists[p][kind] \in Seq(Addresses)
      BY <2>0, <2>1 DEF AreLists
    <3>2. Len(lists[p][kind]) \in Nat
      BY <3>1
    <3>3. t \in TaskType /\ t.at = "scan" /\ t.kind = kind /\ t.i = Len(lists[p][kind])
      BY <2>0, <3>2 DEF Ready, Off, TaskType, Places, Dropped
    <3> HIDE DEF t
    <3>4. \A k \in Kinds : \A i \in DOMAIN lists[p][k] : lists[p][k][i] # ZeroAddress
      <4>1. \A k \in Kinds : lists[p][k] \in Seq(Addresses)
        BY <2>1 DEF AreLists
      <4> QED BY <4>1, ZeroAssumption
    <3>5. t.i \in 0 .. Len(lists[p][t.kind])
      BY <3>2, <3>3
    <3>6. SessionFits(t, lists[p])
      BY <2>1, <3>3, <3>4, <3>5, WiderLists DEF SessionFits
    <3> QED BY <1>1, <2>1, <2>3, <3>6, QuietFits DEF FileFits, CodeFits
  <2> QED BY <1>1, <1>4, <2>0, <2>2, <2>3, StartMoves
<1>5. ASSUME NEW name, FindManager(p, name) PROVE TypeInv'
  <2>1. /\ task[p].at = "ready" /\ \E a \in Dropped : Moves(p, Replied(a), lists[p])
        /\ UNCHANGED <<code, file, faults>>
    BY <1>1, <1>5, FindMoves
  <2> QED BY <2>1, RepliedFits
<1>6. ASSUME NEW token, ResolveTokenFactory(p, token) PROVE TypeInv'
  <2>1. /\ task[p].at = "ready" /\ \E a \in Dropped : Moves(p, Replied(a), lists[p])
        /\ UNCHANGED <<code, file, faults>>
    BY <1>1, <1>6, FactoryMoves
  <2> QED BY <2>1, RepliedFits
<1>7. ASSUME Exit(p) PROVE TypeInv'
  BY <1>1, <1>7, StopMoves, OffFits, QuietFits DEF FileFits, CodeFits
<1> QED BY <1>2, <1>3, <1>4, <1>5, <1>6, <1>7, Zenon DEF UserNext

LEMMA VisitFits ==
  ASSUME TypeInv, NEW p \in Sessions, Visit(p)
  PROVE  TypeInv'
<1> DEFINE t == task[p]
           l == lists[p]
           a == l[t.kind][t.i]
<1>1. SessionsFit /\ FileFits /\ CodeFits /\ faults \in 0 .. MaxFaults
  BY DEF TypeInv
<1>2. /\ t \in TaskType /\ t.at = "scan" /\ t.found = ZeroAddress /\ t.i \in 1 .. Len(l[t.kind])
      /\ SessionFits(t, l) /\ UNCHANGED <<code, file, faults>>
  BY <1>1, VisitMoves, OwnLists
<1>3. /\ SessionFits([t EXCEPT !.i = t.i - 1], l)
      /\ SessionFits([t EXCEPT !.i = t.i - 1], Dropping(l, t.kind, t.i))
      /\ SessionFits([t EXCEPT !.found = a], l)
  BY <1>2, ScanFits
<1>4. \/ Moves(p, [t EXCEPT !.found = a], l)
      \/ Moves(p, [t EXCEPT !.i = t.i - 1], l)
      \/ Moves(p, [t EXCEPT !.i = t.i - 1], Dropping(l, t.kind, t.i))
  BY <1>1, VisitMoves
<1>5. FileFits' /\ CodeFits' /\ faults' \in 0 .. MaxFaults
  BY <1>1, <1>2 DEF FileFits, CodeFits
<1> HIDE DEF t, l, a
<1> QED BY <1>3, <1>4, <1>5, QuietFits

LEMMA MisreadFits ==
  ASSUME TypeInv, NEW p \in Sessions, MisreadEntry(p)
  PROVE  TypeInv'
<1> DEFINE t == task[p]
           l == lists[p]
<1>1. SessionsFit /\ FileFits /\ CodeFits /\ faults \in 0 .. MaxFaults
  BY DEF TypeInv
<1>2. /\ t \in TaskType /\ t.at = "scan" /\ t.found = ZeroAddress /\ t.i \in 1 .. Len(l[t.kind])
      /\ SessionFits(t, l) /\ UNCHANGED <<code, file>>
      /\ faults < MaxFaults /\ faults' = faults + 1
  BY <1>1, MisreadMoves, OwnLists
<1>3. SessionFits([t EXCEPT !.i = t.i - 1], Dropping(l, t.kind, t.i))
  BY <1>2, ScanFits
<1>4. Moves(p, [t EXCEPT !.i = t.i - 1], Dropping(l, t.kind, t.i))
  BY <1>1, MisreadMoves
<1>5. FileFits' /\ CodeFits' /\ faults' \in 0 .. MaxFaults
  BY <1>1, <1>2, FaultsAssumption DEF FileFits, CodeFits
<1> HIDE DEF t, l
<1> QED BY <1>3, <1>4, <1>5, QuietFits

LEMMA FailWriteFits ==
  ASSUME TypeInv, NEW p \in Sessions, FailWrite(p)
  PROVE  TypeInv'
<1>1. SessionsFit /\ FileFits /\ CodeFits /\ faults \in 0 .. MaxFaults
  BY DEF TypeInv
<1>2. /\ task[p].at = "write" /\ Moves(p, Written(task[p]), lists[p])
      /\ faults < MaxFaults /\ faults' = faults + 1 /\ UNCHANGED <<code, file>>
  BY <1>1, FailWriteMoves
<1>3. SessionFits(Written(task[p]), lists[p])
  BY <1>1, <1>2, OwnLists, WrittenFits
<1>4. FileFits' /\ CodeFits' /\ faults' \in 0 .. MaxFaults
  BY <1>1, <1>2, FaultsAssumption DEF FileFits, CodeFits
<1> QED BY <1>2, <1>3, <1>4, QuietFits

LEMMA AnswerFits ==
  ASSUME TypeInv, NEW p \in Sessions, Answer(p)
  PROVE  TypeInv'
<1>1. SessionsFit
  BY DEF TypeInv
<1>2. /\ task[p].at = "answer" /\ \E a \in Dropped : Moves(p, Replied(a), lists[p])
      /\ UNCHANGED <<code, file, faults>>
  BY <1>1, AnswerMoves
<1> QED BY <1>2, RepliedFits

LEMMA NextTypeInv ==
  ASSUME TypeInv, [Next]_vars
  PROVE  TypeInv'
<1>1. CASE UNCHANGED vars
  BY <1>1 DEF TypeInv, SessionsFit, FileFits, CodeFits, vars
<1>2. ASSUME NEW p \in Sessions, Proceed(p) PROVE TypeInv'
  BY <1>2, SaveFits, FinishWriteFits, VisitFits, EndFits, AnswerFits, Zenon DEF Proceed
<1>3. ASSUME NEW p \in Sessions, Crash(p) PROVE TypeInv'
  BY <1>3, StopMoves, OffFits, QuietFits DEF TypeInv, FileFits, CodeFits
<1>4. CASE ClearHistory
  BY <1>4, EmptyAre DEF ClearHistory, TypeInv, SessionsFit, FileFits, CodeFits, NoFile
<1>5. CASE RestartNode
  BY <1>5 DEF RestartNode, TypeInv, SessionsFit, FileFits, CodeFits
<1> QED BY <1>1, <1>2, <1>3, <1>4, <1>5, UserFits, FailWriteFits, MisreadFits, Zenon DEF Next

(***************************************************************************)
(* What has been deployed.                                                 *)
(***************************************************************************)
BornOnce ==
  /\ born \in Seq(Addresses)
  /\ \A m, n \in DOMAIN born : born[m] = born[n] => m = n
  /\ \A m \in DOMAIN born : code[born[m]] # NoCode
  /\ \A a \in Addresses : code[a] # NoCode => \E m \in DOMAIN born : born[m] = a

IsToken(a) == code[a] # NoCode /\ code[a].kind = "Token"

\* A factory deploys one token per salt.
OncePerSalt ==
  /\ \A a \in Addresses : IsToken(a) => IsA(code[a].by, "TREXFactory")
  /\ \A a, b \in Addresses :
       IsToken(a) /\ IsToken(b) /\ code[a].by = code[b].by /\ code[a].salt = code[b].salt
         => a = b

(***************************************************************************)
(* A copy l of the lists, with respect to the deployments b of the         *)
(* contracts c: it names none but the first n, each under its kind; it     *)
(* names all of these; and what follows one of them in its list, unless it *)
(* has been dropped, was deployed later.                                   *)
(***************************************************************************)
NamesFirst(l, b, c, n) ==
  \A k \in Kinds : \A i \in DOMAIN l[k], m \in DOMAIN b :
    l[k][i] = b[m] => m <= n /\ c[b[m]].kind = k

NamesAll(l, b, c, n) ==
  \A m \in 1 .. n : \E i \in DOMAIN l[c[b[m]].kind] : l[c[b[m]].kind][i] = b[m]

InOrder(l, b) ==
  \A k \in Kinds : \A i, j \in DOMAIN l[k], m \in DOMAIN b :
    l[k][i] = b[m] /\ i < j /\ l[k][j] # ZeroAddress =>
      \E later \in DOMAIN b : m < later /\ l[k][j] = b[later]

Keeps(l, b, c, n) == NamesFirst(l, b, c, n) /\ NamesAll(l, b, c, n) /\ InOrder(l, b)

\* What l names, s names too.
Within(l, s) ==
  \A k \in Kinds : \A i \in DOMAIN l[k] :
    l[k][i] # ZeroAddress => \E j \in DOMAIN s[k] : s[k][j] = l[k][i]

Names(l, a) == \E k \in Kinds : \E i \in DOMAIN l[k] : l[k][i] = a

Saved(t, n) == IF t.at = "save" THEN n - 1 ELSE n

\* A session that nothing has disturbed: its copy and, unless it is about to
\* write, the file s keep all deployments but the one it is to save.
SessionKeeps(t, l, s, b, c) ==
  /\ ~t.dirty
  /\ Keeps(l, b, c, Saved(t, Len(b)))
  /\ t.at # "write" => Keeps(s, b, c, Saved(t, Len(b))) /\ Within(l, s)
  /\ t.at = "save" =>
       /\ t.i = 0 /\ Len(b) > 0 /\ t.found = b[Len(b)] /\ t.kind = c[t.found].kind
       /\ ~Names(s, t.found)

Alone == \A p, q \in Sessions : Active(p) /\ Active(q) => p = q

Undisturbed ==
  ~disturbed =>
    /\ Alone
    /\ (\A p \in Sessions : ~Active(p)) => Keeps(Stored, born, code, Len(born))
    /\ \A p \in Sessions : Active(p) => SessionKeeps(task[p], lists[p], Stored, born, code)

(***************************************************************************)
(* Resolution.                                                             *)
(***************************************************************************)

\* What StartResolve has made sure of.
Asked(t) ==
  /\ t.kind \in {"Token", "Identity", "ClaimIssuer"}
  /\ t.kind # "Token" => t.tag # NoTag
  /\ t.kind = "Token" => ~t.within
  /\ t.kind = "ClaimIssuer" /\ t.within => TrustedIssuersOf(t.tag) = {}

Fits(a, t) == IsA(a, t.kind) /\ Matches(a, t.kind, t.tag, t.within)

\* No entry behind the one to be probed fits, and what was found does.
Probed(t, l) ==
  /\ Asked(t)
  /\ \A j \in DOMAIN l[t.kind] : j > t.i => ~Fits(l[t.kind][j], t)
  /\ t.found # ZeroAddress =>
       t.i \in DOMAIN l[t.kind] /\ t.found = l[t.kind][t.i] /\ Fits(t.found, t)

\* What was found is the latest deployment that matches, if there is one.
MatchesAt(m, t) ==
  code[born[m]].kind = t.kind /\ Matches(born[m], t.kind, t.tag, t.within)

Found(t) ==
  /\ Asked(t)
  /\ \/ t.found = ZeroAddress /\ \A m \in DOMAIN born : ~MatchesAt(m, t)
     \/ \E m \in DOMAIN born :
          /\ t.found = born[m] /\ MatchesAt(m, t)
          /\ \A later \in DOMAIN born : MatchesAt(later, t) => later <= m

Resolving ==
  ~disturbed =>
    \A p \in Sessions :
      /\ task[p].at = "scan" => Probed(task[p], lists[p])
      /\ task[p].at = "answer" \/ (task[p].at = "write" /\ task[p].i # 0) => Found(task[p])

LEMMA KeepsNothing ==
  ASSUME NEW l, NEW c
  PROVE  Keeps(l, <<>>, c, 0)
BY DEF Keeps, NamesFirst, NamesAll, InOrder

\* A deployment of an address the lists do not name.
LEMMA KeepsDeployed ==
  ASSUME NEW b \in Seq(Addresses), NEW c, NEW d, NEW a \in Addresses, NEW l,
         Keeps(l, b, c, Len(b)), ~Names(l, a),
         \A m \in DOMAIN b : d[b[m]] = c[b[m]]
  PROVE  Keeps(l, Append(b, a), d, Len(b))
<1> DEFINE n == Len(b)
           longer == Append(b, a)
<1>1. /\ n \in Nat /\ DOMAIN b = 1 .. n /\ DOMAIN longer = 1 .. n + 1
      /\ longer[n + 1] = a /\ \A m \in 1 .. n : longer[m] = b[m]
  OBVIOUS
<1> HIDE DEF n, longer
<1>2. ASSUME NEW k \in Kinds, NEW i \in DOMAIN l[k], NEW m \in DOMAIN longer, l[k][i] = longer[m]
      PROVE  m \in DOMAIN b /\ l[k][i] = b[m]
  BY <1>1, <1>2 DEF Names
<1>3. NamesFirst(l, longer, d, n)
  <2>1. ASSUME NEW k \in Kinds, NEW i \in DOMAIN l[k], NEW m \in DOMAIN longer,
               l[k][i] = longer[m]
        PROVE  m <= n /\ d[longer[m]].kind = k
    <3>1. m \in DOMAIN b /\ l[k][i] = b[m] /\ longer[m] = b[m]
      BY <1>1, <1>2, <2>1
    <3>2. m <= n /\ c[b[m]].kind = k
      BY <3>1 DEF Keeps, NamesFirst, n
    <3> QED BY <3>1, <3>2
  <2> QED BY <2>1 DEF NamesFirst
<1>4. NamesAll(l, longer, d, n)
  <2>1. ASSUME NEW m \in 1 .. n
        PROVE  \E i \in DOMAIN l[d[longer[m]].kind] : l[d[longer[m]].kind][i] = longer[m]
    <3>1. longer[m] = b[m] /\ d[longer[m]] = c[b[m]]
      BY <1>1
    <3> QED BY <3>1 DEF Keeps, NamesAll, n
  <2> QED BY <2>1 DEF NamesAll
<1>5. InOrder(l, longer)
  <2>1. ASSUME NEW k \in Kinds, NEW i \in DOMAIN l[k], NEW j \in DOMAIN l[k],
               NEW m \in DOMAIN longer, l[k][i] = longer[m], i < j, l[k][j] # ZeroAddress
        PROVE  \E later \in DOMAIN longer : m < later /\ l[k][j] = longer[later]
    <3>1. m \in DOMAIN b /\ l[k][i] = b[m]
      BY <1>2, <2>1
    <3>2. PICK later \in DOMAIN b : m < later /\ l[k][j] = b[later]
      BY <2>1, <3>1 DEF Keeps, InOrder
    <3>3. later \in DOMAIN longer /\ longer[later] = b[later]
      BY <1>1
    <3> QED BY <3>2, <3>3
  <2> QED BY <2>1 DEF InOrder
<1> QED BY <1>3, <1>4, <1>5 DEF Keeps, n, longer

\* The last deployment is added to the list of its kind.
LEMMA KeepsAdded ==
  ASSUME NEW b \in Seq(Addresses), Len(b) > 0,
         \A m, n \in DOMAIN b : b[m] = b[n] => m = n,
         NEW c, NEW l, AreLists(l, Addresses),
         NEW kind \in Kinds, kind = c[b[Len(b)]].kind,
         Keeps(l, b, c, Len(b) - 1),
         \A m \in DOMAIN b : c[b[m]].kind \in Kinds
  PROVE  Keeps(Adding(l, kind, b[Len(b)]), b, c, Len(b))
<1> DEFINE n == Len(b)
           a == b[n]
           list == l[kind]
           h == Len(list)
           longer == Append(list, a)
           new == Adding(l, kind, a)
<1>1. n \in Nat /\ DOMAIN b = 1 .. n /\ n \in DOMAIN b /\ a \in Addresses
  OBVIOUS
<1>2. list \in Seq(Addresses) /\ l \in [Kinds -> Seq(Addresses)]
  BY DEF AreLists
<1>3. /\ h \in Nat /\ DOMAIN list = 1 .. h /\ DOMAIN longer = 1 .. h + 1
      /\ longer[h + 1] = a /\ \A i \in 1 .. h : longer[i] = list[i]
  BY <1>2
<1>4. \A k \in Kinds : new[k] = IF k = kind THEN longer ELSE l[k]
  BY <1>2 DEF Adding
<1>5. /\ NamesFirst(l, b, c, n - 1) /\ NamesAll(l, b, c, n - 1) /\ InOrder(l, b)
      /\ \A m, q \in DOMAIN b : b[m] = b[q] => m = q
      /\ kind = c[a].kind
  BY DEF Keeps
<1> HIDE DEF n, a, list, h, longer, new
\* An entry of the new lists is the new one or an old one.
<1>6. ASSUME NEW k \in Kinds, NEW i \in DOMAIN new[k]
      PROVE  \/ k = kind /\ i = h + 1 /\ new[k][i] = a
             \/ i \in DOMAIN l[k] /\ new[k][i] = l[k][i] /\ (k = kind => i \in 1 .. h)
  <2>1. CASE k = kind
    BY <1>3, <1>4, <2>1 DEF list
  <2>2. CASE k # kind
    BY <1>4, <2>2
  <2> QED BY <2>1, <2>2
<1>7. ASSUME NEW k \in Kinds, NEW i \in DOMAIN l[k]
      PROVE  i \in DOMAIN new[k] /\ new[k][i] = l[k][i]
  <2>1. CASE k = kind
    BY <1>3, <1>4, <2>1 DEF list
  <2>2. CASE k # kind
    BY <1>4, <2>2
  <2> QED BY <2>1, <2>2
<1>8. \A m \in DOMAIN b : b[m] = a => m = n
  BY <1>1, <1>5 DEF a
<1>9. NamesFirst(new, b, c, n)
  <2>1. ASSUME NEW k \in Kinds, NEW i \in DOMAIN new[k], NEW m \in DOMAIN b, new[k][i] = b[m]
        PROVE  m <= n /\ c[b[m]].kind = k
    <3>1. CASE k = kind /\ i = h + 1 /\ new[k][i] = a
      <4>1. m <= n /\ b[m] = a
        BY <1>1, <2>1, <3>1
      <4>2. c[b[m]].kind = kind
        BY <1>5, <4>1
      <4> QED BY <3>1, <4>1, <4>2
    <3>2. CASE i \in DOMAIN l[k] /\ new[k][i] = l[k][i]
      <4>1. l[k][i] = b[m] /\ NamesFirst(l, b, c, n - 1)
        BY <1>5, <2>1, <3>2
      <4>2. m <= n - 1 /\ c[b[m]].kind = k
        BY <3>2, <4>1 DEF NamesFirst
      <4>3. m \in Nat
        BY <1>1
      <4> QED BY <1>1, <4>2, <4>3
    <3> QED BY <1>6, <3>1, <3>2
  <2> QED BY <2>1 DEF NamesFirst
<1>10. NamesAll(new, b, c, n)
  <2>1. ASSUME NEW m \in 1 .. n
        PROVE  \E i \in DOMAIN new[c[b[m]].kind] : new[c[b[m]].kind][i] = b[m]
    <3>1. CASE m = n
      <4>1. c[b[m]].kind = kind /\ b[m] = a
        BY <1>5, <3>1 DEF a
      <4>2. h + 1 \in DOMAIN new[kind] /\ new[kind][h + 1] = a
        BY <1>3, <1>4
      <4> QED BY <4>1, <4>2
    <3>2. CASE m # n
      <4>1. m \in 1 .. n - 1
        BY <1>1, <3>2
      <4>2. PICK i \in DOMAIN l[c[b[m]].kind] : l[c[b[m]].kind][i] = b[m]
        BY <1>5, <4>1 DEF NamesAll
      <4>3. c[b[m]].kind \in Kinds
        BY <1>1
      <4> QED BY <1>7, <4>2, <4>3
    <3> QED BY <3>1, <3>2
  <2> QED BY <2>1 DEF NamesAll
<1>11. InOrder(new, b)
  <2>1. ASSUME NEW k \in Kinds, NEW i \in DOMAIN new[k], NEW j \in DOMAIN new[k],
               NEW m \in DOMAIN b, new[k][i] = b[m], i < j, new[k][j] # ZeroAddress
        PROVE  \E later \in DOMAIN b : m < later /\ new[k][j] = b[later]
    <3>1. CASE k = kind /\ j = h + 1 /\ new[k][j] = a
      <4>1. i \in DOMAIN l[k] /\ l[k][i] = b[m]
        BY <1>3, <1>6, <2>1, <3>1
      <4>2. m <= n - 1
        BY <1>5, <4>1 DEF NamesFirst
      <4>3. m < n
        BY <1>1, <4>2
      <4> QED BY <1>1, <3>1, <4>3 DEF a
    <3>2. CASE j \in DOMAIN l[k] /\ new[k][j] = l[k][j] /\ (k = kind => j \in 1 .. h)
      <4>1. i \in DOMAIN l[k] /\ l[k][i] = b[m]
        BY <1>3, <1>6, <2>1, <3>2
      <4> QED BY <1>5, <2>1, <3>2, <4>1 DEF InOrder
    <3> QED BY <1>6, <3>1, <3>2
  <2> QED BY <2>1 DEF InOrder
<1> QED BY <1>9, <1>10, <1>11 DEF Keeps, new, a, n

\* A probe drops an entry that is none of the deployments of its kind.
LEMMA KeepsDropped ==
  ASSUME NEW b \in Seq(Addresses), NEW c, NEW n \in Nat, NEW l, l \in [Kinds -> Seq(Dropped)],
         NEW kind \in Kinds, NEW i \in DOMAIN l[kind],
         Keeps(l, b, c, n), n <= Len(b),
         \A m \in DOMAIN b : ~(l[kind][i] = b[m] /\ c[b[m]].kind = kind),
         \A m \in DOMAIN b : c[b[m]].kind \in Kinds
  PROVE  /\ Keeps(Dropping(l, kind, i), b, c, n)
         /\ \A s : Within(l, s) => Within(Dropping(l, kind, i), s)
<1> DEFINE new == Dropping(l, kind, i)
<1>1. \A k \in Kinds :
        /\ DOMAIN new[k] = DOMAIN l[k]
        /\ \A j \in DOMAIN l[k] :
             new[k][j] = IF k = kind /\ j = i THEN ZeroAddress ELSE l[k][j]
  BY DEF Dropping
<1>2. \A m \in DOMAIN b : b[m] # ZeroAddress
  BY ZeroAssumption
<1>3. NamesFirst(l, b, c, n) /\ NamesAll(l, b, c, n) /\ InOrder(l, b)
  BY DEF Keeps
<1> HIDE DEF new
<1>4. NamesFirst(new, b, c, n)
  BY <1>1, <1>2, <1>3 DEF NamesFirst
<1>5. NamesAll(new, b, c, n)
  <2>1. ASSUME NEW m \in 1 .. n
        PROVE  \E j \in DOMAIN new[c[b[m]].kind] : new[c[b[m]].kind][j] = b[m]
    <3> DEFINE k == c[b[m]].kind
    <3>1. m \in DOMAIN b /\ k \in Kinds
      <4>1. m \in 1 .. Len(b) /\ Len(b) \in Nat
        BY <2>1
      <4> QED BY <4>1
    <3>2. PICK j \in DOMAIN l[k] : l[k][j] = b[m]
      BY <1>3 DEF NamesAll
    <3>3. ~(k = kind /\ j = i)
      BY <3>1, <3>2
    <3>4. j \in DOMAIN new[k] /\ new[k][j] = b[m]
      BY <1>1, <3>1, <3>2, <3>3
    <3> QED BY <3>4
  <2> QED BY <2>1 DEF NamesAll
<1>6. InOrder(new, b)
  BY <1>1, <1>2, <1>3 DEF InOrder
<1>7. \A s : Within(l, s) => Within(new, s)
  BY <1>1 DEF Within
<1> QED BY <1>4, <1>5, <1>6, <1>7 DEF Keeps, new

LEMMA KeepsCleaned ==
  ASSUME NEW b \in Seq(Addresses), NEW c, NEW n \in Nat, NEW l, l \in [Kinds -> Seq(Dropped)],
         NEW kind \in Kinds, Keeps(l, b, c, n), n <= Len(b),
         \A m \in DOMAIN b : c[b[m]].kind \in Kinds
  PROVE  Keeps(Cleaned(l, kind), b, c, n)
<1> DEFINE list == l[kind]
           less == WithoutDropped(list)
           new == Cleaned(l, kind)
<1>1. list \in Seq(Dropped)
  OBVIOUS
<1>2. less \in Seq(Dropped) /\ \E pos : PlacedAt(pos, less, list, Len(list))
  BY <1>1, Filtered
<1>3. PICK pos : PlacedAt(pos, less, list, Len(list))
  BY <1>2
<1>4. \A k \in Kinds : new[k] = IF k = kind THEN less ELSE l[k]
  BY <1>2 DEF Cleaned
<1>5. DOMAIN list = 1 .. Len(list) /\ DOMAIN less = 1 .. Len(less) /\ Len(less) \in Nat
      /\ Len(list) \in Nat
  BY <1>1, <1>2
<1>6. \A m \in DOMAIN b : b[m] # ZeroAddress
  BY ZeroAssumption
<1>7. NamesFirst(l, b, c, n) /\ NamesAll(l, b, c, n) /\ InOrder(l, b)
  BY DEF Keeps
<1> HIDE DEF new, less, list
<1>8. /\ \A i \in DOMAIN less : pos[i] \in DOMAIN list /\ less[i] = list[pos[i]]
      /\ \A i, j \in DOMAIN less : i < j => pos[i] < pos[j]
      /\ \A q \in DOMAIN list : list[q] # ZeroAddress => \E i \in DOMAIN less : pos[i] = q
  BY <1>3, <1>5 DEF PlacedAt
<1>9. NamesFirst(new, b, c, n)
  <2>1. ASSUME NEW k \in Kinds, NEW i \in DOMAIN new[k], NEW m \in DOMAIN b, new[k][i] = b[m]
        PROVE  m <= n /\ c[b[m]].kind = k
    <3>1. CASE k = kind
      <4>1. pos[i] \in DOMAIN l[k] /\ l[k][pos[i]] = b[m]
        BY <1>4, <1>8, <2>1, <3>1 DEF list
      <4> QED BY <1>7, <4>1 DEF NamesFirst
    <3>2. CASE k # kind
      BY <1>4, <1>7, <2>1, <3>2 DEF NamesFirst
    <3> QED BY <3>1, <3>2
  <2> QED BY <2>1 DEF NamesFirst
<1>10. NamesAll(new, b, c, n)
  <2>1. ASSUME NEW m \in 1 .. n
        PROVE  \E j \in DOMAIN new[c[b[m]].kind] : new[c[b[m]].kind][j] = b[m]
    <3> DEFINE k == c[b[m]].kind
    <3>1. m \in DOMAIN b /\ k \in Kinds
      <4>1. m \in 1 .. Len(b) /\ Len(b) \in Nat
        BY <2>1
      <4> QED BY <4>1
    <3>2. PICK j \in DOMAIN l[k] : l[k][j] = b[m]
      BY <1>7 DEF NamesAll
    <3>3. CASE k = kind
      <4>1. j \in DOMAIN list /\ list[j] = b[m] /\ list[j] # ZeroAddress
        BY <1>6, <3>1, <3>2, <3>3 DEF list
      <4>2. PICK i \in DOMAIN less : pos[i] = j
        BY <1>8, <4>1
      <4>3. i \in DOMAIN new[k] /\ new[k][i] = b[m]
        BY <1>4, <1>8, <3>1, <3>3, <4>1, <4>2
      <4> QED BY <4>3
    <3>4. CASE k # kind
      BY <1>4, <3>1, <3>2, <3>4
    <3> QED BY <3>3, <3>4
  <2> QED BY <2>1 DEF NamesAll
<1>11. InOrder(new, b)
  <2>1. ASSUME NEW k \in Kinds, NEW i \in DOMAIN new[k], NEW j \in DOMAIN new[k],
               NEW m \in DOMAIN b, new[k][i] = b[m], i < j, new[k][j] # ZeroAddress
        PROVE  \E later \in DOMAIN b : m < later /\ new[k][j] = b[later]
    <3>1. CASE k = kind
      <4>1. /\ pos[i] \in DOMAIN l[k] /\ l[k][pos[i]] = b[m] /\ pos[i] < pos[j]
            /\ pos[j] \in DOMAIN l[k] /\ l[k][pos[j]] = new[k][j]
        BY <1>4, <1>8, <2>1, <3>1 DEF list
      <4> QED BY <1>7, <2>1, <4>1 DEF InOrder
    <3>2. CASE k # kind
      BY <1>4, <1>7, <2>1, <3>2 DEF InOrder
    <3> QED BY <3>1, <3>2
  <2> QED BY <2>1 DEF InOrder
<1> QED BY <1>9, <1>10, <1>11 DEF Keeps, new

\* Only a deployment and a restart of the node change the chain.
LEMMA ChainSteps ==
  ASSUME TypeInv, [Next]_vars
  PROVE  \/ UNCHANGED <<code, born>>
         \/ RestartNode
         \/ \E p \in Sessions, a \in Addresses, c \in Contents : Deploy(p, a, c)
<1>1. SessionsFit
  BY DEF TypeInv
<1>2. CASE UNCHANGED vars
  BY <1>2 DEF vars
<1>3. ASSUME NEW p \in Sessions, Proceed(p) PROVE UNCHANGED <<code, born>>
  BY <1>3, Zenon DEF Proceed, Save, FinishWrite, Visit, EndScan, Answer
<1>4. ASSUME NEW p \in Sessions, FailWrite(p) \/ MisreadEntry(p) \/ Crash(p)
      PROVE  UNCHANGED <<code, born>>
  BY <1>4, Zenon DEF FailWrite, MisreadEntry, Crash, Stop
<1>5. ASSUME NEW p \in Sessions, UserNext(p)
      PROVE  \/ UNCHANGED <<code, born>>
             \/ \E a \in Addresses, c \in Contents : Deploy(p, a, c)
  BY <1>5, Zenon DEF UserNext, Load, StartResolve, FindManager, ResolveTokenFactory, Exit, Stop
<1>6. CASE ClearHistory
  BY <1>6 DEF ClearHistory
<1> QED BY <1>2, <1>3, <1>4, <1>5, <1>6, Zenon DEF Next

LEMMA DeployBorn ==
  ASSUME TypeInv, BornOnce, NEW p \in Sessions, NEW a \in Addresses, NEW c \in Contents,
         Deploy(p, a, c)
  PROVE  BornOnce'
<1> DEFINE n == Len(born)
<1>1. /\ code[a] = NoCode /\ code' = [code EXCEPT ![a] = c] /\ born' = Append(born, a)
      /\ code \in [Addresses -> Contents \cup {NoCode}] /\ c # NoCode
  BY ContentsAssumption DEF Deploy, TypeInv, CodeFits
<1>2. \A x \in Addresses : code'[x] = IF x = a THEN c ELSE code[x]
  BY <1>1
<1>3. /\ born \in Seq(Addresses) /\ n \in Nat /\ DOMAIN born = 1 .. n
      /\ \A m, q \in DOMAIN born : born[m] = born[q] => m = q
      /\ \A m \in DOMAIN born : born[m] \in Addresses /\ code[born[m]] # NoCode
      /\ \A x \in Addresses : code[x] # NoCode => \E m \in DOMAIN born : born[m] = x
  BY DEF BornOnce
<1>4. /\ born' \in Seq(Addresses) /\ DOMAIN born' = 1 .. n + 1 /\ born'[n + 1] = a
      /\ \A m \in 1 .. n : born'[m] = born[m]
  BY <1>1, <1>3
<1> HIDE DEF n
<1>5. \A m \in 1 .. n : born[m] # a
  BY <1>1, <1>3
<1>6. \A m, q \in DOMAIN born' : born'[m] = born'[q] => m = q
  BY <1>3, <1>4, <1>5
<1>7. \A m \in DOMAIN born' : code'[born'[m]] # NoCode
  BY <1>1, <1>2, <1>3, <1>4, <1>5
<1>8. ASSUME NEW x \in Addresses, code'[x] # NoCode
      PROVE  \E m \in DOMAIN born' : born'[m] = x
  <2>1. CASE x = a
    BY <1>3, <1>4, <2>1
  <2>2. CASE x # a
    <3>1. PICK m \in DOMAIN born : born[m] = x
      BY <1>2, <1>3, <1>8, <2>2
    <3>2. m \in DOMAIN born' /\ born'[m] = x
      BY <1>3, <1>4, <3>1
    <3> QED BY <3>2
  <2> QED BY <2>1, <2>2
<1> QED BY <1>4, <1>6, <1>7, <1>8 DEF BornOnce

LEMMA DeploySalts ==
  ASSUME TypeInv, OncePerSalt, NEW p \in Sessions, NEW a \in Addresses, NEW c \in Contents,
         Deploy(p, a, c)
  PROVE  OncePerSalt'
<1>1. /\ code[a] = NoCode /\ code' = [code EXCEPT ![a] = c]
      /\ code \in [Addresses -> Contents \cup {NoCode}] /\ c # NoCode
      /\ c.kind = "Token" =>
           /\ IsA(c.by, "TREXFactory")
           /\ \A b \in Addresses :
                ~(code[b] # NoCode /\ code[b].by = c.by /\ code[b].salt = c.salt)
  BY ContentsAssumption, Zenon DEF Deploy, TypeInv, CodeFits
<1>2. \A x \in Addresses : code'[x] = IF x = a THEN c ELSE code[x]
  BY <1>1
<1>3. ASSUME NEW x, IsA(x, "TREXFactory")
      PROVE  IsA(x, "TREXFactory")'
  BY <1>1, <1>2, <1>3 DEF IsA
<1>4. \A x \in Addresses : IsToken(x)' => (x = a /\ c.kind = "Token") \/ (x # a /\ IsToken(x))
  BY <1>2 DEF IsToken
<1>5. ASSUME NEW x \in Addresses, IsToken(x)' PROVE IsA(code[x].by, "TREXFactory")'
  <2>1. CASE x = a
    <3>1. code'[x] = c /\ IsA(c.by, "TREXFactory")
      BY <1>1, <1>2, <1>4, <1>5, <2>1
    <3>2. IsA(c.by, "TREXFactory")'
      BY <1>3, <3>1
    <3> QED BY <3>1, <3>2
  <2>2. CASE x # a
    <3>1. code'[x] = code[x] /\ IsA(code[x].by, "TREXFactory")
      BY <1>2, <1>4, <1>5, <2>2 DEF OncePerSalt
    <3> DEFINE by == code[x].by
    <3>2. code'[x].by = by
      BY <3>1
    <3>3. \A y : IsA(y, "TREXFactory") => IsA(y, "TREXFactory")'
      BY <1>3
    <3> QED BY <3>1, <3>3 DEF IsA
  <2> QED BY <2>1, <2>2
<1>6. ASSUME NEW x \in Addresses, NEW y \in Addresses, IsToken(x)', IsToken(y)',
             code'[x].by = code'[y].by, code'[x].salt = code'[y].salt
      PROVE  x = y
  <2>1. CASE x # a /\ y # a
    BY <1>2, <1>4, <1>6, <2>1 DEF OncePerSalt
  <2>2. CASE x = a /\ y # a
    BY <1>1, <1>2, <1>4, <1>6, <2>2 DEF IsToken
  <2>3. CASE x # a /\ y = a
    BY <1>1, <1>2, <1>4, <1>6, <2>3 DEF IsToken
  <2> QED BY <2>1, <2>2, <2>3
<1> QED BY <1>5, <1>6 DEF OncePerSalt

LEMMA NextBorn ==
  ASSUME TypeInv, BornOnce, OncePerSalt, [Next]_vars
  PROVE  BornOnce' /\ OncePerSalt'
<1>1. CASE UNCHANGED <<code, born>>
  BY <1>1 DEF BornOnce, OncePerSalt, IsToken, IsA
<1>2. CASE RestartNode
  <2>1. born' = <<>> /\ \A a \in Addresses : code'[a] = NoCode
    BY <1>2 DEF RestartNode
  <2> QED BY <2>1 DEF BornOnce, OncePerSalt, IsToken
<1> QED BY <1>1, <1>2, ChainSteps, DeployBorn, DeploySalts

LEMMA InitBorn == Init => BornOnce /\ OncePerSalt
<1> SUFFICES ASSUME Init PROVE BornOnce /\ OncePerSalt
  OBVIOUS
<1>1. born = <<>> /\ \A a \in Addresses : code[a] = NoCode
  BY DEF Init
<1> QED BY <1>1 DEF BornOnce, OncePerSalt, IsToken

LEMMA BornKinds ==
  ASSUME TypeInv, BornOnce
  PROVE  /\ born \in Seq(Addresses)
         /\ \A m \in DOMAIN born : code[born[m]].kind \in Kinds
BY ContentsAssumption DEF TypeInv, CodeFits, BornOnce, ContentType

(***************************************************************************)
(* Sessions one at a time.                                                 *)
(***************************************************************************)
LEMMA OwnStep ==
  ASSUME TypeInv, Undisturbed, ~disturbed, NEW p \in Sessions, Active(p), NEW t, NEW l,
         Moves(p, t, l), t.at # "off", SessionKeeps(t, l, Stored', born', code')
  PROVE  Undisturbed'
<1>1. \A q \in Sessions : /\ task'[q] = IF q = p THEN t ELSE task[q]
                          /\ lists'[q] = IF q = p THEN l ELSE lists[q]
  BY DEF Moves, TypeInv, SessionsFit
<1>2. \A q \in Sessions : Active(q) => q = p
  BY DEF Undisturbed, Alone
<1>3. \A q \in Sessions : Active(q)' <=> q = p
  BY <1>1, <1>2 DEF Active
<1>4. Alone'
  BY <1>3 DEF Alone
<1> QED BY <1>1, <1>3, <1>4 DEF Undisturbed

LEMMA ActiveKeeps ==
  ASSUME Undisturbed, ~disturbed, NEW p \in Sessions, Active(p)
  PROVE  SessionKeeps(task[p], lists[p], Stored, born, code)
BY DEF Undisturbed

\* What a session keeps after a step that leaves it ready.
LEMMA ReadyKeeps ==
  ASSUME NEW t, NEW l, NEW s, NEW b, NEW c, Keeps(l, b, c, Len(b)), Keeps(s, b, c, Len(b)),
         Within(l, s), ~t.dirty, t.at \notin {"save", "write"}
  PROVE  SessionKeeps(t, l, s, b, c)
BY DEF SessionKeeps, Saved

LEMMA LoadKeeps ==
  ASSUME TypeInv, Undisturbed, ~disturbed', NEW p \in Sessions, Load(p)
  PROVE  Undisturbed'
<1>1. SessionsFit
  BY DEF TypeInv
<1>2. /\ Moves(p, Ready, Stored) /\ ~disturbed /\ \A q \in Sessions : ~Active(q)
      /\ UNCHANGED <<code, born, file>>
  BY <1>1, LoadMoves
<1>3. Stored' = Stored
  BY <1>2 DEF Stored, Readable
<1>4. Keeps(Stored, born, code, Len(born))
  BY <1>2 DEF Undisturbed
<1>5. Ready.at = "ready" /\ ~Ready.dirty
  BY DEF Ready, Off
<1>6. Within(Stored, Stored)
  BY DEF Within
<1>7. SessionKeeps(Ready, Stored, Stored, born, code)
  BY <1>4, <1>5, <1>6, ReadyKeeps
<1>8. \A q \in Sessions : /\ task'[q] = IF q = p THEN Ready ELSE task[q]
                          /\ lists'[q] = IF q = p THEN Stored ELSE lists[q]
  BY <1>1, <1>2 DEF Moves, SessionsFit
<1>9. \A q \in Sessions : Active(q)' <=> q = p
  BY <1>2, <1>5, <1>8 DEF Active
<1>10. Alone'
  BY <1>9 DEF Alone
<1>11. SessionKeeps(task'[p], lists'[p], Stored', born', code')
  BY <1>2, <1>3, <1>7, <1>8
<1> QED BY <1>9, <1>10, <1>11 DEF Undisturbed

LEMMA DeployKeeps ==
  ASSUME TypeInv, BornOnce, Undisturbed, ~disturbed', NEW p \in Sessions,
         NEW a \in Addresses, NEW c \in Contents, Deploy(p, a, c)
  PROVE  Undisturbed'
<1> DEFINE t == Saving(c.kind, a)
           l == lists[p]
<1>1. SessionsFit
  BY DEF TypeInv
<1>2. /\ task[p].at = "ready" /\ Moves(p, t, l) /\ UNCHANGED file
      /\ code[a] = NoCode /\ code' = [code EXCEPT ![a] = c] /\ born' = Append(born, a)
      /\ ~disturbed /\ a \notin Recorded
  BY <1>1, DeployMoves DEF Deploy
<1>3. Stored' = Stored
  BY <1>2 DEF Stored, Readable
<1>4. ~Names(Stored, a)
  BY <1>2 DEF Recorded, Stored, Names, Entries, EmptyLists
<1>5. Active(p)
  BY <1>2 DEF Active
<1>6. Keeps(l, born, code, Len(born)) /\ Keeps(Stored, born, code, Len(born))
      /\ Within(l, Stored)
  BY <1>2, <1>5, ActiveKeeps DEF SessionKeeps, Saved
<1>7. ~Names(l, a)
  <2>1. a # ZeroAddress
    BY ZeroAssumption
  <2> QED BY <1>4, <1>6, <2>1 DEF Names, Within
<1>8. born \in Seq(Addresses) /\ \A m \in DOMAIN born : code'[born[m]] = code[born[m]]
  <2>1. \A x \in Addresses : x # a => code'[x] = code[x]
    BY <1>2 DEF TypeInv, CodeFits
  <2> QED BY <1>2, <2>1 DEF BornOnce
<1>9. /\ Keeps(l, born', code', Len(born))
      /\ Keeps(Stored, born', code', Len(born))
  BY <1>2, <1>4, <1>6, <1>7, <1>8, KeepsDeployed
<1>10. /\ Len(born') - 1 = Len(born) /\ Len(born') > 0 /\ born'[Len(born')] = a
  BY <1>2, <1>8
<1>11. code'[a] = c
  BY <1>2 DEF TypeInv, CodeFits
<1>12. /\ t.at = "save" /\ ~t.dirty /\ t.i = 0 /\ t.found = a /\ t.kind = c.kind
  BY DEF Saving, Ready, Off
<1> HIDE DEF t, l
<1>13. SessionKeeps(t, l, Stored, born', code')
  BY <1>4, <1>6, <1>9, <1>10, <1>11, <1>12 DEF SessionKeeps, Saved
<1> QED BY <1>2, <1>3, <1>5, <1>12, <1>13, OwnStep

LEMMA SaveKeeps ==
  ASSUME TypeInv, BornOnce, Undisturbed, ~disturbed', NEW p \in Sessions, Save(p)
  PROVE  Undisturbed'
<1> DEFINE t == task[p]
           l == lists[p]
           a == t.found
<1>1. SessionsFit
  BY DEF TypeInv
<1>2. t.at = "save" /\ UNCHANGED <<code, born>> /\ ~disturbed /\ Active(p)
  BY <1>1, SaveMoves DEF Active
<1>3. SessionKeeps(t, l, Stored, born, code)
  BY <1>2, ActiveKeeps
<1>4. /\ Keeps(l, born, code, Len(born) - 1) /\ Within(l, Stored)
      /\ Len(born) > 0 /\ a = born[Len(born)] /\ t.kind = code[a].kind
      /\ ~Names(Stored, a)
  BY <1>2, <1>3 DEF SessionKeeps, Saved
<1>5. AreLists(l, Addresses) /\ t \in TaskType
  BY <1>1, <1>2, OwnLists
<1>6. t.kind \in Kinds /\ a \in Addresses
  BY <1>1, <1>2, <1>5 DEF TaskType, SessionsFit, SessionFits
<1>7. ~\E i \in DOMAIN l[t.kind] : l[t.kind][i] = a
  BY <1>4, <1>6, ZeroAssumption DEF Within, Names
<1>8. Moves(p, Writing(t), Adding(l, t.kind, a))
  BY <1>1, <1>7, SaveMoves
<1>9. Keeps(Adding(l, t.kind, a), born, code, Len(born))
  BY <1>4, <1>5, <1>6, BornKinds, KeepsAdded DEF BornOnce
<1>10. Writing(t).at = "write" /\ ~Writing(t).dirty
  BY <1>5 DEF Writing, TaskType
<1>11. SessionKeeps(Writing(t), Adding(l, t.kind, a), Stored', born', code')
  BY <1>2, <1>9, <1>10 DEF SessionKeeps, Saved
<1> QED BY <1>2, <1>8, <1>10, <1>11, OwnStep

LEMMA FinishWriteKeeps ==
  ASSUME TypeInv, Undisturbed, ~disturbed', NEW p \in Sessions, FinishWrite(p)
  PROVE  Undisturbed'
<1> DEFINE t == task[p]
           l == lists[p]
<1>1. t.at = "write" /\ Active(p) /\ ~disturbed /\ UNCHANGED <<code, born, lists>>
  BY DEF FinishWrite, Active
<1>2. ~t.dirty /\ Keeps(l, born, code, Len(born))
  BY <1>1, ActiveKeeps DEF SessionKeeps, Saved
<1>3. file' = [chain |-> Chain, lists |-> l]
  BY <1>2 DEF FinishWrite
<1>4. Stored' = l
  BY <1>3, ChainAssumption DEF Stored, Readable, NoFile, Torn
<1>5. \A q \in Sessions : Active(q) => q = p
  BY <1>1 DEF Undisturbed, Alone
<1>6. t \in TaskType
  BY DEF TypeInv, SessionsFit
<1>7. /\ task'[p] = Written(t)
      /\ \A q \in Sessions \ {p} : task'[q].at = task[q].at
  <2>1. \A q \in Sessions \ {p} : task[q] \in TaskType
    BY DEF TypeInv, SessionsFit
  <2> QED BY <2>1 DEF FinishWrite, Written, TaskType
<1>8. Written(t).at \in {"ready", "answer"} /\ ~Written(t).dirty
  BY <1>6 DEF Written, Ready, Off, TaskType
<1>9. SessionKeeps(Written(t), l, l, born, code)
  <2>1. Within(l, l)
    BY DEF Within
  <2> QED BY <1>2, <1>8, <2>1, ReadyKeeps
<1>10. \A q \in Sessions : Active(q)' <=> q = p
  BY <1>5, <1>7, <1>8 DEF Active
<1>11. Alone'
  BY <1>10 DEF Alone
<1>12. SessionKeeps(task'[p], lists'[p], Stored', born', code')
  BY <1>1, <1>4, <1>7, <1>9
<1> QED BY <1>10, <1>11, <1>12 DEF Undisturbed

\* A step that leaves the file, the chain and the copy of an active session.
LEMMA SameCopyKeeps ==
  ASSUME TypeInv, Undisturbed, ~disturbed, NEW p \in Sessions,
         task[p].at \in {"ready", "scan", "answer"}, NEW t,
         t.at \in {"ready", "scan", "answer"}, ~t.dirty,
         Moves(p, t, lists[p]), UNCHANGED <<code, born, file>>
  PROVE  Undisturbed'
<1>1. Active(p)
  BY DEF Active
<1>2. SessionKeeps(t, lists[p], Stored, born, code)
  BY <1>1, ActiveKeeps, ReadyKeeps DEF SessionKeeps, Saved
<1>3. Stored' = Stored
  BY DEF Stored, Readable
<1> QED BY <1>1, <1>2, <1>3, OwnStep

LEMMA NotDirty ==
  ASSUME Undisturbed, ~disturbed, NEW p \in Sessions, Active(p)
  PROVE  ~task[p].dirty
BY ActiveKeeps DEF SessionKeeps

LEMMA RepliedKeeps ==
  ASSUME TypeInv, Undisturbed, ~disturbed, NEW p \in Sessions,
         task[p].at \in {"ready", "answer"},
         \E a \in Dropped : Moves(p, Replied(a), lists[p]), UNCHANGED <<code, born, file>>
  PROVE  Undisturbed'
<1>1. PICK a \in Dropped : Moves(p, Replied(a), lists[p])
  OBVIOUS
<1>2. Replied(a).at = "ready" /\ ~Replied(a).dirty
  BY DEF Replied, Ready, Off
<1> QED BY <1>1, <1>2, SameCopyKeeps

LEMMA StartKeeps ==
  ASSUME TypeInv, Undisturbed, ~disturbed', NEW p \in Sessions, NEW kind \in Kinds,
         NEW tag, NEW within, StartResolve(p, kind, tag, within)
  PROVE  Undisturbed'
<1> DEFINE t == [Ready EXCEPT !.at = "scan", !.kind = kind, !.tag = tag,
                              !.within = within, !.i = Len(lists[p][kind])]
<1>1. SessionsFit
  BY DEF TypeInv
<1>2. task[p].at = "ready" /\ UNCHANGED <<code, born, file>> /\ ~disturbed
  BY <1>1, StartMoves
<1>3. t.at = "scan" /\ ~t.dirty
  BY DEF Ready, Off
<1>4. (\E a \in Dropped : Moves(p, Replied(a), lists[p])) \/ Moves(p, t, lists[p])
  BY <1>1, StartMoves
<1> HIDE DEF t
<1>5. CASE Moves(p, t, lists[p])
  BY <1>2, <1>3, <1>5, SameCopyKeeps
<1> QED BY <1>2, <1>4, <1>5, RepliedKeeps

LEMMA VisitKeeps ==
  ASSUME TypeInv, BornOnce, Undisturbed, ~disturbed', NEW p \in Sessions, Visit(p)
  PROVE  Undisturbed'
<1> DEFINE t == task[p]
           l == lists[p]
           a == l[t.kind][t.i]
<1>1. SessionsFit
  BY DEF TypeInv
<1>2. /\ t.at = "scan" /\ t.i \in 1 .. Len(l[t.kind])
      /\ UNCHANGED <<code, born, file>> /\ ~disturbed
  BY <1>1, VisitMoves
<1>3. Active(p) /\ t \in TaskType /\ l \in [Kinds -> Seq(Dropped)] /\ t.kind \in Kinds
  BY <1>1, <1>2 DEF Active, SessionsFit, TaskType
<1>4. ~t.dirty
  BY <1>2, <1>3, NotDirty
<1>5. ASSUME NEW u, u = [t EXCEPT !.found = a] \/ u = [t EXCEPT !.i = t.i - 1]
      PROVE  u.at = "scan" /\ ~u.dirty
  BY <1>2, <1>3, <1>4, <1>5 DEF TaskType
<1>6. CASE Moves(p, [t EXCEPT !.found = a], l) \/ Moves(p, [t EXCEPT !.i = t.i - 1], l)
  <2>1. PICK u : (u = [t EXCEPT !.found = a] \/ u = [t EXCEPT !.i = t.i - 1]) /\ Moves(p, u, l)
    BY <1>6
  <2> QED BY <1>2, <1>5, <2>1, SameCopyKeeps
<1>7. CASE ~IsA(a, t.kind) /\ Moves(p, [t EXCEPT !.i = t.i - 1], Dropping(l, t.kind, t.i))
  <2> DEFINE u == [t EXCEPT !.i = t.i - 1]
             new == Dropping(l, t.kind, t.i)
  <2>1. Keeps(l, born, code, Len(born)) /\ Keeps(Stored, born, code, Len(born))
        /\ Within(l, Stored)
    BY <1>2, <1>3, ActiveKeeps DEF SessionKeeps, Saved
  <2>2. \A m \in DOMAIN born : ~(a = born[m] /\ code[born[m]].kind = t.kind)
    BY <1>7 DEF IsA, BornOnce
  <2>3. /\ born \in Seq(Addresses) /\ Len(born) \in Nat /\ t.i \in DOMAIN l[t.kind]
        /\ \A m \in DOMAIN born : code[born[m]].kind \in Kinds
    <3>1. l[t.kind] \in Seq(Dropped)
      BY <1>3
    <3>2. t.i \in DOMAIN l[t.kind]
      BY <1>2, <3>1
    <3>3. born \in Seq(Addresses)
      BY DEF BornOnce
    <3>4. Len(born) \in Nat
      BY <3>3
    <3> QED BY <3>2, <3>3, <3>4, BornKinds
  <2>4. Keeps(new, born, code, Len(born)) /\ Within(new, Stored)
    <3> DEFINE n == Len(born)
               i == t.i
               kind == t.kind
    <3>1. /\ n \in Nat /\ n <= Len(born) /\ i \in DOMAIN l[kind] /\ kind \in Kinds
          /\ \A m \in DOMAIN born : ~(l[kind][i] = born[m] /\ code[born[m]].kind = kind)
          /\ Keeps(l, born, code, n)
      BY <1>3, <2>1, <2>2, <2>3
    <3> HIDE DEF n, i, kind, l
    <3>2. Keeps(Dropping(l, kind, i), born, code, n)
          /\ \A s : Within(l, s) => Within(Dropping(l, kind, i), s)
      BY <1>3, <2>3, <3>1, KeepsDropped
    <3> QED BY <2>1, <3>2 DEF n, i, kind
  <2>5. u.at = "scan" /\ ~u.dirty
    BY <1>5
  <2>6. Moves(p, u, new)
    BY <1>7
  <2> HIDE DEF u, new
  <2>7. SessionKeeps(u, new, Stored, born, code)
    BY <2>1, <2>4, <2>5, ReadyKeeps
  <2>8. Stored' = Stored
    BY <1>2 DEF Stored, Readable
  <2> QED BY <1>2, <1>3, <2>5, <2>6, <2>7, <2>8, OwnStep
<1> QED BY <1>1, <1>6, <1>7, VisitMoves

LEMMA EndKeeps ==
  ASSUME TypeInv, BornOnce, Undisturbed, ~disturbed', NEW p \in Sessions, EndScan(p)
  PROVE  Undisturbed'
<1> DEFINE t == task[p]
           l == lists[p]
<1>1. SessionsFit
  BY DEF TypeInv
<1>2. t.at = "scan" /\ UNCHANGED <<code, born>> /\ ~disturbed
  BY <1>1, EndMoves
<1>3. Active(p) /\ t \in TaskType /\ l \in [Kinds -> Seq(Dropped)] /\ t.kind \in Kinds
  BY <1>1, <1>2 DEF Active, SessionsFit, TaskType
<1>4. ~t.dirty
  BY <1>2, <1>3, NotDirty
<1>5. Ended(t) \in TaskType /\ Ended(t).dirty = t.dirty
  BY <1>3 DEF Ended, TaskType
<1>6. CASE Moves(p, Writing(Ended(t)), Cleaned(l, t.kind))
  <2> DEFINE u == Writing(Ended(t))
             new == Cleaned(l, t.kind)
  <2>1. u.at = "write" /\ ~u.dirty
    BY <1>5 DEF Writing, TaskType
  <2>2. Keeps(l, born, code, Len(born))
    BY <1>2, <1>3, ActiveKeeps DEF SessionKeeps, Saved
  <2>3. Keeps(new, born, code, Len(born))
    <3>1. /\ born \in Seq(Addresses) /\ Len(born) \in Nat /\ Len(born) <= Len(born)
          /\ \A m \in DOMAIN born : code[born[m]].kind \in Kinds
      BY BornKinds
    <3> QED BY <1>3, <2>2, <3>1, KeepsCleaned
  <2>4. Moves(p, u, new)
    BY <1>6
  <2> HIDE DEF u, new
  <2>5. SessionKeeps(u, new, Stored', born, code)
    BY <2>1, <2>3 DEF SessionKeeps, Saved
  <2> QED BY <1>2, <1>3, <2>1, <2>4, <2>5, OwnStep
<1>7. CASE Moves(p, [Ended(t) EXCEPT !.at = "answer"], l) /\ UNCHANGED file
  <2> DEFINE u == [Ended(t) EXCEPT !.at = "answer"]
  <2>1. u.at = "answer" /\ ~u.dirty
    BY <1>4, <1>5 DEF TaskType
  <2>2. Moves(p, u, l)
    BY <1>7
  <2> HIDE DEF u
  <2> QED BY <1>2, <1>7, <2>1, <2>2, SameCopyKeeps
<1> QED BY <1>1, <1>6, <1>7, EndMoves

LEMMA ExitKeeps ==
  ASSUME TypeInv, Undisturbed, ~disturbed', NEW p \in Sessions, Exit(p)
  PROVE  Undisturbed'
<1>1. Moves(p, Off, EmptyLists) /\ UNCHANGED <<code, born, file>>
  BY StopMoves
<1>2. task[p].at = "ready" /\ ~disturbed /\ Active(p)
  BY DEF Exit, Active
<1>3. Keeps(Stored, born, code, Len(born))
  BY <1>2, ActiveKeeps DEF SessionKeeps, Saved
<1>4. \A q \in Sessions : task'[q] = IF q = p THEN Off ELSE task[q]
  BY <1>1 DEF Moves, TypeInv, SessionsFit
<1>5. \A q \in Sessions : ~Active(q)'
  BY <1>2, <1>4 DEF Active, Off, Undisturbed, Alone
<1>6. Stored' = Stored
  BY <1>1 DEF Stored, Readable
<1>7. Alone'
  BY <1>5 DEF Alone
<1>8. Keeps(Stored', born', code', Len(born'))
  BY <1>1, <1>3, <1>6
<1> QED BY <1>5, <1>7, <1>8 DEF Undisturbed

\* What the user does from outside, with no session running.
LEMMA OutsideKeeps ==
  ASSUME TypeInv, Undisturbed, ~disturbed', ClearHistory \/ RestartNode
  PROVE  Undisturbed'
<1>1. /\ \A q \in Sessions : ~Active(q) /\ ~Active(q)'
      /\ born' = <<>>
  BY DEF ClearHistory, RestartNode, Active
<1>2. Keeps(Stored', born', code', Len(born'))
  BY <1>1, KeepsNothing
<1>3. Alone'
  BY <1>1 DEF Alone
<1> QED BY <1>1, <1>2, <1>3 DEF Undisturbed

LEMMA InitUndisturbed == Init => Undisturbed
<1> SUFFICES ASSUME Init PROVE Undisturbed
  OBVIOUS
<1>1. born = <<>> /\ \A q \in Sessions : ~Active(q)
  BY DEF Init, Active, Off
<1>2. Keeps(Stored, born, code, Len(born))
  BY <1>1, KeepsNothing
<1> QED BY <1>1, <1>2 DEF Undisturbed, Alone

LEMMA NextUndisturbed ==
  ASSUME TypeInv, BornOnce, Undisturbed, [Next]_vars
  PROVE  Undisturbed'
<1> SUFFICES ASSUME ~disturbed' PROVE Undisturbed'
  BY DEF Undisturbed
<1>1. SessionsFit
  BY DEF TypeInv
<1>2. CASE UNCHANGED vars
  BY <1>2 DEF vars, Undisturbed, Alone, Active, Stored, Readable
<1>3. ASSUME NEW p \in Sessions, Proceed(p) PROVE Undisturbed'
  <2>1. ASSUME Answer(p) PROVE Undisturbed'
    <3>1. /\ task[p].at = "answer" /\ \E a \in Dropped : Moves(p, Replied(a), lists[p])
          /\ UNCHANGED <<code, born, file>> /\ ~disturbed
      BY <1>1, <2>1, AnswerMoves
    <3> QED BY <3>1, RepliedKeeps
  <2> QED BY <1>3, <2>1, SaveKeeps, FinishWriteKeeps, VisitKeeps, EndKeeps, Zenon DEF Proceed
<1>4. ASSUME NEW p \in Sessions, UserNext(p) PROVE Undisturbed'
  <2>1. ASSUME NEW name, FindManager(p, name) PROVE Undisturbed'
    <3>1. /\ task[p].at = "ready" /\ \E a \in Dropped : Moves(p, Replied(a), lists[p])
          /\ UNCHANGED <<code, born, file>> /\ ~disturbed
      BY <1>1, <2>1, FindMoves
    <3> QED BY <3>1, RepliedKeeps
  <2>2. ASSUME NEW token, ResolveTokenFactory(p, token) PROVE Undisturbed'
    <3>1. /\ task[p].at = "ready" /\ \E a \in Dropped : Moves(p, Replied(a), lists[p])
          /\ UNCHANGED <<code, born, file>> /\ ~disturbed
      BY <1>1, <2>2, FactoryMoves
    <3> QED BY <3>1, RepliedKeeps
  <2>3. ASSUME NEW kind \in {"Token", "Identity", "ClaimIssuer"}, NEW tag, NEW within,
               StartResolve(p, kind, tag, within)
        PROVE  Undisturbed'
    <3>1. kind \in Kinds
      BY DEF Kinds
    <3> QED BY <2>3, <3>1, StartKeeps
  <2> QED BY <1>4, <2>1, <2>2, <2>3, LoadKeeps, DeployKeeps, ExitKeeps, Zenon DEF UserNext
<1>5. ASSUME NEW p \in Sessions, FailWrite(p) \/ MisreadEntry(p) \/ Crash(p) PROVE FALSE
  BY <1>5 DEF FailWrite, MisreadEntry, Crash
<1>6. CASE ClearHistory \/ RestartNode
  BY <1>6, OutsideKeeps
<1> QED BY <1>2, <1>3, <1>4, <1>5, <1>6, Zenon DEF Next

(***************************************************************************)
(* Nothing deployed is lost.                                               *)
(***************************************************************************)
LEMMA KeptIsNamed ==
  ASSUME BornOnce, TypeInv, NEW l, NEW n \in Nat, Keeps(l, born, code, n),
         NEW m \in DOMAIN born, m <= n
  PROVE  born[m] \in Entries(l)
<1>1. m \in 1 .. n /\ code[born[m]].kind \in Kinds
  <2>1. DOMAIN born = 1 .. Len(born) /\ Len(born) \in Nat
    BY BornKinds
  <2> QED BY <2>1, BornKinds
<1> DEFINE k == code[born[m]].kind
<1>2. PICK i \in DOMAIN l[k] : l[k][i] = born[m]
  BY <1>1 DEF Keeps, NamesAll
<1> QED BY <1>1, <1>2 DEF Entries

LEMMA StoredIsRecorded == Entries(Stored) = Recorded
<1>1. Entries(EmptyLists) = {}
  BY DEF Entries, EmptyLists
<1> QED BY <1>1 DEF Stored, Recorded

LEMMA CompleteWhenUndisturbed ==
  ASSUME TypeInv, BornOnce, Undisturbed
  PROVE  HistoryComplete
<1> SUFFICES ASSUME ~disturbed, NEW i \in DOMAIN born
             PROVE  \/ born[i] \in Recorded
                    \/ \E p \in Sessions :
                         \/ task[p].at = "save" /\ task[p].found = born[i]
                         \/ task[p].at = "write" /\ born[i] \in Entries(lists[p])
  BY DEF HistoryComplete
<1> DEFINE n == Len(born)
<1>1. n \in Nat /\ i <= n /\ i \in Nat
  <2>1. born \in Seq(Addresses)
    BY DEF BornOnce
  <2>2. DOMAIN born = 1 .. n /\ n \in Nat
    BY <2>1
  <2> QED BY <2>2
<1> HIDE DEF n
<1>2. CASE \A p \in Sessions : ~Active(p)
  <2>1. Keeps(Stored, born, code, n)
    BY <1>2 DEF Undisturbed, n
  <2> QED BY <1>1, <2>1, KeptIsNamed, StoredIsRecorded
<1>3. ASSUME NEW p \in Sessions, Active(p)
      PROVE  \/ born[i] \in Recorded
             \/ task[p].at = "save" /\ task[p].found = born[i]
             \/ task[p].at = "write" /\ born[i] \in Entries(lists[p])
  <2>1. SessionKeeps(task[p], lists[p], Stored, born, code)
    BY <1>3, ActiveKeeps
  <2>2. CASE task[p].at = "write"
    <3>1. Keeps(lists[p], born, code, n)
      BY <2>1, <2>2 DEF SessionKeeps, Saved, n
    <3> QED BY <1>1, <2>2, <3>1, KeptIsNamed
  <2>3. CASE task[p].at = "save" /\ i = n
    BY <2>1, <2>3 DEF SessionKeeps, n
  <2>4. CASE task[p].at = "save" /\ i # n
    <3>1. Keeps(Stored, born, code, n - 1) /\ n > 0
      BY <2>1, <2>4 DEF SessionKeeps, Saved, n
    <3>2. n - 1 \in Nat /\ i <= n - 1
      BY <1>1, <2>4, <3>1
    <3> QED BY <3>1, <3>2, KeptIsNamed, StoredIsRecorded
  <2>5. CASE task[p].at \notin {"save", "write"}
    <3>1. Keeps(Stored, born, code, n)
      BY <2>1, <2>5 DEF SessionKeeps, Saved, n
    <3> QED BY <1>1, <3>1, KeptIsNamed, StoredIsRecorded
  <2> QED BY <2>2, <2>3, <2>4, <2>5
<1> QED BY <1>2, <1>3

(***************************************************************************)
(* Resolution, step by step.                                               *)
(***************************************************************************)

\* What a search asks for does not depend on how far it has come.
LEMMA SameQuestion ==
  ASSUME NEW t, NEW u, u.kind = t.kind, u.tag = t.tag, u.within = t.within
  PROVE  /\ Asked(t) => Asked(u)
         /\ \A a : Fits(a, u) <=> Fits(a, t)
         /\ \A m : MatchesAt(m, u) <=> MatchesAt(m, t)
BY DEF Asked, Fits, MatchesAt

LEMMA SameFound ==
  ASSUME NEW t, NEW u, u.kind = t.kind, u.tag = t.tag, u.within = t.within,
         u.found = t.found, Found(t)
  PROVE  Found(u)
BY SameQuestion DEF Found

LEMMA AskStep ==
  ASSUME TypeInv, Undisturbed, ~disturbed, NEW p \in Sessions, Active(p), NEW t, NEW l,
         Moves(p, t, l), UNCHANGED <<code, born>>,
         t.at = "scan" => Probed(t, l),
         t.at = "answer" \/ (t.at = "write" /\ t.i # 0) => Found(t)
  PROVE  Resolving'
<1>1. \A q \in Sessions : /\ task'[q] = IF q = p THEN t ELSE task[q]
                          /\ lists'[q] = IF q = p THEN l ELSE lists[q]
  BY DEF Moves, TypeInv, SessionsFit
<1>2. \A q \in Sessions : q # p => task'[q].at = "off"
  BY <1>1 DEF Undisturbed, Alone, Active
<1>3. t.at = "scan" => Probed(task[p], lists[p])'
  BY <1>1 DEF Probed, Asked, Fits, Matches, IsA, TrustedIssuersOf
<1>4. t.at = "answer" \/ (t.at = "write" /\ t.i # 0) => Found(task[p])'
  BY <1>1 DEF Found, MatchesAt, Asked, Matches, IsA, TrustedIssuersOf
<1> QED BY <1>1, <1>2, <1>3, <1>4 DEF Resolving

LEMMA IdleStep ==
  ASSUME \A q \in Sessions : task'[q].at \in {"off", "ready", "save"}
  PROVE  Resolving'
BY DEF Resolving

\* The only active session comes to a place where nothing is resolved.
LEMMA IdleOwnStep ==
  ASSUME TypeInv, Undisturbed, ~disturbed, NEW p \in Sessions, Active(p), NEW t, NEW l,
         Moves(p, t, l), t.at \in {"off", "ready", "save"}
  PROVE  Resolving'
<1>1. \A q \in Sessions : task'[q] = IF q = p THEN t ELSE task[q]
  BY DEF Moves, TypeInv, SessionsFit
<1>2. \A q \in Sessions : q # p => task'[q].at = "off"
  BY <1>1 DEF Undisturbed, Alone, Active
<1> QED BY <1>1, <1>2, IdleStep

LEMMA StartResolving ==
  ASSUME TypeInv, Undisturbed, ~disturbed, NEW p \in Sessions,
         NEW kind \in {"Token", "Identity", "ClaimIssuer"}, NEW tag, NEW within,
         StartResolve(p, kind, tag, within)
  PROVE  Resolving'
<1> DEFINE t == [Ready EXCEPT !.at = "scan", !.kind = kind, !.tag = tag,
                              !.within = within, !.i = Len(lists[p][kind])]
           l == lists[p]
<1>1. SessionsFit /\ kind \in Kinds
  BY DEF TypeInv, Kinds
<1>2. /\ task[p].at = "ready" /\ UNCHANGED <<code, born>>
      /\ kind # "Token" => tag # NoTag
      /\ kind = "Token" => ~within
  BY <1>1, StartMoves
<1>3. Active(p)
  BY <1>2 DEF Active
<1>4. ASSUME NEW a \in Dropped, Moves(p, Replied(a), l)
      PROVE  Resolving'
  <2>1. Replied(a).at = "ready"
    BY DEF Replied, Ready, Off
  <2> QED BY <1>3, <1>4, <2>1, IdleOwnStep
<1>5. CASE (kind = "ClaimIssuer" /\ within => TrustedIssuersOf(tag) = {}) /\ Moves(p, t, l)
  <2>1. /\ t.at = "scan" /\ t.kind = kind /\ t.tag = tag /\ t.within = within
        /\ t.i = Len(l[kind]) /\ t.found = ZeroAddress
    BY DEF Ready, Off
  <2>2. l[kind] \in Seq(Dropped)
    BY <1>1 DEF SessionsFit
  <2>3. \A j \in DOMAIN l[kind] : ~(j > Len(l[kind]))
    BY <2>2
  <2> HIDE DEF t, l
  <2>4. Probed(t, l)
    BY <1>2, <1>5, <2>1, <2>3 DEF Probed, Asked
  <2> QED BY <1>2, <1>3, <1>5, <2>1, <2>4, AskStep
<1>6. (\E a \in Dropped : Moves(p, Replied(a), l))
      \/ ((kind = "ClaimIssuer" /\ within => TrustedIssuersOf(tag) = {}) /\ Moves(p, t, l))
  BY <1>1, StartMoves
<1> HIDE DEF t, l
<1> QED BY <1>4, <1>5, <1>6

LEMMA VisitResolving ==
  ASSUME TypeInv, Undisturbed, ~disturbed, Resolving, NEW p \in Sessions, Visit(p)
  PROVE  Resolving'
<1> DEFINE t == task[p]
           l == lists[p]
           i == t.i
           a == l[t.kind][i]
           here == [t EXCEPT !.found = a]
           on == [t EXCEPT !.i = i - 1]
           less == Dropping(l, t.kind, i)
<1>1. SessionsFit
  BY DEF TypeInv
<1>2. /\ t.at = "scan" /\ t.found = ZeroAddress /\ i \in 1 .. Len(l[t.kind])
      /\ UNCHANGED <<code, born>>
      /\ \/ IsA(a, t.kind) /\ Matches(a, t.kind, t.tag, t.within) /\ Moves(p, here, l)
         \/ IsA(a, t.kind) /\ ~Matches(a, t.kind, t.tag, t.within) /\ Moves(p, on, l)
         \/ ~IsA(a, t.kind) /\ Moves(p, on, less)
  BY <1>1, VisitMoves
<1>3. Active(p) /\ t \in TaskType /\ l \in [Kinds -> Seq(Dropped)] /\ t.kind \in Kinds
  BY <1>1, <1>2 DEF Active, SessionsFit, TaskType
<1>4. DOMAIN l[t.kind] = 1 .. Len(l[t.kind]) /\ Len(l[t.kind]) \in Nat
  <2>1. l[t.kind] \in Seq(Dropped)
    BY <1>3
  <2> QED BY <2>1
<1>5. Probed(t, l)
  BY <1>2 DEF Resolving
<1>6. /\ here.at = "scan" /\ here.kind = t.kind /\ here.tag = t.tag
      /\ here.within = t.within /\ here.i = i /\ here.found = a
      /\ on.at = "scan" /\ on.kind = t.kind /\ on.tag = t.tag
      /\ on.within = t.within /\ on.i = i - 1 /\ on.found = ZeroAddress
  BY <1>2, <1>3 DEF TaskType
<1>7. /\ less[t.kind] = [l[t.kind] EXCEPT ![i] = ZeroAddress]
  BY <1>3 DEF Dropping
<1>8. ~Fits(ZeroAddress, t)
  BY ZeroAssumption DEF Fits, IsA
<1> DEFINE list == l[t.kind]
<1> HIDE DEF here, on, less, i, a
<1>9. Fits(a, t) <=> IsA(a, t.kind) /\ Matches(a, t.kind, t.tag, t.within)
  BY DEF Fits
<1>10. CASE Fits(a, t) /\ Moves(p, here, l)
  <2>1. /\ Asked(here) /\ \A x : Fits(x, here) <=> Fits(x, t)
    BY <1>5, <1>6, SameQuestion DEF Probed
  <2>2. Probed(here, l)
    BY <1>2, <1>4, <1>5, <1>6, <1>10, <2>1 DEF Probed, a, i
  <2> QED BY <1>2, <1>3, <1>6, <1>10, <2>2, AskStep
<1>11. CASE ~Fits(a, t) /\ (Moves(p, on, l) \/ Moves(p, on, less))
  <2>1. /\ Asked(on) /\ \A x : Fits(x, on) <=> Fits(x, t)
    BY <1>5, <1>6, SameQuestion DEF Probed
  <2>2. \A j \in DOMAIN l[t.kind] : j > i - 1 => j = i \/ j > t.i
    BY <1>2, <1>4 DEF i
  <2>3. \A j \in DOMAIN l[t.kind] : j > i - 1 => ~Fits(l[t.kind][j], t)
    BY <1>5, <1>11, <2>2 DEF Probed, a
  <2>4. Probed(on, l)
    BY <1>6, <2>1, <2>3 DEF Probed
  <2>5. \A j \in DOMAIN less[t.kind] : j > i - 1 => ~Fits(less[t.kind][j], t)
    BY <1>7, <1>8, <2>3
  <2>6. Probed(on, less)
    BY <1>6, <2>1, <2>5 DEF Probed
  <2> QED BY <1>2, <1>3, <1>6, <1>11, <2>4, <2>6, AskStep
<1> QED BY <1>2, <1>9, <1>10, <1>11

\* At the end of a scan the latest deployment that matches has been found.
LEMMA ScanFinds ==
  ASSUME TypeInv, BornOnce, NEW t, NEW l, t.kind \in Kinds, t.i \in Nat,
         l[t.kind] \in Seq(Dropped),
         Keeps(l, born, code, Len(born)), Probed(t, l),
         ~(t.found = ZeroAddress /\ t.i > 0)
  PROVE  Found(t)
<1> DEFINE kind == t.kind
           list == l[kind]
<1>1. DOMAIN list = 1 .. Len(list) /\ Len(list) \in Nat
  OBVIOUS
<1>2. /\ born \in Seq(Addresses) /\ DOMAIN born = 1 .. Len(born) /\ Len(born) \in Nat
      /\ \A m \in DOMAIN born : born[m] \in Addresses /\ code[born[m]] # NoCode
  BY DEF BornOnce
<1>3. NamesFirst(l, born, code, Len(born)) /\ NamesAll(l, born, code, Len(born))
      /\ InOrder(l, born)
  BY DEF Keeps
<1>4. ASSUME NEW m \in DOMAIN born, MatchesAt(m, t)
      PROVE  \E j \in DOMAIN list : list[j] = born[m] /\ j <= t.i
  <2>1. code[born[m]].kind = kind /\ Fits(born[m], t)
    BY <1>2, <1>4 DEF MatchesAt, Fits, IsA
  <2>2. m \in 1 .. Len(born)
    BY <1>2
  <2>3. PICK j \in DOMAIN list : list[j] = born[m]
    BY <1>3, <2>1, <2>2 DEF NamesAll
  <2>4. ~(j > t.i)
    BY <2>1, <2>3 DEF Probed
  <2>5. j <= t.i
    BY <1>1, <2>4
  <2> QED BY <2>3, <2>5
<1>5. CASE t.found = ZeroAddress
  <2>1. t.i = 0
    BY <1>5
  <2>2. \A m \in DOMAIN born : ~MatchesAt(m, t)
    BY <1>1, <1>4, <2>1
  <2> QED BY <1>5, <2>2 DEF Found, Probed
<1>6. CASE t.found # ZeroAddress
  <2>1. t.i \in DOMAIN list /\ t.found = list[t.i] /\ Fits(t.found, t)
    BY <1>6 DEF Probed
  <2>2. PICK m \in DOMAIN born : born[m] = t.found
    BY <2>1 DEF Fits, IsA, BornOnce
  <2>3. MatchesAt(m, t)
    <3>1. code[born[m]].kind = kind
      BY <1>3, <2>1, <2>2 DEF NamesFirst
    <3> QED BY <2>1, <2>2, <3>1 DEF MatchesAt, Fits
  <2>4. ASSUME NEW q \in DOMAIN born, MatchesAt(q, t)
        PROVE  q <= m
    <3>1. PICK j \in DOMAIN list : list[j] = born[q] /\ j <= t.i
      BY <1>4, <2>4
    <3>2. CASE j = t.i
      <4>1. q = m
        BY <2>1, <2>2, <3>1, <3>2 DEF BornOnce
      <4> QED BY <1>2, <4>1
    <3>3. CASE j # t.i
      <4>1. j < t.i
        BY <1>1, <3>1, <3>3
      <4>2. PICK later \in DOMAIN born : q < later /\ list[t.i] = born[later]
        BY <1>3, <1>6, <2>1, <3>1, <4>1 DEF InOrder
      <4>3. later = m
        BY <2>1, <2>2, <4>2 DEF BornOnce
      <4> QED BY <1>2, <4>2, <4>3
    <3> QED BY <3>2, <3>3
  <2> QED BY <2>2, <2>3, <2>4 DEF Found, Probed
<1> QED BY <1>5, <1>6

LEMMA EndResolving ==
  ASSUME TypeInv, BornOnce, Undisturbed, ~disturbed, Resolving, NEW p \in Sessions, EndScan(p)
  PROVE  Resolving'
<1> DEFINE t == task[p]
           l == lists[p]
           written == Writing(Ended(t))
           answered == [Ended(t) EXCEPT !.at = "answer"]
<1>1. SessionsFit
  BY DEF TypeInv
<1>2. /\ t.at = "scan" /\ ~(t.found = ZeroAddress /\ t.i > 0) /\ UNCHANGED <<code, born>>
      /\ Moves(p, written, Cleaned(l, t.kind)) \/ Moves(p, answered, l)
  BY <1>1, EndMoves
<1>3. Active(p) /\ t \in TaskType /\ l \in [Kinds -> Seq(Dropped)]
  BY <1>1, <1>2 DEF Active, SessionsFit
<1>4. t.kind \in Kinds /\ t.i \in Nat /\ l[t.kind] \in Seq(Dropped)
  <2>1. t.kind \in Kinds /\ t.i \in Nat
    BY <1>3 DEF TaskType
  <2> QED BY <1>3, <2>1
<1>5. Keeps(l, born, code, Len(born))
  BY <1>2, <1>3, ActiveKeeps DEF SessionKeeps, Saved
<1>6. Probed(t, l)
  BY <1>2 DEF Resolving
<1>7. Found(t)
  BY <1>2, <1>4, <1>5, <1>6, ScanFinds
<1>8. ASSUME NEW u, u = written \/ u = answered
      PROVE  /\ u.at # "scan" /\ u.kind = t.kind /\ u.tag = t.tag /\ u.within = t.within
             /\ u.found = t.found
  BY <1>3, <1>8 DEF Writing, Ended, TaskType
<1>9. ASSUME NEW u, u = written \/ u = answered
      PROVE  u.at # "scan" /\ Found(u)
  BY <1>7, <1>8, <1>9, SameFound
<1> HIDE DEF written, answered
<1> QED BY <1>2, <1>3, <1>9, AskStep

LEMMA FinishResolving ==
  ASSUME TypeInv, Undisturbed, ~disturbed, Resolving, NEW p \in Sessions, FinishWrite(p)
  PROVE  Resolving'
<1> DEFINE t == task[p]
           u == Written(t)
<1>1. t.at = "write" /\ Active(p) /\ UNCHANGED <<code, born, lists>>
  BY DEF FinishWrite, Active
<1>2. \A q \in Sessions : task[q] \in TaskType
  BY DEF TypeInv, SessionsFit
<1>3. task'[p] = u /\ \A q \in Sessions \ {p} : task'[q].at = task[q].at
  BY <1>2 DEF FinishWrite, Written, TaskType
<1>4. \A q \in Sessions : q # p => task'[q].at = "off"
  BY <1>1, <1>3 DEF Undisturbed, Alone, Active
<1>5. CASE t.i = 0
  BY <1>3, <1>4, <1>5, IdleStep DEF Written, Ready, Off
<1>6. CASE t.i # 0
  <2>1. Found(t)
    BY <1>1, <1>6 DEF Resolving
  <2>2. /\ u.at = "answer" /\ u.kind = t.kind /\ u.tag = t.tag /\ u.within = t.within
        /\ u.found = t.found
    BY <1>2, <1>6 DEF Written, TaskType
  <2>3. Found(u)
    BY <2>1, <2>2, SameFound
  <2> HIDE DEF u
  <2>4. Found(task[p])'
    BY <1>1, <1>3, <2>3 DEF Found, MatchesAt, Asked, Matches, IsA, TrustedIssuersOf
  <2> QED BY <1>3, <1>4, <2>2, <2>4 DEF Resolving
<1> QED BY <1>5, <1>6

LEMMA InitResolving == Init => Resolving
BY DEF Init, Resolving, Off

LEMMA NextResolving ==
  ASSUME TypeInv, BornOnce, Undisturbed, Resolving, [Next]_vars
  PROVE  Resolving'
<1> SUFFICES ASSUME ~disturbed' PROVE Resolving'
  BY DEF Resolving
<1>1. SessionsFit
  BY DEF TypeInv
<1>2. CASE UNCHANGED vars
  <2>1. /\ code' = code /\ born' = born /\ task' = task /\ lists' = lists
        /\ ~disturbed
    BY <1>2 DEF vars
  <2>2. ASSUME NEW p \in Sessions, task[p].at = "scan" PROVE Probed(task[p], lists[p])'
    <3>1. Probed(task[p], lists[p])
      BY <2>1, <2>2 DEF Resolving
    <3> QED BY <2>1, <3>1 DEF Probed, Asked, Fits, Matches, IsA, TrustedIssuersOf
  <2>3. ASSUME NEW p \in Sessions,
               task[p].at = "answer" \/ (task[p].at = "write" /\ task[p].i # 0)
        PROVE  Found(task[p])'
    <3>1. Found(task[p])
      BY <2>1, <2>3 DEF Resolving
    <3> QED BY <2>1, <3>1 DEF Found, MatchesAt, Asked, Matches, IsA, TrustedIssuersOf
  <2> QED BY <2>1, <2>2, <2>3 DEF Resolving
<1>3. ASSUME NEW p \in Sessions, task[p].at \in {"ready", "answer"}, ~disturbed,
             \E a \in Dropped : Moves(p, Replied(a), lists[p])
      PROVE  Resolving'
  <2>1. PICK a \in Dropped : Moves(p, Replied(a), lists[p])
    BY <1>3
  <2>2. Replied(a).at = "ready" /\ Active(p)
    BY <1>3 DEF Replied, Ready, Off, Active
  <2> QED BY <1>3, <2>1, <2>2, IdleOwnStep
<1>4. ASSUME NEW p \in Sessions, Load(p) PROVE Resolving'
  <2>1. Moves(p, Ready, Stored) /\ \A q \in Sessions : ~Active(q)
    BY <1>1, <1>4, LoadMoves
  <2>2. \A q \in Sessions : task'[q] = IF q = p THEN Ready ELSE task[q]
    BY <1>1, <2>1 DEF Moves, SessionsFit
  <2> QED BY <2>1, <2>2, IdleStep DEF Active, Ready, Off
<1>5. ASSUME NEW p \in Sessions, NEW a \in Addresses, NEW c \in Contents, Deploy(p, a, c)
      PROVE  Resolving'
  <2>1. task[p].at = "ready" /\ Moves(p, Saving(c.kind, a), lists[p])
    BY <1>1, <1>5, DeployMoves
  <2>2. ~disturbed /\ Saving(c.kind, a).at = "save" /\ Active(p)
    BY <1>5, <2>1 DEF Deploy, Saving, Ready, Off, Active
  <2> QED BY <2>1, <2>2, IdleOwnStep
<1>6. ASSUME NEW p \in Sessions, Save(p) PROVE Resolving'
  <2> DEFINE t == task[p]
             written == Writing(t)
  <2>1. /\ t.at = "save" /\ ~disturbed /\ UNCHANGED <<code, born>>
        /\ \/ Moves(p, Ready, lists[p])
           \/ Moves(p, written, Adding(lists[p], t.kind, t.found))
    BY <1>1, <1>6, SaveMoves
  <2>2. Active(p) /\ t \in TaskType
    BY <1>1, <2>1 DEF Active, SessionsFit
  <2>3. t.i = 0
    BY <2>1, <2>2, ActiveKeeps DEF SessionKeeps
  <2>4. written.at = "write" /\ written.i = 0 /\ Ready.at = "ready"
    BY <2>2, <2>3 DEF Writing, TaskType, Ready, Off
  <2> HIDE DEF written
  <2> QED BY <2>1, <2>2, <2>4, IdleOwnStep, AskStep
<1>7. ASSUME NEW p \in Sessions, Exit(p) PROVE Resolving'
  <2>1. Moves(p, Off, EmptyLists) /\ ~disturbed /\ Active(p) /\ Off.at = "off"
    BY <1>7, StopMoves DEF Exit, Active, Off
  <2> QED BY <2>1, IdleOwnStep
<1>8. ASSUME NEW p \in Sessions, Proceed(p) PROVE Resolving'
  <2>1. ~disturbed
    BY <1>8, Zenon DEF Proceed, Save, FinishWrite, Visit, EndScan, Answer
  <2>2. ASSUME Answer(p) PROVE Resolving'
    BY <1>1, <1>3, <2>1, <2>2, AnswerMoves
  <2> QED BY <1>6, <1>8, <2>1, <2>2, FinishResolving, VisitResolving, EndResolving, Zenon
          DEF Proceed
<1>9. ASSUME NEW p \in Sessions, UserNext(p) PROVE Resolving'
  <2>1. ASSUME NEW name, FindManager(p, name) PROVE Resolving'
    <3>1. task[p].at = "ready" /\ ~disturbed /\ \E a \in Dropped : Moves(p, Replied(a), lists[p])
      BY <1>1, <2>1, FindMoves
    <3> QED BY <1>3, <3>1
  <2>2. ASSUME NEW token, ResolveTokenFactory(p, token) PROVE Resolving'
    <3>1. task[p].at = "ready" /\ ~disturbed /\ \E a \in Dropped : Moves(p, Replied(a), lists[p])
      BY <1>1, <2>2, FactoryMoves
    <3> QED BY <1>3, <3>1
  <2>3. ASSUME NEW kind \in {"Token", "Identity", "ClaimIssuer"}, NEW tag, NEW within,
               StartResolve(p, kind, tag, within)
        PROVE  Resolving'
    <3>1. ~disturbed
      BY <2>3 DEF StartResolve
    <3> QED BY <2>3, <3>1, StartResolving
  <2> QED BY <1>4, <1>5, <1>7, <1>9, <2>1, <2>2, <2>3, Zenon DEF UserNext
<1>10. ASSUME NEW p \in Sessions, FailWrite(p) \/ MisreadEntry(p) \/ Crash(p) PROVE FALSE
  BY <1>10 DEF FailWrite, MisreadEntry, Crash
<1>11. CASE ClearHistory \/ RestartNode
  <2>1. \A q \in Sessions : task'[q].at = "off"
    BY <1>11 DEF ClearHistory, RestartNode, Active
  <2> QED BY <2>1, IdleStep
<1> QED BY <1>2, <1>8, <1>9, <1>10, <1>11, Zenon DEF Next

(***************************************************************************)
(* What a resolution returns.                                              *)
(***************************************************************************)
LEMMA LatestIs ==
  ASSUME BornOnce, NEW S, S \subseteq DOMAIN born, NEW m \in S, \A j \in S : j <= m
  PROVE  Latest(S) = born[m]
<1>1. \A j \in S : j \in Nat
  <2>1. born \in Seq(Addresses)
    BY DEF BornOnce
  <2>2. DOMAIN born = 1 .. Len(born) /\ Len(born) \in Nat
    BY <2>1
  <2> QED BY <2>2
<1>2. \A i \in S : (\A j \in S : j <= i) => i = m
  BY <1>1
<1>3. (CHOOSE i \in S : \A j \in S : j <= i) = m
  BY <1>2
<1> QED BY <1>3 DEF Latest

LEMMA LatestOfNone == Latest({}) = ZeroAddress
BY DEF Latest

LEMMA FactoryIsLatest ==
  ASSUME TypeInv, BornOnce, NEW p \in Sessions, AreLists(lists[p], Addresses),
         Keeps(lists[p], born, code, Len(born))
  PROVE  /\ Deployed("TREXFactory") # {} \/ IsA(LastFactory(p), "TREXFactory") =>
              /\ IsA(LastFactory(p), "TREXFactory")
              /\ LastFactory(p) = Latest(Deployed("TREXFactory"))
<1> DEFINE l == lists[p]
           list == l["TREXFactory"]
           n == Len(list)
           D == Deployed("TREXFactory")
           f == LastFactory(p)
<1>1. list \in Seq(Addresses) /\ "TREXFactory" \in Kinds
  BY DEF AreLists, Kinds
<1>2. DOMAIN list = 1 .. n /\ n \in Nat /\ \A i \in DOMAIN list : list[i] \in Addresses
  BY <1>1
<1>3. /\ born \in Seq(Addresses) /\ DOMAIN born = 1 .. Len(born) /\ Len(born) \in Nat
      /\ \A m \in DOMAIN born : born[m] \in Addresses /\ code[born[m]] # NoCode
      /\ \A m, q \in DOMAIN born : born[m] = born[q] => m = q
  BY DEF BornOnce
<1>4. NamesFirst(l, born, code, Len(born)) /\ NamesAll(l, born, code, Len(born))
      /\ InOrder(l, born)
  BY DEF Keeps
<1>5. \A m \in DOMAIN born : m \in D <=> code[born[m]].kind = "TREXFactory"
  BY DEF Deployed
<1>6. D \subseteq DOMAIN born
  BY DEF Deployed
<1>7. n > 0 => f = list[n] /\ n \in DOMAIN list
  BY <1>1, <1>2 DEF LastFactory
<1>8. n = 0 => f = ZeroAddress
  BY <1>1 DEF LastFactory
<1> HIDE DEF D, f
\* Every factory deployed is listed, and followed by none but later ones.
<1>9. ASSUME NEW m \in D
      PROVE  n > 0 /\ \E q \in DOMAIN born : f = born[q] /\ m <= q
  <2>1. PICK i \in DOMAIN list : list[i] = born[m]
    <3>1. m \in 1 .. Len(born) /\ code[born[m]].kind = "TREXFactory"
      BY <1>3, <1>5, <1>6
    <3> QED BY <1>4, <3>1 DEF NamesAll
  <2>2. n > 0
    BY <1>2, <2>1
  <2>3. CASE i = n
    BY <1>3, <1>6, <1>7, <2>1, <2>2, <2>3
  <2>4. CASE i # n
    <3>1. i < n /\ list[n] # ZeroAddress /\ n \in DOMAIN list /\ m \in DOMAIN born
      BY <1>2, <1>6, <2>1, <2>2, <2>4, ZeroAssumption
    <3>2. PICK later \in DOMAIN born : m < later /\ list[n] = born[later]
      BY <1>1, <1>4, <2>1, <3>1 DEF InOrder
    <3>3. m <= later
      BY <1>3, <3>1, <3>2
    <3> QED BY <1>7, <2>2, <3>2, <3>3
  <2> QED BY <2>3, <2>4
<1>10. ASSUME NEW q \in DOMAIN born, f = born[q]
       PROVE  q \in D /\ IsA(f, "TREXFactory") /\ f = Latest(D)
  <2>1. n > 0
    BY <1>2, <1>3, <1>8, <1>10, ZeroAssumption
  <2>2. code[born[q]].kind = "TREXFactory"
    BY <1>1, <1>4, <1>7, <1>10, <2>1 DEF NamesFirst
  <2>3. q \in D /\ IsA(f, "TREXFactory")
    BY <1>3, <1>5, <1>10, <2>2 DEF IsA
  <2>4. \A m \in D : m <= q
    BY <1>3, <1>9, <1>10
  <2> QED BY <1>6, <1>10, <2>3, <2>4, LatestIs
<1>11. CASE D # {}
  BY <1>9, <1>10, <1>11 DEF f, D
<1>12. CASE IsA(f, "TREXFactory")
  <2>1. PICK q \in DOMAIN born : born[q] = f
    BY <1>12 DEF IsA, BornOnce
  <2> QED BY <1>10, <2>1 DEF f, D
<1> QED BY <1>11, <1>12 DEF f, D

Salted(f, salt) == {i \in Deployed("Token") : code[born[i]].by = f /\ code[born[i]].salt = salt}

LEMMA OneSalted ==
  ASSUME TypeInv, BornOnce, OncePerSalt, NEW p \in Sessions, NEW salt,
         AreLists(lists[p], Addresses), Keeps(lists[p], born, code, Len(born))
  PROVE  (IF TokenFromSalt(p, salt) # {} THEN CHOOSE a \in TokenFromSalt(p, salt) : TRUE
          ELSE ZeroAddress)
           = Latest(Salted(Latest(Deployed("TREXFactory")), salt))
<1> DEFINE f == Latest(Deployed("TREXFactory"))
           S == Salted(f, salt)
           T == TokenFromSalt(p, salt)
<1>1. /\ born \in Seq(Addresses) /\ DOMAIN born = 1 .. Len(born) /\ Len(born) \in Nat
      /\ \A m \in DOMAIN born : born[m] \in Addresses /\ code[born[m]] # NoCode
      /\ \A m, q \in DOMAIN born : born[m] = born[q] => m = q
  BY DEF BornOnce
<1>2. S \subseteq DOMAIN born
  BY DEF Salted, Deployed
<1>3. ASSUME NEW i \in S
      PROVE  /\ born[i] \in T
             /\ \A a \in T : a = born[i]
             /\ \A j \in S : j <= i
  <2>1. /\ i \in DOMAIN born /\ IsToken(born[i]) /\ code[born[i]].by = f
        /\ code[born[i]].salt = salt
    BY <1>1, <1>3 DEF Salted, Deployed, IsToken
  <2>2. IsA(f, "TREXFactory")
    BY <1>1, <2>1 DEF OncePerSalt
  <2>3. Deployed("TREXFactory") # {}
    <3> HIDE DEF f
    <3>1. PICK q \in DOMAIN born : born[q] = f
      BY <2>2 DEF IsA, BornOnce
    <3>2. code[born[q]].kind = "TREXFactory"
      BY <2>2, <3>1 DEF IsA
    <3> QED BY <3>1, <3>2 DEF Deployed
  <2>4. IsA(LastFactory(p), "TREXFactory") /\ LastFactory(p) = f
    BY <2>3, FactoryIsLatest
  <2> HIDE DEF f
  <2>5. T = {a \in Addresses : IsA(a, "Token") /\ code[a].by = f /\ code[a].salt = salt}
    BY <2>4 DEF TokenFromSalt
  <2>6. born[i] \in T
    BY <1>1, <2>1, <2>5 DEF IsToken, IsA
  <2>7. \A a \in T : a = born[i]
    BY <1>1, <2>1, <2>5 DEF OncePerSalt, IsToken, IsA
  <2>8. ASSUME NEW j \in S PROVE j = i
    <3>1. j \in DOMAIN born /\ IsToken(born[j]) /\ code[born[j]].by = f
          /\ code[born[j]].salt = salt
      BY <1>1, <2>8 DEF Salted, Deployed, IsToken
    <3>2. born[j] = born[i]
      BY <1>1, <2>1, <3>1 DEF OncePerSalt
    <3> QED BY <1>1, <2>1, <3>1, <3>2
  <2>9. i \in Nat
    BY <1>1, <2>1
  <2> QED BY <2>6, <2>7, <2>8, <2>9
<1>4. ASSUME S = {} PROVE T = {}
  <2>1. SUFFICES ASSUME NEW a \in T PROVE FALSE
    OBVIOUS
  <2>2. /\ IsA(LastFactory(p), "TREXFactory") /\ a \in Addresses /\ IsA(a, "Token")
        /\ code[a].by = LastFactory(p) /\ code[a].salt = salt
    BY <2>1 DEF TokenFromSalt
  <2>3. LastFactory(p) = f
    BY <2>2, FactoryIsLatest
  <2> HIDE DEF f
  <2>4. PICK i \in DOMAIN born : born[i] = a
    BY <2>2 DEF BornOnce, IsA
  <2>5. i \in S
    BY <2>2, <2>3, <2>4 DEF Salted, Deployed, IsA
  <2> QED BY <1>4, <2>5
<1> HIDE DEF S, T
<1>5. CASE S = {}
  BY <1>4, <1>5, LatestOfNone DEF S, T
<1>6. CASE S # {}
  <2>1. PICK i \in S : TRUE
    BY <1>6
  <2>2. (CHOOSE a \in T : TRUE) = born[i]
    BY <1>3, <2>1
  <2>3. Latest(S) = born[i]
    BY <1>2, <1>3, <2>1, LatestIs
  <2> QED BY <1>3, <2>1, <2>2, <2>3 DEF S, T
<1> QED BY <1>5, <1>6

LEMMA AnswerReturns ==
  ASSUME TypeInv, BornOnce, OncePerSalt, Undisturbed, Resolving, ~disturbed,
         NEW p \in Sessions, Answer(p)
  PROVE  task'[p].found = Expected(task[p].kind, task[p].tag, task[p].within)
<1> DEFINE t == task[p]
           salted == IF t.kind = "Token" THEN TokenFromSalt(p, t.tag) ELSE {}
           r == IF IsA(t.found, t.kind) THEN t.found
                ELSE IF t.tag # NoTag /\ salted # {} THEN CHOOSE a \in salted : TRUE
                ELSE ZeroAddress
           M == {i \in Deployed(t.kind) : Matches(born[i], t.kind, t.tag, t.within)}
           S == Salted(Latest(Deployed("TREXFactory")), t.tag)
           many == t.kind = "ClaimIssuer" /\ t.within /\ Cardinality(M) > 1
<1>1. SessionsFit
  BY DEF TypeInv
<1>2. t.at = "answer" /\ task' = [task EXCEPT ![p] = [Ready EXCEPT !.found = r]]
  BY DEF Answer, Reply
<1>3. task'[p].found = r
  <2> DEFINE u == [Ready EXCEPT !.found = r]
  <2>1. u.found = r
    <3> HIDE DEF r
    <3> QED BY DEF Ready, Off
  <2>2. task' = [task EXCEPT ![p] = u]
    BY <1>2
  <2> HIDE DEF u, r
  <2>3. task'[p] = u
    BY <1>1, <2>2 DEF SessionsFit
  <2> QED BY <2>1, <2>3
<1>4. Found(t) /\ Active(p)
  BY <1>2 DEF Resolving, Active
<1>5. AreLists(lists[p], Addresses) /\ Keeps(lists[p], born, code, Len(born))
  BY <1>1, <1>2, <1>4, ActiveKeeps DEF SessionsFit, SessionFits, SessionKeeps, Saved
<1>6. \A m : m \in M <=> m \in DOMAIN born /\ MatchesAt(m, t)
  BY DEF Deployed, MatchesAt
<1>7. /\ born \in Seq(Addresses)
      /\ \A m \in DOMAIN born : born[m] \in Addresses /\ code[born[m]] # NoCode
  BY DEF BornOnce
<1>8. Expected(t.kind, t.tag, t.within)
        = IF t.kind = "Token" /\ M = {} /\ t.tag # NoTag THEN Latest(S)
          ELSE IF many THEN ZeroAddress ELSE Latest(M)
  BY DEF Expected, Salted
<1>9. CASE M # {}
  <2>1. PICK m \in DOMAIN born :
           t.found = born[m] /\ MatchesAt(m, t) /\ \A q \in M : q <= m
    BY <1>4, <1>6, <1>9 DEF Found
  <2>2. Latest(M) = t.found
    <3>1. m \in M /\ M \subseteq DOMAIN born
      BY <1>6, <2>1
    <3> HIDE DEF M
    <3> QED BY <2>1, <3>1, LatestIs
  <2>3. IsA(t.found, t.kind)
    BY <1>7, <2>1 DEF MatchesAt, IsA
  <2>4. ~many
    <3> SUFFICES ASSUME t.kind = "ClaimIssuer", t.within PROVE FALSE
      OBVIOUS
    <3>1. TrustedIssuersOf(t.tag) = {} /\ t.tag # NoTag
      BY <1>4 DEF Found, Asked
    <3>2. t.found \in TrustedIssuersOf(t.tag)
      BY <1>7, <2>1, <2>3, <3>1 DEF TrustedIssuersOf, MatchesAt, Matches
    <3> QED BY <3>1, <3>2
  <2> HIDE DEF M, S, many
  <2> QED BY <1>3, <1>8, <1>9, <2>2, <2>3, <2>4
<1>10. CASE M = {}
  <2>1. t.found = ZeroAddress /\ ~IsA(t.found, t.kind)
    BY <1>4, <1>6, <1>10, ZeroAssumption DEF Found, IsA
  <2>2. CASE t.kind = "Token" /\ t.tag # NoTag
    <3>1. salted = TokenFromSalt(p, t.tag)
      BY <2>2
    <3>2. r = Latest(S)
      BY <1>5, <2>1, <2>2, <3>1, OneSalted
    <3> HIDE DEF r, M, S, many
    <3> QED BY <1>3, <1>8, <1>10, <2>2, <3>2
  <2>3. CASE ~(t.kind = "Token" /\ t.tag # NoTag)
    <3>1. r = ZeroAddress
      BY <2>1, <2>3
    <3>2. Latest(M) = ZeroAddress
      BY <1>10, LatestOfNone
    <3> HIDE DEF r, M, S, many
    <3> QED BY <1>3, <1>8, <2>3, <3>1, <3>2
  <2> QED BY <2>2, <2>3
<1> QED BY <1>9, <1>10

\* Only Answer takes a session from "answer" to "ready".
LEMMA OnlyAnswerReplies ==
  ASSUME TypeInv, [Next]_vars, NEW p \in Sessions, task[p].at = "answer",
         task'[p].at = "ready"
  PROVE  Answer(p)
<1>1. SessionsFit
  BY DEF TypeInv
<1> SUFFICES ASSUME ~Answer(p) PROVE FALSE
  OBVIOUS
<1>2. ASSUME NEW q \in Sessions, NEW t, NEW l, Moves(q, t, l), q = p => t.at # "ready"
      PROVE  FALSE
  BY <1>1, <1>2 DEF Moves, SessionsFit
<1>3. ASSUME NEW q \in Sessions, Proceed(q) \/ UserNext(q) \/ FailWrite(q) \/ MisreadEntry(q)
                                   \/ Crash(q)
      PROVE  FALSE
  <2>1. CASE q = p
    <3>1. ~Save(q) /\ ~FinishWrite(q) /\ ~Visit(q) /\ ~EndScan(q) /\ ~Answer(q) /\ ~FailWrite(q)
          /\ ~MisreadEntry(q) /\ ~Load(q) /\ ~Exit(q)
      BY <2>1 DEF Save, FinishWrite, Visit, EndScan, FailWrite, MisreadEntry, Scanning, Load,
                  Exit, Active
    <3>2. \A a, c : ~Deploy(q, a, c)
      BY <2>1 DEF Deploy
    <3>3. \A k, tag, w : ~StartResolve(q, k, tag, w)
      BY <2>1 DEF StartResolve
    <3>4. \A a : ~FindManager(q, a) /\ ~ResolveTokenFactory(q, a)
      BY <2>1 DEF FindManager, ResolveTokenFactory
    <3>5. ~Crash(q)
      <4> SUFFICES ASSUME Crash(q) PROVE FALSE
        OBVIOUS
      <4>1. Moves(q, Off, EmptyLists) /\ Off.at # "ready"
        BY StopMoves DEF Off
      <4> QED BY <1>2, <4>1
    <3> QED BY <1>3, <3>1, <3>2, <3>3, <3>4, <3>5, Zenon DEF Proceed, UserNext
  <2>2. CASE q # p
    <3>1. task'[p].at = task[p].at
      <4>1. ASSUME FinishWrite(q) PROVE task'[p].at = task[p].at
        BY <1>1, <2>2, <4>1 DEF FinishWrite, SessionsFit, TaskType
      <4>2. ASSUME ~FinishWrite(q) PROVE \E t : task' = [task EXCEPT ![q] = t]
        <5>1. ASSUME Proceed(q) PROVE \E t : task' = [task EXCEPT ![q] = t]
          BY <4>2, <5>1, Zenon DEF Proceed, Save, OpenForWrite, Visit, EndScan, Answer, Reply
        <5>2. ASSUME UserNext(q) PROVE \E t : task' = [task EXCEPT ![q] = t]
          BY <5>2, Zenon DEF UserNext, Load, Deploy, StartResolve, FindManager,
                             ResolveTokenFactory, Reply, Exit, Stop
        <5> QED BY <1>3, <4>2, <5>1, <5>2, Zenon DEF FailWrite, MisreadEntry, Crash, Stop
      <4> QED BY <1>1, <2>2, <4>1, <4>2 DEF SessionsFit
    <3> QED BY <3>1
  <2> QED BY <2>1, <2>2
<1>4. ASSUME ClearHistory \/ RestartNode \/ UNCHANGED vars PROVE FALSE
  BY <1>4 DEF ClearHistory, RestartNode, vars
<1> QED BY <1>3, <1>4, Zenon DEF Next

(***************************************************************************)
(* The theorems.                                                           *)
(***************************************************************************)
HistoryInv == TypeInv /\ BornOnce /\ OncePerSalt /\ Undisturbed /\ Resolving

LEMMA InitHistory == Init => HistoryInv
BY InitTypeInv, InitBorn, InitUndisturbed, InitResolving DEF HistoryInv

LEMMA NextHistory == HistoryInv /\ [Next]_vars => HistoryInv'
BY NextTypeInv, NextBorn, NextUndisturbed, NextResolving DEF HistoryInv

\* Whatever is deployed, saved, resolved, torn, removed or lost, the file is one
\* of the three things load tells apart, a copy is six lists that name no address
\* twice, and a dropped entry stands only in the list being probed: it is removed
\* before the copy is written.
THEOREM HistoryTypeCorrect == Spec => []HistoryTypeOK
<1>1. HistoryInv => HistoryTypeOK
  BY TypeInvSuffices DEF HistoryInv
<1> QED BY <1>1, InitHistory, NextHistory, PTL DEF Spec

\* Left alone, the history names every contract the command line has deployed,
\* or the session that deployed it is about to write it: what a session adds goes
\* to the copy it loaded, which lists all the others, and the whole copy replaces
\* the file.
THEOREM NothingDeployedIsLost == Spec => []HistoryComplete
<1>1. HistoryInv => HistoryComplete
  BY CompleteWhenUndisturbed DEF HistoryInv
<1> QED BY <1>1, InitHistory, NextHistory, PTL DEF Spec

\* Left alone, a resolution returns the deployment the node would name: the last
\* one of its kind that matches, a token no name matches by its salt in the last
\* factory, and nothing only if there is none.
THEOREM LatestIsResolved == Spec => LatestResolved
<1>1. HistoryInv /\ [Next]_vars =>
        [\A p \in Sessions :
           task[p].at = "answer" /\ task'[p].at = "ready" /\ ~disturbed =>
             task'[p].found = Expected(task[p].kind, task[p].tag, task[p].within)]_vars
  BY OnlyAnswerReplies, AnswerReturns DEF HistoryInv
<1> QED BY <1>1, InitHistory, NextHistory, PTL DEF Spec, LatestResolved
=============================================================================
