----------------------------- MODULE HistoryProofs -----------------------------
(***************************************************************************)
(* A node's history, for any number of points and versions, and any budget.*)
(*                                                                         *)
(* Lineage is inductive by itself: the step that made a version has a      *)
(* sound point map from its parent's value (StepsSound), the rows are a    *)
(* chain of the step graph that ends at the newest (RowsAreAChain), and    *)
(* versions with one document share a value (SharedDocuments).  With the   *)
(* disk serial (DiskSound), the budget and the selection (SelectionLive)   *)
(* it makes HistoryInv, from which every property but FollowAgrees follows.*)
(*                                                                         *)
(* An index is followed by a walk over the steps (Walking), which stays on *)
(* its point as long as no value on the way has lost it (WalkSound).  The  *)
(* paths of two versions to the root join where ancestry says (PathsMeet). *)
(***************************************************************************)
EXTENDS History, FiniteSetTheorems, SequenceTheorems, WellFoundedInduction, TLAPS

-----------------------------------------------------------------------------
(* Numbers, and the order points are emitted in.                           *)

LEMMA LeastNumber ==
  ASSUME NEW S, S \subseteq Nat, S # {}
  PROVE  \E m \in S : \A n \in S : m <= n
<1> DEFINE R == OpToRel(<, Nat)
<1>1. PICK m \in S : \A n \in S : <<n, m>> \notin R
  <2> HIDE DEF R
  <2>1. IsWellFoundedOn(R, Nat)
    BY NatLessThanWellFounded DEF R
  <2> QED
    BY <2>1, WFMin
<1>2. \A n \in S : ~(n < m)
  BY <1>1 DEF OpToRel
<1> QED
  BY <1>2

LEMMA MinProperties ==
  ASSUME NEW S, S \subseteq Nat, S # {}
  PROVE  Min(S) \in S /\ \A n \in S : Min(S) <= n
<1>1. \E m \in S : \A n \in S : m <= n
  BY LeastNumber
<1> QED
  BY <1>1 DEF Min

Sorted(order, slot) == \A a, b \in DOMAIN order : a < b => slot[order[a]] < slot[order[b]]

(* The element with the least slot goes in front of the others, in order.  *)
LEMMA LeastInFront ==
  ASSUME NEW n \in Nat, NEW slot, NEW S, NEW m \in S, \A x \in S : slot[x] \in Nat,
         \A x \in S \ {m} : slot[m] < slot[x],
         NEW rest \in [1..n -> S \ {m}], Sorted(rest, slot)
  PROVE  \E order \in [1..(n + 1) -> S] : Sorted(order, slot)
<1> DEFINE order == [i \in 1..(n + 1) |-> IF i = 1 THEN m ELSE rest[i - 1]]
<1>1. \A i \in 2..(n + 1) : i - 1 \in 1..n /\ i \in 1..(n + 1) /\ i # 1
  OBVIOUS
<1>2. 1 \in 1..(n + 1)
  OBVIOUS
<1>3. order \in [1..(n + 1) -> S] /\ DOMAIN order = 1..(n + 1) /\ DOMAIN rest = 1..n
  <2>1. ASSUME NEW i \in 1..(n + 1), i # 1 PROVE rest[i - 1] \in S
    <3>1. i \in 2..(n + 1)
      BY <2>1
    <3> QED
      BY <1>1, <3>1
  <2> QED
    BY <2>1
<1>4. order[1] = m /\ \A i \in 2..(n + 1) : order[i] = rest[i - 1]
  BY <1>1, <1>2
<1> HIDE DEF order
<1>5. ASSUME NEW a \in 1..(n + 1), NEW b \in 1..(n + 1), a < b
      PROVE  slot[order[a]] < slot[order[b]]
  <2>1. b \in 2..(n + 1) /\ rest[b - 1] \in S \ {m}
    <3>1. b \in 2..(n + 1)
      BY <1>5
    <3> QED
      BY <1>1, <3>1
  <2>2. CASE a = 1
    BY <1>4, <2>1, <2>2
  <2>3. CASE a # 1
    <3>1. a \in 2..(n + 1) /\ a - 1 < b - 1
      BY <1>5, <2>3
    <3>2. slot[rest[a - 1]] < slot[rest[b - 1]]
      BY <1>1, <1>3, <2>1, <3>1 DEF Sorted
    <3> QED
      BY <1>4, <2>1, <3>1, <3>2
  <2> QED
    BY <2>2, <2>3
<1> QED
  BY <1>3, <1>5 DEF Sorted

LEMMA SortedOrder ==
  ASSUME NEW K, IsFiniteSet(K), NEW slot, \A x \in K : slot[x] \in Nat,
         \A x, y \in K : slot[x] = slot[y] => x = y
  PROVE  \E order \in [1..Cardinality(K) -> K] : Sorted(order, slot)
<1> DEFINE Ordered(S) == \E order \in [1..Cardinality(S) -> S] : Sorted(order, slot)
           Bad == {n \in Nat : \E S \in SUBSET K :
                                 IsFiniteSet(S) /\ Cardinality(S) = n /\ ~Ordered(S)}
<1>1. ASSUME Bad # {} PROVE FALSE
  <2>1. PICK n \in Bad : \A k \in Bad : n <= k
    <3>1. Bad \subseteq Nat
      OBVIOUS
    <3> QED
      BY <1>1, <3>1, LeastNumber
  <2>2. PICK S \in SUBSET K : IsFiniteSet(S) /\ Cardinality(S) = n /\ ~Ordered(S)
    OBVIOUS
  <2>3. n \in Nat
    OBVIOUS
  <2>4. S # {}
    <3>1. SUFFICES ASSUME S = {} PROVE FALSE
      OBVIOUS
    <3>2. Cardinality(S) = 0
      BY <3>1, FS_EmptySet
    <3> DEFINE none == [i \in 1..0 |-> i]
    <3>3. none \in [1..Cardinality(S) -> S] /\ Sorted(none, slot)
      BY <3>1, <3>2 DEF Sorted
    <3> QED
      BY <2>2, <3>3
  <2>5. PICK m \in S : \A x \in S : slot[m] <= slot[x]
    <3> DEFINE at == {slot[x] : x \in S}
    <3>1. at \subseteq Nat /\ at # {}
      BY <2>2, <2>4
    <3>2. PICK least \in at : \A k \in at : least <= k
      BY <3>1, LeastNumber
    <3> QED
      BY <3>2
  <2>6. \A x \in S \ {m} : slot[m] < slot[x]
    BY <2>2, <2>5
  <2>7. IsFiniteSet(S \ {m}) /\ Cardinality(S \ {m}) = n - 1 /\ n # 0
    BY <2>2, <2>4, FS_RemoveElement, FS_EmptySet
  <2>8. n - 1 \in Nat /\ (n - 1) + 1 = n
    BY <2>3, <2>7
  <2>9. Ordered(S \ {m})
    <3>1. n - 1 \notin Bad
      BY <2>1, <2>3, <2>8
    <3>2. S \ {m} \in SUBSET K
      BY <2>2
    <3> QED
      BY <2>7, <2>8, <3>1, <3>2
  <2>10. PICK rest \in [1..(n - 1) -> S \ {m}] : Sorted(rest, slot)
    BY <2>7, <2>9
  <2>11. \E order \in [1..((n - 1) + 1) -> S] : Sorted(order, slot)
    BY <2>2, <2>6, <2>8, <2>10, LeastInFront
  <2> QED
    BY <2>2, <2>8, <2>11
<1>2. Cardinality(K) \in Nat
  BY FS_CardinalityType
<1> QED
  BY <1>1, <1>2
-----------------------------------------------------------------------------
(* Values.                                                                 *)

Value == [rows : Seq(Int), deleted : SUBSET Nat, base : Nat, baseLen : Nat]

(* A value made by version m at the latest: its live rows are distinct     *)
(* points, none made later than m.                                         *)
GoodValue(v, m) ==
  /\ v \in Value
  /\ v.deleted \subseteq DOMAIN v.rows
  /\ v.base \in 1..m
  /\ v.baseLen <= Len(v.rows)
  /\ \A i \in DOMAIN v.rows : v.rows[i] <= m
  /\ \A i, j \in Live(v) : v.rows[i] = v.rows[j] => i = j

LEMMA GoodValueTyped ==
  ASSUME NEW v, NEW m, GoodValue(v, m)
  PROVE  /\ v.rows \in Seq(Int) /\ Len(v.rows) \in Nat /\ DOMAIN v.rows = 1..Len(v.rows)
         /\ v.deleted \subseteq Nat /\ v.base \in Nat /\ v.baseLen \in Nat
         /\ IsFiniteSet(v.deleted) /\ IsFiniteSet(Live(v)) /\ Live(v) \subseteq Nat
         /\ Live(v) = (1..Len(v.rows)) \ v.deleted
<1>1. /\ v.rows \in Seq(Int) /\ Len(v.rows) \in Nat /\ DOMAIN v.rows = 1..Len(v.rows)
      /\ v.deleted \subseteq Nat /\ v.base \in Nat /\ v.baseLen \in Nat
  BY DEF GoodValue, Value
<1>2. IsFiniteSet(1..Len(v.rows))
  BY <1>1, FS_Interval
<1>3. v.deleted \in SUBSET (1..Len(v.rows))
  BY <1>1 DEF GoodValue
<1>4. Live(v) = (1..Len(v.rows)) \ v.deleted
  BY <1>1 DEF Live
<1>5. Live(v) \in SUBSET (1..Len(v.rows))
  BY <1>4
<1>6. IsFiniteSet(v.deleted) /\ IsFiniteSet(Live(v))
  BY <1>2, <1>3, <1>5, FS_Subset
<1> QED
  BY <1>1, <1>4, <1>6

LEMMA OverlayNat ==
  ASSUME NEW v, NEW m, GoodValue(v, m)
  PROVE  Overlay(v) \in Nat
<1>1. /\ Len(v.rows) \in Nat /\ v.baseLen \in Nat /\ v.baseLen <= Len(v.rows)
      /\ IsFiniteSet(v.deleted)
  BY GoodValueTyped DEF GoodValue
<1>2. Cardinality(v.deleted) \in Nat
  BY <1>1, FS_CardinalityType
<1> QED
  BY <1>1, <1>2 DEF Overlay

LEMMA GoodLater ==
  ASSUME NEW v, NEW m \in Nat, GoodValue(v, m), NEW n \in Nat, m <= n
  PROVE  GoodValue(v, n)
<1>1. \A i \in DOMAIN v.rows : v.rows[i] \in Int
  BY GoodValueTyped, ElementOfSeq
<1> QED
  BY <1>1 DEF GoodValue

(* Two live points go to different places.                                 *)
LEMMA SlotsDiffer ==
  ASSUME NEW v, NEW m, GoodValue(v, m)
  PROVE  /\ \A i \in Live(v) : Slot(v, i) \in Nat
         /\ \A i, j \in Live(v) : Slot(v, i) = Slot(v, j) => i = j
<1> DEFINE replaced(i) == {b \in 1..v.baseLen : v.rows[b] = v.rows[i]}
<1>1. v.baseLen \in Nat /\ v.baseLen <= Len(v.rows) /\ Len(v.rows) \in Nat
  BY GoodValueTyped DEF GoodValue
<1>2. ASSUME NEW i \in Live(v)
      PROVE  /\ Slot(v, i) \in 1..Len(v.rows)
             /\ v.rows[Slot(v, i)] = v.rows[i]
  <2>1. i \in 1..Len(v.rows)
    BY GoodValueTyped
  <2>2. CASE replaced(i) = {}
    BY <2>1, <2>2 DEF Slot
  <2>3. CASE replaced(i) # {}
    <3>1. replaced(i) \subseteq Nat
      OBVIOUS
    <3>2. Min(replaced(i)) \in replaced(i)
      BY <2>3, <3>1, MinProperties
    <3>3. Slot(v, i) = Min(replaced(i))
      BY <2>3 DEF Slot
    <3> QED
      BY <1>1, <3>2, <3>3
  <2> QED
    BY <2>2, <2>3
<1> QED
  BY <1>2 DEF GoodValue

(* The rows kept are emitted once each.                                    *)
LEMMA EmittedOnce ==
  ASSUME NEW v, NEW m, GoodValue(v, m), NEW kept \in SUBSET Live(v)
  PROVE  /\ Emitted(v, kept) \in [1..Cardinality(kept) -> kept]
         /\ \A a, b \in 1..Cardinality(kept) :
              Emitted(v, kept)[a] = Emitted(v, kept)[b] => a = b
         /\ Cardinality(kept) \in Nat
<1>1. IsFiniteSet(kept) /\ Cardinality(kept) \in Nat
  BY GoodValueTyped, FS_Subset, FS_CardinalityType
<1> DEFINE slot == [i \in kept |-> Slot(v, i)]
           n == Cardinality(kept)
<1>2. (\A x \in kept : slot[x] \in Nat) /\ \A x, y \in kept : slot[x] = slot[y] => x = y
  BY SlotsDiffer
<1>3. PICK order \in [1..n -> kept] : Sorted(order, slot)
  BY <1>1, <1>2, SortedOrder
<1>4. \A a, b \in 1..n : a < b => Slot(v, order[a]) < Slot(v, order[b])
  BY <1>3 DEF Sorted
<1>5. \A a, b \in 1..n : a # b => order[a] # order[b]
  <2> SUFFICES ASSUME NEW a \in 1..n, NEW b \in 1..n, a # b, order[a] = order[b]
               PROVE  FALSE
    OBVIOUS
  <2>1. a < b \/ b < a
    BY <1>1
  <2>2. Slot(v, order[a]) \in Nat /\ Slot(v, order[b]) \in Nat
    BY <1>3, SlotsDiffer
  <2> QED
    BY <1>4, <2>1, <2>2
<1>6. order \in SetToSeqs(kept)
  BY <1>3, <1>5 DEF SetToSeqs
<1>7. Emitted(v, kept) \in SetToSeqs(kept)
  <2>1. \A a, b \in DOMAIN order : a < b => Slot(v, order[a]) < Slot(v, order[b])
    BY <1>3, <1>4
  <2> QED
    BY <1>6, <2>1 DEF Emitted
<1> QED
  BY <1>1, <1>7 DEF SetToSeqs

LEMMA RenumberedGood ==
  ASSUME NEW v, NEW m \in Nat, GoodValue(v, m), NEW kept \in SUBSET Live(v)
  PROVE  /\ GoodValue(Renumbered(v, kept, m + 1), m + 1)
         /\ Renumbered(v, kept, m + 1).base = m + 1
         /\ Overlay(Renumbered(v, kept, m + 1)) = 0
         /\ Live(Renumbered(v, kept, m + 1)) = 1..Cardinality(kept)
         /\ \A k \in 1..Cardinality(kept) :
              Renumbered(v, kept, m + 1).rows[k] = v.rows[Emitted(v, kept)[k]]
<1>1. PICK n \in Nat : n = Cardinality(kept)
  BY EmittedOnce
<1>2. PICK order : order = Emitted(v, kept)
  OBVIOUS
<1>3. order \in [1..n -> kept] /\ \A a, b \in 1..n : order[a] = order[b] => a = b
  BY <1>1, <1>2, EmittedOnce
<1>4. Len(order) = n /\ DOMAIN order = 1..n
  <2>1. order \in Seq(kept)
    BY <1>3
  <2> QED
    BY <1>3, <2>1
<1>5. PICK rows : rows = [k \in 1..n |-> v.rows[order[k]]]
  OBVIOUS
<1>6. ASSUME NEW k \in 1..n PROVE v.rows[order[k]] \in Int /\ v.rows[order[k]] <= m
                                  /\ order[k] \in Live(v)
  <2>1. order[k] \in Live(v)
    BY <1>3
  <2>2. order[k] \in 1..Len(v.rows)
    BY <2>1, GoodValueTyped
  <2>3. order[k] \in DOMAIN v.rows /\ v.rows \in Seq(Int)
    BY <2>2, GoodValueTyped
  <2> QED
    BY <2>1, <2>3, ElementOfSeq DEF GoodValue
<1>7. rows \in Seq(Int) /\ Len(rows) = n /\ DOMAIN rows = 1..n
  <2>1. rows \in [1..n -> Int]
    BY <1>5, <1>6
  <2>2. rows \in Seq(Int)
    BY <2>1
  <2> QED
    BY <2>1, <2>2
<1>8. PICK w : w = [rows |-> rows, deleted |-> {}, base |-> m + 1, baseLen |-> n]
  OBVIOUS
<1>9. Renumbered(v, kept, m + 1) = w
  BY <1>2, <1>4, <1>5, <1>8 DEF Renumbered
<1>10. /\ w \in Value /\ w.rows = rows /\ w.deleted = {} /\ w.base = m + 1 /\ w.baseLen = n
  BY <1>7, <1>8 DEF Value
<1>11. Live(w) = 1..n
  BY <1>7, <1>10 DEF Live
<1>12. Overlay(w) = 0
  <2>1. Cardinality({}) = 0
    BY FS_EmptySet
  <2> QED
    BY <1>7, <1>10, <2>1 DEF Overlay
<1>13. \A k \in 1..n : rows[k] = v.rows[order[k]]
  BY <1>5
<1>14. \A k \in 1..n : rows[k] \in Int /\ rows[k] <= m + 1
  BY <1>6, <1>13
<1>15. \A i, j \in 1..n : rows[i] = rows[j] => i = j
  BY <1>3, <1>6, <1>13 DEF GoodValue
<1>16. GoodValue(w, m + 1)
  BY <1>7, <1>10, <1>11, <1>14, <1>15 DEF GoodValue
<1> QED
  BY <1>1, <1>2, <1>9, <1>10, <1>11, <1>12, <1>13, <1>16
-----------------------------------------------------------------------------
(* Point maps.                                                             *)

Maps ==
  [kind : {"Removed"}, removed : SUBSET Nat]
    \cup [kind : {"Replaced"}, from : Nat, to : Nat]
    \cup [kind : {"Created"}, created : SUBSET Nat]
    \cup [kind : {"Rows"}, rows : Seq(Nat)]

(* The map of a step from v to w leads each live point to itself where it  *)
(* is live there, and nowhere else, both ways.                             *)
MapSound(map, v, w) ==
  /\ map \in Maps
  /\ \A i \in Live(v) : \A k \in MapForward(map, i) : k \in Live(w) /\ w.rows[k] = v.rows[i]
  /\ \A k \in Live(w) : \A i \in MapInverse(map, k) : i \in Live(v) /\ v.rows[i] = w.rows[k]
  /\ \A i \in Live(v), k \in Live(w) :
       w.rows[k] = v.rows[i] => k \in MapForward(map, i) /\ i \in MapInverse(map, k)

LEMMA RemovedMap ==
  ASSUME NEW removed, NEW map, map = [kind |-> "Removed", removed |-> removed]
  PROVE  \A i : MapForward(map, i) = {i} \ removed /\ MapInverse(map, i) = {i} \ removed
  BY DEF MapForward, MapInverse

LEMMA IdentitySound ==
  ASSUME NEW v, NEW m, GoodValue(v, m)
  PROVE  MapSound(Identity, v, v)
<1>1. Identity = [kind |-> "Removed", removed |-> {}] /\ Identity \in Maps
  BY DEF Identity, Maps
<1>2. \A i : MapForward(Identity, i) = {i} /\ MapInverse(Identity, i) = {i}
  BY <1>1, RemovedMap
<1> QED
  BY <1>1, <1>2 DEF MapSound, GoodValue

LEMMA DeletedSound ==
  ASSUME NEW m \in Nat, NEW v, GoodValue(v, m), NEW i \in Live(v),
         NEW w, w = [v EXCEPT !.deleted = @ \cup {i}],
         NEW map, map = [kind |-> "Removed", removed |-> {i}]
  PROVE  GoodValue(w, m + 1) /\ MapSound(map, v, w)
<1>1. i \in Nat /\ i \in DOMAIN v.rows /\ v.deleted \subseteq Nat /\ v \in Value
  BY GoodValueTyped DEF GoodValue
<1>2. /\ w \in Value /\ w.rows = v.rows /\ w.deleted = v.deleted \cup {i}
      /\ w.base = v.base /\ w.baseLen = v.baseLen
  BY <1>1 DEF Value
<1>3. Live(w) = Live(v) \ {i}
  BY <1>2 DEF Live
<1>4. GoodValue(w, m)
  BY <1>1, <1>2, <1>3 DEF GoodValue
<1>5. map \in Maps
  BY <1>1 DEF Maps
<1>6. \A k : MapForward(map, k) = {k} \ {i} /\ MapInverse(map, k) = {k} \ {i}
  BY RemovedMap
<1>7. MapSound(map, v, w)
  <2>1. \A k : k \in Live(w) <=> k \in Live(v) /\ k # i
    BY <1>3
  <2>2. ASSUME NEW j \in Live(v), NEW k \in MapForward(map, j)
        PROVE  k \in Live(w) /\ w.rows[k] = v.rows[j]
    <3>1. k = j /\ k # i
      BY <1>6, <2>2
    <3> QED
      BY <1>2, <2>1, <2>2, <3>1
  <2>3. ASSUME NEW k \in Live(w), NEW j \in MapInverse(map, k)
        PROVE  j \in Live(v) /\ v.rows[j] = w.rows[k]
    <3>1. k = j
      BY <1>6, <2>3
    <3> QED
      BY <1>2, <2>1, <2>3, <3>1
  <2>4. ASSUME NEW j \in Live(v), NEW k \in Live(w), w.rows[k] = v.rows[j]
        PROVE  k \in MapForward(map, j) /\ j \in MapInverse(map, k)
    <3>1. k = j /\ k # i
      BY <1>2, <2>1, <2>4 DEF GoodValue
    <3>2. MapForward(map, j) = {j} \ {i} /\ MapInverse(map, k) = {k} \ {i}
      BY <1>6
    <3> QED
      BY <3>1, <3>2
  <2> QED
    BY <1>5, <2>2, <2>3, <2>4 DEF MapSound
<1> QED
  BY <1>4, <1>7, GoodLater

(* A row added at the end.                                                 *)
LEMMA AppendedRow ==
  ASSUME NEW s \in Seq(Int), NEW x \in Int
  PROVE  LET rows == Append(s, x)
             at == Len(s) + 1
         IN /\ rows \in Seq(Int) /\ Len(rows) = at /\ DOMAIN rows = DOMAIN s \cup {at}
            /\ rows[at] = x /\ \A k \in DOMAIN s : rows[k] = s[k]
            /\ at \notin DOMAIN s /\ at \in Nat
<1> DEFINE rows == Append(s, x)
           at == Len(s) + 1
<1>1. Len(s) \in Nat /\ DOMAIN s = 1..Len(s)
  OBVIOUS
<1>2. /\ rows \in Seq(Int) /\ Len(rows) = at /\ DOMAIN rows = 1..at
      /\ rows[at] = x /\ \A k \in 1..Len(s) : rows[k] = s[k]
  BY <1>1
<1>3. 1..at = (1..Len(s)) \cup {at} /\ at \notin 1..Len(s) /\ at \in Nat
  BY <1>1
<1> HIDE DEF rows
<1>4. /\ rows \in Seq(Int) /\ Len(rows) = at /\ DOMAIN rows = DOMAIN s \cup {at}
      /\ rows[at] = x /\ \A k \in DOMAIN s : rows[k] = s[k]
      /\ at \notin DOMAIN s /\ at \in Nat
  BY <1>1, <1>2, <1>3
<1> QED
  BY <1>4 DEF rows

Rewritten(v, i) == [v EXCEPT !.deleted = @ \cup {i}, !.rows = Append(@, v.rows[i])]

LEMMA RewrittenSound ==
  ASSUME NEW m \in Nat, NEW v, GoodValue(v, m), NEW i \in Live(v),
         NEW at, at = Len(v.rows) + 1,
         NEW w, w = Rewritten(v, i),
         NEW map, map = [kind |-> "Replaced", from |-> i, to |-> at]
  PROVE  GoodValue(w, m + 1) /\ MapSound(map, v, w) /\ at \in Live(w)
<1>1. i \in Nat /\ i \in DOMAIN v.rows /\ v.deleted \subseteq Nat /\ v \in Value
      /\ v.rows[i] \in Int /\ v.baseLen \in Nat
  BY GoodValueTyped, ElementOfSeq DEF GoodValue
<1> DEFINE x == v.rows[i]
           rows == Append(v.rows, x)
<1>2. x \in Int
  BY <1>1
<1> HIDE DEF x
<1>3. /\ rows \in Seq(Int) /\ Len(rows) = at /\ DOMAIN rows = DOMAIN v.rows \cup {at}
      /\ rows[at] = x /\ \A k \in DOMAIN v.rows : rows[k] = v.rows[k]
      /\ at \notin DOMAIN v.rows /\ at \in Nat
  BY <1>2, GoodValueTyped, AppendedRow
<1> HIDE DEF rows
<1>4. /\ w \in Value /\ w.rows = rows /\ w.deleted = v.deleted \cup {i}
      /\ w.base = v.base /\ w.baseLen = v.baseLen
  BY <1>1, <1>3 DEF Value, Rewritten, rows, x
<1>5. v.deleted \subseteq DOMAIN v.rows /\ v.baseLen <= Len(v.rows) /\ Len(v.rows) \in Nat
  BY GoodValueTyped DEF GoodValue
<1>6. Live(w) = (Live(v) \ {i}) \cup {at}
  BY <1>1, <1>3, <1>4, <1>5 DEF Live
<1>7. \A k \in Live(v) \ {i} : w.rows[k] = v.rows[k] /\ w.rows[k] # v.rows[i]
  <2>1. \A k \in Live(v) : k \in DOMAIN v.rows
    BY DEF Live
  <2> QED
    BY <1>3, <1>4, <2>1 DEF GoodValue
<1>8. \A k, j \in Live(w) : w.rows[k] = w.rows[j] => k = j
  <2>1. \A k, j \in Live(v) \ {i} : w.rows[k] = w.rows[j] => k = j
    BY <1>7 DEF GoodValue
  <2>2. w.rows[at] = v.rows[i]
    BY <1>3, <1>4 DEF x
  <2> SUFFICES ASSUME NEW k \in Live(w), NEW j \in Live(w), w.rows[k] = w.rows[j]
               PROVE  k = j
    OBVIOUS
  <2>3. k \in Live(v) \ {i} \/ k = at
    BY <1>6
  <2>4. j \in Live(v) \ {i} \/ j = at
    BY <1>6
  <2> QED
    BY <1>7, <2>1, <2>2, <2>3, <2>4
<1>9. GoodValue(w, m)
  <2>1. w.deleted \subseteq DOMAIN w.rows /\ w.base \in 1..m
    BY <1>1, <1>3, <1>4, <1>5 DEF GoodValue
  <2>2. w.baseLen <= Len(w.rows)
    <3>1. w.baseLen = v.baseLen /\ Len(w.rows) = Len(v.rows) + 1
      BY <1>3, <1>4
    <3> QED
      BY <1>1, <1>5, <3>1
  <2>3. \A k \in DOMAIN w.rows : w.rows[k] <= m
    BY <1>1, <1>3, <1>4 DEF GoodValue, x
  <2> QED
    BY <1>4, <1>8, <2>1, <2>2, <2>3 DEF GoodValue
<1>10. map \in Maps
  BY <1>1, <1>3 DEF Maps
<1>11. \A k : /\ MapForward(map, k) = {IF k = i THEN at ELSE k}
              /\ MapInverse(map, k) = {IF k = at THEN i ELSE k}
  BY DEF MapForward, MapInverse
<1>12. MapSound(map, v, w)
  <2>1. at \notin Live(v) /\ w.rows[at] = v.rows[i]
    BY <1>3, <1>4 DEF Live, x
  <2>2. ASSUME NEW j \in Live(v), NEW k \in MapForward(map, j)
        PROVE  k \in Live(w) /\ w.rows[k] = v.rows[j]
    <3>1. k = IF j = i THEN at ELSE j
      BY <1>11, <2>2
    <3> QED
      BY <1>6, <1>7, <2>1, <2>2, <3>1
  <2>3. ASSUME NEW k \in Live(w), NEW j \in MapInverse(map, k)
        PROVE  j \in Live(v) /\ v.rows[j] = w.rows[k]
    <3>1. j = IF k = at THEN i ELSE k
      BY <1>11, <2>3
    <3> QED
      BY <1>6, <1>7, <2>1, <2>3, <3>1
  <2>4. ASSUME NEW j \in Live(v), NEW k \in Live(w), w.rows[k] = v.rows[j]
        PROVE  k \in MapForward(map, j) /\ j \in MapInverse(map, k)
    <3>1. CASE k = at
      <4>1. j = i
        BY <2>1, <2>4, <3>1 DEF GoodValue
      <4> QED
        BY <1>11, <3>1, <4>1
    <3>2. CASE k # at
      <4>1. k \in Live(v) /\ k # i /\ v.rows[k] = v.rows[j]
        BY <1>6, <1>7, <2>4, <3>2
      <4>2. k = j
        BY <4>1 DEF GoodValue
      <4> QED
        BY <1>11, <3>2, <4>1, <4>2
    <3> QED
      BY <3>1, <3>2
  <2> QED
    BY <1>10, <2>2, <2>3, <2>4 DEF MapSound
<1> QED
  BY <1>6, <1>9, <1>12, GoodLater

LEMMA CreatedSound ==
  ASSUME NEW m \in Nat, NEW v, GoodValue(v, m), NEW at, at = Len(v.rows) + 1,
         NEW w, w = [v EXCEPT !.rows = Append(@, m + 1)],
         NEW map, map = [kind |-> "Created", created |-> {at}]
  PROVE  GoodValue(w, m + 1) /\ MapSound(map, v, w) /\ at \in Live(w)
<1>1. v.deleted \subseteq Nat /\ v \in Value /\ v.baseLen \in Nat /\ v.base \in Nat
  BY GoodValueTyped DEF GoodValue
<1> DEFINE x == m + 1
           rows == Append(v.rows, x)
<1>2. x \in Int
  OBVIOUS
<1> HIDE DEF x
<1>3. /\ rows \in Seq(Int) /\ Len(rows) = at /\ DOMAIN rows = DOMAIN v.rows \cup {at}
      /\ rows[at] = x /\ \A k \in DOMAIN v.rows : rows[k] = v.rows[k]
      /\ at \notin DOMAIN v.rows /\ at \in Nat
  BY <1>2, GoodValueTyped, AppendedRow
<1> HIDE DEF rows
<1>4. /\ w \in Value /\ w.rows = rows /\ w.deleted = v.deleted
      /\ w.base = v.base /\ w.baseLen = v.baseLen
  BY <1>1, <1>3 DEF Value, rows, x
<1>5. v.deleted \subseteq DOMAIN v.rows /\ v.baseLen <= Len(v.rows) /\ Len(v.rows) \in Nat
  BY GoodValueTyped DEF GoodValue
<1>6. Live(w) = Live(v) \cup {at}
  BY <1>1, <1>3, <1>4, <1>5 DEF Live
<1>7. \A k \in Live(v) : w.rows[k] = v.rows[k] /\ w.rows[k] # m + 1
  <2>1. \A k \in Live(v) : k \in DOMAIN v.rows
    BY DEF Live
  <2>2. \A k \in DOMAIN v.rows : v.rows[k] \in Int /\ v.rows[k] <= m
    BY GoodValueTyped, ElementOfSeq DEF GoodValue
  <2> QED
    BY <1>3, <1>4, <2>1, <2>2
<1>8. \A k, j \in Live(w) : w.rows[k] = w.rows[j] => k = j
  <2>1. \A k, j \in Live(v) : w.rows[k] = w.rows[j] => k = j
    BY <1>7 DEF GoodValue
  <2>2. w.rows[at] = m + 1
    BY <1>3, <1>4 DEF x
  <2> SUFFICES ASSUME NEW k \in Live(w), NEW j \in Live(w), w.rows[k] = w.rows[j]
               PROVE  k = j
    OBVIOUS
  <2>3. k \in Live(v) \/ k = at
    BY <1>6
  <2>4. j \in Live(v) \/ j = at
    BY <1>6
  <2> QED
    BY <1>7, <2>1, <2>2, <2>3, <2>4
<1>9. GoodValue(w, m + 1)
  <2>1. w.deleted \subseteq DOMAIN w.rows /\ w.base \in 1..(m + 1)
    BY <1>1, <1>3, <1>4, <1>5 DEF GoodValue
  <2>2. w.baseLen <= Len(w.rows)
    BY <1>1, <1>3, <1>4, <1>5
  <2>3. \A k \in DOMAIN w.rows : w.rows[k] <= m + 1
    <3>1. \A k \in DOMAIN v.rows : v.rows[k] \in Int /\ v.rows[k] <= m
      BY GoodValueTyped, ElementOfSeq DEF GoodValue
    <3> QED
      BY <1>3, <1>4, <3>1 DEF x
  <2> QED
    BY <1>4, <1>8, <2>1, <2>2, <2>3 DEF GoodValue
<1>10. map \in Maps
  BY <1>3 DEF Maps
<1>11. \A k : MapForward(map, k) = {k} /\ MapInverse(map, k) = {k} \ {at}
  BY DEF MapForward, MapInverse
<1>12. MapSound(map, v, w)
  <2>1. ASSUME NEW j \in Live(v), NEW k \in MapForward(map, j)
        PROVE  k \in Live(w) /\ w.rows[k] = v.rows[j]
    <3>1. k = j
      BY <1>11, <2>1
    <3> QED
      BY <1>6, <1>7, <2>1, <3>1
  <2>2. ASSUME NEW k \in Live(w), NEW j \in MapInverse(map, k)
        PROVE  j \in Live(v) /\ v.rows[j] = w.rows[k]
    <3>1. j = k /\ k # at
      BY <1>11, <2>2
    <3> QED
      BY <1>6, <1>7, <2>2, <3>1
  <2>3. ASSUME NEW j \in Live(v), NEW k \in Live(w), w.rows[k] = v.rows[j]
        PROVE  k \in MapForward(map, j) /\ j \in MapInverse(map, k)
    <3>1. w.rows[at] = m + 1 /\ v.rows[j] # m + 1 /\ at \notin Live(v)
      BY <1>3, <1>4, <1>7 DEF x, Live
    <3>2. k # at /\ k \in Live(v) /\ v.rows[k] = v.rows[j]
      BY <1>6, <1>7, <2>3, <3>1
    <3>3. k = j
      BY <3>2 DEF GoodValue
    <3>4. MapForward(map, j) = {j} /\ MapInverse(map, k) = {k} \ {at}
      BY <1>11
    <3> QED
      BY <3>2, <3>3, <3>4
  <2> QED
    BY <1>10, <2>1, <2>2, <2>3 DEF MapSound
<1> QED
  BY <1>6, <1>9, <1>12

LEMMA RenumberedSound ==
  ASSUME NEW m \in Nat, NEW v, GoodValue(v, m), NEW kept \in SUBSET Live(v)
  PROVE  MapSound(RowsMap(v, kept), v, Renumbered(v, kept, m + 1))
<1>1. PICK n \in Nat : n = Cardinality(kept)
  BY EmittedOnce
<1>2. PICK order : order = Emitted(v, kept)
  OBVIOUS
<1>3. order \in [1..n -> kept] /\ DOMAIN order = 1..n
  BY <1>1, <1>2, EmittedOnce
<1>4. PICK w : w = Renumbered(v, kept, m + 1)
  OBVIOUS
<1>5. Live(w) = 1..n /\ \A k \in 1..n : w.rows[k] = v.rows[order[k]]
  BY <1>1, <1>2, <1>4, RenumberedGood
<1>6. PICK map : map = [kind |-> "Rows", rows |-> order]
  OBVIOUS
<1>7. map = RowsMap(v, kept)
  BY <1>2, <1>6 DEF RowsMap
<1>8. map \in Maps
  <2>1. kept \subseteq Nat
    BY GoodValueTyped
  <2>2. order \in [1..n -> Nat]
    BY <1>3, <2>1
  <2>3. order \in Seq(Nat)
    BY <2>2
  <2> QED
    BY <1>6, <2>3 DEF Maps
<1>9. \A i : /\ MapForward(map, i) = {k \in 1..n : order[k] = i}
             /\ MapInverse(map, i) = {order[i]}
  BY <1>3, <1>6 DEF MapForward, MapInverse
<1>10. \A k \in 1..n : order[k] \in Live(v)
  BY <1>3
<1>11. MapSound(map, v, w)
  <2>1. ASSUME NEW j \in Live(v), NEW k \in Live(w), w.rows[k] = v.rows[j]
        PROVE  k \in MapForward(map, j) /\ j \in MapInverse(map, k)
    <3>1. order[k] = j
      BY <1>5, <1>10, <2>1 DEF GoodValue
    <3> QED
      BY <1>5, <1>9, <3>1
  <2> QED
    BY <1>5, <1>8, <1>9, <1>10, <2>1 DEF MapSound
<1> QED
  BY <1>4, <1>7, <1>11
-----------------------------------------------------------------------------
(* The rows of the history.                                                *)

Step == [parent : Nat, map : Maps, value : Value]

(* Every step's map is one from the value it was made from to its own.     *)
StepsSound ==
  /\ steps \in Seq(Step)
  /\ \A s \in Serials :
       /\ GoodValue(ValueOf(s), s)
       /\ steps[s].parent \in 0..(s - 1)
       /\ steps[s].parent = 0 => s = 1
       /\ steps[s].parent # 0 => MapSound(steps[s].map, ValueOf(steps[s].parent), ValueOf(s))

VersionsTyped ==
  /\ versions \in Seq(Version)
  /\ cursor \in DOMAIN versions
  /\ Here.held
  /\ \A i \in DOMAIN versions :
       versions[i].serial \in Serials /\ versions[i].documentSerial \in 1..Len(steps)

(* Versions that share a document half hold the same value, wherever they  *)
(* are among the rows.                                                     *)
SharedDocuments ==
  \A i, j \in DOMAIN versions :
    versions[i].documentSerial = versions[j].documentSerial =>
      ValueOf(versions[i].serial) = ValueOf(versions[j].serial)

Lineage == StepsSound /\ VersionsTyped /\ RowsAreAChain /\ SharedDocuments

LEMMA LineageTyped ==
  ASSUME Lineage
  PROVE  /\ Len(steps) \in Nat /\ Serials = 1..Len(steps) /\ Minted \in Nat
         /\ Len(versions) \in Nat /\ DOMAIN versions = 1..Len(versions)
         /\ cursor \in 1..Len(versions)
         /\ \A i \in DOMAIN versions : versions[i] \in Version
         /\ Here \in Version /\ Here.serial \in Serials
         /\ \A s \in Serials : s <= Len(steps) /\ GoodValue(ValueOf(s), Len(steps))
         /\ GoodValue(Shown, Len(steps))
<1>1. /\ Len(steps) \in Nat /\ Serials = 1..Len(steps) /\ Minted \in Nat
      /\ Len(versions) \in Nat /\ DOMAIN versions = 1..Len(versions)
      /\ cursor \in 1..Len(versions)
  BY DEF Lineage, StepsSound, VersionsTyped, Serials, Minted
<1>2. \A i \in DOMAIN versions : versions[i] \in Version
  BY <1>1, ElementOfSeq DEF Lineage, VersionsTyped
<1>3. Here \in Version /\ Here.serial \in Serials
  BY <1>2 DEF Here, Lineage, VersionsTyped
<1>4. ASSUME NEW s \in Serials PROVE s <= Len(steps) /\ GoodValue(ValueOf(s), Len(steps))
  <2>1. s \in Nat /\ s <= Len(steps)
    BY <1>1
  <2>2. GoodValue(ValueOf(s), s)
    BY DEF Lineage, StepsSound
  <2> QED
    BY <1>1, <2>1, <2>2, GoodLater
<1>5. GoodValue(Shown, Len(steps))
  BY <1>3, <1>4 DEF Shown
<1> QED
  BY <1>1, <1>2, <1>3, <1>4, <1>5

(* enforce_budget takes values away and nothing else.                      *)
Released(rows, now, k) ==
  /\ now \in Seq(Version) /\ Len(now) = Len(rows)
  /\ \A i \in 1..Len(rows) :
       /\ now[i].serial = rows[i].serial
       /\ now[i].documentSerial = rows[i].documentSerial
       /\ now[i].held <=> (k < i /\ rows[i].held)

LEMMA ReleasingReleases ==
  ASSUME NEW rows \in Seq(Version), NEW k \in Nat
  PROVE  Released(rows, Releasing(rows, k), k)
<1> DEFINE now == Releasing(rows, k)
           n == Len(rows)
<1>1. n \in Nat /\ DOMAIN rows = 1..n
  OBVIOUS
<1>2. now = [i \in 1..n |-> IF i <= k THEN [rows[i] EXCEPT !.held = FALSE] ELSE rows[i]]
  BY <1>1 DEF Releasing
<1>3. ASSUME NEW i \in 1..n
      PROVE  /\ now[i] \in Version
             /\ now[i].serial = rows[i].serial
             /\ now[i].documentSerial = rows[i].documentSerial
             /\ now[i].held <=> (k < i /\ rows[i].held)
  <2>1. rows[i] \in Version
    BY <1>1, ElementOfSeq
  <2>2. CASE i <= k
    <3>1. now[i] = [rows[i] EXCEPT !.held = FALSE] /\ ~(k < i)
      BY <1>1, <1>2, <2>2
    <3> QED
      BY <2>1, <3>1 DEF Version
  <2>3. CASE ~(i <= k)
    <3>1. now[i] = rows[i] /\ k < i
      BY <1>1, <1>2, <2>3
    <3> QED
      BY <2>1, <3>1
  <2> QED
    BY <2>2, <2>3
<1>4. now \in [1..n -> Version]
  BY <1>2, <1>3
<1>5. now \in Seq(Version) /\ Len(now) = n
  BY <1>1, <1>4
<1> QED
  BY <1>3, <1>5 DEF Released

LEMMA WithinBudgetReleases ==
  ASSUME NEW rows \in Seq(Version), rows # <<>>
  PROVE  \E k \in 0..(Len(rows) - 1) :
           /\ Released(rows, WithinBudget(rows), k)
           /\ k = Len(rows) - 1 \/ Fits(WithinBudget(rows))
<1> DEFINE last == Len(rows) - 1
           enough == {k \in 0..last : k = last \/ Fits(Releasing(rows, k))}
<1>1. last \in Nat
  OBVIOUS
<1>2. enough \subseteq Nat /\ last \in enough
  BY <1>1
<1>3. PICK least \in enough : \A j \in enough : least <= j
  BY <1>2, LeastNumber
<1>4. \A j \in 0..(least - 1) : ~Fits(Releasing(rows, j))
  <2> SUFFICES ASSUME NEW j \in 0..(least - 1), Fits(Releasing(rows, j)) PROVE FALSE
    OBVIOUS
  <2>1. least \in 0..last
    OBVIOUS
  <2>2. j \in 0..last /\ ~(least <= j)
    BY <1>1, <2>1
  <2> QED
    BY <1>3, <2>2
<1>5. \E k \in 0..last : /\ k = last \/ Fits(Releasing(rows, k))
                         /\ \A j \in 0..(k - 1) : ~Fits(Releasing(rows, j))
  BY <1>4
<1>6. PICK k \in 0..last : /\ k = last \/ Fits(Releasing(rows, k))
                           /\ WithinBudget(rows) = Releasing(rows, k)
  BY <1>5 DEF WithinBudget
<1>7. k \in Nat
  BY <1>1
<1> QED
  BY <1>6, <1>7, ReleasingReleases
-----------------------------------------------------------------------------
(* A push: the step it adds, and the rows it leaves.                       *)

LEMMA StepAppended ==
  ASSUME StepsSound, NEW step \in Step, steps' = Append(steps, step)
  PROVE  /\ steps' \in Seq(Step) /\ Len(steps') = Minted /\ Len(steps) \in Nat
         /\ Minted = Len(steps) + 1 /\ Serials = 1..Len(steps) /\ Serials' = 1..Minted
         /\ \A s \in Serials : s \in Serials' /\ steps'[s] = steps[s]
         /\ Minted \in Serials' /\ steps'[Minted] = step
<1>1. steps \in Seq(Step) /\ Len(steps) \in Nat /\ Serials = 1..Len(steps)
  BY DEF StepsSound, Serials
<1>2. PICK n \in Nat : n = Len(steps)
  BY <1>1
<1>3. /\ steps' \in Seq(Step) /\ Len(steps') = n + 1 /\ DOMAIN steps' = 1..(n + 1)
      /\ steps'[n + 1] = step /\ \A s \in 1..n : steps'[s] = steps[s]
  BY <1>1, <1>2
<1>4. Minted = n + 1 /\ Serials' = 1..(n + 1) /\ n + 1 \in 1..(n + 1)
  BY <1>2, <1>3 DEF Minted, Serials
<1>5. \A s \in Serials : s \in Serials'
  BY <1>1, <1>2, <1>4
<1> QED
  BY <1>1, <1>2, <1>3, <1>4, <1>5

LEMMA StepsStaySound ==
  ASSUME StepsSound, NEW step \in Step, steps' = Append(steps, step),
         GoodValue(step.value, Minted), step.parent \in Serials,
         MapSound(step.map, ValueOf(step.parent), step.value)
  PROVE  StepsSound'
<1>1. /\ steps' \in Seq(Step) /\ Len(steps') = Minted /\ Len(steps) \in Nat
      /\ Minted = Len(steps) + 1 /\ Serials = 1..Len(steps) /\ Serials' = 1..Minted
      /\ \A s \in Serials : s \in Serials' /\ steps'[s] = steps[s]
      /\ Minted \in Serials' /\ steps'[Minted] = step
  BY StepAppended
<1>2. ASSUME NEW s \in Serials'
      PROVE  /\ GoodValue(steps'[s].value, s)
             /\ steps'[s].parent \in 0..(s - 1)
             /\ steps'[s].parent = 0 => s = 1
             /\ steps'[s].parent # 0 =>
                  MapSound(steps'[s].map, steps'[steps'[s].parent].value, steps'[s].value)
  <2>1. CASE s \in Serials
    <3>1. PICK parent : parent = steps[s].parent
      OBVIOUS
    <3>2. /\ GoodValue(steps[s].value, s)
          /\ parent \in 0..(s - 1)
          /\ parent = 0 => s = 1
          /\ parent # 0 => MapSound(steps[s].map, steps[parent].value, steps[s].value)
      BY <2>1, <3>1 DEF StepsSound, ValueOf
    <3>3. parent # 0 => parent \in Serials
      BY <1>1, <2>1, <3>2
    <3>4. steps'[s] = steps[s] /\ (parent # 0 => steps'[parent] = steps[parent])
      BY <1>1, <2>1, <3>3
    <3> QED
      BY <3>1, <3>2, <3>4
  <2>2. CASE s = Minted
    <3>1. PICK parent : parent = step.parent
      OBVIOUS
    <3>2. parent \in 0..(s - 1) /\ steps'[parent] = steps[parent] /\ steps'[s] = step
          /\ parent # 0
      BY <1>1, <2>2, <3>1
    <3>3. GoodValue(step.value, s) /\ MapSound(step.map, steps[parent].value, step.value)
      BY <2>2, <3>1 DEF ValueOf
    <3> QED
      BY <3>1, <3>2, <3>3
  <2> QED
    BY <1>1, <2>1, <2>2
<1> QED
  BY <1>1, <1>2 DEF StepsSound, ValueOf

LEMMA RowsPushed ==
  ASSUME Lineage, NEW row \in Version, row.held, versions' = Pushed(KeptRows, row)
  PROVE  /\ Len(KeptRows) = cursor
         /\ \E k \in 0..cursor :
              /\ versions' \in Seq(Version) /\ Len(versions') = cursor + 1
              /\ \A i \in 1..cursor :
                   /\ versions'[i].serial = versions[i].serial
                   /\ versions'[i].documentSerial = versions[i].documentSerial
                   /\ versions'[i].held <=> (k < i /\ versions[i].held)
              /\ versions'[cursor + 1].serial = row.serial
              /\ versions'[cursor + 1].documentSerial = row.documentSerial
              /\ versions'[cursor + 1].held
              /\ k = cursor \/ Fits(versions')
<1>1. versions \in Seq(Version) /\ Len(versions) \in Nat /\ cursor \in 1..Len(versions)
  BY LineageTyped DEF Lineage, VersionsTyped
<1>2. PICK kept : kept = KeptRows
  OBVIOUS
<1>3. kept \in Seq(Version) /\ Len(kept) = cursor /\ \A i \in 1..cursor : kept[i] = versions[i]
  BY <1>1, <1>2 DEF KeptRows
<1>4. PICK rows : rows = Append(kept, row)
  OBVIOUS
<1>5. /\ rows \in Seq(Version) /\ Len(rows) = cursor + 1 /\ rows # <<>>
      /\ rows[cursor + 1] = row /\ \A i \in 1..cursor : rows[i] = kept[i]
  BY <1>1, <1>3, <1>4
<1>6. versions' = WithinBudget(rows)
  BY <1>2, <1>4 DEF Pushed
<1>7. PICK k \in 0..(Len(rows) - 1) :
        /\ Released(rows, versions', k)
        /\ k = Len(rows) - 1 \/ Fits(versions')
  BY <1>5, <1>6, WithinBudgetReleases
<1>8. Len(rows) - 1 = cursor /\ cursor + 1 \in 1..(cursor + 1) /\ k < cursor + 1 /\ k \in Nat
      /\ \A i \in 1..cursor : i \in 1..(cursor + 1)
  BY <1>1, <1>5, <1>7
<1>9. k \in 0..cursor /\ (k = cursor \/ Fits(versions'))
  BY <1>7, <1>8
<1>10. /\ versions' \in Seq(Version) /\ Len(versions') = cursor + 1
       /\ \A i \in 1..(cursor + 1) :
            /\ versions'[i].serial = rows[i].serial
            /\ versions'[i].documentSerial = rows[i].documentSerial
            /\ versions'[i].held <=> (k < i /\ rows[i].held)
  BY <1>5, <1>7 DEF Released
<1>11. /\ \A i \in 1..cursor :
            /\ versions'[i].serial = versions[i].serial
            /\ versions'[i].documentSerial = versions[i].documentSerial
            /\ versions'[i].held <=> (k < i /\ versions[i].held)
       /\ versions'[cursor + 1].serial = row.serial
       /\ versions'[cursor + 1].documentSerial = row.documentSerial
       /\ versions'[cursor + 1].held
  BY <1>3, <1>5, <1>8, <1>10
<1> QED
  BY <1>2, <1>3, <1>9, <1>10, <1>11

(* The value a step states, or the one it shares with the version it left. *)
States(made, w) == (made = {} /\ w = Shown) \/ made = {w}

LEMMA BytesNat ==
  ASSUME NEW v, NEW m, GoodValue(v, m), NEW previous, NEW onBench
  PROVE  BytesOf(v, previous, onBench) \in Nat
<1>1. Overlay(v) \in Nat
  BY OverlayNat
<1> QED
  BY <1>1, HistoryAssumption DEF BytesOf

LEMMA PushMakes ==
  ASSUME Lineage, NEW made, NEW onBench, NEW map, NEW w, States(made, w),
         GoodValue(w, Minted), MapSound(map, Shown, w), Push(made, onBench, map)
  PROVE  \E row \in Version, step \in Step :
           /\ row.serial = Minted /\ row.documentSerial = DocumentSerial(made) /\ row.held
           /\ versions' = Pushed(KeptRows, row)
           /\ step.parent = Here.serial /\ step.map = map /\ step.value = w
           /\ steps' = Append(steps, step)
<1>1. /\ Minted \in Nat /\ Here.serial \in Nat /\ Here.documentSerial \in Nat
      /\ GoodValue(Shown, Len(steps))
  BY LineageTyped DEF Version
<1> DEFINE value == IF made = {} THEN Shown ELSE CHOOSE v \in made : TRUE
<1>2. value = w
  BY DEF States
<1> HIDE DEF value
<1>3. PICK row : row = [serial |-> Minted, documentSerial |-> DocumentSerial(made), held |-> TRUE,
                        bytes |-> BytesOf(w, Shown, onBench)]
  OBVIOUS
<1>4. DocumentSerial(made) \in Nat /\ BytesOf(w, Shown, onBench) \in Nat
  BY <1>1, BytesNat DEF DocumentSerial
<1>5. row \in Version /\ row.serial = Minted /\ row.documentSerial = DocumentSerial(made)
      /\ row.held
  BY <1>1, <1>3, <1>4 DEF Version
<1>6. PICK step : step = [parent |-> Here.serial, map |-> map, value |-> w]
  OBVIOUS
<1>7. step \in Step /\ step.parent = Here.serial /\ step.map = map /\ step.value = w
  BY <1>1, <1>6 DEF Step, MapSound, GoodValue
<1>8. versions' = Pushed(KeptRows, row) /\ steps' = Append(steps, step)
  BY <1>2, <1>3, <1>6, Zenon DEF Push, value
<1> QED
  BY <1>5, <1>7, <1>8
(* What a push makes of the history: the new row is the cursor's, and the  *)
(* rows up to the old cursor are above it.                                 *)
PushedOn(w, made) ==
  /\ cursor' = cursor + 1 /\ Len(versions') = cursor + 1 /\ versions' \in Seq(Version)
  /\ \A i \in 1..cursor :
       /\ versions'[i].serial = versions[i].serial
       /\ versions'[i].documentSerial = versions[i].documentSerial
  /\ versions'[cursor + 1].serial = Minted
  /\ versions'[cursor + 1].documentSerial = DocumentSerial(made)
  /\ versions'[cursor + 1].held
  /\ Serials' = 1..Minted /\ Len(steps') = Minted
  /\ \A s \in Serials : s \in Serials' /\ steps'[s] = steps[s]
  /\ steps'[Minted].value = w /\ steps'[Minted].parent = Here.serial
  /\ StepsSound'

LEMMA PushEffect ==
  ASSUME Lineage, NEW made, NEW onBench, NEW map, NEW w, States(made, w),
         GoodValue(w, Minted), MapSound(map, Shown, w), Push(made, onBench, map)
  PROVE  PushedOn(w, made) /\ steps'[Minted].map = map /\ (BudgetKept => BudgetKept')
<1>1. PICK row \in Version, step \in Step :
         /\ row.serial = Minted /\ row.documentSerial = DocumentSerial(made) /\ row.held
         /\ versions' = Pushed(KeptRows, row)
         /\ step.parent = Here.serial /\ step.map = map /\ step.value = w
         /\ steps' = Append(steps, step)
  BY PushMakes
<1>2. PICK k \in 0..cursor :
        /\ versions' \in Seq(Version) /\ Len(versions') = cursor + 1
        /\ \A i \in 1..cursor :
             /\ versions'[i].serial = versions[i].serial
             /\ versions'[i].documentSerial = versions[i].documentSerial
             /\ versions'[i].held <=> (k < i /\ versions[i].held)
        /\ versions'[cursor + 1].serial = row.serial
        /\ versions'[cursor + 1].documentSerial = row.documentSerial
        /\ versions'[cursor + 1].held
        /\ k = cursor \/ Fits(versions')
  BY <1>1, RowsPushed
<1>3. Len(KeptRows) = cursor /\ cursor' = cursor + 1
  <2>1. Len(KeptRows) = cursor
    BY <1>1, RowsPushed
  <2> QED
    BY <2>1 DEF Push
<1>4. Here.serial \in Serials /\ StepsSound
  BY LineageTyped DEF Lineage
<1>5. StepsSound'
  BY <1>1, <1>4, StepsStaySound DEF Shown
<1>6. /\ Serials' = 1..Minted /\ Len(steps') = Minted
      /\ \A s \in Serials : s \in Serials' /\ steps'[s] = steps[s]
      /\ steps'[Minted] = step
  BY <1>1, <1>4, StepAppended
<1>7. PushedOn(w, made)
  BY <1>1, <1>2, <1>3, <1>5, <1>6 DEF PushedOn
<1>8. ASSUME BudgetKept PROVE BudgetKept'
  <2>1. /\ cursor \in Nat /\ DOMAIN versions' = 1..(cursor + 1) /\ DOMAIN versions = 1..Len(versions)
        /\ cursor \in 1..Len(versions) /\ Len(versions) \in Nat
    BY <1>2, LineageTyped
  <2>2. ASSUME NEW i \in 1..(cursor + 1), NEW j \in 1..(cursor + 1), i < j, versions'[i].held
        PROVE  versions'[j].held
    <3>1. i \in 1..cursor /\ i \in DOMAIN versions
      BY <2>1, <2>2
    <3>2. k < i /\ versions[i].held
      BY <1>2, <2>2, <3>1
    <3>3. CASE j = cursor + 1
      BY <1>2, <3>3
    <3>4. CASE j # cursor + 1
      <4>1. j \in 1..cursor /\ j \in DOMAIN versions /\ k < j
        BY <2>1, <2>2, <3>2, <3>4
      <4>2. versions[j].held
        BY <1>8, <2>2, <3>1, <3>2, <4>1 DEF BudgetKept
      <4> QED
        BY <1>2, <4>1, <4>2
    <3> QED
      BY <3>3, <3>4
  <2>3. ASSUME k = cursor, NEW i \in 1..(cursor + 1), versions'[i].held
        PROVE  i = Len(versions')
    <3> SUFFICES ASSUME i # cursor + 1 PROVE FALSE
      BY <1>2
    <3>1. i \in 1..cursor /\ ~(k < i)
      BY <2>1, <2>3
    <3> QED
      BY <1>2, <2>3, <3>1
  <2> QED
    BY <1>2, <2>1, <2>2, <2>3 DEF BudgetKept
<1> QED
  BY <1>1, <1>6, <1>7, <1>8

LEMMA PushKeepsLineage ==
  ASSUME Lineage, NEW made, NEW w, States(made, w), PushedOn(w, made)
  PROVE  Lineage' /\ Shown' = w /\ Here'.serial = Minted
<1>1. /\ Len(steps) \in Nat /\ Serials = 1..Len(steps) /\ Minted = Len(steps) + 1
      /\ Len(versions) \in Nat /\ DOMAIN versions = 1..Len(versions)
      /\ cursor \in 1..Len(versions) /\ Here.serial \in Serials
  BY LineageTyped DEF Minted
<1>2. DOMAIN versions' = 1..(cursor + 1) /\ cursor + 1 \in 1..(cursor + 1) /\ cursor' = cursor + 1
      /\ Minted \in 1..Minted
  BY <1>1 DEF PushedOn
<1>3. Here'.serial = Minted /\ Here'.held
  BY <1>2 DEF Here, PushedOn
<1>4. Shown' = w
  <2>1. Shown' = steps'[Here'.serial].value
    BY DEF Shown, ValueOf
  <2> QED
    BY <1>3, <2>1 DEF PushedOn
<1>5. ASSUME NEW i \in 1..cursor
      PROVE  /\ i \in DOMAIN versions
             /\ versions[i].serial \in Serials
             /\ versions[i].documentSerial \in 1..Len(steps)
             /\ versions'[i].serial = versions[i].serial
             /\ versions'[i].documentSerial = versions[i].documentSerial
             /\ steps'[versions'[i].serial] = steps[versions[i].serial]
  <2>1. i \in DOMAIN versions
    BY <1>1
  <2>2. versions[i].serial \in Serials /\ versions[i].documentSerial \in 1..Len(steps)
    BY <2>1 DEF Lineage, VersionsTyped
  <2> QED
    BY <2>1, <2>2 DEF PushedOn
<1>6. cursor \in 1..cursor /\ versions[cursor] = Here /\ steps[Here.serial].value = Shown
  BY <1>1 DEF Here, Shown, ValueOf
<1>7. /\ versions'[cursor + 1].serial = Minted
      /\ versions'[cursor + 1].documentSerial = DocumentSerial(made)
      /\ steps'[Minted].value = w /\ steps'[Minted].parent = Here.serial
      /\ Serials' = 1..Minted
  BY DEF PushedOn
<1>8. Here.documentSerial \in 1..Len(steps)
  BY <1>5, <1>6
<1>9. \/ made = {} /\ w = Shown /\ DocumentSerial(made) = Here.documentSerial
      \/ made # {} /\ DocumentSerial(made) = Minted
  BY DEF States, DocumentSerial
<1>10. VersionsTyped'
  <2>1. Len(steps') = Minted /\ \A s \in 1..Len(steps) : s \in 1..Minted
    BY <1>1 DEF PushedOn
  <2>2. ASSUME NEW i \in 1..(cursor + 1)
        PROVE  versions'[i].serial \in 1..Minted /\ versions'[i].documentSerial \in 1..Minted
    <3>1. CASE i \in 1..cursor
      <4>1. /\ versions[i].serial \in 1..Len(steps)
            /\ versions[i].documentSerial \in 1..Len(steps)
        BY <1>1, <1>5, <3>1
      <4>2. /\ versions'[i].serial = versions[i].serial
            /\ versions'[i].documentSerial = versions[i].documentSerial
        BY <1>5, <3>1
      <4> QED
        BY <2>1, <4>1, <4>2
    <3>2. CASE i = cursor + 1
      BY <1>2, <1>7, <1>8, <1>9, <2>1, <3>2
    <3> QED
      BY <1>1, <3>1, <3>2
  <2> QED
    BY <1>2, <1>3, <1>7, <2>1, <2>2 DEF VersionsTyped, PushedOn
<1>11. RowsAreAChain'
  <2> SUFFICES ASSUME NEW i \in 2..Len(versions')
               PROVE  /\ steps'[versions'[i].serial].parent = versions'[i - 1].serial
                      /\ versions'[i].documentSerial
                           \in {versions'[i].serial, versions'[i - 1].documentSerial}
                      /\ versions'[i].documentSerial = versions'[i - 1].documentSerial =>
                           steps'[versions'[i].serial].value = steps'[versions'[i - 1].serial].value
    BY DEF RowsAreAChain, ValueOf
  <2>1. i \in 2..(cursor + 1) /\ cursor \in Nat
    BY <1>1 DEF PushedOn
  <2>2. CASE i \in 2..cursor
    <3>1. i \in 1..cursor /\ i - 1 \in 1..cursor /\ i \in 2..Len(versions)
      BY <1>1, <2>2
    <3>2. /\ steps[versions[i].serial].parent = versions[i - 1].serial
          /\ versions[i].documentSerial \in {versions[i].serial, versions[i - 1].documentSerial}
          /\ versions[i].documentSerial = versions[i - 1].documentSerial =>
               steps[versions[i].serial].value = steps[versions[i - 1].serial].value
      BY <3>1 DEF Lineage, RowsAreAChain, ValueOf
    <3> QED
      BY <1>5, <3>1, <3>2
  <2>3. CASE i = cursor + 1
    <3>1. i - 1 = cursor
      BY <2>1, <2>3
    <3> QED
      BY <1>1, <1>5, <1>6, <1>7, <1>8, <1>9, <2>3, <3>1
  <2> QED
    BY <2>1, <2>2, <2>3
<1>12. SharedDocuments'
  <2>1. ASSUME NEW i \in 1..cursor, NEW j \in 1..cursor,
               versions'[i].documentSerial = versions'[j].documentSerial
        PROVE  steps'[versions'[i].serial].value = steps'[versions'[j].serial].value
    <3>1. steps[versions[i].serial].value = steps[versions[j].serial].value
      BY <1>5, <2>1 DEF Lineage, SharedDocuments, ValueOf
    <3> QED
      BY <1>5, <3>1
  <2>2. ASSUME NEW i \in 1..cursor,
               versions'[i].documentSerial = versions'[cursor + 1].documentSerial
        PROVE  steps'[versions'[i].serial].value = w
    <3>1. versions[i].documentSerial = DocumentSerial(made)
      BY <1>5, <1>7, <2>2
    <3>2. made = {} /\ w = Shown /\ versions[i].documentSerial = Here.documentSerial
      BY <1>1, <1>5, <1>9, <3>1
    <3>3. steps[versions[i].serial].value = steps[versions[cursor].serial].value
      BY <1>5, <1>6, <3>2 DEF Lineage, SharedDocuments, ValueOf
    <3> QED
      BY <1>5, <1>6, <3>2, <3>3
  <2>3. \A i \in 1..(cursor + 1) : i \in 1..cursor \/ i = cursor + 1
    BY <1>1
  <2>4. steps'[versions'[cursor + 1].serial].value = w
    BY <1>7
  <2>5. \A i, j \in 1..(cursor + 1) :
          versions'[i].documentSerial = versions'[j].documentSerial =>
            steps'[versions'[i].serial].value = steps'[versions'[j].serial].value
    BY <2>1, <2>2, <2>3, <2>4
  <2> QED
    BY <1>2, <2>5 DEF SharedDocuments, ValueOf
<1> QED
  BY <1>3, <1>4, <1>10, <1>11, <1>12 DEF Lineage, PushedOn
-----------------------------------------------------------------------------
(* The file, and the selection.                                            *)

(* The version the history says is on disk is one with nothing to fold, and*)
(* its base is what the file holds.                                        *)
DiskSound ==
  /\ disk \in Serials /\ path \in BOOLEAN /\ file \subseteq Serials
  /\ path => file = {ValueOf(disk).base} /\ Overlay(ValueOf(disk)) = 0

SelectionLive == selection \subseteq Live(Shown)

LEMMA PushKeepsDisk ==
  ASSUME Lineage, DiskSound, NEW made, NEW w, PushedOn(w, made),
         UNCHANGED disk, UNCHANGED path, UNCHANGED file
  PROVE  DiskSound'
<1>1. disk \in Serials' /\ steps'[disk] = steps[disk] /\ Serials \subseteq Serials'
  BY DEF DiskSound, PushedOn
<1>2. steps'[disk'].value = steps[disk].value
  BY <1>1
<1> QED
  BY <1>1, <1>2 DEF DiskSound, ValueOf

LEMMA SelectedPoints ==
  ASSUME SelectionLive
  PROVE  Selected = {Shown.rows[i] : i \in selection}
<1>1. selection \cap DOMAIN Shown.rows = selection
  BY DEF SelectionLive, Live
<1> QED
  BY <1>1 DEF Selected

LEMMA SelectedPointsNext ==
  ASSUME SelectionLive'
  PROVE  Selected' = {Shown'.rows[i] : i \in selection'}
<1>1. selection' \cap DOMAIN Shown'.rows = selection'
  BY DEF SelectionLive, Live
<1> QED
  BY <1>1 DEF Selected

(* A selection followed through a sound map stays on its points.           *)
LEMMA FollowKeepsSelection ==
  ASSUME SelectionLive, NEW map, MapSound(map, Shown, Shown'), FollowForward(map)
  PROVE  SelectionLive' /\ Selected' \subseteq Selected
<1>1. ASSUME NEW k \in selection'
      PROVE  k \in Live(Shown') /\ Shown'.rows[k] \in {Shown.rows[i] : i \in selection}
  <2>1. PICK i \in selection : k \in MapForward(map, i)
    BY DEF FollowForward
  <2>2. i \in Live(Shown)
    BY DEF SelectionLive
  <2>3. k \in Live(Shown') /\ Shown'.rows[k] = Shown.rows[i]
    BY <2>1, <2>2 DEF MapSound
  <2> QED
    BY <2>3
<1>2. SelectionLive'
  BY <1>1 DEF SelectionLive, Live
<1>3. Selected = {Shown.rows[i] : i \in selection}
  BY SelectedPoints
<1>4. Selected' = {Shown'.rows[k] : k \in selection'}
  BY <1>2, SelectedPointsNext
<1> QED
  BY <1>1, <1>2, <1>3, <1>4

LEMMA UnchangedSelection ==
  ASSUME SelectionLive, Shown' = Shown, selection' = selection
  PROVE  SelectionLive' /\ Selected' \subseteq Selected
  BY DEF SelectionLive, Selected, Live

(* Undo and redo: the maps of adjacent rows.                               *)
LEMMA RowMapSound ==
  ASSUME Lineage, NEW i \in 2..Len(versions)
  PROVE  MapSound(steps[versions[i].serial].map, ValueOf(versions[i - 1].serial),
                  ValueOf(versions[i].serial))
<1>1. i \in DOMAIN versions /\ i - 1 \in DOMAIN versions
  BY LineageTyped
<1>2. versions[i].serial \in Serials /\ versions[i - 1].serial \in Serials
  BY <1>1 DEF Lineage, VersionsTyped
<1>3. steps[versions[i].serial].parent = versions[i - 1].serial
  BY DEF Lineage, RowsAreAChain
<1>4. versions[i - 1].serial # 0
  BY <1>2, LineageTyped
<1> QED
  BY <1>2, <1>3, <1>4 DEF Lineage, StepsSound

(* An index is taken through steps one map at a time, either way.          *)
Through(way, map, i) == IF way = "forward" THEN MapForward(map, i) ELSE MapInverse(map, i)

Walking(way, serials, index, last, at) ==
  at = [k \in 0..last |->
          IF k = 0 THEN index
          ELSE UNION {Through(way, steps[serials[k]].map, i) : i \in at[k - 1]}]

LEMMA WalkExists ==
  ASSUME NEW way, NEW serials, NEW index, NEW last \in Nat
  PROVE  \E at : Walking(way, serials, index, last, at)
<1> DEFINE Leads(at, n) == at = [k \in 0..n |->
             IF k = 0 THEN index
             ELSE UNION {Through(way, steps[serials[k]].map, i) : i \in at[k - 1]}]
           Bad == {n \in Nat : ~\E at : Leads(at, n)}
<1>1. ASSUME Bad # {} PROVE FALSE
  <2>1. PICK n \in Bad : \A k \in Bad : n <= k
    <3>1. Bad \subseteq Nat
      OBVIOUS
    <3> QED
      BY <1>1, <3>1, LeastNumber
  <2>2. n \in Nat /\ ~\E at : Leads(at, n)
    OBVIOUS
  <2>3. n # 0
    <3> SUFFICES ASSUME n = 0 PROVE FALSE
      OBVIOUS
    <3> DEFINE at == [k \in 0..0 |-> index]
    <3>1. Leads(at, 0)
      OBVIOUS
    <3> QED
      BY <2>2, <3>1
  <2>4. n - 1 \in Nat /\ n - 1 \notin Bad
    <3>1. n - 1 \in Nat /\ ~(n <= n - 1)
      BY <2>2, <2>3
    <3> HIDE DEF Bad
    <3> QED
      BY <2>1, <3>1
  <2>5. PICK before : Leads(before, n - 1)
    BY <2>4
  <2> DEFINE next == UNION {Through(way, steps[serials[n]].map, i) : i \in before[n - 1]}
             at == [k \in 0..n |-> IF k = n THEN next ELSE before[k]]
  <2>6. ASSUME NEW k \in 0..n
        PROVE  at[k] = IF k = 0 THEN index
                       ELSE UNION {Through(way, steps[serials[k]].map, i) : i \in at[k - 1]}
    <3>1. CASE k = n
      <4>1. n - 1 \in 0..n /\ n - 1 # n /\ at[n - 1] = before[n - 1]
        BY <2>2, <2>3
      <4> QED
        BY <2>3, <3>1, <4>1
    <3>2. CASE k # n /\ k # 0
      <4>1. k \in 0..(n - 1) /\ k - 1 \in 0..n /\ k - 1 # n
        BY <2>2, <3>2
      <4>2. at[k] = before[k] /\ at[k - 1] = before[k - 1]
        BY <3>2, <4>1
      <4>3. before[k] = UNION {Through(way, steps[serials[k]].map, i) : i \in before[k - 1]}
        BY <2>5, <3>2, <4>1
      <4> QED
        BY <3>2, <4>2, <4>3
    <3>3. CASE k # n /\ k = 0
      <4>1. 0 \in 0..(n - 1)
        BY <2>4
      <4>2. before[0] = index
        BY <2>5, <4>1
      <4> QED
        BY <3>3, <4>2
    <3> QED
      BY <3>1, <3>2, <3>3
  <2>7. Leads(at, n)
    <3> HIDE DEF next
    <3>1. at = [k \in 0..n |-> at[k]]
      OBVIOUS
    <3> HIDE DEF at
    <3> QED
      BY <2>6, <3>1
  <2> QED
    BY <2>2, <2>7
<1> QED
  BY <1>1 DEF Walking

(* Each step leads live points to themselves or nowhere.                   *)
Leading(way, serials, last, values) ==
  \A k \in 1..last : \A i \in Live(values[k - 1]) :
    \A j \in Through(way, steps[serials[k]].map, i) :
      j \in Live(values[k]) /\ values[k].rows[j] = values[k - 1].rows[i]

(* When each step leads live points to themselves or nowhere, so does the  *)
(* whole walk.                                                             *)
LEMMA WalkSound ==
  ASSUME NEW way, NEW serials, NEW index, NEW last \in Nat, NEW values,
         index \subseteq Live(values[0]),
         Leading(way, serials, last, values),
         NEW at, Walking(way, serials, index, last, at)
  PROVE  /\ at[last] \subseteq Live(values[last])
         /\ \A j \in at[last] : \E i \in index : values[last].rows[j] = values[0].rows[i]
<1> DEFINE points == {values[0].rows[i] : i \in index}
           Fine(k) == at[k] \subseteq Live(values[k]) /\ \A j \in at[k] : values[k].rows[j] \in points
           Bad == {k \in 0..last : ~Fine(k)}
<1>1. at[0] = index
  BY DEF Walking
<1>2. \A k \in 1..last :
        at[k] = UNION {Through(way, steps[serials[k]].map, i) : i \in at[k - 1]}
  <2>1. \A k \in 1..last : k \in 0..last /\ k # 0
    OBVIOUS
  <2> QED
    BY <2>1 DEF Walking
<1>3. ASSUME Bad # {} PROVE FALSE
  <2>1. PICK n \in Bad : \A k \in Bad : n <= k
    <3>1. Bad \subseteq Nat
      OBVIOUS
    <3> QED
      BY <1>3, <3>1, LeastNumber
  <2>2. n \in 0..last /\ ~Fine(n)
    OBVIOUS
  <2>3. n # 0
    <3> SUFFICES ASSUME n = 0 PROVE FALSE
      OBVIOUS
    <3>1. Fine(0)
      BY <1>1
    <3> QED
      BY <2>2, <3>1
  <2>4. n \in 1..last /\ n - 1 \in 0..last /\ ~(n <= n - 1)
    BY <2>2, <2>3
  <2>5. Fine(n - 1)
    BY <2>1, <2>4
  <2>6. ASSUME NEW j \in at[n] PROVE j \in Live(values[n]) /\ values[n].rows[j] \in points
    <3>1. PICK i \in at[n - 1] : j \in Through(way, steps[serials[n]].map, i)
      BY <1>2, <2>4
    <3>2. i \in Live(values[n - 1]) /\ values[n - 1].rows[i] \in points
      BY <2>5
    <3>3. j \in Live(values[n]) /\ values[n].rows[j] = values[n - 1].rows[i]
      BY <2>4, <3>1, <3>2 DEF Leading
    <3> QED
      BY <3>2, <3>3
  <2> QED
    BY <2>2, <2>6
<1>4. Fine(last)
  <2>1. last \in 0..last
    OBVIOUS
  <2> QED
    BY <1>3, <2>1
<1> QED
  BY <1>4
LEMMA ForwardWalk ==
  ASSUME NEW serials, NEW index, NEW last \in Nat, last = Len(serials)
  PROVE  \E walk : /\ Walking("forward", serials, index, last, walk)
                   /\ ForwardThrough(serials, index) = walk[last]
<1> DEFINE Leads(walk) == walk = [k \in 0..last |->
             IF k = 0 THEN index
             ELSE UNION {Through("forward", steps[serials[k]].map, i) : i \in walk[k - 1]}]
           Takes(walk) == walk = [k \in 0..Len(serials) |->
             IF k = 0 THEN index
             ELSE UNION {MapForward(steps[serials[k]].map, i) : i \in walk[k - 1]}]
<1>1. ASSUME NEW walk PROVE Leads(walk) <=> Takes(walk)
  <2>1. ASSUME NEW k
        PROVE  UNION {Through("forward", steps[serials[k]].map, i) : i \in walk[k - 1]}
                 = UNION {MapForward(steps[serials[k]].map, i) : i \in walk[k - 1]}
    <3>1. \A map, i : Through("forward", map, i) = MapForward(map, i)
      BY DEF Through
    <3> QED
      BY <3>1
  <2> DEFINE led(k) == UNION {Through("forward", steps[serials[k]].map, i) : i \in walk[k - 1]}
             taken(k) == UNION {MapForward(steps[serials[k]].map, i) : i \in walk[k - 1]}
  <2>2. \A k : led(k) = taken(k)
    BY <2>1
  <2>3. Leads(walk) <=> walk = [k \in 0..last |-> IF k = 0 THEN index ELSE led(k)]
    OBVIOUS
  <2>4. Takes(walk) <=> walk = [k \in 0..last |-> IF k = 0 THEN index ELSE taken(k)]
    OBVIOUS
  <2> HIDE DEF Leads, Takes, led, taken
  <2> QED
    BY <2>2, <2>3, <2>4
<1>2. \E walk : Leads(walk)
  <2>1. \E walk : Walking("forward", serials, index, last, walk)
    BY WalkExists
  <2> QED
    BY <2>1 DEF Walking
<1> HIDE DEF Leads
<1>3. PICK walk : walk = CHOOSE one : Takes(one)
  OBVIOUS
<1>4. Takes(walk)
  <2>1. \E one : Takes(one)
    BY <1>1, <1>2
  <2> HIDE DEF Takes
  <2> QED
    BY <1>3, <2>1
<1>5. ForwardThrough(serials, index) = walk[Len(serials)]
  BY <1>3, Zenon DEF ForwardThrough
<1>6. Leads(walk)
  BY <1>1, <1>4
<1> QED
  BY <1>5, <1>6 DEF Leads, Walking

LEMMA BackWalk ==
  ASSUME NEW serials, NEW index, NEW last \in Nat, last = Len(serials)
  PROVE  \E walk : /\ Walking("back", serials, index, last, walk)
                   /\ BackThrough(serials, index) = walk[last]
<1> DEFINE Leads(walk) == walk = [k \in 0..last |->
             IF k = 0 THEN index
             ELSE UNION {Through("back", steps[serials[k]].map, i) : i \in walk[k - 1]}]
           Takes(walk) == walk = [k \in 0..Len(serials) |->
             IF k = 0 THEN index
             ELSE UNION {MapInverse(steps[serials[k]].map, i) : i \in walk[k - 1]}]
<1>1. ASSUME NEW walk PROVE Leads(walk) <=> Takes(walk)
  <2>1. ASSUME NEW k
        PROVE  UNION {Through("back", steps[serials[k]].map, i) : i \in walk[k - 1]}
                 = UNION {MapInverse(steps[serials[k]].map, i) : i \in walk[k - 1]}
    <3>1. \A map, i : Through("back", map, i) = MapInverse(map, i)
      BY DEF Through
    <3> QED
      BY <3>1
  <2> DEFINE led(k) == UNION {Through("back", steps[serials[k]].map, i) : i \in walk[k - 1]}
             taken(k) == UNION {MapInverse(steps[serials[k]].map, i) : i \in walk[k - 1]}
  <2>2. \A k : led(k) = taken(k)
    BY <2>1
  <2>3. Leads(walk) <=> walk = [k \in 0..last |-> IF k = 0 THEN index ELSE led(k)]
    OBVIOUS
  <2>4. Takes(walk) <=> walk = [k \in 0..last |-> IF k = 0 THEN index ELSE taken(k)]
    OBVIOUS
  <2> HIDE DEF Leads, Takes, led, taken
  <2> QED
    BY <2>2, <2>3, <2>4
<1>2. \E walk : Leads(walk)
  <2>1. \E walk : Walking("back", serials, index, last, walk)
    BY WalkExists
  <2> QED
    BY <2>1 DEF Walking
<1> HIDE DEF Leads
<1>3. PICK walk : walk = CHOOSE one : Takes(one)
  OBVIOUS
<1>4. Takes(walk)
  <2>1. \E one : Takes(one)
    BY <1>1, <1>2
  <2> HIDE DEF Takes
  <2> QED
    BY <1>3, <2>1
<1>5. BackThrough(serials, index) = walk[Len(serials)]
  BY <1>3, Zenon DEF BackThrough
<1>6. Leads(walk)
  BY <1>1, <1>4
<1> QED
  BY <1>5, <1>6 DEF Leads, Walking
LEMMA SerialsWalked ==
  ASSUME Lineage, NEW from \in DOMAIN versions, NEW to \in DOMAIN versions, from <= to
  PROVE  LET serials == RowSerials(from, to)
         IN /\ serials \in Seq(Nat) /\ Len(serials) = to - from + 1
            /\ Len(Reverse(serials)) = to - from + 1
            /\ \A k \in 1..(to - from + 1) :
                 /\ serials[k] = versions[from + k - 1].serial
                 /\ Reverse(serials)[k] = versions[to - k + 1].serial
<1>0. PICK n : n = to - from + 1
  OBVIOUS
<1>1. /\ n \in Nat /\ from \in Int /\ to \in Int
      /\ \A k \in 1..n : from + k - 1 \in DOMAIN versions
  BY <1>0, LineageTyped
<1>2. \A i \in DOMAIN versions : versions[i].serial \in Nat
  BY LineageTyped DEF Version
<1>3. PICK serials : serials = RowSerials(from, to)
  OBVIOUS
<1>4. serials \in [1..n -> Nat] /\ \A k \in 1..n : serials[k] = versions[from + k - 1].serial
  BY <1>0, <1>1, <1>2, <1>3 DEF RowSerials
<1>5. serials \in Seq(Nat) /\ Len(serials) = n
  BY <1>1, <1>4
<1>6. PICK back : back = Reverse(serials)
  OBVIOUS
<1>7. back = [k \in 1..n |-> serials[(n - k) + 1]]
  BY <1>5, <1>6 DEF Reverse
<1>8. Len(back) = n
  <2>1. \A k \in 1..n : (n - k) + 1 \in 1..n
    BY <1>1
  <2>2. back \in [1..n -> Nat]
    BY <1>4, <1>7, <2>1
  <2>3. back \in Seq(Nat)
    BY <1>1, <2>2
  <2> QED
    BY <1>1, <2>2, <2>3
<1>9. ASSUME NEW k \in 1..n PROVE back[k] = versions[to - k + 1].serial
  <2>1. (n - k) + 1 \in 1..n /\ from + ((n - k) + 1) - 1 = to - k + 1
    BY <1>0, <1>1
  <2>2. serials[(n - k) + 1] = versions[from + ((n - k) + 1) - 1].serial
    BY <1>4, <2>1
  <2> QED
    BY <1>7, <2>1, <2>2
<1> QED
  BY <1>0, <1>3, <1>4, <1>5, <1>6, <1>8, <1>9

LEMMA WalkedBack ==
  ASSUME Lineage, SelectionLive, NEW target \in DOMAIN versions, target < cursor
  PROVE  LET value == ValueOf(versions[target].serial)
         IN /\ Walked(target) \subseteq Live(value)
            /\ {value.rows[j] : j \in Walked(target)} \subseteq {Shown.rows[i] : i \in selection}
<1>1. target \in Nat /\ cursor \in Nat /\ cursor \in DOMAIN versions
      /\ target + 1 \in DOMAIN versions /\ target + 1 <= cursor /\ DOMAIN versions = 1..Len(versions)
      /\ Len(versions) \in Nat
  BY LineageTyped
<1>2. PICK last \in Nat : last = cursor - target
  BY <1>1
<1>3. PICK serials : serials = Reverse(RowSerials(target + 1, cursor))
  OBVIOUS
<1>4. Len(serials) = last /\ \A k \in 1..last : serials[k] = versions[cursor - k + 1].serial
  <2>1. cursor - (target + 1) + 1 = last
    BY <1>1, <1>2
  <2> QED
    BY <1>1, <1>3, <2>1, SerialsWalked
<1>5. Walked(target) = BackThrough(serials, selection)
  BY <1>3 DEF Walked
<1>6. PICK walk : Walking("back", serials, selection, last, walk)
                  /\ Walked(target) = walk[last]
  <2>1. last = Len(serials)
    BY <1>4
  <2> QED
    BY <1>5, <2>1, BackWalk
<1> DEFINE value(k) == ValueOf(versions[cursor - k].serial)
<1>7. PICK values : values = [k \in 0..last |-> value(k)]
  OBVIOUS
<1>8. values[0] = Shown /\ values[last] = ValueOf(versions[target].serial)
  <2>1. cursor - 0 = cursor /\ cursor - last = target /\ 0 \in 0..last /\ last \in 0..last
    BY <1>1, <1>2
  <2> QED
    BY <1>7, <2>1 DEF Shown, Here
<1>9. ASSUME NEW k \in 1..last, NEW i \in Live(values[k - 1]),
             NEW j \in Through("back", steps[serials[k]].map, i)
      PROVE  j \in Live(values[k]) /\ values[k].rows[j] = values[k - 1].rows[i]
  <2>1. PICK row \in 2..Len(versions) : row = cursor - k + 1
    BY <1>1, <1>2
  <2>2. k \in 0..last /\ k - 1 \in 0..last /\ cursor - k = row - 1 /\ cursor - (k - 1) = row
    BY <1>1, <1>2, <2>1
  <2>3. values[k] = ValueOf(versions[row - 1].serial)
        /\ values[k - 1] = ValueOf(versions[row].serial)
    BY <1>7, <2>2
  <2>4. MapSound(steps[versions[row].serial].map, values[k], values[k - 1])
    BY <2>3, RowMapSound
  <2>5. j \in MapInverse(steps[versions[row].serial].map, i)
    BY <1>4, <1>9, <2>1 DEF Through
  <2> QED
    BY <1>9, <2>4, <2>5 DEF MapSound
<1>10. selection \subseteq Live(values[0])
  BY <1>8 DEF SelectionLive
<1>11. /\ walk[last] \subseteq Live(values[last])
       /\ \A j \in walk[last] : \E i \in selection : values[last].rows[j] = values[0].rows[i]
  <2>1. Leading("back", serials, last, values)
    BY <1>9 DEF Leading
  <2>2. PICK index : index = selection
    OBVIOUS
  <2>3. Walking("back", serials, index, last, walk) /\ index \subseteq Live(values[0])
    BY <1>6, <1>10, <2>2
  <2>4. walk[last] \subseteq Live(values[last])
    BY <2>1, <2>3, WalkSound
  <2>5. \A j \in walk[last] : \E i \in index : values[last].rows[j] = values[0].rows[i]
    BY <2>1, <2>3, WalkSound
  <2> QED
    BY <2>2, <2>4, <2>5
<1> QED
  BY <1>6, <1>8, <1>11

LEMMA WalkedForward ==
  ASSUME Lineage, SelectionLive, NEW target \in DOMAIN versions, cursor < target
  PROVE  LET value == ValueOf(versions[target].serial)
         IN /\ Walked(target) \subseteq Live(value)
            /\ {value.rows[j] : j \in Walked(target)} \subseteq {Shown.rows[i] : i \in selection}
<1>1. target \in Nat /\ cursor \in Nat /\ cursor \in DOMAIN versions
      /\ cursor + 1 \in DOMAIN versions /\ cursor + 1 <= target /\ DOMAIN versions = 1..Len(versions)
      /\ Len(versions) \in Nat
  BY LineageTyped
<1>2. PICK last \in Nat : last = target - cursor
  BY <1>1
<1>3. PICK serials : serials = RowSerials(cursor + 1, target)
  OBVIOUS
<1>4. Len(serials) = last /\ \A k \in 1..last : serials[k] = versions[cursor + k].serial
  <2>1. target - (cursor + 1) + 1 = last /\ \A k \in 1..last : cursor + 1 + k - 1 = cursor + k
    BY <1>1, <1>2
  <2>2. Len(serials) = last /\ \A k \in 1..last : serials[k] = versions[cursor + 1 + k - 1].serial
    BY <1>1, <1>3, <2>1, SerialsWalked
  <2> QED
    BY <2>1, <2>2
<1>5. Walked(target) = ForwardThrough(serials, selection)
  BY <1>1, <1>3 DEF Walked
<1>6. PICK walk : Walking("forward", serials, selection, last, walk)
                  /\ Walked(target) = walk[last]
  <2>1. last = Len(serials)
    BY <1>4
  <2> QED
    BY <1>5, <2>1, ForwardWalk
<1> DEFINE value(k) == ValueOf(versions[cursor + k].serial)
<1>7. PICK values : values = [k \in 0..last |-> value(k)]
  OBVIOUS
<1>8. values[0] = Shown /\ values[last] = ValueOf(versions[target].serial)
  <2>1. cursor + 0 = cursor /\ cursor + last = target /\ 0 \in 0..last /\ last \in 0..last
    BY <1>1, <1>2
  <2> QED
    BY <1>7, <2>1 DEF Shown, Here
<1>9. ASSUME NEW k \in 1..last, NEW i \in Live(values[k - 1]),
             NEW j \in Through("forward", steps[serials[k]].map, i)
      PROVE  j \in Live(values[k]) /\ values[k].rows[j] = values[k - 1].rows[i]
  <2>1. PICK row \in 2..Len(versions) : row = cursor + k
    BY <1>1, <1>2
  <2>2. k \in 0..last /\ k - 1 \in 0..last /\ cursor + (k - 1) = row - 1
    BY <1>1, <1>2, <2>1
  <2>3. values[k - 1] = ValueOf(versions[row - 1].serial)
        /\ values[k] = ValueOf(versions[row].serial)
    BY <1>7, <2>1, <2>2
  <2>4. MapSound(steps[versions[row].serial].map, values[k - 1], values[k])
    BY <2>3, RowMapSound
  <2>5. j \in MapForward(steps[versions[row].serial].map, i)
    BY <1>4, <1>9, <2>1 DEF Through
  <2> QED
    BY <1>9, <2>4, <2>5 DEF MapSound
<1>10. selection \subseteq Live(values[0])
  BY <1>8 DEF SelectionLive
<1>11. /\ walk[last] \subseteq Live(values[last])
       /\ \A j \in walk[last] : \E i \in selection : values[last].rows[j] = values[0].rows[i]
  <2>1. Leading("forward", serials, last, values)
    BY <1>9 DEF Leading
  <2>2. PICK index : index = selection
    OBVIOUS
  <2>3. Walking("forward", serials, index, last, walk) /\ index \subseteq Live(values[0])
    BY <1>6, <1>10, <2>2
  <2>4. walk[last] \subseteq Live(values[last])
    BY <2>1, <2>3, WalkSound
  <2>5. \A j \in walk[last] : \E i \in index : values[last].rows[j] = values[0].rows[i]
    BY <2>1, <2>3, WalkSound
  <2> QED
    BY <2>2, <2>4, <2>5
<1> QED
  BY <1>6, <1>8, <1>11

(* Undo, redo and jumps keep what the history is about.                    *)
LEMMA MoveKeeps ==
  ASSUME Lineage, DiskSound, BudgetKept, SelectionLive,
         NEW target \in DOMAIN versions, versions[target].held, target # cursor, MoveTo(target)
  PROVE  /\ Lineage' /\ DiskSound' /\ BudgetKept' /\ SelectionLive'
         /\ Selected' \subseteq Selected
<1>1. /\ versions' = versions /\ steps' = steps /\ disk' = disk /\ path' = path /\ file' = file
      /\ cursor' = target /\ selection' = Walked(target)
  BY DEF MoveTo
<1>2. Here' = versions[target] /\ Shown' = ValueOf(versions[target].serial)
  BY <1>1 DEF Here, Shown, ValueOf
<1>3. StepsSound' /\ RowsAreAChain' /\ SharedDocuments' /\ DiskSound' /\ BudgetKept'
  BY <1>1 DEF Lineage, StepsSound, RowsAreAChain, SharedDocuments, DiskSound, BudgetKept,
              ValueOf, Serials
<1>4. VersionsTyped'
  BY <1>1, <1>2 DEF Lineage, VersionsTyped, Serials
<1>5. target < cursor \/ cursor < target
  BY LineageTyped
<1>6. /\ selection' \subseteq Live(Shown')
      /\ {Shown'.rows[j] : j \in selection'} \subseteq {Shown.rows[i] : i \in selection}
  <2>1. /\ Walked(target) \subseteq Live(ValueOf(versions[target].serial))
        /\ {ValueOf(versions[target].serial).rows[j] : j \in Walked(target)}
             \subseteq {Shown.rows[i] : i \in selection}
    BY <1>5, WalkedBack, WalkedForward, Zenon
  <2> QED
    BY <1>1, <1>2, <2>1
<1>7. SelectionLive'
  BY <1>6 DEF SelectionLive, Live
<1> QED
  BY <1>3, <1>4, <1>6, <1>7, SelectedPoints, SelectedPointsNext DEF Lineage
-----------------------------------------------------------------------------
(* Every operation keeps the history sound.                                *)

HistoryInv == Lineage /\ DiskSound /\ BudgetKept /\ SelectionLive

LEMMA PushKeeps ==
  ASSUME HistoryInv, NEW made, NEW onBench, NEW map, NEW w, States(made, w),
         GoodValue(w, Minted), MapSound(map, Shown, w), Push(made, onBench, map)
  PROVE  /\ Lineage' /\ BudgetKept' /\ Shown' = w /\ PushedOn(w, made)
         /\ MapSound(map, Shown, Shown')
<1>1. PushedOn(w, made) /\ BudgetKept'
  BY PushEffect DEF HistoryInv
<1>2. Lineage' /\ Shown' = w
  BY <1>1, PushKeepsLineage DEF HistoryInv
<1> QED
  BY <1>1, <1>2

(* Where a push leaves its file alone and its selection follows the map.   *)
LEMMA EditKeeps ==
  ASSUME HistoryInv, NEW made, NEW onBench, NEW map, NEW w, States(made, w),
         GoodValue(w, Minted), MapSound(map, Shown, w), Push(made, onBench, map),
         FollowForward(map), UNCHANGED disk, UNCHANGED path, UNCHANGED file
  PROVE  HistoryInv' /\ Selected' \subseteq Selected
<1>1. /\ Lineage' /\ BudgetKept' /\ PushedOn(w, made) /\ MapSound(map, Shown, Shown')
  BY PushKeeps
<1>2. DiskSound'
  BY <1>1, PushKeepsDisk DEF HistoryInv
<1>3. SelectionLive' /\ Selected' \subseteq Selected
  BY <1>1, FollowKeepsSelection DEF HistoryInv
<1> QED
  BY <1>1, <1>2, <1>3 DEF HistoryInv

LEMMA ShownGood ==
  ASSUME HistoryInv
  PROVE  \E m \in Nat : m = Len(steps) /\ Minted = m + 1 /\ GoodValue(Shown, m)
  BY LineageTyped DEF HistoryInv, Minted

LEMMA DeletePointKeeps ==
  ASSUME HistoryInv, NEW i \in Live(Shown), DeletePoint(i)
  PROVE  HistoryInv' /\ Selected' \subseteq Selected
<1>1. PICK m \in Nat : m = Len(steps) /\ Minted = m + 1 /\ GoodValue(Shown, m)
  BY ShownGood
<1>2. PICK v, w, map : /\ v = Shown /\ w = [v EXCEPT !.deleted = @ \cup {i}]
                       /\ map = [kind |-> "Removed", removed |-> {i}]
  OBVIOUS
<1>3. GoodValue(w, m + 1) /\ MapSound(map, v, w)
  BY <1>1, <1>2, DeletedSound
<1>4. Push({w}, FALSE, map) /\ FollowForward(map)
      /\ UNCHANGED disk /\ UNCHANGED path /\ UNCHANGED file
  BY <1>2 DEF DeletePoint
<1>5. States({w}, w)
  BY DEF States
<1> QED
  BY <1>1, <1>2, <1>3, <1>4, <1>5, EditKeeps

LEMMA RewritePointKeeps ==
  ASSUME HistoryInv, NEW i \in Live(Shown), NEW commit \in BOOLEAN, RewritePoint(i, commit)
  PROVE  HistoryInv' /\ (~commit => Selected' \subseteq Selected)
<1>1. PICK m \in Nat : m = Len(steps) /\ Minted = m + 1 /\ GoodValue(Shown, m)
  BY ShownGood
<1>2. PICK v, at : v = Shown /\ at = Len(v.rows) + 1
  OBVIOUS
<1>3. PICK w : w = Rewritten(v, i)
  OBVIOUS
<1>4. PICK map : map = [kind |-> "Replaced", from |-> i, to |-> at]
  OBVIOUS
<1>5. GoodValue(w, m + 1) /\ MapSound(map, v, w) /\ at \in Live(w)
  <2>1. GoodValue(v, m) /\ i \in Live(v)
    BY <1>1, <1>2
  <2> QED
    BY <1>2, <1>3, <1>4, <2>1, RewrittenSound
<1>6. /\ Push({w}, commit, map) /\ IF commit THEN selection' = {at} ELSE FollowForward(map)
      /\ UNCHANGED disk /\ UNCHANGED path /\ UNCHANGED file
  BY <1>2, <1>3, <1>4, Zenon DEF RewritePoint, Rewritten
<1>7. States({w}, w)
  BY DEF States
<1>8. CASE ~commit
  BY <1>1, <1>2, <1>5, <1>6, <1>7, <1>8, EditKeeps
<1>9. CASE commit
  <2>1. Lineage' /\ BudgetKept' /\ Shown' = w /\ PushedOn(w, {w})
    BY <1>1, <1>2, <1>5, <1>6, <1>7, PushKeeps
  <2>2. DiskSound'
    BY <1>6, <2>1, PushKeepsDisk DEF HistoryInv
  <2>3. SelectionLive'
    BY <1>5, <1>6, <1>9, <2>1 DEF SelectionLive, Live
  <2> QED
    BY <1>9, <2>1, <2>2, <2>3 DEF HistoryInv
<1> QED
  BY <1>8, <1>9

LEMMA CreatePointKeeps ==
  ASSUME HistoryInv, CreatePoint
  PROVE  HistoryInv'
<1>1. PICK m \in Nat : m = Len(steps) /\ Minted = m + 1 /\ GoodValue(Shown, m)
  BY ShownGood
<1>2. PICK v, at : v = Shown /\ at = Len(v.rows) + 1
  OBVIOUS
<1>3. PICK w : w = [v EXCEPT !.rows = Append(@, m + 1)]
  OBVIOUS
<1>4. PICK map : map = [kind |-> "Created", created |-> {at}]
  OBVIOUS
<1>5. GoodValue(w, m + 1) /\ MapSound(map, v, w) /\ at \in Live(w)
  BY <1>1, <1>2, <1>3, <1>4, CreatedSound
<1>6. /\ Push({w}, TRUE, map) /\ selection' = {at}
      /\ UNCHANGED disk /\ UNCHANGED path /\ UNCHANGED file
  BY <1>1, <1>2, <1>3, <1>4 DEF CreatePoint
<1>7. States({w}, w)
  BY DEF States
<1>8. Lineage' /\ BudgetKept' /\ Shown' = w /\ PushedOn(w, {w})
  BY <1>1, <1>2, <1>5, <1>6, <1>7, PushKeeps
<1>9. DiskSound'
  BY <1>6, <1>8, PushKeepsDisk DEF HistoryInv
<1>10. SelectionLive'
  BY <1>5, <1>6, <1>8 DEF SelectionLive, Live
<1> QED
  BY <1>8, <1>9, <1>10 DEF HistoryInv

LEMMA WholeEditKeeps ==
  ASSUME HistoryInv, NEW kept \in SUBSET Live(Shown), WholeEdit(kept)
  PROVE  HistoryInv' /\ Selected' \subseteq Selected
<1>1. PICK m \in Nat : m = Len(steps) /\ Minted = m + 1 /\ GoodValue(Shown, m)
  BY ShownGood
<1>2. PICK v, w, map : /\ v = Shown /\ w = Renumbered(v, kept, m + 1)
                       /\ map = RowsMap(v, kept)
  OBVIOUS
<1>3. GoodValue(w, m + 1) /\ MapSound(map, v, w)
  BY <1>1, <1>2, RenumberedGood, RenumberedSound
<1>4. Push({w}, FALSE, map) /\ FollowForward(map)
      /\ UNCHANGED disk /\ UNCHANGED path /\ UNCHANGED file
  BY <1>1, <1>2 DEF WholeEdit
<1>5. States({w}, w)
  BY DEF States
<1> QED
  BY <1>1, <1>2, <1>3, <1>4, <1>5, EditKeeps

LEMMA UnstatedKeeps ==
  ASSUME HistoryInv, NEW onBench, Push({}, onBench, Identity),
         UNCHANGED disk, UNCHANGED path, UNCHANGED file, UNCHANGED selection
  PROVE  HistoryInv' /\ Selected' \subseteq Selected
<1>1. PICK m \in Nat : m = Len(steps) /\ Minted = m + 1 /\ GoodValue(Shown, m)
  BY ShownGood
<1>2. GoodValue(Shown, m + 1)
  BY <1>1, GoodLater
<1>3. PICK w : w = Shown
  OBVIOUS
<1>4. States({}, w) /\ MapSound(Identity, Shown, w)
  BY <1>1, <1>3, IdentitySound DEF States
<1>5. Lineage' /\ BudgetKept' /\ Shown' = w /\ PushedOn(w, {})
  BY <1>1, <1>2, <1>3, <1>4, PushKeeps
<1>6. DiskSound'
  BY <1>5, PushKeepsDisk DEF HistoryInv
<1>7. SelectionLive' /\ Selected' \subseteq Selected
  BY <1>3, <1>5, UnchangedSelection DEF HistoryInv
<1> QED
  BY <1>5, <1>6, <1>7 DEF HistoryInv
(* A folded save is a push of the fold; a write that succeeds then names   *)
(* the version at the cursor, and one that fails leaves the push behind.   *)
LEMMA FoldedSaveKeeps ==
  ASSUME HistoryInv, NEW map, NEW w, Push({w}, FALSE, map), FollowForward(map),
         map = RowsMap(Shown, Live(Shown)), w = Renumbered(Shown, Live(Shown), Minted)
  PROVE  /\ Lineage' /\ BudgetKept' /\ SelectionLive' /\ Selected' \subseteq Selected
         /\ PushedOn(w, {w}) /\ w.base = Minted /\ Overlay(w) = 0
         /\ versions'[cursor'].serial = Minted
<1>1. PICK m \in Nat : m = Len(steps) /\ Minted = m + 1 /\ GoodValue(Shown, m)
  BY ShownGood
<1>2. PICK v, kept : v = Shown /\ kept = Live(v)
  OBVIOUS
<1>3. w = Renumbered(v, kept, m + 1) /\ map = RowsMap(v, kept)
  BY <1>1, <1>2
<1>4. GoodValue(w, m + 1) /\ w.base = m + 1 /\ Overlay(w) = 0 /\ MapSound(map, v, w)
  <2>1. GoodValue(v, m) /\ kept \in SUBSET Live(v)
    BY <1>1, <1>2
  <2>2. GoodValue(w, m + 1) /\ w.base = m + 1 /\ Overlay(w) = 0
    <3>1. /\ GoodValue(Renumbered(v, kept, m + 1), m + 1)
          /\ Renumbered(v, kept, m + 1).base = m + 1
          /\ Overlay(Renumbered(v, kept, m + 1)) = 0
      BY <2>1, RenumberedGood, Zenon
    <3> QED
      BY <1>3, <3>1
  <2>3. MapSound(map, v, w)
    BY <1>3, <2>1, RenumberedSound
  <2> QED
    BY <2>2, <2>3
<1>5. States({w}, w)
  BY DEF States
<1>6. Lineage' /\ BudgetKept' /\ PushedOn(w, {w}) /\ MapSound(map, Shown, Shown')
  BY <1>1, <1>2, <1>4, <1>5, PushKeeps
<1>7. SelectionLive' /\ Selected' \subseteq Selected
  BY <1>6, FollowKeepsSelection DEF HistoryInv
<1>8. versions'[cursor'].serial = Minted
  BY <1>6 DEF PushedOn
<1> QED
  BY <1>1, <1>4, <1>6, <1>7, <1>8

LEMMA SaveKeeps ==
  ASSUME HistoryInv, NEW elsewhere \in BOOLEAN, NEW stated \in BOOLEAN,
         NEW written \in BOOLEAN, Save(elsewhere, stated, written)
  PROVE  HistoryInv' /\ Selected' \subseteq Selected
<1>1. CASE MustFold(stated)
  <2>1. PICK map, w : map = RowsMap(Shown, Live(Shown))
                      /\ w = Renumbered(Shown, Live(Shown), Minted)
    OBVIOUS
  <2>2. Push({w}, FALSE, map) /\ FollowForward(map)
    BY <1>1, <2>1 DEF Save
  <2>3. /\ Lineage' /\ BudgetKept' /\ SelectionLive' /\ Selected' \subseteq Selected
        /\ PushedOn(w, {w}) /\ w.base = Minted /\ Overlay(w) = 0
        /\ versions'[cursor'].serial = Minted
    BY <2>1, <2>2, FoldedSaveKeeps
  <2>4. DiskSound'
    <3>1. CASE ~written
      <4>1. UNCHANGED disk /\ UNCHANGED path /\ UNCHANGED file
        BY <3>1 DEF Save
      <4> QED
        BY <2>3, <4>1, PushKeepsDisk DEF HistoryInv
    <3>2. CASE written
      <4>1. disk' = Minted /\ file' = {steps'[Minted].value.base} /\ path' = TRUE
        BY <2>3, <3>2 DEF Save, DiskSerial
      <4>2. Minted \in Serials' /\ steps'[Minted].value = w
        <5>1. Minted \in Nat \ {0}
          BY LineageTyped DEF HistoryInv, Minted
        <5> QED
          BY <2>3, <5>1 DEF PushedOn
      <4>3. steps'[disk'].value = w
        BY <4>1, <4>2
      <4> QED
        BY <2>3, <4>1, <4>2, <4>3 DEF DiskSound, ValueOf, Overlay
    <3> QED
      BY <3>1, <3>2
  <2> QED
    BY <2>3, <2>4 DEF HistoryInv
<1>2. CASE ~MustFold(stated)
  <2>1. /\ UNCHANGED versions /\ UNCHANGED cursor /\ UNCHANGED steps /\ UNCHANGED selection
    BY <1>2 DEF Save
  <2>2. Lineage' /\ BudgetKept' /\ Shown' = Shown
    BY <2>1 DEF HistoryInv, Lineage, StepsSound, VersionsTyped, RowsAreAChain, SharedDocuments,
                BudgetKept, ValueOf, Serials, Here, Shown
  <2>3. SelectionLive' /\ Selected' \subseteq Selected
    BY <2>1, <2>2, UnchangedSelection DEF HistoryInv
  <2>4. DiskSound'
    <3>1. CASE ~written
      BY <2>1, <3>1 DEF Save, HistoryInv, DiskSound, Serials, ValueOf
    <3>2. CASE written
      <4>1. PICK v : v = Shown
        OBVIOUS
      <4>2. Overlay(v) = 0
        <5>1. Overlay(v) \in Nat /\ ~(Overlay(v) > 0)
          BY <1>2, <4>1, LineageTyped, OverlayNat DEF MustFold, HistoryInv
        <5> QED
          BY <5>1
      <4>3. Here.serial \in Serials /\ v.base \in Serials
        <5>1. Here.serial \in Serials /\ GoodValue(v, Len(steps)) /\ Serials = 1..Len(steps)
          BY <4>1, LineageTyped DEF HistoryInv
        <5> QED
          BY <5>1 DEF GoodValue
      <4>4. disk' = Here.serial /\ file' = {v.base} /\ path' = TRUE
        BY <2>1, <3>2, <4>1 DEF Save, DiskSerial, Here, Shown, ValueOf
      <4>5. steps'[disk'].value = v /\ Serials' = Serials
        BY <2>1, <4>1, <4>4 DEF Shown, ValueOf, Serials
      <4> QED
        BY <4>2, <4>3, <4>4, <4>5 DEF DiskSound, ValueOf, Overlay
    <3> QED
      BY <3>1, <3>2
  <2> QED
    BY <2>2, <2>3, <2>4 DEF HistoryInv
<1> QED
  BY <1>1, <1>2

LEMMA SelectPointKeeps ==
  ASSUME HistoryInv, NEW i \in Live(Shown), SelectPoint(i)
  PROVE  HistoryInv' /\ cursor' = cursor
<1>1. /\ UNCHANGED versions /\ UNCHANGED cursor /\ UNCHANGED steps /\ UNCHANGED disk
      /\ UNCHANGED path /\ UNCHANGED file /\ selection' = {i}
  BY DEF SelectPoint
<1>2. Lineage' /\ BudgetKept' /\ DiskSound' /\ Shown' = Shown
  BY <1>1 DEF HistoryInv, Lineage, StepsSound, VersionsTyped, RowsAreAChain, SharedDocuments,
              BudgetKept, DiskSound, ValueOf, Serials, Here, Shown
<1>3. SelectionLive'
  BY <1>1, <1>2 DEF SelectionLive, Live
<1> QED
  BY <1>1, <1>2, <1>3 DEF HistoryInv

LEMMA MovesKeep ==
  ASSUME HistoryInv, \/ Undo
                     \/ Redo
                     \/ \E target \in DOMAIN versions : Jump(target)
  PROVE  HistoryInv' /\ Selected' \subseteq Selected
<1>1. /\ cursor \in 1..Len(versions) /\ Len(versions) \in Nat
      /\ DOMAIN versions = 1..Len(versions)
  BY LineageTyped DEF HistoryInv
<1>2. \E target \in DOMAIN versions :
        versions[target].held /\ target # cursor /\ MoveTo(target)
  <2>1. CASE Undo
    <3>1. cursor - 1 \in DOMAIN versions /\ cursor - 1 # cursor
      BY <1>1, <2>1 DEF Undo, CanUndo
    <3> QED
      BY <2>1, <3>1 DEF Undo, CanUndo
  <2>2. CASE Redo
    <3>1. cursor + 1 \in DOMAIN versions /\ cursor + 1 # cursor
      BY <1>1, <2>2 DEF Redo, CanRedo
    <3> QED
      BY <2>2, <3>1 DEF Redo, CanRedo
  <2>3. CASE \E target \in DOMAIN versions : Jump(target)
    <3>1. PICK target \in DOMAIN versions : Jump(target)
      BY <2>3
    <3>2. target \in target..cursor \/ target \in cursor..target
      BY <1>1
    <3> QED
      BY <3>1, <3>2 DEF Jump
  <2> QED
    BY <2>1, <2>2, <2>3
<1> QED
  BY <1>2, MoveKeeps DEF HistoryInv

LEMMA StutterKeeps ==
  ASSUME HistoryInv, UNCHANGED vars
  PROVE  HistoryInv' /\ cursor' = cursor
<1>1. /\ UNCHANGED versions /\ UNCHANGED cursor /\ UNCHANGED steps /\ UNCHANGED disk
      /\ UNCHANGED path /\ UNCHANGED file /\ UNCHANGED selection
  BY DEF vars
<1>2. Lineage' /\ BudgetKept' /\ DiskSound' /\ Shown' = Shown
  BY <1>1 DEF HistoryInv, Lineage, StepsSound, VersionsTyped, RowsAreAChain, SharedDocuments,
              BudgetKept, DiskSound, ValueOf, Serials, Here, Shown
<1>3. SelectionLive'
  BY <1>1, <1>2 DEF HistoryInv, SelectionLive, Live
<1> QED
  BY <1>1, <1>2, <1>3 DEF HistoryInv

(* One step, with what it does to the selected point.                      *)
LEMMA NextKeeps ==
  ASSUME HistoryInv, [Next]_vars
  PROVE  /\ HistoryInv'
         /\ cursor' # cursor /\ ~(\E i \in Live(Shown) : RewritePoint(i, TRUE)) /\ ~CreatePoint
              => Selected' \subseteq Selected
<1>1. CASE \E i \in Live(Shown) : DeletePoint(i)
  BY <1>1, DeletePointKeeps
<1>2. ASSUME NEW i \in Live(Shown), NEW commit \in BOOLEAN, RewritePoint(i, commit)
      PROVE  /\ HistoryInv'
             /\ ~(\E k \in Live(Shown) : RewritePoint(k, TRUE)) => Selected' \subseteq Selected
  <2>1. HistoryInv' /\ (~commit => Selected' \subseteq Selected)
    BY <1>2, RewritePointKeeps
  <2>2. commit = TRUE \/ ~commit
    OBVIOUS
  <2> QED
    BY <1>2, <2>1, <2>2
<1>3. CASE CreatePoint
  BY <1>3, CreatePointKeeps
<1>4. CASE \E kept \in SUBSET Live(Shown) : WholeEdit(kept)
  BY <1>4, WholeEditKeeps
<1>5. CASE BenchStep
  <2>1. /\ Push({}, TRUE, Identity)
        /\ UNCHANGED disk /\ UNCHANGED path /\ UNCHANGED file /\ UNCHANGED selection
    BY <1>5 DEF BenchStep
  <2> QED
    BY <2>1, UnstatedKeeps
<1>6. CASE Reframe
  <2>1. /\ Push({}, FALSE, Identity)
        /\ UNCHANGED disk /\ UNCHANGED path /\ UNCHANGED file /\ UNCHANGED selection
    BY <1>6 DEF Reframe
  <2> QED
    BY <2>1, UnstatedKeeps
<1>7. CASE Undo \/ Redo \/ \E target \in DOMAIN versions : Jump(target)
  BY <1>7, MovesKeep
<1>8. CASE \E i \in Live(Shown) : SelectPoint(i)
  BY <1>8, SelectPointKeeps
<1>9. CASE \E elsewhere, stated \in BOOLEAN : SaveWritten(elsewhere, stated)
  BY <1>9, SaveKeeps DEF SaveWritten
<1>10. CASE \E elsewhere, stated \in BOOLEAN : SaveFails(elsewhere, stated)
  BY <1>10, SaveKeeps DEF SaveFails
<1>11. CASE UNCHANGED vars
  BY <1>11, StutterKeeps
<1> QED
  BY <1>1, <1>2, <1>3, <1>4, <1>5, <1>6, <1>7, <1>8, <1>9, <1>10, <1>11 DEF Next
-----------------------------------------------------------------------------
(* Opening a node, and the theorems.                                       *)

LEMMA FirstGood ==
  /\ GoodValue(FirstValue, 1) /\ Overlay(FirstValue) = 0 /\ FirstValue.base = 1
  /\ FirstValue \in Value
<1>1. FirstPoints \in Nat
  BY HistoryAssumption
<1>2. PICK rows : rows = [i \in 1..FirstPoints |-> 0 - i]
  OBVIOUS
<1>3. PICK v : v = [rows |-> rows, deleted |-> {}, base |-> 1, baseLen |-> FirstPoints]
  OBVIOUS
<1>4. v = FirstValue
  BY <1>2, <1>3 DEF FirstValue
<1>5. rows \in Seq(Int) /\ Len(rows) = FirstPoints /\ DOMAIN rows = 1..FirstPoints
  <2>1. rows \in [1..FirstPoints -> Int]
    BY <1>1, <1>2
  <2>2. rows \in Seq(Int)
    BY <1>1, <2>1
  <2> QED
    BY <1>1, <2>1, <2>2
<1>6. v \in Value /\ v.rows = rows /\ v.deleted = {} /\ v.base = 1 /\ v.baseLen = FirstPoints
  BY <1>1, <1>3, <1>5 DEF Value
<1>7. \A i \in 1..FirstPoints : rows[i] = 0 - i
  BY <1>2
<1>8. /\ \A i \in 1..FirstPoints : rows[i] <= 1
      /\ \A i, j \in 1..FirstPoints : rows[i] = rows[j] => i = j
  BY <1>1, <1>7
<1>9. Live(v) = 1..FirstPoints
  BY <1>5, <1>6 DEF Live
<1>10. GoodValue(v, 1)
  BY <1>1, <1>5, <1>6, <1>8, <1>9 DEF GoodValue
<1>11. Overlay(v) = 0
  <2>1. Cardinality({}) = 0
    BY FS_EmptySet
  <2> QED
    BY <1>1, <1>5, <1>6, <2>1 DEF Overlay
<1> QED
  BY <1>4, <1>6, <1>10, <1>11

LEMMA InitSound ==
  ASSUME Init
  PROVE  HistoryInv
<1>1. PICK row : row = [serial |-> 1, documentSerial |-> 1, held |-> TRUE, bytes |-> BaseBytes]
  OBVIOUS
<1>2. PICK step : step = [parent |-> 0, map |-> Identity, value |-> FirstValue]
  OBVIOUS
<1>3. /\ versions = <<row>> /\ cursor = 1 /\ steps = <<step>> /\ disk = 1 /\ path \in BOOLEAN
      /\ file = (IF path THEN {1} ELSE {}) /\ selection = {}
  BY <1>1, <1>2, Zenon DEF Init
<1>4. row \in Version /\ row.serial = 1 /\ row.documentSerial = 1 /\ row.held
  BY <1>1, HistoryAssumption DEF Version
<1>5. step \in Step /\ step.parent = 0 /\ step.value = FirstValue
  <2>1. Identity \in Maps
    BY DEF Identity, Maps
  <2> QED
    BY <1>2, <2>1, FirstGood DEF Step
<1>6. versions \in Seq(Version) /\ Len(versions) = 1 /\ versions[1] = row /\ DOMAIN versions = {1}
  BY <1>3, <1>4
<1>7. steps \in Seq(Step) /\ Len(steps) = 1 /\ steps[1] = step /\ Serials = {1}
  BY <1>3, <1>5 DEF Serials
<1>8. ValueOf(1) = FirstValue
  BY <1>5, <1>7 DEF ValueOf
<1>9. StepsSound
  BY <1>5, <1>7, <1>8, FirstGood DEF StepsSound
<1>10. VersionsTyped
  BY <1>3, <1>4, <1>6, <1>7 DEF VersionsTyped, Here
<1>11. RowsAreAChain /\ SharedDocuments
  BY <1>6 DEF RowsAreAChain, SharedDocuments
<1>12. DiskSound
  <2>1. file \subseteq Serials
    BY <1>3, <1>7
  <2> QED
    BY <1>3, <1>7, <1>8, <2>1, FirstGood DEF DiskSound
<1>13. BudgetKept
  BY <1>6 DEF BudgetKept
<1>14. SelectionLive
  BY <1>3 DEF SelectionLive
<1> QED
  BY <1>9, <1>10, <1>11, <1>12, <1>13, <1>14 DEF HistoryInv, Lineage

LEMMA AlwaysSound == Spec => []HistoryInv
<1>1. HistoryInv /\ [Next]_vars => HistoryInv'
  BY NextKeeps
<1> QED
  BY InitSound, <1>1, PTL DEF Spec

LEMMA SoundIsClean ==
  ASSUME HistoryInv
  PROVE  CleanIsOnDisk
<1> SUFFICES ASSUME path, ~Dirty
             PROVE  file = {Shown.base} /\ Overlay(Shown) = 0
  BY DEF CleanIsOnDisk
<1>1. PICK i \in DOMAIN versions : versions[i].serial = disk
                                   /\ versions[i].documentSerial = Here.documentSerial
  BY DEF Dirty
<1>2. cursor \in DOMAIN versions
  BY DEF HistoryInv, Lineage, VersionsTyped
<1>3. ValueOf(versions[i].serial) = ValueOf(versions[cursor].serial)
  BY <1>1, <1>2 DEF HistoryInv, Lineage, SharedDocuments, Here
<1>4. ValueOf(disk) = Shown
  BY <1>1, <1>3 DEF Shown, Here
<1> QED
  BY <1>4 DEF HistoryInv, DiskSound

(* A node's history stays well formed: the cursor is on a version whose    *)
(* value is held, every row names a step, and the selection is a point of  *)
(* the version at the cursor (History, AppState::selected_point).          *)
THEOREM HistoryAlwaysTyped == Spec => []TypeOK
<1>1. HistoryInv => TypeOK
  BY DEF HistoryInv, Lineage, VersionsTyped, DiskSound, SelectionLive, TypeOK
<1> QED
  BY AlwaysSound, <1>1, PTL

(* Undo always inverts the very step that made the row it leaves, and two  *)
(* rows share a document half only where they hold the same value, over    *)
(* any pushes, saves and cut redo tails (push_pair, push_bench).           *)
THEOREM AlwaysAChain == Spec => []RowsAreAChain
<1>1. HistoryInv => RowsAreAChain
  BY DEF HistoryInv, Lineage
<1> QED
  BY AlwaysSound, <1>1, PTL

(* enforce_budget only ever takes the oldest values: what redo could ask   *)
(* for stays, and what is held fits unless it is the newest alone.         *)
THEOREM AlwaysWithinBudget == Spec => []BudgetKept
<1>1. HistoryInv => BudgetKept
  BY DEF HistoryInv
<1> QED
  BY AlwaysSound, <1>1, PTL

(* A node with a file that reads as clean shows exactly what its file      *)
(* holds, whatever was undone, redone, saved or failed to save before      *)
(* (is_dirty, DiskSerial after materialize_for_save).                      *)
THEOREM CleanAlwaysOnDisk == Spec => []CleanIsOnDisk
BY AlwaysSound, SoundIsClean, PTL

(* The selected point is never quietly another one: every step that moves  *)
(* the cursor takes the selection through the point maps to the same point *)
(* or to none, except the commits that select what they made               *)
(* (follow_selection_forward, move_cursor).                                *)
THEOREM SelectionAlwaysKept == Spec => SelectionKeepsItsPoint
<1>1. HistoryInv /\ [Next]_vars =>
        [(cursor' # cursor /\ ~(\E i \in Live(Shown) : RewritePoint(i, TRUE)) /\ ~CreatePoint)
           => Selected' \subseteq Selected]_vars
  BY NextKeeps
<1> QED
  BY AlwaysSound, <1>1, PTL DEF Spec, SelectionKeepsItsPoint
-----------------------------------------------------------------------------
(* Following an index: the way from a version back to the first.           *)

Path(s, p) ==
  /\ p \in Seq(Serials) /\ Len(p) \in Nat \ {0} /\ p[1] = s
  /\ \A k \in 1..(Len(p) - 1) : p[k + 1] = steps[p[k]].parent
  /\ steps[p[Len(p)]].parent = 0

LEMMA ParentBelow ==
  ASSUME StepsSound, NEW s \in Serials
  PROVE  /\ s \in Nat /\ Serials = 1..Len(steps) /\ Len(steps) \in Nat
         /\ steps[s].parent \in Nat /\ steps[s].parent < s
         /\ steps[s].parent = 0 => s = 1
         /\ steps[s].parent # 0 => steps[s].parent \in Serials
<1>1. steps \in Seq(Step) /\ Len(steps) \in Nat /\ Serials = 1..Len(steps)
  BY DEF StepsSound, Serials
<1>2. PICK parent : parent = steps[s].parent
  OBVIOUS
<1>3. parent \in 0..(s - 1) /\ (parent = 0 => s = 1)
  BY <1>2 DEF StepsSound
<1>4. s \in Nat /\ parent \in Nat /\ parent < s /\ (parent # 0 => parent \in 1..Len(steps))
  BY <1>1, <1>3
<1> QED
  BY <1>1, <1>2, <1>3, <1>4

LEMMA PathTyped ==
  ASSUME StepsSound, NEW s, NEW p, Path(s, p)
  PROVE  /\ Len(p) \in Nat \ {0} /\ DOMAIN p = 1..Len(p) /\ Range(p) = {p[k] : k \in 1..Len(p)}
         /\ \A k \in 1..Len(p) : p[k] \in Serials /\ p[k] \in Nat
         /\ p[Len(p)] = 1
<1>1. p \in Seq(Serials) /\ Len(p) \in Nat \ {0} /\ DOMAIN p = 1..Len(p)
  BY DEF Path
<1>2. Range(p) = {p[k] : k \in 1..Len(p)}
  BY <1>1 DEF Range
<1>3. ASSUME NEW k \in 1..Len(p) PROVE p[k] \in Serials /\ p[k] \in Nat
  <2>1. p[k] \in Serials
    BY <1>1, ElementOfSeq
  <2> QED
    BY <2>1, ParentBelow
<1>4. p[Len(p)] = 1
  <2>1. Len(p) \in 1..Len(p)
    BY <1>1
  <2> QED
    BY <1>3, <2>1, ParentBelow DEF Path
<1> QED
  BY <1>1, <1>2, <1>3, <1>4

LEMMA PathExtended ==
  ASSUME StepsSound, NEW s \in Serials, NEW q, Path(steps[s].parent, q)
  PROVE  Path(s, <<s>> \o q)
<1>1. PICK p : p = <<s>> \o q
  OBVIOUS
<1>2. PICK n \in Nat \ {0} : n = Len(q) /\ q \in Seq(Serials)
  BY DEF Path
<1>3. /\ p \in Seq(Serials) /\ Len(p) = n + 1 /\ p[1] = s
      /\ \A k \in 1..n : p[k + 1] = q[k]
  <2>1. <<s>> \in Seq(Serials) /\ Len(<<s>>) = 1
    OBVIOUS
  <2>2. p \in Seq(Serials) /\ Len(p) = n + 1
    BY <1>1, <1>2, <2>1
  <2>3. p[1] = s
    BY <1>1, <1>2, <2>1
  <2>4. ASSUME NEW k \in 1..n PROVE p[k + 1] = q[k]
    <3>1. k + 1 \in 1..(n + 1) /\ k + 1 > 1 /\ (k + 1) - 1 = k
      BY <1>2
    <3> QED
      BY <1>1, <1>2, <2>1, <3>1
  <2> QED
    BY <2>2, <2>3, <2>4
<1>4. ASSUME NEW k \in 1..n PROVE p[k + 1] = steps[p[k]].parent
  <2>1. CASE k = 1
    BY <1>2, <1>3, <2>1 DEF Path
  <2>2. CASE k # 1
    <3>1. k - 1 \in 1..(n - 1) /\ k - 1 \in 1..n /\ (k - 1) + 1 = k
      BY <1>2, <2>2
    <3>2. q[(k - 1) + 1] = steps[q[k - 1]].parent
      BY <1>2, <3>1 DEF Path
    <3>3. p[k + 1] = q[k] /\ p[(k - 1) + 1] = q[k - 1]
      BY <1>3, <3>1
    <3> QED
      BY <3>1, <3>2, <3>3
  <2> QED
    BY <2>1, <2>2
<1>5. steps[p[n + 1]].parent = 0
  <2>1. n \in 1..n
    BY <1>2
  <2> QED
    BY <1>2, <1>3, <2>1 DEF Path
<1>6. (n + 1) - 1 = n /\ n + 1 \in Nat \ {0}
  BY <1>2
<1> QED
  BY <1>1, <1>3, <1>4, <1>5, <1>6 DEF Path

Chaining(chain) ==
  chain = [a \in Serials |->
             IF steps[a].parent = 0 THEN <<a>> ELSE <<a>> \o chain[steps[a].parent]]

LEMMA ChainExists ==
  ASSUME StepsSound
  PROVE  \E chain : Chaining(chain)
<1>1. Len(steps) \in Nat /\ Serials = 1..Len(steps)
  BY DEF StepsSound, Serials
<1> DEFINE Leads(chain, n) == chain = [a \in 1..n |->
             IF steps[a].parent = 0 THEN <<a>> ELSE <<a>> \o chain[steps[a].parent]]
           Bad == {n \in 0..Len(steps) : ~\E chain : Leads(chain, n)}
<1>2. ASSUME Bad # {} PROVE FALSE
  <2>1. PICK n \in Bad : \A k \in Bad : n <= k
    <3>1. Bad \subseteq Nat
      OBVIOUS
    <3> QED
      BY <1>2, <3>1, LeastNumber
  <2>2. n \in 0..Len(steps) /\ ~\E chain : Leads(chain, n)
    OBVIOUS
  <2>3. n # 0
    <3> SUFFICES ASSUME n = 0 PROVE FALSE
      OBVIOUS
    <3> DEFINE chain == [a \in 1..0 |-> a]
    <3>1. Leads(chain, 0)
      OBVIOUS
    <3> QED
      BY <2>2, <3>1
  <2>4. n - 1 \in 0..Len(steps) /\ n - 1 \notin Bad /\ n \in Serials /\ n \in Nat
    <3>1. n - 1 \in 0..Len(steps) /\ ~(n <= n - 1) /\ n \in 1..Len(steps) /\ n \in Nat
      BY <1>1, <2>2, <2>3
    <3> HIDE DEF Bad
    <3> QED
      BY <1>1, <2>1, <3>1
  <2>5. PICK before : Leads(before, n - 1)
    BY <2>4
  <2> DEFINE body(f, a) == IF steps[a].parent = 0 THEN <<a>> ELSE <<a>> \o f[steps[a].parent]
             chain == [a \in 1..n |-> IF a = n THEN body(before, n) ELSE before[a]]
  <2>6. ASSUME NEW a \in 1..n PROVE chain[a] = body(chain, a)
    <3>1. a \in Serials /\ a \in Nat
      BY <1>1, <2>4
    <3>2. PICK parent : parent = steps[a].parent
      OBVIOUS
    <3>3. parent \in Nat /\ parent < a
      BY <3>1, <3>2, ParentBelow
    <3>4. parent # 0 => parent \in 1..n /\ parent # n
      BY <2>4, <3>3
    <3>5. parent # 0 => chain[parent] = before[parent]
      BY <3>4
    <3>6. body(chain, a) = body(before, a)
      BY <3>2, <3>5
    <3>7. CASE a = n
      BY <3>6, <3>7
    <3>8. CASE a # n
      <4>1. a \in 1..(n - 1)
        BY <2>4, <3>8
      <4>2. before[a] = body(before, a)
        BY <2>5, <4>1
      <4> QED
        BY <3>6, <3>8, <4>2
    <3> QED
      BY <3>7, <3>8
  <2>7. Leads(chain, n)
    <3>1. chain = [a \in 1..n |-> chain[a]]
      OBVIOUS
    <3> HIDE DEF chain
    <3> QED
      BY <2>6, <3>1
  <2> QED
    BY <2>2, <2>7
<1>3. \E chain : Leads(chain, Len(steps))
  <2>1. Len(steps) \in 0..Len(steps)
    BY <1>1
  <2> QED
    BY <1>2, <2>1
<1> QED
  BY <1>1, <1>3 DEF Chaining

LEMMA AncestryPath ==
  ASSUME StepsSound, NEW s \in Serials
  PROVE  Path(s, Ancestry[s])
<1>1. PICK chain : chain = CHOOSE one : Chaining(one)
  OBVIOUS
<1>2. Chaining(chain)
  BY <1>1, ChainExists
<1>3. Ancestry = [a \in Serials |-> chain[a]]
  <2>1. Ancestry = [a \in Serials |-> (CHOOSE one : Chaining(one))[a]]
    BY Zenon DEF Ancestry, Chaining
  <2> QED
    BY <1>1, <2>1
<1>4. ASSUME NEW a \in Serials
      PROVE  chain[a] = IF steps[a].parent = 0 THEN <<a>> ELSE <<a>> \o chain[steps[a].parent]
  BY <1>2 DEF Chaining
<1> DEFINE Bad == {a \in Serials : ~Path(a, chain[a])}
<1>5. ASSUME Bad # {} PROVE FALSE
  <2>1. PICK a \in Bad : \A b \in Bad : a <= b
    <3>1. Bad \subseteq Nat
      BY ParentBelow
    <3> QED
      BY <1>5, <3>1, LeastNumber
  <2>2. a \in Serials /\ ~Path(a, chain[a]) /\ a \in Nat
    BY ParentBelow
  <2>3. CASE steps[a].parent = 0
    <3>1. PICK p : p = <<a>>
      OBVIOUS
    <3>2. p \in Seq(Serials) /\ Len(p) = 1 /\ p[1] = a /\ chain[a] = p
      BY <1>4, <2>2, <2>3, <3>1
    <3>3. Path(a, p)
      BY <2>3, <3>2 DEF Path
    <3> QED
      BY <2>2, <3>2, <3>3
  <2>4. CASE steps[a].parent # 0
    <3>1. PICK parent : parent = steps[a].parent
      OBVIOUS
    <3>2. parent \in Serials /\ parent \in Nat /\ ~(a <= parent)
      BY <2>2, <2>4, <3>1, ParentBelow
    <3>3. Path(parent, chain[parent])
      BY <2>1, <3>2
    <3>4. chain[a] = <<a>> \o chain[parent]
      BY <1>4, <2>2, <2>4, <3>1
    <3>5. Path(a, <<a>> \o chain[parent])
      BY <2>2, <3>1, <3>3, PathExtended
    <3> QED
      BY <2>2, <3>4, <3>5
  <2> QED
    BY <2>3, <2>4
<1> QED
  BY <1>3, <1>5

(* Serials fall along a path, and two paths that meet go on together.      *)
LEMMA PathDescends ==
  ASSUME StepsSound, NEW s, NEW p, Path(s, p)
  PROVE  \A a, b \in 1..Len(p) : a < b => p[b] < p[a]
<1> DEFINE Bad == {b \in 1..Len(p) : \E a \in 1..Len(p) : a < b /\ ~(p[b] < p[a])}
<1>1. Len(p) \in Nat \ {0} /\ \A k \in 1..Len(p) : p[k] \in Serials /\ p[k] \in Nat
  BY PathTyped
<1>2. ASSUME Bad # {} PROVE FALSE
  <2>1. PICK b \in Bad : \A k \in Bad : b <= k
    <3>1. Bad \subseteq Nat
      BY <1>1
    <3> QED
      BY <1>2, <3>1, LeastNumber
  <2>2. PICK a \in 1..Len(p) : a < b /\ ~(p[b] < p[a])
    OBVIOUS
  <2>3. b \in 1..Len(p) /\ b - 1 \in 1..(Len(p) - 1) /\ b - 1 \in 1..Len(p) /\ (b - 1) + 1 = b
        /\ ~(b <= b - 1)
    BY <1>1, <2>2
  <2>4. p[b] = steps[p[b - 1]].parent
    BY <2>3 DEF Path
  <2>5. p[b] < p[b - 1]
    BY <1>1, <2>3, <2>4, ParentBelow
  <2>6. a = b - 1 \/ a < b - 1
    BY <1>1, <2>2, <2>3
  <2>7. ASSUME a < b - 1 PROVE p[b - 1] < p[a]
    <3>1. b - 1 \notin Bad
      BY <2>1, <2>3
    <3> QED
      BY <2>3, <2>7, <3>1
  <2>8. p[b] \in Nat /\ p[b - 1] \in Nat /\ p[a] \in Nat
    BY <1>1, <2>3
  <2> QED
    BY <2>2, <2>5, <2>6, <2>7, <2>8
<1> QED
  BY <1>2

LEMMA PathsJoin ==
  ASSUME StepsSound, NEW s, NEW p, Path(s, p), NEW t, NEW q, Path(t, q),
         NEW a \in 1..Len(p), NEW b \in 1..Len(q), p[a] = q[b]
  PROVE  \A n \in Nat : a + n <= Len(p) => b + n <= Len(q) /\ p[a + n] = q[b + n]
<1> DEFINE Bad == {n \in Nat : a + n <= Len(p) /\ ~(b + n <= Len(q) /\ p[a + n] = q[b + n])}
<1>1. Len(p) \in Nat \ {0} /\ Len(q) \in Nat \ {0}
  BY PathTyped
<1>2. ASSUME Bad # {} PROVE FALSE
  <2>1. PICK n \in Bad : \A k \in Bad : n <= k
    <3>1. Bad \subseteq Nat
      OBVIOUS
    <3> QED
      BY <1>2, <3>1, LeastNumber
  <2>2. n \in Nat /\ a + n <= Len(p) /\ ~(b + n <= Len(q) /\ p[a + n] = q[b + n])
    OBVIOUS
  <2>3. n # 0
    BY <1>1, <2>2
  <2>4. PICK i, j \in Int : i = a + (n - 1) /\ j = b + (n - 1)
    BY <1>1, <2>2
  <2>5. i \in 1..(Len(p) - 1) /\ i \in 1..Len(p) /\ i + 1 = a + n /\ i + 1 \in 1..Len(p)
        /\ j + 1 = b + n /\ n - 1 \in Nat
        /\ ~(n <= n - 1) /\ a + (n - 1) <= Len(p)
    BY <1>1, <2>2, <2>3, <2>4
  <2>6. j <= Len(q) /\ p[i] = q[j]
    <3>1. n - 1 \notin Bad
      BY <2>1, <2>5
    <3> QED
      BY <2>4, <2>5, <3>1
  <2>7. j \in 1..Len(q) /\ (j # Len(q) => j \in 1..(Len(q) - 1))
    BY <1>1, <2>3, <2>2, <2>4, <2>6
  <2>8. p[i + 1] = steps[p[i]].parent /\ p[i + 1] \in Serials /\ p[i + 1] # 0
    <3>1. p[i + 1] \in Serials
      BY <2>5, PathTyped
    <3>2. 0 \notin Serials
      BY DEF StepsSound, Serials
    <3> QED
      BY <2>5, <3>1, <3>2 DEF Path
  <2>9. j # Len(q)
    BY <2>6, <2>8 DEF Path
  <2>10. q[j + 1] = steps[q[j]].parent
    BY <2>7, <2>9 DEF Path
  <2>11. b + n <= Len(q) /\ p[a + n] = q[b + n]
    BY <1>1, <2>5, <2>6, <2>7, <2>8, <2>9, <2>10
  <2> QED
    BY <2>2, <2>11
<1> QED
  BY <1>2
(* Where the way up from one version first meets the way up from another.  *)
FirstMet(up, down) == SelectInSeq(up, LAMBDA s : s \in Range(down))

Meeting(up, down, m, b) ==
  /\ m \in 1..Len(up) /\ b \in 1..Len(down) /\ up[m] = down[b]
  /\ \A j \in 1..(m - 1) : up[j] \notin Range(down)

LEMMA PathsMeet ==
  ASSUME StepsSound, NEW from, NEW up, Path(from, up), NEW to, NEW down, Path(to, down)
  PROVE  \E b \in 1..Len(down) : Meeting(up, down, FirstMet(up, down), b)
<1> DEFINE both == {k \in 1..Len(up) : up[k] \in Range(down)}
<1>1. /\ Len(up) \in Nat \ {0} /\ Len(down) \in Nat \ {0}
      /\ Range(down) = {down[k] : k \in 1..Len(down)}
      /\ up[Len(up)] = 1 /\ down[Len(down)] = 1
  BY PathTyped
<1>2. Len(up) \in both
  <2>1. Len(down) \in 1..Len(down) /\ Len(up) \in 1..Len(up)
    BY <1>1
  <2> QED
    BY <1>1, <2>1
<1>3. both \subseteq Nat
  OBVIOUS
<1>4. PICK m : m = Min(both)
  OBVIOUS
<1>5. m \in both /\ \A k \in both : m <= k
  BY <1>2, <1>3, <1>4, MinProperties
<1>6. FirstMet(up, down) = m
  BY <1>2, <1>4 DEF FirstMet, SelectInSeq
<1>7. \A j \in 1..(m - 1) : up[j] \notin Range(down)
  <2> SUFFICES ASSUME NEW j \in 1..(m - 1), up[j] \in Range(down) PROVE FALSE
    OBVIOUS
  <2>1. j \in 1..Len(up) /\ ~(m <= j)
    BY <1>1, <1>5
  <2> QED
    BY <1>5, <2>1
<1>8. PICK b \in 1..Len(down) : up[m] = down[b]
  BY <1>1, <1>5
<1>9. Meeting(up, down, m, b)
  BY <1>5, <1>7, <1>8 DEF Meeting
<1> QED
  BY <1>6, <1>9

(* The way an index is taken is the way between the versions.              *)
LEMMA WayBetween ==
  ASSUME StepsSound, NEW from, NEW up, Path(from, up), NEW to, NEW down, Path(to, down),
         NEW m, NEW b, Meeting(up, down, m, b)
  PROVE  (Range(up) \ Range(down)) \cup (Range(down) \ Range(up)) \cup {Max(Range(up) \cap Range(down))}
           = {up[j] : j \in 1..m} \cup {down[j] : j \in 1..b}
<1>1. /\ Len(up) \in Nat \ {0} /\ Len(down) \in Nat \ {0}
      /\ \A k \in 1..Len(up) : up[k] \in Nat
      /\ \A k \in 1..Len(down) : down[k] \in Nat
      /\ Range(up) = {up[k] : k \in 1..Len(up)} /\ Range(down) = {down[k] : k \in 1..Len(down)}
  BY PathTyped
<1>2. /\ m \in 1..Len(up) /\ b \in 1..Len(down) /\ up[m] = down[b]
      /\ \A j \in 1..(m - 1) : up[j] \notin Range(down)
      /\ m \in Nat /\ b \in Nat
  BY <1>1 DEF Meeting
<1>3. ASSUME NEW j \in 1..Len(up), m <= j
      PROVE  up[j] \in Range(down) /\ (j # m => up[j] < up[m])
  <2>1. PICK n \in Nat : n = j - m
    BY <1>1, <1>2, <1>3
  <2>2. m + n = j /\ m + n <= Len(up)
    BY <1>1, <1>2, <2>1
  <2>3. b + n <= Len(down) /\ up[m + n] = down[b + n]
    BY <1>2, <2>2, PathsJoin
  <2>4. b + n \in 1..Len(down)
    BY <1>1, <1>2, <2>3
  <2>5. j # m => m < j
    BY <1>1, <1>2, <1>3
  <2> QED
    BY <1>1, <1>2, <2>2, <2>3, <2>4, <2>5, PathDescends
<1>4. ASSUME NEW j \in 1..Len(down), b <= j
      PROVE  down[j] \in Range(up)
  <2>1. PICK n \in Nat : n = j - b
    BY <1>1, <1>2, <1>4
  <2>2. b + n = j /\ b + n <= Len(down)
    BY <1>1, <1>2, <2>1
  <2>3. m + n <= Len(up) /\ down[b + n] = up[m + n]
    BY <1>2, <2>2, PathsJoin
  <2>4. m + n \in 1..Len(up)
    BY <1>1, <1>2, <2>3
  <2> QED
    BY <1>1, <2>2, <2>3, <2>4
<1>5. ASSUME NEW j \in 1..Len(down), j < b
      PROVE  down[j] \notin Range(up)
  <2> SUFFICES ASSUME NEW l \in 1..Len(up), down[j] = up[l] PROVE FALSE
    BY <1>1
  <2>1. down[b] < down[j]
    BY <1>2, <1>5, PathDescends
  <2>2. CASE l < m
    <3>1. l \in 1..(m - 1)
      BY <1>1, <1>2, <2>2
    <3> QED
      BY <1>1, <1>2, <3>1
  <2>3. CASE ~(l < m)
    <3>1. m <= l
      BY <1>1, <1>2, <2>3
    <3>2. l = m \/ up[l] < up[m]
      BY <1>3, <3>1
    <3> QED
      BY <1>1, <1>2, <2>1, <3>2
  <2> QED
    BY <2>2, <2>3
<1>6. Range(up) \ Range(down) = {up[j] : j \in 1..(m - 1)}
  <2>1. ASSUME NEW s \in Range(up) \ Range(down) PROVE s \in {up[j] : j \in 1..(m - 1)}
    <3>1. PICK j \in 1..Len(up) : s = up[j]
      BY <1>1
    <3>2. ~(m <= j)
      BY <1>3, <3>1
    <3>3. j \in 1..(m - 1)
      BY <1>1, <1>2, <3>2
    <3> QED
      BY <3>1, <3>3
  <2>2. ASSUME NEW j \in 1..(m - 1) PROVE up[j] \in Range(up) \ Range(down)
    <3>1. j \in 1..Len(up)
      BY <1>1, <1>2
    <3> QED
      BY <1>1, <1>2, <3>1
  <2> QED
    BY <2>1, <2>2
<1>7. Range(down) \ Range(up) = {down[j] : j \in 1..(b - 1)}
  <2>1. ASSUME NEW s \in Range(down) \ Range(up) PROVE s \in {down[j] : j \in 1..(b - 1)}
    <3>1. PICK j \in 1..Len(down) : s = down[j]
      BY <1>1
    <3>2. ~(b <= j)
      BY <1>4, <3>1
    <3>3. j \in 1..(b - 1)
      BY <1>1, <1>2, <3>2
    <3> QED
      BY <3>1, <3>3
  <2>2. ASSUME NEW j \in 1..(b - 1) PROVE down[j] \in Range(down) \ Range(up)
    <3>1. j \in 1..Len(down) /\ j < b
      BY <1>1, <1>2
    <3> QED
      BY <1>1, <1>5, <3>1
  <2> QED
    BY <2>1, <2>2
<1>8. Max(Range(up) \cap Range(down)) = up[m]
  <2>1. up[m] \in Range(up) \cap Range(down) /\ up[m] \in Nat
    BY <1>1, <1>2
  <2>2. ASSUME NEW s \in Range(up) \cap Range(down) PROVE up[m] >= s /\ s \in Nat
    <3>1. PICK j \in 1..Len(up) : s = up[j]
      BY <1>1
    <3>2. m <= j
      <4>1. j \notin 1..(m - 1)
        BY <1>2, <3>1
      <4> QED
        BY <1>1, <1>2, <4>1
    <3>3. s = up[m] \/ s < up[m]
      BY <1>3, <3>1, <3>2
    <3>4. s \in Nat
      BY <1>1, <3>1
    <3> QED
      BY <2>1, <3>3, <3>4
  <2>3. PICK common : common = Range(up) \cap Range(down)
    OBVIOUS
  <2>4. \A s \in common : up[m] >= s /\ s \in Nat
    BY <2>2, <2>3
  <2>5. \E x \in common : \A y \in common : x >= y
    BY <2>1, <2>3, <2>4
  <2>6. Max(common) \in common /\ \A y \in common : Max(common) >= y
    BY <2>5 DEF Max
  <2>7. Max(common) = up[m]
    BY <2>1, <2>3, <2>4, <2>6
  <2> QED
    BY <2>3, <2>7
<1>9. {up[j] : j \in 1..m} = {up[j] : j \in 1..(m - 1)} \cup {up[m]}
  <2>1. 1..m = (1..(m - 1)) \cup {m}
    BY <1>2
  <2> QED
    BY <2>1
<1>10. {down[j] : j \in 1..b} = {down[j] : j \in 1..(b - 1)} \cup {down[b]}
  <2>1. 1..b = (1..(b - 1)) \cup {b}
    BY <1>2
  <2> QED
    BY <2>1
<1> QED
  BY <1>2, <1>6, <1>7, <1>8, <1>9, <1>10

(* The index of a point in a value, or none.                               *)
At(v, point) == {k \in Live(v) : v.rows[k] = point}

LEMMA MapExact ==
  ASSUME NEW map, NEW v, NEW w, MapSound(map, v, w), NEW point
  PROVE  /\ \A i \in At(v, point) : MapForward(map, i) = At(w, point)
         /\ \A k \in At(w, point) : MapInverse(map, k) = At(v, point)
<1>1. ASSUME NEW i \in At(v, point) PROVE MapForward(map, i) = At(w, point)
  <2>1. i \in Live(v) /\ v.rows[i] = point
    BY DEF At
  <2>2. \A k \in MapForward(map, i) : k \in Live(w) /\ w.rows[k] = point
    BY <2>1 DEF MapSound
  <2>3. \A k \in Live(w) : w.rows[k] = point => k \in MapForward(map, i)
    BY <2>1 DEF MapSound
  <2> QED
    BY <2>2, <2>3 DEF At
<1>2. ASSUME NEW k \in At(w, point) PROVE MapInverse(map, k) = At(v, point)
  <2>1. k \in Live(w) /\ w.rows[k] = point
    BY DEF At
  <2>2. \A i \in MapInverse(map, k) : i \in Live(v) /\ v.rows[i] = point
    BY <2>1 DEF MapSound
  <2>3. \A i \in Live(v) : v.rows[i] = point => i \in MapInverse(map, k)
    BY <2>1 DEF MapSound
  <2> QED
    BY <2>2, <2>3 DEF At
<1> QED
  BY <1>1, <1>2

(* A walk along such maps ends at the point where it was live all the way, *)
(* and nowhere else.                                                       *)
LeadingTo(way, serials, last, values, point) ==
  \A k \in 1..last : \A i \in At(values[k - 1], point) :
    Through(way, steps[serials[k]].map, i) = At(values[k], point)

AllTheWay(values, last, point) == \A k \in 0..last : At(values[k], point) # {}

LEMMA WalkExact ==
  ASSUME NEW way, NEW serials, NEW index, NEW last \in Nat, NEW values, NEW point,
         index = {} \/ index = At(values[0], point),
         LeadingTo(way, serials, last, values, point),
         NEW at, Walking(way, serials, index, last, at)
  PROVE  at[last] = IF index # {} /\ AllTheWay(values, last, point)
                    THEN At(values[last], point) ELSE {}
<1> DEFINE Exact(k) == at[k] = IF index # {} /\ AllTheWay(values, k, point)
                               THEN At(values[k], point) ELSE {}
           Bad == {k \in 0..last : ~Exact(k)}
<1>1. at[0] = index
  BY DEF Walking
<1>2. ASSUME NEW k \in 1..last
      PROVE  at[k] = UNION {Through(way, steps[serials[k]].map, i) : i \in at[k - 1]}
  <2>1. k \in 0..last /\ k # 0
    OBVIOUS
  <2> QED
    BY <2>1 DEF Walking
<1>3. ASSUME Bad # {} PROVE FALSE
  <2>1. PICK n \in Bad : \A k \in Bad : n <= k
    <3>1. Bad \subseteq Nat
      OBVIOUS
    <3> QED
      BY <1>3, <3>1, LeastNumber
  <2>2. n \in 0..last /\ ~Exact(n)
    OBVIOUS
  <2>3. n # 0
    <3> SUFFICES ASSUME n = 0 PROVE FALSE
      OBVIOUS
    <3>1. AllTheWay(values, 0, point) <=> At(values[0], point) # {}
      <4>1. 0..0 = {0}
        OBVIOUS
      <4> QED
        BY <4>1 DEF AllTheWay
    <3>2. Exact(0)
      BY <1>1, <3>1
    <3> QED
      BY <2>2, <3>2
  <2>4. n \in 1..last /\ n - 1 \in 0..last /\ ~(n <= n - 1) /\ n \in Nat
    BY <2>2, <2>3
  <2>5. Exact(n - 1)
    BY <2>1, <2>4
  <2>6. AllTheWay(values, n, point) <=>
          AllTheWay(values, n - 1, point) /\ At(values[n], point) # {}
    <3>1. 0..n = (0..(n - 1)) \cup {n}
      BY <2>4
    <3> QED
      BY <3>1 DEF AllTheWay
  <2>7. CASE index # {} /\ AllTheWay(values, n - 1, point)
    <3>1. at[n - 1] = At(values[n - 1], point)
      BY <2>5, <2>7
    <3>2. At(values[n - 1], point) # {}
      <4>1. n - 1 \in 0..(n - 1)
        BY <2>4
      <4> QED
        BY <2>7, <4>1 DEF AllTheWay
    <3>3. \A i \in at[n - 1] : Through(way, steps[serials[n]].map, i) = At(values[n], point)
      BY <2>4, <3>1 DEF LeadingTo
    <3>4. at[n] = At(values[n], point)
      <4>1. at[n] = UNION {Through(way, steps[serials[n]].map, i) : i \in at[n - 1]}
        BY <1>2, <2>4
      <4>2. PICK there, from : there = At(values[n], point) /\ from = at[n - 1]
        OBVIOUS
      <4>3. from # {} /\ \A i \in from : Through(way, steps[serials[n]].map, i) = there
        BY <3>1, <3>2, <3>3, <4>2
      <4>4. at[n] = UNION {Through(way, steps[serials[n]].map, i) : i \in from}
        BY <4>1, <4>2
      <4>5. at[n] = there
        BY <4>3, <4>4
      <4> QED
        BY <4>2, <4>5
    <3>5. Exact(n)
      BY <2>6, <2>7, <3>4
    <3> QED
      BY <2>2, <3>5
  <2>8. CASE ~(index # {} /\ AllTheWay(values, n - 1, point))
    <3>1. at[n - 1] = {}
      BY <2>5, <2>8
    <3>2. at[n] = {}
      BY <1>2, <2>4, <3>1
    <3>3. Exact(n)
      BY <2>6, <2>8, <3>2
    <3> QED
      BY <2>2, <3>3
  <2> QED
    BY <2>7, <2>8
<1>4. last \in 0..last
  OBVIOUS
<1> QED
  BY <1>3, <1>4
(* The two legs of follow.                                                 *)
LEMMA FollowedBack ==
  ASSUME StepsSound, NEW from, NEW up, Path(from, up), NEW m \in 1..Len(up),
         NEW point, NEW index, index = At(ValueOf(from), point)
  PROVE  BackThrough(SubSeq(up, 1, m - 1), index)
           = IF index # {} /\ \A j \in 1..m : At(ValueOf(up[j]), point) # {}
             THEN At(ValueOf(up[m]), point) ELSE {}
<1>1. Len(up) \in Nat \ {0} /\ m \in Nat /\ up \in Seq(Serials)
      /\ \A k \in 1..Len(up) : up[k] \in Serials
  BY PathTyped DEF Path
<1>2. PICK last \in Nat : last = m - 1
  BY <1>1
<1>3. PICK serials : serials = SubSeq(up, 1, m - 1)
  OBVIOUS
<1>4. last = Len(serials) /\ \A k \in 1..last : serials[k] = up[k]
  BY <1>1, <1>2, <1>3
<1>5. PICK walk : Walking("back", serials, index, last, walk)
                  /\ BackThrough(serials, index) = walk[last]
  BY <1>4, BackWalk
<1> DEFINE value(k) == ValueOf(up[k + 1])
<1>6. PICK values : values = [k \in 0..last |-> value(k)]
  OBVIOUS
<1>7. values[0] = ValueOf(from) /\ values[last] = ValueOf(up[m])
  <2>1. 0 \in 0..last /\ last \in 0..last /\ 0 + 1 = 1 /\ last + 1 = m
    BY <1>1, <1>2
  <2> QED
    BY <1>6, <2>1 DEF Path
<1>8. ASSUME NEW k \in 1..last, NEW i \in At(values[k - 1], point)
      PROVE  Through("back", steps[serials[k]].map, i) = At(values[k], point)
  <2>1. /\ k \in 1..(Len(up) - 1) /\ k \in 1..Len(up) /\ k + 1 \in 1..Len(up)
        /\ k \in 0..last /\ k - 1 \in 0..last /\ (k - 1) + 1 = k
    BY <1>1, <1>2
  <2>2. values[k - 1] = ValueOf(up[k]) /\ values[k] = ValueOf(up[k + 1])
    BY <1>6, <2>1
  <2>3. up[k + 1] = steps[up[k]].parent /\ up[k] \in Serials /\ up[k + 1] \in Serials
    BY <1>1, <2>1 DEF Path
  <2>4. up[k + 1] # 0
    BY <2>3 DEF StepsSound, Serials
  <2>5. MapSound(steps[up[k]].map, values[k], values[k - 1])
    BY <2>2, <2>3, <2>4 DEF StepsSound
  <2>6. MapInverse(steps[up[k]].map, i) = At(values[k], point)
    BY <1>8, <2>5, MapExact
  <2> QED
    BY <1>4, <2>6 DEF Through
<1>9. walk[last] = IF index # {} /\ AllTheWay(values, last, point)
                   THEN At(values[last], point) ELSE {}
  <2>1. LeadingTo("back", serials, last, values, point)
    BY <1>8 DEF LeadingTo
  <2>2. index = At(values[0], point)
    BY <1>7
  <2> QED
    BY <1>5, <2>1, <2>2, WalkExact
<1>10. AllTheWay(values, last, point) <=> \A j \in 1..m : At(ValueOf(up[j]), point) # {}
  <2>1. ASSUME AllTheWay(values, last, point), NEW j \in 1..m
        PROVE  At(ValueOf(up[j]), point) # {}
    <3>1. j - 1 \in 0..last /\ (j - 1) + 1 = j
      BY <1>1, <1>2
    <3>2. values[j - 1] = ValueOf(up[j])
      BY <1>6, <3>1
    <3> QED
      BY <2>1, <3>1, <3>2 DEF AllTheWay
  <2>2. ASSUME \A j \in 1..m : At(ValueOf(up[j]), point) # {}, NEW k \in 0..last
        PROVE  At(values[k], point) # {}
    <3>1. k + 1 \in 1..m
      BY <1>1, <1>2
    <3> QED
      BY <1>6, <2>2, <3>1
  <2> QED
    BY <2>1, <2>2 DEF AllTheWay
<1> QED
  BY <1>3, <1>5, <1>7, <1>9, <1>10

TurnedBack(serials, down, b) ==
  Len(serials) = b - 1 /\ \A k \in 1..(b - 1) : serials[k] = down[b - k]

LEMMA BeforeMeeting ==
  ASSUME StepsSound, NEW to, NEW down, Path(to, down), NEW b \in 1..Len(down),
         NEW serials, serials = Reverse(Before(down, down[b]))
  PROVE  TurnedBack(serials, down, b)
<1>1. Len(down) \in Nat \ {0} /\ b \in Nat /\ down \in Seq(Serials)
      /\ \A k \in 1..Len(down) : down[k] \in Nat
  BY PathTyped DEF Path
<1>2. PICK n \in Nat : n = b - 1
  BY <1>1
<1>3. \A k \in 0..(Len(down) - 1) : down[k + 1] = down[b] <=> k = n
  <2> SUFFICES ASSUME NEW k \in 0..(Len(down) - 1) PROVE down[k + 1] = down[b] <=> k = n
    OBVIOUS
  <2>1. k + 1 \in 1..Len(down) /\ (k + 1 = b <=> k = n)
    BY <1>1, <1>2
  <2>2. k + 1 < b \/ k + 1 = b \/ b < k + 1
    BY <1>1, <2>1
  <2>3. down[k + 1] \in Nat /\ down[b] \in Nat
    BY <1>1, <2>1
  <2> QED
    BY <2>1, <2>2, <2>3, PathDescends
<1>4. n \in 0..(Len(down) - 1)
  BY <1>1, <1>2
<1>5. PICK before : before = Before(down, down[b])
  OBVIOUS
<1>6. before = SubSeq(down, 1, n)
  <2>1. (CHOOSE k \in 0..(Len(down) - 1) : down[k + 1] = down[b]) = n
    BY <1>3, <1>4
  <2> QED
    BY <1>5, <2>1 DEF Before
<1>7. before \in Seq(Serials) /\ Len(before) = n /\ \A k \in 1..n : before[k] = down[k]
  BY <1>1, <1>4, <1>6
<1>8. serials = Reverse(before)
  BY <1>5
<1>9. serials = [k \in 1..n |-> before[(n - k) + 1]]
  BY <1>7, <1>8 DEF Reverse
<1>10. \A k \in 1..n : (n - k) + 1 \in 1..n /\ (n - k) + 1 = b - k
  BY <1>1, <1>2
<1>11. Len(serials) = n
  <2>1. \A k \in 1..n : before[(n - k) + 1] \in Serials
    BY <1>7, <1>10, ElementOfSeq
  <2>2. serials \in [1..n -> Serials]
    BY <1>9, <2>1
  <2>3. serials \in Seq(Serials)
    BY <2>2
  <2> QED
    BY <2>2, <2>3
<1>12. \A k \in 1..n : serials[k] = down[b - k]
  BY <1>7, <1>9, <1>10
<1> QED
  BY <1>2, <1>11, <1>12 DEF TurnedBack

LEMMA FollowedForward ==
  ASSUME StepsSound, NEW to, NEW down, Path(to, down), NEW b \in 1..Len(down),
         NEW point, NEW index, index = {} \/ index = At(ValueOf(down[b]), point)
  PROVE  ForwardThrough(Reverse(Before(down, down[b])), index)
           = IF index # {} /\ \A j \in 1..b : At(ValueOf(down[j]), point) # {}
             THEN At(ValueOf(to), point) ELSE {}
<1>1. Len(down) \in Nat \ {0} /\ b \in Nat /\ \A k \in 1..Len(down) : down[k] \in Serials
  BY PathTyped DEF Path
<1>2. PICK last \in Nat : last = b - 1
  BY <1>1
<1>3. PICK serials : serials = Reverse(Before(down, down[b]))
  OBVIOUS
<1>4. last = Len(serials) /\ \A k \in 1..last : serials[k] = down[b - k]
  <2>1. TurnedBack(serials, down, b)
    BY <1>3, BeforeMeeting
  <2> QED
    BY <1>2, <2>1 DEF TurnedBack
<1>5. PICK walk : Walking("forward", serials, index, last, walk)
                  /\ ForwardThrough(serials, index) = walk[last]
  BY <1>4, ForwardWalk
<1> DEFINE value(k) == ValueOf(down[b - k])
<1>6. PICK values : values = [k \in 0..last |-> value(k)]
  OBVIOUS
<1>7. values[0] = ValueOf(down[b]) /\ values[last] = ValueOf(to)
  <2>1. 0 \in 0..last /\ last \in 0..last /\ b - 0 = b /\ b - last = 1
    BY <1>1, <1>2
  <2> QED
    BY <1>6, <2>1 DEF Path
<1>8. ASSUME NEW k \in 1..last, NEW i \in At(values[k - 1], point)
      PROVE  Through("forward", steps[serials[k]].map, i) = At(values[k], point)
  <2>1. PICK j \in 1..(Len(down) - 1) : j = b - k
    BY <1>1, <1>2
  <2>2. /\ j \in 1..Len(down) /\ j + 1 \in 1..Len(down) /\ b - (k - 1) = j + 1
        /\ k \in 0..last /\ k - 1 \in 0..last
    BY <1>1, <1>2, <2>1
  <2>3. values[k - 1] = ValueOf(down[j + 1]) /\ values[k] = ValueOf(down[j])
    BY <1>6, <2>1, <2>2
  <2>4. down[j + 1] = steps[down[j]].parent /\ down[j] \in Serials /\ down[j + 1] \in Serials
    BY <1>1, <2>2 DEF Path
  <2>5. down[j + 1] # 0
    BY <2>4 DEF StepsSound, Serials
  <2>6. MapSound(steps[down[j]].map, values[k - 1], values[k])
    BY <2>3, <2>4, <2>5 DEF StepsSound
  <2>7. MapForward(steps[down[j]].map, i) = At(values[k], point)
    BY <1>8, <2>6, MapExact
  <2> QED
    BY <1>4, <2>1, <2>7 DEF Through
<1>9. walk[last] = IF index # {} /\ AllTheWay(values, last, point)
                   THEN At(values[last], point) ELSE {}
  <2>1. LeadingTo("forward", serials, last, values, point)
    BY <1>8 DEF LeadingTo
  <2>2. index = {} \/ index = At(values[0], point)
    BY <1>7
  <2> QED
    BY <1>5, <2>1, <2>2, WalkExact
<1>10. AllTheWay(values, last, point) <=> \A j \in 1..b : At(ValueOf(down[j]), point) # {}
  <2>1. ASSUME AllTheWay(values, last, point), NEW j \in 1..b
        PROVE  At(ValueOf(down[j]), point) # {}
    <3>1. b - j \in 0..last /\ b - (b - j) = j
      BY <1>1, <1>2
    <3>2. values[b - j] = ValueOf(down[j])
      BY <1>6, <3>1
    <3> QED
      BY <2>1, <3>1, <3>2 DEF AllTheWay
  <2>2. ASSUME \A j \in 1..b : At(ValueOf(down[j]), point) # {}, NEW k \in 0..last
        PROVE  At(values[k], point) # {}
    <3>1. b - k \in 1..b
      BY <1>1, <1>2
    <3> QED
      BY <1>6, <2>2, <3>1
  <2> QED
    BY <2>1, <2>2 DEF AllTheWay
<1> QED
  BY <1>3, <1>5, <1>7, <1>9, <1>10

LEMMA FollowExact ==
  ASSUME HistoryInv, NEW from \in Serials, NEW to \in Serials, NEW i \in Live(ValueOf(from)),
         NEW point, point = ValueOf(from).rows[i]
  PROVE  Follow(from, to, i) =
           IF \A s \in OnTheWay(from, to) : point \in PointsOf(s)
           THEN {k \in Live(ValueOf(to)) : ValueOf(to).rows[k] = point}
           ELSE {}
<1>1. StepsSound
  BY DEF HistoryInv, Lineage
<1>2. PICK up, down : up = Ancestry[from] /\ down = Ancestry[to]
  OBVIOUS
<1>3. Path(from, up) /\ Path(to, down)
  BY <1>1, <1>2, AncestryPath
<1>4. PICK m : m = FirstMet(up, down)
  OBVIOUS
<1>5. PICK b \in 1..Len(down) : Meeting(up, down, m, b)
  BY <1>1, <1>3, <1>4, PathsMeet
<1>6. m \in 1..Len(up) /\ b \in 1..Len(down) /\ up[m] = down[b]
  BY <1>5 DEF Meeting
<1>7. PICK index : index = {i}
  OBVIOUS
<1>8. index = At(ValueOf(from), point) /\ index # {}
  <2>1. GoodValue(ValueOf(from), from)
    BY <1>1 DEF StepsSound
  <2> QED
    BY <1>7, <2>1 DEF At, GoodValue
<1>9. PICK there : there = BackThrough(SubSeq(up, 1, m - 1), index)
  OBVIOUS
<1>10. there = IF \A j \in 1..m : At(ValueOf(up[j]), point) # {}
               THEN At(ValueOf(up[m]), point) ELSE {}
  <2>1. BackThrough(SubSeq(up, 1, m - 1), index)
          = IF index # {} /\ \A j \in 1..m : At(ValueOf(up[j]), point) # {}
            THEN At(ValueOf(up[m]), point) ELSE {}
    BY <1>1, <1>3, <1>6, <1>8, FollowedBack
  <2> QED
    BY <1>8, <1>9, <2>1
<1>11. Follow(from, to, i) = ForwardThrough(Reverse(Before(down, down[b])), there)
  BY <1>2, <1>4, <1>6, <1>7, <1>9 DEF Follow, FirstMet, SelectInSeq
<1>12. ForwardThrough(Reverse(Before(down, down[b])), there)
         = IF there # {} /\ \A j \in 1..b : At(ValueOf(down[j]), point) # {}
           THEN At(ValueOf(to), point) ELSE {}
  <2>1. there = {} \/ there = At(ValueOf(down[b]), point)
    BY <1>6, <1>10
  <2> QED
    BY <1>1, <1>3, <2>1, FollowedForward
<1>13. there # {} <=> \A j \in 1..m : At(ValueOf(up[j]), point) # {}
  <2>1. m \in 1..m
    BY <1>1, <1>3, <1>6, PathTyped
  <2> QED
    BY <1>10, <2>1
<1>14. OnTheWay(from, to) = {up[j] : j \in 1..m} \cup {down[j] : j \in 1..b}
  BY <1>1, <1>2, <1>3, <1>5, WayBetween DEF OnTheWay
<1>15. \A s : point \in PointsOf(s) <=> At(ValueOf(s), point) # {}
  BY DEF PointsOf, At
<1>16. (\A s \in OnTheWay(from, to) : point \in PointsOf(s))
         <=> there # {} /\ \A j \in 1..b : At(ValueOf(down[j]), point) # {}
  BY <1>13, <1>14, <1>15
<1>17. Follow(from, to, i) = IF \A s \in OnTheWay(from, to) : point \in PointsOf(s)
                             THEN At(ValueOf(to), point) ELSE {}
  BY <1>11, <1>12, <1>16
<1> QED
  BY <1>17 DEF At

(* A copied index is never quietly another point: wherever two versions are*)
(* in the tree of steps, also ones a push truncated or the budget released,*)
(* follow leads to the same point, and to nothing exactly when some version*)
(* on the way does not have it (History::follow, ancestry).                *)
THEOREM FollowAlwaysAgrees == Spec => []FollowAgrees
<1>1. HistoryInv => FollowAgrees
  BY FollowExact DEF FollowAgrees
<1> QED
  BY AlwaysSound, <1>1, PTL

=============================================================================
