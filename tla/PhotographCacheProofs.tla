------------------------ MODULE PhotographCacheProofs ------------------------
(***************************************************************************)
(* What PhotographCache promises for any number of threads, photographs,   *)
(* calls and changes of the files, and any budget.                         *)
(*                                                                         *)
(* A slot is made under the stamp of a version the file had by then, and   *)
(* is only written with a later version of the file, or with pixels given  *)
(* under that stamp (SlotsFresh); a thread holds the slot it was given     *)
(* until its call ends, in the map or not (SlotsHeld).  So an answer is    *)
(* not older than the first version with the stamp its call found.         *)
(* A panel's decodes are one to a path (PanelsAskOnce).                    *)
(*                                                                         *)
(* A slot is counted by one call at most (CountedOnce), and while it is in *)
(* the map what it was counted for is in the sum.  What was counted was    *)
(* touched before, so eviction can find it (Reachable).  The sum is a fold *)
(* over a set: SumsExist makes one that does not depend on the order, and  *)
(* FoldSums shows that the fold is it.                                     *)
(***************************************************************************)
EXTENDS PhotographCache, FiniteSetTheorems, SequenceTheorems, WellFoundedInduction, TLAPS

(* A slot that a call was given is its own until the call ends.            *)
Given == {"touch", "init", "decode", "charge"}

(* The calls in which a thread has something to answer with.               *)
HasValue(c) == c.at \in {"place", "charge", "end"} \/ c.kind = "insert"

SlotsTyped(all) == all \in [DOMAIN all -> Slot] /\ DOMAIN all \subseteq SlotIds

(* A file at this version has had the stamp.                               *)
HasHad(version, stamp) == \E v \in Versions : v <= version /\ Stamp(v) = stamp

SlotFresh(slot) ==
  /\ HasHad(file[slot.path], slot.stamp)
  /\ slot.value = NoValue \/ Fresh(slot.value, slot.stamp)

SlotsFresh(all) == \A s \in DOMAIN all : SlotFresh(all[s])

SlotsHeld(all, table, calls) ==
  /\ \A p \in Paths : table[p] # NoSlot => table[p] \in DOMAIN all /\ all[table[p]].path = p
  /\ \A t \in Threads : calls[t].slot # NoSlot => calls[t].slot \in DOMAIN all

CallGood(c, all) ==
  c # Idle =>
    /\ HasHad(file[c.path], c.stamp)
    /\ HasValue(c) => c.value \in Pixels /\ Fresh(c.value, c.stamp)
    /\ c.at \in Given =>
         c.slot # NoSlot /\ all[c.slot].stamp = c.stamp /\ all[c.slot].path = c.path
    /\ c.at \in {"lookup", "repaint"} => c.slot = NoSlot

(* No slot outlives its holders.                                           *)
NoneLeftOver(all, table, calls) ==
  \A s \in DOMAIN all : (\E p \in Paths : table[p] = s) \/ (\E t \in Threads : calls[t].slot = s)

StateTyped ==
  /\ file \in [Paths -> Versions]
  /\ map \in [Paths -> SlotIds \cup {NoSlot}]
  /\ call \in [Threads -> Call \cup {Idle}]
  /\ under = [t \in Threads |-> <<>>]

CacheInv ==
  /\ StateTyped
  /\ SlotsTyped(slots) /\ SlotsFresh(slots)
  /\ SlotsHeld(slots, map, call)
  /\ NoneLeftOver(slots, map, call)
  /\ \A t \in Threads : CallGood(call[t], slots)

-----------------------------------------------------------------------------
(* Slots.                                                                  *)

LEMMA Constants ==
  /\ IsFiniteSet(Threads) /\ IsFiniteSet(Paths) /\ Shown \subseteq Paths
  /\ SizeOf \in [Paths -> [Pixels -> Nat \ {0}]] /\ MaxVersion \in Nat /\ First \in [Paths -> Versions]
  /\ NoSlot \notin SlotIds /\ NoSlot = 0 /\ NoValue \notin Pixels
  BY CacheAssumption DEF Versions, SlotIds, NoSlot, NoValue, Pixels

LEMMA LeastNumber ==
  ASSUME NEW S, S \subseteq Nat, S # {}
  PROVE  \E m \in S : \A n \in S : m <= n
<1> DEFINE R == OpToRel(<, Nat)
<1>1. PICK m \in S : \A n \in S : <<n, m>> \notin R
  <2> HIDE DEF R
  <2>1. IsWellFoundedOn(R, Nat)
    BY NatLessThanWellFounded DEF R
  <2> QED
    BY <2>1, WFMin
<1>2. \A n \in S : ~(n < m)
  BY <1>1 DEF OpToRel
<1> QED
  BY <1>2

(* The first version with a stamp is not later than any other with it.     *)
LEMMA OldestIsFirst ==
  ASSUME NEW v \in Versions
  PROVE  Oldest(Stamp(v)) \in Versions /\ Oldest(Stamp(v)) <= v
<1> DEFINE same == {w \in Versions : Stamp(w) = Stamp(v)}
<1>1. same \subseteq Nat /\ v \in same
  BY Constants DEF Versions
<1>2. PICK m \in same : \A n \in same : m <= n
  <2> HIDE DEF same
  <2> QED
    BY <1>1, LeastNumber
<1>3. \E x \in Versions : Stamp(x) = Stamp(v) /\ \A w \in Versions : Stamp(w) = Stamp(v) => x <= w
  BY <1>2
<1>4. PICK stamp : stamp = Stamp(v)
  OBVIOUS
<1>5. Oldest(stamp) \in Versions /\ \A w \in Versions : Stamp(w) = stamp => Oldest(stamp) <= w
  BY <1>3, <1>4 DEF Oldest
<1> QED
  BY <1>4, <1>5

LEMMA StampTyped ==
  ASSUME NEW version \in Versions
  PROVE  Stamp(version) \in Stamps /\ HasHad(version, Stamp(version))
  BY CacheAssumption, Constants DEF Stamp, Versions, HasHad

LEMMA HadStays ==
  ASSUME NEW version \in Versions, NEW later \in Versions, version <= later,
         NEW stamp, HasHad(version, stamp)
  PROVE  HasHad(later, stamp)
  BY Constants DEF HasHad, Versions

(* What is decoded now is fresh for every stamp the file has had, and what *)
(* is given now for the stamp it has.                                      *)
LEMMA NowIsFresh ==
  ASSUME NEW version \in Versions
  PROVE  /\ \A stamp : HasHad(version, stamp) => Fresh([given |-> FALSE, version |-> version], stamp)
         /\ Fresh([given |-> TRUE, version |-> version], Stamp(version))
<1>1. ASSUME NEW stamp, HasHad(version, stamp) PROVE version >= Oldest(stamp)
  <2>1. PICK v \in Versions : v <= version /\ Stamp(v) = stamp
    BY <1>1 DEF HasHad
  <2>2. Oldest(stamp) \in Versions /\ Oldest(stamp) <= v
    BY <2>1, OldestIsFirst
  <2> QED
    BY <2>1, <2>2, Constants DEF Versions
<1> QED
  BY <1>1 DEF Fresh

(* There is always an identity that no slot has.                           *)
LEMMA SlotsToSpare ==
  ASSUME CacheInv
  PROVE  NewId \in SlotIds /\ NewId \notin DOMAIN slots /\ NewId # NoSlot
<1> DEFINE inMap == {map[p] : p \in Paths}
           atWork == {call[t].slot : t \in Threads}
<1>1. IsFiniteSet(inMap) /\ Cardinality(inMap) <= Cardinality(Paths)
  <2>1. map \in Surjection(Paths, inMap)
    BY DEF CacheInv, StateTyped, Surjection
  <2> QED
    BY <2>1, Constants, FS_Surjection DEF ExistsSurjection
<1>2. IsFiniteSet(atWork) /\ Cardinality(atWork) <= Cardinality(Threads)
  <2> DEFINE slotOf == [t \in Threads |-> call[t].slot]
  <2>1. slotOf \in Surjection(Threads, atWork)
    BY DEF Surjection
  <2> QED
    BY <2>1, Constants, FS_Surjection DEF ExistsSurjection
<1> HIDE DEF inMap, atWork
<1>3. IsFiniteSet(inMap \cup atWork)
        /\ Cardinality(inMap \cup atWork) <= Cardinality(Paths) + Cardinality(Threads)
  <2>1. /\ IsFiniteSet(inMap \cup atWork)
        /\ Cardinality(inMap \cup atWork)
             = Cardinality(inMap) + Cardinality(atWork) - Cardinality(inMap \cap atWork)
    BY <1>1, <1>2, FS_Union
  <2>2. Cardinality(inMap \cap atWork) \in Nat
    BY <1>1, FS_Intersection, FS_CardinalityType
  <2> QED
    BY <1>1, <1>2, <2>1, <2>2, Constants, FS_CardinalityType
<1>4. Cardinality(SlotIds) = Cardinality(Paths) + Cardinality(Threads) + 1
  BY Constants, FS_CardinalityType, FS_Interval DEF SlotIds
<1>5. ~(SlotIds \subseteq inMap \cup atWork)
  BY <1>3, <1>4, Constants, FS_Subset, FS_CardinalityType
<1>6. DOMAIN slots \subseteq inMap \cup atWork
  BY DEF CacheInv, NoneLeftOver, inMap, atWork
<1>7. \E s \in SlotIds : s \notin DOMAIN slots
  BY <1>5, <1>6
<1> QED
  BY <1>7, Constants DEF NewId

LEMMA AliveIs ==
  ASSUME NEW table \in [Paths -> SlotIds \cup {NoSlot}], NEW calls \in [Threads -> Call \cup {Idle}],
         NEW stacks, stacks = [t \in Threads |-> <<>>], NEW s
  PROVE  s \in Alive(table, calls, stacks) <=>
           /\ s # NoSlot
           /\ (\E p \in Paths : table[p] = s) \/ (\E t \in Threads : calls[t].slot = s)
<1>1. \A t \in Threads : Range(stacks[t]) = {}
  BY DEF Range
<1>2. UNION {HeldBy(c) : c \in UNION {Range(stacks[t]) : t \in Threads}} = {}
  BY <1>1
<1>3. s \in UNION {HeldBy(calls[t]) : t \in Threads} <=> s # NoSlot /\ \E t \in Threads : calls[t].slot = s
  BY DEF HeldBy
<1>4. s \in Range(table) <=> \E p \in Paths : table[p] = s
  BY DEF Range
<1> QED
  BY <1>2, <1>3, <1>4 DEF Alive, Held

(* What is dropped when nobody holds it is missed by nobody.               *)
LEMMA KeepKeeps ==
  ASSUME StateTyped', file' = file, NEW all, Keep(all), SlotsTyped(all), SlotsFresh(all),
         SlotsHeld(all, map', call'), \A t \in Threads : CallGood(call'[t], all)
  PROVE  CacheInv'
<1>1. /\ \A s : s \in DOMAIN slots' <=> s \in DOMAIN all /\ s \in Alive(map', call', under')
      /\ \A s \in DOMAIN slots' : slots'[s] = all[s]
      /\ slots' = [s \in DOMAIN slots' |-> all[s]]
  BY DEF Keep
<1>2. \A s : s \in Alive(map', call', under') <=>
        /\ s # NoSlot
        /\ (\E p \in Paths : map'[p] = s) \/ (\E t \in Threads : call'[t].slot = s)
  BY AliveIs DEF StateTyped
<1>3. SlotsTyped(slots)'
  BY <1>1 DEF SlotsTyped
<1>4. SlotsFresh(slots)'
  BY <1>1 DEF SlotsFresh, SlotFresh
<1>5. NoneLeftOver(slots, map, call)'
  BY <1>1, <1>2 DEF NoneLeftOver
<1>6. SlotsHeld(slots, map, call)'
  BY <1>1, <1>2 DEF SlotsHeld
<1>7. ASSUME NEW t \in Threads PROVE CallGood(call[t], slots)'
  <2>1. PICK c : c = call'[t]
    OBVIOUS
  <2>2. c.slot # NoSlot => c.slot \in DOMAIN slots'
    BY <1>6, <2>1 DEF SlotsHeld
  <2>3. c.slot # NoSlot => slots'[c.slot] = all[c.slot]
    BY <1>1, <2>2
  <2>4. CallGood(c, all)
    BY <2>1
  <2> QED
    BY <2>1, <2>3, <2>4 DEF CallGood
<1> QED
  BY <1>3, <1>4, <1>5, <1>6, <1>7 DEF CacheInv

-----------------------------------------------------------------------------
(* A thread's call.                                                        *)

(* The call a thread goes on with: where it is, its slot and its value.    *)
MovesTo(c, d, at, slot, value) ==
  /\ d \in Call /\ d # Idle
  /\ d.kind = c.kind /\ d.path = c.path /\ d.stamp = c.stamp
  /\ d.at = at /\ d.slot = slot /\ d.value = value

LEMMA AtWritten ==
  ASSUME StateTyped, NEW t \in Threads, call[t] \in Call, NEW at \in Places,
         call' = [call EXCEPT ![t].at = at]
  PROVE  \E d : call' = [call EXCEPT ![t] = d] /\ MovesTo(call[t], d, at, call[t].slot, call[t].value)
<1>1. PICK c \in Call : c = call[t]
  OBVIOUS
<1>2. MovesTo(c, [c EXCEPT !.at = at], at, c.slot, c.value)
  BY DEF MovesTo, Call, Idle, Places
<1>3. call' = [call EXCEPT ![t] = [c EXCEPT !.at = at]]
  BY <1>1
<1> QED
  BY <1>1, <1>2, <1>3

LEMMA SlotWritten ==
  ASSUME StateTyped, NEW t \in Threads, call[t] \in Call, NEW at \in Places,
         NEW slot \in SlotIds \cup {NoSlot},
         call' = [call EXCEPT ![t].at = at, ![t].slot = slot]
  PROVE  \E d : call' = [call EXCEPT ![t] = d] /\ MovesTo(call[t], d, at, slot, call[t].value)
<1>1. PICK c \in Call : c = call[t]
  OBVIOUS
<1>2. MovesTo(c, [c EXCEPT !.at = at, !.slot = slot], at, slot, c.value)
  BY DEF MovesTo, Call, Idle, Places
<1>3. call' = [call EXCEPT ![t] = [c EXCEPT !.at = at, !.slot = slot]]
  BY <1>1 DEF StateTyped
<1> QED
  BY <1>1, <1>2, <1>3

LEMMA ValueWritten ==
  ASSUME StateTyped, NEW t \in Threads, call[t] \in Call, NEW at \in Places,
         NEW value \in Pixels \cup {NoValue},
         \/ call' = [call EXCEPT ![t].at = at, ![t].value = value]
         \/ call' = [call EXCEPT ![t].value = value, ![t].at = at]
  PROVE  \E d : call' = [call EXCEPT ![t] = d] /\ MovesTo(call[t], d, at, call[t].slot, value)
<1>1. PICK c \in Call : c = call[t]
  OBVIOUS
<1>2. MovesTo(c, [c EXCEPT !.at = at, !.value = value], at, c.slot, value)
  BY DEF MovesTo, Call, Idle, Places
<1>3. [c EXCEPT !.value = value, !.at = at] = [c EXCEPT !.at = at, !.value = value]
  BY DEF Call
<1>4. call' = [call EXCEPT ![t] = [c EXCEPT !.at = at, !.value = value]]
  BY <1>1, <1>3 DEF StateTyped
<1> QED
  BY <1>1, <1>2, <1>4

LEMMA AtWork ==
  ASSUME StateTyped, NEW t \in Threads, call[t].at \in Places
  PROVE  /\ call[t] \in Call /\ call[t] # Idle /\ call[t].path \in Paths
         /\ call[t].stamp \in Stamps /\ call[t].slot \in SlotIds \cup {NoSlot}
         /\ call[t].value \in Pixels \cup {NoValue}
  BY DEF StateTyped, Call, Idle, Places

LEMMA CallMoves ==
  ASSUME CacheInv, UNCHANGED <<file, map, slots, under>>, NEW t \in Threads,
         NEW d \in Call \cup {Idle}, call' = [call EXCEPT ![t] = d], CallGood(d, slots),
         d.slot # NoSlot => d.slot \in DOMAIN slots, call[t].slot \in {NoSlot, d.slot}
  PROVE  CacheInv'
<1>1. /\ call' \in [Threads -> Call \cup {Idle}] /\ call'[t] = d
      /\ \A u \in Threads : u # t => call'[u] = call[u]
  BY DEF CacheInv, StateTyped
<1>2. StateTyped' /\ SlotsTyped(slots)' /\ SlotsFresh(slots)'
  BY <1>1 DEF CacheInv, StateTyped, SlotsTyped, SlotsFresh, SlotFresh
<1>3. SlotsHeld(slots, map, call)'
  BY <1>1 DEF CacheInv, SlotsHeld
<1>4. NoneLeftOver(slots, map, call)'
  <2> SUFFICES ASSUME NEW s \in DOMAIN slots
               PROVE  (\E p \in Paths : map[p] = s) \/ (\E u \in Threads : call'[u].slot = s)
    BY DEF NoneLeftOver
  <2>1. s # NoSlot
    BY Constants DEF CacheInv, SlotsTyped
  <2> QED
    BY <1>1, <2>1 DEF CacheInv, NoneLeftOver
<1>5. ASSUME NEW u \in Threads PROVE CallGood(call[u], slots)'
  <2>1. CallGood(call'[u], slots)
    BY <1>1 DEF CacheInv
  <2> QED
    BY <2>1 DEF CallGood
<1> QED
  BY <1>2, <1>3, <1>4, <1>5 DEF CacheInv

LEMMA TakeKeeps ==
  ASSUME CacheInv, UNCHANGED <<file, map, slots>>, NEW t \in Threads, NEW p \in Paths,
         NEW kind \in Kinds, NEW at \in {"lookup", "place"}, NEW value \in Pixels \cup {NoValue},
         kind = "insert" => value = [given |-> TRUE, version |-> file[p]],
         at = "lookup" <=> kind # "insert",
         NEW c, c = [kind |-> kind, path |-> p, at |-> at, stamp |-> Stamp(file[p]),
                     slot |-> NoSlot, value |-> value],
         Take(t, c)
  PROVE  CacheInv'
<1>1. call[t] = Idle /\ call' = [call EXCEPT ![t] = c] /\ under' = under
  BY DEF Take, MayTake, CacheInv, StateTyped
<1>2. Stamp(file[p]) \in Stamps /\ HasHad(file[p], Stamp(file[p])) /\ file[p] \in Versions
  BY StampTyped DEF CacheInv, StateTyped
<1>3. c \in Call /\ c.slot = NoSlot
  BY <1>2 DEF Call, Places
<1>4. kind = "insert" => value \in Pixels /\ Fresh(value, Stamp(file[p]))
  <2>1. [given |-> TRUE, version |-> file[p]] \in Pixels
    BY <1>2 DEF Pixels
  <2>2. Fresh([given |-> TRUE, version |-> file[p]], Stamp(file[p]))
    BY <1>2, NowIsFresh
  <2> QED
    BY <2>1, <2>2
<1>5. CallGood(c, slots)
  BY <1>2, <1>4 DEF CallGood, Given, HasValue
<1>6. call[t].slot = NoSlot
  BY <1>1 DEF Idle
<1> QED
  BY <1>1, <1>3, <1>5, <1>6, CallMoves

LEMMA LookupHitKeeps ==
  ASSUME CacheInv, NEW t \in Threads, LookupHit(t)
  PROVE  CacheInv'
<1>1. PICK c \in Call : c = call[t] /\ c # Idle /\ c.path \in Paths /\ c.at = "lookup"
  BY AtWork DEF LookupHit, CacheInv, Places
<1>2. PICK s : s = map[c.path]
  OBVIOUS
<1>3. s \in DOMAIN slots /\ s # NoSlot /\ slots[s].path = c.path /\ slots[s].stamp = c.stamp
        /\ s \in SlotIds
  BY <1>1, <1>2 DEF LookupHit, Hit, SameFile, CacheInv, SlotsHeld, SlotsTyped
<1>4. call' = [call EXCEPT ![t].at = "touch", ![t].slot = s]
  BY <1>1, <1>2 DEF LookupHit
<1>5. PICK d : call' = [call EXCEPT ![t] = d] /\ MovesTo(c, d, "touch", s, c.value)
  BY <1>1, <1>3, <1>4, SlotWritten DEF CacheInv, Places
<1>6. d \in Call /\ d.slot = s
  BY <1>5 DEF MovesTo
<1>7. CallGood(c, slots) /\ c.slot = NoSlot
  BY <1>1 DEF CacheInv, CallGood
<1>8. CallGood(d, slots)
  BY <1>1, <1>3, <1>5, <1>7 DEF MovesTo, CallGood, Given, HasValue
<1>9. UNCHANGED <<file, map, slots, under>>
  BY DEF LookupHit, cacheVars
<1> QED
  BY <1>1, <1>3, <1>5, <1>6, <1>7, <1>8, <1>9, CallMoves

LEMMA TouchKeeps ==
  ASSUME CacheInv, NEW t \in Threads, Touch(t)
  PROVE  CacheInv'
<1>1. PICK c \in Call : c = call[t] /\ c # Idle /\ c.at = "touch"
  BY AtWork DEF Touch, CacheInv, Places
<1>2. PICK at \in Places : /\ call' = [call EXCEPT ![t].at = at] /\ at \in {"charge", "init"}
                           /\ at = "charge" => c.kind = "insert"
  BY <1>1 DEF Touch, Places
<1>3. PICK d : call' = [call EXCEPT ![t] = d] /\ MovesTo(c, d, at, c.slot, c.value)
  BY <1>1, <1>2, AtWritten DEF CacheInv
<1>4. CallGood(c, slots)
  BY <1>1 DEF CacheInv
<1>5. CallGood(d, slots)
  BY <1>1, <1>2, <1>3, <1>4 DEF MovesTo, CallGood, Given, HasValue
<1>6. d.slot = c.slot /\ d \in Call /\ (d.slot # NoSlot => d.slot \in DOMAIN slots)
  BY <1>1, <1>3 DEF MovesTo, CacheInv, SlotsHeld
<1> QED
  BY <1>1, <1>3, <1>5, <1>6, CallMoves DEF Touch

LEMMA BeginDecodeKeeps ==
  ASSUME CacheInv, NEW t \in Threads, BeginDecode(t)
  PROVE  CacheInv'
<1>1. PICK c \in Call : c = call[t] /\ c # Idle /\ c.at = "init"
  BY AtWork DEF BeginDecode, CacheInv, Places
<1>2. PICK d : call' = [call EXCEPT ![t] = d] /\ MovesTo(c, d, "decode", c.slot, c.value)
  BY <1>1, AtWritten DEF BeginDecode, CacheInv, Places
<1>3. CallGood(c, slots)
  BY <1>1 DEF CacheInv
<1>4. CallGood(d, slots)
  BY <1>1, <1>2, <1>3 DEF MovesTo, CallGood, Given, HasValue
<1>5. d.slot = c.slot /\ d \in Call /\ (d.slot # NoSlot => d.slot \in DOMAIN slots)
  BY <1>1, <1>2 DEF MovesTo, CacheInv, SlotsHeld
<1> QED
  BY <1>1, <1>2, <1>4, <1>5, CallMoves DEF BeginDecode, cacheVars

LEMMA ReuseKeeps ==
  ASSUME CacheInv, NEW t \in Threads, Reuse(t)
  PROVE  CacheInv'
<1>1. PICK c \in Call : c = call[t] /\ c # Idle /\ c.at = "init"
  BY AtWork DEF Reuse, CacheInv, Places
<1>2. CallGood(c, slots)
  BY <1>1 DEF CacheInv
<1>3. PICK s : s = c.slot /\ s \in DOMAIN slots
  BY <1>1, <1>2 DEF CallGood, Given, CacheInv, SlotsHeld
<1>4. PICK value \in Pixels : value = slots[s].value /\ Fresh(value, c.stamp)
  <2>1. slots[s] \in Slot /\ SlotFresh(slots[s]) /\ slots[s].stamp = c.stamp
    BY <1>1, <1>2, <1>3 DEF CallGood, Given, CacheInv, SlotsTyped, SlotsFresh
  <2>2. slots[s].value # NoValue
    BY <1>1, <1>3 DEF Reuse, Filled
  <2> QED
    BY <2>1, <2>2 DEF Slot, SlotFresh
<1>5. call' = [call EXCEPT ![t].at = "end", ![t].value = value]
  BY <1>1, <1>3, <1>4 DEF Reuse
<1>6. PICK d : call' = [call EXCEPT ![t] = d] /\ MovesTo(c, d, "end", c.slot, value)
  BY <1>1, <1>5, ValueWritten DEF CacheInv, Places
<1>7. CallGood(d, slots)
  BY <1>1, <1>2, <1>4, <1>6 DEF MovesTo, CallGood, Given, HasValue
<1>8. d.slot = c.slot /\ d \in Call /\ d.slot \in DOMAIN slots
  BY <1>3, <1>6 DEF MovesTo
<1> QED
  BY <1>1, <1>6, <1>7, <1>8, CallMoves DEF Reuse, cacheVars

LEMMA ChargeNothingKeeps ==
  ASSUME CacheInv, NEW t \in Threads, ChargeNothing(t)
  PROVE  CacheInv'
<1>1. PICK c \in Call : c = call[t] /\ c # Idle /\ c.at = "charge"
  BY AtWork DEF ChargeNothing, CacheInv, Places
<1>2. PICK d : call' = [call EXCEPT ![t] = d] /\ MovesTo(c, d, "end", c.slot, c.value)
  BY <1>1, AtWritten DEF ChargeNothing, CacheInv, Places
<1>3. CallGood(c, slots)
  BY <1>1 DEF CacheInv
<1>4. CallGood(d, slots)
  BY <1>1, <1>2, <1>3 DEF MovesTo, CallGood, Given, HasValue
<1>5. d.slot = c.slot /\ d \in Call /\ (d.slot # NoSlot => d.slot \in DOMAIN slots)
  BY <1>1, <1>2 DEF MovesTo, CacheInv, SlotsHeld
<1> QED
  BY <1>1, <1>2, <1>4, <1>5, CallMoves DEF ChargeNothing, cacheVars

LEMMA Returned ==
  ASSUME StateTyped, NEW t \in Threads, Return(t)
  PROVE  call' = [call EXCEPT ![t] = Idle] /\ under' = under
  BY DEF StateTyped, Return

LEMMA RepaintKeeps ==
  ASSUME CacheInv, NEW t \in Threads, Repaint(t)
  PROVE  CacheInv'
<1>1. call[t] # Idle /\ call[t].slot = NoSlot
  BY AtWork DEF Repaint, CacheInv, Places, CallGood
<1>2. call' = [call EXCEPT ![t] = Idle] /\ under' = under
  BY Returned DEF Repaint, CacheInv
<1>3. CallGood(Idle, slots) /\ Idle.slot = NoSlot
  BY DEF CallGood, Idle
<1> QED
  BY <1>1, <1>2, <1>3, CallMoves DEF Repaint, cacheVars

LEMMA DecodeKeeps ==
  ASSUME CacheInv, NEW t \in Threads, Decode(t)
  PROVE  CacheInv'
<1>1. PICK c \in Call : c = call[t] /\ c # Idle /\ c.at = "decode" /\ c.path \in Paths
  BY AtWork DEF Decode, CacheInv, Places
<1>2. CallGood(c, slots)
  BY <1>1 DEF CacheInv
<1>3. PICK s : s = c.slot /\ s \in DOMAIN slots /\ s # NoSlot
  BY <1>1, <1>2 DEF CallGood, Given, CacheInv, SlotsHeld
<1>4. PICK version \in Pixels : /\ version = [given |-> FALSE, version |-> file[c.path]]
                               /\ Fresh(version, c.stamp)
  <2>1. file[c.path] \in Versions /\ HasHad(file[c.path], c.stamp)
    BY <1>1, <1>2 DEF CacheInv, StateTyped, CallGood
  <2>2. [given |-> FALSE, version |-> file[c.path]] \in Pixels
    BY <2>1 DEF Pixels
  <2> QED
    BY <2>1, <2>2, NowIsFresh
<1>5. UNCHANGED <<file, map, under>> /\ slots' = [slots EXCEPT ![s].value = version]
  BY <1>1, <1>3, <1>4 DEF Decode
<1>6. PICK at \in Places : /\ call' = [call EXCEPT ![t].value = version, ![t].at = at]
                           /\ at \in {"end", "charge"}
  BY <1>1, <1>4 DEF Decode, Places
<1>7. PICK d : call' = [call EXCEPT ![t] = d] /\ MovesTo(c, d, at, c.slot, version)
  BY <1>1, <1>6, ValueWritten DEF CacheInv
<1>8. PICK slot \in Slot : /\ slot = [slots[s] EXCEPT !.value = version]
                           /\ slot.stamp = slots[s].stamp /\ slot.path = slots[s].path
                           /\ slot.value = version /\ slots[s].stamp = c.stamp
  <2>1. slots[s] \in Slot /\ slots[s].stamp = c.stamp
    BY <1>1, <1>2, <1>3 DEF CallGood, Given, CacheInv, SlotsTyped
  <2>2. PICK old \in Slot : old = slots[s]
    BY <2>1
  <2>3. /\ [old EXCEPT !.value = version] \in Slot
        /\ [old EXCEPT !.value = version].stamp = old.stamp
        /\ [old EXCEPT !.value = version].path = old.path
        /\ [old EXCEPT !.value = version].value = version
    BY DEF Slot
  <2> QED
    BY <2>1, <2>2, <2>3
<1>9. /\ DOMAIN slots' = DOMAIN slots /\ slots' \in [DOMAIN slots -> Slot] /\ slots'[s] = slot
      /\ \A x \in DOMAIN slots : x # s => slots'[x] = slots[x]
      /\ \A x \in DOMAIN slots : slots'[x].stamp = slots[x].stamp /\ slots'[x].path = slots[x].path
  BY <1>3, <1>5, <1>8 DEF CacheInv, SlotsTyped
<1>10. SlotsTyped(slots)' /\ SlotsFresh(slots)'
  BY <1>4, <1>5, <1>8, <1>9 DEF CacheInv, SlotsTyped, SlotsFresh, SlotFresh
<1>11. /\ call' \in [Threads -> Call \cup {Idle}] /\ call'[t] = d /\ d \in Call /\ d.slot = s
       /\ \A u \in Threads : u # t => call'[u] = call[u]
  BY <1>3, <1>7 DEF CacheInv, StateTyped, MovesTo
<1>12. StateTyped'
  BY <1>5, <1>11 DEF CacheInv, StateTyped
<1>13. SlotsHeld(slots, map, call)' /\ NoneLeftOver(slots, map, call)'
  BY <1>1, <1>3, <1>5, <1>9, <1>11 DEF CacheInv, SlotsHeld, NoneLeftOver
<1>14. ASSUME NEW u \in Threads PROVE CallGood(call[u], slots)'
  <2>1. CASE u = t
    BY <1>1, <1>2, <1>3, <1>4, <1>5, <1>6, <1>7, <1>9, <1>11, <2>1 DEF MovesTo, CallGood, Given, HasValue
  <2>2. CASE u # t
    <3>1. CallGood(call[u], slots) /\ (call[u].slot # NoSlot => call[u].slot \in DOMAIN slots)
      BY DEF CacheInv, SlotsHeld
    <3> QED
      BY <1>5, <1>9, <1>11, <2>2, <3>1 DEF CallGood
  <2> QED
    BY <2>1, <2>2
<1> QED
  BY <1>10, <1>12, <1>13, <1>14 DEF CacheInv

-----------------------------------------------------------------------------
(* Steps that write or drop slots.                                         *)

LEMMA ReplaceKeeps ==
  ASSUME CacheInv, NEW t \in Threads, call[t].at \in {"lookup", "place"}, NEW value,
         value = NoValue \/ (value = call[t].value /\ value \in Pixels /\ Fresh(value, call[t].stamp)),
         Replace(t, value), file' = file
  PROVE  CacheInv'
<1>1. PICK c \in Call : /\ c = call[t] /\ c # Idle /\ c.path \in Paths /\ c.at \in {"lookup", "place"}
                        /\ c.stamp \in Stamps /\ c.value \in Pixels \cup {NoValue}
  BY AtWork DEF CacheInv, Places
<1>2. CallGood(c, slots)
  BY <1>1 DEF CacheInv
<1>3. PICK p \in Paths : p = c.path
  BY <1>1
<1>4. PICK id \in SlotIds : id = NewId /\ id \notin DOMAIN slots /\ id # NoSlot
  BY SlotsToSpare
<1>5. PICK new \in Slot : /\ new = [path |-> p, stamp |-> c.stamp, value |-> value, charged |-> 0]
                          /\ new.path = p /\ new.stamp = c.stamp /\ new.value = value
  <2>1. [path |-> p, stamp |-> c.stamp, value |-> value, charged |-> 0] \in Slot
    BY <1>1, <1>3 DEF Slot
  <2> QED
    BY <2>1
<1>6. /\ map' = [map EXCEPT ![p] = id] /\ UNCHANGED under
      /\ call' = [call EXCEPT ![t].at = "touch", ![t].slot = id]
      /\ Keep(Put(p, new))
  BY <1>1, <1>3, <1>4, <1>5 DEF Replace
<1>7. PICK d : call' = [call EXCEPT ![t] = d] /\ MovesTo(c, d, "touch", id, c.value)
  BY <1>1, <1>6, SlotWritten DEF CacheInv, Places
<1>8. PICK all : all = Put(p, new)
  OBVIOUS
<1>9. /\ DOMAIN all = DOMAIN slots \cup {id} /\ all \in [DOMAIN slots \cup {id} -> Slot]
      /\ all[id] = new /\ \A s \in DOMAIN slots : all[s] = slots[s]
  BY <1>4, <1>5, <1>8 DEF Put, CacheInv, SlotsTyped
<1>10. /\ call' \in [Threads -> Call \cup {Idle}] /\ call'[t] = d /\ d \in Call /\ d.slot = id
       /\ \A u \in Threads : u # t => call'[u] = call[u]
  BY <1>7 DEF CacheInv, StateTyped, MovesTo
<1>11. /\ map' \in [Paths -> SlotIds \cup {NoSlot}] /\ map'[p] = id
       /\ \A q \in Paths : q # p => map'[q] = map[q]
  BY <1>6 DEF CacheInv, StateTyped
<1>12. StateTyped'
  BY <1>6, <1>10, <1>11 DEF CacheInv, StateTyped
<1>13. SlotsTyped(all)
  BY <1>9 DEF CacheInv, SlotsTyped
<1>14. SlotsFresh(all)
  <2>1. SlotFresh(new)
    BY <1>1, <1>2, <1>3, <1>5 DEF CallGood, SlotFresh
  <2> QED
    BY <1>9, <2>1 DEF CacheInv, SlotsFresh
<1>15. SlotsHeld(all, map', call')
  BY <1>5, <1>9, <1>10, <1>11 DEF CacheInv, SlotsHeld
<1>16. ASSUME NEW u \in Threads PROVE CallGood(call'[u], all)
  <2>1. CASE u = t
    BY <1>1, <1>2, <1>3, <1>4, <1>5, <1>7, <1>9, <1>10, <2>1 DEF MovesTo, CallGood, Given, HasValue
  <2>2. CASE u # t
    <3>1. CallGood(call[u], slots) /\ (call[u].slot # NoSlot => call[u].slot \in DOMAIN slots)
      BY DEF CacheInv, SlotsHeld
    <3> QED
      BY <1>9, <1>10, <2>2, <3>1 DEF CallGood
  <2> QED
    BY <2>1, <2>2
<1> QED
  BY <1>6, <1>8, <1>12, <1>13, <1>14, <1>15, <1>16, KeepKeeps

LEMMA PlaceKeeps ==
  ASSUME CacheInv, NEW t \in Threads, LookupMiss(t) \/ Place(t)
  PROVE  CacheInv'
<1>1. CASE LookupMiss(t)
  BY <1>1, ReplaceKeeps DEF LookupMiss
<1>2. CASE Place(t)
  <2>1. call[t] # Idle
    BY <1>2, AtWork DEF Place, CacheInv, Places
  <2>2. call[t].value \in Pixels /\ Fresh(call[t].value, call[t].stamp)
    BY <1>2, <2>1 DEF Place, CacheInv, CallGood, HasValue
  <2> QED
    BY <1>2, <2>2, ReplaceKeeps DEF Place
<1> QED
  BY <1>1, <1>2

(* A slot the map drops is still there for the threads that hold it.       *)
LEMMA DroppedKeeps ==
  ASSUME CacheInv, NEW gone, Dropped(gone)
  PROVE  CacheInv'
<1>1. map' \in [Paths -> SlotIds \cup {NoSlot}] /\ \A p \in Paths : map'[p] \in {map[p], NoSlot}
  BY DEF Dropped, CacheInv, StateTyped
<1>2. StateTyped'
  BY <1>1 DEF Dropped, CacheInv, StateTyped, threadVars
<1>3. SlotsHeld(slots, map', call')
  BY <1>1 DEF Dropped, CacheInv, SlotsHeld, threadVars
<1>4. \A t \in Threads : CallGood(call'[t], slots)
  BY DEF Dropped, CacheInv, threadVars
<1> QED
  BY <1>2, <1>3, <1>4, KeepKeeps DEF CacheInv, Dropped

LEMMA ChargeKeptKeeps ==
  ASSUME CacheInv, NEW t \in Threads, ChargeKept(t)
  PROVE  CacheInv'
<1>1. PICK c \in Call : c = call[t] /\ c # Idle /\ c.at = "charge" /\ c.path \in Paths
  BY AtWork DEF ChargeKept, CacheInv, Places
<1>2. CallGood(c, slots)
  BY <1>1 DEF CacheInv
<1>3. PICK s : s = c.slot /\ s \in DOMAIN slots /\ s # NoSlot
  BY <1>1, <1>2 DEF CallGood, Given, CacheInv, SlotsHeld
<1>4. PICK size \in Nat : size = SizeOf[c.path][c.value]
  BY <1>1, <1>2, Constants DEF CallGood, HasValue
<1>5. PICK gone : /\ map' = [q \in Paths |-> IF map[q] \in gone THEN NoSlot ELSE map[q]]
                  /\ call' = [call EXCEPT ![t].at = "end"] /\ UNCHANGED <<under, file>>
                  /\ Keep([slots EXCEPT ![s].charged = size])
  BY <1>1, <1>3, <1>4 DEF ChargeKept
<1>6. PICK d : call' = [call EXCEPT ![t] = d] /\ MovesTo(c, d, "end", c.slot, c.value)
  BY <1>1, <1>5, AtWritten DEF CacheInv, Places
<1>7. PICK all : all = [slots EXCEPT ![s].charged = size]
  OBVIOUS
<1>8. /\ DOMAIN all = DOMAIN slots /\ all \in [DOMAIN slots -> Slot]
      /\ \A x \in DOMAIN slots : /\ all[x].stamp = slots[x].stamp /\ all[x].path = slots[x].path
                                 /\ all[x].value = slots[x].value
  <2>1. PICK old \in Slot : old = slots[s]
    BY <1>3 DEF CacheInv, SlotsTyped
  <2>2. /\ [old EXCEPT !.charged = size] \in Slot
        /\ [old EXCEPT !.charged = size].stamp = old.stamp
        /\ [old EXCEPT !.charged = size].path = old.path
        /\ [old EXCEPT !.charged = size].value = old.value
    BY DEF Slot
  <2>3. all = [slots EXCEPT ![s] = [old EXCEPT !.charged = size]]
    BY <1>7, <2>1
  <2> QED
    BY <1>3, <2>1, <2>2, <2>3 DEF CacheInv, SlotsTyped
<1>9. map' \in [Paths -> SlotIds \cup {NoSlot}] /\ \A p \in Paths : map'[p] \in {map[p], NoSlot}
  BY <1>5 DEF CacheInv, StateTyped
<1>10. /\ call' \in [Threads -> Call \cup {Idle}] /\ call'[t] = d /\ d \in Call /\ d.slot = s
       /\ \A u \in Threads : u # t => call'[u] = call[u]
  BY <1>3, <1>6 DEF CacheInv, StateTyped, MovesTo
<1>11. StateTyped'
  BY <1>5, <1>9, <1>10 DEF CacheInv, StateTyped
<1>12. SlotsTyped(all) /\ SlotsFresh(all)
  BY <1>8 DEF CacheInv, SlotsTyped, SlotsFresh, SlotFresh
<1>13. SlotsHeld(all, map', call')
  BY <1>3, <1>8, <1>9, <1>10 DEF CacheInv, SlotsHeld
<1>14. ASSUME NEW u \in Threads PROVE CallGood(call'[u], all)
  <2>1. CASE u = t
    BY <1>1, <1>2, <1>6, <1>10, <2>1 DEF MovesTo, CallGood, Given, HasValue
  <2>2. CASE u # t
    <3>1. CallGood(call[u], slots) /\ (call[u].slot # NoSlot => call[u].slot \in DOMAIN slots)
      BY DEF CacheInv, SlotsHeld
    <3> QED
      BY <1>8, <1>10, <2>2, <3>1 DEF CallGood
  <2> QED
    BY <2>1, <2>2
<1> QED
  BY <1>5, <1>7, <1>11, <1>12, <1>13, <1>14, KeepKeeps

LEMMA EndKeeps ==
  ASSUME CacheInv, NEW t \in Threads, Answer(t) \/ Land(t)
  PROVE  CacheInv'
<1>1. PICK c \in Call : c = call[t] /\ c # Idle /\ c.at = "end"
  BY AtWork DEF Answer, Land, CacheInv, Places
<1>2. CallGood(c, slots) /\ CallGood(Idle, slots) /\ Idle.slot = NoSlot
  BY <1>1 DEF CacheInv, CallGood, Idle
<1>3. PICK d \in Call \cup {Idle} : /\ call' = [call EXCEPT ![t] = d] /\ d.slot = NoSlot
                                    /\ CallGood(d, slots)
  <2>1. CASE Answer(t)
    BY <1>2, <2>1, Returned DEF Answer, CacheInv
  <2>2. CASE Land(t)
    <3>1. call' = [call EXCEPT ![t].at = "repaint", ![t].slot = NoSlot]
      BY <2>2 DEF Land
    <3>2. PICK d : call' = [call EXCEPT ![t] = d] /\ MovesTo(c, d, "repaint", NoSlot, c.value)
      BY <1>1, <3>1, SlotWritten DEF CacheInv, Places
    <3> QED
      BY <1>1, <1>2, <3>2 DEF MovesTo, CallGood, Given, HasValue
  <2> QED
    BY <2>1, <2>2
<1>4. UNCHANGED <<file, map, under>> /\ Keep(slots)
  BY Returned DEF Answer, Land, CacheInv
<1>5. /\ call' \in [Threads -> Call \cup {Idle}] /\ call'[t] = d
      /\ \A u \in Threads : u # t => call'[u] = call[u]
  BY <1>3 DEF CacheInv, StateTyped
<1>6. StateTyped'
  BY <1>4, <1>5 DEF CacheInv, StateTyped
<1>7. SlotsHeld(slots, map', call') /\ \A u \in Threads : CallGood(call'[u], slots)
  BY <1>3, <1>4, <1>5 DEF CacheInv, SlotsHeld
<1> QED
  BY <1>4, <1>6, <1>7, KeepKeeps DEF CacheInv

LEMMA FileChangesKeeps ==
  ASSUME CacheInv, NEW p \in Paths, FileChanges(p)
  PROVE  CacheInv'
<1>1. UNCHANGED <<map, slots, call, under>> /\ file' = [file EXCEPT ![p] = @ + 1]
        /\ file[p] < MaxVersion
  BY DEF FileChanges, cacheVars, threadVars
<1>2. file' \in [Paths -> Versions] /\ \A q \in Paths : file'[q] >= file[q] /\ file[q] \in Nat /\ file'[q] \in Nat
  BY <1>1, Constants DEF CacheInv, StateTyped, Versions
<1>3. SlotsFresh(slots)'
  <2> SUFFICES ASSUME NEW s \in DOMAIN slots PROVE SlotFresh(slots[s])'
    BY <1>1 DEF SlotsFresh
  <2>1. PICK slot \in Slot : slot = slots[s] /\ slot.path \in Paths
    <3>1. slots[s] \in Slot
      BY DEF CacheInv, SlotsTyped
    <3> QED
      BY <3>1 DEF Slot
  <2>2. SlotFresh(slot)
    BY <2>1 DEF CacheInv, SlotsFresh
  <2>3. HasHad(file'[slot.path], slot.stamp)
    BY <1>2, <2>1, <2>2, HadStays DEF SlotFresh, CacheInv, StateTyped
  <2> QED
    BY <1>1, <2>1, <2>2, <2>3 DEF SlotFresh
<1>4. ASSUME NEW t \in Threads PROVE CallGood(call[t], slots)'
  <2>1. call[t] # Idle => call[t].path \in Paths
    BY DEF CacheInv, StateTyped, Call
  <2>2. CallGood(call[t], slots)
    BY DEF CacheInv
  <2>3. call[t] # Idle => HasHad(file'[call[t].path], call[t].stamp)
    BY <1>2, <2>1, <2>2, HadStays DEF CallGood, CacheInv, StateTyped
  <2> QED
    BY <1>1, <2>2, <2>3 DEF CallGood
<1> QED
  BY <1>1, <1>2, <1>3, <1>4 DEF CacheInv, StateTyped, SlotsTyped, SlotsHeld, NoneLeftOver

-----------------------------------------------------------------------------
(* The panels' decodes.                                                    *)

(* A decode a panel asked for, until it has ended.                         *)
Asked(c) == c # Idle /\ c.kind = "shown" /\ c.at # "repaint"

(* At most one decode of a photograph is waiting for a thread or under way *)
(* for the panels.                                                         *)
PanelsAskOnce ==
  /\ \A t \in Threads : Asked(call[t]) => call[t].path \notin spawned
  /\ \A t, u \in Threads : t # u /\ Asked(call[t]) /\ Asked(call[u]) => call[t].path # call[u].path

PanelsGood ==
  /\ spawned \subseteq inFlight /\ inFlight \subseteq Shown /\ toDraw \subseteq Shown
  /\ drawn \in [Shown -> {"nothing", "decoding", "unreadable", "decoded"}]
  /\ \A t \in Threads : Asked(call[t]) => call[t].path \in inFlight
  /\ PanelsAskOnce

(* No call is asked for that was not.                                      *)
NoneAsked ==
  \A t \in Threads : Asked(call'[t]) => Asked(call[t]) /\ call'[t].path = call[t].path

LEMMA NoneAskedKeeps ==
  ASSUME PanelsGood, NoneAsked, UNCHANGED <<inFlight, spawned>>,
         toDraw' \subseteq Shown,
         drawn' \in [Shown -> {"nothing", "decoding", "unreadable", "decoded"}]
  PROVE  PanelsGood'
<1>1. \A t \in Threads : Asked(call'[t]) => call'[t].path \in inFlight \ spawned
  BY DEF PanelsGood, PanelsAskOnce, NoneAsked
<1>2. \A t, u \in Threads : t # u /\ Asked(call'[t]) /\ Asked(call'[u]) => call'[t].path # call'[u].path
  BY DEF PanelsGood, PanelsAskOnce, NoneAsked
<1> QED
  BY <1>1, <1>2 DEF PanelsGood, PanelsAskOnce, Asked

LEMMA CallStepAsksNone ==
  ASSUME CacheInv, NEW t \in Threads, CallStep(t)
  PROVE  NoneAsked
<1>1. PICK c : c = call[t]
  OBVIOUS
<1>2. CASE Answer(t) \/ Repaint(t)
  <2>1. call' = [call EXCEPT ![t] = Idle]
    BY <1>2, Returned DEF Answer, Repaint, CacheInv
  <2> QED
    BY <2>1 DEF NoneAsked, Asked, CacheInv, StateTyped
<1>3. CASE ~(Answer(t) \/ Repaint(t))
  <2>1. call[t].at \in Places /\ call[t].at # "repaint"
    BY <1>3 DEF CallStep, LookupHit, LookupMiss, Place, Touch, BeginDecode, Reuse, Decode, ChargeKept,
                ChargeNothing, Land, Places
  <2>2. c \in Call /\ c # Idle
    BY <1>1, <2>1, AtWork DEF CacheInv
  <2>3. /\ \A u \in Threads : u # t => call'[u] = call[u]
        /\ call'[t].kind = c.kind /\ call'[t].path = c.path
    <3>1. call \in [Threads -> Call \cup {Idle}]
      BY DEF CacheInv, StateTyped
    <3>2. CASE LookupHit(t) \/ LookupMiss(t) \/ Place(t)
      BY <1>1, <2>2, <3>1, <3>2 DEF LookupHit, LookupMiss, Place, Replace, Call
    <3>3. CASE Touch(t) \/ BeginDecode(t) \/ Reuse(t) \/ Decode(t)
      BY <1>1, <2>2, <3>1, <3>3 DEF Touch, BeginDecode, Reuse, Decode, Call
    <3>4. CASE ChargeKept(t) \/ ChargeNothing(t) \/ Land(t)
      BY <1>1, <2>2, <3>1, <3>4 DEF ChargeKept, ChargeNothing, Land, Call
    <3> QED
      BY <1>3, <3>2, <3>3, <3>4 DEF CallStep
  <2> QED
    BY <1>1, <2>1, <2>2, <2>3 DEF NoneAsked, Asked
<1> QED
  BY <1>2, <1>3

LEMMA LandPanels ==
  ASSUME CacheInv, PanelsGood, NEW t \in Threads, Land(t)
  PROVE  PanelsGood'
<1>1. PICK c \in Call : c = call[t] /\ c # Idle /\ c.at = "end" /\ c.kind = "shown"
  BY AtWork DEF Land, CacheInv, Places
<1>2. NoneAsked
  BY CallStepAsksNone DEF CallStep
<1>3. ~Asked(call'[t])
  BY <1>1 DEF Land, Asked, CacheInv, StateTyped, Call
<1>4. /\ inFlight' = inFlight \ {c.path} /\ UNCHANGED <<spawned, toDraw, drawn>>
      /\ Asked(c) /\ c.path \notin spawned
  BY <1>1 DEF Land, PanelsGood, PanelsAskOnce, Asked
<1>5. \A u \in Threads : Asked(call'[u]) => call'[u].path \in inFlight' \ spawned
  BY <1>1, <1>2, <1>3, <1>4 DEF PanelsGood, PanelsAskOnce, NoneAsked
<1>6. \A u, v \in Threads : u # v /\ Asked(call'[u]) /\ Asked(call'[v]) => call'[u].path # call'[v].path
  BY <1>2 DEF PanelsGood, PanelsAskOnce, NoneAsked
<1> QED
  BY <1>4, <1>5, <1>6 DEF PanelsGood, PanelsAskOnce, Asked

LEMMA TakeShownPanels ==
  ASSUME CacheInv, PanelsGood, NEW t \in Threads, NEW p \in Paths, TakeShown(t, p)
  PROVE  PanelsGood'
<1>1. /\ p \in spawned /\ spawned' = spawned \ {p} /\ UNCHANGED <<inFlight, toDraw, drawn>>
      /\ call[t] = Idle /\ call'[t].path = p
      /\ \A u \in Threads : u # t => call'[u] = call[u]
  BY DEF TakeShown, Take, MayTake, Asking, CacheInv, StateTyped
<1>2. \A u \in Threads : Asked(call'[u]) =>
        (u = t \/ Asked(call[u])) /\ call'[u].path \in inFlight \ spawned'
  BY <1>1 DEF PanelsGood, PanelsAskOnce
<1>3. \A u, v \in Threads : u # v /\ Asked(call'[u]) /\ Asked(call'[v]) => call'[u].path # call'[v].path
  BY <1>1 DEF PanelsGood, PanelsAskOnce
<1> QED
  BY <1>1, <1>2, <1>3 DEF PanelsGood, PanelsAskOnce, Asked

LEMMA LookMissedPanels ==
  ASSUME PanelsGood, NEW p \in Shown, LookMissed(p)
  PROVE  PanelsGood'
<1>1. /\ call' = call /\ inFlight' = inFlight \cup {p} /\ toDraw' = toDraw \ {p}
      /\ spawned' = IF p \in inFlight THEN spawned ELSE spawned \cup {p}
      /\ drawn' = [drawn EXCEPT ![p] = "decoding"]
  BY DEF LookMissed, threadVars
<1>2. \A t \in Threads : Asked(call[t]) => call[t].path \in inFlight' \ spawned'
  BY <1>1 DEF PanelsGood, PanelsAskOnce
<1> QED
  BY <1>1, <1>2 DEF PanelsGood, PanelsAskOnce, Asked

-----------------------------------------------------------------------------
LEMMA CacheStep ==
  ASSUME CacheInv, [Next]_photoVars
  PROVE  CacheInv'
<1>1. CASE UNCHANGED <<file, map, slots, call, under>>
  BY <1>1 DEF CacheInv, StateTyped, SlotsTyped, SlotsFresh, SlotFresh, SlotsHeld, NoneLeftOver,
              CallGood
<1>2. ASSUME NEW t \in Threads, CallStep(t) PROVE CacheInv'
  BY <1>2, LookupHitKeeps, PlaceKeeps, TouchKeeps, BeginDecodeKeeps, ReuseKeeps, DecodeKeeps,
     ChargeKeptKeeps, ChargeNothingKeeps, EndKeeps, RepaintKeeps DEF CallStep
<1>3. ASSUME NEW t \in Threads, TakeStep(t) PROVE CacheInv'
  <2>1. PICK p \in Paths : TakeShown(t, p) \/ Get(t, p) \/ Insert(t, p)
    BY <1>3 DEF TakeStep
  <2>2. UNCHANGED <<file, map, slots>>
    BY <2>1 DEF TakeShown, Get, Insert, cacheVars
  <2>3. file[p] \in Versions
    BY DEF CacheInv, StateTyped
  <2>4. CASE TakeShown(t, p)
    BY <2>2, <2>4, TakeKeeps, Zenon DEF TakeShown, Asking, Kinds
  <2>5. CASE Get(t, p)
    BY <2>2, <2>5, TakeKeeps, Zenon DEF Get, Asking, Kinds
  <2>6. CASE Insert(t, p)
    <3>1. PICK value \in Pixels : value = [given |-> TRUE, version |-> file[p]]
      BY <2>3 DEF Pixels
    <3>2. Take(t, [kind |-> "insert", path |-> p, at |-> "place", stamp |-> Stamp(file[p]),
                   slot |-> NoSlot, value |-> value])
      BY <2>6, <3>1 DEF Insert, Asking
    <3> QED
      BY <2>2, <3>1, <3>2, TakeKeeps, Zenon DEF Kinds
  <2> QED
    BY <2>1, <2>4, <2>5, <2>6
<1>4. ASSUME NEW p \in Paths, Forget(p) \/ FileChanges(p) PROVE CacheInv'
  BY <1>4, DroppedKeeps, FileChangesKeeps DEF Forget
<1>5. CASE Clear
  BY <1>5, DroppedKeeps DEF Clear
<1>6. CASE FrameStep \/ PersonMoves \/ UNCHANGED photoVars
  BY <1>1, <1>6 DEF FrameStep, BeginFrame, LookFound, LookMissed, PersonMoves, photoVars, cacheVars,
                    threadVars
<1> QED
  BY <1>2, <1>3, <1>4, <1>5, <1>6 DEF Next

LEMMA PanelsStep ==
  ASSUME CacheInv, PanelsGood, [Next]_photoVars
  PROVE  PanelsGood'
<1>1. CASE NoneAsked /\ UNCHANGED <<inFlight, spawned, toDraw, drawn>>
  BY <1>1, NoneAskedKeeps DEF PanelsGood
<1>2. CASE call' = call /\ UNCHANGED <<inFlight, spawned, toDraw, drawn>>
  BY <1>1, <1>2 DEF NoneAsked
<1>3. ASSUME NEW t \in Threads, CallStep(t) PROVE PanelsGood'
  <2>1. CASE Land(t)
    BY <2>1, LandPanels
  <2>2. CASE ~Land(t)
    <3>1. UNCHANGED <<inFlight, spawned, toDraw, drawn>>
      BY <1>3, <2>2 DEF CallStep, LookupHit, LookupMiss, Place, Touch, BeginDecode, Reuse, Decode,
                        ChargeKept, ChargeNothing, Answer, Repaint, panelVars
    <3> QED
      BY <1>1, <1>3, <3>1, CallStepAsksNone
  <2> QED
    BY <2>1, <2>2
<1>4. ASSUME NEW t \in Threads, TakeStep(t) PROVE PanelsGood'
  <2>1. PICK p \in Paths : TakeShown(t, p) \/ Get(t, p) \/ Insert(t, p)
    BY <1>4 DEF TakeStep
  <2>2. CASE Get(t, p) \/ Insert(t, p)
    <3>1. UNCHANGED <<inFlight, spawned, toDraw, drawn>>
      BY <2>2 DEF Get, Insert, panelVars
    <3>2. PICK c : c.kind \in {"many", "insert"} /\ Take(t, c)
      <4>1. CASE Get(t, p)
        <5>1. Asking("many", p, "lookup", NoValue).kind = "many"
          BY DEF Asking
        <5> QED
          BY <4>1, <5>1 DEF Get
      <4>2. CASE Insert(t, p)
        <5>1. PICK c : c = Asking("insert", p, "place", [given |-> TRUE, version |-> file[p]])
          OBVIOUS
        <5>2. c.kind = "insert"
          BY <5>1 DEF Asking
        <5> QED
          BY <4>2, <5>1, <5>2 DEF Insert
      <4> QED
        BY <2>2, <4>1, <4>2
    <3>4. call'[t] = c /\ \A u \in Threads : u # t => call'[u] = call[u]
      BY <3>2 DEF Take, CacheInv, StateTyped
    <3>3. NoneAsked
      BY <3>2, <3>4 DEF NoneAsked, Asked
    <3> QED
      BY <1>1, <3>1, <3>3
  <2> QED
    BY <2>1, <2>2, TakeShownPanels
<1>5. ASSUME NEW p \in Paths, Forget(p) \/ FileChanges(p) PROVE PanelsGood'
  BY <1>2, <1>5 DEF Forget, Dropped, FileChanges, threadVars, panelVars
<1>6. CASE Clear
  BY <1>2, <1>6 DEF Clear, Dropped, threadVars, panelVars
<1>7. CASE PersonMoves \/ UNCHANGED photoVars
  BY <1>2, <1>7 DEF PersonMoves, photoVars, threadVars, panelVars
<1>8. CASE BeginFrame
  BY <1>8 DEF BeginFrame, threadVars, PanelsGood, PanelsAskOnce, Asked
<1>9. ASSUME NEW p \in Shown, LookFound(p) PROVE PanelsGood'
  BY <1>9 DEF LookFound, threadVars, PanelsGood, PanelsAskOnce, Asked
<1> QED
  BY <1>3, <1>4, <1>5, <1>6, <1>7, <1>8, <1>9, LookMissedPanels DEF Next, FrameStep

LEMMA CacheAlways == Spec => []CacheInv /\ []PanelsGood
<1>1. Init => CacheInv /\ PanelsGood
  <2> SUFFICES ASSUME Init PROVE CacheInv /\ PanelsGood
    OBVIOUS
  <2>1. /\ map = [p \in Paths |-> NoSlot] /\ call = [t \in Threads |-> Idle] /\ DOMAIN slots = {}
        /\ slots = [s \in {} |-> NoSlot] /\ under = [t \in Threads |-> <<>>] /\ file = First
    BY DEF Init
  <2>2. StateTyped
    BY <2>1, Constants DEF StateTyped
  <2>3. SlotsTyped(slots) /\ SlotsFresh(slots) /\ NoneLeftOver(slots, map, call)
    BY <2>1 DEF SlotsTyped, SlotsFresh, NoneLeftOver
  <2>4. SlotsHeld(slots, map, call) /\ \A t \in Threads : CallGood(call[t], slots) /\ ~Asked(call[t])
    BY <2>1 DEF SlotsHeld, CallGood, Idle, Asked
  <2> QED
    BY <2>2, <2>3, <2>4 DEF Init, CacheInv, PanelsGood, PanelsAskOnce
<1>2. CacheInv /\ [Next]_photoVars => CacheInv'
  BY CacheStep
<1>3. CacheInv /\ PanelsGood /\ [Next]_photoVars => PanelsGood'
  BY PanelsStep
<1> QED
  BY <1>1, <1>2, <1>3, PTL DEF Spec

(* The cache's state keeps its types: what the map names and what a thread *)
(* holds is a slot that is still there, of the path it is looked up by.    *)
THEOREM CacheTypes == Spec => []TypeOK
<1>1. CacheInv /\ PanelsGood => TypeOK
  <2> SUFFICES ASSUME CacheInv, PanelsGood PROVE TypeOK
    OBVIOUS
  <2>1. \A t \in Threads : HeldBy(call[t]) \subseteq DOMAIN slots
    BY DEF HeldBy, CacheInv, SlotsHeld
  <2> QED
    BY <2>1 DEF TypeOK, CacheInv, StateTyped, SlotsTyped, SlotsHeld, PanelsGood
<1> QED
  BY <1>1, CacheAlways, PTL

(* No call is answered with pixels older than the file it found, whoever   *)
(* decoded them, however often the file changed and whatever left the map  *)
(* meanwhile (PhotographCache::get_found).                                 *)
THEOREM AnswersAlwaysFresh == Spec => []AnswersAreFresh
<1>1. CacheInv => AnswersAreFresh
  <2> SUFFICES ASSUME CacheInv, NEW t \in Threads, call[t].at = "end"
               PROVE  Fresh(call[t].value, call[t].stamp)
    BY DEF AnswersAreFresh
  <2>1. call[t] # Idle /\ CallGood(call[t], slots)
    BY DEF CacheInv, Idle
  <2> QED
    BY <2>1 DEF CallGood, HasValue
<1> QED
  BY <1>1, CacheAlways, PTL

(* However many panels draw a photograph, over however many frames, they   *)
(* have one decode of it under way at most (PhotographRequests::request).  *)
THEOREM OneDecodeForThePanels == Spec => []PanelsAskOnce
<1>1. PanelsGood => PanelsAskOnce
  BY DEF PanelsGood
<1> QED
  BY <1>1, CacheAlways, PTL

-----------------------------------------------------------------------------
(* Sums over finite sets.  A sum is independent of the order its elements  *)
(* are taken in, which the fold behind it does not say.                    *)

(* Of some subsets of a finite set, one has no smaller one below it.       *)
LEMMA SmallestSubset ==
  ASSUME NEW U, IsFiniteSet(U), NEW Q \in SUBSET SUBSET U, Q # {}
  PROVE  \E r \in Q : \A x \in r : r \ {x} \notin Q
<1> DEFINE sizes == {Cardinality(s) : s \in Q}
<1>1. \A s \in Q : IsFiniteSet(s) /\ Cardinality(s) \in Nat
  BY FS_Subset, FS_CardinalityType
<1>2. PICK n \in sizes : \A m \in sizes : n <= m
  <2>1. sizes \subseteq Nat /\ sizes # {}
    BY <1>1
  <2> HIDE DEF sizes
  <2> QED
    BY <2>1, LeastNumber
<1>3. PICK r \in Q : Cardinality(r) = n
  BY <1>2
<1>4. ASSUME NEW x \in r, r \ {x} \in Q PROVE FALSE
  <2>1. Cardinality(r \ {x}) = n - 1
    BY <1>1, <1>3, FS_RemoveElement
  <2>2. Cardinality(r \ {x}) \in sizes
    BY <1>4
  <2>3. n \in Nat
    BY <1>1, <1>3
  <2> HIDE DEF sizes
  <2>4. n <= n - 1
    BY <1>2, <2>1, <2>2
  <2> QED
    BY <2>3, <2>4
<1> QED
  BY <1>4

(* Induction over the subsets of a finite set.                             *)
LEMMA SubsetInduction ==
  ASSUME NEW U, IsFiniteSet(U), NEW P, {} \in P,
         \A s \in SUBSET U : s \in P => \A x \in U \ s : s \cup {x} \in P
  PROVE  \A s \in SUBSET U : s \in P
<1> SUFFICES ASSUME (SUBSET U) \ P # {} PROVE FALSE
  OBVIOUS
<1>1. PICK r \in (SUBSET U) \ P : \A x \in r : r \ {x} \notin (SUBSET U) \ P
  BY SmallestSubset
<1>2. PICK x \in r : TRUE
  BY <1>1
<1>3. r \ {x} \in P /\ x \in U \ (r \ {x}) /\ (r \ {x}) \cup {x} = r
  BY <1>1, <1>2
<1>4. (r \ {x}) \cup {x} \in P
  BY <1>1, <1>3
<1> QED
  BY <1>1, <1>3, <1>4

(* A sum of f over each subset of S.                                       *)
Adds(g, f, S) ==
  /\ g \in [SUBSET S -> Nat] /\ g[{}] = 0
  /\ \A r \in SUBSET S : \A x \in S \ r : g[r \cup {x}] = g[r] + f[x]

LEMMA SumsExist ==
  ASSUME NEW U, IsFiniteSet(U), NEW f \in [U -> Nat]
  PROVE  \E g : Adds(g, f, U)
<1> DEFINE P == {S \in SUBSET U : \E g : Adds(g, f, S)}
<1>1. {} \in P
  <2>1. Adds([r \in {{}} |-> 0], f, {})
    BY DEF Adds
  <2> QED
    BY <2>1
<1>2. ASSUME NEW S \in SUBSET U, S \in P, NEW x \in U \ S PROVE S \cup {x} \in P
  <2>1. PICK g : Adds(g, f, S)
    BY <1>2
  <2>2. PICK n \in Nat : n = f[x]
    OBVIOUS
  <2> DEFINE h == [r \in SUBSET (S \cup {x}) |-> IF x \in r THEN g[r \ {x}] + n ELSE g[r]]
  <2>3. \A r \in SUBSET (S \cup {x}) : r \ {x} \in SUBSET S /\ (x \notin r => r \in SUBSET S)
    OBVIOUS
  <2>4. g \in [SUBSET S -> Nat]
    BY <2>1 DEF Adds
  <2>5. h \in [SUBSET (S \cup {x}) -> Nat]
    BY <2>3, <2>4
  <2>6. h[{}] = 0
    BY <2>1 DEF Adds
  <2>7. ASSUME NEW r \in SUBSET (S \cup {x}), NEW y \in (S \cup {x}) \ r
        PROVE  h[r \cup {y}] = h[r] + f[y]
    <3>1. CASE y = x
      <4>1. (r \cup {x}) \ {x} = r /\ r \cup {x} \in SUBSET (S \cup {x}) /\ x \notin r
        BY <3>1
      <4> QED
        BY <2>2, <3>1, <4>1
    <3>2. CASE y # x /\ x \notin r
      <4>1. r \in SUBSET S /\ y \in S \ r /\ r \cup {y} \in SUBSET (S \cup {x}) /\ x \notin r \cup {y}
        BY <3>2
      <4>2. g[r \cup {y}] = g[r] + f[y]
        BY <2>1, <4>1 DEF Adds
      <4> QED
        BY <3>2, <4>1, <4>2
    <3>3. CASE y # x /\ x \in r
      <4>1. PICK q : q = r \ {x}
        OBVIOUS
      <4>2. q \in SUBSET S /\ y \in S \ q /\ r \cup {y} \in SUBSET (S \cup {x})
              /\ x \in r \cup {y} /\ (r \cup {y}) \ {x} = q \cup {y}
        BY <3>3, <4>1
      <4>3. g[q \cup {y}] = g[q] + f[y] /\ g[q] \in Nat /\ f[y] \in Nat
        BY <2>1, <4>2 DEF Adds
      <4>4. h[r \cup {y}] = g[q \cup {y}] + n /\ h[r] = g[q] + n
        BY <3>3, <4>1, <4>2
      <4> QED
        BY <4>3, <4>4
    <3> QED
      BY <3>1, <3>2, <3>3
  <2> HIDE DEF h
  <2> QED
    BY <2>5, <2>6, <2>7 DEF Adds
<1>3. U \in P
  <2> HIDE DEF P
  <2> QED
    BY <1>1, <1>2, SubsetInduction
<1> QED
  BY <1>3

(* ChargesOf, of any slots.                                                *)
ChargesIn(all, S) == MapThenSumSet(LAMBDA s : all[s].charged, S)

(* The fold is such a sum, whichever element it takes first.               *)
LEMMA FoldSums ==
  ASSUME NEW U, IsFiniteSet(U), NEW f \in [U -> Nat], NEW g, Adds(g, f, U),
         NEW S \in SUBSET U, NEW all, \A s \in S : all[s].charged = f[s]
  PROVE  ChargesIn(all, S) = g[S]
<1> DEFINE F(h) == [r \in SUBSET S |->
                      IF r = {} THEN 0
                      ELSE all[CHOOSE x \in r : TRUE].charged + h[r \ {CHOOSE x \in r : TRUE}]]
           iter == CHOOSE h : h = F(h)
           sum == [r \in SUBSET S |-> g[r]]
<1>1. ChargesIn(all, S) = iter[S]
  BY DEF ChargesIn, MapThenSumSet, MapThenFoldSet
<1>2. ASSUME NEW r \in SUBSET S, r # {}
      PROVE  LET x == CHOOSE x \in r : TRUE
             IN  x \in r /\ r \ {x} \in SUBSET S /\ g[r] = all[x].charged + g[r \ {x}]
  <2>1. PICK x : x = CHOOSE y \in r : TRUE
    OBVIOUS
  <2>2. x \in r
    BY <1>2, <2>1
  <2>3. r \ {x} \in SUBSET U /\ x \in U \ (r \ {x}) /\ (r \ {x}) \cup {x} = r
    BY <2>2
  <2>4. g[r] = g[r \ {x}] + f[x] /\ g[r \ {x}] \in Nat /\ f[x] \in Nat
    BY <2>2, <2>3 DEF Adds
  <2> QED
    BY <2>1, <2>2, <2>3, <2>4
<1>3. sum = F(sum)
  BY <1>2, S \in SUBSET U DEF Adds
<1>4. iter = F(iter)
  <2> HIDE DEF F, sum
  <2> QED
    BY <1>3
<1>5. ASSUME NEW r \in SUBSET S, r # {}
      PROVE  LET x == CHOOSE x \in r : TRUE
             IN  iter[r] = all[x].charged + iter[r \ {x}]
  <2> HIDE DEF iter
  <2>1. iter[r] = F(iter)[r]
    BY <1>4, Zenon
  <2> QED
    BY <1>5, <2>1
<1>6. iter[{}] = 0
  <2> HIDE DEF iter
  <2>1. iter[{}] = F(iter)[{}]
    BY <1>4, Zenon
  <2> QED
    BY <2>1
<1> DEFINE Q == {r \in SUBSET S : iter[r] # g[r]}
<1> HIDE DEF iter
<1>7. Q = {}
  <2> SUFFICES ASSUME Q # {} PROVE FALSE
    OBVIOUS
  <2>1. IsFiniteSet(S) /\ Q \in SUBSET SUBSET S
    BY FS_Subset
  <2>2. PICK r \in Q : \A x \in r : r \ {x} \notin Q
    <3> HIDE DEF Q
    <3> QED
      BY <2>1, SmallestSubset
  <2>3. r # {}
    BY <1>6, <2>2 DEF Adds
  <2>4. PICK x : x = CHOOSE y \in r : TRUE
    OBVIOUS
  <2>5. x \in r /\ r \ {x} \in SUBSET S /\ g[r] = all[x].charged + g[r \ {x}]
    BY <1>2, <2>2, <2>3, <2>4
  <2>6. iter[r] = all[x].charged + iter[r \ {x}]
    BY <1>5, <2>2, <2>3, <2>4
  <2>7. iter[r \ {x}] = g[r \ {x}]
    BY <2>2, <2>5
  <2> QED
    BY <2>2, <2>5, <2>6, <2>7
<1> QED
  BY <1>1, <1>7

Charged(all, S) == \A s \in S : all[s].charged \in Nat

LEMMA SumsOf ==
  ASSUME NEW S, IsFiniteSet(S), NEW all, Charged(all, S)
  PROVE  \E f, g :
           /\ f \in [S -> Nat] /\ Adds(g, f, S)
           /\ \A s \in S : f[s] = all[s].charged
           /\ \A r \in SUBSET S : ChargesIn(all, r) = g[r]
<1> DEFINE f == [s \in S |-> all[s].charged]
<1>1. f \in [S -> Nat] /\ \A s \in S : f[s] = all[s].charged
  BY DEF Charged
<1> HIDE DEF f
<1>2. PICK g : Adds(g, f, S)
  BY <1>1, SumsExist
<1>3. \A r \in SUBSET S : ChargesIn(all, r) = g[r]
  BY <1>1, <1>2, FoldSums
<1> QED
  BY <1>1, <1>2, <1>3

LEMMA SumAdded ==
  ASSUME NEW S, IsFiniteSet(S), NEW all, Charged(all, S), NEW r \in SUBSET S, NEW x \in S \ r
  PROVE  /\ ChargesIn(all, r) \in Nat
         /\ ChargesIn(all, r \cup {x}) = ChargesIn(all, r) + all[x].charged
<1>1. PICK f, g :
        /\ f \in [S -> Nat] /\ Adds(g, f, S)
        /\ \A s \in S : f[s] = all[s].charged
        /\ \A q \in SUBSET S : ChargesIn(all, q) = g[q]
  BY SumsOf
<1> QED
  BY <1>1, r \cup {x} \in SUBSET S DEF Adds

LEMMA SumAgrees ==
  ASSUME NEW S, IsFiniteSet(S), NEW all, Charged(all, S),
         NEW others, \A s \in S : others[s].charged = all[s].charged
  PROVE  ChargesIn(others, S) = ChargesIn(all, S)
<1>1. PICK f, g :
        /\ f \in [S -> Nat] /\ Adds(g, f, S)
        /\ \A s \in S : f[s] = all[s].charged
        /\ \A q \in SUBSET S : ChargesIn(all, q) = g[q]
  BY SumsOf
<1>2. ChargesIn(others, S) = g[S]
  BY <1>1, FoldSums
<1> QED
  BY <1>1, <1>2

LEMMA SumOfNothing ==
  ASSUME NEW S, IsFiniteSet(S), NEW all, \A s \in S : all[s].charged = 0
  PROVE  ChargesIn(all, S) = 0
<1>1. PICK f \in [S -> Nat] : f = [s \in S |-> 0]
  OBVIOUS
<1>2. PICK g : g = [r \in SUBSET S |-> 0]
  OBVIOUS
<1>3. Adds(g, f, S)
  BY <1>1, <1>2 DEF Adds
<1>4. \A s \in S : all[s].charged = f[s]
  BY <1>1
<1>5. ChargesIn(all, S) = g[S]
  BY <1>3, <1>4, FoldSums
<1> QED
  BY <1>2, <1>5

(* What is left when some are taken out.                                   *)
LEMMA SumSplit ==
  ASSUME NEW S, IsFiniteSet(S), NEW all, Charged(all, S), NEW A \in SUBSET S
  PROVE  /\ ChargesIn(all, S) = ChargesIn(all, A) + ChargesIn(all, S \ A)
         /\ ChargesIn(all, A) \in Nat /\ ChargesIn(all, S \ A) \in Nat
<1>1. PICK f, g :
        /\ f \in [S -> Nat] /\ Adds(g, f, S)
        /\ \A s \in S : f[s] = all[s].charged
        /\ \A r \in SUBSET S : ChargesIn(all, r) = g[r]
  BY SumsOf
<1>2. g \in [SUBSET S -> Nat] /\ g[{}] = 0
  BY <1>1 DEF Adds
<1> DEFINE P == {r \in SUBSET (S \ A) : g[A \cup r] = g[A] + g[r]}
<1>3. {} \in P
  BY <1>2, A \cup {} = A
<1>4. ASSUME NEW r \in SUBSET (S \ A), r \in P, NEW x \in (S \ A) \ r PROVE r \cup {x} \in P
  <2>1. /\ r \in SUBSET S /\ A \cup r \in SUBSET S /\ x \in S \ r /\ x \in S \ (A \cup r)
        /\ (A \cup r) \cup {x} = A \cup (r \cup {x})
    OBVIOUS
  <2>2. g[r \cup {x}] = g[r] + f[x] /\ g[A \cup (r \cup {x})] = g[A \cup r] + f[x]
    BY <1>1, <2>1 DEF Adds
  <2>3. g[A \cup r] = g[A] + g[r] /\ g[A] \in Nat /\ g[r] \in Nat /\ f[x] \in Nat
    BY <1>1, <1>2, <1>4, <2>1
  <2> QED
    BY <2>2, <2>3
<1>5. S \ A \in P
  <2>1. PICK rest : rest = S \ A
    OBVIOUS
  <2>2. IsFiniteSet(rest)
    BY <2>1, FS_Subset
  <2> HIDE DEF P
  <2>3. \A r \in SUBSET rest : r \in P => \A x \in rest \ r : r \cup {x} \in P
    BY <1>4, <2>1
  <2>4. \A r \in SUBSET rest : r \in P
    BY <1>3, <2>2, <2>3, SubsetInduction, Zenon
  <2> QED
    BY <2>1, <2>4
<1>6. g[A \cup (S \ A)] = g[A] + g[S \ A]
  BY <1>5
<1>7. A \cup (S \ A) = S /\ S \ A \in SUBSET S /\ A \in SUBSET S /\ S \in SUBSET S
  OBVIOUS
<1>8. g[A] \in Nat /\ g[S \ A] \in Nat
  BY <1>2, <1>7
<1>9. /\ ChargesIn(all, S) = g[S] /\ ChargesIn(all, A) = g[A]
      /\ ChargesIn(all, S \ A) = g[S \ A]
  BY <1>1, <1>7
<1> QED
  BY <1>6, <1>7, <1>8, <1>9

-----------------------------------------------------------------------------
(* The order of use.                                                       *)

LEMMA AppendedRange ==
  ASSUME NEW T, NEW s \in Seq(T), NEW x \in T
  PROVE  Append(s, x) \in Seq(T) /\ Range(Append(s, x)) = Range(s) \cup {x}
<1>1. PICK n \in Nat : n = Len(s) /\ DOMAIN s = 1..n
  OBVIOUS
<1>2. /\ Append(s, x) \in Seq(T) /\ DOMAIN Append(s, x) = 1..(n + 1)
      /\ \A i \in 1..n : Append(s, x)[i] = s[i]
      /\ Append(s, x)[n + 1] = x
  BY <1>1
<1>3. 1..(n + 1) = 1..n \cup {n + 1}
  OBVIOUS
<1> QED
  BY <1>1, <1>2, <1>3 DEF Range

LEMMA OnlyKeeps ==
  ASSUME NEW T, NEW sequence \in Seq(T), NEW S
  PROVE  Only(sequence, S) \in Seq(T) /\ Range(Only(sequence, S)) = Range(sequence) \cap S
<1>1. PICK n \in Nat : n = Len(sequence)
  OBVIOUS
<1> DEFINE after(k, before) == IF sequence[k] \in S THEN Append(before, sequence[k]) ELSE before
           body(h, m) == [k \in 0..m |->
                            IF k = 0 THEN <<>>
                            ELSE IF sequence[k] \in S THEN Append(h[k - 1], sequence[k]) ELSE h[k - 1]]
           kept == CHOOSE h : h = body(h, n)
<1>2. Only(sequence, S) = kept[n]
  BY <1>1 DEF Only
<1>3. \E h : h = body(h, n)
  <2> DEFINE Bad == {m \in 0..n : ~\E h : h = body(h, m)}
  <2> SUFFICES ASSUME Bad # {} PROVE FALSE
    <3>1. n \in 0..n
      BY <1>1
    <3> QED
      BY <3>1
  <2>1. PICK m \in Bad : \A k \in Bad : m <= k
    <3> HIDE DEF Bad
    <3>1. Bad \subseteq Nat
      BY <1>1 DEF Bad
    <3> QED
      BY <3>1, LeastNumber
  <2>2. m # 0
    <3>1. [k \in 0..0 |-> <<>>] = body([k \in 0..0 |-> <<>>], 0)
      OBVIOUS
    <3> QED
      BY <2>1, <3>1
  <2>3. m \in 0..n /\ m - 1 \in 0..n /\ ~(m <= m - 1)
    BY <1>1, <2>1, <2>2
  <2>4. PICK h : h = body(h, m - 1)
    <3>1. m - 1 \notin Bad
      <4> HIDE DEF Bad
      <4> QED
        BY <2>1, <2>3
    <3> QED
      BY <2>3, <3>1
  <2> DEFINE longer == [k \in 0..m |-> IF k = m THEN after(m, h[m - 1]) ELSE h[k]]
  <2>5. longer = body(longer, m)
    <3>1. ASSUME NEW k \in 0..m PROVE longer[k] = body(longer, m)[k]
      <4>1. CASE k = m
        BY <2>1, <2>2, <4>1
      <4>2. CASE k # m
        <5>1. k \in 0..(m - 1)
          BY <2>1, <4>2
        <5>2. h[k] = body(h, m - 1)[k]
          BY <2>4, Zenon
        <5>3. k = 0 \/ longer[k - 1] = h[k - 1]
          BY <2>1, <5>1
        <5> QED
          BY <4>2, <5>1, <5>2, <5>3
      <4> QED
        BY <4>1, <4>2
    <3> QED
      BY <3>1
  <2> QED
    BY <2>1, <2>5
<1>4. kept = body(kept, n)
  BY <1>3
<1> HIDE DEF kept
<1>5. kept[0] = <<>> /\ \A k \in 1..n : kept[k] = after(k, kept[k - 1])
  <2>1. \A k \in 0..n : kept[k] = body(kept, n)[k]
    BY <1>4, Zenon
  <2> QED
    BY <1>1, <2>1
<1> DEFINE Fine(k) == kept[k] \in Seq(T) /\ Range(kept[k]) = {sequence[i] : i \in 1..k} \cap S
           Off == {k \in 0..n : ~Fine(k)}
<1>6. Off = {}
  <2> SUFFICES ASSUME Off # {} PROVE FALSE
    OBVIOUS
  <2>1. PICK k \in Off : \A j \in Off : k <= j
    <3> HIDE DEF Off
    <3>1. Off \subseteq Nat
      BY <1>1 DEF Off
    <3> QED
      BY <3>1, LeastNumber
  <2>2. k # 0
    <3>1. Fine(0)
      BY <1>5 DEF Range
    <3> QED
      BY <2>1, <3>1
  <2>3. k - 1 \in 0..n /\ k \in 1..n /\ k - 1 \notin Off
    <3>1. k \in 0..n
      BY <2>1
    <3>2. k - 1 \in 0..n /\ k \in 1..n /\ ~(k <= k - 1)
      BY <1>1, <2>2, <3>1
    <3> HIDE DEF Off
    <3> QED
      BY <2>1, <3>2
  <2>4. PICK before \in Seq(T) : before = kept[k - 1] /\ Range(before) = {sequence[i] : i \in 1..(k - 1)} \cap S
    BY <2>3
  <2>5. PICK x \in T : x = sequence[k]
    <3>1. k \in 1..Len(sequence)
      BY <1>1, <2>3
    <3>2. sequence[k] \in T
      BY <3>1
    <3> QED
      BY <3>2
  <2>6. {sequence[i] : i \in 1..k} = {sequence[i] : i \in 1..(k - 1)} \cup {x}
    BY <2>3, <2>5
  <2>7. kept[k] = IF x \in S THEN Append(before, x) ELSE before
    BY <1>5, <2>3, <2>4, <2>5
  <2>8. Append(before, x) \in Seq(T) /\ Range(Append(before, x)) = Range(before) \cup {x}
    BY AppendedRange
  <2>9. Fine(k)
    BY <2>4, <2>6, <2>7, <2>8
  <2> QED
    BY <2>1, <2>9
<1>7. Range(sequence) = {sequence[i] : i \in 1..n}
  BY <1>1 DEF Range
<1>8. Fine(n)
  <2>1. n \in 0..n
    BY <1>1
  <2> HIDE DEF Fine
  <2> QED
    BY <1>6, <2>1
<1> QED
  BY <1>2, <1>7, <1>8

LEMMA TouchedOrder ==
  ASSUME NEW T, order \in Seq(T), NEW s \in T
  PROVE  Touched(s) \in Seq(T) /\ Range(Touched(s)) = Range(order) \cup {s}
<1>1. PICK rest : rest = Only(order, Range(order) \ {s})
  OBVIOUS
<1>2. rest \in Seq(T) /\ Range(rest) = Range(order) \ {s}
  BY <1>1, OnlyKeeps
<1>3. Append(rest, s) \in Seq(T) /\ Range(Append(rest, s)) = Range(rest) \cup {s}
  BY <1>2, AppendedRange
<1> QED
  BY <1>1, <1>2, <1>3 DEF Touched

-----------------------------------------------------------------------------
(* What is counted.                                                        *)

Mapped(table) == Range(table) \ {NoSlot}

KindGood(c) ==
  /\ c.at \in {"lookup", "init", "decode"} => c.kind # "insert"
  /\ c.at = "place" => c.kind = "insert"
  /\ c # Idle /\ c.kind = "insert" => c.value \in Pixels

(* A call that will count the slot it holds, or may yet.                   *)
Charging(c) == c.at \in {"decode", "charge"} \/ (c.at = "touch" /\ c.kind = "insert")

(* It has not done so, and only a decode is still to write the slot.       *)
ChargeDue(c, all) ==
  Charging(c) => all[c.slot].charged = 0 /\ (c.at = "decode" <=> all[c.slot].value = NoValue)

(* A slot is counted by one call, when it holds something.                 *)
CountedOnce(all, calls) ==
  /\ \A t \in Threads : KindGood(calls[t]) /\ ChargeDue(calls[t], all)
  /\ \A t, u \in Threads :
       t # u /\ Charging(calls[t]) /\ Charging(calls[u]) => calls[t].slot # calls[u].slot
  /\ \A s \in DOMAIN all : all[s].charged > 0 => all[s].value # NoValue

InUse(c, used) == c.at \in {"init", "decode", "charge"} => c.slot \in used

(* What was counted is among the slots eviction looks at.                  *)
Reachable(all, calls, used) ==
  /\ \A t \in Threads : InUse(calls[t], used)
  /\ \A s \in DOMAIN all : all[s].charged > 0 => s \in used

(* The total is the sum, and fits as BudgetKept says.                      *)
Balanced(all, table, total) ==
  /\ total = ChargesIn(all, Mapped(table))
  /\ total <= Budget \/ Cardinality({s \in Mapped(table) : all[s].charged > 0}) = 1

LedgerInv ==
  /\ order \in Seq(SlotIds)
  /\ CountedOnce(slots, call)
  /\ Reachable(slots, call, Range(order))
  /\ Balanced(slots, map, bytes)

LEMMA LedgerSays ==
  ASSUME LedgerInv
  PROVE  BytesAreTheSum /\ BudgetKept
<1>1. ChargesOf(Range(map) \ {NoSlot}) = ChargesIn(slots, Mapped(map))
  BY DEF ChargesOf, ChargesIn, Mapped
<1> QED
  BY <1>1 DEF LedgerInv, Balanced, BytesAreTheSum, BudgetKept, Mapped

LEMMA MappedSlots ==
  ASSUME NEW all, SlotsTyped(all), NEW table, NEW calls, SlotsHeld(all, table, calls),
         table \in [Paths -> SlotIds \cup {NoSlot}]
  PROVE  /\ IsFiniteSet(Mapped(table)) /\ Mapped(table) \subseteq DOMAIN all
         /\ Charged(all, Mapped(table))
         /\ \A p \in Paths : \A s : s = table[p] => s = NoSlot \/ s \in Mapped(table)
         /\ \A s \in Mapped(table) : \E p \in Paths : s = table[p] /\ all[s].path = p
<1>1. \A s \in Mapped(table) : \E p \in Paths : s = table[p] /\ s # NoSlot
  BY DEF Mapped, Range
<1>2. \A s \in Mapped(table) : s \in SlotIds /\ s \in DOMAIN all
  BY <1>1 DEF SlotsHeld
<1>3. IsFiniteSet(SlotIds)
  BY Constants, FS_CardinalityType, FS_Interval DEF SlotIds
<1>4. IsFiniteSet(Mapped(table))
  BY <1>2, <1>3, FS_Subset
<1>5. Charged(all, Mapped(table))
  BY <1>2 DEF Charged, SlotsTyped, Slot
<1>6. \A p \in Paths : \A s : s = table[p] => s = NoSlot \/ s \in Mapped(table)
  BY DEF Mapped, Range
<1>7. \A s \in Mapped(table) : \E p \in Paths : s = table[p] /\ all[s].path = p
  BY <1>1 DEF SlotsHeld
<1> QED
  BY <1>2, <1>4, <1>5, <1>6, <1>7

(* A call that goes on, with the slots and the map as they were.           *)
LEMMA CallLedger ==
  ASSUME CacheInv, LedgerInv, UNCHANGED map, UNCHANGED slots, UNCHANGED bytes,
         NEW t \in Threads, NEW d, call' = [call EXCEPT ![t] = d],
         order' \in Seq(SlotIds), Range(order) \subseteq Range(order'),
         KindGood(d), ChargeDue(d, slots), InUse(d, Range(order')),
         Charging(d) => \A u \in Threads : u # t /\ Charging(call[u]) => call[u].slot # d.slot
  PROVE  LedgerInv'
<1>1. call'[t] = d /\ \A u \in Threads : u # t => call'[u] = call[u]
  BY DEF CacheInv, StateTyped
<1>2. CountedOnce(slots, call')
  BY <1>1 DEF LedgerInv, CountedOnce
<1>3. Reachable(slots, call', Range(order'))
  BY <1>1 DEF LedgerInv, Reachable, InUse
<1>4. CountedOnce(slots, call)' /\ Reachable(slots, call, Range(order))'
  BY <1>2, <1>3 DEF CountedOnce, Reachable, KindGood, ChargeDue, Charging, InUse
<1>5. Balanced(slots, map, bytes)'
  BY DEF LedgerInv, Balanced
<1> QED
  BY <1>4, <1>5 DEF LedgerInv

(* What is dropped when nobody holds it was not counted.                   *)
LEMMA KeepLedger ==
  ASSUME CacheInv', NEW all, Keep(all), NEW sequence \in Seq(SlotIds), KeepOrder(sequence),
         CountedOnce(all, call'), Reachable(all, call', Range(sequence)),
         SlotsTyped(all), SlotsHeld(all, map', call'),
         Balanced(all, map', bytes')
  PROVE  LedgerInv'
<1>1. /\ \A s : s \in DOMAIN slots' <=> s \in DOMAIN all /\ s \in Alive(map', call', under')
      /\ \A s \in DOMAIN slots' : slots'[s] = all[s]
  BY DEF Keep
<1>2. order' \in Seq(SlotIds) /\ Range(order') = Range(sequence) \cap Alive(map', call', under')
  BY OnlyKeeps DEF KeepOrder
<1>3. ASSUME NEW t \in Threads, call'[t].slot # NoSlot
      PROVE  call'[t].slot \in DOMAIN slots' /\ slots'[call'[t].slot] = all[call'[t].slot]
  BY <1>1, <1>3 DEF CacheInv, SlotsHeld
<1>4. ASSUME NEW t \in Threads, call'[t].at \in Given PROVE call'[t].slot # NoSlot
  BY <1>4 DEF CacheInv, CallGood, Given, Idle
<1>5. CountedOnce(slots, call)'
  <2>1. ASSUME NEW t \in Threads PROVE KindGood(call[t])' /\ ChargeDue(call[t], slots)'
    <3>1. KindGood(call'[t]) /\ ChargeDue(call'[t], all)
      BY DEF CountedOnce
    <3>2. Charging(call'[t]) => call'[t].at \in Given
      BY DEF Charging, Given
    <3> QED
      BY <1>3, <1>4, <3>1, <3>2 DEF KindGood, ChargeDue, Charging
  <2> QED
    BY <1>1, <2>1 DEF CountedOnce, Charging
<1>6. Reachable(slots, call, Range(order))'
  <2>1. ASSUME NEW t \in Threads, call'[t].at \in {"init", "decode", "charge"}
        PROVE  call'[t].slot \in Range(order')
    <3>1. call'[t].slot \in Range(sequence)
      BY <2>1 DEF Reachable, InUse
    <3>2. call'[t].slot # NoSlot
      BY <1>4, <2>1 DEF Given
    <3> QED
      BY <1>1, <1>2, <1>3, <3>1, <3>2
  <2>2. ASSUME NEW s \in DOMAIN slots', slots'[s].charged > 0 PROVE s \in Range(order')
    BY <1>1, <1>2, <2>2 DEF Reachable
  <2> QED
    BY <2>1, <2>2 DEF Reachable, InUse
<1>7. Balanced(slots, map, bytes)'
  <2>1. map' \in [Paths -> SlotIds \cup {NoSlot}] /\ SlotsHeld(slots', map', call') /\ SlotsTyped(slots')
    BY DEF CacheInv, StateTyped, SlotsHeld, SlotsTyped
  <2>2. PICK table : table = map'
    OBVIOUS
  <2>3. PICK now : now = slots'
    OBVIOUS
  <2>4. PICK calls : calls = call'
    OBVIOUS
  <2>5. Mapped(table) \subseteq DOMAIN now /\ IsFiniteSet(Mapped(table)) /\ Charged(all, Mapped(table))
    BY <2>1, <2>2, <2>3, <2>4, MappedSlots
  <2>6. \A s \in Mapped(table) : now[s] = all[s]
    BY <1>1, <2>3, <2>5
  <2>7. ChargesIn(now, Mapped(table)) = ChargesIn(all, Mapped(table))
    BY <2>5, <2>6, SumAgrees
  <2>8. {s \in Mapped(table) : now[s].charged > 0} = {s \in Mapped(table) : all[s].charged > 0}
    BY <2>6
  <2>9. Balanced(now, table, bytes')
    BY <2>2, <2>7, <2>8 DEF Balanced
  <2> QED
    BY <2>2, <2>3, <2>9 DEF Balanced
<1> QED
  BY <1>2, <1>5, <1>6, <1>7 DEF LedgerInv

LEMMA CallOf ==
  ASSUME CacheInv, LedgerInv, NEW t \in Threads, call[t].at \in Places
  PROVE  /\ call[t] \in Call /\ call[t] # Idle /\ call[t].path \in Paths
         /\ CallGood(call[t], slots)
         /\ KindGood(call[t]) /\ ChargeDue(call[t], slots) /\ InUse(call[t], Range(order))
         /\ call[t].slot # NoSlot => call[t].slot \in DOMAIN slots /\ slots[call[t].slot] \in Slot
<1>1. call[t] \in Call /\ call[t] # Idle /\ call[t].path \in Paths
  BY AtWork DEF CacheInv
<1> QED
  BY <1>1 DEF CacheInv, SlotsHeld, SlotsTyped, LedgerInv, CountedOnce, Reachable

LEMMA OthersCharge ==
  ASSUME LedgerInv, NEW t \in Threads, Charging(call[t])
  PROVE  \A u \in Threads : u # t /\ Charging(call[u]) => call[u].slot # call[t].slot
  BY DEF LedgerInv, CountedOnce

LEMMA LookupHitLedger ==
  ASSUME CacheInv, LedgerInv, NEW t \in Threads, LookupHit(t)
  PROVE  LedgerInv'
<1>1. PICK c \in Call : c = call[t] /\ c.at = "lookup" /\ KindGood(c) /\ c.path \in Paths
  BY CallOf DEF LookupHit, Places
<1>2. PICK s \in SlotIds : s = map[c.path]
  BY <1>1 DEF LookupHit, Hit, CacheInv, StateTyped
<1>3. call' = [call EXCEPT ![t].at = "touch", ![t].slot = s]
  BY <1>1, <1>2 DEF LookupHit
<1>4. PICK d : call' = [call EXCEPT ![t] = d] /\ MovesTo(c, d, "touch", s, c.value)
  BY <1>1, <1>3, SlotWritten DEF CacheInv, Places
<1>5. KindGood(d) /\ ~Charging(d) /\ ChargeDue(d, slots) /\ InUse(d, Range(order))
  BY <1>1, <1>4 DEF MovesTo, KindGood, Charging, ChargeDue, InUse
<1>6. UNCHANGED map /\ UNCHANGED slots /\ UNCHANGED bytes /\ UNCHANGED order
  BY DEF LookupHit, cacheVars
<1> QED
  BY <1>4, <1>5, <1>6, CallLedger DEF LedgerInv

LEMMA TouchLedger ==
  ASSUME CacheInv, LedgerInv, NEW t \in Threads, Touch(t)
  PROVE  LedgerInv'
<1>1. PICK c \in Call : /\ c = call[t] /\ c.at = "touch" /\ KindGood(c) /\ ChargeDue(c, slots)
                        /\ CallGood(c, slots) /\ c # Idle
  BY CallOf DEF Touch, Places
<1>2. PICK s \in SlotIds : s = c.slot
  BY <1>1 DEF CallGood, Given, Call
<1>3. PICK at \in Places : /\ call' = [call EXCEPT ![t].at = at]
                           /\ at = IF c.kind = "insert" THEN "charge" ELSE "init"
  BY <1>1 DEF Touch, Places
<1>4. PICK d : call' = [call EXCEPT ![t] = d] /\ MovesTo(c, d, at, s, c.value)
  BY <1>1, <1>2, <1>3, AtWritten DEF CacheInv
<1>5. order' = Touched(s) /\ order \in Seq(SlotIds)
  BY <1>1, <1>2 DEF Touch, LedgerInv
<1>6. order' \in Seq(SlotIds) /\ Range(order') = Range(order) \cup {s}
  BY <1>5, TouchedOrder
<1>7. KindGood(d) /\ ChargeDue(d, slots) /\ InUse(d, Range(order'))
  BY <1>1, <1>2, <1>3, <1>4, <1>6 DEF MovesTo, KindGood, Charging, ChargeDue, InUse
<1>8. Charging(d) => Charging(c) /\ d.slot = c.slot
  BY <1>1, <1>2, <1>3, <1>4 DEF MovesTo, Charging
<1>9. Charging(d) => \A u \in Threads : u # t /\ Charging(call[u]) => call[u].slot # d.slot
  BY <1>1, <1>8, OthersCharge
<1>10. UNCHANGED map /\ UNCHANGED slots /\ UNCHANGED bytes
  BY DEF Touch
<1> QED
  BY <1>4, <1>6, <1>7, <1>9, <1>10, CallLedger

LEMMA BeginDecodeLedger ==
  ASSUME CacheInv, LedgerInv, NEW t \in Threads, BeginDecode(t)
  PROVE  LedgerInv'
<1>1. PICK c \in Call : /\ c = call[t] /\ c.at = "init" /\ KindGood(c) /\ InUse(c, Range(order))
                        /\ CallGood(c, slots) /\ c # Idle
  BY CallOf DEF BeginDecode, Places
<1>2. PICK s \in SlotIds : s = c.slot /\ s \in DOMAIN slots /\ slots[s] \in Slot
  <2>1. c.slot # NoSlot
    BY <1>1 DEF CallGood, Given
  <2> QED
    BY <1>1, <2>1, CallOf DEF Call, Places
<1>3. slots[s].value = NoValue /\ ~Decoding(s)
  BY <1>1, <1>2 DEF BeginDecode
<1>4. PICK d : call' = [call EXCEPT ![t] = d] /\ MovesTo(c, d, "decode", s, c.value)
  BY <1>1, <1>2, AtWritten DEF BeginDecode, CacheInv, Places
<1>5. slots[s].charged = 0
  BY <1>2, <1>3 DEF LedgerInv, CountedOnce, Slot
<1>6. KindGood(d) /\ ChargeDue(d, slots) /\ InUse(d, Range(order))
  BY <1>1, <1>2, <1>3, <1>4, <1>5 DEF MovesTo, KindGood, Charging, ChargeDue, InUse
<1>7. ASSUME NEW u \in Threads, Charging(call[u]), call[u].slot = s PROVE FALSE
  <2>1. call[u].at # "decode"
    <3>1. call[u] \in UNION {{call[v]} \cup Range(under[v]) : v \in Threads}
      OBVIOUS
    <3> QED
      BY <1>3, <1>7, <3>1 DEF Decoding
  <2>2. ChargeDue(call[u], slots)
    BY DEF LedgerInv, CountedOnce
  <2> QED
    BY <1>3, <1>7, <2>1, <2>2 DEF ChargeDue
<1>8. \A u \in Threads : u # t /\ Charging(call[u]) => call[u].slot # d.slot
  BY <1>4, <1>7 DEF MovesTo
<1>9. UNCHANGED map /\ UNCHANGED slots /\ UNCHANGED bytes /\ UNCHANGED order
  BY DEF BeginDecode, cacheVars
<1> QED
  BY <1>4, <1>6, <1>8, <1>9, CallLedger DEF LedgerInv

(* A call that ends, or has nothing to count.                              *)
LEMMA EndsLedger ==
  ASSUME CacheInv, LedgerInv, NEW t \in Threads, Reuse(t) \/ ChargeNothing(t)
  PROVE  LedgerInv'
<1>1. PICK c \in Call : c = call[t] /\ c # Idle /\ c.at \in {"init", "charge"} /\ KindGood(c)
                        /\ CallGood(c, slots)
  BY CallOf DEF Reuse, ChargeNothing, Places
<1>2. PICK d : /\ call' = [call EXCEPT ![t] = d]
               /\ d \in Call /\ d.at = "end" /\ d.kind = c.kind
               /\ d.kind = "insert" => d.value = c.value
  <2>1. CASE Reuse(t)
    <3>1. PICK s : s = c.slot /\ s \in DOMAIN slots
      BY <1>1, <2>1 DEF Reuse, CallGood, Given, CacheInv, SlotsHeld
    <3>2. PICK value \in Pixels : value = slots[s].value
      <4>1. slots[s] \in Slot
        BY <3>1 DEF CacheInv, SlotsTyped
      <4> QED
        BY <1>1, <2>1, <3>1, <4>1 DEF Reuse, Filled, Slot
    <3>3. call' = [call EXCEPT ![t].at = "end", ![t].value = value]
      BY <1>1, <2>1, <3>1, <3>2 DEF Reuse
    <3>4. PICK d : call' = [call EXCEPT ![t] = d] /\ MovesTo(c, d, "end", c.slot, value)
      BY <1>1, <3>3, ValueWritten DEF CacheInv, Places
    <3>5. c.kind # "insert"
      BY <1>1, <2>1 DEF Reuse, KindGood
    <3> QED
      BY <3>4, <3>5 DEF MovesTo
  <2>2. CASE ChargeNothing(t)
    <3>1. PICK d : call' = [call EXCEPT ![t] = d] /\ MovesTo(c, d, "end", c.slot, c.value)
      BY <1>1, <2>2, AtWritten DEF ChargeNothing, CacheInv, Places
    <3> QED
      BY <3>1 DEF MovesTo
  <2> QED
    BY <2>1, <2>2
<1>3. KindGood(d) /\ ~Charging(d) /\ ChargeDue(d, slots) /\ InUse(d, Range(order))
  BY <1>1, <1>2 DEF KindGood, Charging, ChargeDue, InUse
<1>4. UNCHANGED map /\ UNCHANGED slots /\ UNCHANGED bytes /\ UNCHANGED order
  BY DEF Reuse, ChargeNothing, cacheVars
<1> QED
  BY <1>2, <1>3, <1>4, CallLedger DEF LedgerInv

LEMMA IdleIsGood ==
  /\ KindGood(Idle) /\ ~Charging(Idle)
  /\ \A all, used : ChargeDue(Idle, all) /\ InUse(Idle, used)
  BY DEF KindGood, Charging, ChargeDue, InUse, Idle

LEMMA RepaintLedger ==
  ASSUME CacheInv, LedgerInv, NEW t \in Threads, Repaint(t)
  PROVE  LedgerInv'
<1>1. call' = [call EXCEPT ![t] = Idle]
  BY Returned DEF Repaint, CacheInv
<1>2. UNCHANGED map /\ UNCHANGED slots /\ UNCHANGED bytes /\ UNCHANGED order
  BY DEF Repaint, cacheVars
<1> QED
  BY <1>1, <1>2, IdleIsGood, CallLedger DEF LedgerInv

LEMMA TakeLedger ==
  ASSUME CacheInv, LedgerInv, NEW t \in Threads, NEW p \in Paths,
         TakeShown(t, p) \/ Get(t, p) \/ Insert(t, p)
  PROVE  LedgerInv'
<1>1. file[p] \in Versions
  BY DEF CacheInv, StateTyped
<1>2. UNCHANGED map /\ UNCHANGED slots /\ UNCHANGED bytes /\ UNCHANGED order
  BY DEF TakeShown, Get, Insert, cacheVars
<1>3. PICK c : Take(t, c) /\ KindGood(c) /\ ~Charging(c) /\ c.at \in {"lookup", "place"}
  <2>1. CASE TakeShown(t, p)
    <3>1. PICK c : c = Asking("shown", p, "lookup", NoValue)
      OBVIOUS
    <3>2. c.at = "lookup" /\ c.kind = "shown"
      BY <3>1 DEF Asking
    <3> QED
      BY <2>1, <3>1, <3>2 DEF TakeShown, KindGood, Charging
  <2>2. CASE Get(t, p)
    <3>1. PICK c : c = Asking("many", p, "lookup", NoValue)
      OBVIOUS
    <3>2. c.at = "lookup" /\ c.kind = "many"
      BY <3>1 DEF Asking
    <3> QED
      BY <2>2, <3>1, <3>2 DEF Get, KindGood, Charging
  <2>3. CASE Insert(t, p)
    <3>1. PICK c : c = Asking("insert", p, "place", [given |-> TRUE, version |-> file[p]])
      OBVIOUS
    <3>2. c.at = "place" /\ c.kind = "insert" /\ c.value \in Pixels
      BY <1>1, <3>1 DEF Asking, Pixels
    <3> QED
      BY <2>3, <3>1, <3>2 DEF Insert, KindGood, Charging
  <2> QED
    BY <2>1, <2>2, <2>3
<1>4. call' = [call EXCEPT ![t] = c]
  BY <1>3 DEF Take
<1>5. ChargeDue(c, slots) /\ InUse(c, Range(order))
  BY <1>3 DEF ChargeDue, InUse
<1> QED
  BY <1>2, <1>3, <1>4, <1>5, CallLedger DEF LedgerInv

LEMMA DecodeLedger ==
  ASSUME CacheInv, CacheInv', LedgerInv, NEW t \in Threads, Decode(t)
  PROVE  LedgerInv'
<1>1. PICK c \in Call : /\ c = call[t] /\ c.at = "decode" /\ c # Idle /\ c.path \in Paths
                        /\ KindGood(c) /\ ChargeDue(c, slots) /\ InUse(c, Range(order))
                        /\ CallGood(c, slots)
  BY CallOf DEF Decode, Places
<1>2. PICK s : s = c.slot /\ s \in DOMAIN slots /\ s # NoSlot /\ s \in Range(order)
  BY <1>1 DEF CallGood, Given, CacheInv, SlotsHeld, InUse
<1>3. PICK version \in Pixels : version = [given |-> FALSE, version |-> file[c.path]]
  <2>1. [given |-> FALSE, version |-> file[c.path]] \in Pixels
    BY <1>1 DEF CacheInv, StateTyped, Pixels
  <2> QED
    BY <2>1
<1>4. PICK now : now = slots'
  OBVIOUS
<1>5. /\ now = [slots EXCEPT ![s].value = version]
      /\ UNCHANGED map /\ UNCHANGED bytes /\ UNCHANGED order
  BY <1>1, <1>2, <1>3, <1>4 DEF Decode
<1>6. slots \in [DOMAIN slots -> Slot]
  BY DEF CacheInv, SlotsTyped
<1>7. /\ DOMAIN now = DOMAIN slots /\ now[s].value = version
      /\ \A x \in DOMAIN slots : now[x].charged = slots[x].charged /\ (x # s => now[x] = slots[x])
  <2>1. PICK old \in Slot : old = slots[s]
    BY <1>2, <1>6
  <2>2. [old EXCEPT !.value = version].charged = old.charged /\ [old EXCEPT !.value = version].value = version
    BY DEF Slot
  <2>3. now = [slots EXCEPT ![s] = [old EXCEPT !.value = version]]
    BY <1>5, <2>1
  <2> QED
    BY <1>2, <1>6, <2>1, <2>2, <2>3
<1>8. PICK at \in Places : /\ call' = [call EXCEPT ![t].value = version, ![t].at = at]
                           /\ at \in {"end", "charge"}
  BY <1>1, <1>3 DEF Decode, Places
<1>9. PICK d : call' = [call EXCEPT ![t] = d] /\ MovesTo(c, d, at, s, version)
  BY <1>1, <1>2, <1>8, ValueWritten DEF CacheInv
<1>10. call'[t] = d /\ \A u \in Threads : u # t => call'[u] = call[u]
  BY <1>9 DEF CacheInv, StateTyped
<1>11. version # NoValue /\ c.kind # "insert"
  BY <1>1, Constants DEF KindGood
<1>12. KindGood(d) /\ ChargeDue(d, now) /\ InUse(d, Range(order)) /\ d.slot = s
  BY <1>1, <1>2, <1>7, <1>8, <1>9, <1>11 DEF MovesTo, KindGood, ChargeDue, Charging, InUse
<1>13. Charging(c)
  BY <1>1 DEF Charging
<1>14. ASSUME NEW u \in Threads, u # t
       PROVE  KindGood(call[u]) /\ ChargeDue(call[u], now) /\ (Charging(call[u]) => call[u].slot # s)
  <2>1. KindGood(call[u]) /\ ChargeDue(call[u], slots)
    BY DEF LedgerInv, CountedOnce
  <2>2. Charging(call[u]) => call[u].slot # s
    BY <1>1, <1>2, <1>13, <1>14, OthersCharge
  <2>3. Charging(call[u]) => call[u].slot \in DOMAIN slots
    <3>1. Charging(call[u]) => call[u].slot # NoSlot
      BY DEF Charging, CacheInv, CallGood, Given, Idle
    <3> QED
      BY <3>1 DEF CacheInv, SlotsHeld
  <2> QED
    BY <1>7, <2>1, <2>2, <2>3 DEF ChargeDue
<1>15. CountedOnce(now, call')
  <2>1. ASSUME NEW u \in Threads PROVE KindGood(call'[u]) /\ ChargeDue(call'[u], now)
    BY <1>10, <1>12, <1>14
  <2>2. ASSUME NEW u \in Threads, NEW v \in Threads, u # v, Charging(call'[u]), Charging(call'[v])
        PROVE  call'[u].slot # call'[v].slot
    <3>1. CASE u = t
      BY <1>10, <1>12, <1>14, <2>2, <3>1
    <3>2. CASE v = t
      BY <1>10, <1>12, <1>14, <2>2, <3>2
    <3>3. CASE u # t /\ v # t
      BY <1>10, <2>2, <3>3 DEF LedgerInv, CountedOnce
    <3> QED
      BY <3>1, <3>2, <3>3
  <2>3. \A x \in DOMAIN now : now[x].charged > 0 => now[x].value # NoValue
    BY <1>7, <1>11 DEF LedgerInv, CountedOnce
  <2> QED
    BY <2>1, <2>2, <2>3 DEF CountedOnce
<1>16. Reachable(now, call', Range(order))
  BY <1>7, <1>10, <1>12 DEF LedgerInv, Reachable
<1>17. Balanced(now, map, bytes)
  <2>1. Mapped(map) \subseteq DOMAIN slots /\ IsFiniteSet(Mapped(map)) /\ Charged(slots, Mapped(map))
    BY MappedSlots DEF CacheInv, StateTyped
  <2>2. ChargesIn(now, Mapped(map)) = ChargesIn(slots, Mapped(map))
    BY <1>7, <2>1, SumAgrees
  <2>3. {x \in Mapped(map) : now[x].charged > 0} = {x \in Mapped(map) : slots[x].charged > 0}
    BY <1>7, <2>1
  <2> QED
    BY <2>2, <2>3 DEF LedgerInv, Balanced
<1>18. CountedOnce(slots, call)' /\ Reachable(slots, call, Range(order))' /\ Balanced(slots, map, bytes)'
  BY <1>4, <1>5, <1>15, <1>16, <1>17
     DEF CountedOnce, Reachable, KindGood, ChargeDue, Charging, InUse, Balanced
<1> QED
  BY <1>5, <1>18 DEF LedgerInv

-----------------------------------------------------------------------------
(* Slots that leave the map.                                               *)

(* Without the slot of one path, the rest add up to what is left, and fit. *)
LEMMA OneTakenOff ==
  ASSUME CacheInv, LedgerInv, NEW p \in Paths,
         NEW rest, rest = Mapped(map) \ {map[p]}
  PROVE  /\ bytes \in Nat /\ TakenOff(p) \in Nat
         /\ ChargesIn(slots, rest) \in Nat /\ bytes - TakenOff(p) = ChargesIn(slots, rest)
         /\ \/ bytes - TakenOff(p) <= Budget
            \/ Cardinality({s \in rest : slots[s].charged > 0}) = 1
<1> DEFINE all == Mapped(map)
           counted == {s \in all : slots[s].charged > 0}
<1>1. /\ IsFiniteSet(all) /\ all \subseteq DOMAIN slots /\ Charged(slots, all)
      /\ \A s : s = map[p] => s = NoSlot \/ s \in all
  BY MappedSlots DEF CacheInv, StateTyped
<1>2. bytes = ChargesIn(slots, all) /\ (bytes <= Budget \/ Cardinality(counted) = 1)
  BY DEF LedgerInv, Balanced
<1>3. NoSlot \notin all /\ Budget \in Nat
  BY CacheAssumption DEF Mapped
<1> HIDE DEF all
<1>4. CASE map[p] = NoSlot
  <2>1. rest = all /\ TakenOff(p) = 0
    BY <1>3, <1>4 DEF TakenOff, ChargeOf, all
  <2>2. ChargesIn(slots, all) \in Nat
    BY <1>1, SumSplit
  <2>3. bytes \in Nat /\ bytes - 0 = bytes
    BY <1>2, <2>2
  <2>4. {s \in rest : slots[s].charged > 0} = counted
    BY <2>1
  <2>5. bytes <= Budget \/ Cardinality({s \in rest : slots[s].charged > 0}) = 1
    BY <1>2, <2>4
  <2> HIDE DEF counted
  <2> QED
    BY <1>2, <2>1, <2>2, <2>3, <2>5
<1>5. CASE map[p] # NoSlot
  <2>1. PICK s : s = map[p] /\ s \in all /\ slots[s].charged \in Nat
    BY <1>1, <1>5 DEF Charged
  <2>2. TakenOff(p) = slots[s].charged
    BY <1>5, <2>1 DEF TakenOff, ChargeOf
  <2>3. rest \in SUBSET all /\ s \in all \ rest /\ rest \cup {s} = all
    BY <2>1 DEF all
  <2>4. ChargesIn(slots, rest) \in Nat /\ ChargesIn(slots, all) = ChargesIn(slots, rest) + slots[s].charged
    <3>1. \A r \in SUBSET all : \A x \in all \ r :
            /\ ChargesIn(slots, r) \in Nat
            /\ ChargesIn(slots, r \cup {x}) = ChargesIn(slots, r) + slots[x].charged
      BY <1>1, SumAdded, Zenon
    <3> QED
      BY <2>3, <3>1
  <2>5. /\ bytes \in Nat /\ bytes - TakenOff(p) = ChargesIn(slots, rest)
        /\ bytes - TakenOff(p) <= bytes
    BY <1>2, <2>1, <2>2, <2>4
  <2>6. bytes - TakenOff(p) <= Budget \/ Cardinality({x \in rest : slots[x].charged > 0}) = 1
    <3>1. CASE bytes <= Budget
      BY <1>3, <2>4, <2>5, <3>1
    <3>2. CASE Cardinality(counted) = 1
      <4>1. IsFiniteSet(counted)
        BY <1>1, FS_Subset
      <4>2. PICK one : counted = {one}
        BY <3>2, <4>1, FS_Singleton
      <4>3. CASE one = s
        <5>1. \A x \in rest : slots[x].charged = 0
          BY <1>1, <2>1, <2>3, <4>2, <4>3 DEF Charged
        <5>2. IsFiniteSet(rest)
          BY <1>1, <2>3, FS_Subset
        <5>3. ChargesIn(slots, rest) = 0
          BY <5>1, <5>2, SumOfNothing
        <5> QED
          BY <1>3, <2>5, <5>3
      <4>4. CASE one # s
        <5>1. {x \in rest : slots[x].charged > 0} = counted
          BY <2>3, <4>2, <4>4
        <5> QED
          BY <3>2, <5>1
      <4> QED
        BY <4>3, <4>4
    <3> QED
      BY <1>2, <3>1, <3>2
  <2> QED
    BY <2>1, <2>2, <2>4, <2>5, <2>6
<1> QED
  BY <1>4, <1>5

(* The map without p, or with another slot for p.                          *)
LEMMA MappedWithout ==
  ASSUME CacheInv, NEW p \in Paths, NEW s \in SlotIds \cup {NoSlot},
         NEW table, table = [map EXCEPT ![p] = s]
  PROVE  Mapped(table) = (Mapped(map) \ {map[p]}) \cup ({s} \ {NoSlot})
<1>1. map \in [Paths -> SlotIds \cup {NoSlot}]
  BY DEF CacheInv, StateTyped
<1>2. \A q \in Paths : q # p /\ map[q] # NoSlot => map[q] # map[p]
  BY <1>1 DEF CacheInv, SlotsHeld
<1>3. \A x : x \in Mapped(map) <=> x # NoSlot /\ \E q \in Paths : x = map[q]
  BY <1>1 DEF Mapped, Range
<1>4. /\ \A x : x \in Mapped(table) <=> x # NoSlot /\ \E q \in Paths : x = table[q]
      /\ table[p] = s /\ \A q \in Paths : q # p => table[q] = map[q]
  BY <1>1 DEF Mapped, Range
<1>5. ASSUME NEW x
      PROVE  x \in Mapped(table) <=> (x \in Mapped(map) /\ x # map[p]) \/ (x = s /\ s # NoSlot)
  <2>1. ASSUME NEW q \in Paths, q # p, x = map[q], x # NoSlot
        PROVE  x \in Mapped(map) /\ x # map[p] /\ x \in Mapped(table)
    BY <1>2, <1>3, <1>4, <2>1
  <2>2. x \in Mapped(table) => x = s \/ \E q \in Paths : q # p /\ x = map[q]
    BY <1>4
  <2>3. x \in Mapped(map) /\ x # map[p] => \E q \in Paths : q # p /\ x = map[q]
    BY <1>3
  <2> QED
    BY <1>3, <1>4, <2>1, <2>2, <2>3
<1> HIDE DEF Mapped
<1>6. \A x : x \in Mapped(table) <=> x \in (Mapped(map) \ {map[p]}) \cup ({s} \ {NoSlot})
  BY <1>5
<1> QED
  BY <1>6

LEMMA ForgetLedger ==
  ASSUME CacheInv, CacheInv', LedgerInv, NEW p \in Paths, Forget(p)
  PROVE  LedgerInv'
<1>1. PICK table : table = map' /\ table = [map EXCEPT ![p] = NoSlot]
  BY DEF Forget, Dropped, CacheInv, StateTyped
<1>2. Mapped(table) = Mapped(map) \ {map[p]}
  <2>1. Mapped(table) = (Mapped(map) \ {map[p]}) \cup ({NoSlot} \ {NoSlot})
    BY <1>1, MappedWithout
  <2> QED
    BY <2>1
<1>3. Balanced(slots, map', bytes')
  BY <1>1, <1>2, OneTakenOff DEF Forget, Balanced
<1>4. UNCHANGED call /\ Keep(slots) /\ KeepOrder(order) /\ order \in Seq(SlotIds)
  BY DEF Forget, Dropped, threadVars, LedgerInv
<1>5. SlotsHeld(slots, map', call')
  BY <1>1, <1>4 DEF CacheInv, StateTyped, SlotsHeld
<1>6. CountedOnce(slots, call') /\ Reachable(slots, call', Range(order)) /\ SlotsTyped(slots)
  BY <1>4 DEF LedgerInv, CacheInv
<1> QED
  BY <1>3, <1>4, <1>5, <1>6, KeepLedger

LEMMA ClearLedger ==
  ASSUME CacheInv, CacheInv', LedgerInv, Clear
  PROVE  LedgerInv'
<1>1. map' = [p \in Paths |-> NoSlot] /\ bytes' = 0 /\ Budget \in Nat
  BY CacheAssumption DEF Clear, Dropped
<1>2. PICK table : table = map' /\ Mapped(table) = {}
  <2>1. Mapped([p \in Paths |-> NoSlot]) = {}
    BY DEF Mapped, Range
  <2> QED
    BY <1>1, <2>1
<1>3. ChargesIn(slots, {}) = 0
  BY FS_EmptySet, SumOfNothing
<1>4. Balanced(slots, map', bytes')
  BY <1>1, <1>2, <1>3 DEF Balanced
<1>5. UNCHANGED call /\ Keep(slots) /\ KeepOrder(order) /\ order \in Seq(SlotIds)
  BY DEF Clear, Dropped, threadVars, LedgerInv
<1>6. SlotsHeld(slots, map', call')
  BY <1>1, <1>5 DEF CacheInv, SlotsHeld
<1>7. CountedOnce(slots, call') /\ Reachable(slots, call', Range(order)) /\ SlotsTyped(slots)
  BY <1>5 DEF LedgerInv, CacheInv
<1> QED
  BY <1>4, <1>5, <1>6, <1>7, KeepLedger

(* A call lets go of its slot.                                             *)
LEMMA EndLedger ==
  ASSUME CacheInv, CacheInv', LedgerInv, NEW t \in Threads, Answer(t) \/ Land(t)
  PROVE  LedgerInv'
<1>1. PICK c \in Call : c = call[t] /\ c # Idle /\ c.at = "end"
  BY CallOf DEF Answer, Land, Places
<1>2. PICK d : /\ call' = [call EXCEPT ![t] = d] /\ d.slot = NoSlot
               /\ KindGood(d) /\ ~Charging(d) /\ InUse(d, Range(order)) /\ ChargeDue(d, slots)
  <2>1. CASE Answer(t)
    BY <2>1, Returned, IdleIsGood DEF Answer, CacheInv, Idle
  <2>2. CASE Land(t)
    <3>1. call' = [call EXCEPT ![t].at = "repaint", ![t].slot = NoSlot] /\ c.kind = "shown"
      BY <1>1, <2>2 DEF Land
    <3>2. PICK d : call' = [call EXCEPT ![t] = d] /\ MovesTo(c, d, "repaint", NoSlot, c.value)
      BY <1>1, <3>1, SlotWritten DEF CacheInv, Places
    <3> QED
      BY <3>1, <3>2 DEF MovesTo, KindGood, Charging, InUse, ChargeDue
  <2> QED
    BY <2>1, <2>2
<1>3. UNCHANGED map /\ UNCHANGED bytes /\ Keep(slots) /\ KeepOrder(order) /\ order \in Seq(SlotIds)
  BY DEF Answer, Land, LedgerInv
<1>4. call'[t] = d /\ \A u \in Threads : u # t => call'[u] = call[u]
  BY <1>2 DEF CacheInv, StateTyped
<1>5. CountedOnce(slots, call') /\ Reachable(slots, call', Range(order)) /\ SlotsTyped(slots)
  BY <1>2, <1>4 DEF LedgerInv, CountedOnce, Reachable, CacheInv
<1>6. SlotsHeld(slots, map', call') /\ Balanced(slots, map', bytes')
  BY <1>2, <1>3, <1>4 DEF CacheInv, SlotsHeld, LedgerInv
<1> QED
  BY <1>3, <1>5, <1>6, KeepLedger

LEMMA ReplaceLedger ==
  ASSUME CacheInv, CacheInv', LedgerInv, NEW t \in Threads, LookupMiss(t) \/ Place(t)
  PROVE  LedgerInv'
<1>1. PICK c \in Call : /\ c = call[t] /\ c # Idle /\ c.at \in {"lookup", "place"} /\ c.path \in Paths
                        /\ KindGood(c)
  BY CallOf DEF LookupMiss, Place, Places
<1>2. PICK value \in Pixels \cup {NoValue} :
        Replace(t, value) /\ (c.kind = "insert" => value # NoValue)
  <2>1. CASE LookupMiss(t)
    BY <1>1, <2>1 DEF LookupMiss, KindGood
  <2>2. CASE Place(t)
    <3>1. c.value \in Pixels
      BY <1>1, <2>2 DEF Place, KindGood
    <3>2. c.value # NoValue
      BY <3>1, Constants
    <3> QED
      BY <1>1, <2>2, <3>1, <3>2 DEF Place
  <2> QED
    BY <2>1, <2>2
<1>3. PICK p \in Paths : p = c.path
  BY <1>1
<1>4. PICK id \in SlotIds : id = NewId /\ id \notin DOMAIN slots /\ id # NoSlot
  BY SlotsToSpare
<1>5. PICK new \in Slot : /\ new = [path |-> p, stamp |-> c.stamp, value |-> value, charged |-> 0]
                          /\ new.path = p /\ new.value = value /\ new.charged = 0
  <2>1. [path |-> p, stamp |-> c.stamp, value |-> value, charged |-> 0] \in Slot
    BY <1>1, <1>3 DEF Slot, Call
  <2> QED
    BY <2>1
<1>6. PICK all : all = Put(p, new)
  OBVIOUS
<1>7. PICK table : table = map'
  OBVIOUS
<1>8. /\ table = [map EXCEPT ![p] = id] /\ bytes' = bytes - TakenOff(p)
      /\ call' = [call EXCEPT ![t].at = "touch", ![t].slot = id]
      /\ Keep(all) /\ KeepOrder(order)
  BY <1>1, <1>2, <1>3, <1>4, <1>5, <1>6, <1>7 DEF Replace
<1>9. /\ DOMAIN all = DOMAIN slots \cup {id} /\ all \in [DOMAIN slots \cup {id} -> Slot]
      /\ all[id] = new /\ \A s \in DOMAIN slots : all[s] = slots[s]
  BY <1>4, <1>5, <1>6 DEF Put, CacheInv, SlotsTyped
<1>10. SlotsTyped(all)
  BY <1>9 DEF CacheInv, SlotsTyped
<1>11. PICK d : call' = [call EXCEPT ![t] = d] /\ MovesTo(c, d, "touch", id, c.value)
  BY <1>1, <1>8, SlotWritten DEF CacheInv, Places
<1>12. call'[t] = d /\ d.slot = id /\ \A u \in Threads : u # t => call'[u] = call[u]
  BY <1>11 DEF CacheInv, StateTyped, MovesTo
<1>13. KindGood(d) /\ ChargeDue(d, all)
  BY <1>1, <1>2, <1>5, <1>9, <1>11 DEF MovesTo, KindGood, ChargeDue, Charging
<1>14. ASSUME NEW u \in Threads, u # t
       PROVE  /\ KindGood(call[u]) /\ ChargeDue(call[u], all)
              /\ call[u].slot # id
  <2>1. KindGood(call[u]) /\ ChargeDue(call[u], slots)
    BY DEF LedgerInv, CountedOnce
  <2>2. call[u].slot # NoSlot => call[u].slot \in DOMAIN slots
    BY DEF CacheInv, SlotsHeld
  <2>3. Charging(call[u]) => call[u].slot # NoSlot
    BY DEF Charging, CacheInv, CallGood, Given, Idle
  <2> QED
    BY <1>4, <1>9, <2>1, <2>2, <2>3 DEF ChargeDue
<1>15. CountedOnce(all, call')
  <2>1. ASSUME NEW u \in Threads PROVE KindGood(call'[u]) /\ ChargeDue(call'[u], all)
    BY <1>12, <1>13, <1>14
  <2>2. ASSUME NEW u \in Threads, NEW v \in Threads, u # v, Charging(call'[u]), Charging(call'[v])
        PROVE  call'[u].slot # call'[v].slot
    <3>1. CASE u = t \/ v = t
      BY <1>12, <1>14, <2>2, <3>1
    <3>2. CASE u # t /\ v # t
      BY <1>12, <2>2, <3>2 DEF LedgerInv, CountedOnce
    <3> QED
      BY <3>1, <3>2
  <2>3. \A x \in DOMAIN all : all[x].charged > 0 => all[x].value # NoValue
    BY <1>5, <1>9 DEF LedgerInv, CountedOnce
  <2> QED
    BY <2>1, <2>2, <2>3 DEF CountedOnce
<1>16. Reachable(all, call', Range(order)) /\ order \in Seq(SlotIds)
  <2>1. InUse(d, Range(order))
    BY <1>11 DEF MovesTo, InUse
  <2> QED
    BY <1>5, <1>9, <1>12, <2>1 DEF LedgerInv, Reachable
<1>17. SlotsHeld(all, map', call')
  BY <1>5, <1>7, <1>8, <1>9, <1>12 DEF CacheInv, StateTyped, SlotsHeld
<1>18. Balanced(all, map', bytes')
  <2>1. PICK rest : rest = Mapped(map) \ {map[p]}
    OBVIOUS
  <2>2. Mapped(table) = rest \cup {id}
    <3>1. Mapped(table) = rest \cup ({id} \ {NoSlot})
      BY <1>8, <2>1, MappedWithout
    <3> QED
      BY <1>4, <3>1
  <2>3. IsFiniteSet(Mapped(map)) /\ Mapped(map) \subseteq DOMAIN slots /\ Charged(slots, Mapped(map))
    BY MappedSlots DEF CacheInv, StateTyped
  <2>4. rest \subseteq DOMAIN slots /\ IsFiniteSet(rest) /\ Charged(slots, rest)
    BY <2>1, <2>3, FS_Subset DEF Charged
  <2>5. PICK now : now = Mapped(table) /\ now = rest \cup {id} /\ IsFiniteSet(now) /\ Charged(all, now)
    <3>1. IsFiniteSet(rest \cup {id})
      BY <2>4, FS_AddElement
    <3>2. Charged(all, rest \cup {id})
      BY <1>5, <1>9, <2>4 DEF Charged
    <3> QED
      BY <2>2, <3>1, <3>2
  <2>6. id \in now \ rest /\ rest \in SUBSET now
    BY <1>4, <2>4, <2>5
  <2>7. ChargesIn(all, rest \cup {id}) = ChargesIn(all, rest) + all[id].charged /\ ChargesIn(all, rest) \in Nat
    BY <2>5, <2>6, SumAdded
  <2>8. ChargesIn(all, rest) = ChargesIn(slots, rest)
    BY <1>9, <2>4, SumAgrees
  <2>9. bytes' = ChargesIn(slots, rest)
          /\ (bytes' <= Budget \/ Cardinality({s \in rest : slots[s].charged > 0}) = 1)
    BY <1>8, <2>1, OneTakenOff
  <2>10. {s \in rest : slots[s].charged > 0} = {s \in now : all[s].charged > 0}
    BY <1>5, <1>9, <2>4, <2>5
  <2>11. bytes' = ChargesIn(all, now)
    BY <1>5, <1>9, <2>5, <2>7, <2>8, <2>9
  <2> QED
    BY <1>7, <2>5, <2>9, <2>10, <2>11 DEF Balanced
<1> QED
  BY <1>8, <1>10, <1>15, <1>16, <1>17, <1>18, KeepLedger

-----------------------------------------------------------------------------
(* Eviction.                                                               *)

(* Either enough is let go, or all that eviction may let go.               *)
LEMMA EvictedEnough ==
  ASSUME CacheInv, LedgerInv, NEW id \in SlotIds, NEW total \in Nat,
         NEW others, others = {s \in Mapped(map) \ {id} : slots[s].charged > 0}
  PROVE  /\ Evicted(id, total) \subseteq others
         /\ \/ total - ChargesIn(slots, Evicted(id, total)) <= Budget
            \/ Evicted(id, total) = others
<1>1. PICK c : c = Candidates(id)
  OBVIOUS
<1>2. c \in Seq(SlotIds) /\ Range(c) = others
  <2>1. PICK may : may = {s \in Range(map) \ {NoSlot, id} : slots[s].charged > 0} /\ may = others
    BY DEF Mapped
  <2>2. c = Only(order, may) /\ order \in Seq(SlotIds)
    BY <1>1, <2>1 DEF Candidates, LedgerInv
  <2>3. c \in Seq(SlotIds) /\ Range(c) = Range(order) \cap may
    BY <2>2, OnlyKeeps
  <2>4. Mapped(map) \subseteq DOMAIN slots
    BY MappedSlots DEF CacheInv, StateTyped
  <2>5. others \subseteq Range(order)
    BY <2>4 DEF LedgerInv, Reachable
  <2> QED
    BY <2>1, <2>3, <2>5
<1>3. PICK n \in Nat : n = Len(c) /\ DOMAIN c = 1..n
  BY <1>2
<1> DEFINE first(k) == {c[i] : i \in 1..k}
           Fits(k) == total - ChargesIn(slots, first(k)) <= Budget
           gone == {c[i] : i \in {j \in 1..n : \A k \in 0..(j - 1) : ~Fits(k)}}
           enough == {k \in 0..n : Fits(k)}
<1>4. Evicted(id, total) = gone
  BY <1>1, <1>3 DEF Evicted, ChargesOf, ChargesIn
<1>5. first(n) = others /\ gone \subseteq others
  BY <1>2, <1>3 DEF Range
<1>6. CASE enough = {}
  <2>1. \A j \in 1..n : \A k \in 0..(j - 1) : ~Fits(k)
    <3> SUFFICES ASSUME NEW j \in 1..n, NEW k \in 0..(j - 1) PROVE ~Fits(k)
      OBVIOUS
    <3>1. k \in 0..n
      BY <1>3
    <3> HIDE DEF Fits
    <3> QED
      BY <1>6, <3>1
  <2>2. {j \in 1..n : \A k \in 0..(j - 1) : ~Fits(k)} = 1..n
    <3> HIDE DEF Fits
    <3> QED
      BY <2>1
  <2>3. gone = first(n)
    BY <2>2
  <2> QED
    BY <1>4, <1>5, <2>3
<1>7. CASE enough # {}
  <2>1. PICK m \in enough : \A k \in enough : m <= k
    <3> HIDE DEF enough
    <3>1. enough \subseteq Nat
      BY <1>3 DEF enough
    <3> QED
      BY <1>7, <3>1, LeastNumber
  <2>2. m \in 0..n /\ Fits(m)
    BY <2>1
  <2>3. \A j \in 1..n : (\A k \in 0..(j - 1) : ~Fits(k)) <=> j \in 1..m
    <3>1. ASSUME NEW j \in 1..n, j <= m, NEW k \in 0..(j - 1) PROVE ~Fits(k)
      <4>1. k \in 0..n /\ ~(m <= k)
        BY <1>3, <2>2, <3>1
      <4>2. k \notin enough
        <5> HIDE DEF enough
        <5> QED
          BY <2>1, <4>1
      <4> HIDE DEF Fits
      <4> QED
        BY <4>1, <4>2
    <3>2. ASSUME NEW j \in 1..n, ~(j <= m) PROVE ~\A k \in 0..(j - 1) : ~Fits(k)
      <4>1. m \in 0..(j - 1)
        BY <2>2, <3>2
      <4> HIDE DEF Fits
      <4> QED
        BY <2>2, <4>1
    <3>3. \A j \in 1..n : j \in 1..m <=> j <= m
      BY <2>2
    <3> HIDE DEF Fits
    <3> QED
      BY <3>1, <3>2, <3>3
  <2>4. {j \in 1..n : \A k \in 0..(j - 1) : ~Fits(k)} = 1..m
    <3>1. 1..m \subseteq 1..n
      BY <2>2
    <3> HIDE DEF Fits
    <3> QED
      BY <2>3, <3>1
  <2>5. gone = first(m)
    BY <2>4
  <2> QED
    BY <1>4, <1>5, <2>2, <2>5
<1> QED
  BY <1>6, <1>7

LEMMA ChargeKeptLedger ==
  ASSUME CacheInv, CacheInv', LedgerInv, NEW t \in Threads, ChargeKept(t)
  PROVE  LedgerInv'
<1>1. PICK c \in Call : /\ c = call[t] /\ c # Idle /\ c.at = "charge" /\ c.path \in Paths
                        /\ KindGood(c) /\ ChargeDue(c, slots) /\ InUse(c, Range(order))
                        /\ CallGood(c, slots)
  BY CallOf DEF ChargeKept, Places
<1>2. PICK s \in SlotIds : /\ s = c.slot /\ s \in DOMAIN slots /\ s # NoSlot /\ s \in Range(order)
                           /\ s = map[c.path]
  BY <1>1 DEF CallGood, Given, CacheInv, SlotsHeld, InUse, Call, ChargeKept, IsMapped
<1>3. PICK size \in Nat : size = SizeOf[c.path][c.value] /\ size > 0
  <2>1. c.value \in Pixels
    BY <1>1 DEF CallGood, HasValue
  <2> QED
    BY <1>1, <2>1, Constants
<1>4. PICK now : now = Mapped(map)
  OBVIOUS
<1>5. IsFiniteSet(now) /\ now \subseteq DOMAIN slots /\ Charged(slots, now) /\ s \in now
  BY <1>1, <1>2, <1>4, MappedSlots DEF CacheInv, StateTyped
<1>6. bytes = ChargesIn(slots, now) /\ bytes \in Nat
  <2>1. bytes = ChargesIn(slots, now)
    BY <1>4 DEF LedgerInv, Balanced
  <2> QED
    BY <1>5, <2>1, SumSplit
<1>7. PICK total \in Nat : total = bytes + size
  BY <1>6
<1>8. PICK gone : gone = Evicted(s, total)
  OBVIOUS
<1>9. PICK all : all = [slots EXCEPT ![s].charged = size]
  OBVIOUS
<1>10. PICK table : table = map'
  OBVIOUS
<1>11. /\ table = [q \in Paths |-> IF map[q] \in gone THEN NoSlot ELSE map[q]]
       /\ call' = [call EXCEPT ![t].at = "end"]
       /\ bytes' = total - ChargesIn(slots, gone)
       /\ Keep(all) /\ KeepOrder(order)
  <2>1. ChargesOf(gone) = ChargesIn(slots, gone)
    BY DEF ChargesOf, ChargesIn
  <2>2. gone = Evicted(call[t].slot, bytes + SizeOf[call[t].path][call[t].value]) /\ total = bytes + SizeOf[call[t].path][call[t].value]
    BY <1>1, <1>2, <1>3, <1>7, <1>8
  <2>3. map' = [q \in Paths |-> IF map[q] \in gone THEN NoSlot ELSE map[q]]
    BY <2>2 DEF ChargeKept
  <2>4. bytes' = total - ChargesOf(gone)
    BY <2>2, Zenon DEF ChargeKept
  <2>5. Keep(all)
    BY <1>1, <1>2, <1>3, <1>9 DEF ChargeKept
  <2>6. KeepOrder(order) /\ call' = [call EXCEPT ![t].at = "end"]
    BY DEF ChargeKept
  <2> QED
    BY <1>1, <1>3, <1>10, <2>1, <2>3, <2>4, <2>5, <2>6
<1>12. ChargeDue(c, slots) /\ slots[s].charged = 0 /\ slots[s].value # NoValue
  BY <1>1, <1>2 DEF ChargeDue, Charging
<1>13. /\ DOMAIN all = DOMAIN slots /\ SlotsTyped(all) /\ all[s].charged = size
       /\ \A x \in DOMAIN slots : all[x].value = slots[x].value /\ all[x].path = slots[x].path
       /\ \A x \in DOMAIN slots : x # s => all[x] = slots[x]
  <2>1. slots \in [DOMAIN slots -> Slot]
    BY DEF CacheInv, SlotsTyped
  <2>2. PICK old \in Slot : old = slots[s]
    BY <1>2, <2>1
  <2>3. /\ [old EXCEPT !.charged = size] \in Slot
        /\ [old EXCEPT !.charged = size].path = old.path
        /\ [old EXCEPT !.charged = size].value = old.value
        /\ [old EXCEPT !.charged = size].charged = size
    BY DEF Slot
  <2>4. all = [slots EXCEPT ![s] = [old EXCEPT !.charged = size]]
    BY <1>9, <2>2
  <2> QED
    BY <1>2, <2>1, <2>2, <2>3, <2>4 DEF CacheInv, SlotsTyped
<1>14. PICK d : call' = [call EXCEPT ![t] = d] /\ MovesTo(c, d, "end", c.slot, c.value)
  BY <1>1, <1>11, AtWritten DEF CacheInv, Places
<1>15. call'[t] = d /\ d.slot = s /\ \A u \in Threads : u # t => call'[u] = call[u]
  BY <1>2, <1>14 DEF CacheInv, StateTyped, MovesTo
<1>16. KindGood(d) /\ ~Charging(d) /\ InUse(d, Range(order)) /\ ChargeDue(d, all)
  BY <1>1, <1>14 DEF MovesTo, KindGood, Charging, InUse, ChargeDue
<1>17. ASSUME NEW u \in Threads, u # t
       PROVE  KindGood(call[u]) /\ ChargeDue(call[u], all)
  <2>1. KindGood(call[u]) /\ ChargeDue(call[u], slots)
    BY DEF LedgerInv, CountedOnce
  <2>2. Charging(call[u]) => call[u].slot # s
    BY <1>1, <1>2, <1>17, OthersCharge DEF Charging
  <2>3. Charging(call[u]) => call[u].slot \in DOMAIN slots
    <3>1. Charging(call[u]) => call[u].slot # NoSlot
      BY DEF Charging, CacheInv, CallGood, Given, Idle
    <3> QED
      BY <3>1 DEF CacheInv, SlotsHeld
  <2> QED
    BY <1>13, <2>1, <2>2, <2>3 DEF ChargeDue
<1>18. CountedOnce(all, call')
  <2>1. ASSUME NEW u \in Threads PROVE KindGood(call'[u]) /\ ChargeDue(call'[u], all)
    BY <1>15, <1>16, <1>17
  <2>2. ASSUME NEW u \in Threads, NEW v \in Threads, u # v, Charging(call'[u]), Charging(call'[v])
        PROVE  call'[u].slot # call'[v].slot
    BY <1>15, <1>16, <2>2 DEF LedgerInv, CountedOnce
  <2>3. \A x \in DOMAIN all : all[x].charged > 0 => all[x].value # NoValue
    BY <1>12, <1>13 DEF LedgerInv, CountedOnce
  <2> QED
    BY <2>1, <2>2, <2>3 DEF CountedOnce
<1>19. Reachable(all, call', Range(order)) /\ order \in Seq(SlotIds)
  BY <1>2, <1>13, <1>15, <1>16 DEF LedgerInv, Reachable
<1>20. table \in [Paths -> SlotIds \cup {NoSlot}] /\ \A p \in Paths : table[p] \in {map[p], NoSlot}
  BY <1>11 DEF CacheInv, StateTyped
<1>21. SlotsHeld(all, map', call')
  BY <1>2, <1>10, <1>13, <1>15, <1>20 DEF CacheInv, SlotsHeld
<1>22. PICK others : others = {x \in now \ {s} : slots[x].charged > 0}
  OBVIOUS
<1>23. /\ gone \subseteq others
       /\ total - ChargesIn(slots, gone) <= Budget \/ gone = others
  <2>2. others = {x \in Mapped(map) \ {s} : slots[x].charged > 0}
    BY <1>4, <1>22
  <2>3. /\ Evicted(s, total) \subseteq others
        /\ total - ChargesIn(slots, Evicted(s, total)) <= Budget \/ Evicted(s, total) = others
    BY <2>2, EvictedEnough, Zenon
  <2> QED
    BY <1>8, <2>3, Zenon
<1>24. gone \in SUBSET now /\ s \notin gone /\ IsFiniteSet(gone)
  BY <1>5, <1>22, <1>23, FS_Subset
<1>25. Mapped(table) = now \ gone
  <2>1. \A q \in Paths : table[q] # NoSlot <=> map[q] # NoSlot /\ map[q] \notin gone
    BY <1>4, <1>11, <1>24 DEF Mapped
  <2>2. \A x : x \in now <=> x # NoSlot /\ \E q \in Paths : x = map[q]
    BY <1>4 DEF Mapped, Range, CacheInv, StateTyped
  <2>3. \A x : x \in Mapped(table) <=> x # NoSlot /\ \E q \in Paths : x = table[q]
    BY <1>20 DEF Mapped, Range
  <2>4. \A q \in Paths : table[q] # NoSlot => table[q] = map[q]
    BY <1>20
  <2>5. ASSUME NEW x PROVE x \in Mapped(table) <=> x \in now /\ x \notin gone
    BY <1>11, <2>1, <2>2, <2>3, <2>4
  <2> HIDE DEF Mapped
  <2> QED
    BY <2>5
<1>26. ChargesIn(all, now) = total
  <2>1. PICK rest : rest = now \ {s}
    OBVIOUS
  <2>2. Charged(all, now)
    BY <1>3, <1>5, <1>13 DEF Charged
  <2>3. \A x \in rest : all[x].charged = slots[x].charged
    BY <1>5, <1>13, <2>1
  <2>4. rest \in SUBSET now /\ s \in now \ rest /\ rest \cup {s} = now
    BY <1>5, <2>1
  <2>5. IsFiniteSet(rest) /\ Charged(slots, rest)
    BY <1>5, <2>1, FS_Subset DEF Charged
  <2>6. ChargesIn(all, rest) = ChargesIn(slots, rest)
    BY <2>3, <2>5, SumAgrees
  <2>7. ChargesIn(slots, now) = ChargesIn(slots, rest) + slots[s].charged
    <3>1. \A r \in SUBSET now : \A x \in now \ r :
            /\ ChargesIn(slots, r) \in Nat
            /\ ChargesIn(slots, r \cup {x}) = ChargesIn(slots, r) + slots[x].charged
      BY <1>5, SumAdded, Zenon
    <3> QED
      BY <2>4, <3>1
  <2>8. ChargesIn(all, now) = ChargesIn(all, rest) + all[s].charged /\ ChargesIn(all, rest) \in Nat
    <3>1. \A r \in SUBSET now : \A x \in now \ r :
            /\ ChargesIn(all, r) \in Nat
            /\ ChargesIn(all, r \cup {x}) = ChargesIn(all, r) + all[x].charged
      BY <1>5, <2>2, SumAdded, Zenon
    <3> QED
      BY <2>4, <3>1
  <2> QED
    BY <1>3, <1>6, <1>12, <1>13, <1>7, <2>6, <2>7, <2>8
<1>27. ChargesIn(all, now \ gone) = total - ChargesIn(slots, gone)
  <2>1. Charged(all, now) /\ Charged(slots, gone)
    BY <1>3, <1>5, <1>13, <1>24 DEF Charged
  <2>2. ChargesIn(all, gone) = ChargesIn(slots, gone)
    BY <1>5, <1>13, <1>24, <2>1, SumAgrees
  <2>3. /\ ChargesIn(all, now) = ChargesIn(all, gone) + ChargesIn(all, now \ gone)
        /\ ChargesIn(all, gone) \in Nat /\ ChargesIn(all, now \ gone) \in Nat
    BY <1>5, <1>24, <2>1, SumSplit
  <2> QED
    BY <1>26, <2>2, <2>3
<1>28. Balanced(all, map', bytes')
  <2>1. bytes' = ChargesIn(all, Mapped(table))
    BY <1>11, <1>25, <1>27
  <2>2. CASE gone = others
    <3>1. {x \in now \ gone : all[x].charged > 0} = {s}
      <4>1. \A x \in now : x # s => (x \in gone <=> slots[x].charged > 0)
        BY <1>22, <2>2
      <4> QED
        BY <1>3, <1>5, <1>13, <1>24, <4>1
    <3>2. Cardinality({s}) = 1
      BY FS_Singleton
    <3> QED
      BY <1>10, <1>25, <2>1, <3>1, <3>2 DEF Balanced
  <2>3. CASE bytes' <= Budget
    BY <1>10, <2>1, <2>3 DEF Balanced
  <2> QED
    BY <1>11, <1>23, <2>2, <2>3
<1> QED
  BY <1>11, <1>13, <1>18, <1>19, <1>21, <1>28, KeepLedger

-----------------------------------------------------------------------------
LEMMA LedgerStep ==
  ASSUME CacheInv, CacheInv', LedgerInv, [Next]_photoVars
  PROVE  LedgerInv'
<1>1. ASSUME NEW t \in Threads, CallStep(t) PROVE LedgerInv'
  BY <1>1, LookupHitLedger, ReplaceLedger, TouchLedger, BeginDecodeLedger, EndsLedger, DecodeLedger,
     ChargeKeptLedger, EndLedger, RepaintLedger DEF CallStep
<1>2. ASSUME NEW t \in Threads, TakeStep(t) PROVE LedgerInv'
  BY <1>2, TakeLedger DEF TakeStep
<1>3. ASSUME UNCHANGED map, UNCHANGED slots, UNCHANGED bytes, UNCHANGED call,
             order' \in Seq(SlotIds), Range(order) \subseteq Range(order')
      PROVE  LedgerInv'
  <2>1. Reachable(slots, call, Range(order'))
    BY <1>3 DEF LedgerInv, Reachable, InUse
  <2> QED
    BY <1>3, <2>1 DEF LedgerInv, CountedOnce, Reachable, KindGood, ChargeDue, Charging, InUse, Balanced
<1>4. ASSUME NEW p \in Paths, Forget(p) \/ FileChanges(p) PROVE LedgerInv'
  <2>1. CASE Forget(p)
    BY <2>1, ForgetLedger
  <2>2. CASE FileChanges(p)
    BY <1>3, <2>2 DEF FileChanges, cacheVars, threadVars, LedgerInv
  <2> QED
    BY <1>4, <2>1, <2>2
<1>5. CASE Clear
  BY <1>5, ClearLedger
<1>6. CASE BeginFrame \/ PersonMoves \/ UNCHANGED photoVars
  BY <1>3, <1>6 DEF BeginFrame, PersonMoves, photoVars, cacheVars, threadVars, LedgerInv
<1>7. ASSUME NEW p \in Shown, LookFound(p) \/ LookMissed(p) PROVE LedgerInv'
  <2>1. CASE LookFound(p)
    <3>1. PICK s \in SlotIds : s = map[p]
      BY <2>1, Constants DEF LookFound, Peeked, CacheInv, StateTyped
    <3>2. order' = Touched(s) /\ order \in Seq(SlotIds)
      BY <2>1, <3>1 DEF LookFound, LedgerInv
    <3>3. order' \in Seq(SlotIds) /\ Range(order') = Range(order) \cup {s}
      BY <3>2, TouchedOrder
    <3> QED
      BY <1>3, <2>1, <3>3 DEF LookFound, threadVars
  <2>2. CASE LookMissed(p)
    BY <1>3, <2>2 DEF LookMissed, cacheVars, threadVars, LedgerInv
  <2> QED
    BY <1>7, <2>1, <2>2
<1> QED
  BY <1>1, <1>2, <1>4, <1>5, <1>6, <1>7 DEF Next, FrameStep

LEMMA LedgerAlways == Spec => []LedgerInv
<1>1. Init => LedgerInv
  <2> SUFFICES ASSUME Init PROVE LedgerInv
    OBVIOUS
  <2>1. /\ map = [p \in Paths |-> NoSlot] /\ call = [t \in Threads |-> Idle] /\ DOMAIN slots = {}
        /\ bytes = 0 /\ order = <<>>
    BY DEF Init
  <2>2. Mapped(map) = {}
    BY <2>1 DEF Mapped, Range
  <2>3. ChargesIn(slots, {}) = 0
    BY FS_EmptySet, SumOfNothing
  <2>4. Budget \in Nat /\ 0 <= Budget
    BY CacheAssumption
  <2>5. Balanced(slots, map, bytes)
    BY <2>1, <2>2, <2>3, <2>4 DEF Balanced
  <2>6. CountedOnce(slots, call) /\ Reachable(slots, call, Range(order))
    BY <2>1, IdleIsGood DEF CountedOnce, Reachable
  <2> QED
    BY <2>1, <2>5, <2>6 DEF LedgerInv
<1>2. CacheInv /\ CacheInv' /\ LedgerInv /\ [Next]_photoVars => LedgerInv'
  BY LedgerStep
<1> QED
  BY <1>1, <1>2, CacheAlways, PTL DEF Spec

(* The byte count is the sum over the map in every reachable state, though *)
(* slots leave the map while they are being decoded into and are charged,  *)
(* evicted, forgotten, replaced and cleared by any number of threads       *)
(* (Inner::bytes, PhotographCache::charge).                                *)
THEOREM BytesAlwaysTheSum == Spec => []BytesAreTheSum
<1>1. LedgerInv => BytesAreTheSum
  BY LedgerSays
<1> QED
  BY <1>1, LedgerAlways, PTL

(* Whatever the photographs' sizes, what is kept fits the budget, or is    *)
(* the one photograph that alone does not (PhotographCache::charge).       *)
THEOREM CacheWithinBudget == Spec => []BudgetKept
<1>1. LedgerInv => BudgetKept
  BY LedgerSays
<1> QED
  BY <1>1, LedgerAlways, PTL

=============================================================================
