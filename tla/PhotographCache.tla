--------------------------- MODULE PhotographCache ---------------------------
(***************************************************************************)
(* The cache of decoded photographs (sfmtool-core,                         *)
(* camera/photograph_cache.rs) and the panels that draw from it            *)
(* (sfm-explorer, state/photograph_requests.rs).                           *)
(*                                                                         *)
(* Any thread may ask for a photograph.  The map of slots is behind a lock *)
(* that is held only to look a slot up, to put one in and to charge one:   *)
(* the file is stat'ed before the lock is taken and decoded after it is    *)
(* let go, so between any two of these steps the file may change and the   *)
(* slot may leave the map.  A slot is decoded into once; the threads that  *)
(* hold it meanwhile wait.  A panel never waits: it looks at what the map  *)
(* holds, starts one decode of what it misses, and is drawn again when     *)
(* that decode ends.                                                       *)
(*                                                                         *)
(* A pyramid stands for the version of the file it was decoded from, or    *)
(* for pixels that a caller of insert gave and no file held.  A file is    *)
(* known by its stamp alone, its length and time: versions may share one,  *)
(* and then the cache cannot tell them apart.  The budget of 0, under      *)
(* which nothing is kept and nothing shared, is left out.                  *)
(***************************************************************************)
EXTENDS Integers, FiniteSets, Sequences, FiniteSetsExt, SequencesExt

CONSTANTS
  Threads,     \* the threads of the rayon pool
  Paths,       \* the photographs' files
  Shown,       \* the ones the panels draw
  SizeOf,      \* the bytes of a pyramid, by the path it is kept under
  Budget,      \* the byte budget
  Fixtures,    \* the ones that insert is called for
  First,       \* the version of each file when the viewer starts
  MaxVersion,  \* bound: the versions of a file
  StampOf,     \* the stamp of each version, NoStamp when there is no file
  Unreadable,  \* the versions that cannot be decoded
  MaxGets,     \* bound: how many calls other than the panels' are made
  MaxUpsets    \* bound: how often a file changes or an entry is forgotten

Versions == 0..MaxVersion
NoStamp == -1
Stamps == Nat \cup {NoStamp}

(* What a slot may hold: a version of the file, or pixels that insert was  *)
(* given when the file was at that version.                                *)
Pixels == [given : BOOLEAN, version : Versions]

ASSUME CacheAssumption ==
  /\ IsFiniteSet(Threads) /\ IsFiniteSet(Paths)
  /\ Shown \subseteq Paths /\ Fixtures \subseteq Paths
  /\ SizeOf \in [Paths -> [Pixels -> Nat \ {0}]]
  /\ Budget \in Nat \ {0}
  /\ MaxVersion \in Nat /\ First \in [Paths -> Versions]
  /\ StampOf \in [Versions -> Stamps]
  /\ Unreadable \subseteq Versions
  /\ \A v \in Versions : StampOf[v] = NoStamp => v \in Unreadable
  /\ MaxGets \in Nat /\ MaxUpsets \in Nat

VARIABLES
  file,      \* per path, the version of the file on disk
  map,       \* per path, the slot in the map, or none
  slots,     \* the slots that the map or a thread still holds
  bytes,     \* Inner::bytes
  order,     \* the slots that were asked for, least recently first
  call,      \* per thread, the call it is in
  under,     \* per thread, the calls below that one on its stack
  spawned,   \* the panels' decodes that no thread has begun
  inFlight,  \* PhotographRequests::in_flight
  wanted,    \* whether a frame has been asked for
  toDraw,    \* what the frame being drawn has still to draw
  drawn,     \* per path, what the last frame drew for it
  gets,      \* how many calls other than the panels' were made
  upsets     \* how often a file changed or an entry was forgotten

panelVars == <<inFlight, spawned, wanted, toDraw, drawn>>
cacheVars == <<map, slots, bytes, order>>
threadVars == <<call, under>>
photoVars == <<file, cacheVars, threadVars, panelVars, gets, upsets>>

-----------------------------------------------------------------------------
NoValue == [given |-> FALSE, version |-> -1]
NoSlot == 0

(* A slot identifies itself; the threads and the map never hold more.      *)
SlotIds == 1..(Cardinality(Threads) + Cardinality(Paths) + 1)

Slot == [path : Paths, stamp : Stamps, value : Pixels \cup {NoValue}, charged : Nat]

Kinds == {"shown", "many", "insert"}
Places == {"lookup", "place", "touch", "init", "decode", "charge", "end", "repaint"}

Call == [kind : Kinds, path : Paths, at : Places, stamp : Stamps,
         slot : SlotIds \cup {NoSlot}, value : Pixels \cup {NoValue}]

Idle == [at |-> "idle", slot |-> NoSlot]

(* file_stamp: the length and time of the file, none when there is none.   *)
(* A rewrite of the same length and the same recorded time leaves it as it *)
(* was.                                                                    *)
Stamp(version) == StampOf[version]

(* No pyramid came of it.  What insert was given always is one.            *)
Failed(pixels) == ~pixels.given /\ pixels.version \in Unreadable

(* Slip: an entry is taken for its file whatever the file has become.      *)
AnyFile(slot, stamp) == TRUE

SameFile(slot, stamp) == slot.stamp = stamp

(* The slots some thread holds an Arc of.                                  *)
HeldBy(c) == {c.slot} \ {NoSlot}

Held(calls, stacks) ==
  UNION {HeldBy(calls[t]) : t \in Threads}
    \cup UNION {HeldBy(c) : c \in UNION {Range(stacks[t]) : t \in Threads}}

(* A slot goes when the map and every thread have dropped it.              *)
Alive(table, calls, stacks) == (Range(table) \ {NoSlot}) \cup Held(calls, stacks)

Keep(all) ==
  LET live == Alive(map', call', under')
  IN slots' = [s \in DOMAIN all \cap live |-> all[s]]

(* The members of S, in their order.                                       *)
Only(sequence, S) ==
  LET kept[k \in 0..Len(sequence)] ==
        IF k = 0 THEN <<>>
        ELSE IF sequence[k] \in S THEN Append(kept[k - 1], sequence[k]) ELSE kept[k - 1]
  IN kept[Len(sequence)]

KeepOrder(sequence) == order' = Only(sequence, Alive(map', call', under'))

(* touch: the next tick.                                                   *)
Touched(s) == Append(Only(order, Range(order) \ {s}), s)

(* Inner::remove, as the bytes it takes off.                               *)
ChargeOf(p) == IF map[p] = NoSlot THEN 0 ELSE slots[map[p]].charged

TakenOff(p) == ChargeOf(p)

NewId == CHOOSE s \in SlotIds : s \notin DOMAIN slots

(* The map's new slot for p.                                               *)
Put(p, slot) == [s \in DOMAIN slots \cup {NewId} |-> IF s = NewId THEN slot ELSE slots[s]]

-----------------------------------------------------------------------------
(* A call on the pool.                                                     *)

(* Slip: a thread takes other work while it waits inside a decode.         *)
MayTakeInside(t) == call[t] = Idle \/ call[t].at = "decode"

(* A thread takes work when it has none: decode joins nothing, so no work  *)
(* is taken inside it.                                                     *)
MayTake(t) == call[t] = Idle

Take(t, c) ==
  /\ MayTake(t)
  /\ call' = [call EXCEPT ![t] = c]
  /\ under' = [under EXCEPT ![t] = IF call[t] = Idle THEN @ ELSE Append(@, call[t])]

(* A call returns to the one below it.                                     *)
Return(t) ==
  /\ call' = [call EXCEPT ![t] = IF under[t] = <<>> THEN Idle ELSE Last(under[t])]
  /\ under' = [under EXCEPT ![t] = IF @ = <<>> THEN @ ELSE Front(@)]

(* get_found begins with the stat, with the lock not held.                 *)
Asking(kind, p, at, value) ==
  [kind |-> kind, path |-> p, at |-> at, stamp |-> Stamp(file[p]),
   slot |-> NoSlot, value |-> value]

(* get, or one item of get_many.                                           *)
Get(t, p) ==
  /\ gets < MaxGets
  /\ Take(t, Asking("many", p, "lookup", NoValue))
  /\ gets' = gets + 1
  /\ UNCHANGED <<file, cacheVars, panelVars, upsets>>

(* The closure PhotographRequests::request spawned.                        *)
TakeShown(t, p) ==
  /\ p \in spawned
  /\ Take(t, Asking("shown", p, "lookup", NoValue))
  /\ spawned' = spawned \ {p}
  /\ UNCHANGED <<file, cacheVars, inFlight, wanted, toDraw, drawn, gets, upsets>>

(* insert, of any pixels, with a file at the path or without: the stamp    *)
(* beside them is the file's of now.                                       *)
Insert(t, p) ==
  /\ gets < MaxGets /\ p \in Fixtures
  /\ Take(t, Asking("insert", p, "place", [given |-> TRUE, version |-> file[p]]))
  /\ gets' = gets + 1
  /\ UNCHANGED <<file, cacheVars, panelVars, upsets>>

(* The slot of p is replaced in the map, and t goes on with the new one.   *)
Replace(t, value) ==
  LET p == call[t].path
      id == NewId
      new == [path |-> p, stamp |-> call[t].stamp, value |-> value, charged |-> 0]
  IN /\ map' = [map EXCEPT ![p] = id]
     /\ call' = [call EXCEPT ![t].at = "touch", ![t].slot = id]
     /\ bytes' = bytes - TakenOff(p)
     /\ UNCHANGED under
     /\ Keep(Put(p, new))
     /\ KeepOrder(order)

Hit(t) == map[call[t].path] # NoSlot /\ SameFile(slots[map[call[t].path]], call[t].stamp)

LookupHit(t) ==
  /\ call[t].at = "lookup" /\ Hit(t)
  /\ call' = [call EXCEPT ![t].at = "touch", ![t].slot = map[call[t].path]]
  /\ UNCHANGED <<file, cacheVars, under, panelVars, gets, upsets>>

LookupMiss(t) ==
  /\ call[t].at = "lookup" /\ ~Hit(t)
  /\ Replace(t, NoValue)
  /\ UNCHANGED <<file, panelVars, gets, upsets>>

Place(t) ==
  /\ call[t].at = "place"
  /\ Replace(t, call[t].value)
  /\ UNCHANGED <<file, panelVars, gets, upsets>>

Touch(t) ==
  /\ call[t].at = "touch"
  /\ call' = [call EXCEPT ![t].at = IF call[t].kind = "insert" THEN "charge" ELSE "init"]
  /\ order' = Touched(call[t].slot)
  /\ UNCHANGED <<file, map, slots, bytes, under, panelVars, gets, upsets>>

-----------------------------------------------------------------------------
(* The slot's OnceLock.                                                    *)

Decoding(s) ==
  \E c \in UNION {{call[t]} \cup Range(under[t]) : t \in Threads} : c.at = "decode" /\ c.slot = s

BeginDecode(t) ==
  /\ call[t].at = "init"
  /\ slots[call[t].slot].value = NoValue /\ ~Decoding(call[t].slot)
  /\ call' = [call EXCEPT ![t].at = "decode"]
  /\ UNCHANGED <<file, cacheVars, under, panelVars, gets, upsets>>

Filled(s) == slots[s].value # NoValue

Reuse(t) ==
  /\ call[t].at = "init" /\ Filled(call[t].slot)
  /\ call' = [call EXCEPT ![t].at = "end", ![t].value = slots[call[t].slot].value]
  /\ UNCHANGED <<file, cacheVars, under, panelVars, gets, upsets>>

(* decode reads the file as it is by now.                                  *)
Decode(t) ==
  /\ call[t].at = "decode"
  /\ LET pixels == [given |-> FALSE, version |-> file[call[t].path]]
     IN /\ slots' = [slots EXCEPT ![call[t].slot].value = pixels]
        /\ call' = [call EXCEPT ![t].value = pixels,
                      ![t].at = IF Failed(pixels) THEN "end" ELSE "charge"]
  /\ UNCHANGED <<file, map, bytes, order, under, panelVars, gets, upsets>>

-----------------------------------------------------------------------------
(* charge: count the slot just decoded into, and evict down to the budget. *)

ChargesOf(S) == MapThenSumSet(LAMBDA s : slots[s].charged, S)

(* The other slots that hold bytes, oldest first.                          *)
Candidates(id) == Only(order, {s \in Range(map) \ {NoSlot, id} : slots[s].charged > 0})

(* Slip: the budget is looked at before the photograph is counted.         *)
EvictedBefore(id, total) ==
  IF total - SizeOf[slots[id].path][slots[id].value] <= Budget THEN {} ELSE Range(Candidates(id))

(* The oldest of them, until what is left fits.                            *)
Evicted(id, total) ==
  LET c == Candidates(id)
      Fits(k) == total - ChargesOf({c[i] : i \in 1..k}) <= Budget
  IN {c[i] : i \in {j \in DOMAIN c : \A k \in 0..(j - 1) : ~Fits(k)}}

(* Slip: a slot that left the map while it was decoded is counted too.     *)
AnySlot(p, s) == TRUE

IsMapped(p, s) == map[p] = s

ChargeKept(t) ==
  LET p == call[t].path
      s == call[t].slot
      size == SizeOf[p][call[t].value]
      total == bytes + size
      gone == Evicted(s, total)
  IN /\ call[t].at = "charge" /\ IsMapped(p, s)
     /\ map' = [q \in Paths |-> IF map[q] \in gone THEN NoSlot ELSE map[q]]
     /\ call' = [call EXCEPT ![t].at = "end"]
     /\ bytes' = total - ChargesOf(gone)
     /\ UNCHANGED under
     /\ Keep([slots EXCEPT ![s].charged = size])
     /\ KeepOrder(order)
     /\ UNCHANGED <<file, panelVars, gets, upsets>>

ChargeNothing(t) ==
  /\ call[t].at = "charge" /\ ~IsMapped(call[t].path, call[t].slot)
  /\ call' = [call EXCEPT ![t].at = "end"]
  /\ UNCHANGED <<file, cacheVars, under, panelVars, gets, upsets>>

-----------------------------------------------------------------------------
(* The call ends.  A panel's decode takes its path out of the set and then *)
(* asks for a frame.                                                       *)

Answer(t) ==
  /\ call[t].at = "end" /\ call[t].kind # "shown"
  /\ Return(t)
  /\ UNCHANGED <<map, bytes>>
  /\ Keep(slots) /\ KeepOrder(order)
  /\ UNCHANGED <<file, panelVars, gets, upsets>>

Land(t) ==
  /\ call[t].at = "end" /\ call[t].kind = "shown"
  /\ inFlight' = inFlight \ {call[t].path}
  /\ call' = [call EXCEPT ![t].at = "repaint", ![t].slot = NoSlot]
  /\ UNCHANGED <<map, bytes, under>>
  /\ Keep(slots) /\ KeepOrder(order)
  /\ UNCHANGED <<file, spawned, wanted, toDraw, drawn, gets, upsets>>

(* Slip: the frame is asked for by the decode that began, not by its end.  *)
NoRepaint(t) == UNCHANGED wanted

AskForFrame(t) == wanted' = TRUE

Repaint(t) ==
  /\ call[t].at = "repaint"
  /\ AskForFrame(t)
  /\ Return(t)
  /\ UNCHANGED <<file, cacheVars, inFlight, spawned, toDraw, drawn, gets, upsets>>

-----------------------------------------------------------------------------
(* forget and clear, and what happens outside.                             *)

Upset == upsets < MaxUpsets /\ upsets' = upsets + 1

Dropped(gone) ==
  /\ Upset
  /\ map' = [p \in Paths |-> IF p \in gone THEN NoSlot ELSE map[p]]
  /\ UNCHANGED threadVars
  /\ Keep(slots) /\ KeepOrder(order)
  /\ UNCHANGED <<file, panelVars, gets>>

Forget(p) == Dropped({p}) /\ bytes' = bytes - TakenOff(p)

Clear == Dropped(Paths) /\ bytes' = 0

FileChanges(p) ==
  /\ file[p] < MaxVersion
  /\ Upset
  /\ file' = [file EXCEPT ![p] = @ + 1]
  /\ UNCHANGED <<cacheVars, threadVars, panelVars, gets>>

-----------------------------------------------------------------------------
(* The frame.                                                              *)

(* Input comes between frames.                                             *)
PersonMoves ==
  /\ ~wanted /\ toDraw = {}
  /\ wanted' = TRUE
  /\ UNCHANGED <<file, cacheVars, threadVars, inFlight, spawned, toDraw, drawn, gets, upsets>>

BeginFrame ==
  /\ wanted /\ toDraw = {}
  /\ wanted' = FALSE
  /\ toDraw' = Shown
  /\ UNCHANGED <<file, cacheVars, threadVars, inFlight, spawned, drawn, gets, upsets>>

(* peek_state: no answer until the slot holds one.                         *)
Peeked(p) == map[p] # NoSlot /\ Filled(map[p])

LookFound(p) ==
  /\ p \in toDraw /\ Peeked(p)
  /\ drawn' = [drawn EXCEPT ![p] =
       IF Failed(slots[map[p]].value) THEN "unreadable" ELSE "decoded"]
  /\ toDraw' = toDraw \ {p}
  /\ order' = Touched(map[p])
  /\ UNCHANGED <<file, map, slots, bytes, threadVars, inFlight, spawned, wanted, gets, upsets>>

(* request: one decode of a file at a time.                                *)
LookMissed(p) ==
  /\ p \in toDraw /\ ~Peeked(p)
  /\ drawn' = [drawn EXCEPT ![p] = "decoding"]
  /\ toDraw' = toDraw \ {p}
  /\ inFlight' = inFlight \cup {p}
  /\ spawned' = IF p \in inFlight THEN spawned ELSE spawned \cup {p}
  /\ UNCHANGED <<file, cacheVars, threadVars, wanted, gets, upsets>>

-----------------------------------------------------------------------------
Init ==
  /\ file = First
  /\ map = [p \in Paths |-> NoSlot]
  /\ slots = [s \in {} |-> NoSlot]
  /\ bytes = 0 /\ order = <<>>
  /\ call = [t \in Threads |-> Idle]
  /\ under = [t \in Threads |-> <<>>]
  /\ spawned = {} /\ inFlight = {} /\ toDraw = {}
  /\ wanted = TRUE
  /\ drawn = [p \in Shown |-> "nothing"]
  /\ gets = 0 /\ upsets = 0

(* What a thread does once it has begun a call.                            *)
CallStep(t) ==
  \/ LookupHit(t) \/ LookupMiss(t) \/ Place(t) \/ Touch(t)
  \/ BeginDecode(t) \/ Reuse(t) \/ Decode(t)
  \/ ChargeKept(t) \/ ChargeNothing(t)
  \/ Answer(t) \/ Land(t) \/ Repaint(t)

TakeStep(t) == \E p \in Paths : TakeShown(t, p) \/ Get(t, p) \/ Insert(t, p)

FrameStep == BeginFrame \/ \E p \in Shown : LookFound(p) \/ LookMissed(p)

Next ==
  \/ \E t \in Threads : CallStep(t) \/ TakeStep(t)
  \/ \E p \in Paths : Forget(p) \/ FileChanges(p)
  \/ Clear
  \/ FrameStep \/ PersonMoves

Spec == Init /\ [][Next]_photoVars

(* A thread goes on with the call it is in, the pool begins what was       *)
(* spawned, and a frame that was asked for is drawn.                       *)
Fairness ==
  /\ \A t \in Threads : WF_photoVars(CallStep(t))
  /\ WF_photoVars(\E t \in Threads, p \in Paths : TakeShown(t, p))
  /\ WF_photoVars(FrameStep)

FairSpec == Spec /\ Fairness

-----------------------------------------------------------------------------
(* The bytes are those of the slots: BytesAreTheSum.                       *)
TypeOK ==
  /\ file \in [Paths -> Versions]
  /\ map \in [Paths -> SlotIds \cup {NoSlot}]
  /\ DOMAIN slots \subseteq SlotIds
  /\ \A s \in DOMAIN slots : slots[s] \in Slot
  /\ call \in [Threads -> Call \cup {Idle}]
  /\ drawn \in [Shown -> {"nothing", "decoding", "unreadable", "decoded"}]
  /\ spawned \subseteq inFlight /\ inFlight \subseteq Shown /\ toDraw \subseteq Shown
  /\ \A p \in Paths : map[p] # NoSlot => map[p] \in DOMAIN slots /\ slots[map[p]].path = p
  /\ \A t \in Threads : HeldBy(call[t]) \subseteq DOMAIN slots

(* The counted bytes are those of the mapped slots, whatever left the map  *)
(* while it was being decoded (Inner::bytes, charge).                      *)
BytesAreTheSum == bytes = ChargesOf(Range(map) \ {NoSlot})

(* What is held fits the budget, or is one photograph that alone does not. *)
BudgetKept ==
  \/ bytes <= Budget
  \/ Cardinality({s \in Range(map) \ {NoSlot} : slots[s].charged > 0}) = 1

(* The first version that has this stamp.                                  *)
Oldest(stamp) ==
  CHOOSE v \in Versions :
    /\ Stamp(v) = stamp
    /\ \A w \in Versions : Stamp(w) = stamp => v <= w

Fresh(pixels, stamp) ==
  IF pixels.given THEN Stamp(pixels.version) = stamp ELSE pixels.version >= Oldest(stamp)

(* A call is answered with pixels of its photograph that are not older     *)
(* than the first version with the stamp it found when it began, whoever   *)
(* decoded them, or with given ones that were put in under that stamp      *)
(* (get_found, insert).  This is all a stamp can promise: between two      *)
(* versions that share one the cache goes on answering with the older.     *)
AnswersAreFresh ==
  \A t \in Threads : call[t].at = "end" => Fresh(call[t].value, call[t].stamp)

(* Every call is answered: no thread waits for ever on another's decode,   *)
(* nor on one of its own.                                                  *)
EveryCallReturns == \A t \in Threads : []<>(call[t] = Idle)

(* What a panel draws as decoding is drawn again once it has been decoded, *)
(* with nobody touching the viewer: none goes on drawing it so for ever.   *)
PhotographsAreDrawn == \A p \in Shown : []<>(drawn[p] # "decoding")

=============================================================================
