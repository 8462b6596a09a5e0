------------------------------- MODULE History -------------------------------
(***************************************************************************)
(* A node's history (document.rs): the versions of its reconstruction, the *)
(* cursor undo, redo and jumps move, the step graph an index is followed   *)
(* through, the byte budget, and what a save does to all of them           *)
(* (state/save.rs).                                                        *)
(*                                                                         *)
(* A reconstruction is an immutable base, shared by reference, plus the    *)
(* point edits made on it.  A point is an identity; its index in a version *)
(* is what a selection or a copied id holds, and a save or a whole-value   *)
(* edit renumbers.  Serials are those of one node, in the order minted.    *)
(* Every operation here is refused while the node is busy                  *)
(* (BackgroundTasks); a landing task pushes as an edit does.               *)
(***************************************************************************)
EXTENDS Integers, Sequences, FiniteSets, FiniteSetsExt, SequencesExt

CONSTANTS
  FirstPoints,   \* how many points the node is loaded with
  MaxSerial,     \* bound: versions minted
  BaseBytes,     \* what a base of its own costs, in units of one point edit
  Budget         \* HISTORY_BUDGET_BYTES, in the same unit

ASSUME HistoryAssumption ==
  /\ FirstPoints \in Nat
  /\ MaxSerial \in Nat \ {0}
  /\ BaseBytes \in Nat
  /\ Budget \in Nat

VARIABLES
  versions,    \* History::versions, oldest first
  cursor,      \* History::cursor, from 1
  steps,       \* History::steps by serial, with the value each step made
  disk,        \* History::disk_serial
  path,        \* whether the node has a file, SceneNode::path
  file,        \* the bases on disk at that path: none or one
  selection    \* AppState::selected_point, when it is one of this node's

vars == <<versions, cursor, steps, disk, path, file, selection>>

-----------------------------------------------------------------------------
(* Values.  `rows` are the points ever in the value, the base's first, and *)
(* `deleted` the rows an edit took out.  `base` names the shared base.     *)

Live(value) == (DOMAIN value.rows) \ value.deleted

Overlay(value) == Cardinality(value.deleted) + Len(value.rows) - value.baseLen

(* Where materialize puts the row i: a modified point goes back to the base*)
(* row it replaced, a new one after the base's, in order of addition.      *)
Slot(value, i) ==
  LET replaced == {b \in 1..value.baseLen : value.rows[b] = value.rows[i]}
  IN IF replaced = {} THEN i ELSE Min(replaced)

(* The rows `kept` of the value, in the order materialize emits them.      *)
Emitted(value, kept) ==
  CHOOSE order \in SetToSeqs(kept) :
    \A a, b \in DOMAIN order : a < b => Slot(value, order[a]) < Slot(value, order[b])

(* EditedReconstruction::materialize, and a whole-value edit that keeps    *)
(* the rows `kept`: a base of its own, numbered from the start.            *)
Renumbered(value, kept, serial) ==
  LET order == Emitted(value, kept)
  IN [rows    |-> [k \in DOMAIN order |-> value.rows[order[k]]],
      deleted |-> {}, base |-> serial, baseLen |-> Len(order)]

RowsMap(value, kept) == [kind |-> "Rows", rows |-> Emitted(value, kept)]

(* Point maps: where an index goes in a step, and where it came from.      *)
MapForward(map, i) ==
  CASE map.kind = "Removed"  -> {i} \ map.removed
    [] map.kind = "Replaced" -> {IF i = map.from THEN map.to ELSE i}
    [] map.kind = "Created"  -> {i}
    [] map.kind = "Rows"     -> {k \in DOMAIN map.rows : map.rows[k] = i}

MapInverse(map, i) ==
  CASE map.kind = "Removed"  -> {i} \ map.removed
    [] map.kind = "Replaced" -> {IF i = map.to THEN map.from ELSE i}
    [] map.kind = "Created"  -> {i} \ map.created
    [] map.kind = "Rows"     -> {map.rows[i]}

Identity == [kind |-> "Removed", removed |-> {}]

-----------------------------------------------------------------------------
(* The step graph.                                                         *)

Serials == DOMAIN steps

ValueOf(serial) == steps[serial].value

(* ancestry: `serial` first, back to the first version.                    *)
Ancestry ==
  [s \in Serials |->
     LET chain[a \in Serials] ==
           IF steps[a].parent = 0 THEN <<a>> ELSE <<a>> \o chain[steps[a].parent]
     IN chain[s]]

Before(chain, meet) ==
  SubSeq(chain, 1, CHOOSE k \in 0..(Len(chain) - 1) : chain[k + 1] = meet)

(* An index is taken through one step's map after another, and is gone once*)
(* a step has no place for it.                                             *)
BackThrough(serials, index) ==
  LET at[k \in 0..Len(serials)] ==
        IF k = 0 THEN index
        ELSE UNION {MapInverse(steps[serials[k]].map, i) : i \in at[k - 1]}
  IN at[Len(serials)]

ForwardThrough(serials, index) ==
  LET at[k \in 0..Len(serials)] ==
        IF k = 0 THEN index
        ELSE UNION {MapForward(steps[serials[k]].map, i) : i \in at[k - 1]}
  IN at[Len(serials)]

(* Slip: the forward leg is walked from the far end.                       *)
FollowBackwards(from, to, i) ==
  LET up == Ancestry[from]
      down == Ancestry[to]
      meet == SelectInSeq(up, LAMBDA s : s \in Range(down))
  IN ForwardThrough(Before(down, up[meet]), BackThrough(SubSeq(up, 1, meet - 1), {i}))

(* follow: back to the last version both share, then forward.              *)
Follow(from, to, i) ==
  LET up == Ancestry[from]
      down == Ancestry[to]
      meet == SelectInSeq(up, LAMBDA s : s \in Range(down))
  IN ForwardThrough(Reverse(Before(down, up[meet])),
                    BackThrough(SubSeq(up, 1, meet - 1), {i}))

-----------------------------------------------------------------------------
(* The cursor's version, and the questions asked of it.                    *)

Here == versions[cursor]

Shown == ValueOf(Here.serial)

(* Slip: undo asks only whether there is a row above.                      *)
CanUndoAnywhere == cursor > 1

CanUndo == cursor > 1 /\ versions[cursor - 1].held

CanRedo == cursor < Len(versions) /\ versions[cursor + 1].held

(* is_dirty                                                                *)
Dirty ==
  \A i \in DOMAIN versions :
    versions[i].serial = disk => versions[i].documentSerial # Here.documentSerial

-----------------------------------------------------------------------------
(* The budget.                                                             *)

(* value_bytes and bench_bytes: what a version holds that the one before   *)
(* it did not.                                                             *)
BytesOf(value, previous, onBench) ==
  (IF value.base = previous.base THEN 0 ELSE BaseBytes)
    + Overlay(value) + (IF onBench THEN 1 ELSE 0)

HeldBytes(rows) ==
  MapThenSumSet(LAMBDA i : rows[i].bytes, {i \in DOMAIN rows : rows[i].held})

Releasing(rows, k) ==
  [i \in DOMAIN rows |-> IF i <= k THEN [rows[i] EXCEPT !.held = FALSE] ELSE rows[i]]

Fits(rows) == HeldBytes(rows) <= Budget

(* enforce_budget, with the cursor on the last row: the oldest values go   *)
(* until the rest fits, the cursor's never.                                *)
WithinBudget(rows) ==
  Releasing(rows, CHOOSE k \in 0..(Len(rows) - 1) :
    /\ k = Len(rows) - 1 \/ Fits(Releasing(rows, k))
    /\ \A j \in 0..(k - 1) : ~Fits(Releasing(rows, j)))

(* Slip: the budget is enforced before the new row is counted.             *)
PushedLate(rows, row) == Append(WithinBudget(rows), row)

Pushed(rows, row) == WithinBudget(Append(rows, row))

-----------------------------------------------------------------------------
(* Pushing: the new version takes the next serial.                         *)

Minted == Len(steps) + 1

(* Slip: the redo tail stays, and the new version goes after it.           *)
KeptRowsAll == versions

KeptRows == SubSeq(versions, 1, cursor)

(* The version the new one shares its document half with: itself when the  *)
(* step states a value, which `made` then holds.                           *)
DocumentSerial(made) == IF made = {} THEN Here.documentSerial ELSE Minted

(* push_pair                                                               *)
Push(made, onBench, map) ==
  LET value == IF made = {} THEN Shown ELSE CHOOSE v \in made : TRUE
      row == [serial |-> Minted, documentSerial |-> DocumentSerial(made), held |-> TRUE,
              bytes |-> BytesOf(value, Shown, onBench)]
  IN /\ Minted <= MaxSerial
     /\ versions' = Pushed(KeptRows, row)
     /\ cursor' = Len(KeptRows) + 1
     /\ steps' = Append(steps, [parent |-> Here.serial, map |-> map, value |-> value])

(* follow_selection_forward, after a push                                  *)
FollowForward(map) == selection' = UNION {MapForward(map, i) : i \in selection}

(* delete_points: the deleted rows stay numbered.                          *)
DeletePoint(i) ==
  LET map == [kind |-> "Removed", removed |-> {i}]
  IN /\ i \in Live(Shown)
     /\ Push({[Shown EXCEPT !.deleted = @ \cup {i}]}, FALSE, map)
     /\ FollowForward(map)
     /\ UNCHANGED <<disk, path, file>>

(* A commit of a bench track onto the point at i, or a retriangulation of  *)
(* it: the point is taken out and added again at the end.  The commit      *)
(* selects it; a retriangulation follows the map.                          *)
RewritePoint(i, commit) ==
  LET at == Len(Shown.rows) + 1
      map == [kind |-> "Replaced", from |-> i, to |-> at]
  IN /\ i \in Live(Shown)
     /\ Push({[Shown EXCEPT !.deleted = @ \cup {i},
                            !.rows = Append(@, Shown.rows[i])]}, commit, map)
     /\ IF commit THEN selection' = {at} ELSE FollowForward(map)
     /\ UNCHANGED <<disk, path, file>>

(* A commit of a bench track that is no point yet.                         *)
CreatePoint ==
  LET at == Len(Shown.rows) + 1
  IN /\ Push({[Shown EXCEPT !.rows = Append(@, Minted)]}, TRUE,
             [kind |-> "Created", created |-> {at}])
     /\ selection' = {at}
     /\ UNCHANGED <<disk, path, file>>

(* A whole-value edit that keeps the points `kept`.                        *)
WholeEdit(kept) ==
  /\ kept \subseteq Live(Shown)
  /\ Cardinality(kept) + 1 >= Cardinality(Live(Shown))
  /\ Push({Renumbered(Shown, kept, Minted)}, FALSE, RowsMap(Shown, kept))
  /\ FollowForward(RowsMap(Shown, kept))
  /\ UNCHANGED <<disk, path, file>>

(* push_bench                                                              *)
BenchStep ==
  /\ Push({}, TRUE, Identity)
  /\ UNCHANGED <<disk, path, file, selection>>

(* push_transform                                                          *)
Reframe ==
  /\ Push({}, FALSE, Identity)
  /\ UNCHANGED <<disk, path, file, selection>>

-----------------------------------------------------------------------------
(* Moving the cursor: move_cursor walks it one step at a time, and the     *)
(* selection through each step's map.                                      *)

RowSerials(from, to) == [k \in 1..(to - from + 1) |-> versions[from + k - 1].serial]

(* Slip: the selection follows one step's map, however far the jump.       *)
WalkedOnce(target) ==
  IF target < cursor
  THEN BackThrough(<<Here.serial>>, selection)
  ELSE ForwardThrough(<<versions[target].serial>>, selection)

Walked(target) ==
  IF target < cursor
  THEN BackThrough(Reverse(RowSerials(target + 1, cursor)), selection)
  ELSE ForwardThrough(RowSerials(cursor + 1, target), selection)

MoveTo(target) ==
  /\ cursor' = target
  /\ selection' = Walked(target)
  /\ UNCHANGED <<versions, steps, disk, path, file>>

Undo == CanUndo /\ MoveTo(cursor - 1)

Redo == CanRedo /\ MoveTo(cursor + 1)

(* jump_to_version: refused when a version it passes has been released.    *)
Jump(target) ==
  /\ target # cursor
  /\ \A i \in target..cursor : versions[i].held
  /\ \A i \in cursor..target : versions[i].held
  /\ MoveTo(target)

SelectPoint(i) ==
  /\ i \in Live(Shown)
  /\ selection' = {i}
  /\ UNCHANGED <<versions, cursor, steps, disk, path, file>>

-----------------------------------------------------------------------------
(* Saving: materialize_for_save pushes a version when there is an overlay  *)
(* to fold or a workspace path to state, and then the file is written.     *)

MustFold(stated) == Overlay(Shown) > 0 \/ stated

(* Slip: the save marks the version it was asked for, not the folded one.  *)
DiskSerialAsked == Here.serial

(* The version that reached the disk: the one at the cursor by then.       *)
DiskSerial == versions'[cursor'].serial

(* write_node: Save, or Save As when `elsewhere`.  The write may fail.     *)
Save(elsewhere, stated, written) ==
  /\ path \/ elsewhere
  /\ stated => elsewhere
  /\ IF MustFold(stated)
     THEN /\ Push({Renumbered(Shown, Live(Shown), Minted)}, FALSE, RowsMap(Shown, Live(Shown)))
          /\ FollowForward(RowsMap(Shown, Live(Shown)))
     ELSE UNCHANGED <<versions, cursor, steps, selection>>
  /\ IF written
     THEN /\ disk' = DiskSerial
          /\ file' = {steps'[versions'[cursor'].serial].value.base}
          /\ path' = TRUE
     ELSE UNCHANGED <<disk, path, file>>

SaveWritten(elsewhere, stated) == Save(elsewhere, stated, TRUE)

SaveFails(elsewhere, stated) == Save(elsewhere, stated, FALSE)

-----------------------------------------------------------------------------
FirstValue ==
  [rows |-> [i \in 1..FirstPoints |-> 0 - i], deleted |-> {}, base |-> 1,
   baseLen |-> FirstPoints]

Init ==
  /\ versions = <<[serial |-> 1, documentSerial |-> 1, held |-> TRUE, bytes |-> BaseBytes]>>
  /\ cursor = 1
  /\ steps = <<[parent |-> 0, map |-> Identity, value |-> FirstValue]>>
  /\ disk = 1
  /\ path \in BOOLEAN
  /\ file = IF path THEN {1} ELSE {}
  /\ selection = {}

Next ==
  \/ \E i \in Live(Shown) : DeletePoint(i)
  \/ \E i \in Live(Shown), commit \in BOOLEAN : RewritePoint(i, commit)
  \/ CreatePoint
  \/ \E kept \in SUBSET Live(Shown) : WholeEdit(kept)
  \/ BenchStep
  \/ Reframe
  \/ Undo
  \/ Redo
  \/ \E target \in DOMAIN versions : Jump(target)
  \/ \E i \in Live(Shown) : SelectPoint(i)
  \/ \E elsewhere, stated \in BOOLEAN : SaveWritten(elsewhere, stated)
  \/ \E elsewhere, stated \in BOOLEAN : SaveFails(elsewhere, stated)

Spec == Init /\ [][Next]_vars

-----------------------------------------------------------------------------
Version == [serial : Nat, documentSerial : Nat, held : BOOLEAN, bytes : Nat]

(* Type invariant; the cursor is always on a version whose value is held.  *)
TypeOK ==
  /\ versions \in Seq(Version)
  /\ cursor \in DOMAIN versions
  /\ Here.held
  /\ \A i \in DOMAIN versions : versions[i].serial \in Serials
  /\ disk \in Serials
  /\ path \in BOOLEAN
  /\ file \subseteq Serials
  /\ selection \subseteq Live(Shown)

(* The rows are one line of the step graph, oldest first: each was made    *)
(* from the row above it, so undo inverts the very step that made the row  *)
(* it leaves.  A row shares its document half with the row above it or has *)
(* a half of its own, and sharing means holding the same value.            *)
RowsAreAChain ==
  \A i \in 2..Len(versions) :
    LET row == versions[i]
        above == versions[i - 1]
    IN /\ steps[row.serial].parent = above.serial
       /\ row.documentSerial \in {row.serial, above.documentSerial}
       /\ row.documentSerial = above.documentSerial =>
            ValueOf(row.serial) = ValueOf(above.serial)

(* The budget takes the oldest values and leaves the cursor's alone, so    *)
(* the released versions are the first ones, never one redo could ask for; *)
(* what is held fits, unless it is the last version pushed by itself.      *)
BudgetKept ==
  /\ \A i, j \in DOMAIN versions : i < j /\ versions[i].held => versions[j].held
  /\ Fits(versions)
       \/ \A i \in DOMAIN versions : versions[i].held => i = Len(versions)

(* A node that reads as clean shows what its file holds: a save now would  *)
(* write the same base again (is_dirty, the dirty marker, close_prompt).   *)
CleanIsOnDisk ==
  path /\ ~Dirty => file = {Shown.base} /\ Overlay(Shown) = 0

(* Follow agrees with the points themselves: an index taken at any version *)
(* ever minted leads to the same point at any other, or to nothing when    *)
(* some version on the way does not have it.                               *)
PointsOf(s) == {ValueOf(s).rows[i] : i \in Live(ValueOf(s))}

OnTheWay(from, to) ==
  LET up == Range(Ancestry[from])
      down == Range(Ancestry[to])
  IN (up \ down) \cup (down \ up) \cup {Max(up \cap down)}

FollowAgrees ==
  \A from, to \in Serials : \A i \in Live(ValueOf(from)) :
    LET point == ValueOf(from).rows[i]
    IN Follow(from, to, i) =
         IF \A s \in OnTheWay(from, to) : point \in PointsOf(s)
         THEN {k \in Live(ValueOf(to)) : ValueOf(to).rows[k] = point}
         ELSE {}

(* Undo, redo, jumps, saves and edits that select nothing never move the   *)
(* selection to another point: it stays on its point or is dropped.        *)
Selected == {Shown.rows[i] : i \in selection \cap DOMAIN Shown.rows}

SelectionKeepsItsPoint ==
  [][(cursor' # cursor /\ ~(\E i \in Live(Shown) : RewritePoint(i, TRUE)) /\ ~CreatePoint)
       => Selected' \subseteq Selected]_vars

-----------------------------------------------------------------------------
(* What the repository's text says and the code does otherwise.            *)

(* "the version shares its predecessor's document serial and a clean node  *)
(* stays clean" (document.rs, push_transform).                             *)
CleanStaysClean == [][(BenchStep \/ Reframe) /\ ~Dirty => ~Dirty']_vars

(* "a failed write is refused with a reason and changes nothing"           *)
(* (specs/gui/saving.md).                                                  *)
FailedSaveChangesNothing ==
  [][(\E elsewhere, stated \in BOOLEAN : SaveFails(elsewhere, stated))
       => UNCHANGED <<versions, cursor>>]_vars

=============================================================================
