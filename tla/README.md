# Verification of the SfM Explorer's concurrent core

sfmtool is a structure-from-motion toolbox: a Rust core over reconstruction
files, Python bindings and a command line, and the **SfM Explorer**, a desktop
viewer and editor (`src/crates/sfm-explorer`). Nearly everything outside the
viewer is sequential: numerics over arrays, and readers and writers of archives.
The viewer is where steps interleave. A GUI thread owns all state; worker
threads compute for minutes; the user and an agent edit, undo, close and save
meanwhile; panels keep themselves current with work nobody asked for; and the
window is drawn only when something asks for a frame. This project models that
part.

Paths below are relative to `src/crates/sfm-explorer/src/` unless they start
with `src/`.

## Inventory

| Component | State | Operations | Talks to | Correct when |
|---|---|---|---|---|
| Background queues (`background/mod.rs`) | two queues, each a running task and a waiting list; cancel flag and worker per running task; the ids | start, start quiet, give way, cancel, worker steps, poll, land, start next | scene (locks, landing), Action Log (a row per task), quiet sources (answers) | one lock per node; what a task captured is current until it lands; every task ends once; quiet work gives way and hears what became of it |
| Progress and wake (`background/mod.rs`: `Worker::run`, `progressed`, `apply_reports`) | collector, latch, report channel, repaint request | report, latch, send, wake, clear, drain | worker threads and the frame | no report is lost, a finished job always lands |
| Live evaluation (`bench/live.rs`) | the slot with the evaluation queued; what each track was last settled for | drive: land, drop, stop, queue | fast queue, bench at the cursor, frame | what reads as current is current; nothing is forgotten or orphaned; no step is undone |
| Frame loop (`app.rs`) | the order polls, steps and drives run in; repaint requests | one frame | all of the above | what is due is done in some frame |
| Version history (`document.rs`) | versions, cursor, step graph, bytes, disk serial | push (edit, bench step, reframe), undo, redo, jump, follow, release | edits, save, selection | the rows are one line; indexes lead to the same points; the budget never takes what is shown |
| Point maps (`src/crates/sfmtool-core/src/reconstruction/edited.rs`) | none | forward, inverse, materialize | history | agree with point identity |
| Saving (`state/save.rs`) | the node's path, its disk serial | Save, Save As, minimal copy | history, file system | a clean node shows what its file holds |
| Edits, undo, jumps (`state/edits.rs`, `bench.rs`) | selection | some fifty edits; undo, redo, jump | history, queues (refused while busy) | the selection stays on its point |
| Scene (`state.rs`, `state/open.rs`) | the nodes | open, close, close all | queues | a locked node is not closed |
| Viewed track (`bench/viewed.rs`) | a cache of track values for viewed points | build, hide, evaluate | live evaluation | as live evaluation; a value is of its own document |
| Camera model proposal (`camera_model_proposal/`) | controls, preview, its quiet job | drive, preview, accept | fast queue | the preview belongs to the controls shown |
| Track Table (`track_table_panel/`) | columns and reference picks, their quiet jobs | drive, scroll | fast queue | the columns belong to the version shown |
| Surface tiling (`bench/surface_tiling.rs`) | a sequence: its item, its next step, the task and the version it waits on | start, start a drop, drive once a frame, stop | bench steps, queues, live evaluation | each step follows a step of its own; each sequence ends, with one row unless it has nothing to drop |
| Deferred replies (`mcp/frame.rs`, `mcp/mod.rs`, `mcp/edit.rs`) | the calls that wait for an answer; the ring of finished tasks | drain and apply, capture, answer after the present, on landing or when a window passes | queues, panels, surface | every call is answered once, truly, from a frame that may answer it |
| Wire input queue (`mcp/input.rs`) | commands with their steps left; what is held down | one step a frame, refuse, coast, settle | egui, deferred replies | commands take turns and leave nothing held |
| Image Detail views (`dock.rs`, `image_detail/`) | the look that stands, the reading last published | look, decode, publish | photograph requests, deferred replies | an answer fits the panel |
| Photograph cache (`src/crates/sfmtool-core/src/camera/photograph_cache.rs`) | slots by path, bytes, ticks | get, get many, insert, forget, clear, peek, charge, evict | any pool thread | no answer predates the stamp of the file; the bytes are those held; nobody waits for ever |
| Photograph requests (`state/photograph_requests.rs`) | the paths being decoded | request, land, repaint | cache, panels | what is drawn as decoding is drawn again |
| Action Log, close prompt, panels, renderer | rows, dialogs, GPU buffers | record, draw | everything | presentation |
| `sfmtool-core`, file formats, colmap | none | numerics, (de)serialisation | files | sequential |
| Python package, `sfmtool-py` | none | batch commands | core | sequential |

The hard behaviours, each at its line, are listed under `hazards` in
`PROJECT.json`.

## Modules

| Module | Models |
|---|---|
| `NodeLock` | the abstract promise: between the moment a locking task is queued and the moment it lands, nobody else moves its node's version |
| `BackgroundTasks` | both queues, the workers, and what else the GUI thread may do to a node |
| `BackgroundTasksProofs`, `LockProofs` | theorems of `BackgroundTasks` |
| `LiveEvaluation` | EXTENDS `BackgroundTasks` with the driver, the benches, the viewed track and the order of the frame |
| `MCLiveEvaluation` | instance for TLC: where the items live |
| `LiveProofs` | theorems of `LiveEvaluation`, over those of `LockProofs` |
| `SurfaceTiling`, `SurfaceTilingProofs` | a tiling sequence over a history, a task and the evaluation; its theorems |
| `History`, `HistoryProofs` | the versions of one node, following an index, the budget, saving; theorems |
| `WireCalls`, `WireCallsProofs` | an agent's calls from the channel to their answers, frame by frame; theorems |
| `PhotographCache`, `PhotographCacheProofs` | the cache one lock or decode a step, and the panels over it; theorems |
| `MCPhotographCache` | instance for TLC: the files' sizes and first versions |
| `ReportLatch`, `ReportLatchProofs` | the hand-over from the threads of one job to the frame, one atomic access a step; theorems |

### BackgroundTasks

| State | Code |
|---|---|
| `running`, `waiting` | `QueueState::running`, `QueueState::waiting` of the slow and the fast queue |
| `cancel`, `worker` | the running task's cancel flag, and how far its thread is: computing, answered on its source's channel, done with or without something to install |
| `nextId`, `nextQuietId` | `AppState::next_operation_id`, `next_quiet_id` |
| `loaded`, `opened` | the nodes in the scene, and those that ever were (a `ReconId` is never reused) |
| `cursor` | per node, how often its cursor has moved: a value is abstracted to this number |
| `rows` | the Action Log rows that ended a task, counted |
| `told` | what a quiet request's source heard of it |

An action is one call on the GUI thread (`start_task`, `start_quiet_task`, a
cancel, an edit, a close, a poll of one queue) or one step of a worker. The poll
that finds a done report (`Land`) is one action with all it does in the code: it
installs the result, writes the row and starts the next task, dropping on the
way the quiet tasks whose node has become locked and ending those whose thread
cannot be spawned. The operations fall into four classes the queues tell apart:
whole edits (slow, locking), bench steps (fast, locking), finding points (fast,
locking nothing) and opens (fast, making nodes). The work a kernel does is one
step with a free outcome.

Each of the three behaviours behind `start_task`'s return is a disjunct: queued,
started, refused by the operating system. In the last the code has already asked
a quiet task to give way and spends no id; so does the model.

### LiveEvaluation

The frame is the variable `phase`: poll slow, poll fast, land an answer, queue
the next evaluation, apply steps, then land and queue once more. Workers step at
any moment, also between landing and queueing. `wanted` is egui's repaint
request: a frame begins when one was asked for, or when there is input
(`InputArrives`, on which no fairness is assumed). The driver's slot, `settled`
and `Inputs::same` are kept as in the code; a track value is its identity
(`Arc`), the step that set what a person decided, the document its measurements
were read at, and core's repaint mark. Undo and redo are one action that swaps
the version at the cursor with the one it came from. An evaluation installs into
the version at the cursor without moving it (`replace_current_bench`).

The viewed track is the driver's first subject. `Viewed` names it, `ViewedNode`
the node its point is of, and `cache` holds the values built for it, keyed by
document as in `bench/viewed.rs` and forgotten beyond `CacheSize`. Track View is
taken to be in front in every frame, so that a value is wanted in each; while an
item of the point's node is in focus, Track View shows that instead and the
viewed track is not evaluated.

### SurfaceTiling

One node's history, its one task, the evaluation, the sequence, and three phases
of a frame: poll, evaluate, drive. The person or an agent acts between frames: a
move or a duplicate that starts a sequence, any other step or edit, a jump, a
change of focus, the mode turned off, a task of their own, a cancel, a close. A
version carries the act or the step that pushed it (`by`), which is what
`StepsFollowSteps` is about; the code has no such field. What a fit or a search
computes is an outcome: it failed, it changed the track, or it had no effect. A
starter's refusal is free, since most of its conditions are on numbers. The
evaluation is one reading that either worked or did not (the second reading
after a repaint is `LiveEvaluation`'s), and what workers say is said between
frames, when the next poll hears it. A reading that worked judges each
observation: `settled[i].out` says that it left at least one `out`, which is all
that the last step of a duplicate asks (`has_out`). With none, the code clears the
sequence and returns, without a version and without a row, and so does `DropStep`;
`NoSequenceVanishes` names this one exception (`Skipped`).

### History

A value is the row list of its points, those deleted, and the name of its shared
base; a point is an identity, so that "the same point" has a meaning the indexes
have not. `DeletePoint`, `RewritePoint`, `CreatePoint`, `WholeEdit`, `BenchStep`
and `Reframe` are the kinds of push the edits make, one for each kind of point
map (`Removed`, `Replaced`, `Created`, `Rows`, and the identity). Materialising
puts a modified point back at the base row it replaced (`Slot`), as the code
does. Bytes are counted in units of one point edit. A save is one action: fold
the overlay into a pushed version if there is one (`materialize_for_save`), move
the selection through it, write, and mark the version on disk; in `SaveFails`
the write fails after the fold.

### WireCalls

A frame is `BeginFrame` (the ended task lands; every call that has arrived is
taken), one `ApplyOne` for each call in its order, `Pass` (the input queue takes
its step, widgets are captured, the panel draws, listings are answered), and then
`Present`, which answers the rest, or `Stop`, when the surface could not be
acquired. Calls, workers' ends, decodes and the passing of a call's window come
at any moment; a person selects a photograph, drags the panel to another size,
closes it or starts a task between frames.

| State | Code |
|---|---|
| `channel`, `batch` | `mcp_rx`, and what `drain_mcp` took from it |
| `deferred` | `App::mcp_deferred`; `frame` is the frame whose widgets were captured, `since` that the panel published after the call, `late` that its window has passed |
| `inputs`, `held` | `App::mcp_input`, and the buttons, keys and modifiers its steps hold |
| `running`, `waiting`, `ring` | one queue that stands for the two, and the ring of finished tasks |
| `layout`, `leaf` | the size the window and the splitters give the panel, which the code learns of in the pass; and the panel's leaf in the dock: closed, new (no pass has laid it out, so `panel_body_points` is `None`) or laid out |
| `look`, `reading`, `decoded`, `decoding` | `AppState::look`, `image_detail_view`, and what the photograph cache has for the panel |

The deferred calls are a set: no answer depends on their order. A command that
may carry modifiers always carries some. Image Detail is in front of its leaf
while it is docked; a view surfaces a closed one (`show_panel`), behind the tabs of
a group-mate or in a leaf of its own. `drain_mcp` runs before the pass, and a
change of size that has just arrived is in no rectangle it could compare: what
decides whether a view is answered at once (`ReadingIsCurrent`) reads `leaf` and
never `layout`. `AnswerFitsThePanel` is about `layout`. What
a person does with mouse and keyboard during a command is left out; in the code,
`Settle` puts modifiers back as egui had them when the command began, also those
a person released meanwhile.

### PhotographCache

One action for each stretch of code that runs under the cache's lock or inside a
slot's `OnceLock`, so that files change and entries leave between the stat, the
lookup, the decode and the charge. A pyramid is the version of the file it was
decoded from; a slot is a number that is free again when the map and every
thread have let go of it. `under` is the stack of calls below the one a thread is
in: it would be used if `decode` joined other work, and stays empty because it
does not. A panel's look at the map and its request are one step. The budget of
0 is left out.

A file's stamp is its length and its time (`file_stamp`), and several versions may
share one: `StampOf` gives each version its stamp, `NoStamp` where there is no file.
What `insert` is given is not what the file holds: a slot's value is a version that
was decoded, or given pixels, put in with a file or without one and stamped as the
file is then. `Fixtures` are the paths that it is called for; in the viewer only
tests do so (`state.rs:1804`), and any path may be one for the theorems. Pixels have
a size of their own for each path and version.

`AnswersAreFresh` says what a stamp can promise and no more. Decoded pixels are not
older than the *first* version with the stamp the call found: after a rewrite that
keeps length and time, the cache goes on answering with the pixels from before it.
Given pixels are answered for as long as the stamp stays what it was when they were
put in, as the comment of `insert` says. And a slot made while the file is missing,
decoded after it has appeared and asked for when it has gone again, is answered with
the pixels of a file that is no longer there.

### ReportLatch

Like `PhotographCache`, at the grain of single atomic accesses. Reporter threads write
to the collector, swap the latch, send and wake; the worker sends its last word
past the latch; the frame clears the latch, drains and draws.

## Runs

| Run | Instance | Shows |
|---|---|---|
| `tasks_locks` | 2 nodes, one opened later; 3 asked tasks; 1 direct cursor move; threads may be refused | `OneLockPerNode`, `CapturedIsCurrent`, `EndsOnce`; the queues implement `NodeLock` (`ImplementsNodeLock`); every asked task ends (`EveryAskedTaskEnds`) |
| `tasks_quiet` | 2 nodes, 2 asked tasks, 2 quiet requests of a source that waits for its node and one that does not, threads may be refused | `QueueOrder`, `GivesWay`, `QuietToldOnce`, `QuietStartsUnlocked`, `EverySourceIsTold` |
| `live_evaluation` | a bench track on one node and a viewed point of another, any 2 acts (a view, a step, an edit, an undo, a task, a cancel, a close), repaints, a cache of one value; as many evaluations as these ask for | `CurrentIsFresh`, `OneEvaluation`, `StaleIsStopped`, `NothingIsForgotten`, `LockedBenchStays`, `EvaluationKeepsSteps`, `Settles` |
| `surface_tiling` | 2 items, 2 acts, 1 duplicate with pinned verdicts | `StepsFollowSteps`, `NoSequenceVanishes`, `SequencesEnd` |
| `history` | 2 points, 4 versions, a budget of 7 with bases of 3 | `TypeOK`, `RowsAreAChain`, `BudgetKept`, `CleanIsOnDisk`, `FollowAgrees`, `SelectionKeepsItsPoint` |
| `wire_calls` | any 2 calls of 9 kinds, 1 task of a person and 1 selection, drag or close, 2 photographs, a ring of 1, 1 frame of coasting | `OneCommandAtATime`, `NothingStaysHeld`, `PictureAndListingAgree`, `RepliesAreTrue`, `AnswerFitsThePanel`, `EveryCallIsAnswered` |
| `photograph_cache` | 2 pool threads; a file that is missing at first, for which pixels over the budget may be given; a file drawn by a panel, which may be rewritten under its old stamp; a budget that holds either but not both; 2 calls, 1 file change or dropped entry | `BytesAreTheSum`, `BudgetKept`, `AnswersAreFresh`, `EveryCallReturns`, `PhotographsAreDrawn` |
| `report_latch` | 3 reporting threads | `NothingIsLeftUnread`, `DrainEnds`, `DoneLands` |
| `history_clean_step`, `history_failed_save` | as `history` | one sentence of the documentation each that the code does not keep; see below |
| `wire_look`, `wire_refusal` | 2 calls: pictures and views; all ten input commands | one comment each that the code does not keep; see below |

### Bounds, and why they are enough

- *Three asked tasks over two nodes* hold one running and one waiting task in a
  queue with a third elsewhere: a lock that is running, one that is waiting, and
  the two queues at once. A third node adds no new relation: the properties
  compare two tasks.
- *Two quiet requests* allow one to replace the other, to overtake it by rank,
  and to be dropped at its turn. `MaxMoves` bounds the direct moves of a cursor;
  landings move it as well and are not bounded by it.
- *Two acts over two tracks* contend for the driver's slot from nodes that are
  locked independently: a view and an edit under its evaluation, a step and its
  undo, a task and a step of the other node. Every act may come at any point of an
  evaluation, and each evaluation may repaint. `MaxActs` bounds only what people and
  agents do. The bound on the requests (`MaxQuiet`) is never reached: a model that
  ran into it would stop, and the run checks that nothing does. So `Settles` has no
  escape: whatever the two acts were, each track that wants an evaluation has it
  in the end, the viewed one behind the bench track's and a repainted one behind
  either. Three acts, such as a view, an edit and its undo, are covered for the
  invariants by their theorems and for `Settles` not at all.
- *Two acts* against a tiling sequence are one that starts it and one that
  disturbs it, at every point of its six steps, or two that start one each, the
  second over the first. A second item is the copy that a duplicate makes.
  `TilingAssumption` lets both be any number, and the theorems hold for all.
- *Two calls* are one that waits and one that is applied, refused or answered
  over it, or two views in one frame. With a ring of one, a landing and a cancel in one frame push a record
  out before its call looks for it, which in the code takes seventeen.
  `WireCalls` knows ten input commands; `wire_calls` runs four of them, among
  which are all that hold something or coast, `wire_refusal` all ten.
- *Two threads and two files* of which both do not fit the budget: a decode can be
  overtaken by a forget, a clear, a newer version of its file, an eviction, or
  another thread that waits on the same slot. The pixels given for a file are over
  the budget alone, so the second half of `BudgetKept` happens. Of three versions
  the first is no file and the other two have one stamp: one file appears, and the
  other changes unseen. A change from one stamp of a file to another is left to the
  theorem, which takes any `StampOf`. `PhotographsAreDrawn` is written `[]<>` where
  "decoding leads to not decoding" would say the same: TLC checks the one without
  the tableau the other needs.
- *Four versions* are enough for a branch: two steps, undo, and a step that
  truncates; and for a save that folds. With bases of 3 and a budget of 7, two
  bases fit and the third releases, so released rows, refused undos and refused
  jumps all occur. `FollowAgrees` compares every pair of versions ever minted,
  truncated and released ones included.
- *Three reporters* let one hold the latch while another swaps it and a third
  is between its send and its wake.

Deadlock is checked in `live_evaluation` and `photograph_cache`, where another
frame is always possible. The other models stop when their bounds are spent or their job has
landed, so their configurations turn the check off.

### Fairness

- `BackgroundTasks`: weak fairness of the workers' steps (a kernel returns;
  `Worker::run` catches panics and answers) and of `Land` (a done worker wakes
  the viewer and the frame polls both queues).
- `LiveEvaluation`: weak fairness of the frame's own steps, of which `BeginFrame`
  is enabled only when a repaint was asked for. There is none for `InputArrives`:
  an idle viewer draws nothing, so anything that settles has to ask for its
  frames. Nothing obliges the user to act.
- `SurfaceTiling`: weak fairness of a frame's steps, of which the first needs a
  frame to have been asked for, of the task's thread and of the evaluation's.
- `WireCalls`: weak fairness of a frame's steps up to its end, and of each call's
  window passing, which is the passing of time. Strong fairness of `Present`: the
  surface may be lost any number of times but not for ever (a lost surface is
  reconfigured and another redraw asked for). None for the workers and the
  decodes: `EveryCallIsAnswered` also when a task never ends.
- `PhotographCache`: weak fairness of a thread inside a call, of the pool taking
  what was spawned, and of a frame that was asked for. None for other callers,
  changing files, or a person who moves the mouse.
- `ReportLatch`: weak fairness of the GUI thread, of a thread inside the hook,
  and of the last wake. None for the job: it may run for ever.

## What the checks found

The properties hold. Four sentences of the documentation and the comments do not,
and a run shows each:

- `history_clean_step`: a step of the bench or the frame made after undoing past
  the version on disk truncates that version away, and the node reads as dirty
  although its document half has not changed (`document.rs:499`).
- `history_failed_save`: a save pushes its folded version and truncates the redo
  tail before the write that may fail (`specs/gui/saving.md:275`).
- `wire_look`: `dock.rs:718` takes the look out of the state in each frame whose
  photograph it names, also in the one that only asks for the decode. The view is
  then answered from a drawing the look was never applied to, against the comment
  at `mcp/mod.rs:1256`.
- `wire_refusal`: text for a named field may be refused two steps after the
  command's click was delivered; the comment at `mcp/input.rs:427` says a refusal
  comes before any input has been delivered.

The comment at `state/save.rs:71` says that a node without a file is dirty from
the start; it starts clean (`document.rs:207`), as `specs/gui/saving.md` says. The
model follows the code, and no run is made of it.

A fifth was met in `WireCalls`. The frame takes the dock out of the state while its
tabs draw (`app.rs:1104`), and `publish_image_detail_view` is called by a tab
(`dock.rs:875`): the layout it keeps beside the reading is that of the empty
placeholder, `None` in every frame. So `image_detail_view_is_current` is never true
of a panel that has been laid out, and a view waits for the frame also where
`display.rs:378-381` says that its answer is in this one; it is true of a panel in a
leaf no pass has laid out, where `state.rs:1237-1241` says that such a reading is
"about a panel that is gone". Two views in one frame after the panel was closed are
enough: the first surfaces it and waits, the second finds it docked and is answered
at once, with the size of the leaf that is gone. The tests publish outside a pass,
with the dock in its place, and do not see it. The model does what the code does;
`AnswerFitsThePanel` says what it gives, and without its `leaf = "new"` the run fails
on those two views.

One limit of a property is worth knowing. The budget, and `BudgetKept` with it,
counts what each held version has that its predecessor had not. A base is counted
with the version that introduced it and goes off the count when that version is
released, though later versions may still share it; the bytes really held can
exceed the budget by that base.

## Proofs

Every invariant and every action property of the passing runs is a theorem, for
every value of the constants; so is the refinement of `NodeLock`. The assumptions
are those named in the modules, which TLC evaluates in the runs:
`ConstantsAssumption`, `ItemsAssumption`, `TilingAssumption`, `WireAssumption`,
`CacheAssumption`, `HistoryAssumption`. Only liveness is left to the runs.

### The queues

- `AlwaysTypeOK` (`BackgroundTasksProofs`): `TypeOK` is inductive by itself. The
  lemmas say where each entry of a waiting list was before an insert, a removal
  or a pop.
- `OneLockAlways` and `CapturedAlwaysCurrent` (`LockProofs`): neither property is
  inductive alone. A task that lands moves its node's cursor, so
  `CapturedIsCurrent` needs that no other task locks the node; a task that
  starts is admitted because the node is not busy, so `OneLockPerNode` needs that
  the lists hold what they held. Together with `TypeOK` they are inductive
  (`Inv`). `OneLockPerNode` is stated over the *places* of the queues, so that it
  says a task is in one place as well. The argument describes every action by
  where each place had its task before the step, with at most one place filled
  anew; a map that sends no two places to one brings no two locks together, so
  each action has only to show that the new place holds no lock anyone else has
  and that the other locks' nodes are left alone.
- `AlwaysQueueOrder`, `AlwaysEndsOnce`, `AlwaysQuietToldOnce`
  (`BackgroundTasksProofs`) rest on one another. That asked tasks wait in the
  order of their ids needs that an id is new when it is handed out and that a task
  is in one place (`Placed`). With the order (`Ordered`), every step takes some
  tasks out of the queues and puts at most one in; that an asked task which is
  taken out gets its one row needs also that a queue runs one task (`Booked`). A
  quiet task that is taken out is told of it, unless its worker has already
  answered (`Accounted`), and a queue that runs a task has a worker on it
  (`Crewed`), which the evaluation's driver relies on.
- `AlwaysGivesWay` and `AlwaysStartsUnlocked` (`LockProofs`): what displaces a
  running quiet task is queued in the step that asks it to stop, and a quiet task
  starts only when the locks that stand in its way, all of which the step leaves
  where they are, are none.
- `QueuesImplementNodeLock` (`LockProofs`): a node's claim, in `NodeLock`, is the
  set of ids and versions its locking tasks captured. `OneClaim` says there is at
  most one, so that a step which starts, ends or lands a locking task claims,
  releases, or moves the node as `NodeLock` allows, and any other step moves
  only nodes that are not claimed.
- `AlwaysAnswered` and `NoReportIsLost` (`ReportLatchProofs`), for any set of
  reporting threads: `NothingIsLeftUnread` follows from the inductive `Answered`,
  which says that a latch that is up, a collector with something unread and a
  channel with a report each have a frame coming or a thread about to ask for
  one.

### The live evaluation

- `LiveStepsTheQueues` (`LiveProofs`): every step of `LiveEvaluation` is a step of
  `BackgroundTasks` or leaves the queues alone, so `LiveSpec` implements `Spec` and
  has the invariants proved of it. `CurrentAlwaysFresh` needs more of the live
  state: what an item was last settled for, and what the driver's slot is waiting
  for, are inputs whose document is known (`SettledFresh`), and two cached values
  that share an `Arc` are of one document (`CacheFresh`). `LockedBenchAlwaysStays`
  and `StepsOutliveEvaluations` follow from the same invariant, one case per
  action.
- `AlwaysOneEvaluation`, `AlwaysStaleIsStopped`, `AlwaysNothingForgotten`
  (`LiveProofs`): the driver holds one request (`OneQueued`), whose id was handed
  out (`TaskHandedOut`); an evaluation that has not answered is the one it holds
  (`HeldByDriver`); a worker that said something has woken the viewer, or its
  answer is polled later in the frame (`Wakes`, `AnswerIsComing`). These are
  inductive together (`DriverInv`), over `Accounted` and `Crewed` of the queues.
  The phases of the frame are what the last two properties turn on: the drive
  that ends a frame stops what is stale and queues what is forgotten, and nothing
  after it in the frame makes anything stale.

### The history

- `HistoryAlwaysTyped`, `AlwaysAChain`, `AlwaysWithinBudget`, `CleanAlwaysOnDisk`,
  `SelectionAlwaysKept` (`HistoryProofs`), from `HistoryInv`. Its first part is
  `Lineage`: the map of every step is sound between the values it joins
  (`StepsSound`), the rows are a chain of the step graph that ends at the newest
  version, and versions of one document serial hold one value wherever they are
  (`SharedDocuments`), which is what makes "clean" mean something after a jump.
  One lemma for each kind of push shows that its map is sound (`MapSound`): an
  index leads to the same point forward and back, and to none only where the
  point is gone. The lemma for the fold says where each row stands after
  materialising.
- `FollowAlwaysAgrees`: the two halves of an index's way, back to the common
  ancestor and forward from it, are walks (`Walking`) over a list of steps. A walk
  stays on its point, and finds it if every value on the way has it (`WalkSound`).
  That the ancestor is where the ways to the root join, so that what `Follow`
  walks is what `OnTheWay` names, is `PathsMeet`.

### The cache

- `CacheTypes`, `AnswersAlwaysFresh`, `OneDecodeForThePanels`
  (`PhotographCacheProofs`): a slot is made under a stamp the file has had
  (`HasHad`), and what is decoded into it is of that version or a later one; as the
  file's version never goes back, it is not older than the first with the stamp
  (`OldestIsFirst`), though the stamp itself may come back. A thread keeps the slot it was given until its
  call ends, in the map or not (`CacheInv`). Slots are finitely many and never all
  held, so that a new one is there to take: this is where the finiteness of
  `Threads` and `Paths` is used. `PanelsGood` says where a panel's one decode is.
- `BytesAlwaysTheSum` and `CacheWithinBudget`: a slot is charged by one call at
  most and once (`CountedOnce`), so that what a replaced or evicted slot takes off
  is what it had put on; and a slot that was charged has a tick (`Reachable`), so
  that eviction, which goes by ticks, comes to every other one before it gives up.
  With the two properties that is `LedgerInv`. The total is a fold over a set,
  which visits it in an order of its own: `SumsExist` shows, by induction over the
  finite subsets, that there is a sum that does not depend on any order, and
  `FoldSums` that the fold is it.

### Tiling sequences and calls

- `InvAlways`, `NoSequenceEverVanishes`, `StepsAlwaysFollow` (`SurfaceTilingProofs`):
  a sequence that waits for nothing knows the serial of its own last version and
  no other version has it; the step under way holds the node, so what it follows
  is at the cursor when it lands; and the sequence sees it land in the same frame,
  before anybody acts (`Followed`, `MayFollow`). That a sequence's end is told of is
  proved action by action: an end is a row, but for the drop with nothing to do.
- `CommandsTakeTurns`, `WhatIsHeldIsLetGo`, `WireTypes`, `RepliesAlwaysTrue`,
  `PicturesMatchListings`, `AnswersFitThePanel` (`WireCallsProofs`): a call is in
  one place and calls are applied in the order they came, so one that is deferred,
  queued or running is older than any still to be applied (`CallsInOrder`,
  `Applied`). With it, a deferred task's id is running, waiting or ended
  (`TaskWaits`), whatever the ring forgot; and what is held belongs to the first
  command (`CommandsGood`). `AnswersFitThePanel` rests on `DeferredGood`: a call that
  waits is marked `since` only by a pass that published, with the size of that pass,
  and sizes only move on.

### Only model-checked

Liveness under fairness is out of the prover's reach: `EveryAskedTaskEnds`,
`EverySourceIsTold`, `Settles`, `SequencesEnd`, `EveryCallIsAnswered`,
`EveryCallReturns`, `PhotographsAreDrawn`, `DrainEnds` and `DoneLands` are shown on
their instances. `AlwaysNothingForgotten`, `AlwaysAnswered` and `NoReportIsLost` are
the safety half of three of them: whatever has still to happen has a frame or a
worker on its way to it.

The theorem modules of the standard library whose facts take an operator are not
used; an induction is an argument from the least element of a well-founded order
(`WellFoundedInduction`). So that the prover can see into them, a few
operators of the models are recursive functions or choices where a community
module has an operator of the same meaning: `Only` of `PhotographCache` for
`SelectSeq`, `BackThrough` and `ForwardThrough` of `History` for a fold.

## Not modelled

- The busy notice shared with the platform, wording of rows and refusals.
- Tracks whose preconditions refuse an evaluation; the viewed track's read-only
  bars; Track View closed or behind another panel.
- The drivers of the camera model proposal and the Track Table; their requests
  are in `BackgroundTasks`.
- A tiling sequence beside a second node, and what its steps compute.
- Calls of an agent that are answered as they are applied: they change what the
  other modules describe. The transport, which gives up on a call after a while
  although the viewer still applies it. Where widgets are and which egui events a
  step makes.
- The photograph cache of budget 0 and its counters.
- `PointMap::Chain`, `created_by`, the minting of point ids, the heavy columns a
  base may share with its predecessor, minimal copies, provenance hashes, and
  two nodes that share a file.
- The Action Log, prompts, panels, the
  renderer, the file formats, the numerics, the Python side.

## Plan

1. `SceneFiles`: several nodes over paths they may share; what a disk serial
   says after another node, or a minimal copy, wrote the file.
2. `CameraModelProposal` and the Track Table drivers over `BackgroundTasks`, each
   with an abstract "the panel shows what its inputs say" to refine.
3. `PointMap::Chain` in `History`, and the budget with shared heavy columns.
4. Proofs of these, each beside its module: that a clean node's file is its own
   when another node wrote it, that the panels refine their abstractions, and that
   a chain of point maps is sound because its links are (`MapSound`).

## Running

    tlc -workers 2 -config TasksLocks.cfg BackgroundTasks
    tlapm LockProofs.tla
    tlapm --summary HistoryProofs.tla

Every module also holds, marked `Slip:`, a few altered forms of its definitions.
Each is a plausible bug of that code and breaks one of the properties:
`PROJECT.json` pairs them under `mutants`. They are used by nothing else.
