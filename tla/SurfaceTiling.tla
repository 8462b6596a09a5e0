---------------------------- MODULE SurfaceTiling ----------------------------
(***************************************************************************)
(* Surface Tiling Mode (bench/surface_tiling.rs): a released move of a     *)
(* patch is followed by six bench steps, each on a worker, each its own    *)
(* version; a duplicate is followed by a drop of the copy's out rows.  The *)
(* sequence is driven once per frame and shares its node with the person,  *)
(* the live evaluation and every other task.                               *)
(*                                                                         *)
(* One node.  A track is abstracted to the serial of the step that last    *)
(* changed what an evaluation of it reads.  A frame polls, drives the live *)
(* evaluation and drives the sequence; the person or an agent acts after,  *)
(* before the next frame.                                                  *)
(***************************************************************************)
EXTENDS Integers, Sequences

CONSTANTS
  MaxItems,   \* bound: bench items ever made; item 1 is there at the start
  MaxActs,    \* bound: what the person or an agent does
  MaxUnpins   \* bound: the duplicates whose copy has a pinned verdict

ASSUME TilingAssumption ==
  /\ MaxItems \in Nat \ {0}
  /\ MaxActs \in Nat
  /\ MaxUnpins \in Nat

VARIABLES
  versions,  \* the node's history, oldest first; empty once the node closes
  cursor,    \* the version shown
  serials,   \* how many versions were ever pushed
  made,      \* how many items were ever put on the bench
  focus,     \* AppState::focused_item: an item, or 0
  task,      \* the locking task on the node: none or one
  ended,     \* the last record of the finished ring: its id and outcome
  tasks,     \* how many tasks were ever started: the last id
  settled,   \* Evaluations::settled: per item, the track last evaluated,
             \* whether that worked, and whether it left an `out` row
  reading,   \* Evaluations::queued: none or the item and track being read
  sequence,  \* AppState::surface_tiling: none or one
  rows,      \* per sequence ever started, the rows that told its end
  phase,     \* where the frame is
  wanted,    \* whether another frame has been asked for
  acts       \* how often the person or an agent has acted

history == <<versions, cursor, serials>>
work    == <<task, ended, tasks>>
vars == <<history, made, focus, work, settled, reading, sequence, rows,
          phase, wanted, acts>>

Items == 1..MaxItems

-----------------------------------------------------------------------------
(* Steps, sequences, versions.                                             *)

TILING_STEPS ==
  <<"Fit", "SearchGeometry", "Fit", "GrownPlaneNormal", "Fit", "Commit">>

DUPLICATE_STEPS == <<"DropOut">>

(* A sequence of `steps` on item i, from the version just made.            *)
SequenceOn(i, steps, serial) ==
  [item |-> i, steps |-> steps, next |-> 1, waitingOn |-> 0, serial |-> serial,
   run |-> Len(rows) + 1]

IsDrop(s) == s.steps = DUPLICATE_STEPS

(* Who pushed a version: a sequence's step, the act a sequence started     *)
(* from (its step 0), or anybody else.                                     *)
By(run, at) == [run |-> run, at |-> at]

Others == By(0, 0)

Loaded == versions # <<>>

Here == versions[cursor]

OnBench(i) == Loaded /\ i \in DOMAIN Here.bench

(* busy_refusal                                                            *)
Busy == task # {}

(* History::push_pair, push_bench: the redo tail goes.  A bench is, per    *)
(* item on it, the serial of the version that last changed its track.      *)
Push(bench, by) ==
  /\ serials' = serials + 1
  /\ versions' = Append(SubSeq(versions, 1, cursor),
                        [serial |-> serials + 1, bench |-> bench, by |-> by])
  /\ cursor' = cursor + 1

(* settle_focused_item                                                     *)
Settle(bench) == focus' = IF focus \in DOMAIN bench THEN focus ELSE 0

-----------------------------------------------------------------------------
(* The live evaluation, as the sequence sees it.                           *)

(* bench_evaluation reads "evaluating": neither current, failed nor        *)
(* refused for the track as it stands.                                     *)
Evaluating(i) == settled[i].track # Here.bench[i]

(* The reading that is out is of a track that is no longer what it was.    *)
Current(e) == OnBench(e.item) /\ Here.bench[e.item] = e.track

(* Whether an observation is `out` once item i is read.  Only the drop of  *)
(* the copy asks, and it is under way from before the copy is first read.  *)
Judged(i) ==
  IF \E s \in sequence : IsDrop(s) /\ s.item = i THEN BOOLEAN ELSE {FALSE}

(* poll_bench_evaluation, land_evaluation: an answer is taken, and counts  *)
(* if it is still of its track and nothing holds the node.  The verdicts   *)
(* it leaves are the version's from then on.                               *)
LandAnswer ==
  \/ /\ \E e \in reading : e.answered /\ Current(e) /\ ~Busy
     /\ \E e \in reading : \E worked \in BOOLEAN, out \in Judged(e.item) :
          settled' = [settled EXCEPT ![e.item] =
                        [track |-> e.track, worked |-> worked, out |-> out]]
  \/ /\ ~\E e \in reading : e.answered /\ Current(e) /\ ~Busy
     /\ UNCHANGED settled

(* Then the next item that needs a reading is read, the focused item       *)
(* first, unless the node is held or a worker is still out.                *)
QueueNext ==
  LET out == {e \in reading : ~e.answered}
      need == {i \in Items : OnBench(i) /\ Evaluating(i)'}
      first == IF focus \in need THEN {focus} ELSE need
  IN IF out # {} \/ Busy \/ need = {}
     THEN reading' = out
     ELSE \E i \in first :
            reading' = {[item |-> i, track |-> Here.bench[i], answered |-> FALSE]}

(* drive_bench_evaluation: whatever changed is drawn in another frame.     *)
Evaluate ==
  /\ phase = "evaluate"
  /\ phase' = "tile"
  /\ UNCHANGED <<history, made, focus, work, sequence, rows, acts>>
  /\ LandAnswer
  /\ QueueNext
  /\ wanted' = (wanted \/ reading' # reading)

(* The worker answers, or stops because its track has moved on.  What a    *)
(* worker says is heard at the next poll, so it is said between frames.    *)
EvaluationAnswers ==
  /\ phase = "rest"
  /\ \E e \in reading : ~e.answered /\ reading' = {[e EXCEPT !.answered = TRUE]}
  /\ wanted' = TRUE
  /\ UNCHANGED <<history, made, focus, work, settled, sequence, rows, phase, acts>>

-----------------------------------------------------------------------------
(* Tasks.                                                                  *)

(* start_background_task on the node: refused while another task holds it. *)
(* `by` says which sequence's step it is, or that it is somebody else's.   *)
StartTask(i, by) ==
  /\ ~Busy
  /\ tasks' = tasks + 1
  /\ task' = {[id |-> tasks + 1, item |-> i, by |-> by, at |-> "queued"]}
  /\ UNCHANGED ended

TaskStarts ==
  /\ phase = "rest"
  /\ \E t \in task : t.at = "queued" /\ task' = {[t EXCEPT !.at = "running"]}
  /\ UNCHANGED <<history, made, focus, ended, tasks, settled, reading, sequence,
                 rows, phase, wanted, acts>>

TaskReports ==
  /\ phase = "rest"
  /\ \E t \in task : t.at = "running" /\ \E at \in {"done", "failed"} :
       task' = {[t EXCEPT !.at = at]}
  /\ wanted' = TRUE
  /\ UNCHANGED <<history, made, focus, ended, tasks, settled, reading, sequence,
                 rows, phase, acts>>

(* What a landing task leaves on the bench: a bench step changes its item, *)
(* anything else changes what every evaluation reads.                      *)
Installed(t) ==
  [i \in DOMAIN Here.bench |->
     IF i = t.item \/ t.item = 0 THEN serials + 1 ELSE Here.bench[i]]

(* poll_background_tasks, finish: a task that worked pushes its version,   *)
(* or none when it had no effect.                                          *)
Poll ==
  \/ /\ \E t \in task :
          /\ t.at \in {"done", "failed"}
          /\ ended' = [id |-> t.id, ok |-> t.at = "done"]
          /\ \/ t.at = "done" /\ Push(Installed(t), t.by)
             \/ UNCHANGED history
     /\ task' = {}
     /\ wanted' = TRUE
  \/ /\ ~\E t \in task : t.at \in {"done", "failed"}
     /\ wanted' = FALSE
     /\ UNCHANGED <<history, task, ended>>

BeginFrame ==
  /\ phase = "rest"
  /\ wanted
  /\ phase' = "evaluate"
  /\ Poll
  /\ UNCHANGED <<made, focus, tasks, settled, reading, sequence, rows, acts>>

-----------------------------------------------------------------------------
(* The sequence, driven once per frame.                                    *)

Told(run, word) == [rows EXCEPT ![run] = Append(@, word)]

(* stop_surface_tiling: a failed row says where and why.                   *)
Stop(s) ==
  /\ sequence' = {}
  /\ rows' = Told(s.run, "stopped")

(* The last step was taken: its own row is what tells of the end.          *)
Finish(s) ==
  /\ sequence' = {}
  /\ rows' = Told(s.run, "finished")

(* sequence_label: the item is on the bench, and focused.                  *)
Lost(s) == ~OnBench(s.item) \/ focus # s.item

StepOf(s) == s.steps[s.next]

(* A starter refuses a step for the node, or for what the track is; else   *)
(* the sequence waits for the task it started.                             *)
StartStep(s) ==
  \/ Stop(s) /\ UNCHANGED <<history, work>>
  \/ /\ StartTask(s.item, By(s.run, s.next))
     /\ sequence' = {[s EXCEPT !.waitingOn = tasks + 1]}
     /\ UNCHANGED <<history, rows>>

(* commit_bench_track, which changes the reconstruction, or finds that the *)
(* point already holds this track.                                         *)
CommitStep(s) ==
  /\ \/ Stop(s) /\ UNCHANGED history
     \/ ~Busy /\ Finish(s) /\ UNCHANGED history
     \/ /\ ~Busy /\ Finish(s)
        /\ Push([i \in DOMAIN Here.bench |-> serials + 1], By(s.run, s.next))
  /\ UNCHANGED work

(* None of the item's observations is `out`.                               *)
NothingOut(i) == ~settled[i].out

(* With none out the step is skipped: the sequence ends with no row and no *)
(* version, whoever holds the node.  Otherwise the drop is refused, also   *)
(* when all are out, which would leave no track, or pushes its version.    *)
DropStep(s) ==
  /\ \/ NothingOut(s.item) /\ sequence' = {} /\ UNCHANGED <<history, rows>>
     \/ ~NothingOut(s.item) /\ Stop(s) /\ UNCHANGED history
     \/ /\ ~NothingOut(s.item) /\ ~Busy /\ Finish(s)
        /\ Push([Here.bench EXCEPT ![s.item] = serials + 1], By(s.run, s.next))
  /\ UNCHANGED work

TakeStep(s) ==
  /\ wanted' = TRUE
  /\ CASE StepOf(s) = "Commit"  -> CommitStep(s)
       [] StepOf(s) = "DropOut" -> DropStep(s)
       [] OTHER                 -> StartStep(s)

(* Slip: an evaluation that failed is waited for.                          *)
UntilMeasured(s) == Evaluating(s.item) \/ ~settled[s.item].worked

(* The next step waits while the track is being read, as a person waits    *)
(* for "Evaluated" before pressing the next button.                        *)
MustWait(s) == Evaluating(s.item)

GoOn(s) ==
  IF MustWait(s)
  THEN /\ sequence' = {s}
       /\ wanted' = (wanted \/ sequence # {s})
       /\ UNCHANGED <<history, work, rows>>
  ELSE TakeStep(s)

(* The sequence once the step it waited on has landed.                     *)
Landed(s) == [s EXCEPT !.next = @ + 1, !.waitingOn = 0, !.serial = Here.serial]

(* Slip: whose step the version at the cursor is is not asked.             *)
NeverOvertaken(s) == FALSE

(* The version at the cursor is a step the sequence did not take.          *)
Overtaken(s) == Here.serial # s.serial

StopNow(s) == Stop(s) /\ wanted' = TRUE /\ UNCHANGED <<history, work>>

(* drive_surface_tiling                                                    *)
Drive(s) ==
  \/ Lost(s) /\ StopNow(s)
  \/ /\ ~Lost(s) /\ s.waitingOn # 0
     /\ \/ /\ \E t \in task : t.id = s.waitingOn
           /\ UNCHANGED <<history, work, sequence, rows, wanted>>
        \/ /\ ~\E t \in task : t.id = s.waitingOn
           /\ IF ended = [id |-> s.waitingOn, ok |-> TRUE]
              THEN GoOn(Landed(s))
              ELSE StopNow(s)
  \/ /\ ~Lost(s) /\ s.waitingOn = 0
     /\ IF Overtaken(s) THEN StopNow(s) ELSE GoOn(s)

Tile ==
  /\ phase = "tile"
  /\ phase' = "rest"
  /\ \/ \E s \in sequence : Drive(s)
     \/ sequence = {} /\ UNCHANGED <<history, work, sequence, rows, wanted>>
  /\ UNCHANGED <<made, focus, settled, reading, acts>>

-----------------------------------------------------------------------------
(* What the person or an agent does in a frame.                            *)

(* The sequence under way, if any, is told its end; the new one begins.    *)
Begin(i, steps, serial, word) ==
  /\ sequence' = {SequenceOn(i, steps, serial)}
  /\ rows' = Append([r \in DOMAIN rows |->
                       IF \E s \in sequence : s.run = r THEN Append(rows[r], word)
                       ELSE rows[r]], <<>>)

(* start_surface_tiling: a drop that waits is ended with its row, a move's *)
(* sequence is started again, and its row says so.                         *)
StartMove(i, serial) ==
  Begin(i, TILING_STEPS, serial,
        IF \E s \in sequence : IsDrop(s) THEN "stopped" ELSE "restarted")

(* Slip: the sequence under way is replaced without a word.                *)
StartDropOver(i, serial) ==
  /\ sequence' = {SequenceOn(i, DUPLICATE_STEPS, serial)}
  /\ rows' = Append(rows, <<>>)

(* start_drop: any sequence under way is ended with its row.               *)
StartDrop(i, serial) == Begin(i, DUPLICATE_STEPS, serial, "stopped")

StartsRun == By(Len(rows) + 1, 0)

(* edit_bench_patch_by_gesture: a released handle moved the patch of the   *)
(* focused item, with the mode on or off.                                  *)
MovePatch ==
  /\ focus # 0 /\ ~Busy
  /\ LET moved == [Here.bench EXCEPT ![focus] = serials + 1]
     IN \/ Push(moved, StartsRun) /\ StartMove(focus, serials + 1)
        \/ Push(moved, Others) /\ UNCHANGED <<sequence, rows>>
  /\ UNCHANGED <<made, focus, work>>

(* duplicate_for_surface_tiling: the copy is focused, its pinned verdicts  *)
(* are handed back in a version of their own, and its drop is left to a    *)
(* sequence.  With the mode off, or when the unpin is refused, none begins.*)
Duplicate ==
  /\ focus # 0 /\ ~Busy /\ made < MaxItems
  /\ made' = made + 1
  /\ focus' = made + 1
  /\ LET copied(serial) ==
           [i \in DOMAIN Here.bench \cup {made + 1} |->
              IF i = made + 1 THEN serial ELSE Here.bench[i]]
     IN \/ /\ Push(copied(serials + 1), StartsRun)
           /\ StartDrop(made + 1, serials + 1)
        \/ /\ made <= MaxUnpins
           /\ serials' = serials + 2
           /\ versions' = SubSeq(versions, 1, cursor) \o
                <<[serial |-> serials + 1, bench |-> copied(serials + 1), by |-> Others],
                  [serial |-> serials + 2, bench |-> copied(serials + 2), by |-> StartsRun]>>
           /\ cursor' = cursor + 2
           /\ StartDrop(made + 1, serials + 2)
        \/ /\ Push(copied(serials + 1), Others)
           /\ UNCHANGED <<sequence, rows>>
  /\ UNCHANGED work

(* Any other bench step or edit: one item changes, everything an           *)
(* evaluation reads changes, an item leaves the bench, or none of these.   *)
OtherStep ==
  /\ Loaded /\ ~Busy
  /\ \E bench \in
       {Here.bench, [i \in DOMAIN Here.bench |-> serials + 1]}
         \cup {[Here.bench EXCEPT ![i] = serials + 1] : i \in DOMAIN Here.bench}
         \cup {[j \in DOMAIN Here.bench \ {i} |-> Here.bench[j]] : i \in DOMAIN Here.bench} :
       Push(bench, Others) /\ Settle(bench)
  /\ UNCHANGED <<made, work, sequence, rows>>

(* move_cursor: undo, redo or a jump.                                      *)
Jump ==
  /\ ~Busy
  /\ \E v \in DOMAIN versions \ {cursor} : cursor' = v /\ Settle(versions[v].bench)
  /\ UNCHANGED <<versions, serials, made, work, sequence, rows>>

(* focus_bench_item, unfocus_bench_item: never refused by a task.          *)
Focus ==
  /\ Loaded
  /\ focus' \in (DOMAIN Here.bench \cup {0}) \ {focus}
  /\ UNCHANGED <<history, made, work, sequence, rows>>

(* The mode's box is cleared.                                              *)
TurnOff ==
  /\ \E s \in sequence : Stop(s)
  /\ UNCHANGED <<history, made, focus, work>>

(* A task somebody asked for: a bench step, or a whole edit (item 0).      *)
StartOther ==
  /\ Loaded
  /\ \E i \in DOMAIN Here.bench \cup {0} : StartTask(i, Others)
  /\ UNCHANGED <<history, made, focus, sequence, rows>>

(* cancel_waiting: a task still queued ends at once.  One that runs only   *)
(* has its flag set, and may yet finish.                                   *)
CancelQueued ==
  /\ \E t \in task : t.at = "queued" /\ ended' = [id |-> t.id, ok |-> FALSE]
  /\ task' = {}
  /\ UNCHANGED <<history, made, focus, tasks, sequence, rows>>

CloseNode ==
  /\ Loaded /\ ~Busy
  /\ versions' = <<>>
  /\ focus' = 0
  /\ UNCHANGED <<cursor, serials, made, work, sequence, rows>>

(* Acts are applied at the end of a frame, as many as there were inputs;   *)
(* what they asked for is seen by the next.                                *)
Act ==
  /\ phase = "rest"
  /\ acts < MaxActs
  /\ acts' = acts + 1
  /\ wanted' = TRUE
  /\ \/ MovePatch \/ Duplicate \/ OtherStep \/ Jump \/ Focus \/ TurnOff
     \/ StartOther \/ CancelQueued \/ CloseNode
  /\ UNCHANGED <<settled, reading, phase>>

-----------------------------------------------------------------------------
Init ==
  /\ versions = <<[serial |-> 1, by |-> Others, bench |-> [i \in {1} |-> 1]]>>
  /\ cursor = 1 /\ serials = 1
  /\ made = 1 /\ focus = 1
  /\ task = {} /\ ended = [id |-> 0, ok |-> FALSE] /\ tasks = 0
  /\ settled = [i \in Items |-> [track |-> 0, worked |-> FALSE, out |-> FALSE]]
  /\ reading = {}
  /\ sequence = {} /\ rows = <<>>
  /\ phase = "rest" /\ wanted = TRUE
  /\ acts = 0

FrameStep == BeginFrame \/ Evaluate \/ Tile

Next ==
  \/ FrameStep
  \/ Act
  \/ TaskStarts \/ TaskReports \/ EvaluationAnswers

Spec == Init /\ [][Next]_vars

(* A frame that was asked for begins and ends; a worker's job returns.     *)
(* Nobody is owed an act.                                                  *)
Fairness ==
  /\ WF_vars(FrameStep)
  /\ WF_vars(TaskStarts)
  /\ WF_vars(TaskReports)
  /\ WF_vars(EvaluationAnswers)

FairSpec == Spec /\ Fairness

-----------------------------------------------------------------------------
(* "A sequence stops rather than guessing": whatever the person, an agent  *)
(* or another task does between its steps, the version a step of a         *)
(* sequence made follows the version an earlier step of that sequence made *)
(* (or the move or the duplicate it started from), and the step under way  *)
(* works on a track whose evaluation had caught up.  A commit writes what  *)
(* the sequence made and nothing else.                                     *)
StepsFollowSteps ==
  /\ \A t \in task : t.by.at > 0 => ~Evaluating(t.item)
  /\ \A v \in 2..Len(versions) :
       LET step == versions[v].by
           before == versions[v - 1].by
       IN step.at > 0 => before.run = step.run /\ before.at < step.at

(* A sequence is under way in run r.                                       *)
UnderWay(r) == \E s \in sequence : s.run = r

(* The one end nobody is told of: the drop of a copy that is still focused *)
(* and on the bench, as the sequence left it, with its evaluation settled  *)
(* and none of its observations out.                                       *)
Skipped(s) ==
  /\ phase = "tile"
  /\ IsDrop(s)
  /\ ~Lost(s) /\ ~Overtaken(s) /\ ~Evaluating(s.item)
  /\ NothingOut(s.item)

(* What a step does to the rows of the sequences started so far.           *)
EndsAreTold ==
  /\ \A s \in sequence :
       IF UnderWay(s.run)' THEN rows'[s.run] = <<>>
       ELSE \/ Len(rows'[s.run]) = 1
            \/ Skipped(s) /\ rows'[s.run] = <<>> /\ UNCHANGED history
  /\ \A r \in DOMAIN rows : ~UnderWay(r) => rows'[r] = rows[r]

(* No sequence vanishes and none ends twice: whatever ends one, be it its  *)
(* own step, a move, a duplicate or the mode's box, adds one row about it, *)
(* the row of its last step or one that says where it stopped.  Only a     *)
(* drop with nothing to do ends without a row, and it changes nothing      *)
(* either.  A sequence that has ended is never told of again.              *)
NoSequenceVanishes == [][EndsAreTold]_vars

(* Every sequence comes to its end, whatever it waits on: its task, the    *)
(* evaluation after it, or a node somebody else holds.                     *)
SequencesEnd == \A r \in 1..MaxActs : UnderWay(r) ~> ~UnderWay(r)

=============================================================================
