---------------------------- MODULE LiveEvaluation ----------------------------
(***************************************************************************)
(* The bench's live evaluation (bench/live.rs) driving quiet tasks through *)
(* the fast queue, inside the viewer's frame (app.rs).                     *)
(*                                                                         *)
(* Every track on a node's bench, and the viewed track (bench/viewed.rs),  *)
(* is kept evaluated against its inputs: the track value and the document  *)
(* half of the version at the cursor.  The viewed track is the selected    *)
(* point read as a track, on no bench: it is built when Track View draws.  *)
(* Nobody asks for an evaluation; the driver runs at the top and at the    *)
(* end of each frame.  A frame is drawn only when one was asked for, so an *)
(* evaluation that misses its wake waits until somebody moves the mouse.   *)
(*                                                                         *)
(* The queues and their workers are those of BackgroundTasks.  This module *)
(* adds the driver, the benches its answers land in, and the order of the  *)
(* frame.  One point may be viewed.  A track whose preconditions refuse an *)
(* evaluation is left out.                                                 *)
(***************************************************************************)
EXTENDS BackgroundTasks

CONSTANTS
  Items,       \* the bench items, in the order the driver tries them
  HomeOf,      \* the node on whose bench each item is
  Viewed,      \* the viewed track, as the driver's subject
  ViewedNode,  \* the node the point that may be viewed is on
  CacheSize,   \* CACHE_SIZE: how many viewed tracks are kept
  MayRepaint,  \* whether an evaluation may move a verdict
  MaxActs      \* bound: what a person or an agent does

LiveSource == "LiveEvaluation"

ItemSet == Range(Items)
Subjects == ItemSet \cup {Viewed}

ASSUME ItemsAssumption ==
  /\ Items \in Seq(STRING)
  /\ HomeOf \in [ItemSet -> Nodes]
  /\ Viewed \notin ItemSet /\ ViewedNode \in Nodes
  /\ CacheSize \in Nat \ {0}
  /\ LiveSource \in Sources
  /\ MayRepaint \in BOOLEAN
  /\ MaxActs \in Nat

VARIABLES
  phase,      \* where the GUI thread is in the frame
  wanted,     \* whether another frame has been asked for
  bench,      \* per item, the track at its node's cursor, or none
  document,   \* per node, the document serial of the version at the cursor
  past,       \* per node, the version an undo or a redo steps to
  queued,     \* Evaluations::queued: none, or the evaluation and its inputs
  result,     \* per quiet id, how the evaluation it ran ended
  settled,    \* Evaluations::settled: per item, the inputs last installed for
  made,       \* per subject, how many track values were made: each a new Arc
  viewing,    \* whether the point is selected and no item of its node focused
  current,    \* ViewedTracks::current: none, or the document of its key
  cache,      \* ViewedTracks::cache: the most recently viewed first
  acts        \* how often a person or an agent has acted

viewedVars == <<current, cache>>
driverVars == <<queued, result, settled>>
benchVars == <<bench, document, past, made>>
liveVars == <<phase, wanted, bench, document, past, queued, result, settled, made,
              viewing, current, cache>>
allVars == <<vars, liveVars, acts>>

-----------------------------------------------------------------------------
(* A track value.  `arc` is its identity.  `step` is the step that set what*)
(* a person decides about it, and `readAt` the document its measurements   *)
(* were read at; `marked` is core's repaint mark.                          *)
Track == [arc : Nat, step : Nat, readAt : Nat \cup {-1}, marked : BOOLEAN]

(* The items of a node's bench.                                            *)
BenchOf(n) == [s \in {i \in ItemSet : HomeOf[i] = n} |-> bench[s]]

NodeOf(s) == IF s = Viewed THEN ViewedNode ELSE HomeOf[s]

(* viewed_key: the document half the point is to be read from.             *)
ViewedKey == IF viewing /\ ViewedNode \in loaded THEN {document[ViewedNode]} ELSE {}

(* viewed_track: the cached track of the current key, while that is still  *)
(* the key the selection and the cursor give.                              *)
ViewedTrack == {v \in Range(cache) : current = {v.document} /\ ViewedKey = current}

(* evaluation_inputs: none when the item is on no bench, or nothing is     *)
(* viewed.                                                                 *)
InputsOf(s) ==
  IF s = Viewed
  THEN {[item |-> s, track |-> v.track, document |-> v.document] : v \in ViewedTrack}
  ELSE {[item |-> s, track |-> t, document |-> document[HomeOf[s]]] : t \in bench[s]}

(* What a step on s leaves behind: a new Arc nobody has measured.          *)
SteppedTrack(s) ==
  [arc |-> made[s] + 1, step |-> made[s] + 1, readAt |-> -1, marked |-> FALSE]

(* Slip: the document is left out of the comparison.                       *)
SameTrack(a, b) == a.item = b.item /\ a.track = b.track

(* Inputs, compared: the same track value, at the same document serial.    *)
Same(a, b) == a.item = b.item /\ a.track = b.track /\ a.document = b.document

SettledFor(s, inputs) == \E e \in settled[s] : Same(e.inputs, inputs)

(* evaluation_of: Evaluating, against Current and Failed.  The viewed      *)
(* track carries its own state.                                            *)
Evaluating(s) ==
  IF s = Viewed
  THEN \E v \in ViewedTrack : v.evaluation = "evaluating"
  ELSE \E inputs \in InputsOf(s) : ~SettledFor(s, inputs)

Current(s) ==
  \E inputs \in InputsOf(s), e \in settled[s] : Same(e.inputs, inputs) /\ e.ok

(* next_unevaluated: the viewed track, then the first item, whose node no  *)
(* operation holds.                                                        *)
NextUnevaluated ==
  LET order == <<Viewed>> \o Items
      candidates == {i \in DOMAIN order : Evaluating(order[i]) /\ ~Busy(NodeOf(order[i]))}
  IN {order[i] : i \in {j \in candidates : \A k \in candidates : j <= k}}

(* QuietRank: the viewed track, the focused item, and behind the Track     *)
(* Table's jobs the other items.                                           *)
RankOf(s) ==
  CASE s = Viewed -> 2
    [] s = Items[1] -> 3
    [] OTHER -> 6

(* Slip: no quiet task is ever found running.                              *)
NothingRuns(id) == FALSE

(* quiet_task_running                                                      *)
QuietRunning(id) == \E q \in Queues : \E t \in running[q] : t.quiet /\ t.id = id

-----------------------------------------------------------------------------
(* The frame: poll the slow queue, poll the fast queue, drive, apply the   *)
(* steps that arrived, draw the panels and apply theirs, drive again.  It  *)
(* is drawn when one was wanted, or when a person or an agent does         *)
(* something.                                                              *)

BeginFrame ==
  /\ phase = "idle" /\ wanted
  /\ phase' = "slow"
  /\ wanted' = FALSE
  /\ UNCHANGED <<vars, benchVars, driverVars, viewing, viewedVars, acts>>

InputArrives ==
  /\ phase = "idle" /\ ~wanted
  /\ phase' = "slow"
  /\ UNCHANGED <<vars, wanted, benchVars, driverVars, viewing, viewedVars, acts>>

AfterPoll(q) == IF q = "slow" THEN "fast" ELSE "land"

(* A landing bench step gives an item of its node a new value; a landing   *)
(* whole-reconstruction edit gives the node a new document.                *)
LandedValue(t, res) ==
  IF res = "produced" /\ Locks(t.op) /\ t.node \in loaded
  THEN /\ past' = [past EXCEPT ![t.node] = [bench |-> BenchOf(t.node), document |-> document[t.node]]]
       /\ IF t.op = "BenchStep"
          THEN /\ \E s \in {i \in ItemSet : HomeOf[i] = t.node /\ bench[i] # {}} :
                    /\ bench' = [bench EXCEPT ![s] = {SteppedTrack(s)}]
                    /\ made' = [made EXCEPT ![s] = @ + 1]
               /\ UNCHANGED document
          ELSE /\ document' = [document EXCEPT ![t.node] = cursor'[t.node]]
               /\ UNCHANGED <<bench, made>>
  ELSE UNCHANGED benchVars

(* poll_background_tasks for q: what landed asks for another frame.        *)
PollQueue(q) ==
  /\ phase = q
  /\ phase' = AfterPoll(q)
  /\ UNCHANGED <<driverVars, viewing, viewedVars, acts>>
  /\ IF worker[q] \in {"produced", "nothing"}
     THEN /\ Land(q)
          /\ \E t \in running[q] : LandedValue(t, worker[q])
          /\ wanted' = TRUE
     ELSE UNCHANGED <<vars, wanted, benchVars>>

-----------------------------------------------------------------------------
(* The driver: drive_bench_evaluation.  It runs in phase "land", before    *)
(* the steps, and in phase "landAgain", after them; its second half is a   *)
(* phase of its own because a worker may answer between the two.           *)

AfterLanding == IF phase = "land" THEN "queue" ELSE "queueAgain"
AfterQueueing == IF phase = "queue" THEN "steps" ELSE "idle"

(* The slot keeps the inputs of the value that was installed.              *)
Settle(kept, inputs, ok) ==
  settled' = [kept EXCEPT ![inputs.item] = {[inputs |-> inputs, ok |-> ok]}]

(* The measured track, installed with replace_current_bench.  A repaint    *)
(* that moved a verdict leaves it unsettled; a marked track is read        *)
(* without repainting.                                                     *)
InstallTrack(inputs) ==
  \E mark \in IF MayRepaint /\ ~inputs.track.marked THEN BOOLEAN ELSE {FALSE} :
    LET landed == [arc |-> made[inputs.item] + 1, step |-> inputs.track.step,
                   readAt |-> inputs.document, marked |-> mark]
    IN /\ bench' = [bench EXCEPT ![inputs.item] = {landed}]
       /\ made' = [made EXCEPT ![inputs.item] = @ + 1]
       /\ IF mark
          THEN settled' = [settled EXCEPT ![inputs.item] = {}]
          ELSE Settle(settled, [inputs EXCEPT !.track = landed], TRUE)

(* install_viewed_evaluation: the cached track that was read takes what it *)
(* brought; one that has left the cache takes nothing.                     *)
InstallViewed(inputs, track, evaluation) ==
  cache' = [i \in DOMAIN cache |->
              IF cache[i].track.arc = inputs.track.arc
              THEN [cache[i] EXCEPT !.track = track, !.evaluation = evaluation]
              ELSE cache[i]]

(* land_viewed_evaluation, of one that measured: a track that carries the  *)
(* repaint's mark is read once more.                                       *)
MeasureViewed(inputs) ==
  \E mark \in IF MayRepaint /\ ~inputs.track.marked THEN BOOLEAN ELSE {FALSE} :
    /\ InstallViewed(inputs, [arc |-> made[Viewed] + 1, step |-> inputs.track.step,
                               readAt |-> inputs.document, marked |-> mark],
                     IF mark THEN "evaluating" ELSE "current")
    /\ made' = [made EXCEPT ![Viewed] = @ + 1]

(* record_failure                                                          *)
RecordFailure(kept, inputs) ==
  IF inputs.item = Viewed
  THEN InstallViewed(inputs, inputs.track, "failed") /\ settled' = kept
  ELSE Settle(kept, inputs, FALSE) /\ UNCHANGED cache

(* What an evaluation that may land installs.                              *)
Install(inputs, how) ==
  CASE how = "cancelled" -> UNCHANGED <<bench, made, settled, cache>>
    [] how = "failed" -> RecordFailure(settled, inputs) /\ UNCHANGED <<bench, made>>
    [] OTHER ->
         IF inputs.item = Viewed
         THEN MeasureViewed(inputs) /\ UNCHANGED <<bench, settled>>
         ELSE InstallTrack(inputs) /\ UNCHANGED cache

(* The inputs an evaluation was queued with are no longer its subject's.   *)
Moved(inputs) == \A now \in InputsOf(inputs.item) : ~Same(now, inputs)

(* Slip: an evaluation lands although an operation holds its node.         *)
LandEvaluationUnasked(inputs, how) ==
  IF Moved(inputs) THEN UNCHANGED <<bench, made, settled, cache>> ELSE Install(inputs, how)

(* Slip: an evaluation lands although its inputs have moved.               *)
LandEvaluationStale(inputs, how) ==
  IF InputsOf(inputs.item) = {} \/ Busy(NodeOf(inputs.item))
  THEN UNCHANGED <<bench, made, settled, cache>>
  ELSE Install(inputs, how)

(* land_evaluation: dropped unless its inputs are still the subject's and  *)
(* its node is not locked.                                                 *)
LandEvaluation(inputs, how) ==
  IF Moved(inputs) \/ Busy(NodeOf(inputs.item))
  THEN UNCHANGED <<bench, made, settled, cache>>
  ELSE Install(inputs, how)

Answered(e) == told[e.task] # {}

(* poll_bench_evaluation, land_answer.  A request the queue dropped never  *)
(* ran and is no failure; one whose channel closed without a word is.      *)
DriveLand ==
  /\ phase \in {"land", "landAgain"}
  /\ phase' = AfterLanding
  /\ UNCHANGED <<vars, document, past, viewing, current, acts>>
  /\ IF \E e \in queued : Answered(e)
     THEN \E e \in queued :
            /\ queued' = {}
            /\ result' = [result EXCEPT ![e.task] = "none"]
            /\ wanted' = TRUE
            /\ CASE "dropped" \in told[e.task] -> UNCHANGED <<bench, made, settled, cache>>
                 [] "failed" \in told[e.task] -> LandEvaluation(e.inputs, "failed")
                 [] OTHER -> LandEvaluation(e.inputs, result[e.task])
     ELSE UNCHANGED <<queued, result, wanted, bench, made, settled, cache>>

Stale(e) == Moved(e.inputs)

(* forget_settled_tracks                                                   *)
Remembered == [s \in ItemSet |-> IF bench[s] = {} THEN {} ELSE settled[s]]

(* queue_evaluation: the request replaces the one that waits, if any.  A   *)
(* thread that cannot be spawned is a failure of these inputs.  The job    *)
(* itself can always be built: evaluate_job is refused for a locked node,  *)
(* one that closed, or a track that is gone, and next_unevaluated has just *)
(* passed those over.                                                      *)
QueueEvaluation(s) ==
  \E inputs \in InputsOf(s) :
    /\ StartQuiet(LiveSource, RankOf(s), NodeOf(s))
    /\ IF told'[nextQuietId] = {"failed"}
       THEN queued' = {} /\ RecordFailure(Remembered, inputs)
       ELSE /\ queued' = {[inputs |-> inputs, task |-> nextQuietId]}
            /\ settled' = Remembered
            /\ UNCHANGED cache

(* cancel_quiet_task, which does nothing for a task that is gone.          *)
AskToStop(id) ==
  IF \E t \in HeldIn("fast") : t.quiet /\ t.id = id
  THEN CancelQuiet("fast", id)
  ELSE UNCHANGED vars

(* A current evaluation is left alone.  A stale one that runs is asked to  *)
(* stop, and the next is queued once it has answered.                      *)
DriveQueue ==
  /\ phase \in {"queue", "queueAgain"}
  /\ phase' = AfterQueueing
  /\ UNCHANGED <<benchVars, result, viewing, current, acts>>
  /\ \/ /\ \E e \in queued : ~Stale(e)
        /\ UNCHANGED <<vars, wanted, queued, settled, cache>>
     \/ /\ \E e \in queued : Stale(e) /\ QuietRunning(e.task) /\ AskToStop(e.task)
        /\ UNCHANGED <<wanted, queued, settled, cache>>
     \/ /\ \A e \in queued : Stale(e) /\ ~QuietRunning(e.task)
        /\ \/ /\ NextUnevaluated = {}
              /\ settled' = Remembered
              /\ queued' = {}
              /\ UNCHANGED cache
              /\ IF queued = {}
                 THEN UNCHANGED <<vars, wanted>>
                 ELSE /\ \E e \in queued : AskToStop(e.task)
                      /\ wanted' = TRUE
           \/ /\ \E s \in NextUnevaluated : QueueEvaluation(s)
              /\ wanted' = TRUE

-----------------------------------------------------------------------------
(* The steps a frame applies between the two drives: the agent's and those *)
(* of the panels drawn before Track View, and then those of the panels     *)
(* drawn after it.                                                         *)

Stepping ==
  /\ phase \in {"steps", "panels"}
  /\ acts < MaxActs
  /\ acts' = acts + 1

(* A locking operation is started or queued.                               *)
Ask(op, n) ==
  /\ Stepping
  /\ \/ op = "WholeEdit"
     \/ op = "BenchStep" /\ \E s \in ItemSet : HomeOf[s] = n
  /\ StartAsked(op, n)
  /\ UNCHANGED liveVars

CancelAsked ==
  /\ Stepping
  /\ \/ \E q \in Queues : CancelRunning(q)
     \/ \E q \in Queues : \E i \in 1..Len(waiting[q]) : CancelWaiting(q, i)
  /\ UNCHANGED liveVars

LeaveBehind(n) ==
  past' = [past EXCEPT ![n] = [bench |-> BenchOf(n), document |-> document[n]]]

(* A synchronous step on a bench track: push_bench.                        *)
StepTrack(s) ==
  /\ Stepping
  /\ bench[s] # {}
  /\ MoveCursor(HomeOf[s])
  /\ LeaveBehind(HomeOf[s])
  /\ bench' = [bench EXCEPT ![s] = {SteppedTrack(s)}]
  /\ made' = [made EXCEPT ![s] = @ + 1]
  /\ UNCHANGED <<phase, wanted, document, driverVars, viewing, viewedVars>>

(* A synchronous edit of the document half: push.                          *)
StepDocument(n) ==
  /\ Stepping
  /\ MoveCursor(n)
  /\ LeaveBehind(n)
  /\ document' = [document EXCEPT ![n] = cursor'[n]]
  /\ UNCHANGED <<phase, wanted, bench, made, driverVars, viewing, viewedVars>>

(* Undo, and the redo that takes it back: the cursor moves to the version  *)
(* it came from, with that version's bench and document.                   *)
StepBack(n) ==
  /\ Stepping
  /\ cursor[n] > 0
  /\ MoveCursor(n)
  /\ LeaveBehind(n)
  /\ bench' = [s \in ItemSet |-> IF HomeOf[s] = n THEN past[n].bench[s] ELSE bench[s]]
  /\ document' = [document EXCEPT ![n] = past[n].document]
  /\ UNCHANGED <<phase, wanted, made, driverVars, viewing, viewedVars>>

Close(n) ==
  /\ Stepping
  /\ CloseNode(n)
  /\ bench' = [s \in ItemSet |-> IF HomeOf[s] = n THEN {} ELSE bench[s]]
  /\ IF n = ViewedNode
     THEN viewing' = FALSE /\ current' = {} /\ cache' = <<>>
     ELSE UNCHANGED <<viewing, viewedVars>>
  /\ UNCHANGED <<phase, wanted, document, past, made, driverVars>>

(* The point is selected or left, or an item of its node focused.          *)
View ==
  /\ Stepping
  /\ ViewedNode \in loaded
  /\ viewing' = ~viewing
  /\ UNCHANGED <<vars, phase, wanted, benchVars, driverVars, viewedVars>>

(* build_viewed_track                                                      *)
BuiltTrack(key) ==
  [document |-> key, evaluation |-> "evaluating",
   track |-> [arc |-> made[Viewed] + 1, step |-> 0, readAt |-> -1, marked |-> FALSE]]

(* refresh_viewed_track: the key's track goes to the front of the cache,   *)
(* and is built when it is not there.                                      *)
RefreshViewed ==
  \E key \in ViewedKey :
    /\ current' = {key}
    /\ IF \E v \in Range(cache) : v.document = key
       THEN /\ \E at \in DOMAIN cache :
                 /\ cache[at].document = key
                 /\ cache' = <<cache[at]>> \o RemoveAt(cache, at)
            /\ UNCHANGED made
       ELSE /\ cache' = <<BuiltTrack(key)>> \o
                 SubSeq(cache, 1, IF Len(cache) < CacheSize THEN Len(cache) ELSE CacheSize - 1)
            /\ made' = [made EXCEPT ![Viewed] = @ + 1]

(* hide_viewed_track, and Track View, which is taken to be in front in     *)
(* every frame, asks again when there is something to view.                *)
DrawPanels ==
  /\ phase = "steps"
  /\ phase' = "panels"
  /\ \/ RefreshViewed
     \/ ViewedKey = {} /\ current' = {} /\ UNCHANGED <<cache, made>>
  /\ UNCHANGED <<vars, wanted, bench, document, past, driverVars, viewing, acts>>

(* Slip: the driver does not run again at the end of the frame.            *)
EndStepsUndriven ==
  /\ phase = "panels"
  /\ phase' = "idle"
  /\ UNCHANGED <<vars, wanted, benchVars, driverVars, viewing, viewedVars, acts>>

EndSteps ==
  /\ phase = "panels"
  /\ phase' = "landAgain"
  /\ UNCHANGED <<vars, wanted, benchVars, driverVars, viewing, viewedVars, acts>>

-----------------------------------------------------------------------------
(* The workers, at any moment.                                             *)

(* The evaluation answers on the driver's channel.  It reports that it was *)
(* cancelled only when it was asked to stop, and may finish all the same.  *)
EvaluationAnswers ==
  /\ WorkerAnswers("fast")
  /\ \E t \in running["fast"] :
       \E how \in {"measured", "failed"} \cup IF cancel["fast"] THEN {"cancelled"} ELSE {} :
         result' = [result EXCEPT ![t.id] = how]
  /\ UNCHANGED <<phase, wanted, benchVars, queued, settled, viewing, viewedVars, acts>>

(* Slip: the worker reports without a wake.                                *)
WorkerReportsAsleep(q) ==
  /\ WorkerDone(q)
  /\ UNCHANGED <<liveVars, acts>>

(* The worker's last word wakes the viewer.                                *)
WorkerReports(q) ==
  /\ WorkerDone(q)
  /\ wanted' = TRUE
  /\ UNCHANGED <<phase, benchVars, driverVars, viewing, viewedVars, acts>>

-----------------------------------------------------------------------------
FirstTrack(s) == [arc |-> 0, step |-> 0, readAt |-> -1, marked |-> FALSE]

LiveInit ==
  /\ Init
  /\ phase = "idle"
  /\ wanted = TRUE
  /\ bench = [s \in ItemSet |-> IF HomeOf[s] \in FirstNodes THEN {FirstTrack(s)} ELSE {}]
  /\ document = [n \in Nodes |-> 0]
  /\ past = [n \in Nodes |-> [bench |-> BenchOf(n), document |-> 0]]
  /\ queued = {}
  /\ result = [i \in 1..MaxQuiet |-> "none"]
  /\ settled = [s \in ItemSet |-> {}]
  /\ made = [s \in Subjects |-> 0]
  /\ viewing = FALSE /\ current = {} /\ cache = <<>>
  /\ acts = 0

FrameStep ==
  BeginFrame \/ (\E q \in Queues : PollQueue(q)) \/ DriveLand \/ DriveQueue
    \/ DrawPanels \/ EndSteps

LiveNext ==
  \/ BeginFrame
  \/ InputArrives
  \/ \E q \in Queues : PollQueue(q)
  \/ DriveLand
  \/ DriveQueue
  \/ \E op \in AskedOps, n \in Nodes : Ask(op, n)
  \/ CancelAsked
  \/ \E s \in ItemSet : StepTrack(s)
  \/ \E n \in Nodes : StepDocument(n)
  \/ \E n \in Nodes : StepBack(n)
  \/ \E n \in Nodes : Close(n)
  \/ View
  \/ DrawPanels
  \/ EndSteps
  \/ EvaluationAnswers
  \/ \E q \in Queues : WorkerReports(q)

LiveSpec == LiveInit /\ [][LiveNext]_allVars

(* A frame that was asked for is drawn and runs to its end, and a worker's *)
(* kernel returns.  A frame nobody asked for is owed to nobody.            *)
LiveFairness ==
  /\ WF_allVars(FrameStep)
  /\ WF_allVars(EvaluationAnswers)
  /\ \A q \in Queues : WF_allVars(WorkerReports(q))

FairLiveSpec == LiveSpec /\ LiveFairness

-----------------------------------------------------------------------------
(* A track that reads as current carries measurements read at the document *)
(* now at its node's cursor (Inputs, evaluation_of), and a viewed track    *)
(* that reads so those read at the document of its key, though that may    *)
(* have left the cursor and come back meanwhile.                           *)
CurrentIsFresh ==
  /\ \A s \in ItemSet : Current(s) =>
       \A t \in bench[s] : t.readAt = document[HomeOf[s]]
  /\ \A v \in Range(cache) : v.evaluation = "current" => v.track.readAt = v.document

(* At most one evaluation is waiting or on a worker without having         *)
(* answered, and it is the one the driver holds: none is orphaned.         *)
OneEvaluation ==
  \A q \in Queues : \A t \in HeldIn(q) :
    t.op = LiveSource /\ told[t.id] = {} => \E e \in queued : e.task = t.id

(* The bench and the document a locking task captured stay as they were    *)
(* until that task lands: no evaluation lands into a locked node.          *)
LockedBenchStays ==
  [][\A n \in Nodes :
       Busy(n) /\ Busy(n)' =>
         /\ document'[n] = document[n]
         /\ \A s \in ItemSet : HomeOf[s] = n => bench'[s] = bench[s]]_allVars

(* Landing an evaluation never undoes a step: what a person decided about  *)
(* a track changes only in a step, an undo, a close or a landing task.     *)
EvaluationKeepsSteps ==
  [][DriveLand => \A s \in ItemSet :
       {t.step : t \in bench'[s]} = {t.step : t \in bench[s]}]_allVars

(* Between frames, a running evaluation whose inputs have moved has been   *)
(* asked to stop.                                                          *)
StaleIsStopped ==
  phase = "idle" => \A e \in queued : Stale(e) /\ QuietRunning(e.task) => cancel["fast"]

(* The invariant bench/live.rs states: between frames, a track of a free   *)
(* node that is not evaluated has an evaluation running or waiting, or the *)
(* next frame has been asked for.  Nothing waits for the mouse to move.    *)
NothingIsForgotten ==
  phase = "idle" /\ ~wanted =>
    \A s \in Subjects : Evaluating(s) /\ ~Busy(NodeOf(s)) =>
      \E t \in running["fast"] : worker["fast"] \in {"computing", "answered"}

(* Every track is settled in the end, once the person and the agent leave  *)
(* it alone: after stale evaluations, ones that were dropped or stopped,   *)
(* repaints, and however the tracks wait for one another.                  *)
Settles == \A s \in Subjects : Evaluating(s) ~> ~Evaluating(s)

=============================================================================
