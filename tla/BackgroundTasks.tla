--------------------------- MODULE BackgroundTasks ---------------------------
(***************************************************************************)
(* The two background queues of the SfM Explorer (background/mod.rs).      *)
(*                                                                         *)
(* The GUI thread owns the queues.  Each queue runs one task on a worker   *)
(* thread and keeps the rest waiting.  A task someone asked for may lock a *)
(* node from the moment it is queued until it lands; a quiet task, which   *)
(* the viewer starts by itself to keep a panel current, locks nothing and  *)
(* gives way.  Every action below is one call on the GUI thread, or one    *)
(* thing a worker thread does.                                             *)
(*                                                                         *)
(* The operations somebody can ask for fall into four classes that the     *)
(* queues tell apart (queue, locks, whether it makes nodes); a value is    *)
(* abstracted to the number of times its node's cursor has moved.          *)
(***************************************************************************)
EXTENDS Integers, Sequences, SequencesExt

CONSTANTS
  Nodes,         \* the scene nodes that are ever opened (ReconId)
  NoNode,        \* the node of an open, whose node does not exist yet
  FirstNodes,    \* the nodes loaded when the viewer starts
  Sources,       \* the producers of quiet work that are active
  MaxAsked,      \* bound: tasks someone asks for
  MaxQuiet,      \* bound: quiet tasks queued
  MaxMoves,      \* bound: cursor moves made by synchronous edits of a node
  SpawnMayFail   \* whether the OS may refuse a worker thread

AllSources == {"CameraModelProposal", "LiveEvaluation",
               "TrackTableColumns", "TrackTableReferencePicks"}

ASSUME ConstantsAssumption ==
  /\ NoNode \notin Nodes
  /\ FirstNodes \subseteq Nodes
  /\ Sources \subseteq AllSources
  /\ MaxAsked \in Nat
  /\ MaxQuiet \in Nat
  /\ MaxMoves \in Nat
  /\ SpawnMayFail \in BOOLEAN

VARIABLES
  running,      \* QueueState::running, per queue: no task or the one it runs
  waiting,      \* QueueState::waiting, per queue, the next one first
  cancel,       \* the running task's cancel flag, per queue
  worker,       \* how far the running task's worker thread has got, per queue
  nextId,       \* AppState::next_operation_id
  nextQuietId,  \* AppState::next_quiet_id
  loaded,       \* the nodes in the scene
  opened,       \* the nodes that have ever been in it: a ReconId is not reused
  cursor,       \* per node, how often its cursor moved: the version it is at
  rows,         \* per asked id, the Action Log rows that ended it
  told          \* per quiet id, what its source was told became of it

vars == <<running, waiting, cancel, worker, nextId, nextQuietId,
          loaded, opened, cursor, rows, told>>

-----------------------------------------------------------------------------
(* Operations and tasks.                                                   *)

Queues == {"slow", "fast"}

Other(q) == IF q = "slow" THEN "fast" ELSE "slow"

(* "WholeEdit": the whole-reconstruction edits and the file builds.        *)
(* "BenchStep": the bench steps, create track at pixel, find nearby.       *)
(* "FindPoints" reads a node and locks none; "Open" makes nodes.           *)
AskedOps == {"WholeEdit", "BenchStep", "FindPoints", "Open"}

QueueOf(op) == IF op = "WholeEdit" THEN "slow" ELSE "fast"

Locks(op) == op \in {"WholeEdit", "BenchStep"}

(* QuietSource::waits_for_its_node                                         *)
WaitsForItsNode(op) == op \in {"CameraModelProposal", "LiveEvaluation"}

(* QuietRank, first to last.  An asked task has rank 0: no quiet task goes *)
(* ahead of one.                                                           *)
QuietRanks == 1..6

RanksOf(source) ==
  CASE source = "CameraModelProposal"      -> {1}
    [] source = "LiveEvaluation"           -> {2, 3, 6}
    [] source = "TrackTableColumns"        -> {4}
    [] source = "TrackTableReferencePicks" -> {5}

(* `base` is the version the job was built from: the one at the cursor     *)
(* when the task was queued.                                               *)
AskedTask == [quiet : {FALSE}, id : 1..MaxAsked, op : AskedOps,
              node : Nodes \cup {NoNode}, rank : {0}, base : Nat]

QuietTask == [quiet : {TRUE}, id : 1..MaxQuiet, op : AllSources,
              node : Nodes, rank : QuietRanks, base : Nat]

Task == AskedTask \cup QuietTask

VersionAt(n) == IF n \in Nodes THEN cursor[n] ELSE 0

NewAsked(op, n) ==
  [quiet |-> FALSE, id |-> nextId, op |-> op, node |-> n, rank |-> 0,
   base |-> VersionAt(n)]

NewQuiet(source, rank, n) ==
  [quiet |-> TRUE, id |-> nextQuietId, op |-> source, node |-> n,
   rank |-> rank, base |-> VersionAt(n)]

(* The tasks a queue holds, and those either queue holds.                  *)
HeldIn(q) == running[q] \cup Range(waiting[q])

Held == HeldIn("slow") \cup HeldIn("fast")

(* The places of a queue: 0 for the one that runs, then the waiting ones.  *)
Places(q) == 0..Len(waiting[q])

At(q, i) == IF i = 0 THEN running[q] ELSE {waiting[q][i]}

LockedBy(tasks, n) == \E t \in tasks : Locks(t.op) /\ t.node = n

(* Slip: only running tasks are asked whether they lock the node.          *)
BusyRunningOnly(n) == LockedBy(running["slow"] \cup running["fast"], n)

(* busy_refusal: a locking task runs on n or waits to, in either queue.    *)
Busy(n) == LockedBy(Held, n)

-----------------------------------------------------------------------------
(* Where a task goes in a queue.                                           *)

(* Slip: an asked task goes to the very end.                               *)
AskedPlacesLast(w) == {Len(w) + 1}

(* In front of the first quiet task, or at the end.                        *)
AskedPlaces(w) ==
  {at \in 1..(Len(w) + 1) :
     /\ \A i \in 1..(at - 1) : ~w[i].quiet
     /\ at <= Len(w) => w[at].quiet}

(* In front of the first task with a later rank, or at the end.            *)
QuietPlaces(w, rank) ==
  {at \in 1..(Len(w) + 1) :
     /\ \A i \in 1..(at - 1) : w[i].rank <= rank
     /\ at <= Len(w) => w[at].rank > rank}

(* The first entry `source` has waiting: none or one position.             *)
EntryOf(w, source) ==
  {i \in 1..Len(w) : /\ w[i].op = source
                     /\ \A j \in 1..(i - 1) : w[j].op # source}

(* Slip: the replaced entry is told it was dropped and stays.              *)
WithEntryOf(w, source) == {w}

WithoutEntryOf(w, source) ==
  IF EntryOf(w, source) = {} THEN {w}
  ELSE {RemoveAt(w, i) : i \in EntryOf(w, source)}

(* Tell the sources of the quiet tasks `ids` what became of them.          *)
Tell(ids, word) ==
  [i \in 1..MaxQuiet |-> IF i \in ids THEN told[i] \cup {word} ELSE told[i]]

-----------------------------------------------------------------------------
(* Starting, queueing and cancelling: calls on the GUI thread.             *)

(* start_refusal                                                           *)
StartRefused(op, n) == Locks(op) /\ Busy(n)

(* Slip: only the quiet task of the asked task's own queue gives way.      *)
GivenWayInQueue(op, n) ==
  [q \in Queues |-> cancel[q] \/ (q = QueueOf(op) /\ \E t \in running[q] : t.quiet)]

(* give_way_to: the cancel flags once the quiet tasks an asked task        *)
(* displaces have been asked to stop.                                      *)
GivenWay(op, n) ==
  [q \in Queues |->
     cancel[q] \/ \E t \in running[q] :
                     /\ t.quiet
                     /\ \/ q = QueueOf(op)
                        \/ WaitsForItsNode(t.op) /\ Locks(op) /\ t.node = n]

(* run_task: the queue must be idle.                                       *)
Run(q, t) ==
  /\ running[q] = {}
  /\ running' = [running EXCEPT ![q] = {t}]
  /\ worker' = [worker EXCEPT ![q] = "computing"]

(* start_task.  A thread that cannot be spawned is the caller's refusal:   *)
(* no id is spent, though a quiet task may already have been asked to stop.*)
StartAsked(op, n) ==
  LET q == QueueOf(op)
      t == NewAsked(op, n)
  IN /\ nextId <= MaxAsked
     /\ IF op = "Open" THEN n = NoNode ELSE n \in loaded
     /\ ~StartRefused(op, n)
     /\ cancel' = GivenWay(op, n)
     /\ \/ /\ running[q] # {}
           /\ \E at \in AskedPlaces(waiting[q]) :
                waiting' = [waiting EXCEPT ![q] = InsertAt(@, at, t)]
           /\ nextId' = nextId + 1
           /\ UNCHANGED <<running, worker>>
        \/ /\ Run(q, t)
           /\ nextId' = nextId + 1
           /\ UNCHANGED waiting
        \/ /\ SpawnMayFail /\ running[q] = {}
           /\ UNCHANGED <<running, worker, waiting, nextId>>
     /\ UNCHANGED <<nextQuietId, loaded, opened, cursor, rows, told>>

(* start_quiet_task: the source's waiting entry is replaced and told so.   *)
(* Into an idle queue the task starts at once, or is dropped when its node *)
(* is locked and its source waits for it (begin).                          *)
StartQuiet(source, rank, n) ==
  LET w == waiting["fast"]
      t == NewQuiet(source, rank, n)
      replaced == {w[i].id : i \in EntryOf(w, source)}
  IN /\ nextQuietId <= MaxQuiet
     /\ source \in Sources
     /\ rank \in RanksOf(source)
     /\ n \in loaded
     /\ nextQuietId' = nextQuietId + 1
     /\ \E kept \in WithoutEntryOf(w, source) :
          \/ /\ running["fast"] # {}
             /\ \E at \in QuietPlaces(kept, rank) :
                  waiting' = [waiting EXCEPT !["fast"] = InsertAt(kept, at, t)]
             /\ told' = Tell(replaced, "dropped")
             /\ UNCHANGED <<running, worker>>
          \/ /\ running["fast"] = {}
             /\ WaitsForItsNode(source) /\ Busy(n)
             /\ waiting' = [waiting EXCEPT !["fast"] = kept]
             /\ told' = Tell(replaced \cup {nextQuietId}, "dropped")
             /\ UNCHANGED <<running, worker>>
          \/ /\ ~(WaitsForItsNode(source) /\ Busy(n))
             /\ Run("fast", t)
             /\ waiting' = [waiting EXCEPT !["fast"] = kept]
             /\ told' = Tell(replaced, "dropped")
          \/ /\ SpawnMayFail /\ running["fast"] = {}
             /\ ~(WaitsForItsNode(source) /\ Busy(n))
             /\ waiting' = [waiting EXCEPT !["fast"] = kept]
             /\ told' = Tell({nextQuietId}, "failed")
             /\ UNCHANGED <<running, worker>>
     /\ UNCHANGED <<cancel, nextId, loaded, opened, cursor, rows>>

(* cancel_background_task on a running task: every operation the code      *)
(* declares polls the flag.                                                *)
CancelRunning(q) ==
  /\ \E t \in running[q] : ~t.quiet
  /\ cancel' = [cancel EXCEPT ![q] = TRUE]
  /\ UNCHANGED <<running, waiting, worker, nextId, nextQuietId,
                 loaded, opened, cursor, rows, told>>

(* Slip: a task cancelled before it started is taken out in silence.       *)
CancelWaitingSilently(q, i) ==
  /\ ~waiting[q][i].quiet
  /\ waiting' = [waiting EXCEPT ![q] = RemoveAt(@, i)]
  /\ UNCHANGED <<running, cancel, worker, nextId, nextQuietId,
                 loaded, opened, cursor, rows, told>>

(* cancel_waiting: the task leaves its queue at once, with its row.        *)
CancelWaiting(q, i) ==
  /\ ~waiting[q][i].quiet
  /\ waiting' = [waiting EXCEPT ![q] = RemoveAt(@, i)]
  /\ rows' = [rows EXCEPT ![waiting[q][i].id] = @ + 1]
  /\ UNCHANGED <<running, cancel, worker, nextId, nextQuietId,
                 loaded, opened, cursor, told>>

(* cancel_quiet_task: a running task is asked to stop, a waiting one is    *)
(* taken out of its queue and its source told so.                          *)
CancelQuiet(q, id) ==
  \/ /\ \E t \in running[q] : t.quiet /\ t.id = id
     /\ cancel' = [cancel EXCEPT ![q] = TRUE]
     /\ UNCHANGED <<running, waiting, worker, nextId, nextQuietId,
                    loaded, opened, cursor, rows, told>>
  \/ \E i \in 1..Len(waiting[q]) :
       /\ waiting[q][i].quiet /\ waiting[q][i].id = id
       /\ waiting' = [waiting EXCEPT ![q] = RemoveAt(@, i)]
       /\ told' = Tell({id}, "dropped")
       /\ UNCHANGED <<running, cancel, worker, nextId, nextQuietId,
                      loaded, opened, cursor, rows>>

-----------------------------------------------------------------------------
(* The worker threads.                                                     *)

(* Slip: a quiet job that panics answers nothing.                          *)
WorkerAnswersNothing(q) ==
  /\ \E t \in running[q] : t.quiet
  /\ worker[q] = "computing"
  /\ worker' = [worker EXCEPT ![q] = "answered"]
  /\ UNCHANGED <<running, waiting, cancel, nextId, nextQuietId,
                 loaded, opened, cursor, rows, told>>

(* A quiet job answers on its source's own channel before its worker       *)
(* reports that the task is done.                                          *)
WorkerAnswers(q) ==
  \E t \in running[q] :
    /\ t.quiet
    /\ worker[q] = "computing"
    /\ worker' = [worker EXCEPT ![q] = "answered"]
    /\ told' = Tell({t.id}, "answered")
    /\ UNCHANGED <<running, waiting, cancel, nextId, nextQuietId,
                   loaded, opened, cursor, rows>>

(* Slip: a job that panics takes its worker down without a report.         *)
WorkerDoneOrGone(q) ==
  \E t \in running[q] :
    /\ \/ /\ ~t.quiet /\ worker[q] = "computing"
          /\ \E result \in {"produced", "nothing", "answered"} :
               worker' = [worker EXCEPT ![q] = result]
       \/ /\ t.quiet /\ worker[q] = "answered"
          /\ worker' = [worker EXCEPT ![q] = "nothing"]
    /\ UNCHANGED <<running, waiting, cancel, nextId, nextQuietId,
                   loaded, opened, cursor, rows, told>>

(* Worker::run sends Report::Done: with a result to install ("produced"),  *)
(* or cancelled, failed, panicked or unchanged ("nothing").                *)
WorkerDone(q) ==
  \E t \in running[q] :
    /\ \/ /\ ~t.quiet /\ worker[q] = "computing"
          /\ \E result \in {"produced", "nothing"} :
               worker' = [worker EXCEPT ![q] = result]
       \/ /\ t.quiet /\ worker[q] = "answered"
          /\ worker' = [worker EXCEPT ![q] = "nothing"]
    /\ UNCHANGED <<running, waiting, cancel, nextId, nextQuietId,
                   loaded, opened, cursor, rows, told>>

-----------------------------------------------------------------------------
(* Landing: poll_background_tasks, once per queue and frame.               *)

(* finish: a locking task pushes a version of its node, if it is still in  *)
(* the scene; an open appends the nodes it read.  A task that lands two    *)
(* (the track made at a pixel and its commit) moves the cursor once here:  *)
(* both are made in the one call, and nothing sees the node between them.  *)
Finish(t, result) ==
  IF result = "produced" /\ Locks(t.op) /\ t.node \in loaded
  THEN /\ cursor' = [cursor EXCEPT ![t.node] = @ + 1]
       /\ UNCHANGED <<loaded, opened>>
  ELSE IF result = "produced" /\ t.op = "Open"
  THEN /\ \E new \in SUBSET (Nodes \ opened) :
            /\ loaded' = loaded \cup new
            /\ opened' = opened \cup new
       /\ UNCHANGED cursor
  ELSE UNCHANGED <<cursor, loaded, opened>>

(* Slip: start_next runs every entry, whatever became of its node.         *)
NeverDrop(q, i) == FALSE

(* begin, for the entry at i of the queue q whose task has just landed and *)
(* whose entries up to i have been popped: a quiet task whose node has     *)
(* become locked is dropped.                                               *)
MustDrop(q, i) ==
  LET w == waiting[q]
  IN /\ WaitsForItsNode(w[i].op)
     /\ LockedBy(HeldIn(Other(q)) \cup Range(SubSeq(w, i + 1, Len(w))), w[i].node)

(* The positions of q's next task to start, one past the end for none: the *)
(* ones before it were dropped, or their thread could not be spawned.      *)
NextToStart(q) ==
  {k \in 1..(Len(waiting[q]) + 1) :
     /\ \A i \in 1..(k - 1) : MustDrop(q, i) \/ SpawnMayFail
     /\ k <= Len(waiting[q]) => ~MustDrop(q, k)}

TellBoth(droppedIds, failedIds) ==
  [i \in 1..MaxQuiet |-> IF i \in droppedIds THEN told[i] \cup {"dropped"}
                         ELSE IF i \in failedIds THEN told[i] \cup {"failed"}
                         ELSE told[i]]

(* apply_reports on Report::Done: the queue gives up its task, the task is *)
(* finished and its row written, and the next one starts (start_next) in   *)
(* the same poll.  Rows and sources hear of the entries that never start.  *)
Land(q) ==
  \E t \in running[q], k \in NextToStart(q) :
    LET w == waiting[q]
        dropped == {i \in 1..(k - 1) : MustDrop(q, i)}
        failed == (1..(k - 1)) \ dropped
        unspawned == {w[i] : i \in failed}
        ended == {u.id : u \in {v \in {t} \cup unspawned : ~v.quiet}}
        droppedIds == {w[i].id : i \in dropped}
        failedIds == {u.id : u \in {v \in unspawned : v.quiet}}
    IN /\ worker[q] \in {"produced", "nothing"}
       /\ Finish(t, worker[q])
       /\ running' = [running EXCEPT ![q] = IF k <= Len(w) THEN {w[k]} ELSE {}]
       /\ waiting' = [waiting EXCEPT ![q] = SubSeq(w, k + 1, Len(w))]
       /\ worker' = [worker EXCEPT ![q] = IF k <= Len(w) THEN "computing" ELSE "none"]
       /\ cancel' = [cancel EXCEPT ![q] = FALSE]
       /\ rows' = [i \in 1..MaxAsked |-> IF i \in ended THEN rows[i] + 1 ELSE rows[i]]
       /\ told' = TellBoth(droppedIds, failedIds)
       /\ UNCHANGED <<nextId, nextQuietId>>

-----------------------------------------------------------------------------
(* What else the GUI thread does to a node: each call is refused while the *)
(* node is busy.                                                           *)

(* Slip: an edit that does not ask whether the node is busy.               *)
MoveCursorUnasked(n) ==
  /\ n \in loaded
  /\ cursor[n] < MaxMoves
  /\ cursor' = [cursor EXCEPT ![n] = @ + 1]
  /\ UNCHANGED <<running, waiting, cancel, worker, nextId, nextQuietId,
                 loaded, opened, rows, told>>

(* A synchronous edit, a bench step, an undo, a redo or a jump.            *)
MoveCursor(n) ==
  /\ n \in loaded
  /\ ~Busy(n)
  /\ cursor[n] < MaxMoves
  /\ cursor' = [cursor EXCEPT ![n] = @ + 1]
  /\ UNCHANGED <<running, waiting, cancel, worker, nextId, nextQuietId,
                 loaded, opened, rows, told>>

(* Slip: a close that does not ask whether the node is busy.               *)
CloseNodeUnasked(n) ==
  /\ n \in loaded
  /\ loaded' = loaded \ {n}
  /\ UNCHANGED <<running, waiting, cancel, worker, nextId, nextQuietId,
                 opened, cursor, rows, told>>

(* close_node                                                              *)
CloseNode(n) ==
  /\ n \in loaded
  /\ ~Busy(n)
  /\ loaded' = loaded \ {n}
  /\ UNCHANGED <<running, waiting, cancel, worker, nextId, nextQuietId,
                 opened, cursor, rows, told>>

(* close_all: refused as a whole while any node is locked.                 *)
CloseAll ==
  /\ loaded # {}
  /\ \A n \in Nodes : ~Busy(n)
  /\ loaded' = {}
  /\ UNCHANGED <<running, waiting, cancel, worker, nextId, nextQuietId,
                 opened, cursor, rows, told>>

-----------------------------------------------------------------------------
Init ==
  /\ running = [q \in Queues |-> {}]
  /\ waiting = [q \in Queues |-> <<>>]
  /\ cancel = [q \in Queues |-> FALSE]
  /\ worker = [q \in Queues |-> "none"]
  /\ nextId = 1
  /\ nextQuietId = 1
  /\ loaded = FirstNodes
  /\ opened = FirstNodes
  /\ cursor = [n \in Nodes |-> 0]
  /\ rows = [i \in 1..MaxAsked |-> 0]
  /\ told = [i \in 1..MaxQuiet |-> {}]

WorkerStep(q) == WorkerAnswers(q) \/ WorkerDone(q)

Next ==
  \/ \E op \in AskedOps, n \in Nodes \cup {NoNode} : StartAsked(op, n)
  \/ \E s \in Sources, r \in QuietRanks, n \in Nodes : StartQuiet(s, r, n)
  \/ \E q \in Queues : CancelRunning(q)
  \/ \E q \in Queues : \E i \in 1..Len(waiting[q]) : CancelWaiting(q, i)
  \/ \E q \in Queues, id \in 1..MaxQuiet : CancelQuiet(q, id)
  \/ \E q \in Queues : WorkerAnswers(q)
  \/ \E q \in Queues : WorkerDone(q)
  \/ \E q \in Queues : Land(q)
  \/ \E n \in Nodes : MoveCursor(n)
  \/ \E n \in Nodes : CloseNode(n)
  \/ CloseAll

Spec == Init /\ [][Next]_vars

(* A worker's kernel returns, and a done worker wakes the viewer, whose    *)
(* frame polls both queues.                                                *)
Fairness == \A q \in Queues : WF_vars(WorkerStep(q)) /\ WF_vars(Land(q))

FairSpec == Spec /\ Fairness

-----------------------------------------------------------------------------
(* Type invariant.                                                         *)
TypeOK ==
  /\ running \in [Queues -> SUBSET Task]
  /\ waiting \in [Queues -> Seq(Task)]
  /\ cancel \in [Queues -> BOOLEAN]
  /\ worker \in [Queues -> {"none", "computing", "answered", "produced", "nothing"}]
  /\ nextId \in 1..(MaxAsked + 1)
  /\ nextQuietId \in 1..(MaxQuiet + 1)
  /\ loaded \subseteq opened
  /\ opened \subseteq Nodes
  /\ cursor \in [Nodes -> Nat]
  /\ rows \in [1..MaxAsked -> Nat]
  /\ told \in [1..MaxQuiet -> SUBSET {"answered", "dropped", "failed"}]

(* A node has at most one locking task at any time, and that task is in    *)
(* one place: running, or waiting once, in one of the two queues           *)
(* (start_refusal, busy_refusal).                                          *)
OneLockPerNode ==
  \A q, p \in Queues : \A i \in Places(q), j \in Places(p) :
    \A t \in At(q, i), u \in At(p, j) :
      Locks(t.op) /\ Locks(u.op) /\ t.node = u.node => <<q, i, t>> = <<p, j, u>>

(* The value a locking task captured when it was queued is still the one   *)
(* at its node's cursor until it lands, and the node is still loaded: no   *)
(* edit, undo, close or other landing gets under it (WaitingTask).         *)
CapturedIsCurrent ==
  \A t \in Held : Locks(t.op) => t.node \in loaded /\ t.base = cursor[t.node]

(* A queue with tasks waiting has one running; asked tasks wait in the     *)
(* order they were asked for, ahead of every quiet one; quiet ones wait in *)
(* rank order, one entry per source.                                       *)
QueueOrder ==
  \A q \in Queues :
    /\ waiting[q] # <<>> => running[q] # {}
    /\ \A i, j \in 1..Len(waiting[q]) : i < j =>
         LET t == waiting[q][i]
             u == waiting[q][j]
         IN /\ t.rank <= u.rank
            /\ ~t.quiet /\ ~u.quiet => t.id < u.id
            /\ t.quiet => t.op # u.op

(* Quiet work gives way: a running quiet task has been asked to stop as    *)
(* soon as an asked task waits behind it, or a locking task holds its node *)
(* and its source waits for its node (give_way_to, begin).                 *)
GivesWay ==
  \A q \in Queues : \A t \in running[q] :
    /\ t.quiet
    /\ \/ \E i \in 1..Len(waiting[q]) : ~waiting[q][i].quiet
       \/ WaitsForItsNode(t.op) /\ Busy(t.node)
    => cancel[q]

(* Every id handed out belongs to a task that is held by a queue or has    *)
(* ended with exactly one row, never both and never neither.               *)
EndsOnce ==
  \A i \in 1..MaxAsked :
    IF \E t \in Held : ~t.quiet /\ t.id = i
    THEN i < nextId /\ rows[i] = 0
    ELSE rows[i] = IF i < nextId THEN 1 ELSE 0

(* A source hears one thing of each request it queued: its answer, that it *)
(* was dropped, or that no thread could run it.  Until then a queue holds  *)
(* the request, so the source is never left waiting for one that is gone.  *)
QuietToldOnce ==
  \A i \in 1..MaxQuiet :
    /\ \A a, b \in told[i] : a = b
    /\ i < nextQuietId /\ told[i] = {} => \E t \in Held : t.quiet /\ t.id = i
    /\ told[i] # {} => \A q \in Queues :
         \A t \in HeldIn(q) : t.quiet /\ t.id = i =>
            t \in running[q] /\ worker[q] \in {"answered", "nothing"}

(* A quiet task whose source waits for its node never starts while a task  *)
(* locks that node (start_next, begin).                                    *)
QuietStartsUnlocked ==
  [][\A q \in Queues : \A t \in running'[q] \ running[q] :
       WaitsForItsNode(t.op) => ~Busy(t.node)']_vars

(* Each node's locking task owns its version: the queues implement the     *)
(* abstract lock of NodeLock for every node.                               *)
ClaimsOn(n) ==
  {[id |-> t.id, base |-> t.base] : t \in {u \in Held : Locks(u.op) /\ u.node = n}}

Claims == [n \in Nodes |-> ClaimsOn(n)]

Lock == INSTANCE NodeLock WITH owner <- Claims, version <- cursor

ImplementsNodeLock == Lock!Spec

(* Every task someone asked for ends, and says so, however it was queued.  *)
EveryAskedTaskEnds ==
  \A i \in 1..MaxAsked : (nextId > i) ~> (rows[i] = 1)

(* Every quiet request is answered, dropped or failed.                     *)
EverySourceIsTold ==
  \A i \in 1..MaxQuiet : (nextQuietId > i) ~> (told[i] # {})

=============================================================================
