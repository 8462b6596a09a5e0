------------------------------ MODULE LockProofs ------------------------------
(***************************************************************************)
(* The lock the background queues put on a node, for any number of nodes,  *)
(* tasks and moves: OneLockPerNode and CapturedIsCurrent together are      *)
(* inductive over TypeOK.                                                  *)
(*                                                                         *)
(* Every action is described by where a place of a queue had its task      *)
(* before the step (`from`), with at most one place the step filled anew.  *)
(* A map that sends no two places to one cannot bring two locks together,  *)
(* so what is left to show is that the place filled anew holds no lock     *)
(* anybody else has, and that the step leaves the nodes of the other locks *)
(* alone.                                                                  *)
(*                                                                         *)
(* With that, the running quiet task is asked to stop in the step that     *)
(* queues what displaces it (GiveWay), and a node's claim, the lock as     *)
(* NodeLock sees it, is what its one locking task captured (OneClaim), so  *)
(* each action claims, releases or moves as NodeLock allows.               *)
(***************************************************************************)
EXTENDS BackgroundTasksProofs

Inv == TypeOK /\ OneLockPerNode /\ CapturedIsCurrent

-----------------------------------------------------------------------------
(* What carries a lock.                                                    *)

(* No place holds a lock on a node that is not busy.                       *)
LEMMA FreeNode ==
  ASSUME TypeOK, NEW n, ~Busy(n),
         NEW q \in Queues, NEW i \in Places(q), NEW t \in At(q, i), Locks(t.op)
  PROVE  t.node # n
<1>1. t \in Held
  BY PlacesOfHeld DEF HeldIsPlaced
<1> QED
  BY <1>1 DEF Busy, LockedBy

(* A quiet task locks nothing.                                             *)
LEMMA QuietLocksNothing ==
  ASSUME NEW source \in Sources, NEW rank, NEW n
  PROVE  ~Locks(NewQuiet(source, rank, n).op)
<1>1. NewQuiet(source, rank, n).op \in AllSources
  BY ConstantsAssumption DEF NewQuiet
<1> QED
  BY <1>1 DEF AllSources, Locks

LEMMA NoTaskLocksNothing == ~Locks(NoTask.op)
  BY DEF NoTask, Locks

LEMMA CarriedLocks ==
  ASSUME TypeOK, OneLockPerNode, NEW from, NEW q0, NEW i0, NEW t0,
         Carries(from, q0, i0, t0), Locks(t0.op) => ~Busy(t0.node)
  PROVE  OneLockPerNode'
<1> SUFFICES ASSUME NEW q \in Queues, NEW p \in Queues,
                    NEW i \in Places(q)', NEW j \in Places(p)',
                    NEW t \in At(q, i)', NEW u \in At(p, j)',
                    Locks(t.op), Locks(u.op), t.node = u.node
             PROVE  <<q, i, t>> = <<p, j, u>>
  BY DEF OneLockPerNode
<1>1. CASE <<q, i, t>> = <<q0, i0, t0>> /\ <<p, j, u>> = <<q0, i0, t0>>
  BY <1>1
<1>2. CASE <<q, i, t>> = <<q0, i0, t0>> /\ <<p, j, u>> # <<q0, i0, t0>>
  <2>1. from[p][j] \in Places(p) /\ u \in At(p, from[p][j])
    BY <1>2 DEF Carries
  <2> QED
    BY <1>2, <2>1, FreeNode
<1>3. CASE <<q, i, t>> # <<q0, i0, t0>> /\ <<p, j, u>> = <<q0, i0, t0>>
  <2>1. from[q][i] \in Places(q) /\ t \in At(q, from[q][i])
    BY <1>3 DEF Carries
  <2> QED
    BY <1>3, <2>1, FreeNode
<1>4. CASE <<q, i, t>> # <<q0, i0, t0>> /\ <<p, j, u>> # <<q0, i0, t0>>
  <2>1. <<q, i>> # <<q0, i0>> /\ from[q][i] \in Places(q) /\ t \in At(q, from[q][i])
    BY <1>4 DEF Carries
  <2>2. <<p, j>> # <<q0, i0>> /\ from[p][j] \in Places(p) /\ u \in At(p, from[p][j])
    BY <1>4 DEF Carries
  <2>3. <<q, from[q][i], t>> = <<p, from[p][j], u>>
    BY <2>1, <2>2 DEF OneLockPerNode
  <2> QED
    BY <2>1, <2>2, <2>3 DEF Carries
<1> QED
  BY <1>1, <1>2, <1>3, <1>4

(* The captured values survive a step that leaves every carried lock's     *)
(* node alone and fills the new place with a lock on its node as it is.    *)
LEMMA CarriedValues ==
  ASSUME TypeOK, TypeOK', CapturedIsCurrent, NEW from, NEW q0, NEW i0, NEW t0,
         Carries(from, q0, i0, t0),
         Locks(t0.op) => t0.node \in loaded' /\ t0.base = cursor'[t0.node],
         \A q \in Queues : \A i \in Places(q)' : \A t \in At(q, i)' :
           Locks(t.op) /\ <<q, i, t>> # <<q0, i0, t0>> /\ t.node \in loaded =>
             t.node \in loaded' /\ cursor'[t.node] = cursor[t.node]
  PROVE  CapturedIsCurrent'
<1> SUFFICES ASSUME NEW t \in Held', Locks(t.op)
             PROVE  t.node \in loaded' /\ t.base = cursor'[t.node]
  BY DEF CapturedIsCurrent
<1>0. PICK q \in Queues : \E i \in Places(q)' : t \in At(q, i)'
  BY PlacesOfHeldNext DEF HeldIsPlaced
<1>1. PICK i \in Places(q)' : t \in At(q, i)'
  BY <1>0
<1>2. CASE <<q, i, t>> = <<q0, i0, t0>>
  BY <1>2
<1>3. CASE <<q, i, t>> # <<q0, i0, t0>>
  <2>1. from[q][i] \in Places(q) /\ t \in At(q, from[q][i])
    BY <1>1, <1>3 DEF Carries
  <2>2. t \in Held
    BY <2>1, PlacesOfHeld DEF HeldIsPlaced
  <2> QED
    BY <1>1, <1>3, <2>2 DEF CapturedIsCurrent
<1> QED
  BY <1>2, <1>3

-----------------------------------------------------------------------------
(* The steps.                                                              *)

LEMMA InvInit == Init => Inv
<1> SUFFICES ASSUME Init PROVE Inv
  OBVIOUS
<1>1. TypeOK
  BY TypeInit
<1>2. ASSUME NEW q \in Queues, NEW i \in Places(q), NEW t \in At(q, i)
      PROVE  FALSE
  <2>1. Places(q) = {0} /\ At(q, 0) = {}
    BY DEF Init, Places, At
  <2> QED
    BY <1>2, <2>1
<1>3. OneLockPerNode
  BY <1>2 DEF OneLockPerNode
<1>4. CapturedIsCurrent
  BY <1>1, <1>2, PlacesOfHeld DEF CapturedIsCurrent, HeldIsPlaced
<1> QED
  BY <1>1, <1>3, <1>4 DEF Inv

(* A step that brings no lock and moves no cursor and closes no node.      *)
LEMMA QuietStep ==
  ASSUME Inv, TypeOK', NEW from, NEW q0, NEW i0, NEW t0, Carries(from, q0, i0, t0),
         ~Locks(t0.op), loaded \subseteq loaded', UNCHANGED cursor
  PROVE  OneLockPerNode' /\ CapturedIsCurrent'
<1>1. TypeOK /\ OneLockPerNode /\ CapturedIsCurrent
  BY DEF Inv
<1>2. OneLockPerNode'
  BY <1>1, CarriedLocks
<1>3. \A q \in Queues : \A i \in Places(q)' : \A t \in At(q, i)' :
        Locks(t.op) /\ <<q, i, t>> # <<q0, i0, t0>> /\ t.node \in loaded =>
          t.node \in loaded' /\ cursor'[t.node] = cursor[t.node]
  OBVIOUS
<1>4. CapturedIsCurrent'
  BY <1>1, <1>3, CarriedValues
<1> QED
  BY <1>2, <1>4

LEMMA StartAskedStep ==
  ASSUME Inv, TypeOK', NEW op \in AskedOps, NEW n \in Nodes \cup {NoNode}, StartAsked(op, n)
  PROVE  OneLockPerNode' /\ CapturedIsCurrent'
<1> DEFINE q == QueueOf(op)
           t == NewAsked(op, n)
<1>1. TypeOK /\ OneLockPerNode /\ CapturedIsCurrent
  BY DEF Inv
<1>2. q \in Queues /\ waiting[q] \in Seq(Task) /\ Follows(Stay, waiting[q], waiting[q])
  <2>1. q \in Queues
    BY DEF QueueOf, Queues
  <2> HIDE DEF q
  <2>2. waiting[q] \in Seq(Task)
    BY <1>1, <2>1 DEF TypeOK
  <2> QED
    BY <2>1, <2>2, ListFollowsItself
<1>3. t \in Task
  BY <1>1, NewAskedIsTask DEF StartAsked
<1>4. Locks(t.op) => ~Busy(t.node)
  BY DEF NewAsked, StartAsked, StartRefused
<1>5. Locks(t.op) => t.node \in loaded /\ t.base = cursor[t.node]
  <2>1. loaded \subseteq Nodes
    BY <1>1 DEF TypeOK
  <2>2. Locks(op) => op # "Open"
    BY DEF Locks
  <2> QED
    BY <2>1, <2>2 DEF NewAsked, StartAsked, VersionAt
<1>6. UNCHANGED <<loaded, cursor>>
  BY DEF StartAsked
<1>7. ASSUME NEW from, NEW i0, Carries(from, q, i0, t)
      PROVE  OneLockPerNode' /\ CapturedIsCurrent'
  <2> HIDE DEF q, t
  <2>1. OneLockPerNode'
    BY <1>1, <1>4, <1>7, CarriedLocks
  <2>2. \A p \in Queues : \A i \in Places(p)' : \A u \in At(p, i)' :
          Locks(u.op) /\ <<p, i, u>> # <<q, i0, t>> /\ u.node \in loaded =>
            u.node \in loaded' /\ cursor'[u.node] = cursor[u.node]
    BY <1>6
  <2>3. Locks(t.op) => t.node \in loaded' /\ t.base = cursor'[t.node]
    BY <1>5, <1>6
  <2>4. CapturedIsCurrent'
    BY <1>1, <1>7, <2>2, <2>3, CarriedValues
  <2> QED
    BY <2>1, <2>4
<1>8. \/ /\ UNCHANGED running
         /\ \E at \in AskedPlaces(waiting[q]) :
              waiting' = [waiting EXCEPT ![q] = InsertAt(@, at, t)]
      \/ Run(q, t) /\ UNCHANGED waiting
      \/ UNCHANGED <<running, waiting>>
  BY DEF StartAsked
<1> HIDE DEF q, t
<1>9. CASE /\ UNCHANGED running
           /\ \E at \in AskedPlaces(waiting[q]) :
                waiting' = [waiting EXCEPT ![q] = InsertAt(@, at, t)]
  <2>1. PICK at \in AskedPlaces(waiting[q]) :
          waiting' = [waiting EXCEPT ![q] = InsertAt(@, at, t)]
    BY <1>9
  <2>2. at \in 1..(Len(waiting[q]) + 1)
    BY DEF AskedPlaces
  <2>3. waiting' = [waiting EXCEPT ![q] = InsertAt(waiting[q], at, t)]
    BY <2>1
  <2>4. Carries(From(q, Inserted(Stay, at)), q, at, t)
    BY <1>1, <1>2, <1>3, <1>9, <2>2, <2>3, InsertionCarries
  <2> QED
    BY <1>7, <2>4
<1>10. CASE Run(q, t) /\ UNCHANGED waiting
  <2>1. waiting' = [waiting EXCEPT ![q] = waiting[q]]
    BY <1>1, <1>2, <1>10 DEF TypeOK
  <2>2. running' = [running EXCEPT ![q] = {t}]
    BY <1>10 DEF Run
  <2>3. Carries(From(q, Stay), q, 0, t)
    BY <1>1, <1>2, <2>1, <2>2, StartCarries
  <2> QED
    BY <1>7, <2>3
<1>11. CASE UNCHANGED <<running, waiting>>
  <2>1. Carries(From("slow", Stay), "slow", NoPlace, NoTask)
    BY <1>1, <1>11, SameQueuesCarry
  <2> QED
    BY <1>6, <2>1, QuietStep, NoTaskLocksNothing
<1> QED
  BY <1>8, <1>9, <1>10, <1>11

LEMMA StartQuietStep ==
  ASSUME Inv, TypeOK', NEW source \in Sources, NEW rank \in QuietRanks, NEW n \in Nodes,
         StartQuiet(source, rank, n)
  PROVE  OneLockPerNode' /\ CapturedIsCurrent'
<1> DEFINE w == waiting["fast"]
           t == NewQuiet(source, rank, n)
<1>1. TypeOK /\ OneLockPerNode /\ CapturedIsCurrent
  BY DEF Inv
<1>2. "fast" \in Queues /\ w \in Seq(Task)
  BY <1>1 DEF TypeOK, Queues
<1>3. t \in Task /\ ~Locks(t.op)
  BY <1>1, NewQuietIsTask, QuietLocksNothing DEF StartQuiet
<1>4. UNCHANGED <<loaded, cursor>>
  BY DEF StartQuiet
<1>5. PICK kept \in WithoutEntryOf(w, source) :
        \/ /\ UNCHANGED running
           /\ \E at \in QuietPlaces(kept, rank) :
                waiting' = [waiting EXCEPT !["fast"] = InsertAt(kept, at, t)]
        \/ UNCHANGED running /\ waiting' = [waiting EXCEPT !["fast"] = kept]
        \/ Run("fast", t) /\ waiting' = [waiting EXCEPT !["fast"] = kept]
  BY DEF StartQuiet
<1>6. PICK f : Follows(f, w, kept)
  BY <1>2, KeptFollows
<1>7. kept \in Seq(Task)
  BY <1>2, WithoutEntryProperties
<1> HIDE DEF t
<1>8. CASE /\ UNCHANGED running
           /\ \E at \in QuietPlaces(kept, rank) :
                waiting' = [waiting EXCEPT !["fast"] = InsertAt(kept, at, t)]
  <2>1. PICK at \in QuietPlaces(kept, rank) :
          waiting' = [waiting EXCEPT !["fast"] = InsertAt(kept, at, t)]
    BY <1>8
  <2>2. at \in 1..(Len(kept) + 1)
    BY DEF QuietPlaces
  <2>3. Carries(From("fast", Inserted(f, at)), "fast", at, t)
    BY <1>1, <1>2, <1>3, <1>6, <1>7, <1>8, <2>1, <2>2, InsertionCarries
  <2> QED
    BY <1>3, <1>4, <2>3, QuietStep
<1>9. CASE UNCHANGED running /\ waiting' = [waiting EXCEPT !["fast"] = kept]
  <2>1. Carries(From("fast", f), "fast", NoPlace, NoTask)
    BY <1>1, <1>2, <1>6, <1>7, <1>9, DropCarries
  <2> QED
    BY <1>4, <2>1, QuietStep, NoTaskLocksNothing
<1>10. CASE Run("fast", t) /\ waiting' = [waiting EXCEPT !["fast"] = kept]
  <2>1. running' = [running EXCEPT !["fast"] = {t}]
    BY <1>10 DEF Run
  <2>2. Carries(From("fast", f), "fast", 0, t)
    BY <1>1, <1>2, <1>6, <1>7, <1>10, <2>1, StartCarries
  <2> QED
    BY <1>3, <1>4, <2>2, QuietStep
<1> QED
  BY <1>5, <1>8, <1>9, <1>10

(* A waiting task taken out of its queue.                                  *)
LEMMA RemovalStep ==
  ASSUME Inv, TypeOK', NEW q \in Queues, NEW i \in 1..Len(waiting[q]),
         waiting' = [waiting EXCEPT ![q] = RemoveAt(@, i)],
         UNCHANGED <<running, loaded, cursor>>
  PROVE  OneLockPerNode' /\ CapturedIsCurrent'
<1>1. TypeOK
  BY DEF Inv
<1>2. Carries(From(q, Without(i)), q, NoPlace, NoTask)
  BY <1>1, RemovalCarries
<1> QED
  BY <1>2, QuietStep, NoTaskLocksNothing

(* A step that leaves the queues alone, and the node of every lock.        *)
LEMMA OtherNodeStep ==
  ASSUME Inv, TypeOK', UNCHANGED <<running, waiting>>,
         \A m \in loaded : Busy(m) => m \in loaded' /\ cursor'[m] = cursor[m]
  PROVE  OneLockPerNode' /\ CapturedIsCurrent'
<1>1. TypeOK /\ OneLockPerNode /\ CapturedIsCurrent
  BY DEF Inv
<1>2. Held' = Held
  BY DEF Held, HeldIn
<1>3. OneLockPerNode'
  BY <1>1, SameQueuesCarry, CarriedLocks, NoTaskLocksNothing
<1>4. ASSUME NEW t \in Held, Locks(t.op)
      PROVE  t.node \in loaded' /\ t.base = cursor'[t.node]
  <2>1. t.node \in loaded /\ t.base = cursor[t.node]
    BY <1>1, <1>4 DEF CapturedIsCurrent
  <2>2. Busy(t.node)
    BY <1>4 DEF Busy, LockedBy
  <2> QED
    BY <2>1, <2>2
<1> QED
  BY <1>2, <1>3, <1>4 DEF CapturedIsCurrent

(* The task that lands is nowhere afterwards, and no other one locks the   *)
(* node it moves.                                                          *)
LEMMA LandStep ==
  ASSUME Inv, TypeOK', NEW q \in Queues, Land(q)
  PROVE  OneLockPerNode' /\ CapturedIsCurrent'
<1>1. TypeOK /\ OneLockPerNode /\ CapturedIsCurrent
  BY DEF Inv
<1>2. PICK t \in running[q], k \in 1..(Len(waiting[q]) + 1) :
        /\ Finish(t, worker[q])
        /\ running' = [running EXCEPT ![q] =
                         IF k <= Len(waiting[q]) THEN {waiting[q][k]} ELSE {}]
        /\ waiting' = [waiting EXCEPT ![q] =
                         SubSeq(waiting[q], k + 1, Len(waiting[q]))]
  BY <1>1, LandQueues
<1>3. Carries(From(q, UpBy(k)), q, NoPlace, NoTask)
  BY <1>1, <1>2, LandingCarries
<1>4. OneLockPerNode'
  BY <1>1, <1>3, CarriedLocks, NoTaskLocksNothing
<1>5. loaded \subseteq loaded' /\ \/ UNCHANGED cursor
                                  \/ Locks(t.op) /\ cursor' = [cursor EXCEPT ![t.node] = @ + 1]
  BY <1>2 DEF Finish
<1>6. ASSUME NEW p \in Queues, NEW i \in Places(p)', NEW u \in At(p, i)',
             Locks(u.op), u.node \in loaded
      PROVE  u.node \in loaded' /\ cursor'[u.node] = cursor[u.node]
  <2> DEFINE j == From(q, UpBy(k))[p][i]
  <2>1. j \in Places(p) /\ u \in At(p, j)
    BY <1>6, <1>3 DEF Carries, NoTask, Locks
  <2>2. p = q => j # 0
    <3> SUFFICES ASSUME p = q PROVE j # 0
      OBVIOUS
    <3>1. i \in Nat /\ k \in Nat /\ k # 0
      <4>1. waiting[q] \in Seq(Task) /\ waiting' \in [Queues -> Seq(Task)]
        BY <1>1 DEF TypeOK
      <4> QED
        BY <1>6, <4>1 DEF Places
    <3>2. j = i + k
      BY <3>1 DEF From, UpBy
    <3> QED
      BY <3>1, <3>2
  <2>3. t \in At(q, 0) /\ 0 \in Places(q)
    BY <1>1, <1>2, PlaceOfWaiting
  <2> HIDE DEF j
  <2>4. Locks(t.op) => t.node # u.node
    BY <1>1, <1>6, <2>1, <2>2, <2>3 DEF OneLockPerNode
  <2>5. cursor \in [Nodes -> Nat] /\ u.node \in Nodes
    BY <1>1, <1>6 DEF TypeOK
  <2> QED
    BY <1>5, <1>6, <2>4, <2>5
<1>7. CapturedIsCurrent'
  BY <1>1, <1>3, <1>6, CarriedValues, NoTaskLocksNothing
<1> QED
  BY <1>4, <1>7

LEMMA InvStep == Inv /\ [Next]_vars => Inv'
<1> SUFFICES ASSUME Inv, [Next]_vars PROVE Inv'
  OBVIOUS
<1> DEFINE Kept == OneLockPerNode' /\ CapturedIsCurrent'
<1>0. TypeOK /\ TypeOK'
  BY TypeStep DEF Inv
<1> SUFFICES Kept
  BY <1>0 DEF Inv
<1>1. ASSUME NEW op \in AskedOps, NEW n \in Nodes \cup {NoNode}, StartAsked(op, n)
      PROVE  Kept
  BY <1>0, <1>1, StartAskedStep
<1>2. ASSUME NEW s \in Sources, NEW r \in QuietRanks, NEW n \in Nodes, StartQuiet(s, r, n)
      PROVE  Kept
  BY <1>0, <1>2, StartQuietStep
<1>3. ASSUME NEW q \in Queues, CancelRunning(q) PROVE Kept
  BY <1>0, <1>3, OtherNodeStep DEF CancelRunning
<1>4. ASSUME NEW q \in Queues, NEW i \in 1..Len(waiting[q]), CancelWaiting(q, i)
      PROVE  Kept
  BY <1>0, <1>4, RemovalStep DEF CancelWaiting
<1>5. ASSUME NEW q \in Queues, NEW id \in 1..MaxQuiet, CancelQuiet(q, id) PROVE Kept
  <2>1. CASE UNCHANGED <<running, waiting, loaded, cursor>>
    BY <1>0, <2>1, OtherNodeStep
  <2>2. ASSUME NEW i \in 1..Len(waiting[q]),
               waiting' = [waiting EXCEPT ![q] = RemoveAt(@, i)],
               UNCHANGED <<running, loaded, cursor>>
        PROVE  Kept
    BY <1>0, <2>2, RemovalStep
  <2> QED
    BY <1>5, <2>1, <2>2 DEF CancelQuiet
<1>6. ASSUME NEW q \in Queues, WorkerAnswers(q) \/ WorkerDone(q) PROVE Kept
  <2>1. UNCHANGED <<running, waiting, loaded, cursor>>
    BY <1>6 DEF WorkerAnswers, WorkerDone
  <2> QED
    BY <1>0, <2>1, OtherNodeStep
<1>7. ASSUME NEW q \in Queues, Land(q) PROVE Kept
  BY <1>0, <1>7, LandStep
<1>8. ASSUME NEW n \in Nodes, MoveCursor(n) PROVE Kept
  <2>1. UNCHANGED <<running, waiting, loaded>>
    BY <1>8 DEF MoveCursor
  <2>2. \A m \in loaded : Busy(m) => cursor'[m] = cursor[m]
    BY <1>0, <1>8 DEF MoveCursor, TypeOK
  <2> QED
    BY <1>0, <2>1, <2>2, OtherNodeStep
<1>9. ASSUME NEW n \in Nodes, CloseNode(n) PROVE Kept
  <2>1. UNCHANGED <<running, waiting, cursor>>
    BY <1>9 DEF CloseNode
  <2>2. \A m \in loaded : Busy(m) => m \in loaded'
    BY <1>9 DEF CloseNode
  <2> QED
    BY <1>0, <2>1, <2>2, OtherNodeStep
<1>10. CASE CloseAll
  <2>1. UNCHANGED <<running, waiting, cursor>>
    BY <1>10 DEF CloseAll
  <2>2. \A m \in loaded : ~Busy(m)
    BY <1>0, <1>10 DEF CloseAll, TypeOK
  <2> QED
    BY <1>0, <2>1, <2>2, OtherNodeStep
<1>11. CASE UNCHANGED vars
  <2>1. UNCHANGED <<running, waiting, loaded, cursor>>
    BY <1>11 DEF vars
  <2> QED
    BY <1>0, <2>1, OtherNodeStep
<1> HIDE DEF Kept
<1> QED
  BY <1>1, <1>2, <1>3, <1>4, <1>5, <1>6, <1>7, <1>8, <1>9, <1>10, <1>11 DEF Next

LEMMA AlwaysInv == Spec => []Inv
  BY InvInit, InvStep, PTL DEF Spec

(* At no time do two tasks lock one node, and a locking task is in one     *)
(* place of one queue (start_refusal, busy_refusal).                       *)
THEOREM OneLockAlways == Spec => []OneLockPerNode
<1>1. Inv => OneLockPerNode
  BY DEF Inv
<1> QED
  BY <1>1, AlwaysInv, PTL

(* The value a locking task captured stays its node's current one until it *)
(* lands: nothing the task will install is built on a superseded version.  *)
THEOREM CapturedAlwaysCurrent == Spec => []CapturedIsCurrent
<1>1. Inv => CapturedIsCurrent
  BY DEF Inv
<1> QED
  BY <1>1, AlwaysInv, PTL

-----------------------------------------------------------------------------
(* Giving way.                                                             *)

AskedWaits(q) == \E u \in Range(waiting[q]) : ~u.quiet

(* What asks the running quiet task `t` of the queue q to stop.            *)
Displaced(q, t) == AskedWaits(q) \/ (WaitsForItsNode(t.op) /\ Busy(t.node))

GiveWay == \A q \in Queues : \A t \in running[q] : t.quiet /\ Displaced(q, t) => cancel[q]

LEMMA GivesWayIsGiveWay ==
  ASSUME TypeOK
  PROVE  GivesWay <=> GiveWay
<1> SUFFICES ASSUME NEW q \in Queues, NEW t \in running[q]
             PROVE  (\/ \E i \in 1..Len(waiting[q]) : ~waiting[q][i].quiet
                     \/ WaitsForItsNode(t.op) /\ Busy(t.node)) <=> Displaced(q, t)
  BY Zenon DEF GivesWay, GiveWay
<1>1. DOMAIN waiting[q] = 1..Len(waiting[q])
  BY DEF TypeOK
<1>2. AskedWaits(q) <=> \E i \in 1..Len(waiting[q]) : ~waiting[q][i].quiet
  BY <1>1 DEF AskedWaits, Range
<1> QED
  BY <1>2 DEF Displaced

(* A step after which each running quiet task is displaced no more than it *)
(* was and keeps its flag, or is not displaced at all, or has been asked.  *)
LEMMA StillGivesWay ==
  ASSUME GiveWay,
         \A q \in Queues : \A t \in running'[q] : t.quiet =>
           \/ cancel'[q]
           \/ /\ t \in running[q] /\ (cancel[q] => cancel'[q])
              /\ Displaced(q, t)' => Displaced(q, t)
           \/ ~Displaced(q, t)'
  PROVE  GiveWay'
  BY DEF GiveWay

(* Only a lock can make a node busy.                                       *)
LEMMA StillFree ==
  ASSUME NEW gone, NEW new, TakesAndPuts(gone, new), NEW n, Busy(n)'
  PROVE  Busy(n) \/ \E t \in new : Locks(t.op) /\ t.node = n
  BY DEF TakesAndPuts, Busy, LockedBy

LEMMA SameQueuesGiveWay ==
  ASSUME GiveWay, UNCHANGED running, UNCHANGED waiting,
         \A q \in Queues : cancel[q] => cancel'[q]
  PROVE  GiveWay'
<1>1. \A n : Busy(n)' <=> Busy(n)
  BY DEF Busy, LockedBy, Held, HeldIn
<1>2. \A q : AskedWaits(q)' <=> AskedWaits(q)
  BY DEF AskedWaits
<1>3. \A q \in Queues : \A t \in running'[q] : Displaced(q, t)' => Displaced(q, t)
  BY <1>1, <1>2 DEF Displaced
<1> QED
  BY <1>3, StillGivesWay

LEMMA StartAskedGivesWay ==
  ASSUME Ordered, GiveWay, NEW op \in AskedOps, NEW n \in Nodes \cup {NoNode},
         StartAsked(op, n)
  PROVE  GiveWay'
<1> DEFINE q0 == QueueOf(op)
           new == NewAsked(op, n)
<1>1. Placed /\ TypeOK /\ q0 \in Queues
  BY DEF Ordered, Placed, QueueOf, Queues
<1>2. ~new.quiet /\ new.op = op /\ new.node = n
  BY DEF NewAsked
<1>3. \A q \in Queues : cancel'[q] <=>
        \/ cancel[q]
        \/ \E t \in running[q] : /\ t.quiet
                                 /\ \/ q = q0
                                    \/ WaitsForItsNode(t.op) /\ Locks(op) /\ t.node = n
  BY Zenon DEF StartAsked, GivenWay
<1>4. \/ /\ UNCHANGED running
         /\ \E at \in AskedPlaces(waiting[q0]) :
              waiting' = [waiting EXCEPT ![q0] = InsertAt(@, at, new)]
      \/ running' = [running EXCEPT ![q0] = {new}] /\ UNCHANGED waiting
      \/ UNCHANGED running /\ UNCHANGED waiting
  BY DEF StartAsked, Run
<1>5. \A m : Busy(m)' => Busy(m) \/ (Locks(op) /\ m = n)
  <2>1. TakesAndPuts({}, {new}) \/ TakesAndPuts({}, {})
    BY StartAskedTakesAndPuts
  <2> HIDE DEF new
  <2> QED
    BY <1>2, <2>1, StillFree
<1> HIDE DEF q0, new
<1>6. \A q \in Queues : \A t \in running'[q] : t.quiet => t \in running[q]
  <2>1. CASE UNCHANGED running
    BY <2>1
  <2>2. CASE running' = [running EXCEPT ![q0] = {new}]
    BY <1>1, <1>2, <2>2 DEF TypeOK
  <2> QED
    BY <1>4, <2>1, <2>2
<1>7. \A q \in Queues : q # q0 => waiting'[q] = waiting[q]
  BY <1>1, <1>4 DEF TypeOK
<1>8. ASSUME NEW q \in Queues, NEW t \in running'[q], t.quiet
      PROVE  \/ cancel'[q]
             \/ /\ t \in running[q] /\ (cancel[q] => cancel'[q])
                /\ Displaced(q, t)' => Displaced(q, t)
  <2>1. t \in running[q]
    BY <1>6, <1>8
  <2>2. CASE q = q0
    BY <1>3, <1>8, <2>1, <2>2
  <2>3. CASE q # q0
    <3>1. AskedWaits(q)' <=> AskedWaits(q)
      BY <1>7, <2>3 DEF AskedWaits
    <3>2. WaitsForItsNode(t.op) /\ Busy(t.node)' => Busy(t.node) \/ cancel'[q]
      BY <1>3, <1>5, <1>8, <2>1
    <3> QED
      BY <1>3, <2>1, <3>1, <3>2 DEF Displaced
  <2> QED
    BY <2>2, <2>3
<1> QED
  BY <1>8, StillGivesWay

(* A quiet request brings only itself, and no lock.                        *)
LEMMA StartQuietBringsNoLock ==
  ASSUME Ordered, NEW source \in Sources, NEW rank \in QuietRanks, NEW n \in Nodes,
         StartQuiet(source, rank, n)
  PROVE  /\ \A m : Busy(m)' => Busy(m)
         /\ \A q \in Queues : AskedWaits(q)' => AskedWaits(q)
<1> DEFINE w == waiting["fast"]
           t == NewQuiet(source, rank, n)
<1>1. Placed /\ TypeOK /\ "fast" \in Queues /\ w \in Seq(Task)
  BY DEF Ordered, Placed, TypeOK, Queues
<1>2. t.quiet /\ ~Locks(t.op) /\ t \in Task
  BY <1>1, QuietLocksNothing, NewQuietIsTask DEF NewQuiet, StartQuiet
<1>3. PICK kept \in WithoutEntryOf(w, source) :
        \/ \E at \in QuietPlaces(kept, rank) :
             waiting' = [waiting EXCEPT !["fast"] = InsertAt(kept, at, t)]
        \/ waiting' = [waiting EXCEPT !["fast"] = kept]
  BY Zenon DEF StartQuiet
<1>4. kept \in Seq(Task) /\ Range(kept) \subseteq Range(w)
  <2>1. CASE EntryOf(w, source) = {}
    BY <1>1, <2>1 DEF WithoutEntryOf
  <2>2. ASSUME NEW i \in EntryOf(w, source), kept = RemoveAt(w, i)
        PROVE  Range(kept) \subseteq Range(w)
    <3>1. i \in 1..Len(w) /\ Range(w) = {w[j] : j \in 1..Len(w)}
      BY <1>1, <2>2 DEF EntryOf, Range
    <3> QED
      BY <1>1, <2>2, <3>1, RangeOfRemoval
  <2> QED
    BY <1>1, <2>1, <2>2, WithoutEntryProperties DEF WithoutEntryOf
<1>5. \A m : Busy(m)' => Busy(m)
  <2>1. \/ TakesAndPuts({w[i] : i \in EntryOf(w, source)}, {t})
        \/ TakesAndPuts({}, {t})
        \/ TakesAndPuts({}, {})
    BY StartQuietTakesAndPuts
  <2>2. PICK gone : TakesAndPuts(gone, {t}) \/ TakesAndPuts(gone, {})
    BY <2>1
  <2> HIDE DEF t
  <2> QED
    BY <1>2, <2>2, StillFree
<1> HIDE DEF t
<1>6. Range(waiting'["fast"]) \subseteq Range(w) \cup {t}
  <2>1. ASSUME NEW at \in QuietPlaces(kept, rank),
               waiting' = [waiting EXCEPT !["fast"] = InsertAt(kept, at, t)]
        PROVE  Range(waiting'["fast"]) \subseteq Range(w) \cup {t}
    <3>1. at \in 1..(Len(kept) + 1) /\ waiting'["fast"] = InsertAt(kept, at, t)
      BY <1>1, <2>1 DEF QuietPlaces, TypeOK
    <3> QED
      BY <1>2, <1>4, <3>1, RangeOfInsertion
  <2>2. CASE waiting' = [waiting EXCEPT !["fast"] = kept]
    BY <1>1, <1>4, <2>2 DEF TypeOK
  <2> QED
    BY <1>3, <2>1, <2>2
<1>7. \A q \in Queues : q # "fast" => waiting'[q] = waiting[q]
  BY <1>1, <1>3 DEF TypeOK
<1> QED
  BY <1>2, <1>5, <1>6, <1>7 DEF AskedWaits

LEMMA StartQuietGivesWay ==
  ASSUME Ordered, GiveWay, NEW source \in Sources, NEW rank \in QuietRanks, NEW n \in Nodes,
         StartQuiet(source, rank, n)
  PROVE  GiveWay'
<1> DEFINE t == NewQuiet(source, rank, n)
<1>1. TypeOK /\ UNCHANGED cancel
  BY DEF Ordered, Placed, StartQuiet
<1>2. t.op = source /\ t.node = n
  BY DEF NewQuiet
<1>3. \/ UNCHANGED running
      \/ /\ running' = [running EXCEPT !["fast"] = {t}] /\ waiting["fast"] = <<>>
         /\ UNCHANGED waiting /\ ~(WaitsForItsNode(source) /\ Busy(n))
  BY StartQuietTakesAndPuts DEF Run
<1> HIDE DEF t
<1>4. /\ \A m : Busy(m)' => Busy(m)
      /\ \A q \in Queues : AskedWaits(q)' => AskedWaits(q)
  BY StartQuietBringsNoLock
<1>5. ASSUME NEW q \in Queues, NEW u \in running'[q], u.quiet
      PROVE  \/ u \in running[q] /\ (Displaced(q, u)' => Displaced(q, u))
             \/ ~Displaced(q, u)'
  <2>1. CASE u \in running[q]
    BY <1>4, <2>1 DEF Displaced
  <2>2. CASE u \notin running[q]
    <3>1. u = t /\ q = "fast" /\ waiting["fast"] = <<>> /\ ~(WaitsForItsNode(source) /\ Busy(n))
      BY <1>1, <1>3, <1>5, <2>2 DEF TypeOK
    <3>2. ~AskedWaits(q)
      BY <3>1 DEF AskedWaits, Range
    <3> QED
      BY <1>2, <1>4, <3>1, <3>2 DEF Displaced
  <2> QED
    BY <2>1, <2>2
<1> QED
  BY <1>1, <1>5, StillGivesWay

LEMMA RemovalGivesWay ==
  ASSUME Ordered, GiveWay, NEW q \in Queues, NEW i \in 1..Len(waiting[q]),
         waiting' = [waiting EXCEPT ![q] = RemoveAt(@, i)],
         UNCHANGED running, UNCHANGED cancel
  PROVE  GiveWay'
<1> DEFINE w == waiting[q]
           u == w[i]
<1>1. Placed /\ TypeOK
  BY DEF Ordered, Placed
<1>2. TakesAndPuts({u}, {})
  BY <1>1, RemovalTakes
<1>3. \A n : Busy(n)' => Busy(n)
  BY <1>2, StillFree
<1>4. waiting'[q] = RemoveAt(w, i) /\ \A p \in Queues : p # q => waiting'[p] = waiting[p]
  BY <1>1 DEF TypeOK
<1>5. Range(waiting'[q]) \subseteq Range(w)
  <2>1. w \in Seq(Task) /\ Range(w) = {w[j] : j \in 1..Len(w)} /\ i \in 1..Len(w)
    BY <1>1 DEF TypeOK, Range
  <2> HIDE DEF w
  <2>2. Range(RemoveAt(w, i)) = {w[j] : j \in (1..Len(w)) \ {i}}
    BY <2>1, RangeOfRemoval
  <2> QED
    BY <1>4, <2>1, <2>2
<1>6. \A p \in Queues : AskedWaits(p)' => AskedWaits(p)
  BY <1>4, <1>5 DEF AskedWaits
<1>7. \A p \in Queues : \A t \in running'[p] : Displaced(p, t)' => Displaced(p, t)
  BY <1>3, <1>6 DEF Displaced
<1> QED
  BY <1>7, StillGivesWay

(* The task a landing starts is displaced by nothing: no asked task waits  *)
(* behind a quiet one, and an entry whose node is locked was dropped.      *)
LEMMA LandStartsFree ==
  ASSUME Ordered, NEW q \in Queues, NEW t, NEW k, LandsAs(q, t, k),
         NEW u \in running'[q]
  PROVE  /\ u.quiet => ~Displaced(q, u)'
         /\ WaitsForItsNode(u.op) => ~Busy(u.node)'
<1> DEFINE w == waiting[q]
           rest == SubSeq(w, k + 1, Len(w))
<1>1. Placed /\ TypeOK /\ QueueOrder /\ w \in Seq(Task)
  BY DEF Ordered, Placed, TypeOK
<1>2. /\ k \in NextToStart(q) /\ k \in 1..(Len(w) + 1)
      /\ running' = [running EXCEPT ![q] = IF k <= Len(w) THEN {w[k]} ELSE {}]
      /\ waiting' = [waiting EXCEPT ![q] = rest]
  BY Zenon DEF LandsAs
<1>3. /\ running'[q] = (IF k <= Len(w) THEN {w[k]} ELSE {}) /\ waiting'[q] = rest
      /\ \A p \in Queues : p # q => running'[p] = running[p] /\ waiting'[p] = waiting[p]
  BY <1>1, <1>2 DEF TypeOK
<1>4. k <= Len(w) /\ k \in 1..Len(w) /\ u = w[k] /\ ~MustDrop(q, k)
  BY <1>2, <1>3 DEF NextToStart
<1>5. u \in Task
  BY <1>1, <1>4, ElementOfSeq
<1>6. Range(rest) = {w[j] : j \in (k + 1)..Len(w)}
  <2>1. k \in Nat
    BY <1>4
  <2> HIDE DEF w
  <2> QED
    BY <1>1, <2>1, RangeOfSlice
<1>7. u.quiet => ~AskedWaits(q)'
  <2> SUFFICES ASSUME u.quiet, NEW j \in (k + 1)..Len(w), ~w[j].quiet
               PROVE  FALSE
    BY <1>3, <1>6 DEF AskedWaits
  <2>1. j \in 1..Len(w) /\ k < j
    BY <1>4
  <2>2. w[j] \in Task
    BY <1>1, <2>1, ElementOfSeq
  <2>3. w[k].rank <= w[j].rank
    BY <1>1, <1>4, <2>1, QueueOrderIsInOrder DEF InOrder, Ahead
  <2> QED
    BY <1>4, <1>5, <2>2, <2>3, TaskRanks
<1>8. WaitsForItsNode(u.op) => ~Busy(u.node)'
  <2> SUFFICES ASSUME WaitsForItsNode(u.op), NEW v \in Held', Locks(v.op), v.node = u.node
               PROVE  FALSE
    BY DEF Busy, LockedBy
  <2>1. ~Locks(u.op)
    BY DEF WaitsForItsNode, Locks
  <2>2. Other(q) \in Queues /\ Other(q) # q /\ Held' = HeldIn(q)' \cup HeldIn(Other(q))'
    BY DEF Held, Other, Queues
  <2>3. HeldIn(Other(q))' = HeldIn(Other(q))
    BY <1>3, <2>2 DEF HeldIn
  <2>4. HeldIn(q)' = {u} \cup Range(rest)
    BY <1>3, <1>4 DEF HeldIn
  <2>5. v \in HeldIn(Other(q)) \cup Range(rest)
    BY <2>1, <2>2, <2>3, <2>4
  <2> QED
    BY <1>4, <2>5 DEF MustDrop, LockedBy
<1> QED
  BY <1>7, <1>8 DEF Displaced

LEMMA LandGivesWay ==
  ASSUME Ordered, OneRuns, GiveWay, NEW q \in Queues, Land(q)
  PROVE  GiveWay'
<1>1. PICK t, k : LandsAs(q, t, k)
  BY LandTakesAndPuts
<1>2. TypeOK /\ TakesAndPuts(Leaving(q, t, k), {})
      /\ running' = [running EXCEPT ![q] = IF k <= Len(waiting[q]) THEN {waiting[q][k]} ELSE {}]
      /\ waiting' = [waiting EXCEPT ![q] = SubSeq(waiting[q], k + 1, Len(waiting[q]))]
  BY <1>1, Zenon DEF LandsAs, Ordered, Placed
<1>3. \A p \in Queues : p # q => running'[p] = running[p] /\ waiting'[p] = waiting[p]
  BY <1>2 DEF TypeOK
<1>4. cancel' = [cancel EXCEPT ![q] = FALSE]
  BY Zenon DEF Land
<1>5. ASSUME NEW p \in Queues, NEW u \in running'[p], u.quiet
      PROVE  \/ /\ u \in running[p] /\ (cancel[p] => cancel'[p])
                /\ Displaced(p, u)' => Displaced(p, u)
             \/ ~Displaced(p, u)'
  <2>1. CASE p = q
    BY <1>1, <1>5, <2>1, LandStartsFree
  <2>2. CASE p # q
    <3>1. AskedWaits(p)' <=> AskedWaits(p)
      BY <1>3, <2>2 DEF AskedWaits
    <3>2. Busy(u.node)' => Busy(u.node)
      BY <1>2, StillFree
    <3>3. u \in running[p] /\ (cancel[p] => cancel'[p])
      BY <1>2, <1>3, <1>4, <1>5, <2>2 DEF TypeOK
    <3> QED
      BY <3>1, <3>2, <3>3 DEF Displaced
  <2> QED
    BY <2>1, <2>2
<1> QED
  BY <1>5, StillGivesWay

LEMMA GiveWayStep ==
  ASSUME Ordered, OneRuns, GiveWay, [Next]_vars
  PROVE  GiveWay'
<1>0. TypeOK
  BY DEF Ordered, Placed
<1>1. ASSUME NEW op \in AskedOps, NEW n \in Nodes \cup {NoNode}, StartAsked(op, n)
      PROVE  GiveWay'
  BY <1>1, StartAskedGivesWay
<1>2. ASSUME NEW s \in Sources, NEW r \in QuietRanks, NEW n \in Nodes, StartQuiet(s, r, n)
      PROVE  GiveWay'
  BY <1>2, StartQuietGivesWay
<1>3. ASSUME NEW q \in Queues, UNCHANGED running, UNCHANGED waiting,
             cancel' = [cancel EXCEPT ![q] = TRUE]
      PROVE  GiveWay'
  <2>1. \A p \in Queues : cancel[p] => cancel'[p]
    BY <1>0, <1>3 DEF TypeOK
  <2> QED
    BY <1>3, <2>1, SameQueuesGiveWay
<1>4. ASSUME UNCHANGED running, UNCHANGED waiting, UNCHANGED cancel PROVE GiveWay'
  BY <1>4, SameQueuesGiveWay
<1>5. ASSUME NEW q \in Queues, CancelRunning(q) PROVE GiveWay'
  BY <1>3, <1>5 DEF CancelRunning
<1>6. ASSUME NEW q \in Queues, NEW i \in 1..Len(waiting[q]), CancelWaiting(q, i)
      PROVE  GiveWay'
  BY <1>6, RemovalGivesWay DEF CancelWaiting
<1>7. ASSUME NEW q \in Queues, NEW id \in 1..MaxQuiet, CancelQuiet(q, id) PROVE GiveWay'
  BY <1>3, <1>7, RemovalGivesWay DEF CancelQuiet
<1>8. ASSUME NEW q \in Queues, WorkerAnswers(q) \/ WorkerDone(q) PROVE GiveWay'
  <2>1. UNCHANGED running /\ UNCHANGED waiting /\ UNCHANGED cancel
    BY <1>8 DEF WorkerAnswers, WorkerDone
  <2> QED
    BY <1>4, <2>1
<1>9. ASSUME NEW q \in Queues, Land(q) PROVE GiveWay'
  BY <1>9, LandGivesWay
<1>10. ASSUME NEW n \in Nodes, MoveCursor(n) \/ CloseNode(n) PROVE GiveWay'
  BY <1>4, <1>10 DEF MoveCursor, CloseNode
<1>11. ASSUME CloseAll \/ UNCHANGED vars PROVE GiveWay'
  BY <1>4, <1>11 DEF CloseAll, vars
<1> QED
  BY <1>1, <1>2, <1>5, <1>6, <1>7, <1>8, <1>9, <1>10, <1>11 DEF Next

LEMMA GiveWayInit == Init => GiveWay
  BY DEF Init, GiveWay

LEMMA AlwaysGiveWay == Spec => []GiveWay
<1>1. Accounted /\ GiveWay /\ [Next]_vars => GiveWay'
  BY GiveWayStep DEF Accounted, Booked
<1> QED
  BY <1>1, GiveWayInit, AlwaysAccounted, PTL DEF Spec

(* A running quiet task has been asked to stop as soon as somebody's task  *)
(* waits behind it or locks the node its source waits for (give_way_to,    *)
(* begin): no asked task waits out a whole piece of quiet work.            *)
THEOREM AlwaysGivesWay == Spec => []GivesWay
<1>1. TypeOK /\ GiveWay => GivesWay
  BY GivesWayIsGiveWay
<1> QED
  BY <1>1, AlwaysTypeOK, AlwaysGiveWay, PTL

-----------------------------------------------------------------------------
(* Starting quiet work.                                                    *)

LEMMA StartsUnlocked ==
  ASSUME Ordered, OneRuns, [Next]_vars, NEW q \in Queues, NEW t \in running'[q] \ running[q],
         WaitsForItsNode(t.op)
  PROVE  ~Busy(t.node)'
<1>0. TypeOK
  BY DEF Ordered, Placed
<1>1. ASSUME NEW op \in AskedOps, NEW n \in Nodes \cup {NoNode}, StartAsked(op, n)
      PROVE  FALSE
  <2> DEFINE u == NewAsked(op, n)
             p == QueueOf(op)
  <2>1. p \in Queues /\ ~WaitsForItsNode(u.op)
    BY DEF QueueOf, Queues, NewAsked, AskedOps, WaitsForItsNode
  <2>2. UNCHANGED running \/ running' = [running EXCEPT ![p] = {u}]
    BY <1>1, Zenon DEF StartAsked, Run
  <2> HIDE DEF u, p
  <2>3. t = u
    <3>1. \A o \in Queues : running'[o] = running[o] \/ running'[o] = {u}
      BY <1>0, <2>2 DEF TypeOK
    <3> QED
      BY <3>1
  <2> QED
    BY <2>1, <2>3
<1>2. ASSUME NEW s \in Sources, NEW r \in QuietRanks, NEW n \in Nodes, StartQuiet(s, r, n)
      PROVE  ~Busy(t.node)'
  <2> DEFINE u == NewQuiet(s, r, n)
  <2>1. u.op = s /\ u.node = n
    BY DEF NewQuiet
  <2>2. \/ UNCHANGED running
        \/ /\ running' = [running EXCEPT !["fast"] = {u}]
           /\ ~(WaitsForItsNode(s) /\ Busy(n))
    BY <1>2, StartQuietTakesAndPuts DEF Run
  <2> HIDE DEF u
  <2>3. t = u /\ ~(WaitsForItsNode(s) /\ Busy(n))
    BY <1>0, <2>2 DEF TypeOK, Queues
  <2>4. Busy(n)' => Busy(n)
    BY <1>2, StartQuietBringsNoLock
  <2> QED
    BY <2>1, <2>3, <2>4
<1>3. ASSUME NEW p \in Queues, Land(p) PROVE ~Busy(t.node)'
  <2>1. PICK v, k : LandsAs(p, v, k)
    BY <1>3, LandTakesAndPuts
  <2>2. running' = [running EXCEPT ![p] = IF k <= Len(waiting[p]) THEN {waiting[p][k]} ELSE {}]
    BY <2>1, Zenon DEF LandsAs
  <2>3. p = q
    BY <1>0, <2>2 DEF TypeOK
  <2> QED
    BY <2>1, <2>3, LandStartsFree
<1>4. ASSUME UNCHANGED running PROVE FALSE
  BY <1>4
<1>5. ASSUME NEW p \in Queues, CancelRunning(p) \/ WorkerAnswers(p) \/ WorkerDone(p) PROVE FALSE
  BY <1>4, <1>5 DEF CancelRunning, WorkerAnswers, WorkerDone
<1>6. ASSUME NEW p \in Queues, NEW i \in 1..Len(waiting[p]), CancelWaiting(p, i) PROVE FALSE
  BY <1>4, <1>6 DEF CancelWaiting
<1>7. ASSUME NEW p \in Queues, NEW id \in 1..MaxQuiet, CancelQuiet(p, id) PROVE FALSE
  BY <1>4, <1>7 DEF CancelQuiet
<1>8. ASSUME NEW n \in Nodes, MoveCursor(n) \/ CloseNode(n) PROVE FALSE
  BY <1>4, <1>8 DEF MoveCursor, CloseNode
<1>9. ASSUME CloseAll \/ UNCHANGED vars PROVE FALSE
  BY <1>4, <1>9 DEF CloseAll, vars
<1> QED
  BY <1>1, <1>2, <1>3, <1>5, <1>6, <1>7, <1>8, <1>9 DEF Next

(* A quiet task whose source waits for its node starts only while nobody   *)
(* locks that node, whichever way it comes to run: straight from its       *)
(* request or from the waiting list after a landing (begin, start_next).   *)
THEOREM AlwaysStartsUnlocked == Spec => QuietStartsUnlocked
<1>1. Accounted /\ [Next]_vars =>
        [\A q \in Queues : \A t \in running'[q] \ running[q] :
           WaitsForItsNode(t.op) => ~Busy(t.node)']_vars
  BY StartsUnlocked DEF Accounted, Booked
<1> QED
  BY <1>1, AlwaysAccounted, PTL DEF Spec, QuietStartsUnlocked

-----------------------------------------------------------------------------
(* The abstract lock.                                                      *)

Claimed(t) == [id |-> t.id, base |-> t.base]

OneClaim ==
  \A n \in Nodes :
    /\ ~Busy(n) => ClaimsOn(n) = {}
    /\ \A t \in Held : Locks(t.op) /\ t.node = n => ClaimsOn(n) = {Claimed(t)}

OneLocker ==
  \A t, u \in Held : Locks(t.op) /\ Locks(u.op) /\ t.node = u.node => t = u

LEMMA InvIsOneLocker == Inv => OneLocker
<1> SUFFICES ASSUME Inv, NEW t \in Held, NEW u \in Held, Locks(t.op), Locks(u.op), t.node = u.node
             PROVE  t = u
  BY DEF OneLocker
<1>1. PICK q \in Queues : \E i \in Places(q) : t \in At(q, i)
  BY PlacesOfHeld DEF HeldIsPlaced, Inv
<1>2. PICK p \in Queues : \E i \in Places(p) : u \in At(p, i)
  BY PlacesOfHeld DEF HeldIsPlaced, Inv
<1> QED
  BY <1>1, <1>2 DEF Inv, OneLockPerNode

LEMMA InvIsOneClaim == Inv => OneClaim
<1> SUFFICES ASSUME Inv, NEW n \in Nodes
             PROVE  /\ ~Busy(n) => ClaimsOn(n) = {}
                    /\ \A t \in Held : Locks(t.op) /\ t.node = n => ClaimsOn(n) = {Claimed(t)}
  BY DEF OneClaim
<1>1. ~Busy(n) => ClaimsOn(n) = {}
  BY DEF Busy, LockedBy, ClaimsOn
<1>2. ASSUME NEW t \in Held, Locks(t.op), t.node = n
      PROVE  ClaimsOn(n) = {Claimed(t)}
  <2>1. {u \in Held : Locks(u.op) /\ u.node = n} = {t}
    BY <1>2, InvIsOneLocker DEF OneLocker
  <2> QED
    BY <2>1 DEF ClaimsOn, Claimed
<1> QED
  BY <1>1, <1>2

LEMMA InvIsOneClaimNext == Inv' => OneClaim'
  BY InvIsOneClaim, PTL

(* A step that brings no lock on a node keeps its claim or releases it.    *)
LEMMA ClaimKeptOrReleased ==
  ASSUME Inv, Inv', NEW gone, NEW new, TakesAndPuts(gone, new), NEW n \in Nodes,
         \A t \in new : ~(Locks(t.op) /\ t.node = n)
  PROVE  \/ /\ ClaimsOn(n)' = ClaimsOn(n)
            /\ \A t \in gone : ~(Locks(t.op) /\ t.node = n)
         \/ ClaimsOn(n) # {} /\ ClaimsOn(n)' = {}
<1>1. OneClaim /\ OneClaim' /\ OneLocker
  BY InvIsOneClaim, InvIsOneClaimNext, InvIsOneLocker
<1>2. gone \subseteq Held /\ Held' = (Held \ gone) \cup new
  BY DEF TakesAndPuts
<1>3. ASSUME NEW t \in gone, Locks(t.op), t.node = n
      PROVE  ClaimsOn(n) # {} /\ ClaimsOn(n)' = {}
  <2>1. ClaimsOn(n) = {Claimed(t)}
    BY <1>1, <1>2, <1>3 DEF OneClaim
  <2>2. ~Busy(n)'
    BY <1>1, <1>2, <1>3 DEF Busy, LockedBy, OneLocker
  <2> QED
    BY <1>1, <2>1, <2>2 DEF OneClaim
<1>4. ASSUME \A t \in gone : ~(Locks(t.op) /\ t.node = n)
      PROVE  ClaimsOn(n)' = ClaimsOn(n)
  <2>1. \A t : t \in Held' /\ Locks(t.op) /\ t.node = n <=> t \in Held /\ Locks(t.op) /\ t.node = n
    BY <1>2, <1>4
  <2> QED
    BY <2>1 DEF ClaimsOn
<1> QED
  BY <1>3, <1>4

Abstractly(n) == \/ Lock!Acquire(n) \/ Lock!Commit(n) \/ Lock!Release(n)
                 \/ Lock!Move(n) \/ Lock!Keep(n)

LEMMA ClaimsAt ==
  \A n \in Nodes : Claims[n] = ClaimsOn(n) /\ Claims'[n] = ClaimsOn(n)'
  BY DEF Claims

LEMMA KeptOrReleased ==
  ASSUME Inv, Inv', NEW gone, NEW new, TakesAndPuts(gone, new), NEW n \in Nodes,
         \A t \in new : ~(Locks(t.op) /\ t.node = n), cursor'[n] = cursor[n]
  PROVE  Abstractly(n)
<1>1. CASE ClaimsOn(n)' = ClaimsOn(n)
  BY <1>1, ClaimsAt DEF Abstractly, Lock!Keep
<1>2. CASE ClaimsOn(n) # {} /\ ClaimsOn(n)' = {}
  BY <1>2, ClaimsAt DEF Abstractly, Lock!Release
<1> QED
  BY <1>1, <1>2, ClaimKeptOrReleased

LEMMA StartAskedAcquires ==
  ASSUME Inv, Inv', Ordered, NEW op \in AskedOps, NEW m \in Nodes \cup {NoNode},
         StartAsked(op, m), NEW n \in Nodes
  PROVE  Abstractly(n)
<1> DEFINE t == NewAsked(op, m)
<1>1. UNCHANGED cursor
  BY DEF StartAsked
<1>2. t.op = op /\ t.node = m /\ Claimed(t).base = VersionAt(m)
  BY DEF NewAsked, Claimed
<1>3. TakesAndPuts({}, {t}) \/ TakesAndPuts({}, {})
  BY StartAskedTakesAndPuts
<1>4. Locks(op) => ~Busy(m)
  BY DEF StartAsked, StartRefused
<1> HIDE DEF t
<1>5. CASE TakesAndPuts({}, {})
  BY <1>1, <1>5, KeptOrReleased
<1>6. CASE TakesAndPuts({}, {t}) /\ ~(Locks(op) /\ m = n)
  BY <1>1, <1>2, <1>6, KeptOrReleased
<1>7. CASE TakesAndPuts({}, {t}) /\ Locks(op) /\ m = n
  <2>1. OneClaim /\ OneClaim'
    BY InvIsOneClaim, InvIsOneClaimNext
  <2>2. t \in Held'
    BY <1>7 DEF TakesAndPuts
  <2>3. ClaimsOn(n) = {} /\ ClaimsOn(n)' = {Claimed(t)}
    BY <1>2, <1>4, <1>7, <2>1, <2>2 DEF OneClaim
  <2>4. Claimed(t).base = cursor[n] /\ cursor'[n] = cursor[n]
    BY <1>1, <1>2, <1>7 DEF VersionAt
  <2>5. Lock!Acquire(n)
    BY <2>3, <2>4, ClaimsAt DEF Lock!Acquire
  <2> QED
    BY <2>5 DEF Abstractly
<1> QED
  BY <1>3, <1>5, <1>6, <1>7

LEMMA LandCommits ==
  ASSUME Inv, Inv', Ordered, OneRuns, NEW q \in Queues, Land(q), NEW n \in Nodes
  PROVE  Abstractly(n)
<1>1. PICK t, k : LandsAs(q, t, k)
  BY LandTakesAndPuts
<1>2. TakesAndPuts(Leaving(q, t, k), {}) /\ Finish(t, worker[q])
  BY <1>1, Zenon DEF LandsAs
<1>3. t \in Leaving(q, t, k) /\ t \in Held /\ cursor \in [Nodes -> Nat]
  BY <1>2 DEF Leaving, TakesAndPuts, Inv, TypeOK
<1>4. \/ UNCHANGED cursor
      \/ Locks(t.op) /\ cursor' = [cursor EXCEPT ![t.node] = @ + 1]
  BY <1>2 DEF Finish
<1>5. CASE cursor'[n] = cursor[n]
  BY <1>2, <1>5, KeptOrReleased
<1>6. CASE Locks(t.op) /\ t.node = n /\ cursor'[n] = cursor[n] + 1
  <2>1. ClaimsOn(n)' = {}
    BY <1>2, <1>3, <1>6, ClaimKeptOrReleased
  <2>2. ClaimsOn(n) = {Claimed(t)}
    BY <1>3, <1>6, InvIsOneClaim DEF OneClaim
  <2>3. Claimed(t).base = cursor[n]
    BY <1>3, <1>6 DEF Claimed, Inv, CapturedIsCurrent
  <2>4. Lock!Commit(n)
    BY <1>6, <2>1, <2>2, <2>3, ClaimsAt DEF Lock!Commit
  <2> QED
    BY <2>4 DEF Abstractly
<1> QED
  BY <1>3, <1>4, <1>5, <1>6

LEMMA MoveMoves ==
  ASSUME Inv, Inv', NEW m \in Nodes, MoveCursor(m), NEW n \in Nodes
  PROVE  Abstractly(n)
<1>1. TakesAndPuts({}, {})
  BY SameQueuesTakeNothing DEF MoveCursor
<1>2. ~Busy(m) /\ cursor' = [cursor EXCEPT ![m] = @ + 1] /\ cursor \in [Nodes -> Nat]
  BY DEF MoveCursor, Inv, TypeOK
<1>3. CASE n # m
  BY <1>1, <1>2, <1>3, KeptOrReleased
<1>4. CASE n = m
  <2>1. ClaimsOn(n) = {}
    BY <1>2, <1>4, InvIsOneClaim DEF OneClaim
  <2>2. ClaimsOn(n)' = {}
    BY <1>1, <2>1, ClaimKeptOrReleased
  <2>3. Lock!Move(n)
    BY <1>2, <1>4, <2>1, <2>2, ClaimsAt DEF Lock!Move
  <2> QED
    BY <2>3 DEF Abstractly
<1> QED
  BY <1>3, <1>4

LEMMA EveryNodeAbstractly ==
  ASSUME Inv, Inv', Ordered, OneRuns, [Next]_vars, NEW n \in Nodes
  PROVE  Abstractly(n)
<1>0. Placed
  BY DEF Ordered
<1>1. ASSUME NEW op \in AskedOps, NEW m \in Nodes \cup {NoNode}, StartAsked(op, m)
      PROVE  Abstractly(n)
  BY <1>1, StartAskedAcquires
<1>2. ASSUME NEW s \in Sources, NEW r \in QuietRanks, NEW m \in Nodes, StartQuiet(s, r, m)
      PROVE  Abstractly(n)
  <2> DEFINE t == NewQuiet(s, r, m)
  <2>1. \/ TakesAndPuts({waiting["fast"][i] : i \in EntryOf(waiting["fast"], s)}, {t})
        \/ TakesAndPuts({}, {t})
        \/ TakesAndPuts({}, {})
    BY <1>2, StartQuietTakesAndPuts
  <2>2. PICK gone : TakesAndPuts(gone, {t}) \/ TakesAndPuts(gone, {})
    BY <2>1
  <2>3. ~Locks(t.op)
    BY QuietLocksNothing
  <2>4. UNCHANGED cursor
    BY <1>2 DEF StartQuiet
  <2> HIDE DEF t
  <2> QED
    BY <2>2, <2>3, <2>4, KeptOrReleased
<1>3. ASSUME UNCHANGED running, UNCHANGED waiting, UNCHANGED cursor PROVE Abstractly(n)
  BY <1>3, SameQueuesTakeNothing, KeptOrReleased
<1>4. ASSUME NEW q \in Queues, NEW i \in 1..Len(waiting[q]),
             waiting' = [waiting EXCEPT ![q] = RemoveAt(@, i)],
             UNCHANGED running, UNCHANGED cursor
      PROVE  Abstractly(n)
  <2>1. PICK gone : TakesAndPuts(gone, {})
    BY <1>0, <1>4, RemovalTakes
  <2> QED
    BY <1>4, <2>1, KeptOrReleased
<1>5. ASSUME NEW q \in Queues, Land(q) PROVE Abstractly(n)
  BY <1>5, LandCommits
<1>6. ASSUME NEW m \in Nodes, MoveCursor(m) PROVE Abstractly(n)
  BY <1>6, MoveMoves
<1>7. ASSUME NEW q \in Queues, NEW i \in 1..Len(waiting[q]), CancelWaiting(q, i)
      PROVE  Abstractly(n)
  BY <1>4, <1>7 DEF CancelWaiting
<1>8. ASSUME NEW q \in Queues, NEW id \in 1..MaxQuiet, CancelQuiet(q, id) PROVE Abstractly(n)
  BY <1>3, <1>4, <1>8 DEF CancelQuiet
<1>9. ASSUME NEW q \in Queues, CancelRunning(q) \/ WorkerAnswers(q) \/ WorkerDone(q)
      PROVE  Abstractly(n)
  <2>1. UNCHANGED running /\ UNCHANGED waiting /\ UNCHANGED cursor
    BY <1>9 DEF CancelRunning, WorkerAnswers, WorkerDone
  <2> QED
    BY <1>3, <2>1
<1>10. ASSUME NEW m \in Nodes, CloseNode(m) PROVE Abstractly(n)
  BY <1>3, <1>10 DEF CloseNode
<1>11. ASSUME CloseAll \/ UNCHANGED vars PROVE Abstractly(n)
  BY <1>3, <1>11 DEF CloseAll, vars
<1> QED
  BY <1>1, <1>2, <1>5, <1>6, <1>7, <1>8, <1>9, <1>10, <1>11 DEF Next

LEMMA LockStep == Inv /\ Inv' /\ Ordered /\ OneRuns /\ [Next]_vars => Lock!Next
<1> SUFFICES ASSUME Inv, Inv', Ordered, OneRuns, [Next]_vars PROVE Lock!Next
  OBVIOUS
<1>1. \A n \in Nodes : Abstractly(n)
  BY EveryNodeAbstractly
<1>2. cursor' \in [Nodes -> Nat]
  BY DEF Inv, TypeOK
<1>3. \A t \in Held' : t.id \in Nat /\ t.base \in Nat
  <2>1. TypeOK'
    BY DEF Inv
  <2>2. \A q \in Queues : HeldIn(q)' \subseteq Task
    BY <2>1 DEF TypeOK, HeldIn, Range
  <2>3. Held' \subseteq Task
    BY <2>2 DEF Held, Queues
  <2>4. \A t \in Task : t.id \in Nat /\ t.base \in Nat
    <3>1. \A t \in AskedTask : t.id \in 1..MaxAsked /\ t.base \in Nat
      BY DEF AskedTask
    <3>2. \A t \in QuietTask : t.id \in 1..MaxQuiet /\ t.base \in Nat
      BY DEF QuietTask
    <3> QED
      BY <3>1, <3>2, ConstantsAssumption DEF Task
  <2> QED
    BY <2>3, <2>4
<1>4. Claims' \in [Nodes -> SUBSET Lock!Claim]
  BY <1>3 DEF Claims, ClaimsOn, Lock!Claim
<1> QED
  BY <1>1, <1>2, <1>4 DEF Lock!Next, Abstractly

LEMMA LockInit == Init => Lock!Init
<1> SUFFICES ASSUME Init PROVE Lock!Init
  OBVIOUS
<1>1. Held = {}
  BY DEF Init, Held, HeldIn, Range, Queues
<1>2. Claims = [n \in Nodes |-> {}] /\ cursor = [n \in Nodes |-> 0]
  BY <1>1 DEF Claims, ClaimsOn, Init
<1> QED
  BY <1>2 DEF Lock!Init

(* The two queues are, node by node, one lock: a task that was accepted    *)
(* owns its node's version until it lands on it or ends, and everybody     *)
(* else moves a node only while no task owns it (start_refusal,            *)
(* busy_refusal, finish).                                                  *)
THEOREM QueuesImplementNodeLock == Spec => ImplementsNodeLock
<1>1. Inv /\ Inv' /\ Accounted /\ [Next]_vars => [Lock!Next]_(Lock!vars)
  BY LockStep DEF Accounted, Booked
<1> QED
  BY <1>1, LockInit, AlwaysInv, AlwaysAccounted, PTL DEF Spec, ImplementsNodeLock, Lock!Spec

=============================================================================
