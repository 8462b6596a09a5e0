------------------------ MODULE BackgroundTasksProofs ------------------------
(***************************************************************************)
(* BackgroundTasks for any number of nodes, sources, tasks and moves.      *)
(*                                                                         *)
(* TypeOK is inductive by itself.  What takes work is the waiting lists:   *)
(* the lemmas say where each entry of a list with one taken out, one put   *)
(* in, or a prefix popped was before, and LockProofs uses them again.      *)
(*                                                                         *)
(* The rest rests on one another.  A task is in one place, under an id that*)
(* was handed out (Placed); the lists are in the order the code keeps them *)
(* in (Ordered); a queue runs one task at most, and an asked task in no    *)
(* place has its row (Booked); a quiet one in no place has been told what  *)
(* became of it, and a running one as its worker says (Accounted); and a   *)
(* queue that runs a task has a worker on it (Crewed).                     *)
(***************************************************************************)
EXTENDS BackgroundTasks, SequenceTheorems, WellFoundedInduction, TLAPS

-----------------------------------------------------------------------------
(* Lemmas about the waiting lists.                                         *)

LEMMA SliceProperties ==
  ASSUME NEW S, NEW w \in Seq(S), NEW k \in Nat
  PROVE  /\ SubSeq(w, k + 1, Len(w)) \in Seq(S)
         /\ \A i \in DOMAIN SubSeq(w, k + 1, Len(w)) :
              /\ i + k \in DOMAIN w
              /\ SubSeq(w, k + 1, Len(w))[i] = w[i + k]
<1>1. \A i \in (k + 1)..Len(w) : w[i] \in S
  BY ElementOfSeq
<1> QED
  BY <1>1, SubSeqProperties

LEMMA RemoveAtProperties ==
  ASSUME NEW S, NEW w \in Seq(S), NEW at \in 1..Len(w)
  PROVE  /\ RemoveAt(w, at) \in Seq(S)
         /\ \A i \in DOMAIN RemoveAt(w, at) :
              LET from == IF i < at THEN i ELSE i + 1
              IN from \in DOMAIN w /\ RemoveAt(w, at)[i] = w[from]
<1> DEFINE left == SubSeq(w, 1, at - 1)
           right == SubSeq(w, at + 1, Len(w))
<1>1. left \in Seq(S) /\ Len(left) = at - 1 /\ \A i \in 1..(at - 1) : left[i] = w[i]
  <2>1. \A i \in 1..(at - 1) : w[i] \in S
    BY ElementOfSeq
  <2> QED
    BY <2>1, SubSeqProperties
<1>2. /\ right \in Seq(S) /\ Len(right) = Len(w) - at
      /\ \A i \in 1..(Len(w) - at) : right[i] = w[i + at]
  <2>1. \A i \in (at + 1)..Len(w) : w[i] \in S
    BY ElementOfSeq
  <2> QED
    BY <2>1, SubSeqProperties
<1>3. /\ left \o right \in Seq(S)
      /\ Len(left \o right) = Len(left) + Len(right)
      /\ \A i \in 1..(Len(left) + Len(right)) :
           (left \o right)[i] = IF i <= Len(left) THEN left[i] ELSE right[i - Len(left)]
  BY <1>1, <1>2, ConcatProperties
<1>4. RemoveAt(w, at) = left \o right
  BY DEF RemoveAt
<1> HIDE DEF left, right
<1>5. Len(left \o right) = Len(w) - 1 /\ DOMAIN (left \o right) = 1..(Len(w) - 1)
  BY <1>1, <1>2, <1>3
<1>6. ASSUME NEW i \in 1..(Len(w) - 1)
      PROVE  LET from == IF i < at THEN i ELSE i + 1
             IN from \in 1..Len(w) /\ (left \o right)[i] = w[from]
  <2>1. CASE i < at
    BY <2>1, <1>1, <1>2, <1>3
  <2>2. CASE ~(i < at)
    <3>1. (left \o right)[i] = right[i - (at - 1)] /\ i - (at - 1) \in 1..(Len(w) - at)
      BY <2>2, <1>1, <1>2, <1>3
    <3>2. right[i - (at - 1)] = w[i + 1]
      BY <3>1, <1>2
    <3> QED
      BY <2>2, <3>1, <3>2
  <2> QED
    BY <2>1, <2>2
<1>7. RemoveAt(w, at) \in Seq(S) /\ DOMAIN RemoveAt(w, at) = 1..(Len(w) - 1)
  BY <1>3, <1>4, <1>5
<1>8. ASSUME NEW i \in DOMAIN RemoveAt(w, at)
      PROVE  LET from == IF i < at THEN i ELSE i + 1
             IN from \in DOMAIN w /\ RemoveAt(w, at)[i] = w[from]
  <2>1. i \in 1..(Len(w) - 1)
    BY <1>7
  <2>2. DOMAIN w = 1..Len(w)
    OBVIOUS
  <2> QED
    BY <1>4, <1>6, <2>1, <2>2
<1> QED
  BY <1>7, <1>8

LEMMA RemoveAtLength ==
  ASSUME NEW S, NEW w \in Seq(S), NEW at \in 1..Len(w)
  PROVE  Len(RemoveAt(w, at)) = Len(w) - 1
<1> DEFINE left == SubSeq(w, 1, at - 1)
           right == SubSeq(w, at + 1, Len(w))
<1>1. left \in Seq(S) /\ Len(left) = at - 1
  <2>1. \A i \in 1..(at - 1) : w[i] \in S
    BY ElementOfSeq
  <2> QED
    BY <2>1, SubSeqProperties
<1>2. right \in Seq(S) /\ Len(right) = Len(w) - at
  <2>1. \A i \in (at + 1)..Len(w) : w[i] \in S
    BY ElementOfSeq
  <2> QED
    BY <2>1, SubSeqProperties
<1>3. RemoveAt(w, at) = left \o right
  BY DEF RemoveAt
<1> HIDE DEF left, right
<1>4. Len(left \o right) = Len(left) + Len(right)
  BY <1>1, <1>2, ConcatProperties
<1> QED
  BY <1>1, <1>2, <1>3, <1>4

LEMMA InsertAtProperties ==
  ASSUME NEW S, NEW w \in Seq(S), NEW at \in 1..(Len(w) + 1), NEW e \in S
  PROVE  /\ InsertAt(w, at, e) \in Seq(S)
         /\ Len(InsertAt(w, at, e)) = Len(w) + 1
         /\ \A i \in DOMAIN InsertAt(w, at, e) :
              IF i = at THEN InsertAt(w, at, e)[i] = e
              ELSE LET from == IF i < at THEN i ELSE i - 1
                   IN from \in DOMAIN w /\ InsertAt(w, at, e)[i] = w[from]
<1> DEFINE left == SubSeq(w, 1, at - 1)
           right == SubSeq(w, at, Len(w))
           front == left \o <<e>>
<1>1. left \in Seq(S) /\ Len(left) = at - 1 /\ \A i \in 1..(at - 1) : left[i] = w[i]
  <2>1. \A i \in 1..(at - 1) : w[i] \in S
    BY ElementOfSeq
  <2> QED
    BY <2>1, SubSeqProperties
<1>2. /\ right \in Seq(S) /\ Len(right) = Len(w) + 1 - at
      /\ \A i \in 1..(Len(w) + 1 - at) : right[i] = w[i + at - 1]
  <2>1. \A i \in at..Len(w) : w[i] \in S
    BY ElementOfSeq
  <2> QED
    BY <2>1, SubSeqProperties
<1>3. front \in Seq(S) /\ Len(front) = at
      /\ \A i \in 1..at : front[i] = IF i < at THEN w[i] ELSE e
  <2>1. <<e>> \in Seq(S) /\ Len(<<e>>) = 1 /\ <<e>>[1] = e
    OBVIOUS
  <2> QED
    BY <1>1, <2>1, ConcatProperties
<1>4. /\ front \o right \in Seq(S)
      /\ Len(front \o right) = Len(front) + Len(right)
      /\ \A i \in 1..(Len(front) + Len(right)) :
           (front \o right)[i] = IF i <= Len(front) THEN front[i] ELSE right[i - Len(front)]
  BY <1>2, <1>3, ConcatProperties
<1>5. InsertAt(w, at, e) = front \o right
  BY DEF InsertAt
<1> HIDE DEF left, right, front
<1>6. Len(front \o right) = Len(w) + 1
  BY <1>2, <1>3, <1>4
<1> QED
  BY <1>2, <1>3, <1>4, <1>5, <1>6

(* What taking a source's waiting entry out leaves.                        *)
LEMMA WithoutEntryProperties ==
  ASSUME NEW S, NEW w \in Seq(S), NEW source, NEW kept \in WithoutEntryOf(w, source)
  PROVE  /\ kept \in Seq(S)
         /\ \A i \in DOMAIN kept : \E j \in DOMAIN w : kept[i] = w[j]
<1>1. CASE EntryOf(w, source) = {}
  BY <1>1 DEF WithoutEntryOf
<1>2. CASE EntryOf(w, source) # {}
  <2>1. PICK at \in EntryOf(w, source) : kept = RemoveAt(w, at)
    BY <1>2 DEF WithoutEntryOf
  <2>2. at \in 1..Len(w)
    BY <2>1 DEF EntryOf
  <2> QED
    BY <2>1, <2>2, RemoveAtProperties
<1> QED
  BY <1>1, <1>2

-----------------------------------------------------------------------------
(* Type correctness.                                                       *)

LEMMA NewAskedIsTask ==
  ASSUME TypeOK, NEW op \in AskedOps, NEW n \in Nodes \cup {NoNode}, nextId <= MaxAsked
  PROVE  NewAsked(op, n) \in Task
<1>1. VersionAt(n) \in Nat
  BY DEF TypeOK, VersionAt
<1>2. nextId \in 1..MaxAsked
  BY ConstantsAssumption DEF TypeOK
<1> QED
  BY <1>1, <1>2 DEF NewAsked, Task, AskedTask

LEMMA NewQuietIsTask ==
  ASSUME TypeOK, NEW source \in Sources, NEW rank \in QuietRanks, NEW n \in Nodes,
         nextQuietId <= MaxQuiet
  PROVE  NewQuiet(source, rank, n) \in Task
<1>1. VersionAt(n) \in Nat
  BY DEF TypeOK, VersionAt
<1>2. nextQuietId \in 1..MaxQuiet
  BY ConstantsAssumption DEF TypeOK
<1>3. source \in AllSources
  BY ConstantsAssumption
<1> QED
  BY <1>1, <1>2, <1>3 DEF NewQuiet, Task, QuietTask

LEMMA TypeInit == Init => TypeOK
<1> SUFFICES ASSUME Init PROVE TypeOK
  OBVIOUS
<1> USE DEF Init
<1>1. waiting \in [Queues -> Seq(Task)]
  <2>1. <<>> \in Seq(Task)
    OBVIOUS
  <2> QED
    BY <2>1
<1>2. running \in [Queues -> SUBSET Task] /\ cancel \in [Queues -> BOOLEAN]
  OBVIOUS
<1>3. worker \in [Queues -> {"none", "computing", "answered", "produced", "nothing"}]
  OBVIOUS
<1>4. /\ nextId \in 1..(MaxAsked + 1) /\ nextQuietId \in 1..(MaxQuiet + 1)
      /\ cursor \in [Nodes -> Nat] /\ rows \in [1..MaxAsked -> Nat]
  BY ConstantsAssumption
<1>5. told \in [1..MaxQuiet -> SUBSET {"answered", "dropped", "failed"}]
  OBVIOUS
<1>6. loaded \subseteq opened /\ opened \subseteq Nodes
  BY ConstantsAssumption
<1> QED
  BY <1>1, <1>2, <1>3, <1>4, <1>5, <1>6 DEF TypeOK

LEMMA TellType ==
  ASSUME TypeOK, NEW ids, NEW word \in {"answered", "dropped", "failed"}
  PROVE  Tell(ids, word) \in [1..MaxQuiet -> SUBSET {"answered", "dropped", "failed"}]
  BY DEF TypeOK, Tell

(* The part of TypeOK about what the queues hold.                          *)
QueuesType ==
  /\ running \in [Queues -> SUBSET Task]
  /\ waiting \in [Queues -> Seq(Task)]

LEMMA StartAskedType ==
  ASSUME TypeOK, NEW op \in AskedOps, NEW n \in Nodes \cup {NoNode}, StartAsked(op, n)
  PROVE  TypeOK'
<1> DEFINE q == QueueOf(op)
           t == NewAsked(op, n)
<1>1. q \in Queues
  BY DEF QueueOf, Queues
<1>2. t \in Task
  BY NewAskedIsTask DEF StartAsked
<1>3. cancel' \in [Queues -> BOOLEAN]
  BY DEF TypeOK, StartAsked, GivenWay
<1>4. nextId' \in 1..(MaxAsked + 1)
  BY ConstantsAssumption DEF TypeOK, StartAsked
<1>5. QueuesType' /\ worker' \in [Queues -> {"none", "computing", "answered", "produced", "nothing"}]
  <2> HIDE DEF t
  <2>1. CASE UNCHANGED <<running, worker, waiting>>
    BY <2>1 DEF TypeOK, QueuesType
  <2>2. CASE /\ UNCHANGED <<running, worker>>
             /\ \E at \in AskedPlaces(waiting[q]) :
                  waiting' = [waiting EXCEPT ![q] = InsertAt(@, at, t)]
    <3>1. PICK at \in 1..(Len(waiting[q]) + 1) :
            waiting' = [waiting EXCEPT ![q] = InsertAt(waiting[q], at, t)]
      BY <2>2 DEF AskedPlaces
    <3>2. InsertAt(waiting[q], at, t) \in Seq(Task)
      <4>1. waiting[q] \in Seq(Task)
        BY <1>1 DEF TypeOK
      <4> QED
        BY <1>2, <4>1, InsertAtProperties
    <3> QED
      BY <2>2, <3>1, <3>2, <1>1 DEF TypeOK, QueuesType
  <2>3. CASE Run(q, t) /\ UNCHANGED waiting
    BY <2>3, <1>1, <1>2 DEF TypeOK, QueuesType, Run
  <2> QED
    BY <2>1, <2>2, <2>3 DEF StartAsked, t
<1>6. UNCHANGED <<nextQuietId, loaded, opened, cursor, rows, told>>
  BY DEF StartAsked
<1> QED
  BY <1>3, <1>4, <1>5, <1>6 DEF TypeOK, QueuesType

LEMMA StartQuietType ==
  ASSUME TypeOK, NEW source \in Sources, NEW rank \in QuietRanks, NEW n \in Nodes,
         StartQuiet(source, rank, n)
  PROVE  TypeOK'
<1> DEFINE w == waiting["fast"]
           t == NewQuiet(source, rank, n)
           replaced == {w[i].id : i \in EntryOf(w, source)}
<1>1. "fast" \in Queues /\ w \in Seq(Task)
  BY DEF TypeOK, Queues
<1>2. t \in Task
  BY NewQuietIsTask DEF StartQuiet
<1>3. nextQuietId' \in 1..(MaxQuiet + 1)
  BY ConstantsAssumption DEF TypeOK, StartQuiet
<1>4. UNCHANGED <<cancel, nextId, loaded, opened, cursor, rows>>
  BY DEF StartQuiet
<1> DEFINE Workers == [Queues -> {"none", "computing", "answered", "produced", "nothing"}]
           Words == [1..MaxQuiet -> SUBSET {"answered", "dropped", "failed"}]
<1>5. QueuesType' /\ worker' \in Workers /\ told' \in Words
  <2>1. PICK kept \in WithoutEntryOf(w, source) :
          \/ /\ \E at \in QuietPlaces(kept, rank) :
                  waiting' = [waiting EXCEPT !["fast"] = InsertAt(kept, at, t)]
             /\ told' = Tell(replaced, "dropped")
             /\ UNCHANGED <<running, worker>>
          \/ /\ waiting' = [waiting EXCEPT !["fast"] = kept]
             /\ told' = Tell(replaced \cup {nextQuietId}, "dropped")
             /\ UNCHANGED <<running, worker>>
          \/ /\ Run("fast", t)
             /\ waiting' = [waiting EXCEPT !["fast"] = kept]
             /\ told' = Tell(replaced, "dropped")
          \/ /\ waiting' = [waiting EXCEPT !["fast"] = kept]
             /\ told' = Tell({nextQuietId}, "failed")
             /\ UNCHANGED <<running, worker>>
    BY DEF StartQuiet
  <2>2. kept \in Seq(Task)
    BY <1>1, <2>1, WithoutEntryProperties
  <2> HIDE DEF t, replaced
  <2>3. told' \in Words
    BY <2>1, TellType
  <2>4. waiting' \in [Queues -> Seq(Task)]
    <3>1. CASE waiting' = [waiting EXCEPT !["fast"] = kept]
      BY <3>1, <2>2 DEF TypeOK
    <3>2. ASSUME NEW at \in QuietPlaces(kept, rank),
                 waiting' = [waiting EXCEPT !["fast"] = InsertAt(kept, at, t)]
          PROVE  waiting' \in [Queues -> Seq(Task)]
      <4>1. at \in 1..(Len(kept) + 1)
        BY DEF QuietPlaces
      <4>2. InsertAt(kept, at, t) \in Seq(Task)
        BY <1>2, <2>2, <4>1, InsertAtProperties
      <4> QED
        BY <3>2, <4>2 DEF TypeOK
    <3> QED
      BY <2>1, <3>1, <3>2
  <2>5. running' \in [Queues -> SUBSET Task] /\ worker' \in Workers
    <3>1. CASE UNCHANGED <<running, worker>>
      BY <3>1 DEF TypeOK
    <3>2. CASE Run("fast", t)
      BY <3>2, <1>1, <1>2 DEF TypeOK, Run
    <3> QED
      BY <2>1, <3>1, <3>2
  <2> QED
    BY <2>3, <2>4, <2>5 DEF QueuesType
<1> QED
  BY <1>3, <1>4, <1>5 DEF TypeOK, QueuesType

LEMMA RemovedType ==
  ASSUME TypeOK, NEW q \in Queues, NEW i \in 1..Len(waiting[q]),
         waiting' = [waiting EXCEPT ![q] = RemoveAt(@, i)]
  PROVE  waiting' \in [Queues -> Seq(Task)]
<1>1. waiting[q] \in Seq(Task)
  BY DEF TypeOK
<1>2. RemoveAt(waiting[q], i) \in Seq(Task)
  BY <1>1, RemoveAtProperties
<1> QED
  BY <1>2 DEF TypeOK

LEMMA CancelWaitingType ==
  ASSUME TypeOK, NEW q \in Queues, NEW i \in 1..Len(waiting[q]), CancelWaiting(q, i)
  PROVE  TypeOK'
<1>1. waiting' \in [Queues -> Seq(Task)]
  BY RemovedType DEF CancelWaiting
<1>2. rows' \in [1..MaxAsked -> Nat]
  <2> DEFINE id == waiting[q][i].id
  <2>1. waiting[q] \in Seq(Task)
    BY DEF TypeOK
  <2>2. waiting[q][i] \in AskedTask
    <3>1. waiting[q][i] \in Task
      BY <2>1, ElementOfSeq
    <3>2. ~waiting[q][i].quiet
      BY DEF CancelWaiting
    <3> QED
      BY <3>1, <3>2 DEF Task, QuietTask
  <2>3. id \in 1..MaxAsked
    BY <2>2 DEF AskedTask
  <2>4. rows' = [rows EXCEPT ![id] = rows[id] + 1]
    BY DEF CancelWaiting
  <2>5. rows \in [1..MaxAsked -> Nat]
    BY DEF TypeOK
  <2> HIDE DEF id
  <2>6. rows[id] + 1 \in Nat
    BY <2>3, <2>5
  <2> QED
    BY <2>4, <2>5, <2>6
<1> QED
  BY <1>1, <1>2 DEF TypeOK, CancelWaiting

LEMMA CancelQuietType ==
  ASSUME TypeOK, NEW q \in Queues, NEW id \in 1..MaxQuiet, CancelQuiet(q, id)
  PROVE  TypeOK'
<1>1. CASE /\ cancel' = [cancel EXCEPT ![q] = TRUE]
           /\ UNCHANGED <<running, waiting, worker, nextId, nextQuietId,
                          loaded, opened, cursor, rows, told>>
  BY <1>1 DEF TypeOK
<1>2. ASSUME NEW i \in 1..Len(waiting[q]),
             waiting' = [waiting EXCEPT ![q] = RemoveAt(@, i)],
             told' = Tell({id}, "dropped"),
             UNCHANGED <<running, cancel, worker, nextId, nextQuietId,
                         loaded, opened, cursor, rows>>
      PROVE  TypeOK'
  <2>1. waiting' \in [Queues -> Seq(Task)]
    BY <1>2, RemovedType
  <2>2. told' \in [1..MaxQuiet -> SUBSET {"answered", "dropped", "failed"}]
    BY <1>2, TellType
  <2> QED
    BY <1>2, <2>1, <2>2 DEF TypeOK
<1> QED
  BY <1>1, <1>2 DEF CancelQuiet

LEMMA WorkerType ==
  ASSUME TypeOK, NEW q \in Queues, WorkerAnswers(q) \/ WorkerDone(q)
  PROVE  TypeOK'
<1>1. CASE WorkerAnswers(q)
  <2>1. PICK t \in running[q] : told' = Tell({t.id}, "answered")
    BY <1>1 DEF WorkerAnswers
  <2>2. told' \in [1..MaxQuiet -> SUBSET {"answered", "dropped", "failed"}]
    BY <2>1, TellType
  <2> QED
    BY <1>1, <2>2 DEF TypeOK, WorkerAnswers
<1>2. CASE WorkerDone(q)
  BY <1>2 DEF TypeOK, WorkerDone
<1> QED
  BY <1>1, <1>2

LEMMA FinishType ==
  ASSUME TypeOK, NEW t, NEW result, Finish(t, result)
  PROVE  /\ cursor' \in [Nodes -> Nat]
         /\ loaded' \subseteq opened'
         /\ opened' \subseteq Nodes
<1>1. CASE /\ t.node \in loaded /\ UNCHANGED <<loaded, opened>>
           /\ cursor' = [cursor EXCEPT ![t.node] = @ + 1]
  BY <1>1 DEF TypeOK
<1>2. CASE /\ UNCHANGED cursor
           /\ \E new \in SUBSET (Nodes \ opened) :
                loaded' = loaded \cup new /\ opened' = opened \cup new
  BY <1>2 DEF TypeOK
<1>3. CASE UNCHANGED <<cursor, loaded, opened>>
  BY <1>3 DEF TypeOK
<1> QED
  BY <1>1, <1>2, <1>3 DEF Finish

(* What a landing leaves in the queues.                                    *)
LEMMA LandQueues ==
  ASSUME TypeOK, NEW q \in Queues, Land(q)
  PROVE  \E t \in running[q], k \in 1..(Len(waiting[q]) + 1) :
           /\ Finish(t, worker[q])
           /\ k <= Len(waiting[q]) => waiting[q][k] \in Task
           /\ running' = [running EXCEPT ![q] =
                            IF k <= Len(waiting[q]) THEN {waiting[q][k]} ELSE {}]
           /\ waiting' = [waiting EXCEPT ![q] =
                            SubSeq(waiting[q], k + 1, Len(waiting[q]))]
<1>1. PICK t \in running[q], k \in NextToStart(q) :
        /\ Finish(t, worker[q])
        /\ running' = [running EXCEPT ![q] =
                         IF k <= Len(waiting[q]) THEN {waiting[q][k]} ELSE {}]
        /\ waiting' = [waiting EXCEPT ![q] =
                         SubSeq(waiting[q], k + 1, Len(waiting[q]))]
  BY Zenon DEF Land
<1>2. k \in 1..(Len(waiting[q]) + 1)
  BY DEF NextToStart
<1>3. waiting[q] \in Seq(Task)
  BY DEF TypeOK
<1>4. k <= Len(waiting[q]) => waiting[q][k] \in Task
  BY <1>2, <1>3, ElementOfSeq
<1> QED
  BY <1>1, <1>2, <1>4

LEMMA LandTells ==
  ASSUME TypeOK, NEW q \in Queues, Land(q)
  PROVE  told' \in [1..MaxQuiet -> SUBSET {"answered", "dropped", "failed"}]
<1>1. PICK dropped, failed : told' = TellBoth(dropped, failed)
  BY Zenon DEF Land
<1> QED
  BY <1>1 DEF TypeOK, TellBoth

LEMMA LandType ==
  ASSUME TypeOK, NEW q \in Queues, Land(q)
  PROVE  TypeOK'
<1>1. PICK t \in running[q], k \in 1..(Len(waiting[q]) + 1) :
        /\ Finish(t, worker[q])
        /\ k <= Len(waiting[q]) => waiting[q][k] \in Task
        /\ running' = [running EXCEPT ![q] =
                         IF k <= Len(waiting[q]) THEN {waiting[q][k]} ELSE {}]
        /\ waiting' = [waiting EXCEPT ![q] =
                         SubSeq(waiting[q], k + 1, Len(waiting[q]))]
  BY LandQueues
<1>2. cursor' \in [Nodes -> Nat] /\ loaded' \subseteq opened' /\ opened' \subseteq Nodes
  BY <1>1, FinishType
<1>3. running' \in [Queues -> SUBSET Task]
  BY <1>1 DEF TypeOK
<1>4. waiting' \in [Queues -> Seq(Task)]
  <2>1. SubSeq(waiting[q], k + 1, Len(waiting[q])) \in Seq(Task)
    BY SliceProperties DEF TypeOK
  <2> QED
    BY <1>1, <2>1 DEF TypeOK
<1>5. /\ \E state \in {"computing", "none"} : worker' = [worker EXCEPT ![q] = state]
      /\ cancel' = [cancel EXCEPT ![q] = FALSE]
      /\ UNCHANGED <<nextId, nextQuietId>>
  BY Zenon DEF Land
<1>6. PICK ended : rows' = [i \in 1..MaxAsked |->
                             IF i \in ended THEN rows[i] + 1 ELSE rows[i]]
  BY Zenon DEF Land
<1>7. cancel' \in [Queues -> BOOLEAN]
  BY <1>5 DEF TypeOK
<1>8. worker' \in [Queues -> {"none", "computing", "answered", "produced", "nothing"}]
  BY <1>5 DEF TypeOK
<1>9. rows' \in [1..MaxAsked -> Nat]
  BY <1>6 DEF TypeOK
<1>10. told' \in [1..MaxQuiet -> SUBSET {"answered", "dropped", "failed"}]
  BY LandTells
<1> QED
  BY <1>2, <1>3, <1>4, <1>5, <1>7, <1>8, <1>9, <1>10 DEF TypeOK

LEMMA TypeStep == TypeOK /\ [Next]_vars => TypeOK'
<1> SUFFICES ASSUME TypeOK, [Next]_vars PROVE TypeOK'
  OBVIOUS
<1>1. ASSUME NEW op \in AskedOps, NEW n \in Nodes \cup {NoNode}, StartAsked(op, n)
      PROVE  TypeOK'
  BY <1>1, StartAskedType
<1>2. ASSUME NEW s \in Sources, NEW r \in QuietRanks, NEW n \in Nodes, StartQuiet(s, r, n)
      PROVE  TypeOK'
  BY <1>2, StartQuietType
<1>3. ASSUME NEW q \in Queues, CancelRunning(q) PROVE TypeOK'
  BY <1>3 DEF TypeOK, CancelRunning
<1>4. ASSUME NEW q \in Queues, NEW i \in 1..Len(waiting[q]), CancelWaiting(q, i)
      PROVE  TypeOK'
  BY <1>4, CancelWaitingType
<1>5. ASSUME NEW q \in Queues, NEW id \in 1..MaxQuiet, CancelQuiet(q, id) PROVE TypeOK'
  BY <1>5, CancelQuietType
<1>6. ASSUME NEW q \in Queues, WorkerAnswers(q) \/ WorkerDone(q) PROVE TypeOK'
  BY <1>6, WorkerType
<1>7. ASSUME NEW q \in Queues, Land(q) PROVE TypeOK'
  BY <1>7, LandType
<1>8. ASSUME NEW n \in Nodes, MoveCursor(n) PROVE TypeOK'
  BY <1>8 DEF TypeOK, MoveCursor
<1>9. ASSUME NEW n \in Nodes, CloseNode(n) PROVE TypeOK'
  BY <1>9 DEF TypeOK, CloseNode
<1>10. CASE CloseAll
  BY <1>10 DEF TypeOK, CloseAll
<1>11. CASE UNCHANGED vars
  BY <1>11 DEF TypeOK, vars
<1> QED
  BY <1>1, <1>2, <1>3, <1>4, <1>5, <1>6, <1>7, <1>8, <1>9, <1>10, <1>11 DEF Next

(* Every variable of the queues keeps its type: every task held is one the *)
(* code can make, and every id it hands out is inside its bound.           *)
THEOREM AlwaysTypeOK == Spec => []TypeOK
  BY TypeInit, TypeStep, PTL DEF Spec

-----------------------------------------------------------------------------
(* Places.                                                                 *)

HeldIsPlaced ==
  \A t : t \in Held <=> \E q \in Queues : \E i \in Places(q) : t \in At(q, i)

LEMMA PlacesOfHeld == TypeOK => HeldIsPlaced
<1> SUFFICES ASSUME TypeOK, NEW q \in Queues, NEW t
             PROVE  t \in HeldIn(q) <=> \E i \in Places(q) : t \in At(q, i)
  BY DEF HeldIsPlaced, Held, Queues
<1>1. waiting[q] \in Seq(Task) /\ DOMAIN waiting[q] = 1..Len(waiting[q])
  BY DEF TypeOK
<1>2. Places(q) = {0} \cup DOMAIN waiting[q] /\ 0 \notin DOMAIN waiting[q]
  BY <1>1 DEF Places
<1>3. At(q, 0) = running[q] /\ \A i \in DOMAIN waiting[q] : At(q, i) = {waiting[q][i]}
  BY <1>2 DEF At
<1> QED
  BY <1>2, <1>3 DEF HeldIn, Range

LEMMA PlacesOfHeldNext == TypeOK' => HeldIsPlaced'
  BY PlacesOfHeld, PTL

(* `from` says where each place had its task before the step; only the     *)
(* place <<q0, i0>> may hold a task `t0` that was nowhere.                 *)
Carries(from, q0, i0, t0) ==
  /\ \A q \in Queues : \A i, j \in Places(q)' :
       <<q, i>> # <<q0, i0>> /\ <<q, j>> # <<q0, i0>> /\ from[q][i] = from[q][j] => i = j
  /\ \A q \in Queues : \A i \in Places(q)' : \A t \in At(q, i)' :
       \/ <<q, i, t>> = <<q0, i0, t0>>
       \/ <<q, i>> # <<q0, i0>> /\ from[q][i] \in Places(q) /\ t \in At(q, from[q][i])

-----------------------------------------------------------------------------
(* Steps that change one queue.                                            *)

NoPlace == -1

NoTask == [quiet |-> FALSE, id |-> 0, op |-> "none", node |-> NoNode, base |-> 0]

Stay == [i \in Nat |-> i]

From(q0, f) == [q \in Queues |-> IF q = q0 THEN f ELSE Stay]

LEMMA OneQueueCarries ==
  ASSUME TypeOK, NEW q0 \in Queues, NEW f \in [Nat -> Nat], NEW i0, NEW t0,
         \A p \in Queues : p # q0 => running'[p] = running[p] /\ waiting'[p] = waiting[p],
         \A i \in Places(q0)' : \A t \in At(q0, i)' :
           \/ i = i0 /\ t = t0
           \/ i # i0 /\ f[i] \in Places(q0) /\ t \in At(q0, f[i]),
         \A i, j \in Places(q0)' : i # i0 /\ j # i0 /\ f[i] = f[j] => i = j
  PROVE  Carries(From(q0, f), q0, i0, t0)
<1>1. ASSUME NEW p \in Queues, p # q0
      PROVE  /\ Places(p)' = Places(p) /\ Places(p) \subseteq Nat
             /\ \A i \in Places(p) : At(p, i)' = At(p, i)
             /\ From(q0, f)[p] = Stay
  <2>1. Len(waiting[p]) \in Nat
    BY DEF TypeOK
  <2>2. running'[p] = running[p] /\ waiting'[p] = waiting[p]
    BY <1>1
  <2>3. Places(p)' = Places(p) /\ Places(p) \subseteq Nat
    BY <2>1, <2>2 DEF Places
  <2>4. \A i : At(p, i)' = At(p, i)
    BY <2>2 DEF At
  <2>5. From(q0, f)[p] = Stay
    BY <1>1 DEF From
  <2> QED
    BY <2>3, <2>4, <2>5
<1>2. From(q0, f)[q0] = f
  BY DEF From
<1>3. ASSUME NEW q \in Queues, NEW i \in Places(q)', NEW j \in Places(q)',
             <<q, i>> # <<q0, i0>>, <<q, j>> # <<q0, i0>>,
             From(q0, f)[q][i] = From(q0, f)[q][j]
      PROVE  i = j
  <2>1. CASE q = q0
    BY <1>2, <1>3, <2>1
  <2>2. CASE q # q0
    <3>1. i \in Nat /\ j \in Nat /\ From(q0, f)[q] = Stay
      BY <1>1, <1>3, <2>2
    <3> QED
      BY <1>3, <3>1 DEF Stay
  <2> QED
    BY <2>1, <2>2
<1>4. ASSUME NEW q \in Queues, NEW i \in Places(q)', NEW t \in At(q, i)'
      PROVE  \/ <<q, i, t>> = <<q0, i0, t0>>
             \/ /\ <<q, i>> # <<q0, i0>>
                /\ From(q0, f)[q][i] \in Places(q)
                /\ t \in At(q, From(q0, f)[q][i])
  <2>1. CASE q = q0
    BY <1>2, <1>4, <2>1
  <2>2. CASE q # q0
    <3>1. i \in Nat /\ i \in Places(q) /\ t \in At(q, i) /\ From(q0, f)[q] = Stay
      BY <1>1, <1>4, <2>2
    <3>2. From(q0, f)[q][i] = i
      BY <3>1 DEF Stay
    <3> QED
      BY <2>2, <3>1, <3>2
  <2> QED
    BY <2>1, <2>2
<1> QED
  BY <1>3, <1>4 DEF Carries

LEMMA SameQueuesCarry ==
  ASSUME TypeOK, UNCHANGED <<running, waiting>>
  PROVE  Carries(From("slow", Stay), "slow", NoPlace, NoTask)
<1>1. waiting["slow"] \in Seq(Task) /\ "slow" \in Queues
  BY DEF TypeOK, Queues
<1>2. Places("slow")' = Places("slow") /\ Places("slow") \subseteq Nat
  BY <1>1 DEF Places
<1>3. \A i \in Places("slow") : i # NoPlace /\ Stay[i] = i /\ At("slow", i)' = At("slow", i)
  BY <1>2 DEF Stay, NoPlace, At
<1>4. Stay \in [Nat -> Nat]
  BY DEF Stay
<1>5. \A p \in Queues : running'[p] = running[p] /\ waiting'[p] = waiting[p]
  OBVIOUS
<1>6. \A i \in Places("slow")' : \A t \in At("slow", i)' :
         i # NoPlace /\ Stay[i] \in Places("slow") /\ t \in At("slow", Stay[i])
  BY <1>2, <1>3
<1>7. \A i, j \in Places("slow")' : Stay[i] = Stay[j] => i = j
  BY <1>2, <1>3
<1> HIDE DEF Stay
<1> QED
  BY <1>1, <1>4, <1>5, <1>6, <1>7, OneQueueCarries

(* A task taken out of the list.                                           *)
Without(at) == [i \in Nat |-> IF i < at THEN i ELSE i + 1]

LEMMA RemovalCarries ==
  ASSUME TypeOK, NEW q \in Queues, NEW at \in 1..Len(waiting[q]), UNCHANGED running,
         waiting' = [waiting EXCEPT ![q] = RemoveAt(@, at)]
  PROVE  Carries(From(q, Without(at)), q, NoPlace, NoTask)
<1> DEFINE w == waiting[q]
<1>1. w \in Seq(Task) /\ waiting'[q] = RemoveAt(w, at)
  BY DEF TypeOK
<1>2. /\ RemoveAt(w, at) \in Seq(Task)
      /\ \A i \in DOMAIN RemoveAt(w, at) :
           Without(at)[i] \in 1..Len(w) /\ RemoveAt(w, at)[i] = w[Without(at)[i]]
  <2>1. DOMAIN w = 1..Len(w)
    BY <1>1
  <2>2. RemoveAt(w, at) \in Seq(Task)
    BY <1>1, RemoveAtProperties
  <2>3. ASSUME NEW i \in DOMAIN RemoveAt(w, at)
        PROVE  Without(at)[i] \in 1..Len(w) /\ RemoveAt(w, at)[i] = w[Without(at)[i]]
    <3>1. Without(at)[i] = IF i < at THEN i ELSE i + 1
      BY <2>2 DEF Without
    <3> QED
      BY <1>1, <2>1, <3>1, RemoveAtProperties
  <2> QED
    BY <2>2, <2>3
<1>3. Without(at) \in [Nat -> Nat] /\ \A i, j \in Nat : Without(at)[i] = Without(at)[j] => i = j
  BY DEF Without
<1>4. Places(q)' = {0} \cup DOMAIN RemoveAt(w, at) /\ Places(q)' \subseteq Nat
  BY <1>1, <1>2 DEF Places
<1>5. At(q, 0)' = At(q, 0) /\ Without(at)[0] = 0 /\ 0 \in Places(q)
  BY <1>1 DEF At, Without, Places
<1>6. ASSUME NEW i \in DOMAIN RemoveAt(w, at)
      PROVE  At(q, i)' = At(q, Without(at)[i]) /\ Without(at)[i] \in Places(q)
  <2>1. Without(at)[i] \in 1..Len(w) /\ RemoveAt(w, at)[i] = w[Without(at)[i]]
    BY <1>2
  <2>2. i # 0 /\ At(q, i)' = {RemoveAt(w, at)[i]}
    BY <1>1, <1>2 DEF At
  <2>3. Without(at)[i] \in Places(q) /\ At(q, Without(at)[i]) = {w[Without(at)[i]]}
    BY <1>1, <2>1 DEF At, Places
  <2> QED
    BY <2>1, <2>2, <2>3
<1>7. \A p \in Queues : p # q => running'[p] = running[p] /\ waiting'[p] = waiting[p]
  BY DEF TypeOK
<1>8. \A i \in Places(q)' : i # NoPlace
  BY <1>4 DEF NoPlace
<1>9. \A i \in Places(q)' : \A t \in At(q, i)' :
         i # NoPlace /\ Without(at)[i] \in Places(q) /\ t \in At(q, Without(at)[i])
  BY <1>4, <1>5, <1>6, <1>8
<1>10. \A i, j \in Places(q)' : Without(at)[i] = Without(at)[j] => i = j
  BY <1>3, <1>4
<1> QED
  BY <1>3, <1>7, <1>9, <1>10, OneQueueCarries

(* A landing: the next task starts from its place k, and the list behind   *)
(* it moves up.                                                            *)
UpBy(k) == [i \in Nat |-> i + k]

LEMMA LandingCarries ==
  ASSUME TypeOK, NEW q \in Queues, NEW k \in 1..(Len(waiting[q]) + 1),
         running' = [running EXCEPT ![q] = IF k <= Len(waiting[q]) THEN {waiting[q][k]} ELSE {}],
         waiting' = [waiting EXCEPT ![q] = SubSeq(waiting[q], k + 1, Len(waiting[q]))]
  PROVE  Carries(From(q, UpBy(k)), q, NoPlace, NoTask)
<1> DEFINE w == waiting[q]
           rest == SubSeq(w, k + 1, Len(w))
<1>1. w \in Seq(Task) /\ Len(w) \in Nat /\ DOMAIN w = 1..Len(w) /\ waiting'[q] = rest
  BY DEF TypeOK
<1>2. rest \in Seq(Task) /\ \A i \in DOMAIN rest : i + k \in DOMAIN w /\ rest[i] = w[i + k]
  BY <1>1, SliceProperties
<1>3. UpBy(k) \in [Nat -> Nat] /\ \A i \in Nat : UpBy(k)[i] = i + k
  BY <1>1 DEF UpBy
<1> HIDE DEF rest
<1>4. Places(q)' = {0} \cup DOMAIN rest /\ Places(q)' \subseteq Nat
  BY <1>1, <1>2 DEF Places
<1>5. ASSUME NEW t \in At(q, 0)'
      PROVE  UpBy(k)[0] \in Places(q) /\ t \in At(q, UpBy(k)[0])
  <2>1. At(q, 0)' = IF k <= Len(w) THEN {w[k]} ELSE {}
    BY DEF At, TypeOK
  <2>2. UpBy(k)[0] = k /\ k # 0 /\ k \in Nat
    BY <1>1, <1>3
  <2>3. k <= Len(w) /\ t = w[k]
    BY <1>5, <2>1
  <2>4. k \in Places(q) /\ At(q, k) = {w[k]}
    BY <1>1, <2>2, <2>3 DEF At, Places
  <2> QED
    BY <2>2, <2>3, <2>4
<1>6. ASSUME NEW i \in DOMAIN rest
      PROVE  UpBy(k)[i] \in Places(q) /\ At(q, i)' = At(q, UpBy(k)[i])
  <2>1. i \in Nat \ {0} /\ At(q, i)' = {rest[i]}
    BY <1>1, <1>2 DEF At
  <2>2. i + k \in 1..Len(w) /\ rest[i] = w[i + k] /\ UpBy(k)[i] = i + k
    BY <1>1, <1>2, <1>3, <2>1
  <2>3. i + k \in Places(q) /\ At(q, i + k) = {w[i + k]}
    BY <1>1, <2>2 DEF At, Places
  <2> QED
    BY <2>1, <2>2, <2>3
<1>7. \A p \in Queues : p # q => running'[p] = running[p] /\ waiting'[p] = waiting[p]
  BY DEF TypeOK
<1>8. \A i \in Places(q)' : i # NoPlace
  BY <1>4 DEF NoPlace
<1>9. ASSUME NEW i \in Places(q)', NEW j \in Places(q)', UpBy(k)[i] = UpBy(k)[j]
      PROVE  i = j
  <2>1. i \in Nat /\ j \in Nat /\ k \in Nat
    BY <1>1, <1>4
  <2>2. i + k = j + k
    BY <1>3, <1>9, <2>1
  <2> QED
    BY <2>1, <2>2
<1>10. \A i \in Places(q)' : \A t \in At(q, i)' :
          i # NoPlace /\ UpBy(k)[i] \in Places(q) /\ t \in At(q, UpBy(k)[i])
  BY <1>4, <1>5, <1>6, <1>8
<1> QED
  BY <1>3, <1>7, <1>9, <1>10, OneQueueCarries

(* `f` says where each entry of the list `kept` was in the list `w`.       *)
Follows(f, w, kept) ==
  /\ f \in [Nat -> Nat]
  /\ f[0] = 0
  /\ \A i, j \in Nat : f[i] = f[j] => i = j
  /\ \A i \in DOMAIN kept : f[i] \in 1..Len(w) /\ kept[i] = w[f[i]]

LEMMA ListFollowsItself ==
  ASSUME NEW w \in Seq(Task)
  PROVE  Follows(Stay, w, w)
<1>1. DOMAIN w = 1..Len(w) /\ Len(w) \in Nat
  OBVIOUS
<1>2. \A i \in DOMAIN w : Stay[i] = i
  BY <1>1 DEF Stay
<1>3. Stay \in [Nat -> Nat] /\ Stay[0] = 0 /\ \A i, j \in Nat : Stay[i] = Stay[j] => i = j
  BY DEF Stay
<1> QED
  BY <1>1, <1>2, <1>3 DEF Follows

(* A source's waiting entry taken out: where the entries that stay were.   *)
LEMMA KeptFollows ==
  ASSUME NEW w \in Seq(Task), NEW source, NEW kept \in WithoutEntryOf(w, source)
  PROVE  \E f : Follows(f, w, kept)
<1>1. CASE EntryOf(w, source) = {}
  <2>1. kept = w
    BY <1>1 DEF WithoutEntryOf
  <2> QED
    BY <2>1, ListFollowsItself
<1>2. CASE EntryOf(w, source) # {}
  <2>1. PICK at \in EntryOf(w, source) : kept = RemoveAt(w, at)
    BY <1>2 DEF WithoutEntryOf
  <2>2. at \in 1..Len(w) /\ DOMAIN w = 1..Len(w)
    BY <2>1 DEF EntryOf
  <2>3. /\ Without(at) \in [Nat -> Nat] /\ Without(at)[0] = 0
        /\ \A i, j \in Nat : Without(at)[i] = Without(at)[j] => i = j
    BY <2>2 DEF Without
  <2>4. kept \in Seq(Task)
    BY <2>1, <2>2, RemoveAtProperties
  <2>5. ASSUME NEW i \in DOMAIN kept
        PROVE  Without(at)[i] \in 1..Len(w) /\ kept[i] = w[Without(at)[i]]
    <3>1. Without(at)[i] = IF i < at THEN i ELSE i + 1
      BY <2>4 DEF Without
    <3> QED
      BY <2>1, <2>2, <3>1, RemoveAtProperties
  <2> QED
    BY <2>3, <2>5 DEF Follows
<1> QED
  BY <1>1, <1>2

LEMMA PlaceOfWaiting ==
  ASSUME TypeOK, NEW q \in Queues
  PROVE  /\ 0 \in Places(q) /\ At(q, 0) = running[q]
         /\ \A i \in 1..Len(waiting[q]) : i \in Places(q) /\ At(q, i) = {waiting[q][i]}
<1>1. Len(waiting[q]) \in Nat
  BY DEF TypeOK
<1> QED
  BY <1>1 DEF Places, At

LEMMA PlacesNext ==
  ASSUME NEW q \in Queues, NEW s \in Seq(Task), waiting'[q] = s
  PROVE  /\ Places(q)' = {0} \cup DOMAIN s
         /\ At(q, 0)' = running'[q]
         /\ \A i \in DOMAIN s : i \in Nat /\ i # 0 /\ At(q, i)' = {s[i]}
<1>1. Len(s) \in Nat /\ DOMAIN s = 1..Len(s)
  OBVIOUS
<1>2. Places(q)' = {0} \cup DOMAIN s
  BY <1>1 DEF Places
<1>3. At(q, 0)' = running'[q]
  BY DEF At
<1>4. \A i \in DOMAIN s : i \in Nat /\ i # 0
  BY <1>1
<1>5. \A i \in DOMAIN s : At(q, i)' = {s[i]}
  BY <1>4 DEF At
<1> QED
  BY <1>2, <1>3, <1>4, <1>5

(* A source's waiting entry taken out, and nothing put in.                 *)
LEMMA DropCarries ==
  ASSUME TypeOK, NEW q \in Queues, NEW kept \in Seq(Task), NEW f,
         Follows(f, waiting[q], kept),
         UNCHANGED running, waiting' = [waiting EXCEPT ![q] = kept]
  PROVE  Carries(From(q, f), q, NoPlace, NoTask)
<1>1. waiting'[q] = kept
  BY DEF TypeOK
<1>2. /\ Places(q)' = {0} \cup DOMAIN kept
      /\ At(q, 0)' = running[q]
      /\ \A i \in DOMAIN kept : i \in Nat /\ i # 0 /\ At(q, i)' = {kept[i]}
  BY <1>1, PlacesNext
<1>3. f \in [Nat -> Nat] /\ f[0] = 0 /\ \A i, j \in Nat : f[i] = f[j] => i = j
  BY DEF Follows
<1>4. \A i \in Places(q)' : \A t \in At(q, i)' :
        i # NoPlace /\ f[i] \in Places(q) /\ t \in At(q, f[i])
  <2>1. \A i \in DOMAIN kept : f[i] \in Places(q) /\ At(q, f[i]) = {kept[i]}
    <3>1. \A i \in DOMAIN kept : f[i] \in 1..Len(waiting[q]) /\ kept[i] = waiting[q][f[i]]
      BY DEF Follows
    <3> QED
      BY <3>1, PlaceOfWaiting
  <2>2. f[0] \in Places(q) /\ At(q, f[0]) = running[q]
    BY <1>3, PlaceOfWaiting
  <2> QED
    BY <1>2, <2>1, <2>2 DEF NoPlace
<1>5. \A i, j \in Places(q)' : f[i] = f[j] => i = j
  BY <1>2, <1>3
<1>6. \A p \in Queues : p # q => running'[p] = running[p] /\ waiting'[p] = waiting[p]
  BY DEF TypeOK
<1> QED
  BY <1>3, <1>4, <1>5, <1>6, OneQueueCarries

(* A new task started at once.                                             *)
LEMMA StartCarries ==
  ASSUME TypeOK, NEW q \in Queues, NEW kept \in Seq(Task), NEW e, NEW f,
         Follows(f, waiting[q], kept),
         running' = [running EXCEPT ![q] = {e}], waiting' = [waiting EXCEPT ![q] = kept]
  PROVE  Carries(From(q, f), q, 0, e)
<1>1. waiting'[q] = kept /\ running'[q] = {e}
  BY DEF TypeOK
<1>2. /\ Places(q)' = {0} \cup DOMAIN kept
      /\ At(q, 0)' = {e}
      /\ \A i \in DOMAIN kept : i \in Nat /\ i # 0 /\ At(q, i)' = {kept[i]}
  BY <1>1, PlacesNext
<1>3. f \in [Nat -> Nat] /\ \A i, j \in Nat : f[i] = f[j] => i = j
  BY DEF Follows
<1>4. \A i \in Places(q)' : \A t \in At(q, i)' :
        \/ i = 0 /\ t = e
        \/ i # 0 /\ f[i] \in Places(q) /\ t \in At(q, f[i])
  <2>1. \A i \in DOMAIN kept : f[i] \in Places(q) /\ At(q, f[i]) = {kept[i]}
    <3>1. \A i \in DOMAIN kept : f[i] \in 1..Len(waiting[q]) /\ kept[i] = waiting[q][f[i]]
      BY DEF Follows
    <3> QED
      BY <3>1, PlaceOfWaiting
  <2> QED
    BY <1>2, <2>1
<1>5. \A i, j \in Places(q)' : i # 0 /\ j # 0 /\ f[i] = f[j] => i = j
  BY <1>2, <1>3
<1>6. \A p \in Queues : p # q => running'[p] = running[p] /\ waiting'[p] = waiting[p]
  BY DEF TypeOK
<1> QED
  BY <1>3, <1>4, <1>5, <1>6, OneQueueCarries

(* A new task queued at `at`.                                              *)
Back(at, i) == IF i < at THEN i ELSE i - 1

Inserted(f, at) == [i \in Nat |-> IF i = at THEN 0 ELSE f[Back(at, i)]]

LEMMA BackProperties ==
  ASSUME NEW at \in Nat, at # 0
  PROVE  /\ \A i \in Nat : i # at => Back(at, i) \in Nat
         /\ Back(at, 0) = 0
         /\ \A i, j \in Nat : i # at /\ j # at /\ Back(at, i) = Back(at, j) => i = j
  BY DEF Back

LEMMA InsertionCarries ==
  ASSUME TypeOK, NEW q \in Queues, NEW kept \in Seq(Task), NEW at \in 1..(Len(kept) + 1),
         NEW e \in Task, NEW f, Follows(f, waiting[q], kept),
         UNCHANGED running, waiting' = [waiting EXCEPT ![q] = InsertAt(kept, at, e)]
  PROVE  Carries(From(q, Inserted(f, at)), q, at, e)
<1> DEFINE new == InsertAt(kept, at, e)
           g == Inserted(f, at)
<1>1. waiting'[q] = new
  BY DEF TypeOK
<1>2. at \in Nat /\ at # 0
  OBVIOUS
<1>3. /\ new \in Seq(Task)
      /\ \A i \in DOMAIN new :
           IF i = at THEN new[i] = e
           ELSE Back(at, i) \in DOMAIN kept /\ new[i] = kept[Back(at, i)]
  BY InsertAtProperties DEF Back
<1>4. f \in [Nat -> Nat] /\ f[0] = 0 /\ \A i, j \in Nat : f[i] = f[j] => i = j
  BY DEF Follows
<1>5. g \in [Nat -> Nat] /\ \A i \in Nat : i # at => g[i] = f[Back(at, i)]
  BY <1>2, <1>4, BackProperties DEF Inserted
<1>6. g[0] = 0
  BY <1>2, <1>4, <1>5, BackProperties
<1> HIDE DEF new, g
<1>7. /\ Places(q)' = {0} \cup DOMAIN new
      /\ At(q, 0)' = running[q]
      /\ \A i \in DOMAIN new : i \in Nat /\ i # 0 /\ At(q, i)' = {new[i]}
  BY <1>1, <1>3, PlacesNext
<1>8. ASSUME NEW i \in DOMAIN new, i # at
      PROVE  g[i] \in Places(q) /\ At(q, i)' = At(q, g[i])
  <2>1. Back(at, i) \in DOMAIN kept /\ new[i] = kept[Back(at, i)]
    BY <1>3, <1>8
  <2>2. g[i] = f[Back(at, i)]
    BY <1>5, <1>7, <1>8
  <2>3. f[Back(at, i)] \in Places(q) /\ At(q, f[Back(at, i)]) = {kept[Back(at, i)]}
    <3> DEFINE j == Back(at, i)
    <3>1. f[j] \in 1..Len(waiting[q]) /\ kept[j] = waiting[q][f[j]]
      BY <2>1 DEF Follows
    <3> QED
      BY <3>1, PlaceOfWaiting
  <2> QED
    BY <1>7, <2>1, <2>2, <2>3
<1>9. ASSUME NEW i \in Places(q)', NEW t \in At(q, i)'
      PROVE  \/ i = at /\ t = e
             \/ i # at /\ g[i] \in Places(q) /\ t \in At(q, g[i])
  <2>1. CASE i = 0
    BY <1>2, <1>6, <1>7, <1>9, <2>1, PlaceOfWaiting
  <2>2. CASE i \in DOMAIN new /\ i = at
    BY <1>3, <1>7, <1>9, <2>2
  <2>3. CASE i \in DOMAIN new /\ i # at
    BY <1>8, <1>9, <2>3
  <2> QED
    BY <1>7, <2>1, <2>2, <2>3
<1>10. ASSUME NEW i \in Places(q)', NEW j \in Places(q)', i # at, j # at, g[i] = g[j]
       PROVE  i = j
  <2>1. i \in Nat /\ j \in Nat
    BY <1>7
  <2>2. Back(at, i) \in Nat /\ Back(at, j) \in Nat
    BY <1>2, <1>10, <2>1, BackProperties
  <2>3. f[Back(at, i)] = f[Back(at, j)]
    BY <1>5, <1>10, <2>1
  <2>4. Back(at, i) = Back(at, j)
    BY <1>4, <2>2, <2>3
  <2> QED
    BY <1>2, <1>10, <2>1, <2>4, BackProperties
<1>11. \A p \in Queues : p # q => running'[p] = running[p] /\ waiting'[p] = waiting[p]
  BY DEF TypeOK
<1>12. Carries(From(q, g), q, at, e)
  BY <1>5, <1>9, <1>10, <1>11, OneQueueCarries
<1> QED
  BY <1>12 DEF g

-----------------------------------------------------------------------------
(* The order of a waiting list.                                            *)

(* What QueueOrder asks of two entries, the first ahead of the second.     *)
Ahead(t, u) ==
  /\ t.rank <= u.rank
  /\ ~t.quiet /\ ~u.quiet => t.id < u.id
  /\ t.quiet => t.op # u.op

InOrder(w) == \A i, j \in 1..Len(w) : i < j => Ahead(w[i], w[j])

LEMMA QueueOrderIsInOrder ==
  QueueOrder <=> \A q \in Queues : /\ waiting[q] # <<>> => running[q] # {}
                                   /\ InOrder(waiting[q])
  BY DEF QueueOrder, InOrder, Ahead

(* Asked tasks have rank 0 and quiet ones a later one; no operation is     *)
(* somebody's and a quiet source's.                                        *)
LEMMA TaskRanks ==
  ASSUME NEW t \in Task
  PROVE  /\ t.rank \in Nat /\ t.id \in Nat \ {0}
         /\ t.quiet \in BOOLEAN
         /\ t.quiet <=> t.rank # 0
         /\ t.quiet <=> t.op \in AllSources
         /\ t.quiet => ~Locks(t.op) /\ t.id \in 1..MaxQuiet
         /\ ~t.quiet => ~WaitsForItsNode(t.op) /\ t.id \in 1..MaxAsked
<1>1. CASE t \in AskedTask
  <2>1. t.quiet = FALSE /\ t.rank = 0 /\ t.op \in AskedOps /\ t.id \in 1..MaxAsked
    BY <1>1 DEF AskedTask
  <2>2. t.op \notin AllSources /\ ~WaitsForItsNode(t.op)
    BY <2>1 DEF AskedOps, AllSources, WaitsForItsNode
  <2>3. t.id \in Nat \ {0} /\ t.rank \in Nat
    BY <2>1, ConstantsAssumption
  <2> QED
    BY <2>1, <2>2, <2>3, Zenon
<1>2. CASE t \in QuietTask
  <2>1. /\ t.quiet = TRUE /\ t.rank \in 1..6 /\ t.op \in AllSources
        /\ t.id \in 1..MaxQuiet
    BY <1>2 DEF QuietTask, QuietRanks
  <2>2. ~Locks(t.op)
    BY <2>1 DEF AllSources, Locks
  <2>3. t.id \in Nat \ {0} /\ t.rank \in Nat \ {0}
    BY <2>1, ConstantsAssumption
  <2> QED
    BY <2>1, <2>2, <2>3
<1> QED
  BY <1>1, <1>2 DEF Task

(* A list whose entries were in that order in a list in order.             *)
LEMMA KeepsOrder ==
  ASSUME NEW w \in Seq(Task), InOrder(w), NEW s \in Seq(Task), NEW f,
         \A i \in DOMAIN s : f[i] \in 1..Len(w) /\ s[i] = w[f[i]],
         \A i, j \in DOMAIN s : i < j => f[i] < f[j]
  PROVE  InOrder(s)
<1>1. DOMAIN s = 1..Len(s)
  OBVIOUS
<1> QED
  BY <1>1 DEF InOrder

LEMMA RemovalKeepsOrder ==
  ASSUME NEW w \in Seq(Task), InOrder(w), NEW at \in 1..Len(w)
  PROVE  InOrder(RemoveAt(w, at))
<1>1. RemoveAt(w, at) \in Seq(Task) /\ DOMAIN w = 1..Len(w)
  BY RemoveAtProperties
<1> DEFINE s == RemoveAt(w, at)
           f == [i \in DOMAIN s |-> IF i < at THEN i ELSE i + 1]
<1>2. \A i \in DOMAIN s : f[i] \in 1..Len(w) /\ s[i] = w[f[i]]
  BY <1>1, RemoveAtProperties
<1>3. DOMAIN s = 1..Len(s) /\ Len(s) \in Nat
  BY <1>1
<1>4. \A i, j \in DOMAIN s : i < j => f[i] < f[j]
  BY <1>3
<1> HIDE DEF s, f
<1>5. s \in Seq(Task)
  BY <1>1 DEF s
<1>6. InOrder(s)
  BY <1>2, <1>4, <1>5, KeepsOrder
<1> QED
  BY <1>6 DEF s

LEMMA SliceKeepsOrder ==
  ASSUME NEW w \in Seq(Task), InOrder(w), NEW k \in Nat
  PROVE  InOrder(SubSeq(w, k + 1, Len(w)))
<1> DEFINE s == SubSeq(w, k + 1, Len(w))
           f == [i \in DOMAIN s |-> i + k]
<1>1. s \in Seq(Task) /\ DOMAIN w = 1..Len(w)
  BY SliceProperties
<1>2. \A i \in DOMAIN s : f[i] \in 1..Len(w) /\ s[i] = w[f[i]]
  BY <1>1, SliceProperties
<1> HIDE DEF s
<1>3. DOMAIN s = 1..Len(s) /\ Len(s) \in Nat
  BY <1>1
<1>4. \A i, j \in DOMAIN s : i < j => f[i] < f[j]
  BY <1>3
<1> HIDE DEF s, f
<1>5. InOrder(s)
  BY <1>1, <1>2, <1>4, KeepsOrder
<1> QED
  BY <1>5 DEF s

(* An entry between the ones it belongs behind and the ones it belongs     *)
(* ahead of.                                                               *)
LEMMA InsertionKeepsOrder ==
  ASSUME NEW w \in Seq(Task), InOrder(w), NEW at \in 1..(Len(w) + 1), NEW e \in Task,
         \A i \in 1..Len(w) : IF i < at THEN Ahead(w[i], e) ELSE Ahead(e, w[i])
  PROVE  InOrder(InsertAt(w, at, e))
<1> DEFINE s == InsertAt(w, at, e)
<1>0. DOMAIN w = 1..Len(w)
  OBVIOUS
<1>1. s \in Seq(Task) /\ DOMAIN w = 1..Len(w)
  BY <1>0, InsertAtProperties
<1>2. DOMAIN s = 1..Len(s) /\ Len(s) \in Nat
  BY <1>1
<1>3. \A i \in DOMAIN s :
        IF i = at THEN s[i] = e
        ELSE LET from == IF i < at THEN i ELSE i - 1
             IN from \in DOMAIN w /\ s[i] = w[from]
  BY InsertAtProperties
<1> HIDE DEF s
<1>4. ASSUME NEW i \in 1..Len(s), NEW j \in 1..Len(s), i < j
      PROVE  Ahead(s[i], s[j])
  <2>1. CASE i = at
    BY <1>1, <1>2, <1>3, <1>4, <2>1
  <2>2. CASE j = at
    BY <1>1, <1>2, <1>3, <1>4, <2>2
  <2>3. CASE i # at /\ j # at
    <3> DEFINE k == IF i < at THEN i ELSE i - 1
               l == IF j < at THEN j ELSE j - 1
    <3>1. k \in 1..Len(w) /\ s[i] = w[k] /\ l \in 1..Len(w) /\ s[j] = w[l]
      BY <1>1, <1>2, <1>3, <2>3
    <3>2. k < l
      BY <1>4, <2>3
    <3> QED
      BY <3>1, <3>2 DEF InOrder
  <2> QED
    BY <2>1, <2>2, <2>3
<1>5. InOrder(s)
  BY <1>4 DEF InOrder
<1> QED
  BY <1>5 DEF s

(* An asked task goes behind the asked ones, ahead of the quiet ones.      *)
LEMMA AskedGoesInOrder ==
  ASSUME NEW w \in Seq(Task), InOrder(w), NEW at \in AskedPlaces(w), NEW e \in Task, ~e.quiet,
         \A i \in 1..Len(w) : ~w[i].quiet => w[i].id < e.id
  PROVE  InOrder(InsertAt(w, at, e))
<1>1. /\ at \in 1..(Len(w) + 1)
      /\ \A i \in 1..(at - 1) : ~w[i].quiet
      /\ at <= Len(w) => w[at].quiet
  BY DEF AskedPlaces
<1>2. \A i \in 1..Len(w) : w[i] \in Task
  BY ElementOfSeq
<1>3. e.rank = 0
  BY TaskRanks
<1>4. ASSUME NEW i \in 1..Len(w)
      PROVE  IF i < at THEN Ahead(w[i], e) ELSE Ahead(e, w[i])
  <2>1. CASE i < at
    <3>1. ~w[i].quiet
      BY <1>1, <2>1
    <3>2. w[i].rank = 0
      BY <1>2, <3>1, TaskRanks
    <3> QED
      BY <1>3, <2>1, <3>1, <3>2 DEF Ahead
  <2>2. CASE ~(i < at)
    <3>1. at \in 1..Len(w) /\ w[at].quiet
      BY <1>1, <2>2
    <3>2. w[at].rank <= w[i].rank
      <4>1. CASE i = at
        BY <1>2, <4>1, TaskRanks
      <4>2. CASE i # at
        BY <2>2, <3>1, <4>2 DEF InOrder, Ahead
      <4> QED
        BY <4>1, <4>2
    <3>3. w[i].quiet
      <4>1. w[at].rank \in Nat /\ w[at].rank # 0 /\ w[i].rank \in Nat
        BY <1>2, <3>1, TaskRanks
      <4> QED
        BY <1>2, <3>2, <4>1, TaskRanks
    <3>4. w[i].rank \in Nat
      BY <1>2, TaskRanks
    <3> QED
      BY <1>3, <2>2, <3>3, <3>4 DEF Ahead
  <2> QED
    BY <2>1, <2>2
<1> QED
  BY <1>1, <1>4, InsertionKeepsOrder

(* A quiet task goes behind the ranks up to its own; its source has no     *)
(* other entry.                                                            *)
LEMMA QuietGoesInOrder ==
  ASSUME NEW w \in Seq(Task), InOrder(w), NEW e \in Task, e.quiet,
         NEW at \in QuietPlaces(w, e.rank), \A i \in 1..Len(w) : w[i].op # e.op
  PROVE  InOrder(InsertAt(w, at, e))
<1>1. /\ at \in 1..(Len(w) + 1)
      /\ \A i \in 1..(at - 1) : w[i].rank <= e.rank
      /\ at <= Len(w) => w[at].rank > e.rank
  BY DEF QuietPlaces
<1>2. \A i \in 1..Len(w) : w[i].rank \in Nat
  BY ElementOfSeq, TaskRanks
<1>3. e.rank \in Nat
  BY TaskRanks
<1>4. ASSUME NEW i \in 1..Len(w)
      PROVE  IF i < at THEN Ahead(w[i], e) ELSE Ahead(e, w[i])
  <2>1. CASE i < at
    BY <1>1, <2>1 DEF Ahead
  <2>2. CASE ~(i < at)
    <3>1. at \in 1..Len(w) /\ w[at].rank > e.rank
      BY <1>1, <2>2
    <3>2. w[at].rank <= w[i].rank
      <4>1. CASE i = at
        BY <1>2, <4>1
      <4>2. CASE i # at
        BY <2>2, <3>1, <4>2 DEF InOrder, Ahead
      <4> QED
        BY <4>1, <4>2
    <3>3. e.rank <= w[i].rank
      BY <1>2, <1>3, <3>1, <3>2
    <3> QED
      BY <2>2, <3>3 DEF Ahead
  <2> QED
    BY <2>1, <2>2
<1> QED
  BY <1>1, <1>4, InsertionKeepsOrder

(* Every set of naturals that is not empty has a least element.            *)
LEMMA LeastNumber ==
  ASSUME NEW S, S \subseteq Nat, S # {}
  PROVE  \E m \in S : \A n \in S : m <= n
<1> DEFINE R == OpToRel(<, Nat)
<1>1. PICK m \in S : \A n \in S : <<n, m>> \notin R
  <2> HIDE DEF R
  <2>1. IsWellFoundedOn(R, Nat)
    BY NatLessThanWellFounded DEF R
  <2> QED
    BY <2>1, WFMin
<1>2. \A n \in S : ~(n < m)
  BY <1>1 DEF OpToRel
<1> QED
  BY <1>2

(* Taking a source's entry out of a list in order leaves none of its.      *)
LEMMA KeptInOrder ==
  ASSUME NEW w \in Seq(Task), InOrder(w), NEW source \in AllSources,
         NEW kept \in WithoutEntryOf(w, source)
  PROVE  /\ kept \in Seq(Task) /\ InOrder(kept)
         /\ \A i \in 1..Len(kept) : kept[i].op # source
<1>0. kept \in Seq(Task)
  BY WithoutEntryProperties
<1>1. CASE EntryOf(w, source) = {}
  <2>1. kept = w
    BY <1>1 DEF WithoutEntryOf
  <2>2. ASSUME NEW i \in 1..Len(w), w[i].op = source PROVE FALSE
    <3> DEFINE Of == {j \in 1..Len(w) : w[j].op = source}
    <3>0. Of \subseteq Nat /\ Of # {}
      BY <2>2
    <3>1. PICK m \in Of : \A j \in Of : m <= j
      <4> HIDE DEF Of
      <4> QED
        BY <3>0, LeastNumber
    <3>2. m \in EntryOf(w, source)
      BY <3>1 DEF EntryOf
    <3> QED
      BY <1>1, <3>2
  <2> QED
    BY <1>0, <2>1, <2>2
<1>2. CASE EntryOf(w, source) # {}
  <2>1. PICK at \in EntryOf(w, source) : kept = RemoveAt(w, at)
    BY <1>2 DEF WithoutEntryOf
  <2>2. at \in 1..Len(w) /\ w[at].op = source /\ \A j \in 1..(at - 1) : w[j].op # source
    BY <2>1 DEF EntryOf
  <2>3. w[at].quiet
    BY <2>2, ElementOfSeq, TaskRanks
  <2>4. \A j \in 1..Len(w) : j # at => w[j].op # source
    BY <2>2, <2>3 DEF InOrder, Ahead
  <2>5. ASSUME NEW i \in 1..Len(kept)
        PROVE  kept[i].op # source
    <3> DEFINE from == IF i < at THEN i ELSE i + 1
    <3>1. i \in DOMAIN kept
      BY <1>0
    <3>2. from \in DOMAIN w /\ kept[i] = w[from]
      BY <2>1, <2>2, <3>1, RemoveAtProperties
    <3> QED
      BY <2>2, <2>4, <3>2
  <2> QED
    BY <1>0, <2>1, <2>2, <2>5, RemovalKeepsOrder
<1> QED
  BY <1>1, <1>2

-----------------------------------------------------------------------------
(* Every task has its own id and its own place.                            *)

(* A task a step makes takes the next id of its kind.                      *)
TakesNextId(t) ==
  IF t.quiet THEN t.id = nextQuietId /\ nextQuietId' = nextQuietId + 1
  ELSE t.id = nextId /\ nextId' = nextId + 1

IdsGrow == nextId <= nextId' /\ nextQuietId <= nextQuietId'

LEMMA StartAskedCarries ==
  ASSUME TypeOK, NEW op \in AskedOps, NEW n \in Nodes \cup {NoNode}, StartAsked(op, n)
  PROVE  \E from, q0, i0, t0 : /\ Carries(from, q0, i0, t0)
                               /\ i0 = NoPlace \/ TakesNextId(t0)
<1> DEFINE q == QueueOf(op)
           t == NewAsked(op, n)
<1>1. q \in Queues
  BY DEF QueueOf, Queues
<1>2. t \in Task
  BY NewAskedIsTask DEF StartAsked
<1>3. nextId' = nextId + 1 => TakesNextId(t)
  BY DEF TakesNextId, NewAsked
<1>4. \/ /\ UNCHANGED running /\ nextId' = nextId + 1
         /\ \E at \in AskedPlaces(waiting[q]) :
              waiting' = [waiting EXCEPT ![q] = InsertAt(@, at, t)]
      \/ Run(q, t) /\ UNCHANGED waiting /\ nextId' = nextId + 1
      \/ UNCHANGED <<running, waiting>>
  BY DEF StartAsked
<1> HIDE DEF q, t
<1>5. waiting[q] \in Seq(Task) /\ Follows(Stay, waiting[q], waiting[q])
  BY <1>1, ListFollowsItself DEF TypeOK
<1>6. CASE /\ UNCHANGED running /\ nextId' = nextId + 1
           /\ \E at \in AskedPlaces(waiting[q]) :
                waiting' = [waiting EXCEPT ![q] = InsertAt(@, at, t)]
  <2>1. PICK at \in AskedPlaces(waiting[q]) :
          waiting' = [waiting EXCEPT ![q] = InsertAt(waiting[q], at, t)]
    BY <1>6
  <2>2. at \in 1..(Len(waiting[q]) + 1)
    BY DEF AskedPlaces
  <2>3. Carries(From(q, Inserted(Stay, at)), q, at, t)
    BY <1>1, <1>2, <1>5, <1>6, <2>1, <2>2, InsertionCarries
  <2> QED
    BY <1>3, <1>6, <2>3
<1>7. CASE Run(q, t) /\ UNCHANGED waiting /\ nextId' = nextId + 1
  <2>1. waiting' = [waiting EXCEPT ![q] = waiting[q]] /\ running' = [running EXCEPT ![q] = {t}]
    BY <1>1, <1>7 DEF TypeOK, Run
  <2>2. Carries(From(q, Stay), q, 0, t)
    BY <1>1, <1>5, <2>1, StartCarries
  <2> QED
    BY <1>3, <1>7, <2>2
<1>8. CASE UNCHANGED <<running, waiting>>
  BY <1>8, SameQueuesCarry
<1> QED
  BY <1>4, <1>6, <1>7, <1>8

LEMMA StartQuietCarries ==
  ASSUME TypeOK, NEW source \in Sources, NEW rank \in QuietRanks, NEW n \in Nodes,
         StartQuiet(source, rank, n)
  PROVE  \E from, q0, i0, t0 : /\ Carries(from, q0, i0, t0)
                               /\ i0 = NoPlace \/ TakesNextId(t0)
<1> DEFINE w == waiting["fast"]
           t == NewQuiet(source, rank, n)
<1>1. "fast" \in Queues /\ w \in Seq(Task)
  BY DEF TypeOK, Queues
<1>2. t \in Task
  BY NewQuietIsTask DEF StartQuiet
<1>3. TakesNextId(t)
  BY DEF TakesNextId, NewQuiet, StartQuiet
<1>4. PICK kept \in WithoutEntryOf(w, source) :
        \/ /\ UNCHANGED running
           /\ \E at \in QuietPlaces(kept, rank) :
                waiting' = [waiting EXCEPT !["fast"] = InsertAt(kept, at, t)]
        \/ UNCHANGED running /\ waiting' = [waiting EXCEPT !["fast"] = kept]
        \/ Run("fast", t) /\ waiting' = [waiting EXCEPT !["fast"] = kept]
  BY DEF StartQuiet
<1>5. PICK f : Follows(f, w, kept)
  BY <1>1, KeptFollows
<1>6. kept \in Seq(Task)
  BY <1>1, WithoutEntryProperties
<1> HIDE DEF t
<1>7. CASE /\ UNCHANGED running
           /\ \E at \in QuietPlaces(kept, rank) :
                waiting' = [waiting EXCEPT !["fast"] = InsertAt(kept, at, t)]
  <2>1. PICK at \in QuietPlaces(kept, rank) :
          waiting' = [waiting EXCEPT !["fast"] = InsertAt(kept, at, t)]
    BY <1>7
  <2>2. at \in 1..(Len(kept) + 1)
    BY DEF QuietPlaces
  <2>3. Carries(From("fast", Inserted(f, at)), "fast", at, t)
    BY <1>1, <1>2, <1>5, <1>6, <1>7, <2>1, <2>2, InsertionCarries
  <2> QED
    BY <1>3, <2>3
<1>8. CASE UNCHANGED running /\ waiting' = [waiting EXCEPT !["fast"] = kept]
  <2>1. Carries(From("fast", f), "fast", NoPlace, NoTask)
    BY <1>1, <1>5, <1>6, <1>8, DropCarries
  <2> QED
    BY <2>1
<1>9. CASE Run("fast", t) /\ waiting' = [waiting EXCEPT !["fast"] = kept]
  <2>1. running' = [running EXCEPT !["fast"] = {t}]
    BY <1>9 DEF Run
  <2>2. Carries(From("fast", f), "fast", 0, t)
    BY <1>1, <1>5, <1>6, <1>9, <2>1, StartCarries
  <2> QED
    BY <1>3, <2>2
<1> QED
  BY <1>4, <1>7, <1>8, <1>9

(* Every step of the queues carries its tasks, and makes at most one.      *)
LEMMA StepCarries ==
  ASSUME TypeOK, [Next]_vars
  PROVE  \E from, q0, i0, t0 : /\ Carries(from, q0, i0, t0)
                               /\ i0 = NoPlace \/ TakesNextId(t0)
<1> DEFINE Carried == \E from, q0, i0, t0 : /\ Carries(from, q0, i0, t0)
                                            /\ i0 = NoPlace \/ TakesNextId(t0)
<1>1. ASSUME NEW op \in AskedOps, NEW n \in Nodes \cup {NoNode}, StartAsked(op, n)
      PROVE  Carried
  BY <1>1, StartAskedCarries
<1>2. ASSUME NEW s \in Sources, NEW r \in QuietRanks, NEW n \in Nodes, StartQuiet(s, r, n)
      PROVE  Carried
  BY <1>2, StartQuietCarries
<1>3. ASSUME UNCHANGED running, UNCHANGED waiting PROVE Carried
  BY <1>3, SameQueuesCarry
<1>4. ASSUME NEW q \in Queues, NEW i \in 1..Len(waiting[q]),
             waiting' = [waiting EXCEPT ![q] = RemoveAt(@, i)], UNCHANGED running
      PROVE  Carried
  BY <1>4, RemovalCarries
<1>5. ASSUME NEW q \in Queues, Land(q) PROVE Carried
  <2>1. PICK k \in 1..(Len(waiting[q]) + 1) :
          /\ running' = [running EXCEPT ![q] =
                           IF k <= Len(waiting[q]) THEN {waiting[q][k]} ELSE {}]
          /\ waiting' = [waiting EXCEPT ![q] =
                           SubSeq(waiting[q], k + 1, Len(waiting[q]))]
    BY <1>5, LandQueues
  <2> QED
    BY <2>1, LandingCarries
<1> HIDE DEF Carried
<1>6. ASSUME NEW q \in Queues, NEW i \in 1..Len(waiting[q]), CancelWaiting(q, i)
      PROVE  Carried
  BY <1>4, <1>6 DEF CancelWaiting
<1>7. ASSUME NEW q \in Queues, NEW id \in 1..MaxQuiet, CancelQuiet(q, id) PROVE Carried
  BY <1>3, <1>4, <1>7 DEF CancelQuiet
<1>8. ASSUME NEW q \in Queues, CancelRunning(q) \/ WorkerAnswers(q) \/ WorkerDone(q)
      PROVE  Carried
  <2>1. UNCHANGED running /\ UNCHANGED waiting
    BY <1>8 DEF CancelRunning, WorkerAnswers, WorkerDone
  <2> QED
    BY <1>3, <2>1
<1>9. ASSUME NEW n \in Nodes, MoveCursor(n) \/ CloseNode(n) PROVE Carried
  BY <1>3, <1>9 DEF MoveCursor, CloseNode
<1>10. ASSUME CloseAll PROVE Carried
  BY <1>3, <1>10 DEF CloseAll
<1>11. ASSUME UNCHANGED vars PROVE Carried
  BY <1>3, <1>11 DEF vars
<1>12. Carried
  BY <1>1, <1>2, <1>5, <1>6, <1>7, <1>8, <1>9, <1>10, <1>11 DEF Next
<1> QED
  BY <1>12 DEF Carried

LEMMA IdsOnlyGrow ==
  ASSUME TypeOK, [Next]_vars
  PROVE  IdsGrow
<1>1. nextId \in Int /\ nextQuietId \in Int
  BY ConstantsAssumption DEF TypeOK
<1>2. nextId' \in {nextId, nextId + 1} /\ nextQuietId' \in {nextQuietId, nextQuietId + 1}
  <2>1. ASSUME NEW q \in Queues, Land(q) PROVE UNCHANGED <<nextId, nextQuietId>>
    BY <2>1, Zenon DEF Land
  <2>2. ASSUME NEW q \in Queues, CancelRunning(q) \/ WorkerAnswers(q) \/ WorkerDone(q)
        PROVE  UNCHANGED <<nextId, nextQuietId>>
    BY <2>2 DEF CancelRunning, WorkerAnswers, WorkerDone
  <2>3. ASSUME NEW q \in Queues, NEW i \in 1..Len(waiting[q]), CancelWaiting(q, i)
        PROVE  UNCHANGED <<nextId, nextQuietId>>
    BY <2>3 DEF CancelWaiting
  <2>4. ASSUME NEW q \in Queues, NEW id \in 1..MaxQuiet, CancelQuiet(q, id)
        PROVE  UNCHANGED <<nextId, nextQuietId>>
    BY <2>4 DEF CancelQuiet
  <2>5. ASSUME NEW n \in Nodes, MoveCursor(n) \/ CloseNode(n)
        PROVE  UNCHANGED <<nextId, nextQuietId>>
    BY <2>5 DEF MoveCursor, CloseNode
  <2>6. ASSUME CloseAll \/ UNCHANGED vars
        PROVE  UNCHANGED <<nextId, nextQuietId>>
    BY <2>6 DEF CloseAll, vars
  <2>7. ASSUME NEW op \in AskedOps, NEW n \in Nodes \cup {NoNode}, StartAsked(op, n)
        PROVE  nextId' \in {nextId, nextId + 1} /\ UNCHANGED nextQuietId
    BY <2>7 DEF StartAsked
  <2>8. ASSUME NEW s \in Sources, NEW r \in QuietRanks, NEW n \in Nodes, StartQuiet(s, r, n)
        PROVE  nextQuietId' = nextQuietId + 1 /\ UNCHANGED nextId
    BY <2>8 DEF StartQuiet
  <2> QED
    BY <2>1, <2>2, <2>3, <2>4, <2>5, <2>6, <2>7, <2>8 DEF Next
<1> QED
  BY <1>1, <1>2 DEF IdsGrow

(* The ids in use were handed out.                                         *)
HandedOut ==
  \A t \in Held : t.id < IF t.quiet THEN nextQuietId ELSE nextId

(* No two places hold a task of one id: no task is queued twice.           *)
OnePlace ==
  \A q, p \in Queues : \A i \in Places(q), j \in Places(p) :
    \A t \in At(q, i), u \in At(p, j) :
      t.quiet = u.quiet /\ t.id = u.id => <<q, i, t>> = <<p, j, u>>

Placed == TypeOK /\ HandedOut /\ OnePlace

LEMMA HeldAreTasks ==
  ASSUME TypeOK, NEW t \in Held
  PROVE  t \in Task
<1>1. \A q \in Queues : HeldIn(q) \subseteq Task
  BY DEF TypeOK, HeldIn, Range
<1> QED
  BY <1>1 DEF Held, Queues

LEMMA HandedOutStep ==
  ASSUME Placed, TypeOK', [Next]_vars
  PROVE  HandedOut'
<1>1. PICK from, q0, i0, t0 : /\ Carries(from, q0, i0, t0)
                              /\ i0 = NoPlace \/ TakesNextId(t0)
  BY StepCarries DEF Placed
<1>2. IdsGrow /\ nextId \in Int /\ nextQuietId \in Int /\ nextId' \in Int /\ nextQuietId' \in Int
  BY IdsOnlyGrow, ConstantsAssumption DEF Placed, TypeOK
<1> SUFFICES ASSUME NEW t \in Held'
             PROVE  t.id < IF t.quiet THEN nextQuietId' ELSE nextId'
  BY DEF HandedOut
<1>3. PICK q \in Queues : \E i \in Places(q)' : t \in At(q, i)'
  BY PlacesOfHeldNext DEF HeldIsPlaced
<1>4. PICK i \in Places(q)' : t \in At(q, i)'
  BY <1>3
<1>5. i # NoPlace
  BY DEF Places, NoPlace
<1>6. CASE <<q, i, t>> = <<q0, i0, t0>>
  BY <1>1, <1>2, <1>5, <1>6 DEF TakesNextId
<1>7. CASE <<q, i, t>> # <<q0, i0, t0>>
  <2>1. from[q][i] \in Places(q) /\ t \in At(q, from[q][i])
    BY <1>1, <1>4, <1>7 DEF Carries
  <2>2. t \in Held
    BY <2>1, PlacesOfHeld DEF HeldIsPlaced, Placed
  <2>3. t.id < IF t.quiet THEN nextQuietId ELSE nextId
    BY <2>2 DEF Placed, HandedOut
  <2>4. t.id \in Int
    BY <2>2, HeldAreTasks, TaskRanks DEF Placed
  <2> QED
    BY <1>2, <2>3, <2>4 DEF IdsGrow
<1> QED
  BY <1>6, <1>7

(* A task that was somewhere does not have the id of one just made.        *)
LEMMA NewIdIsNew ==
  ASSUME Placed, NEW q \in Queues, NEW i \in Places(q), NEW t \in At(q, i),
         NEW t0, TakesNextId(t0)
  PROVE  ~(t.quiet = t0.quiet /\ t.id = t0.id)
<1>1. t \in Held
  BY PlacesOfHeld DEF HeldIsPlaced, Placed
<1>2. t.id < IF t.quiet THEN nextQuietId ELSE nextId
  BY <1>1 DEF Placed, HandedOut
<1>3. nextId \in Int /\ nextQuietId \in Int
  BY ConstantsAssumption DEF Placed, TypeOK
<1> QED
  BY <1>2, <1>3 DEF TakesNextId

LEMMA OnePlaceStep ==
  ASSUME Placed, TypeOK', [Next]_vars
  PROVE  OnePlace'
<1>1. PICK from, q0, i0, t0 : /\ Carries(from, q0, i0, t0)
                              /\ i0 = NoPlace \/ TakesNextId(t0)
  BY StepCarries DEF Placed
<1> SUFFICES ASSUME NEW q \in Queues, NEW p \in Queues,
                    NEW i \in Places(q)', NEW j \in Places(p)',
                    NEW t \in At(q, i)', NEW u \in At(p, j)',
                    t.quiet = u.quiet, t.id = u.id
             PROVE  <<q, i, t>> = <<p, j, u>>
  BY DEF OnePlace
<1>2. i # NoPlace /\ j # NoPlace
  BY DEF Places, NoPlace
<1>3. CASE <<q, i, t>> = <<q0, i0, t0>> /\ <<p, j, u>> = <<q0, i0, t0>>
  BY <1>3
<1>4. CASE <<q, i, t>> = <<q0, i0, t0>> /\ <<p, j, u>> # <<q0, i0, t0>>
  <2>1. from[p][j] \in Places(p) /\ u \in At(p, from[p][j])
    BY <1>1, <1>4 DEF Carries
  <2>2. TakesNextId(t)
    BY <1>1, <1>2, <1>4
  <2> QED
    BY <2>1, <2>2, NewIdIsNew
<1>5. CASE <<q, i, t>> # <<q0, i0, t0>> /\ <<p, j, u>> = <<q0, i0, t0>>
  <2>1. from[q][i] \in Places(q) /\ t \in At(q, from[q][i])
    BY <1>1, <1>5 DEF Carries
  <2>2. TakesNextId(u)
    BY <1>1, <1>2, <1>5
  <2> QED
    BY <2>1, <2>2, NewIdIsNew
<1>6. CASE <<q, i, t>> # <<q0, i0, t0>> /\ <<p, j, u>> # <<q0, i0, t0>>
  <2>1. <<q, i>> # <<q0, i0>> /\ from[q][i] \in Places(q) /\ t \in At(q, from[q][i])
    BY <1>1, <1>6 DEF Carries
  <2>2. <<p, j>> # <<q0, i0>> /\ from[p][j] \in Places(p) /\ u \in At(p, from[p][j])
    BY <1>1, <1>6 DEF Carries
  <2>3. <<q, from[q][i], t>> = <<p, from[p][j], u>>
    BY <2>1, <2>2 DEF OnePlace, Placed
  <2> QED
    BY <1>1, <2>1, <2>2, <2>3 DEF Carries
<1> QED
  BY <1>3, <1>4, <1>5, <1>6

LEMMA PlacedInit == Init => Placed
<1> SUFFICES ASSUME Init PROVE Placed
  OBVIOUS
<1>1. TypeOK
  BY TypeInit
<1>2. \A q \in Queues : Places(q) = {0} /\ At(q, 0) = {}
  BY DEF Init, Places, At
<1>3. OnePlace
  BY <1>2 DEF OnePlace
<1>4. HandedOut
  BY <1>1, <1>2, PlacesOfHeld DEF HandedOut, HeldIsPlaced
<1> QED
  BY <1>1, <1>3, <1>4 DEF Placed

LEMMA PlacedStep == Placed /\ [Next]_vars => Placed'
  BY TypeStep, HandedOutStep, OnePlaceStep DEF Placed

-----------------------------------------------------------------------------
(* The order of the queues.                                                *)

Ordered == Placed /\ QueueOrder

LEMMA OneQueueInOrder ==
  ASSUME TypeOK, QueueOrder, NEW q \in Queues, NEW s,
         waiting' = [waiting EXCEPT ![q] = s], InOrder(s), s # <<>> => running'[q] # {},
         \A p \in Queues : p # q => running'[p] = running[p]
  PROVE  QueueOrder'
<1>1. \A p \in Queues : waiting'[p] = IF p = q THEN s ELSE waiting[p]
  BY DEF TypeOK
<1>2. \A p \in Queues : /\ waiting[p] # <<>> => running[p] # {}
                        /\ InOrder(waiting[p])
  BY QueueOrderIsInOrder
<1>3. \A p \in Queues : /\ waiting'[p] # <<>> => running'[p] # {}
                        /\ InOrder(waiting'[p])
  BY <1>1, <1>2
<1> QED
  BY <1>3 DEF QueueOrder, InOrder, Ahead

LEMMA SameQueuesInOrder ==
  ASSUME QueueOrder, UNCHANGED running, UNCHANGED waiting
  PROVE  QueueOrder'
  BY DEF QueueOrder

LEMMA NothingWaitsWhenIdle ==
  ASSUME QueueOrder, NEW q \in Queues, running[q] = {}
  PROVE  waiting[q] = <<>>
  BY DEF QueueOrder

LEMMA EmptyInOrder == InOrder(<<>>)
  BY DEF InOrder

LEMMA NothingToReplace ==
  ASSUME NEW source, NEW kept \in WithoutEntryOf(<<>>, source)
  PROVE  kept = <<>> /\ EntryOf(<<>>, source) = {}
<1>1. EntryOf(<<>>, source) = {}
  BY DEF EntryOf
<1> QED
  BY <1>1 DEF WithoutEntryOf

LEMMA WaitingAreHeld ==
  ASSUME TypeOK, NEW q \in Queues
  PROVE  /\ waiting[q] \in Seq(Task)
         /\ \A i \in 1..Len(waiting[q]) : waiting[q][i] \in HeldIn(q) /\ waiting[q][i] \in Held
<1>1. waiting[q] \in Seq(Task) /\ DOMAIN waiting[q] = 1..Len(waiting[q])
  BY DEF TypeOK
<1>2. HeldIn(q) \subseteq Held
  BY DEF Held, Queues
<1> QED
  BY <1>1, <1>2 DEF HeldIn, Range

LEMMA StartAskedInOrder ==
  ASSUME Ordered, NEW op \in AskedOps, NEW n \in Nodes \cup {NoNode}, StartAsked(op, n)
  PROVE  QueueOrder'
<1> DEFINE q == QueueOf(op)
           t == NewAsked(op, n)
<1>1. q \in Queues
  BY DEF QueueOf, Queues
<1>2. t \in Task /\ ~t.quiet /\ t.id = nextId
  BY NewAskedIsTask DEF StartAsked, Ordered, Placed, NewAsked
<1>3. \/ /\ UNCHANGED running /\ running[q] # {}
         /\ \E at \in AskedPlaces(waiting[q]) :
              waiting' = [waiting EXCEPT ![q] = InsertAt(@, at, t)]
      \/ Run(q, t) /\ UNCHANGED waiting
      \/ UNCHANGED running /\ UNCHANGED waiting
  BY DEF StartAsked
<1>4. TypeOK /\ QueueOrder /\ InOrder(waiting[q])
  BY <1>1, QueueOrderIsInOrder DEF Ordered, Placed
<1> HIDE DEF q, t
<1>5. CASE /\ UNCHANGED running /\ running[q] # {}
           /\ \E at \in AskedPlaces(waiting[q]) :
                waiting' = [waiting EXCEPT ![q] = InsertAt(@, at, t)]
  <2>1. PICK at \in AskedPlaces(waiting[q]) :
          waiting' = [waiting EXCEPT ![q] = InsertAt(waiting[q], at, t)]
    BY <1>5
  <2>2. waiting[q] \in Seq(Task)
    BY <1>1, <1>4 DEF TypeOK
  <2>3. \A i \in 1..Len(waiting[q]) : ~waiting[q][i].quiet => waiting[q][i].id < t.id
    BY <1>1, <1>2, <1>4, WaitingAreHeld DEF Ordered, Placed, HandedOut
  <2>4. InOrder(InsertAt(waiting[q], at, t))
    BY <1>2, <1>4, <2>1, <2>2, <2>3, AskedGoesInOrder
  <2> QED
    BY <1>1, <1>4, <1>5, <2>1, <2>4, OneQueueInOrder
<1>6. CASE Run(q, t) /\ UNCHANGED waiting
  <2>1. running'[q] # {} /\ \A p \in Queues : p # q => running'[p] = running[p]
    BY <1>1, <1>4, <1>6 DEF Run, TypeOK
  <2>2. waiting' = [waiting EXCEPT ![q] = waiting[q]]
    BY <1>1, <1>4, <1>6 DEF TypeOK
  <2> QED
    BY <1>1, <1>4, <2>1, <2>2, OneQueueInOrder
<1>7. CASE UNCHANGED running /\ UNCHANGED waiting
  BY <1>4, <1>7, SameQueuesInOrder
<1> QED
  BY <1>3, <1>5, <1>6, <1>7

LEMMA StartQuietInOrder ==
  ASSUME Ordered, NEW source \in Sources, NEW rank \in QuietRanks, NEW n \in Nodes,
         StartQuiet(source, rank, n)
  PROVE  QueueOrder'
<1> DEFINE w == waiting["fast"]
           t == NewQuiet(source, rank, n)
<1>1. TypeOK /\ QueueOrder /\ "fast" \in Queues /\ w \in Seq(Task) /\ InOrder(w)
  BY QueueOrderIsInOrder DEF Ordered, Placed, TypeOK, Queues
<1>2. t \in Task /\ t.quiet /\ t.rank = rank /\ t.op = source
  BY <1>1, NewQuietIsTask DEF StartQuiet, NewQuiet
<1>3. PICK kept \in WithoutEntryOf(w, source) :
        \/ /\ UNCHANGED running /\ running["fast"] # {}
           /\ \E at \in QuietPlaces(kept, rank) :
                waiting' = [waiting EXCEPT !["fast"] = InsertAt(kept, at, t)]
        \/ /\ UNCHANGED running /\ running["fast"] = {}
           /\ waiting' = [waiting EXCEPT !["fast"] = kept]
        \/ Run("fast", t) /\ waiting' = [waiting EXCEPT !["fast"] = kept]
  BY DEF StartQuiet
<1>4. source \in AllSources
  BY ConstantsAssumption
<1>5. kept \in Seq(Task) /\ InOrder(kept) /\ \A i \in 1..Len(kept) : kept[i].op # source
  BY <1>1, <1>4, KeptInOrder
<1> HIDE DEF t
<1>6. CASE /\ UNCHANGED running /\ running["fast"] # {}
           /\ \E at \in QuietPlaces(kept, rank) :
                waiting' = [waiting EXCEPT !["fast"] = InsertAt(kept, at, t)]
  <2>1. PICK at \in QuietPlaces(kept, rank) :
          waiting' = [waiting EXCEPT !["fast"] = InsertAt(kept, at, t)]
    BY <1>6
  <2>2. InOrder(InsertAt(kept, at, t))
    BY <1>2, <1>5, <2>1, QuietGoesInOrder
  <2> QED
    BY <1>1, <1>6, <2>1, <2>2, OneQueueInOrder
<1>7. CASE /\ UNCHANGED running /\ running["fast"] = {}
           /\ waiting' = [waiting EXCEPT !["fast"] = kept]
  <2>1. w = <<>>
    BY <1>1, <1>7, NothingWaitsWhenIdle
  <2>2. kept = <<>>
    BY <2>1, NothingToReplace
  <2> QED
    BY <1>1, <1>5, <1>7, <2>2, OneQueueInOrder
<1>8. CASE Run("fast", t) /\ waiting' = [waiting EXCEPT !["fast"] = kept]
  <2>1. running'["fast"] # {} /\ \A p \in Queues : p # "fast" => running'[p] = running[p]
    BY <1>1, <1>8 DEF Run, TypeOK
  <2> QED
    BY <1>1, <1>5, <1>8, <2>1, OneQueueInOrder
<1> QED
  BY <1>3, <1>6, <1>7, <1>8

LEMMA RemovalInOrder ==
  ASSUME Ordered, NEW q \in Queues, NEW i \in 1..Len(waiting[q]),
         waiting' = [waiting EXCEPT ![q] = RemoveAt(@, i)], UNCHANGED running
  PROVE  QueueOrder'
<1>1. TypeOK /\ QueueOrder /\ waiting[q] \in Seq(Task) /\ InOrder(waiting[q])
  BY QueueOrderIsInOrder DEF Ordered, Placed, TypeOK
<1>2. InOrder(RemoveAt(waiting[q], i))
  BY <1>1, RemovalKeepsOrder
<1>3. running[q] # {}
  <2>1. waiting[q] # <<>>
    OBVIOUS
  <2> QED
    BY <1>1, <2>1 DEF QueueOrder
<1>4. waiting' = [waiting EXCEPT ![q] = RemoveAt(waiting[q], i)]
  OBVIOUS
<1> QED
  BY <1>1, <1>2, <1>3, <1>4, OneQueueInOrder

LEMMA LandInOrder ==
  ASSUME Ordered, NEW q \in Queues, Land(q)
  PROVE  QueueOrder'
<1>1. TypeOK /\ QueueOrder /\ waiting[q] \in Seq(Task) /\ InOrder(waiting[q])
  BY QueueOrderIsInOrder DEF Ordered, Placed, TypeOK
<1>2. PICK k \in 1..(Len(waiting[q]) + 1) :
        /\ running' = [running EXCEPT ![q] =
                         IF k <= Len(waiting[q]) THEN {waiting[q][k]} ELSE {}]
        /\ waiting' = [waiting EXCEPT ![q] =
                         SubSeq(waiting[q], k + 1, Len(waiting[q]))]
  BY <1>1, LandQueues
<1> DEFINE s == SubSeq(waiting[q], k + 1, Len(waiting[q]))
<1>3. InOrder(s)
  BY <1>1, SliceKeepsOrder
<1>4. \A p \in Queues : p # q => running'[p] = running[p]
  BY <1>1, <1>2 DEF TypeOK
<1>5. s # <<>> => running'[q] # {}
  <2>1. CASE k <= Len(waiting[q])
    BY <1>1, <1>2, <2>1 DEF TypeOK
  <2>2. CASE ~(k <= Len(waiting[q]))
    <3>1. s = <<>>
      BY <1>1, <2>2
    <3> QED
      BY <3>1
  <2> QED
    BY <2>1, <2>2
<1> HIDE DEF s
<1>6. waiting' = [waiting EXCEPT ![q] = s]
  BY <1>2 DEF s
<1> QED
  BY <1>1, <1>3, <1>4, <1>5, <1>6, OneQueueInOrder

LEMMA OrderStep ==
  ASSUME Ordered, [Next]_vars
  PROVE  QueueOrder'
<1>0. QueueOrder
  BY DEF Ordered
<1>1. ASSUME NEW op \in AskedOps, NEW n \in Nodes \cup {NoNode}, StartAsked(op, n)
      PROVE  QueueOrder'
  BY <1>1, StartAskedInOrder
<1>2. ASSUME NEW s \in Sources, NEW r \in QuietRanks, NEW n \in Nodes, StartQuiet(s, r, n)
      PROVE  QueueOrder'
  BY <1>2, StartQuietInOrder
<1>3. ASSUME NEW q \in Queues, NEW i \in 1..Len(waiting[q]), CancelWaiting(q, i)
      PROVE  QueueOrder'
  BY <1>3, RemovalInOrder DEF CancelWaiting
<1>4. ASSUME NEW q \in Queues, NEW id \in 1..MaxQuiet, CancelQuiet(q, id)
      PROVE  QueueOrder'
  BY <1>0, <1>4, RemovalInOrder, SameQueuesInOrder DEF CancelQuiet
<1>5. ASSUME NEW q \in Queues, Land(q) PROVE QueueOrder'
  BY <1>5, LandInOrder
<1>6. ASSUME NEW q \in Queues, CancelRunning(q) \/ WorkerAnswers(q) \/ WorkerDone(q)
      PROVE  QueueOrder'
  <2>1. UNCHANGED running /\ UNCHANGED waiting
    BY <1>6 DEF CancelRunning, WorkerAnswers, WorkerDone
  <2> QED
    BY <1>0, <2>1, SameQueuesInOrder
<1>7. ASSUME NEW n \in Nodes, MoveCursor(n) \/ CloseNode(n) PROVE QueueOrder'
  BY <1>0, <1>7, SameQueuesInOrder DEF MoveCursor, CloseNode
<1>8. ASSUME CloseAll \/ UNCHANGED vars PROVE QueueOrder'
  BY <1>0, <1>8, SameQueuesInOrder DEF CloseAll, vars
<1> QED
  BY <1>1, <1>2, <1>3, <1>4, <1>5, <1>6, <1>7, <1>8 DEF Next

LEMMA OrderedInit == Init => Ordered
<1> SUFFICES ASSUME Init PROVE Ordered
  OBVIOUS
<1>1. QueueOrder
  BY DEF Init, QueueOrder
<1> QED
  BY <1>1, PlacedInit DEF Ordered

LEMMA OrderedStep == Ordered /\ [Next]_vars => Ordered'
  BY PlacedStep, OrderStep DEF Ordered

LEMMA AlwaysOrdered == Spec => []Ordered
  BY OrderedInit, OrderedStep, PTL DEF Spec

(* However tasks are queued, replaced, cancelled and dropped: a queue with *)
(* tasks waiting runs one, asked tasks wait in the order they were asked   *)
(* for and ahead of quiet ones, quiet ones in rank order and one per       *)
(* source (start_task, start_quiet_task, start_next).                      *)
THEOREM AlwaysQueueOrder == Spec => []QueueOrder
<1>1. Ordered => QueueOrder
  BY DEF Ordered
<1> QED
  BY <1>1, AlwaysOrdered, PTL

-----------------------------------------------------------------------------
(* What a step takes out of the queues and what it puts in.                *)

LEMMA RangeOfRemoval ==
  ASSUME NEW S, NEW w \in Seq(S), NEW at \in 1..Len(w)
  PROVE  Range(RemoveAt(w, at)) = {w[i] : i \in (1..Len(w)) \ {at}}
<1> DEFINE s == RemoveAt(w, at)
<1>1. s \in Seq(S) /\ Len(s) = Len(w) - 1
  BY RemoveAtProperties, RemoveAtLength
<1>2. \A i \in DOMAIN s : s[i] = w[IF i < at THEN i ELSE i + 1]
  BY RemoveAtProperties
<1> HIDE DEF s
<1>3. DOMAIN s = 1..(Len(w) - 1) /\ Len(w) \in Nat
  BY <1>1
<1>4. ASSUME NEW j \in (1..Len(w)) \ {at}
      PROVE  \E i \in DOMAIN s : s[i] = w[j]
  <2>1. CASE j < at
    <3>1. j \in DOMAIN s
      BY <1>3, <2>1
    <3> QED
      BY <1>2, <2>1, <3>1
  <2>2. CASE ~(j < at)
    <3>1. j - 1 \in DOMAIN s /\ ~(j - 1 < at) /\ j - 1 + 1 = j
      BY <1>3, <1>4, <2>2
    <3> QED
      BY <1>2, <3>1
  <2> QED
    BY <2>1, <2>2
<1>5. ASSUME NEW i \in DOMAIN s
      PROVE  \E j \in (1..Len(w)) \ {at} : s[i] = w[j]
  BY <1>2, <1>3
<1>6. Range(s) = {w[i] : i \in (1..Len(w)) \ {at}}
  BY <1>4, <1>5 DEF Range
<1> QED
  BY <1>6 DEF s

LEMMA RangeOfInsertion ==
  ASSUME NEW S, NEW w \in Seq(S), NEW at \in 1..(Len(w) + 1), NEW e \in S
  PROVE  Range(InsertAt(w, at, e)) = Range(w) \cup {e}
<1> DEFINE s == InsertAt(w, at, e)
<1>1. s \in Seq(S) /\ Len(s) = Len(w) + 1
  BY InsertAtProperties
<1>2. \A i \in DOMAIN s :
        IF i = at THEN s[i] = e
        ELSE LET from == IF i < at THEN i ELSE i - 1
             IN from \in DOMAIN w /\ s[i] = w[from]
  BY InsertAtProperties
<1> HIDE DEF s
<1>3. DOMAIN s = 1..(Len(w) + 1) /\ DOMAIN w = 1..Len(w) /\ Len(w) \in Nat
  BY <1>1
<1>4. ASSUME NEW j \in DOMAIN w
      PROVE  \E i \in DOMAIN s : s[i] = w[j]
  <2>1. CASE j < at
    <3>1. j \in DOMAIN s
      BY <1>3, <2>1
    <3> QED
      BY <1>2, <1>3, <2>1, <3>1
  <2>2. CASE ~(j < at)
    <3>1. j + 1 \in DOMAIN s /\ ~(j + 1 < at) /\ j + 1 # at /\ j + 1 - 1 = j
      BY <1>3, <1>4, <2>2
    <3> QED
      BY <1>2, <3>1
  <2> QED
    BY <2>1, <2>2
<1>5. at \in DOMAIN s /\ s[at] = e
  BY <1>2, <1>3
<1>6. \A i \in DOMAIN s : s[i] = e \/ \E j \in DOMAIN w : s[i] = w[j]
  BY <1>2
<1>7. Range(s) = Range(w) \cup {e}
  BY <1>4, <1>5, <1>6 DEF Range
<1> QED
  BY <1>7 DEF s

LEMMA RangeOfSlice ==
  ASSUME NEW S, NEW w \in Seq(S), NEW k \in Nat
  PROVE  Range(SubSeq(w, k + 1, Len(w))) = {w[i] : i \in (k + 1)..Len(w)}
<1> DEFINE s == SubSeq(w, k + 1, Len(w))
<1>1. s \in Seq(S) /\ \A i \in DOMAIN s : i + k \in DOMAIN w /\ s[i] = w[i + k]
  BY SliceProperties
<1>2. Len(s) = IF k + 1 <= Len(w) THEN Len(w) - k ELSE 0
  BY SubSeqProperties, ElementOfSeq
<1> HIDE DEF s
<1>3. DOMAIN s = 1..Len(s) /\ DOMAIN w = 1..Len(w) /\ Len(w) \in Nat
  BY <1>1
<1>4. ASSUME NEW j \in (k + 1)..Len(w)
      PROVE  \E i \in DOMAIN s : s[i] = w[j]
  <2>1. k + 1 <= Len(w) /\ j - k >= 1 /\ j - k <= Len(w) - k /\ j - k \in Int
    BY <1>3
  <2>2. Len(s) = Len(w) - k
    BY <1>2, <2>1
  <2>3. j - k \in DOMAIN s /\ j - k + k = j
    BY <1>3, <2>1, <2>2
  <2> QED
    BY <1>1, <2>3
<1>5. ASSUME NEW i \in DOMAIN s
      PROVE  \E j \in (k + 1)..Len(w) : s[i] = w[j]
  <2>1. i + k \in (k + 1)..Len(w)
    BY <1>1, <1>3
  <2> QED
    BY <1>1, <2>1
<1>6. Range(s) = {w[i] : i \in (k + 1)..Len(w)}
  BY <1>4, <1>5 DEF Range
<1> QED
  BY <1>6 DEF s

(* The step takes the tasks `gone` out of the queues and puts `new` in.    *)
TakesAndPuts(gone, new) ==
  /\ gone \subseteq Held
  /\ Held' = (Held \ gone) \cup new

LEMMA UniqueIds ==
  ASSUME Placed, NEW t \in Held, NEW u \in Held, t.quiet = u.quiet, t.id = u.id
  PROVE  t = u
<1>1. PICK q \in Queues : \E i \in Places(q) : t \in At(q, i)
  BY PlacesOfHeld DEF HeldIsPlaced, Placed
<1>2. PICK p \in Queues : \E i \in Places(p) : u \in At(p, i)
  BY PlacesOfHeld DEF HeldIsPlaced, Placed
<1> QED
  BY <1>1, <1>2 DEF OnePlace, Placed

LEMMA OwnPlaces ==
  ASSUME Placed, NEW q \in Queues
  PROVE  /\ \A i, j \in 1..Len(waiting[q]) : waiting[q][i] = waiting[q][j] => i = j
         /\ \A i \in 1..Len(waiting[q]) : waiting[q][i] \notin running[q]
         /\ \A p \in Queues : p # q => HeldIn(p) \cap HeldIn(q) = {}
<1>1. /\ 0 \in Places(q) /\ At(q, 0) = running[q]
      /\ \A i \in 1..Len(waiting[q]) : i \in Places(q) /\ At(q, i) = {waiting[q][i]}
  BY PlaceOfWaiting DEF Placed
<1>2. ASSUME NEW i \in 1..Len(waiting[q]), NEW j \in 1..Len(waiting[q]),
             waiting[q][i] = waiting[q][j]
      PROVE  i = j
  <2>1. /\ i \in Places(q) /\ j \in Places(q)
        /\ waiting[q][i] \in At(q, i) /\ waiting[q][j] \in At(q, j)
    BY <1>1
  <2> QED
    BY <1>2, <2>1 DEF OnePlace, Placed
<1>3. \A i \in 1..Len(waiting[q]) : waiting[q][i] \notin running[q]
  BY <1>1 DEF OnePlace, Placed
<1>4. ASSUME NEW p \in Queues, NEW t \in HeldIn(p)
      PROVE  \E i \in Places(p) : t \in At(p, i)
  <2>1. /\ 0 \in Places(p) /\ At(p, 0) = running[p]
        /\ \A i \in 1..Len(waiting[p]) : i \in Places(p) /\ At(p, i) = {waiting[p][i]}
    BY PlaceOfWaiting DEF Placed
  <2>2. DOMAIN waiting[p] = 1..Len(waiting[p])
    BY DEF Placed, TypeOK
  <2> QED
    BY <1>4, <2>1, <2>2 DEF HeldIn, Range
<1>5. \A p \in Queues : p # q => HeldIn(p) \cap HeldIn(q) = {}
  BY <1>4 DEF OnePlace, Placed
<1> QED
  BY <1>2, <1>3, <1>5

LEMMA OneQueueTakesAndPuts ==
  ASSUME Placed, NEW q \in Queues, NEW gone, NEW new, gone \subseteq HeldIn(q),
         HeldIn(q)' = (HeldIn(q) \ gone) \cup new,
         \A p \in Queues : p # q => HeldIn(p)' = HeldIn(p)
  PROVE  TakesAndPuts(gone, new)
<1>1. \A p \in Queues : p # q => HeldIn(p) \cap HeldIn(q) = {}
  BY OwnPlaces
<1>2. CASE q = "slow"
  BY <1>1, <1>2 DEF TakesAndPuts, Held, Queues
<1>3. CASE q = "fast"
  BY <1>1, <1>3 DEF TakesAndPuts, Held, Queues
<1> QED
  BY <1>2, <1>3 DEF Queues

LEMMA SameQueuesTakeNothing ==
  ASSUME UNCHANGED running, UNCHANGED waiting
  PROVE  TakesAndPuts({}, {})
  BY DEF TakesAndPuts, Held, HeldIn

LEMMA OtherQueuesHold ==
  ASSUME NEW q \in Queues, \A p \in Queues : p # q =>
           running'[p] = running[p] /\ waiting'[p] = waiting[p]
  PROVE  \A p \in Queues : p # q => HeldIn(p)' = HeldIn(p)
  BY DEF HeldIn

LEMMA InsertionPuts ==
  ASSUME Placed, NEW q \in Queues, NEW at \in 1..(Len(waiting[q]) + 1), NEW t \in Task,
         UNCHANGED running, waiting' = [waiting EXCEPT ![q] = InsertAt(waiting[q], at, t)]
  PROVE  TakesAndPuts({}, {t})
<1>1. waiting \in [Queues -> Seq(Task)]
  BY DEF Placed, TypeOK
<1>2. Range(InsertAt(waiting[q], at, t)) = Range(waiting[q]) \cup {t}
  BY <1>1, RangeOfInsertion
<1>3. waiting'[q] = InsertAt(waiting[q], at, t)
      /\ \A p \in Queues : p # q => waiting'[p] = waiting[p]
  BY <1>1
<1>4. HeldIn(q)' = (HeldIn(q) \ {}) \cup {t}
  BY <1>2, <1>3 DEF HeldIn
<1>5. \A p \in Queues : p # q => HeldIn(p)' = HeldIn(p)
  BY <1>3 DEF HeldIn
<1> QED
  BY <1>4, <1>5, OneQueueTakesAndPuts

LEMMA StartPuts ==
  ASSUME Placed, NEW q \in Queues, NEW t, Run(q, t), UNCHANGED waiting
  PROVE  TakesAndPuts({}, {t})
<1>1. running[q] = {} /\ running' = [running EXCEPT ![q] = {t}]
  BY DEF Run
<1>2. running'[q] = {t} /\ \A p \in Queues : p # q => running'[p] = running[p]
  BY <1>1 DEF Placed, TypeOK
<1>3. HeldIn(q)' = (HeldIn(q) \ {}) \cup {t}
  BY <1>1, <1>2 DEF HeldIn
<1>4. \A p \in Queues : p # q => HeldIn(p)' = HeldIn(p)
  BY <1>2 DEF HeldIn
<1> QED
  BY <1>3, <1>4, OneQueueTakesAndPuts

LEMMA RemovalTakes ==
  ASSUME Placed, NEW q \in Queues, NEW i \in 1..Len(waiting[q]),
         waiting' = [waiting EXCEPT ![q] = RemoveAt(@, i)], UNCHANGED running
  PROVE  TakesAndPuts({waiting[q][i]}, {})
<1> DEFINE w == waiting[q]
<1>1. waiting \in [Queues -> Seq(Task)] /\ w \in Seq(Task) /\ DOMAIN w = 1..Len(w)
  BY DEF Placed, TypeOK
<1>2. Range(RemoveAt(w, i)) = {w[j] : j \in (1..Len(w)) \ {i}}
  BY <1>1, RangeOfRemoval
<1>3. waiting'[q] = RemoveAt(w, i) /\ \A p \in Queues : p # q => waiting'[p] = waiting[p]
  BY <1>1
<1>4. /\ \A j \in 1..Len(w) : w[j] = w[i] => j = i
      /\ w[i] \notin running[q]
  BY OwnPlaces
<1>5. Range(w) = {w[j] : j \in 1..Len(w)}
  BY <1>1 DEF Range
<1> HIDE DEF w
<1>6. HeldIn(q)' = (HeldIn(q) \ {w[i]}) \cup {} /\ w[i] \in HeldIn(q)
  BY <1>2, <1>3, <1>4, <1>5 DEF HeldIn, w
<1>7. \A p \in Queues : p # q => HeldIn(p)' = HeldIn(p)
  BY <1>3 DEF HeldIn
<1>8. TakesAndPuts({w[i]}, {})
  BY <1>6, <1>7, OneQueueTakesAndPuts
<1> QED
  BY <1>8 DEF w

LEMMA LandingTakes ==
  ASSUME Placed, NEW q \in Queues, NEW t \in running[q], running[q] = {t},
         NEW k \in 1..(Len(waiting[q]) + 1),
         running' = [running EXCEPT ![q] = IF k <= Len(waiting[q]) THEN {waiting[q][k]} ELSE {}],
         waiting' = [waiting EXCEPT ![q] = SubSeq(waiting[q], k + 1, Len(waiting[q]))]
  PROVE  TakesAndPuts({t} \cup {waiting[q][i] : i \in 1..(k - 1)}, {})
<1> DEFINE w == waiting[q]
           gone == {t} \cup {w[i] : i \in 1..(k - 1)}
           next == IF k <= Len(w) THEN {w[k]} ELSE {}
<1>1. waiting \in [Queues -> Seq(Task)] /\ w \in Seq(Task) /\ DOMAIN w = 1..Len(w)
  BY DEF Placed, TypeOK
<1>2. Range(SubSeq(w, k + 1, Len(w))) = {w[i] : i \in (k + 1)..Len(w)}
  <2>1. k \in Nat
    OBVIOUS
  <2> HIDE DEF w
  <2> QED
    BY <1>1, <2>1, RangeOfSlice
<1>3. /\ waiting'[q] = SubSeq(w, k + 1, Len(w)) /\ running'[q] = next
      /\ \A p \in Queues : p # q => waiting'[p] = waiting[p] /\ running'[p] = running[p]
  BY <1>1 DEF Placed, TypeOK
<1>4. /\ \A i, j \in 1..Len(w) : w[i] = w[j] => i = j
      /\ \A i \in 1..Len(w) : w[i] \notin running[q]
  BY OwnPlaces
<1>5. Range(w) = {w[i] : i \in 1..Len(w)} /\ Len(w) \in Nat
  BY <1>1 DEF Range
<1>6. k \in 1..(Len(w) + 1)
  OBVIOUS
<1> HIDE DEF w
<1>7. HeldIn(q)' = {w[i] : i \in k..Len(w)}
  <2>1. HeldIn(q)' = next \cup {w[i] : i \in (k + 1)..Len(w)}
    BY <1>2, <1>3 DEF HeldIn
  <2>2. k..Len(w) = (IF k <= Len(w) THEN {k} ELSE {}) \cup (k + 1)..Len(w)
    BY <1>5, <1>6
  <2> QED
    BY <2>1, <2>2
<1>8. HeldIn(q) = {t} \cup {w[i] : i \in 1..Len(w)}
  BY <1>5 DEF HeldIn, w
<1>9. \A i \in 1..Len(w) : i \in k..Len(w) <=> i \notin 1..(k - 1)
  BY <1>5, <1>6
<1>10. 1..(k - 1) \subseteq 1..Len(w) /\ k..Len(w) \subseteq 1..Len(w)
  BY <1>5, <1>6
<1>11. gone \subseteq HeldIn(q)
  BY <1>8, <1>10
<1>12. HeldIn(q)' = (HeldIn(q) \ gone) \cup {}
  BY <1>4, <1>7, <1>8, <1>9, <1>10
<1>13. \A p \in Queues : p # q => HeldIn(p)' = HeldIn(p)
  BY <1>3 DEF HeldIn
<1> HIDE DEF gone
<1>14. TakesAndPuts(gone, {})
  BY <1>11, <1>12, <1>13, OneQueueTakesAndPuts
<1> QED
  BY <1>14 DEF gone, w

(* A quiet request and the entry it replaces.                              *)
LEMMA ReplacementTakesAndPuts ==
  ASSUME Placed, NEW source, NEW kept \in WithoutEntryOf(waiting["fast"], source),
         NEW at \in 1..(Len(kept) + 1), NEW t \in Task, UNCHANGED running,
         waiting' = [waiting EXCEPT !["fast"] = InsertAt(kept, at, t)]
  PROVE  TakesAndPuts({waiting["fast"][i] : i \in EntryOf(waiting["fast"], source)}, {t})
<1> DEFINE w == waiting["fast"]
           gone == {w[i] : i \in EntryOf(w, source)}
<1>1. waiting \in [Queues -> Seq(Task)] /\ "fast" \in Queues /\ w \in Seq(Task)
  BY DEF Placed, TypeOK, Queues
<1>2. kept \in Seq(Task)
  BY <1>1, WithoutEntryProperties
<1>3. Range(InsertAt(kept, at, t)) = Range(kept) \cup {t}
  BY <1>2, RangeOfInsertion
<1>4. /\ waiting'["fast"] = InsertAt(kept, at, t)
      /\ \A p \in Queues : p # "fast" => waiting'[p] = waiting[p]
  BY <1>1
<1>5. gone \subseteq Range(w) /\ Range(kept) = Range(w) \ gone /\ gone \cap running["fast"] = {}
  <2>1. CASE EntryOf(w, source) = {}
    BY <2>1 DEF WithoutEntryOf
  <2>2. CASE EntryOf(w, source) # {}
    <3>1. PICK i \in EntryOf(w, source) : kept = RemoveAt(w, i)
      BY <2>2 DEF WithoutEntryOf
    <3>2. i \in 1..Len(w) /\ EntryOf(w, source) = {i} /\ DOMAIN w = 1..Len(w)
      BY <1>1, <3>1 DEF EntryOf
    <3>3. Range(kept) = {w[j] : j \in (1..Len(w)) \ {i}}
      BY <1>1, <3>1, <3>2, RangeOfRemoval
    <3>4. Range(w) = {w[j] : j \in 1..Len(w)}
      BY <3>2 DEF Range
    <3>5. /\ \A j \in 1..Len(w) : w[j] = w[i] => j = i
          /\ w[i] \notin running["fast"]
      BY <1>1, <3>2, OwnPlaces
    <3>6. gone = {w[i]}
      BY <3>2
    <3> QED
      BY <3>2, <3>3, <3>4, <3>5, <3>6
  <2> QED
    BY <2>1, <2>2
<1> HIDE DEF gone
<1>6. gone \subseteq HeldIn("fast") /\ HeldIn("fast")' = (HeldIn("fast") \ gone) \cup {t}
  BY <1>3, <1>4, <1>5 DEF HeldIn
<1>7. \A p \in Queues : p # "fast" => HeldIn(p)' = HeldIn(p)
  BY <1>4 DEF HeldIn
<1>8. TakesAndPuts(gone, {t})
  BY <1>1, <1>6, <1>7, OneQueueTakesAndPuts
<1> QED
  BY <1>8 DEF gone

-----------------------------------------------------------------------------
(* Every asked task ends once.                                             *)

(* A queue runs one task at most.                                          *)
OneRuns == \A q \in Queues : \A t, u \in running[q] : t = u

LEMMA OneRunsStep ==
  ASSUME TypeOK, OneRuns, [Next]_vars
  PROVE  OneRuns'
<1>1. ASSUME UNCHANGED running PROVE OneRuns'
  BY <1>1 DEF OneRuns
<1>2. ASSUME NEW q \in Queues, NEW t, running' = [running EXCEPT ![q] = {t}] PROVE OneRuns'
  BY <1>2 DEF OneRuns, TypeOK
<1>3. ASSUME NEW q \in Queues, running' = [running EXCEPT ![q] = {}] PROVE OneRuns'
  BY <1>3 DEF OneRuns, TypeOK
<1>4. ASSUME NEW op \in AskedOps, NEW n \in Nodes \cup {NoNode}, StartAsked(op, n)
      PROVE  OneRuns'
  <2>1. QueueOf(op) \in Queues
    BY DEF QueueOf, Queues
  <2>2. UNCHANGED running \/ running' = [running EXCEPT ![QueueOf(op)] = {NewAsked(op, n)}]
    BY <1>4, Zenon DEF StartAsked, Run
  <2> QED
    BY <1>1, <1>2, <2>1, <2>2
<1>5. ASSUME NEW s \in Sources, NEW r \in QuietRanks, NEW n \in Nodes, StartQuiet(s, r, n)
      PROVE  OneRuns'
  <2>1. UNCHANGED running \/ running' = [running EXCEPT !["fast"] = {NewQuiet(s, r, n)}]
    BY <1>5, Zenon DEF StartQuiet, Run
  <2> QED
    BY <1>1, <1>2, <2>1 DEF Queues
<1>6. ASSUME NEW q \in Queues, Land(q) PROVE OneRuns'
  <2>1. PICK k \in 1..(Len(waiting[q]) + 1) :
          running' = [running EXCEPT ![q] =
                        IF k <= Len(waiting[q]) THEN {waiting[q][k]} ELSE {}]
    BY <1>6, LandQueues
  <2>2. CASE k <= Len(waiting[q])
    BY <1>2, <2>1, <2>2
  <2>3. CASE ~(k <= Len(waiting[q]))
    BY <1>3, <2>1, <2>3
  <2> QED
    BY <2>2, <2>3
<1>7. ASSUME NEW q \in Queues, CancelRunning(q) \/ WorkerAnswers(q) \/ WorkerDone(q)
      PROVE  OneRuns'
  BY <1>1, <1>7 DEF CancelRunning, WorkerAnswers, WorkerDone
<1>8. ASSUME NEW q \in Queues, NEW i \in 1..Len(waiting[q]), CancelWaiting(q, i)
      PROVE  OneRuns'
  BY <1>1, <1>8 DEF CancelWaiting
<1>9. ASSUME NEW q \in Queues, NEW id \in 1..MaxQuiet, CancelQuiet(q, id) PROVE OneRuns'
  BY <1>1, <1>9 DEF CancelQuiet
<1>10. ASSUME NEW n \in Nodes, MoveCursor(n) \/ CloseNode(n) PROVE OneRuns'
  BY <1>1, <1>10 DEF MoveCursor, CloseNode
<1>11. ASSUME CloseAll \/ UNCHANGED vars PROVE OneRuns'
  BY <1>1, <1>11 DEF CloseAll, vars
<1> QED
  BY <1>4, <1>5, <1>6, <1>7, <1>8, <1>9, <1>10, <1>11 DEF Next

Booked == Ordered /\ OneRuns /\ EndsOnce

(* A step that writes a row for exactly the asked tasks it takes out, and  *)
(* puts in at most one asked task, with the next id.                       *)
LEMMA RowsKept ==
  ASSUME Placed, EndsOnce, NEW gone, NEW new, TakesAndPuts(gone, new),
         \A t \in new : ~t.quiet => t.id = nextId /\ nextId' = nextId + 1,
         (\A t \in new : t.quiet) => nextId' = nextId,
         \A i \in 1..MaxAsked :
           rows'[i] = IF \E t \in gone : ~t.quiet /\ t.id = i THEN rows[i] + 1 ELSE rows[i]
  PROVE  EndsOnce'
<1> SUFFICES ASSUME NEW i \in 1..MaxAsked
             PROVE  IF \E t \in Held' : ~t.quiet /\ t.id = i
                    THEN i < nextId' /\ rows'[i] = 0
                    ELSE rows'[i] = IF i < nextId' THEN 1 ELSE 0
  BY DEF EndsOnce
<1>1. nextId \in Int /\ i \in Int
  BY ConstantsAssumption DEF Placed, TypeOK
<1>2. gone \subseteq Held /\ Held' = (Held \ gone) \cup new
  BY DEF TakesAndPuts
<1>3. \A t \in Held : ~t.quiet => t.id < nextId
  BY DEF Placed, HandedOut
<1>4. IF \E t \in Held : ~t.quiet /\ t.id = i
      THEN i < nextId /\ rows[i] = 0
      ELSE rows[i] = IF i < nextId THEN 1 ELSE 0
  BY DEF EndsOnce
<1>5. CASE \E t \in new : ~t.quiet /\ t.id = i
  <2>1. i = nextId /\ nextId' = nextId + 1
    BY <1>5
  <2>2. ~\E t \in Held : ~t.quiet /\ t.id = i
    BY <1>1, <1>3, <2>1
  <2>3. ~\E t \in gone : ~t.quiet /\ t.id = i
    BY <1>2, <2>2
  <2>4. rows'[i] = 0
    BY <1>1, <1>4, <2>1, <2>2, <2>3
  <2>5. \E t \in Held' : ~t.quiet /\ t.id = i
    BY <1>2, <1>5
  <2> QED
    BY <1>1, <2>1, <2>4, <2>5
<1>6. CASE ~\E t \in new : ~t.quiet /\ t.id = i
  <2>1. i < nextId' <=> i < nextId
    <3>1. CASE \A t \in new : t.quiet
      BY <3>1
    <3>2. ASSUME NEW t \in new, ~t.quiet PROVE i < nextId' <=> i < nextId
      <4>1. t.id = nextId /\ nextId' = nextId + 1
        BY <3>2
      <4>2. i # nextId
        BY <1>6, <3>2, <4>1
      <4> QED
        BY <1>1, <4>1, <4>2
    <3> QED
      BY <3>1, <3>2
  <2>2. CASE \E t \in gone : ~t.quiet /\ t.id = i
    <3>1. PICK g \in gone : ~g.quiet /\ g.id = i
      BY <2>2
    <3>2. i < nextId /\ rows[i] = 0
      BY <1>2, <1>4, <3>1
    <3>3. ASSUME NEW t \in Held', ~t.quiet, t.id = i PROVE FALSE
      <4>1. t \in Held /\ t \notin gone
        BY <1>2, <1>6, <3>3
      <4>2. t.quiet = g.quiet
        <5>1. t.quiet \in BOOLEAN /\ g.quiet \in BOOLEAN
          BY <1>2, <3>1, <4>1, HeldAreTasks, TaskRanks DEF Placed
        <5> QED
          BY <3>1, <3>3, <5>1
      <4> QED
        BY <1>2, <3>1, <3>3, <4>1, <4>2, UniqueIds
    <3>4. rows'[i] = 1
      BY <2>2, <3>2
    <3> QED
      BY <2>1, <3>2, <3>3, <3>4
  <2>3. CASE ~\E t \in gone : ~t.quiet /\ t.id = i
    <3>1. (\E t \in Held' : ~t.quiet /\ t.id = i) <=> \E t \in Held : ~t.quiet /\ t.id = i
      BY <1>2, <1>6, <2>3
    <3>2. rows'[i] = rows[i]
      BY <2>3
    <3> QED
      BY <1>4, <2>1, <3>1, <3>2
  <2> QED
    BY <2>2, <2>3
<1> QED
  BY <1>5, <1>6

(* A step that touches no asked task.                                      *)
LEMMA NoRowNeeded ==
  ASSUME Placed, EndsOnce, NEW gone, NEW new, TakesAndPuts(gone, new),
         \A t \in gone \cup new : t.quiet, UNCHANGED nextId, UNCHANGED rows
  PROVE  EndsOnce'
  BY RowsKept

LEMMA StartAskedTakesAndPuts ==
  ASSUME Ordered, NEW op \in AskedOps, NEW n \in Nodes \cup {NoNode}, StartAsked(op, n)
  PROVE  \/ TakesAndPuts({}, {NewAsked(op, n)}) /\ nextId' = nextId + 1
         \/ TakesAndPuts({}, {}) /\ nextId' = nextId
<1> DEFINE q == QueueOf(op)
           t == NewAsked(op, n)
<1>1. q \in Queues
  BY DEF QueueOf, Queues
<1>2. t \in Task /\ Placed
  BY NewAskedIsTask DEF StartAsked, Ordered, Placed
<1>3. \/ /\ UNCHANGED running /\ nextId' = nextId + 1
         /\ \E at \in AskedPlaces(waiting[q]) :
              waiting' = [waiting EXCEPT ![q] = InsertAt(@, at, t)]
      \/ Run(q, t) /\ UNCHANGED waiting /\ nextId' = nextId + 1
      \/ UNCHANGED running /\ UNCHANGED waiting /\ UNCHANGED nextId
  BY DEF StartAsked
<1> HIDE DEF q, t
<1>4. CASE /\ UNCHANGED running /\ nextId' = nextId + 1
           /\ \E at \in AskedPlaces(waiting[q]) :
                waiting' = [waiting EXCEPT ![q] = InsertAt(@, at, t)]
  <2>1. PICK at \in AskedPlaces(waiting[q]) :
          waiting' = [waiting EXCEPT ![q] = InsertAt(waiting[q], at, t)]
    BY <1>4
  <2>2. at \in 1..(Len(waiting[q]) + 1)
    BY DEF AskedPlaces
  <2>3. TakesAndPuts({}, {t})
    BY <1>1, <1>2, <1>4, <2>1, <2>2, InsertionPuts
  <2> QED
    BY <1>4, <2>3 DEF t
<1>5. CASE Run(q, t) /\ UNCHANGED waiting /\ nextId' = nextId + 1
  <2>1. TakesAndPuts({}, {t})
    BY <1>1, <1>2, <1>5, StartPuts
  <2> QED
    BY <1>5, <2>1 DEF t
<1>6. CASE UNCHANGED running /\ UNCHANGED waiting /\ UNCHANGED nextId
  BY <1>6, SameQueuesTakeNothing
<1> QED
  BY <1>3, <1>4, <1>5, <1>6

(* What a quiet request does to the queues and what it tells the sources:  *)
(* the entry it replaces hears so, and the request is queued, starts, or   *)
(* is told that it will not.                                               *)
LEMMA StartQuietTakesAndPuts ==
  ASSUME Ordered, NEW source \in Sources, NEW rank \in QuietRanks, NEW n \in Nodes,
         StartQuiet(source, rank, n)
  PROVE  LET w == waiting["fast"]
             t == NewQuiet(source, rank, n)
             gone == {w[i] : i \in EntryOf(w, source)}
         IN \/ /\ TakesAndPuts(gone, {t}) /\ UNCHANGED <<running, worker>>
               /\ told' = Tell({u.id : u \in gone}, "dropped")
            \/ /\ TakesAndPuts({}, {t}) /\ Run("fast", t)
               /\ waiting["fast"] = <<>> /\ UNCHANGED waiting /\ UNCHANGED told
               /\ ~(WaitsForItsNode(source) /\ Busy(n))
            \/ /\ TakesAndPuts({}, {}) /\ UNCHANGED <<running, worker, waiting>>
               /\ waiting["fast"] = <<>>
               /\ \E word \in {"dropped", "failed"} : told' = Tell({nextQuietId}, word)
<1> DEFINE w == waiting["fast"]
           t == NewQuiet(source, rank, n)
           gone == {w[i] : i \in EntryOf(w, source)}
           replaced == {w[i].id : i \in EntryOf(w, source)}
<1>1. Placed /\ QueueOrder /\ TypeOK /\ "fast" \in Queues /\ w \in Seq(Task)
  BY DEF Ordered, Placed, TypeOK, Queues
<1>2. t \in Task
  BY <1>1, NewQuietIsTask DEF StartQuiet
<1>3. replaced = {u.id : u \in gone}
  OBVIOUS
<1>4. PICK kept \in WithoutEntryOf(w, source) :
        \/ /\ UNCHANGED <<running, worker>>
           /\ \E at \in QuietPlaces(kept, rank) :
                waiting' = [waiting EXCEPT !["fast"] = InsertAt(kept, at, t)]
           /\ told' = Tell(replaced, "dropped")
        \/ /\ UNCHANGED <<running, worker>> /\ running["fast"] = {}
           /\ waiting' = [waiting EXCEPT !["fast"] = kept]
           /\ told' = Tell(replaced \cup {nextQuietId}, "dropped")
        \/ /\ Run("fast", t) /\ waiting' = [waiting EXCEPT !["fast"] = kept]
           /\ told' = Tell(replaced, "dropped")
           /\ ~(WaitsForItsNode(source) /\ Busy(n))
        \/ /\ UNCHANGED <<running, worker>> /\ running["fast"] = {}
           /\ waiting' = [waiting EXCEPT !["fast"] = kept]
           /\ told' = Tell({nextQuietId}, "failed")
  BY Zenon DEF StartQuiet
<1>5. ASSUME running["fast"] = {}, waiting' = [waiting EXCEPT !["fast"] = kept]
      PROVE  replaced = {} /\ UNCHANGED waiting /\ w = <<>>
  <2>1. w = <<>>
    BY <1>1, <1>5, NothingWaitsWhenIdle
  <2>2. kept = <<>> /\ EntryOf(w, source) = {}
    BY <2>1, NothingToReplace
  <2>3. UNCHANGED waiting
    BY <1>1, <1>5, <2>1, <2>2 DEF TypeOK
  <2> QED
    BY <2>1, <2>2, <2>3
<1>6. Tell({}, "dropped") = told
  BY <1>1 DEF Tell, TypeOK
<1> HIDE DEF t, gone, replaced
<1>7. CASE /\ UNCHANGED <<running, worker>>
           /\ \E at \in QuietPlaces(kept, rank) :
                waiting' = [waiting EXCEPT !["fast"] = InsertAt(kept, at, t)]
           /\ told' = Tell(replaced, "dropped")
  <2>1. PICK at \in QuietPlaces(kept, rank) :
          waiting' = [waiting EXCEPT !["fast"] = InsertAt(kept, at, t)]
    BY <1>7
  <2>2. at \in 1..(Len(kept) + 1)
    BY DEF QuietPlaces
  <2>3. TakesAndPuts(gone, {t})
    BY <1>1, <1>2, <1>7, <2>1, <2>2, ReplacementTakesAndPuts DEF gone
  <2> QED
    BY <1>3, <1>7, <2>3 DEF t, gone
<1>8. CASE /\ UNCHANGED <<running, worker>> /\ running["fast"] = {}
           /\ waiting' = [waiting EXCEPT !["fast"] = kept]
           /\ \/ told' = Tell(replaced \cup {nextQuietId}, "dropped")
              \/ told' = Tell({nextQuietId}, "failed")
  <2>1. replaced = {} /\ UNCHANGED waiting /\ w = <<>>
    BY <1>5, <1>8
  <2>2. TakesAndPuts({}, {})
    BY <1>8, <2>1, SameQueuesTakeNothing
  <2>3. replaced \cup {nextQuietId} = {nextQuietId}
    BY <2>1
  <2>4. \E word \in {"dropped", "failed"} : told' = Tell({nextQuietId}, word)
    BY <1>8, <2>3
  <2>5. UNCHANGED <<running, worker, waiting>>
    BY <1>8, <2>1
  <2> QED
    BY <2>1, <2>2, <2>4, <2>5
<1>9. CASE /\ Run("fast", t) /\ waiting' = [waiting EXCEPT !["fast"] = kept]
           /\ told' = Tell(replaced, "dropped")
           /\ ~(WaitsForItsNode(source) /\ Busy(n))
  <2>1. running["fast"] = {}
    BY <1>9 DEF Run
  <2>2. replaced = {} /\ UNCHANGED waiting /\ w = <<>>
    BY <1>5, <1>9, <2>1
  <2>3. TakesAndPuts({}, {t})
    BY <1>1, <1>9, <2>2, StartPuts
  <2> QED
    BY <1>6, <1>9, <2>2, <2>3 DEF t
<1> QED
  BY <1>4, <1>7, <1>8, <1>9

(* The landing of `t` in the queue q, whose next task is the one at k:     *)
(* what it takes out of the queues, and who hears of it, with one row for  *)
(* each asked task and one word for each quiet one that never started.     *)
Leaving(q, t, k) == {t} \cup {waiting[q][i] : i \in 1..(k - 1)}

LandsAs(q, t, k) ==
  LET w == waiting[q]
  IN /\ running[q] = {t}
     /\ k \in NextToStart(q) /\ k \in 1..(Len(w) + 1)
     /\ TakesAndPuts(Leaving(q, t, k), {})
     /\ worker[q] \in {"produced", "nothing"}
     /\ Finish(t, worker[q])
     /\ running' = [running EXCEPT ![q] = IF k <= Len(w) THEN {w[k]} ELSE {}]
     /\ waiting' = [waiting EXCEPT ![q] = SubSeq(w, k + 1, Len(w))]
     /\ worker' = [worker EXCEPT ![q] = IF k <= Len(w) THEN "computing" ELSE "none"]
     /\ \A i \in 1..MaxAsked :
          rows'[i] = IF \E u \in Leaving(q, t, k) : ~u.quiet /\ u.id = i
                     THEN rows[i] + 1 ELSE rows[i]
     /\ \A i \in 1..MaxQuiet :
          IF \E j \in 1..(k - 1) : w[j].quiet /\ w[j].id = i
          THEN \E word \in {"dropped", "failed"} : told'[i] = told[i] \cup {word}
          ELSE told'[i] = told[i]

LEMMA LandTakesAndPuts ==
  ASSUME Ordered, OneRuns, NEW q \in Queues, Land(q)
  PROVE  \E t \in running[q], k \in NextToStart(q) : LandsAs(q, t, k)
<1> DEFINE w == waiting[q]
           Dropped(k) == {i \in 1..(k - 1) : MustDrop(q, i)}
           Failed(k) == (1..(k - 1)) \ Dropped(k)
           Unspawned(k) == {w[i] : i \in Failed(k)}
           Ended(t, k) == {u.id : u \in {v \in {t} \cup Unspawned(k) : ~v.quiet}}
           DroppedIds(k) == {w[i].id : i \in Dropped(k)}
           FailedIds(k) == {u.id : u \in {v \in Unspawned(k) : v.quiet}}
<1>1. PICK t \in running[q], k \in NextToStart(q) :
        /\ worker[q] \in {"produced", "nothing"}
        /\ Finish(t, worker[q])
        /\ running' = [running EXCEPT ![q] = IF k <= Len(w) THEN {w[k]} ELSE {}]
        /\ waiting' = [waiting EXCEPT ![q] = SubSeq(w, k + 1, Len(w))]
        /\ worker' = [worker EXCEPT ![q] = IF k <= Len(w) THEN "computing" ELSE "none"]
        /\ rows' = [i \in 1..MaxAsked |-> IF i \in Ended(t, k) THEN rows[i] + 1 ELSE rows[i]]
        /\ told' = TellBoth(DroppedIds(k), FailedIds(k))
  BY Zenon DEF Land
<1>2. k \in 1..(Len(w) + 1)
  BY DEF NextToStart
<1>3. running[q] = {t}
  BY DEF OneRuns
<1>4. Placed /\ TypeOK
  BY DEF Ordered, Placed
<1>5. TakesAndPuts({t} \cup {w[i] : i \in 1..(k - 1)}, {})
  BY <1>1, <1>2, <1>3, <1>4, LandingTakes
<1>6. \A i \in 1..(k - 1) : w[i] \in Task /\ (MustDrop(q, i) => w[i].quiet)
  <2>1. \A i \in 1..(k - 1) : i \in 1..Len(w) /\ w[i] \in Task
    BY <1>2, <1>4, ElementOfSeq DEF TypeOK
  <2> QED
    BY <2>1, TaskRanks DEF MustDrop
<1>7. ASSUME NEW i
      PROVE  i \in Ended(t, k) <=> \E u \in {t} \cup {w[j] : j \in 1..(k - 1)} :
                                      ~u.quiet /\ u.id = i
  <2>1. i \in Ended(t, k) <=> \E u \in {t} \cup Unspawned(k) : ~u.quiet /\ u.id = i
    BY Zenon
  <2>2. \A u \in Unspawned(k) : u \in {w[j] : j \in 1..(k - 1)}
    OBVIOUS
  <2>3. ASSUME NEW j \in 1..(k - 1), ~w[j].quiet
        PROVE  w[j] \in Unspawned(k)
    <3>1. ~MustDrop(q, j)
      BY <1>6, <2>3
    <3> QED
      BY <3>1
  <2> HIDE DEF Unspawned, Ended
  <2> QED
    BY <2>1, <2>2, <2>3
<1>8. ASSUME NEW i
      PROVE  i \in DroppedIds(k) \cup FailedIds(k) <=>
               \E j \in 1..(k - 1) : w[j].quiet /\ w[j].id = i
  <2>1. i \in DroppedIds(k) <=> \E j \in Dropped(k) : w[j].id = i
    OBVIOUS
  <2>2. i \in FailedIds(k) <=> \E j \in Failed(k) : w[j].quiet /\ w[j].id = i
    BY Zenon
  <2>3. \A j \in Dropped(k) : w[j].quiet
    BY <1>6
  <2>4. 1..(k - 1) = Dropped(k) \cup Failed(k)
    OBVIOUS
  <2> HIDE DEF DroppedIds, FailedIds, Dropped, Failed
  <2> QED
    BY <2>1, <2>2, <2>3, <2>4
<1> HIDE DEF Ended, DroppedIds, FailedIds
<1>9. \A i \in 1..MaxAsked :
        rows'[i] = IF \E u \in {t} \cup {w[j] : j \in 1..(k - 1)} : ~u.quiet /\ u.id = i
                   THEN rows[i] + 1 ELSE rows[i]
  BY <1>1, <1>7
<1>10. ASSUME NEW i \in 1..MaxQuiet
       PROVE  IF \E j \in 1..(k - 1) : w[j].quiet /\ w[j].id = i
              THEN \E word \in {"dropped", "failed"} : told'[i] = told[i] \cup {word}
              ELSE told'[i] = told[i]
  <2>1. told'[i] = IF i \in DroppedIds(k) THEN told[i] \cup {"dropped"}
                   ELSE IF i \in FailedIds(k) THEN told[i] \cup {"failed"}
                   ELSE told[i]
    BY <1>1 DEF TellBoth
  <2> QED
    BY <1>8, <2>1
<1>11. LandsAs(q, t, k)
  BY <1>1, <1>2, <1>3, <1>5, <1>9, <1>10, Zenon DEF LandsAs, Leaving
<1> QED
  BY <1>11

LEMMA EndsOnceStep ==
  ASSUME Booked, [Next]_vars
  PROVE  EndsOnce'
<1>0. Ordered /\ Placed /\ TypeOK /\ OneRuns /\ EndsOnce
  BY DEF Booked, Ordered, Placed
<1>1. ASSUME NEW op \in AskedOps, NEW n \in Nodes \cup {NoNode}, StartAsked(op, n)
      PROVE  EndsOnce'
  <2>1. UNCHANGED rows
    BY <1>1 DEF StartAsked
  <2>2. ~NewAsked(op, n).quiet /\ NewAsked(op, n).id = nextId
    BY DEF NewAsked
  <2>3. CASE TakesAndPuts({}, {NewAsked(op, n)}) /\ nextId' = nextId + 1
    BY <1>0, <2>1, <2>2, <2>3, RowsKept
  <2>4. CASE TakesAndPuts({}, {}) /\ nextId' = nextId
    BY <1>0, <2>1, <2>4, NoRowNeeded
  <2> QED
    BY <1>0, <1>1, <2>3, <2>4, StartAskedTakesAndPuts
<1>2. ASSUME NEW s \in Sources, NEW r \in QuietRanks, NEW n \in Nodes, StartQuiet(s, r, n)
      PROVE  EndsOnce'
  <2> DEFINE w == waiting["fast"]
             t == NewQuiet(s, r, n)
             gone == {w[i] : i \in EntryOf(w, s)}
  <2>1. UNCHANGED rows /\ UNCHANGED nextId
    BY <1>2 DEF StartQuiet
  <2>2. t.quiet
    BY DEF NewQuiet
  <2>3. \A u \in gone : u.quiet
    <3>1. \A i \in EntryOf(w, s) : i \in 1..Len(w) /\ w[i].op = s
      BY DEF EntryOf
    <3>2. \A i \in 1..Len(w) : w[i] \in Task
      BY <1>0, ElementOfSeq DEF TypeOK, Queues
    <3> QED
      BY <3>1, <3>2, TaskRanks, ConstantsAssumption
  <2> HIDE DEF t, gone
  <2>4. TakesAndPuts(gone, {t}) \/ TakesAndPuts({}, {t}) \/ TakesAndPuts({}, {})
    BY <1>0, <1>2, StartQuietTakesAndPuts DEF t, gone
  <2> QED
    BY <1>0, <2>1, <2>2, <2>3, <2>4, NoRowNeeded
<1>3. ASSUME NEW q \in Queues, NEW i \in 1..Len(waiting[q]), CancelWaiting(q, i)
      PROVE  EndsOnce'
  <2> DEFINE u == waiting[q][i]
  <2>1. TakesAndPuts({u}, {}) /\ ~u.quiet /\ UNCHANGED nextId
    BY <1>0, <1>3, RemovalTakes DEF CancelWaiting
  <2>2. rows' = [rows EXCEPT ![u.id] = @ + 1]
    BY <1>3 DEF CancelWaiting
  <2> HIDE DEF u
  <2>3. \A j \in 1..MaxAsked :
          rows'[j] = IF \E t \in {u} : ~t.quiet /\ t.id = j THEN rows[j] + 1 ELSE rows[j]
    BY <1>0, <2>1, <2>2 DEF TypeOK
  <2> QED
    BY <1>0, <2>1, <2>3, RowsKept
<1>4. ASSUME UNCHANGED running, UNCHANGED waiting, UNCHANGED nextId, UNCHANGED rows
      PROVE  EndsOnce'
  <2>1. TakesAndPuts({}, {})
    BY <1>4, SameQueuesTakeNothing
  <2> QED
    BY <1>0, <1>4, <2>1, NoRowNeeded
<1>5. ASSUME NEW q \in Queues, NEW id \in 1..MaxQuiet, CancelQuiet(q, id) PROVE EndsOnce'
  <2>1. ASSUME NEW i \in 1..Len(waiting[q]), waiting[q][i].quiet,
               waiting' = [waiting EXCEPT ![q] = RemoveAt(@, i)],
               UNCHANGED running, UNCHANGED nextId, UNCHANGED rows
        PROVE  EndsOnce'
    <3>1. TakesAndPuts({waiting[q][i]}, {})
      BY <1>0, <2>1, RemovalTakes
    <3> QED
      BY <1>0, <2>1, <3>1, NoRowNeeded
  <2> QED
    BY <1>4, <1>5, <2>1 DEF CancelQuiet
<1>6. ASSUME NEW q \in Queues, Land(q) PROVE EndsOnce'
  <2>1. UNCHANGED nextId
    BY <1>6, Zenon DEF Land
  <2>2. PICK t \in running[q], k \in NextToStart(q) : LandsAs(q, t, k)
    BY <1>0, <1>6, LandTakesAndPuts
  <2>3. /\ TakesAndPuts(Leaving(q, t, k), {})
        /\ \A i \in 1..MaxAsked :
             rows'[i] = IF \E u \in Leaving(q, t, k) : ~u.quiet /\ u.id = i
                        THEN rows[i] + 1 ELSE rows[i]
    BY <2>2 DEF LandsAs
  <2> QED
    BY <1>0, <2>1, <2>3, RowsKept
<1>7. ASSUME NEW q \in Queues, CancelRunning(q) \/ WorkerAnswers(q) \/ WorkerDone(q)
      PROVE  EndsOnce'
  BY <1>4, <1>7 DEF CancelRunning, WorkerAnswers, WorkerDone
<1>8. ASSUME NEW n \in Nodes, MoveCursor(n) \/ CloseNode(n) PROVE EndsOnce'
  BY <1>4, <1>8 DEF MoveCursor, CloseNode
<1>9. ASSUME CloseAll \/ UNCHANGED vars PROVE EndsOnce'
  BY <1>4, <1>9 DEF CloseAll, vars
<1> QED
  BY <1>1, <1>2, <1>3, <1>5, <1>6, <1>7, <1>8, <1>9 DEF Next

LEMMA BookedInit == Init => Booked
<1> SUFFICES ASSUME Init PROVE Booked
  OBVIOUS
<1>1. TypeOK /\ Ordered
  BY TypeInit, OrderedInit
<1>2. OneRuns
  BY DEF Init, OneRuns
<1>3. Held = {}
  BY DEF Init, Held, HeldIn, Range, Queues
<1>4. EndsOnce
  BY <1>3 DEF Init, EndsOnce
<1> QED
  BY <1>1, <1>2, <1>4 DEF Booked

LEMMA BookedStep == Booked /\ [Next]_vars => Booked'
<1> SUFFICES ASSUME Booked, [Next]_vars PROVE Booked'
  OBVIOUS
<1>1. Ordered /\ TypeOK /\ OneRuns
  BY DEF Booked, Ordered, Placed
<1> QED
  BY <1>1, OrderedStep, OneRunsStep, EndsOnceStep DEF Booked

LEMMA AlwaysBooked == Spec => []Booked
  BY BookedInit, BookedStep, PTL DEF Spec

(* Every id handed out to an asked task is a task some queue holds, with   *)
(* no row yet, or one that ended with exactly one row: cancelled while it  *)
(* waited, landed, or refused a thread (end_before_start, apply_reports).  *)
THEOREM AlwaysEndsOnce == Spec => []EndsOnce
<1>1. Booked => EndsOnce
  BY DEF Booked
<1> QED
  BY <1>1, AlwaysBooked, PTL

-----------------------------------------------------------------------------
(* Every quiet request is told what became of it once.                     *)

(* What a source was told, by id: one thing at most, nothing before the id *)
(* is handed out, and nothing only as long as a queue holds the request.   *)
ToldOnce ==
  \A i \in 1..MaxQuiet :
    /\ \A a, b \in told[i] : a = b
    /\ i >= nextQuietId => told[i] = {}
    /\ i < nextQuietId /\ told[i] = {} => \E t \in Held : t.quiet /\ t.id = i

Waits(t) == \E q \in Queues : t \in Range(waiting[q])

(* A request still waiting has heard nothing, and one that runs has heard  *)
(* its answer as soon as its worker is past the computation.               *)
WaitingUnheard == \A t \in Held : t.quiet /\ Waits(t) => told[t.id] = {}

RunningHeard ==
  \A q \in Queues : \A t \in running[q] : t.quiet =>
    /\ worker[q] \in {"computing", "answered", "nothing"}
    /\ told[t.id] = {} <=> worker[q] = "computing"

Told == ToldOnce /\ WaitingUnheard /\ RunningHeard

LEMMA WaitingOrRunning ==
  ASSUME Placed, NEW t
  PROVE  /\ t \in Held <=> Waits(t) \/ \E q \in Queues : t \in running[q]
         /\ Waits(t) => \A q \in Queues : t \notin running[q]
<1>1. t \in Held <=> Waits(t) \/ \E q \in Queues : t \in running[q]
  BY DEF Held, HeldIn, Waits, Queues
<1>2. ASSUME NEW q \in Queues, t \in Range(waiting[q]), NEW p \in Queues, t \in running[p]
      PROVE  FALSE
  <2>1. CASE p = q
    <3>1. DOMAIN waiting[q] = 1..Len(waiting[q])
      BY DEF Placed, TypeOK
    <3>2. PICK i \in 1..Len(waiting[q]) : waiting[q][i] = t
      BY <1>2, <3>1 DEF Range
    <3> QED
      BY <1>2, <2>1, <3>2, OwnPlaces
  <2>2. CASE p # q
    BY <1>2, <2>2, OwnPlaces DEF HeldIn
  <2> QED
    BY <2>1, <2>2
<1> QED
  BY <1>1, <1>2 DEF Waits

LEMMA WaitingOrRunningNext ==
  ASSUME Placed', NEW t
  PROVE  /\ t \in Held' <=> Waits(t)' \/ \E q \in Queues : t \in running'[q]
         /\ Waits(t)' => \A q \in Queues : t \notin running'[q]
<1>1. Held' = HeldIn("slow")' \cup HeldIn("fast")'
  BY DEF Held
<1>2. \A q \in Queues : HeldIn(q)' = running'[q] \cup Range(waiting'[q])
  BY DEF HeldIn
<1>3. t \in Held' <=> Waits(t)' \/ \E q \in Queues : t \in running'[q]
  BY <1>1, <1>2 DEF Waits, Queues
<1>4. ASSUME NEW q \in Queues, t \in Range(waiting'[q]), NEW p \in Queues, t \in running'[p]
      PROVE  FALSE
  <2>1. DOMAIN waiting'[q] = 1..Len(waiting'[q]) /\ Len(waiting'[q]) \in Nat
    BY DEF Placed, TypeOK
  <2>2. PICK i \in 1..Len(waiting'[q]) : waiting'[q][i] = t
    BY <1>4, <2>1 DEF Range
  <2>3. i \in Places(q)' /\ t \in At(q, i)'
    BY <2>1, <2>2 DEF Places, At
  <2>4. 0 \in Places(p)' /\ t \in At(p, 0)'
    <3>1. Len(waiting'[p]) \in Nat
      BY DEF Placed, TypeOK
    <3> QED
      BY <1>4, <3>1 DEF Places, At
  <2> QED
    BY <2>2, <2>3, <2>4 DEF OnePlace, Placed
<1> QED
  BY <1>3, <1>4 DEF Waits

(* The words a step says: each to a request that had heard nothing, to     *)
(* every request taken out that had heard nothing, and to a new one if it  *)
(* is not put in.                                                          *)
LEMMA WordsSaid ==
  ASSUME ToldOnce, NEW gone, NEW new, TakesAndPuts(gone, new),
         nextQuietId \in Int, nextQuietId' \in {nextQuietId, nextQuietId + 1},
         nextQuietId' # nextQuietId => \/ told'[nextQuietId] # {}
                                       \/ \E t \in new : t.quiet /\ t.id = nextQuietId,
         \A t \in gone : t.quiet => told'[t.id] # {},
         \A i \in 1..MaxQuiet :
           \/ told'[i] = told[i]
           \/ told[i] = {} /\ i < nextQuietId' /\ \E word : told'[i] = {word}
  PROVE  ToldOnce'
<1> SUFFICES ASSUME NEW i \in 1..MaxQuiet
             PROVE  /\ \A a, b \in told'[i] : a = b
                    /\ i >= nextQuietId' => told'[i] = {}
                    /\ i < nextQuietId' /\ told'[i] = {} =>
                         \E t \in Held' : t.quiet /\ t.id = i
  BY DEF ToldOnce
<1>1. \A a, b \in told'[i] : a = b
  BY DEF ToldOnce
<1>2. i >= nextQuietId' => told'[i] = {}
  BY DEF ToldOnce
<1>3. ASSUME i < nextQuietId', told'[i] = {}
      PROVE  \E t \in Held' : t.quiet /\ t.id = i
  <2>1. told[i] = {}
    BY <1>3
  <2>2. CASE i < nextQuietId
    <3>1. PICK t \in Held : t.quiet /\ t.id = i
      BY <2>1, <2>2 DEF ToldOnce
    <3>2. t \notin gone
      BY <1>3, <3>1
    <3> QED
      BY <3>1, <3>2 DEF TakesAndPuts
  <2>3. CASE ~(i < nextQuietId)
    <3>1. i = nextQuietId /\ nextQuietId' # nextQuietId
      BY <1>3, <2>3
    <3> QED
      BY <1>3, <3>1 DEF TakesAndPuts
  <2> QED
    BY <2>2, <2>3
<1> QED
  BY <1>1, <1>2, <1>3

(* Only the requests `heard`, and the one it numbers, hear of a step.      *)
TellsOnly(heard) ==
  /\ heard \subseteq Held
  /\ \A i \in 1..MaxQuiet :
       told'[i] = told[i] \/ i = nextQuietId \/ \E t \in heard : t.quiet /\ t.id = i

LEMMA OthersHearNothing ==
  ASSUME Placed, NEW heard, TellsOnly(heard), NEW t \in Held, t \notin heard, t.quiet
  PROVE  told'[t.id] = told[t.id]
<1>1. t.id \in 1..MaxQuiet /\ t.quiet \in BOOLEAN
  BY HeldAreTasks, TaskRanks DEF Placed
<1>2. t.id < nextQuietId /\ nextQuietId \in Int
  BY ConstantsAssumption DEF Placed, HandedOut, TypeOK
<1>3. t.id # nextQuietId
  BY <1>1, <1>2
<1>4. ASSUME NEW u \in heard, u.quiet, u.id = t.id PROVE FALSE
  <2>1. u \in Held /\ u.quiet \in BOOLEAN
    BY HeldAreTasks, TaskRanks DEF TellsOnly, Placed
  <2>2. u.quiet = t.quiet
    BY <1>1, <1>4, <2>1
  <2> QED
    BY <1>4, <2>1, <2>2, UniqueIds
<1> QED
  BY <1>1, <1>3, <1>4 DEF TellsOnly

LEMMA StillUnheard ==
  ASSUME Placed, Placed', WaitingUnheard, NEW gone, NEW new, TakesAndPuts(gone, new),
         \A t \in new : t.quiet /\ Waits(t)' => told'[t.id] = {},
         NEW heard, TellsOnly(heard),
         \A t \in heard : t \in gone \/ \E q \in Queues : t \in running'[q],
         \A q \in Queues : running[q] \subseteq gone \cup running'[q]
  PROVE  WaitingUnheard'
<1> SUFFICES ASSUME NEW t \in Held', t.quiet, Waits(t)'
             PROVE  told'[t.id] = {}
  BY DEF WaitingUnheard
<1>1. CASE t \in new
  BY <1>1
<1>2. CASE t \notin new
  <2>1. t \in Held /\ t \notin gone
    BY <1>2 DEF TakesAndPuts
  <2>2. \A q \in Queues : t \notin running'[q]
    BY WaitingOrRunningNext
  <2>3. \A q \in Queues : t \notin running[q]
    BY <2>1, <2>2
  <2>4. Waits(t)
    BY <2>1, <2>3, WaitingOrRunning
  <2>5. t \notin heard
    BY <2>1, <2>2
  <2> QED
    BY <2>1, <2>4, <2>5, OthersHearNothing DEF WaitingUnheard
<1> QED
  BY <1>1, <1>2

LEMMA StillHeard ==
  ASSUME Placed, RunningHeard, NEW heard, TellsOnly(heard),
         \A q \in Queues : \A t \in running'[q] : t.quiet =>
           t \in running[q] /\ t \notin heard /\ worker'[q] = worker[q]
  PROVE  RunningHeard'
<1> SUFFICES ASSUME NEW q \in Queues, NEW t \in running'[q], t.quiet
             PROVE  /\ worker'[q] \in {"computing", "answered", "nothing"}
                    /\ told'[t.id] = {} <=> worker'[q] = "computing"
  BY DEF RunningHeard
<1>1. t \in running[q] /\ t \notin heard /\ worker'[q] = worker[q]
  OBVIOUS
<1>2. t \in Held
  BY <1>1, WaitingOrRunning
<1>3. told'[t.id] = told[t.id]
  BY <1>1, <1>2, OthersHearNothing
<1> QED
  BY <1>1, <1>3 DEF RunningHeard

LEMMA TellWords ==
  ASSUME NEW ids, NEW word, told' = Tell(ids, word)
  PROVE  \A i \in 1..MaxQuiet : told'[i] = IF i \in ids THEN told[i] \cup {word} ELSE told[i]
  BY DEF Tell

(* A step that says nothing to a quiet source.                             *)
LEMMA SilentStep ==
  ASSUME Placed, Placed', Told, NEW gone, NEW new, TakesAndPuts(gone, new),
         \A t \in gone \cup new : ~t.quiet, UNCHANGED told, UNCHANGED nextQuietId,
         \A q \in Queues : \A t \in running[q] : t.quiet => t \in running'[q],
         \A q \in Queues : \A t \in running'[q] : t.quiet =>
           t \in running[q] /\ worker'[q] = worker[q]
  PROVE  Told'
<1>1. ToldOnce /\ WaitingUnheard /\ RunningHeard
  BY DEF Told
<1>2. TellsOnly({})
  BY DEF TellsOnly
<1>3. nextQuietId \in Int
  BY ConstantsAssumption DEF Placed, TypeOK
<1>4. ToldOnce'
  BY <1>1, <1>3, WordsSaid
<1>5. WaitingUnheard'
  <2> SUFFICES ASSUME NEW t \in Held', t.quiet, Waits(t)'
               PROVE  told'[t.id] = {}
    BY DEF WaitingUnheard
  <2>1. t \in Held
    BY DEF TakesAndPuts
  <2>2. \A q \in Queues : t \notin running'[q]
    BY WaitingOrRunningNext
  <2>3. Waits(t)
    BY <2>1, <2>2, WaitingOrRunning
  <2> QED
    BY <1>1, <2>1, <2>3 DEF WaitingUnheard
<1>6. RunningHeard'
  BY <1>1, <1>2, StillHeard
<1> QED
  BY <1>4, <1>5, <1>6 DEF Told

LEMMA QuietQueueStep ==
  ASSUME Placed, Placed', Told, UNCHANGED running, UNCHANGED waiting, UNCHANGED worker,
         UNCHANGED told, UNCHANGED nextQuietId
  PROVE  Told'
<1>1. TakesAndPuts({}, {})
  BY SameQueuesTakeNothing
<1> QED
  BY <1>1, SilentStep

LEMMA StartAskedTells ==
  ASSUME Ordered, Placed', Told,
         NEW op \in AskedOps, NEW n \in Nodes \cup {NoNode}, StartAsked(op, n)
  PROVE  Told'
<1> DEFINE q == QueueOf(op)
           t == NewAsked(op, n)
<1>1. Placed /\ TypeOK /\ q \in Queues /\ ~t.quiet
  BY DEF Ordered, Placed, QueueOf, Queues, NewAsked
<1>2. UNCHANGED told /\ UNCHANGED nextQuietId
  BY DEF StartAsked
<1>3. \/ UNCHANGED <<running, worker>>
      \/ Run(q, t)
  BY Zenon DEF StartAsked
<1>4. TakesAndPuts({}, {t}) \/ TakesAndPuts({}, {})
  BY StartAskedTakesAndPuts
<1> HIDE DEF q, t
<1>5. CASE UNCHANGED <<running, worker>>
  BY <1>1, <1>2, <1>4, <1>5, SilentStep
<1>6. CASE Run(q, t)
  <2>1. /\ running[q] = {} /\ running'[q] = {t}
        /\ \A p \in Queues : p # q => running'[p] = running[p] /\ worker'[p] = worker[p]
    BY <1>1, <1>6 DEF Run, TypeOK
  <2>2. \A p \in Queues : \A u \in running[p] : u.quiet => u \in running'[p]
    BY <2>1
  <2>3. \A p \in Queues : \A u \in running'[p] : u.quiet =>
          u \in running[p] /\ worker'[p] = worker[p]
    BY <1>1, <2>1
  <2> QED
    BY <1>1, <1>2, <1>4, <2>2, <2>3, SilentStep
<1> QED
  BY <1>3, <1>5, <1>6

LEMMA StartQuietTells ==
  ASSUME Ordered, Placed', Told, NEW source \in Sources, NEW rank \in QuietRanks,
         NEW n \in Nodes, StartQuiet(source, rank, n)
  PROVE  Told'
<1> DEFINE w == waiting["fast"]
           t == NewQuiet(source, rank, n)
           gone == {w[i] : i \in EntryOf(w, source)}
<1>1. /\ Placed /\ TypeOK /\ "fast" \in Queues /\ t.quiet /\ t.id = nextQuietId
      /\ nextQuietId \in 1..MaxQuiet /\ nextQuietId' = nextQuietId + 1
      /\ nextQuietId \in Int /\ nextQuietId < nextQuietId'
  BY ConstantsAssumption DEF Ordered, Placed, TypeOK, Queues, NewQuiet, StartQuiet
<1>2. ToldOnce /\ WaitingUnheard /\ RunningHeard /\ told[nextQuietId] = {}
  BY <1>1 DEF Told, ToldOnce
<1>3. \/ /\ TakesAndPuts(gone, {t}) /\ UNCHANGED <<running, worker>>
         /\ told' = Tell({u.id : u \in gone}, "dropped")
      \/ /\ TakesAndPuts({}, {t}) /\ Run("fast", t) /\ UNCHANGED told
      \/ /\ TakesAndPuts({}, {}) /\ UNCHANGED <<running, worker>>
         /\ \E word \in {"dropped", "failed"} : told' = Tell({nextQuietId}, word)
  BY StartQuietTakesAndPuts
<1>4. \A u \in gone : /\ u \in Held /\ Waits(u) /\ u.quiet /\ u.id \in 1..MaxQuiet
                      /\ u.id < nextQuietId /\ told[u.id] = {}
  <2> SUFFICES ASSUME NEW i \in EntryOf(w, source)
               PROVE  /\ w[i] \in Held /\ Waits(w[i]) /\ w[i].quiet /\ w[i].id \in 1..MaxQuiet
                      /\ w[i].id < nextQuietId /\ told[w[i].id] = {}
    OBVIOUS
  <2>1. i \in 1..Len(w) /\ w[i].op \in AllSources
    BY ConstantsAssumption DEF EntryOf
  <2>2. w[i] \in Task /\ w[i] \in Held /\ w[i] \in Range(w)
    <3>1. w \in Seq(Task) /\ DOMAIN w = 1..Len(w)
      BY <1>1 DEF TypeOK
    <3> QED
      BY <1>1, <2>1, <3>1, WaitingAreHeld, ElementOfSeq DEF Range
  <2>3. w[i].quiet /\ w[i].id \in 1..MaxQuiet
    BY <2>1, <2>2, TaskRanks
  <2>4. Waits(w[i])
    BY <1>1, <2>2 DEF Waits
  <2> QED
    BY <1>1, <1>2, <2>2, <2>3, <2>4 DEF WaitingUnheard, Placed, HandedOut
<1> HIDE DEF t, gone
<1>5. CASE /\ TakesAndPuts(gone, {t}) /\ UNCHANGED <<running, worker>>
           /\ told' = Tell({u.id : u \in gone}, "dropped")
  <2>1. \A i \in 1..MaxQuiet : told'[i] = IF \E u \in gone : u.id = i
                                          THEN told[i] \cup {"dropped"} ELSE told[i]
    <3> DEFINE ids == {u.id : u \in gone}
    <3>1. \A i : i \in ids <=> \E u \in gone : u.id = i
      OBVIOUS
    <3>2. told' = Tell(ids, "dropped")
      BY <1>5
    <3> HIDE DEF ids
    <3> QED
      BY <3>1, <3>2, TellWords
  <2>2. TellsOnly(gone)
    BY <1>4, <2>1 DEF TellsOnly
  <2>3. told'[nextQuietId] = {}
    <3>1. ~\E u \in gone : u.id = nextQuietId
      BY <1>1, <1>4
    <3> QED
      BY <1>1, <1>2, <2>1, <3>1
  <2>4. \A i \in 1..MaxQuiet :
          \/ told'[i] = told[i]
          \/ told[i] = {} /\ i < nextQuietId' /\ \E word : told'[i] = {word}
    <3> SUFFICES ASSUME NEW i \in 1..MaxQuiet, NEW u \in gone, u.id = i
                 PROVE  told[i] = {} /\ i < nextQuietId' /\ \E word : told'[i] = {word}
      BY <2>1
    <3>1. told[i] = {} /\ i < nextQuietId
      BY <1>4
    <3>2. told'[i] = {"dropped"}
      BY <2>1, <3>1
    <3>3. i < nextQuietId'
      BY <1>1, <3>1
    <3> QED
      BY <3>1, <3>2, <3>3
  <2>5. ToldOnce'
    <3>1. \A u \in gone : u.quiet => told'[u.id] # {}
      BY <1>4, <2>1
    <3>2. \E u \in {t} : u.quiet /\ u.id = nextQuietId
      BY <1>1
    <3>3. TakesAndPuts(gone, {t}) /\ nextQuietId' \in {nextQuietId, nextQuietId + 1}
      BY <1>1, <1>5
    <3> QED
      BY <1>1, <1>2, <2>4, <3>1, <3>2, <3>3, WordsSaid
  <2>6. WaitingUnheard'
    BY <1>1, <1>2, <1>5, <2>2, <2>3, StillUnheard
  <2>7. \A q \in Queues : \A u \in running[q] : u \notin gone
    BY <1>1, <1>4, WaitingOrRunning
  <2>8. RunningHeard'
    BY <1>1, <1>2, <1>5, <2>2, <2>7, StillHeard
  <2> QED
    BY <2>5, <2>6, <2>8 DEF Told
<1>6. CASE TakesAndPuts({}, {t}) /\ Run("fast", t) /\ UNCHANGED told
  <2>1. TellsOnly({})
    BY <1>6 DEF TellsOnly
  <2>2. ToldOnce'
    <3>1. \E u \in {t} : u.quiet /\ u.id = nextQuietId
      BY <1>1
    <3> QED
      BY <1>1, <1>2, <1>6, <3>1, WordsSaid
  <2>3. /\ running["fast"] = {} /\ running'["fast"] = {t} /\ worker'["fast"] = "computing"
        /\ \A p \in Queues : p # "fast" => running'[p] = running[p] /\ worker'[p] = worker[p]
    BY <1>1, <1>6 DEF Run, TypeOK
  <2>4. WaitingUnheard'
    BY <1>1, <1>2, <1>6, <2>1, <2>3, StillUnheard
  <2>5. RunningHeard'
    <3> SUFFICES ASSUME NEW q \in Queues, NEW u \in running'[q], u.quiet
                 PROVE  /\ worker'[q] \in {"computing", "answered", "nothing"}
                        /\ told'[u.id] = {} <=> worker'[q] = "computing"
      BY DEF RunningHeard
    <3>1. CASE q = "fast"
      BY <1>1, <1>2, <1>6, <2>3, <3>1
    <3>2. CASE q # "fast"
      BY <1>2, <1>6, <2>3, <3>2 DEF RunningHeard
    <3> QED
      BY <3>1, <3>2
  <2> QED
    BY <2>2, <2>4, <2>5 DEF Told
<1>7. CASE /\ TakesAndPuts({}, {}) /\ UNCHANGED <<running, worker>>
           /\ \E word \in {"dropped", "failed"} : told' = Tell({nextQuietId}, word)
  <2>1. PICK word \in {"dropped", "failed"} : told' = Tell({nextQuietId}, word)
    BY <1>7
  <2>2. \A i \in 1..MaxQuiet : told'[i] = IF i = nextQuietId THEN told[i] \cup {word} ELSE told[i]
    BY <2>1, TellWords
  <2>3. TellsOnly({})
    BY <2>2 DEF TellsOnly
  <2>4. told'[nextQuietId] = {word}
    BY <1>1, <1>2, <2>2
  <2>5. \A i \in 1..MaxQuiet :
          \/ told'[i] = told[i]
          \/ told[i] = {} /\ i < nextQuietId' /\ \E other : told'[i] = {other}
    <3> SUFFICES ASSUME NEW i \in 1..MaxQuiet, i = nextQuietId
                 PROVE  told[i] = {} /\ i < nextQuietId' /\ \E other : told'[i] = {other}
      BY <2>2
    <3> QED
      BY <1>1, <1>2, <2>4
  <2>6. ToldOnce'
    <3>1. TakesAndPuts({}, {}) /\ nextQuietId' \in {nextQuietId, nextQuietId + 1}
      BY <1>1, <1>7
    <3>2. told'[nextQuietId] # {}
      BY <2>4
    <3> QED
      BY <1>1, <1>2, <2>5, <3>1, <3>2, WordsSaid
  <2>7. WaitingUnheard'
    BY <1>1, <1>2, <1>7, <2>3, StillUnheard
  <2>8. RunningHeard'
    BY <1>1, <1>2, <1>7, <2>3, StillHeard
  <2> QED
    BY <2>6, <2>7, <2>8 DEF Told
<1> QED
  BY <1>3, <1>5, <1>6, <1>7

(* A waiting request taken out and told so.                                *)
LEMMA CancelQuietTells ==
  ASSUME Ordered, Placed', Told, NEW q \in Queues, NEW i \in 1..Len(waiting[q]),
         waiting[q][i].quiet, waiting' = [waiting EXCEPT ![q] = RemoveAt(@, i)],
         told' = Tell({waiting[q][i].id}, "dropped"),
         UNCHANGED running, UNCHANGED worker, UNCHANGED nextQuietId
  PROVE  Told'
<1>0. PICK u : u = waiting[q][i]
  OBVIOUS
<1>1. Placed /\ TypeOK /\ ToldOnce /\ WaitingUnheard /\ RunningHeard /\ nextQuietId \in Int
  BY ConstantsAssumption DEF Ordered, Placed, TypeOK, Told
<1>2. TakesAndPuts({u}, {})
  BY <1>0, <1>1, RemovalTakes
<1>3. u \in Held /\ Waits(u) /\ u.quiet
  <2>1. DOMAIN waiting[q] = 1..Len(waiting[q])
    BY <1>1 DEF TypeOK
  <2> QED
    BY <1>0, <1>1, <2>1, WaitingAreHeld DEF Waits, Range
<1>4. told[u.id] = {} /\ u.id \in 1..MaxQuiet /\ u.id < nextQuietId
  BY <1>1, <1>3, HeldAreTasks, TaskRanks DEF WaitingUnheard, Placed, HandedOut
<1>5. \A j \in 1..MaxQuiet : told'[j] = IF j = u.id THEN told[j] \cup {"dropped"} ELSE told[j]
  <2> DEFINE ids == {u.id}
  <2>1. told' = Tell(ids, "dropped") /\ \A j : j \in ids <=> j = u.id
    BY <1>0
  <2> HIDE DEF ids
  <2>2. \A j \in 1..MaxQuiet : told'[j] = IF j \in ids THEN told[j] \cup {"dropped"} ELSE told[j]
    BY <2>1, TellWords
  <2> QED
    BY <2>1, <2>2
<1>6. told'[u.id] = {"dropped"}
  BY <1>4, <1>5
<1>7. TellsOnly({u})
  BY <1>3, <1>5 DEF TellsOnly
<1>8. ToldOnce'
  <2>1. \A j \in 1..MaxQuiet :
          \/ told'[j] = told[j]
          \/ told[j] = {} /\ j < nextQuietId' /\ \E word : told'[j] = {word}
    <3> SUFFICES ASSUME NEW j \in 1..MaxQuiet, j = u.id
                 PROVE  told[j] = {} /\ j < nextQuietId' /\ \E word : told'[j] = {word}
      BY <1>5
    <3> QED
      BY <1>4, <1>6
  <2>2. \A t \in {u} : t.quiet => told'[t.id] # {}
    BY <1>6
  <2>3. nextQuietId' \in {nextQuietId, nextQuietId + 1} /\ nextQuietId' = nextQuietId
    OBVIOUS
  <2> DEFINE gone == {u}
  <2> HIDE DEF gone
  <2>4. TakesAndPuts(gone, {}) /\ \A t \in gone : t.quiet => told'[t.id] # {}
    BY <1>2, <2>2 DEF gone
  <2> QED
    BY <1>1, <2>1, <2>3, <2>4, WordsSaid
<1>9. WaitingUnheard'
  BY <1>1, <1>2, <1>7, StillUnheard
<1>10. RunningHeard'
  <2>1. \A p \in Queues : u \notin running[p]
    BY <1>1, <1>3, WaitingOrRunning
  <2> QED
    BY <1>1, <1>7, <2>1, StillHeard
<1> QED
  BY <1>8, <1>9, <1>10 DEF Told

(* A worker's answer: its request had heard nothing.                       *)
LEMMA WorkerAnswersTells ==
  ASSUME Ordered, Placed', OneRuns, Told, NEW q \in Queues, WorkerAnswers(q)
  PROVE  Told'
<1>1. Placed /\ TypeOK /\ ToldOnce /\ WaitingUnheard /\ RunningHeard /\ nextQuietId \in Int
  BY ConstantsAssumption DEF Ordered, Placed, TypeOK, Told
<1>2. PICK t \in running[q] :
        /\ t.quiet /\ worker[q] = "computing"
        /\ worker' = [worker EXCEPT ![q] = "answered"]
        /\ told' = Tell({t.id}, "answered")
        /\ UNCHANGED running /\ UNCHANGED waiting /\ UNCHANGED nextQuietId
  BY DEF WorkerAnswers
<1>3. t \in Held
  BY <1>1, WaitingOrRunning
<1>4. t.id \in 1..MaxQuiet /\ t.id < nextQuietId /\ told[t.id] = {}
  BY <1>1, <1>2, <1>3, HeldAreTasks, TaskRanks DEF RunningHeard, Placed, HandedOut
<1>5. \A j \in 1..MaxQuiet : told'[j] = IF j = t.id THEN told[j] \cup {"answered"} ELSE told[j]
  BY <1>2, TellWords
<1>6. told'[t.id] = {"answered"}
  BY <1>4, <1>5
<1>7. TakesAndPuts({}, {})
  BY <1>2, SameQueuesTakeNothing
<1>8. TellsOnly({t})
  BY <1>2, <1>3, <1>5 DEF TellsOnly
<1>9. ToldOnce'
  <2>1. \A j \in 1..MaxQuiet :
          \/ told'[j] = told[j]
          \/ told[j] = {} /\ j < nextQuietId' /\ \E word : told'[j] = {word}
    <3> SUFFICES ASSUME NEW j \in 1..MaxQuiet, j = t.id
                 PROVE  told[j] = {} /\ j < nextQuietId' /\ \E word : told'[j] = {word}
      BY <1>5
    <3> QED
      BY <1>2, <1>4, <1>6
  <2> QED
    BY <1>1, <1>2, <1>7, <2>1, WordsSaid
<1>10. WaitingUnheard'
  BY <1>1, <1>2, <1>7, <1>8, StillUnheard
<1>11. RunningHeard'
  <2> SUFFICES ASSUME NEW p \in Queues, NEW u \in running'[p], u.quiet
               PROVE  /\ worker'[p] \in {"computing", "answered", "nothing"}
                      /\ told'[u.id] = {} <=> worker'[p] = "computing"
    BY DEF RunningHeard
  <2>1. CASE p = q
    <3>1. u = t
      BY <1>2, <2>1 DEF OneRuns
    <3>2. worker'[p] = "answered"
      BY <1>1, <1>2, <2>1 DEF TypeOK
    <3> QED
      BY <1>6, <3>1, <3>2
  <2>2. CASE p # q
    <3>1. u \in running[p] /\ worker'[p] = worker[p]
      BY <1>1, <1>2, <2>2 DEF TypeOK
    <3>2. u \in Held /\ u # t
      BY <1>1, <2>2, <3>1, WaitingOrRunning, OwnPlaces DEF HeldIn
    <3>3. told'[u.id] = told[u.id]
      BY <1>1, <1>8, <3>2, OthersHearNothing
    <3> QED
      BY <1>1, <3>1, <3>3 DEF RunningHeard
  <2> QED
    BY <2>1, <2>2
<1> QED
  BY <1>9, <1>10, <1>11 DEF Told

LEMMA WorkerDoneTells ==
  ASSUME Ordered, Placed', OneRuns, Told, NEW q \in Queues, WorkerDone(q)
  PROVE  Told'
<1>1. Placed /\ TypeOK /\ ToldOnce /\ WaitingUnheard /\ RunningHeard /\ nextQuietId \in Int
  BY ConstantsAssumption DEF Ordered, Placed, TypeOK, Told
<1>2. /\ UNCHANGED running /\ UNCHANGED waiting /\ UNCHANGED told /\ UNCHANGED nextQuietId
      /\ \A p \in Queues : p # q => worker'[p] = worker[p]
  BY <1>1 DEF WorkerDone, TypeOK
<1>3. PICK t \in running[q] :
        \/ ~t.quiet
        \/ /\ t.quiet /\ worker[q] = "answered"
           /\ worker' = [worker EXCEPT ![q] = "nothing"]
  BY DEF WorkerDone
<1>4. TakesAndPuts({}, {})
  BY <1>2, SameQueuesTakeNothing
<1>5. TellsOnly({})
  BY <1>2 DEF TellsOnly
<1>6. ToldOnce'
  BY <1>1, <1>2, <1>4, WordsSaid
<1>7. WaitingUnheard'
  BY <1>1, <1>2, <1>4, <1>5, StillUnheard
<1>8. RunningHeard'
  <2> SUFFICES ASSUME NEW p \in Queues, NEW u \in running[p], u.quiet
               PROVE  /\ worker'[p] \in {"computing", "answered", "nothing"}
                      /\ told[u.id] = {} <=> worker'[p] = "computing"
    BY <1>2 DEF RunningHeard
  <2>1. CASE p = q
    <3>1. u = t
      BY <2>1 DEF OneRuns
    <3>2. worker[q] = "answered" /\ worker'[q] = "nothing"
      BY <1>1, <1>3, <3>1 DEF TypeOK
    <3>3. told[u.id] # {}
      BY <1>1, <2>1, <3>2 DEF RunningHeard
    <3> QED
      BY <2>1, <3>2, <3>3
  <2>2. CASE p # q
    BY <1>1, <1>2, <2>2 DEF RunningHeard
  <2> QED
    BY <2>1, <2>2
<1> QED
  BY <1>6, <1>7, <1>8 DEF Told

(* A landing: the task that ran has heard its answer, and the entries that *)
(* never start hear that.                                                  *)
LEMMA LandingTells ==
  ASSUME Ordered, Placed', OneRuns, Told, NEW q \in Queues, Land(q)
  PROVE  Told'
<1> DEFINE w == waiting[q]
<1>1. Placed /\ TypeOK /\ ToldOnce /\ WaitingUnheard /\ RunningHeard /\ nextQuietId \in Int
  BY ConstantsAssumption DEF Ordered, Placed, TypeOK, Told
<1>2. PICK t \in running[q], k \in NextToStart(q) : LandsAs(q, t, k)
  BY LandTakesAndPuts
<1> DEFINE gone == Leaving(q, t, k)
<1>3. UNCHANGED nextQuietId
  BY Zenon DEF Land
<1>4. /\ running[q] = {t} /\ k \in 1..(Len(w) + 1) /\ worker[q] \in {"produced", "nothing"}
      /\ TakesAndPuts(gone, {})
      /\ running' = [running EXCEPT ![q] = IF k <= Len(w) THEN {w[k]} ELSE {}]
      /\ worker' = [worker EXCEPT ![q] = IF k <= Len(w) THEN "computing" ELSE "none"]
      /\ \A i \in 1..MaxQuiet :
           IF \E j \in 1..(k - 1) : w[j].quiet /\ w[j].id = i
           THEN \E word \in {"dropped", "failed"} : told'[i] = told[i] \cup {word}
           ELSE told'[i] = told[i]
  BY <1>2 DEF LandsAs
<1>5. gone = {t} \cup {w[i] : i \in 1..(k - 1)} /\ gone \subseteq Held
  BY <1>4 DEF Leaving, TakesAndPuts
<1>6. \A j \in 1..Len(w) : /\ w[j] \in Held /\ Waits(w[j]) /\ w[j] \in Task
                           /\ w[j].quiet => /\ w[j].id \in 1..MaxQuiet
                                            /\ w[j].id < nextQuietId
                                            /\ told[w[j].id] = {}
  <2> SUFFICES ASSUME NEW j \in 1..Len(w)
               PROVE  /\ w[j] \in Held /\ Waits(w[j]) /\ w[j] \in Task
                      /\ w[j].quiet => /\ w[j].id \in 1..MaxQuiet
                                       /\ w[j].id < nextQuietId
                                       /\ told[w[j].id] = {}
    OBVIOUS
  <2>1. w \in Seq(Task) /\ DOMAIN w = 1..Len(w)
    BY <1>1 DEF TypeOK
  <2>2. w[j] \in Held /\ Waits(w[j]) /\ w[j] \in Task
    BY <1>1, <2>1, WaitingAreHeld, ElementOfSeq DEF Waits, Range
  <2> HIDE DEF w
  <2> QED
    BY <1>1, <2>2, TaskRanks DEF WaitingUnheard, Placed, HandedOut
<1>7. 1..(k - 1) \subseteq 1..Len(w) /\ k \in Int
  <2>1. Len(w) \in Nat
    BY <1>1 DEF TypeOK
  <2> QED
    BY <1>4, <2>1
<1> HIDE DEF w, gone
<1>8. t.quiet => told[t.id] # {}
  BY <1>1, <1>4 DEF RunningHeard
<1>9. TellsOnly(gone)
  BY <1>4, <1>5 DEF TellsOnly
<1>10. \A i \in 1..MaxQuiet : told[i] # {} => told'[i] = told[i]
  BY <1>4, <1>6, <1>7
<1>11. ToldOnce'
  <2>1. ASSUME NEW u \in gone, u.quiet PROVE told'[u.id] # {}
    <3>1. CASE u = t
      <4>1. t.id \in 1..MaxQuiet
        BY <1>1, <1>5, <2>1, <3>1, HeldAreTasks, TaskRanks
      <4> QED
        BY <1>8, <1>10, <2>1, <3>1, <4>1
    <3>2. CASE u # t
      <4>1. PICK j \in 1..(k - 1) : u = w[j]
        BY <1>5, <3>2
      <4>2. u.id \in 1..MaxQuiet
        BY <1>6, <1>7, <2>1, <4>1
      <4>3. \E word \in {"dropped", "failed"} : told'[u.id] = told[u.id] \cup {word}
        BY <1>4, <2>1, <4>1, <4>2
      <4> QED
        BY <4>3
    <3> QED
      BY <3>1, <3>2
  <2>2. ASSUME NEW i \in 1..MaxQuiet, told'[i] # told[i]
        PROVE  told[i] = {} /\ i < nextQuietId' /\ \E word : told'[i] = {word}
    <3>1. PICK j \in 1..(k - 1) : w[j].quiet /\ w[j].id = i
      BY <1>4, <2>2
    <3>2. told[i] = {} /\ i < nextQuietId
      BY <1>6, <1>7, <3>1
    <3>3. PICK word \in {"dropped", "failed"} : told'[i] = told[i] \cup {word}
      BY <1>4, <3>1
    <3>4. told'[i] = {word}
      BY <3>2, <3>3
    <3> QED
      BY <1>3, <3>2, <3>4
  <2> QED
    BY <1>1, <1>3, <1>4, <2>1, <2>2, WordsSaid
<1>12. /\ running'[q] = (IF k <= Len(w) THEN {w[k]} ELSE {})
       /\ worker'[q] = (IF k <= Len(w) THEN "computing" ELSE "none")
       /\ \A p \in Queues : p # q => running'[p] = running[p] /\ worker'[p] = worker[p]
  BY <1>1, <1>4 DEF TypeOK
<1>13. WaitingUnheard'
  <2>1. \A p \in Queues : running[p] \subseteq gone \cup running'[p]
    BY <1>4, <1>5, <1>12
  <2> QED
    BY <1>1, <1>4, <1>9, <2>1, StillUnheard
<1>14. RunningHeard'
  <2> SUFFICES ASSUME NEW p \in Queues, NEW u \in running'[p], u.quiet
               PROVE  /\ worker'[p] \in {"computing", "answered", "nothing"}
                      /\ told'[u.id] = {} <=> worker'[p] = "computing"
    BY DEF RunningHeard
  <2>1. u \in Held' /\ u \notin gone /\ u \in Held
    <3>1. u \in Held'
      BY WaitingOrRunningNext
    <3> QED
      BY <1>4, <3>1 DEF TakesAndPuts
  <2>2. told'[u.id] = told[u.id]
    BY <1>1, <1>9, <2>1, OthersHearNothing
  <2>3. CASE p = q
    <3>1. k \in 1..Len(w) /\ u = w[k] /\ worker'[q] = "computing"
      BY <1>4, <1>12, <2>3
    <3>2. told[u.id] = {}
      BY <1>6, <3>1
    <3> QED
      BY <2>2, <2>3, <3>1, <3>2
  <2>4. CASE p # q
    BY <1>1, <1>12, <2>2, <2>4 DEF RunningHeard
  <2> QED
    BY <2>3, <2>4
<1> QED
  BY <1>11, <1>13, <1>14 DEF Told

Accounted == Booked /\ Told

LEMMA ToldStep ==
  ASSUME Accounted, Placed', [Next]_vars
  PROVE  Told'
<1>0. Ordered /\ Placed /\ OneRuns /\ Told
  BY DEF Accounted, Booked, Ordered
<1>1. ASSUME NEW op \in AskedOps, NEW n \in Nodes \cup {NoNode}, StartAsked(op, n)
      PROVE  Told'
  BY <1>0, <1>1, StartAskedTells
<1>2. ASSUME NEW s \in Sources, NEW r \in QuietRanks, NEW n \in Nodes, StartQuiet(s, r, n)
      PROVE  Told'
  BY <1>0, <1>2, StartQuietTells
<1>3. ASSUME NEW q \in Queues, NEW i \in 1..Len(waiting[q]), CancelWaiting(q, i)
      PROVE  Told'
  <2>1. /\ TakesAndPuts({waiting[q][i]}, {}) /\ ~waiting[q][i].quiet
        /\ UNCHANGED running /\ UNCHANGED worker /\ UNCHANGED told /\ UNCHANGED nextQuietId
    BY <1>0, <1>3, RemovalTakes DEF CancelWaiting
  <2> QED
    BY <1>0, <2>1, SilentStep
<1>4. ASSUME NEW q \in Queues, NEW id \in 1..MaxQuiet, CancelQuiet(q, id) PROVE Told'
  BY <1>0, <1>4, QuietQueueStep, CancelQuietTells DEF CancelQuiet
<1>5. ASSUME NEW q \in Queues, WorkerAnswers(q) PROVE Told'
  BY <1>0, <1>5, WorkerAnswersTells
<1>6. ASSUME NEW q \in Queues, WorkerDone(q) PROVE Told'
  BY <1>0, <1>6, WorkerDoneTells
<1>7. ASSUME NEW q \in Queues, Land(q) PROVE Told'
  BY <1>0, <1>7, LandingTells
<1>8. ASSUME NEW q \in Queues, CancelRunning(q) PROVE Told'
  BY <1>0, <1>8, QuietQueueStep DEF CancelRunning
<1>9. ASSUME NEW n \in Nodes, MoveCursor(n) \/ CloseNode(n) PROVE Told'
  BY <1>0, <1>9, QuietQueueStep DEF MoveCursor, CloseNode
<1>10. ASSUME CloseAll \/ UNCHANGED vars PROVE Told'
  BY <1>0, <1>10, QuietQueueStep DEF CloseAll, vars
<1> QED
  BY <1>1, <1>2, <1>3, <1>4, <1>5, <1>6, <1>7, <1>8, <1>9, <1>10 DEF Next

LEMMA AccountedInit == Init => Accounted
<1> SUFFICES ASSUME Init PROVE Accounted
  OBVIOUS
<1>1. ToldOnce
  BY DEF Init, ToldOnce
<1>2. WaitingUnheard
  BY DEF Init, WaitingUnheard, Held, HeldIn, Range, Queues
<1>3. RunningHeard
  BY DEF Init, RunningHeard
<1> QED
  BY <1>1, <1>2, <1>3, BookedInit DEF Accounted, Told

LEMMA AccountedStep == Accounted /\ [Next]_vars => Accounted'
<1> SUFFICES ASSUME Accounted, [Next]_vars PROVE Accounted'
  OBVIOUS
<1>1. Booked /\ Placed
  BY DEF Accounted, Booked, Ordered
<1>2. Placed'
  BY <1>1, PlacedStep
<1> QED
  BY <1>1, <1>2, BookedStep, ToldStep DEF Accounted

LEMMA AlwaysAccounted == Spec => []Accounted
  BY AccountedInit, AccountedStep, PTL DEF Spec

(* A quiet source hears exactly one thing of each request, and until it    *)
(* does a queue holds the request: no replacement, cancel, drop, failed    *)
(* spawn or landing loses one or tells of it twice (start_quiet_task,      *)
(* cancel_quiet_task, begin, WaitingTask::drop_unrun).                     *)
THEOREM AlwaysQuietToldOnce == Spec => []QuietToldOnce
<1>1. Accounted => QuietToldOnce
  <2> SUFFICES ASSUME Accounted PROVE QuietToldOnce
    OBVIOUS
  <2>1. Placed /\ ToldOnce /\ WaitingUnheard /\ RunningHeard
    BY DEF Accounted, Booked, Ordered, Told
  <2>2. ASSUME NEW i \in 1..MaxQuiet, told[i] # {}, NEW q \in Queues, NEW t \in HeldIn(q),
               t.quiet, t.id = i
        PROVE  t \in running[q] /\ worker[q] \in {"answered", "nothing"}
    <3>1. t \in Held
      BY <2>2 DEF Held, Queues
    <3>2. ~Waits(t)
      BY <2>1, <2>2, <3>1 DEF WaitingUnheard
    <3>3. t \in running[q]
      BY <2>2, <3>2 DEF Waits, HeldIn
    <3> QED
      BY <2>1, <2>2, <3>3 DEF RunningHeard
  <2> QED
    BY <2>1, <2>2 DEF QuietToldOnce, ToldOnce
<1> QED
  BY <1>1, AlwaysAccounted, PTL

-----------------------------------------------------------------------------
(* Queues and workers.                                                     *)

(* Quiet tasks are the fast queue's.                                       *)
QuietInFast == \A t \in HeldIn("slow") : ~t.quiet

(* A queue that runs a task has a worker on it, until the task lands.      *)
Manned == \A q \in Queues : running[q] # {} => worker[q] # "none"

LEMMA HeldInShrinks ==
  ASSUME TypeOK, NEW q \in Queues, NEW t \in HeldIn(q)',
         \/ UNCHANGED running /\ UNCHANGED waiting
         \/ /\ UNCHANGED running
            /\ \E i \in 1..Len(waiting[q]) : waiting'[q] = RemoveAt(waiting[q], i)
         \/ \E k \in 1..(Len(waiting[q]) + 1) :
              /\ running'[q] = IF k <= Len(waiting[q]) THEN {waiting[q][k]} ELSE {}
              /\ waiting'[q] = SubSeq(waiting[q], k + 1, Len(waiting[q]))
  PROVE  t \in HeldIn(q)
<1> DEFINE w == waiting[q]
<1>1. w \in Seq(Task) /\ Range(w) = {w[i] : i \in 1..Len(w)}
  BY DEF TypeOK, Range
<1>2. CASE UNCHANGED running /\ UNCHANGED waiting
  BY <1>2 DEF HeldIn
<1>3. ASSUME UNCHANGED running, NEW i \in 1..Len(w), waiting'[q] = RemoveAt(w, i)
      PROVE  t \in HeldIn(q)
  <2> HIDE DEF w
  <2>1. Range(RemoveAt(w, i)) \subseteq Range(w)
    BY <1>1, <1>3, RangeOfRemoval
  <2> QED
    BY <1>3, <2>1 DEF HeldIn, w
<1>4. ASSUME NEW k \in 1..(Len(w) + 1),
             running'[q] = IF k <= Len(w) THEN {w[k]} ELSE {},
             waiting'[q] = SubSeq(w, k + 1, Len(w))
      PROVE  t \in HeldIn(q)
  <2> HIDE DEF w
  <2>1. Range(SubSeq(w, k + 1, Len(w))) = {w[i] : i \in (k + 1)..Len(w)}
    BY <1>1, <1>4, RangeOfSlice
  <2>2. Range(SubSeq(w, k + 1, Len(w))) \subseteq Range(w)
    BY <1>1, <1>4, <2>1
  <2>3. running'[q] \subseteq Range(w)
    BY <1>1, <1>4
  <2> QED
    BY <1>4, <2>2, <2>3 DEF HeldIn, w
<1> QED
  BY <1>2, <1>3, <1>4

LEMMA QuietInFastStep ==
  ASSUME Ordered, QuietInFast, [Next]_vars
  PROVE  QuietInFast'
<1>0. TypeOK /\ "slow" \in Queues
  BY DEF Ordered, Placed, Queues
<1> SUFFICES ASSUME NEW t \in HeldIn("slow")' PROVE ~t.quiet
  BY DEF QuietInFast
<1> DEFINE Slow == t \in HeldIn("slow") \/ ~t.quiet
<1>1. ASSUME running'["slow"] = running["slow"], waiting'["slow"] = waiting["slow"] PROVE Slow
  BY <1>1 DEF HeldIn
<1>2. ASSUME NEW op \in AskedOps, NEW n \in Nodes \cup {NoNode}, StartAsked(op, n) PROVE Slow
  <2> DEFINE p == QueueOf(op)
             u == NewAsked(op, n)
  <2>1. p \in Queues /\ u \in Task /\ ~u.quiet
    BY <1>0, <1>2, NewAskedIsTask DEF QueueOf, Queues, StartAsked, NewAsked
  <2>2. \/ /\ UNCHANGED running
           /\ \E at \in AskedPlaces(waiting[p]) :
                waiting' = [waiting EXCEPT ![p] = InsertAt(@, at, u)]
        \/ running' = [running EXCEPT ![p] = {u}] /\ UNCHANGED waiting
        \/ UNCHANGED running /\ UNCHANGED waiting
    BY <1>2 DEF StartAsked, Run
  <2> HIDE DEF p, u
  <2>3. ASSUME UNCHANGED running, NEW at \in AskedPlaces(waiting[p]),
               waiting' = [waiting EXCEPT ![p] = InsertAt(@, at, u)]
        PROVE  Slow
    <3>1. CASE p = "slow"
      <4>1. waiting[p] \in Seq(Task) /\ at \in 1..(Len(waiting[p]) + 1)
            /\ waiting'[p] = InsertAt(waiting[p], at, u)
        BY <1>0, <2>1, <2>3 DEF AskedPlaces, TypeOK
      <4>2. Range(waiting'[p]) = Range(waiting[p]) \cup {u}
        BY <2>1, <4>1, RangeOfInsertion
      <4> QED
        BY <2>1, <2>3, <3>1, <4>2 DEF HeldIn
    <3>2. CASE p # "slow"
      BY <1>0, <1>1, <2>3, <3>2 DEF TypeOK
    <3> QED
      BY <3>1, <3>2
  <2>4. CASE running' = [running EXCEPT ![p] = {u}] /\ UNCHANGED waiting
    <3>1. running'["slow"] = running["slow"] \/ running'["slow"] = {u}
      BY <1>0, <2>4 DEF TypeOK
    <3> QED
      BY <2>1, <2>4, <3>1 DEF HeldIn
  <2> QED
    BY <1>1, <2>2, <2>3, <2>4
<1>3. ASSUME NEW s \in Sources, NEW r \in QuietRanks, NEW n \in Nodes, StartQuiet(s, r, n)
      PROVE  Slow
  <2>1. \/ UNCHANGED running
        \/ running' = [running EXCEPT !["fast"] = {NewQuiet(s, r, n)}]
    BY <1>3, Zenon DEF StartQuiet, Run
  <2>2. \E kept : waiting' = [waiting EXCEPT !["fast"] = kept]
    BY <1>3, Zenon DEF StartQuiet
  <2>3. running'["slow"] = running["slow"] /\ waiting'["slow"] = waiting["slow"]
    BY <1>0, <2>1, <2>2 DEF TypeOK
  <2> QED
    BY <1>1, <2>3
<1>4. ASSUME NEW q \in Queues, NEW i \in 1..Len(waiting[q]),
             waiting' = [waiting EXCEPT ![q] = RemoveAt(@, i)], UNCHANGED running
      PROVE  Slow
  <2>1. waiting'[q] = RemoveAt(waiting[q], i) /\ \A p \in Queues : p # q => waiting'[p] = waiting[p]
    BY <1>0, <1>4 DEF TypeOK
  <2>2. CASE q = "slow"
    BY <1>0, <1>4, <2>1, <2>2, HeldInShrinks
  <2>3. CASE q # "slow"
    BY <1>0, <1>1, <1>4, <2>1, <2>3
  <2> QED
    BY <2>2, <2>3
<1>5. ASSUME NEW q \in Queues, Land(q) PROVE Slow
  <2>1. PICK k \in 1..(Len(waiting[q]) + 1) :
          /\ running' = [running EXCEPT ![q] =
                           IF k <= Len(waiting[q]) THEN {waiting[q][k]} ELSE {}]
          /\ waiting' = [waiting EXCEPT ![q] =
                           SubSeq(waiting[q], k + 1, Len(waiting[q]))]
    BY <1>0, <1>5, LandQueues
  <2>2. /\ running'[q] = (IF k <= Len(waiting[q]) THEN {waiting[q][k]} ELSE {})
        /\ waiting'[q] = SubSeq(waiting[q], k + 1, Len(waiting[q]))
        /\ \A p \in Queues : p # q => running'[p] = running[p] /\ waiting'[p] = waiting[p]
    BY <1>0, <2>1 DEF TypeOK
  <2>3. CASE q = "slow"
    BY <1>0, <2>2, <2>3, HeldInShrinks
  <2>4. CASE q # "slow"
    BY <1>0, <1>1, <2>2, <2>4
  <2> QED
    BY <2>3, <2>4
<1>6. ASSUME UNCHANGED running, UNCHANGED waiting PROVE Slow
  BY <1>1, <1>6
<1> HIDE DEF Slow
<1>7. ASSUME NEW q \in Queues, NEW i \in 1..Len(waiting[q]), CancelWaiting(q, i) PROVE Slow
  BY <1>4, <1>7 DEF CancelWaiting
<1>8. ASSUME NEW q \in Queues, NEW id \in 1..MaxQuiet, CancelQuiet(q, id) PROVE Slow
  BY <1>4, <1>6, <1>8 DEF CancelQuiet
<1>9. ASSUME NEW q \in Queues, CancelRunning(q) \/ WorkerAnswers(q) \/ WorkerDone(q) PROVE Slow
  <2>1. UNCHANGED running /\ UNCHANGED waiting
    BY <1>9 DEF CancelRunning, WorkerAnswers, WorkerDone
  <2> QED
    BY <1>6, <2>1
<1>10. ASSUME NEW n \in Nodes, MoveCursor(n) \/ CloseNode(n) PROVE Slow
  BY <1>6, <1>10 DEF MoveCursor, CloseNode
<1>11. ASSUME CloseAll \/ UNCHANGED vars PROVE Slow
  BY <1>6, <1>11 DEF CloseAll, vars
<1>12. Slow
  BY <1>2, <1>3, <1>5, <1>7, <1>8, <1>9, <1>10, <1>11 DEF Next
<1> QED
  BY <1>12 DEF Slow, QuietInFast

LEMMA MannedStep ==
  ASSUME Ordered, OneRuns, Manned, [Next]_vars
  PROVE  Manned'
<1>0. TypeOK
  BY DEF Ordered, Placed
<1>1. ASSUME UNCHANGED running, UNCHANGED worker PROVE Manned'
  BY <1>1 DEF Manned
<1>2. ASSUME NEW q \in Queues, NEW now, worker' = [worker EXCEPT ![q] = now],
             now # "none" \/ running'[q] = {},
             \A p \in Queues : p # q => running'[p] = running[p]
      PROVE  Manned'
  BY <1>0, <1>2 DEF Manned, TypeOK
<1>3. ASSUME NEW q \in Queues, NEW t, Run(q, t) PROVE Manned'
  <2>1. worker' = [worker EXCEPT ![q] = "computing"]
        /\ \A p \in Queues : p # q => running'[p] = running[p]
    BY <1>0, <1>3 DEF Run, TypeOK
  <2> QED
    BY <1>2, <2>1
<1>4. ASSUME NEW op \in AskedOps, NEW n \in Nodes \cup {NoNode}, StartAsked(op, n) PROVE Manned'
  <2>1. QueueOf(op) \in Queues
    BY DEF QueueOf, Queues
  <2>2. (UNCHANGED running /\ UNCHANGED worker) \/ Run(QueueOf(op), NewAsked(op, n))
    BY <1>4, Zenon DEF StartAsked
  <2> QED
    BY <1>1, <1>3, <2>1, <2>2
<1>5. ASSUME NEW s \in Sources, NEW r \in QuietRanks, NEW n \in Nodes, StartQuiet(s, r, n)
      PROVE  Manned'
  <2>1. (UNCHANGED running /\ UNCHANGED worker) \/ Run("fast", NewQuiet(s, r, n))
    BY <1>5, Zenon DEF StartQuiet
  <2> QED
    BY <1>1, <1>3, <2>1 DEF Queues
<1>6. ASSUME NEW q \in Queues, Land(q) PROVE Manned'
  <2>1. PICK t, k : LandsAs(q, t, k)
    BY <1>6, LandTakesAndPuts
  <2>2. /\ running' = [running EXCEPT ![q] = IF k <= Len(waiting[q]) THEN {waiting[q][k]} ELSE {}]
        /\ worker' = [worker EXCEPT ![q] = IF k <= Len(waiting[q]) THEN "computing" ELSE "none"]
    BY <2>1, Zenon DEF LandsAs
  <2>3. \A p \in Queues : p # q => running'[p] = running[p]
    BY <1>0, <2>2 DEF TypeOK
  <2>4. CASE k <= Len(waiting[q])
    BY <1>2, <2>2, <2>3, <2>4
  <2>5. CASE ~(k <= Len(waiting[q]))
    <3>1. running'[q] = {}
      BY <1>0, <2>2, <2>5 DEF TypeOK
    <3> QED
      BY <1>2, <2>2, <2>3, <2>5, <3>1
  <2> QED
    BY <2>4, <2>5
<1>7. ASSUME NEW q \in Queues, WorkerAnswers(q) PROVE Manned'
  BY <1>2, <1>7 DEF WorkerAnswers
<1>8. ASSUME NEW q \in Queues, WorkerDone(q) PROVE Manned'
  <2>1. UNCHANGED running
        /\ \E now \in {"produced", "nothing"} : worker' = [worker EXCEPT ![q] = now]
    BY <1>8 DEF WorkerDone
  <2> QED
    BY <1>2, <2>1
<1>9. ASSUME NEW q \in Queues, CancelRunning(q) PROVE Manned'
  BY <1>1, <1>9 DEF CancelRunning
<1>10. ASSUME NEW q \in Queues, NEW i \in 1..Len(waiting[q]), CancelWaiting(q, i) PROVE Manned'
  BY <1>1, <1>10 DEF CancelWaiting
<1>11. ASSUME NEW q \in Queues, NEW id \in 1..MaxQuiet, CancelQuiet(q, id) PROVE Manned'
  BY <1>1, <1>11 DEF CancelQuiet
<1>12. ASSUME NEW n \in Nodes, MoveCursor(n) \/ CloseNode(n) PROVE Manned'
  BY <1>1, <1>12 DEF MoveCursor, CloseNode
<1>13. ASSUME CloseAll \/ UNCHANGED vars PROVE Manned'
  BY <1>1, <1>13 DEF CloseAll, vars
<1> QED
  BY <1>4, <1>5, <1>6, <1>7, <1>8, <1>9, <1>10, <1>11, <1>12, <1>13 DEF Next

Crewed == Accounted /\ QuietInFast /\ Manned

LEMMA CrewedInit == Init => Crewed
<1>1. Init => QuietInFast
  BY DEF Init, QuietInFast, HeldIn, Range, Queues
<1>2. Init => Manned
  BY DEF Init, Manned
<1> QED
  BY <1>1, <1>2, AccountedInit DEF Crewed

LEMMA CrewedStep == Crewed /\ [Next]_vars => Crewed'
  BY AccountedStep, QuietInFastStep, MannedStep DEF Crewed, Accounted, Booked

LEMMA AlwaysCrewed == Spec => []Crewed
  BY CrewedInit, CrewedStep, PTL DEF Spec

=============================================================================
