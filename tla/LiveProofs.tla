------------------------------ MODULE LiveProofs ------------------------------
(***************************************************************************)
(* The live evaluation over the background queues, for any number of       *)
(* nodes, items, tasks, moves and repaints, and any size of the cache of   *)
(* viewed tracks.                                                          *)
(*                                                                         *)
(* The driver and the steps of a frame use the queues only through the     *)
(* queues' own actions, so what LockProofs proves of these holds here      *)
(* (LiveStepsTheQueues), and with it that nothing lands into a locked      *)
(* node.  What reads as current is fresh because the driver's slot keeps   *)
(* the inputs a value was read from, and because two cached tracks that    *)
(* share an Arc are of one document.                                       *)
(*                                                                         *)
(* The driver has one request out, and every evaluation that has not been  *)
(* answered is that one (OneQueued, HeldByDriver); what a worker said is   *)
(* still to be polled, in this frame or in one that was asked for (Wakes,  *)
(* AnswerIsComing).  These are inductive together (DriverInv).             *)
(***************************************************************************)
EXTENDS LiveEvaluation, LockProofs

LEMMA SubjectsHaveNodes ==
  /\ \A s \in ItemSet : HomeOf[s] \in Nodes /\ s # Viewed
  /\ \A s \in Subjects : NodeOf(s) \in Nodes
  BY ItemsAssumption DEF Subjects, NodeOf

LEMMA UnevaluatedIsSubject ==
  ASSUME NEW s \in NextUnevaluated
  PROVE  s \in Subjects
<1> DEFINE order == <<Viewed>> \o Items
<1>1. PICK i \in DOMAIN order : s = order[i]
  BY DEF NextUnevaluated
<1>2. Items \in Seq(STRING) /\ Len(Items) \in Nat
  BY ItemsAssumption
<1>3. \A k \in DOMAIN order : order[k] = Viewed \/ \E j \in DOMAIN Items : order[k] = Items[j]
  <2>1. Len(order) = Len(Items) + 1 /\ DOMAIN order = 1..(Len(Items) + 1)
          /\ order[1] = Viewed /\ \A k \in 2..(Len(Items) + 1) : order[k] = Items[k - 1]
    BY <1>2
  <2> HIDE DEF order
  <2>2. \A k \in 2..(Len(Items) + 1) : k - 1 \in DOMAIN Items
    BY <1>2
  <2> QED
    BY <1>2, <2>1, <2>2
<1> QED
  BY <1>1, <1>3 DEF Subjects, ItemSet, Range

-----------------------------------------------------------------------------
(* The queues.                                                             *)

LEMMA AskToStopSteps ==
  ASSUME TypeOK, NEW id, AskToStop(id)
  PROVE  [Next]_vars
<1>1. CASE \E t \in HeldIn("fast") : t.quiet /\ t.id = id
  <2>1. PICK t \in HeldIn("fast") : t.quiet /\ t.id = id
    BY <1>1
  <2>2. t \in Task
    BY <2>1 DEF TypeOK, HeldIn, Queues, Range
  <2>3. id \in 1..MaxQuiet
    BY <2>1, <2>2 DEF Task, AskedTask, QuietTask
  <2>4. CancelQuiet("fast", id) /\ "fast" \in Queues
    BY <1>1 DEF AskToStop, Queues
  <2> QED
    BY <2>3, <2>4 DEF Next
<1>2. CASE UNCHANGED vars
  BY <1>2
<1> QED
  BY <1>1, <1>2 DEF AskToStop

LEMMA DriveQueueSteps == ASSUME TypeOK, DriveQueue PROVE [Next]_vars
<1>1. ASSUME NEW s \in NextUnevaluated, QueueEvaluation(s) PROVE [Next]_vars
  <2>1. StartQuiet(LiveSource, RankOf(s), NodeOf(s))
    BY <1>1 DEF QueueEvaluation
  <2>2. LiveSource \in Sources /\ NodeOf(s) \in Nodes /\ RankOf(s) \in QuietRanks
    BY <1>1, UnevaluatedIsSubject, SubjectsHaveNodes, ItemsAssumption DEF RankOf, QuietRanks
  <2> QED
    BY <2>1, <2>2 DEF Next
<1>2. ASSUME NEW e \in queued, AskToStop(e.task) PROVE [Next]_vars
  BY <1>2, AskToStopSteps
<1> QED
  BY <1>1, <1>2 DEF DriveQueue

(* Every step of the frame, of a worker and of the person is a step of the *)
(* queues or leaves them alone.                                            *)
LEMMA LiveSteps == ASSUME TypeOK, [LiveNext]_allVars PROVE [Next]_vars
<1>1. ASSUME NEW q \in Queues, PollQueue(q) PROVE [Next]_vars
  BY <1>1 DEF PollQueue, Next
<1>2. ASSUME NEW op \in AskedOps, NEW n \in Nodes, Ask(op, n) PROVE [Next]_vars
  BY <1>2 DEF Ask, Next
<1>3. CASE CancelAsked
  BY <1>3 DEF CancelAsked, Next
<1>4. CASE DriveQueue
  BY <1>4, DriveQueueSteps
<1>5. ASSUME NEW s \in ItemSet, StepTrack(s) PROVE [Next]_vars
  BY <1>5, SubjectsHaveNodes DEF StepTrack, Next
<1>6. ASSUME NEW n \in Nodes, StepDocument(n) \/ StepBack(n) \/ Close(n) PROVE [Next]_vars
  BY <1>6 DEF StepDocument, StepBack, Close, Next
<1>7. ASSUME NEW q \in Queues, WorkerReports(q) PROVE [Next]_vars
  BY <1>7 DEF WorkerReports, Next
<1>8. CASE EvaluationAnswers
  BY <1>8 DEF EvaluationAnswers, Next, Queues
<1>9. CASE BeginFrame \/ InputArrives \/ DriveLand \/ View \/ DrawPanels \/ EndSteps
  BY <1>9 DEF BeginFrame, InputArrives, DriveLand, View, DrawPanels, EndSteps
<1>10. CASE UNCHANGED allVars
  BY <1>10 DEF allVars
<1> QED
  BY <1>1, <1>2, <1>3, <1>4, <1>5, <1>6, <1>7, <1>8, <1>9, <1>10 DEF LiveNext

(* The live evaluation implements the background queues: every behaviour   *)
(* of the frame with its driver is one of BackgroundTasks, so a lock, an   *)
(* id and a row mean in it what they mean there.                           *)
THEOREM LiveStepsTheQueues == LiveSpec => Spec /\ []Inv
<1>1. LiveInit => Init
  BY DEF LiveInit
<1>2. Inv /\ [LiveNext]_allVars => [Next]_vars
  BY LiveSteps DEF Inv
<1>3. Inv /\ [Next]_vars => Inv'
  BY InvStep
<1> QED
  BY <1>1, <1>2, <1>3, InvInit, PTL DEF LiveSpec, Spec

-----------------------------------------------------------------------------
(* Locked nodes.                                                           *)

(* The node of a locking task that lands is free once it has.              *)
LEMMA LandedIsFree ==
  ASSUME Inv, TypeOK', NEW q \in Queues, Land(q), NEW t \in running[q], Locks(t.op)
  PROVE  ~Busy(t.node)'
<1>1. TypeOK /\ OneLockPerNode
  BY DEF Inv
<1>2. PICK k \in 1..(Len(waiting[q]) + 1) :
        /\ running' = [running EXCEPT ![q] =
                         IF k <= Len(waiting[q]) THEN {waiting[q][k]} ELSE {}]
        /\ waiting' = [waiting EXCEPT ![q] =
                         SubSeq(waiting[q], k + 1, Len(waiting[q]))]
  BY <1>1, LandQueues
<1>3. Carries(From(q, UpBy(k)), q, NoPlace, NoTask)
  BY <1>1, <1>2, LandingCarries
<1>4. ASSUME NEW p \in Queues, NEW i \in Places(p)', NEW u \in At(p, i)',
             Locks(u.op), u.node = t.node
      PROVE  FALSE
  <2> DEFINE j == From(q, UpBy(k))[p][i]
  <2>1. j \in Places(p) /\ u \in At(p, j)
    BY <1>3, <1>4 DEF Carries, NoTask, Locks
  <2>2. p = q => j # 0
    <3> SUFFICES ASSUME p = q PROVE j # 0
      OBVIOUS
    <3>1. i \in Nat /\ k \in Nat /\ k # 0
      <4>1. waiting[q] \in Seq(Task) /\ waiting' \in [Queues -> Seq(Task)]
        BY <1>1 DEF TypeOK
      <4> QED
        BY <1>4, <4>1 DEF Places
    <3>2. j = i + k
      BY <3>1 DEF From, UpBy
    <3> QED
      BY <3>1, <3>2
  <2>3. t \in At(q, 0) /\ 0 \in Places(q)
    BY <1>1, PlaceOfWaiting
  <2> HIDE DEF j
  <2> QED
    BY <1>1, <1>4, <2>1, <2>2, <2>3 DEF OneLockPerNode
<1>5. \A u \in Held' : Locks(u.op) => u.node # t.node
  BY <1>4, PlacesOfHeldNext DEF HeldIsPlaced
<1> QED
  BY <1>5 DEF Busy, LockedBy

(* What a step does to the bench and the document of a node n.             *)
BenchStays(n) ==
  document'[n] = document[n] /\ \A s \in ItemSet : HomeOf[s] = n => bench'[s] = bench[s]

(* The functions a node's bench and document are looked up in.             *)
BenchesIndexed ==
  /\ bench = [s \in ItemSet |-> bench[s]]
  /\ document = [n \in Nodes |-> document[n]]

LEMMA PollLeavesLocked ==
  ASSUME Inv, TypeOK', BenchesIndexed, NEW q \in Queues, PollQueue(q),
         NEW n \in Nodes, Busy(n)'
  PROVE  BenchStays(n)
<1>1. CASE UNCHANGED benchVars
  BY <1>1 DEF benchVars, BenchStays
<1>2. ASSUME Land(q), NEW t \in running[q], Locks(t.op),
             \/ /\ \E s \in {i \in ItemSet : HomeOf[i] = t.node /\ bench[i] # {}} :
                     bench' = [bench EXCEPT ![s] = {SteppedTrack(s)}]
                /\ UNCHANGED document
             \/ /\ document' = [document EXCEPT ![t.node] = cursor'[t.node]]
                /\ UNCHANGED bench
      PROVE  BenchStays(n)
  <2>1. t.node # n
    BY <1>2, LandedIsFree
  <2> QED
    BY <1>2, <2>1 DEF BenchStays, BenchesIndexed
<1> QED
  BY <1>1, <1>2 DEF PollQueue, LandedValue

LEMMA InstallLeavesLocked ==
  ASSUME BenchesIndexed, NEW inputs, NEW how, LandEvaluation(inputs, how),
         UNCHANGED document, NEW n \in Nodes, Busy(n)
  PROVE  BenchStays(n)
<1>1. CASE UNCHANGED bench
  BY <1>1 DEF BenchStays
<1>2. ASSUME ~Busy(NodeOf(inputs.item)), inputs.item # Viewed, InstallTrack(inputs)
      PROVE  BenchStays(n)
  <2>1. PICK landed : bench' = [bench EXCEPT ![inputs.item] = {landed}]
    BY <1>2 DEF InstallTrack
  <2>2. NodeOf(inputs.item) # n
    BY <1>2
  <2>3. \A s \in ItemSet : HomeOf[s] = n => s # inputs.item
    BY <2>2, SubjectsHaveNodes DEF NodeOf
  <2> QED
    BY <2>1, <2>3 DEF BenchStays, BenchesIndexed
<1> QED
  BY <1>1, <1>2 DEF LandEvaluation, Install, RecordFailure

LEMMA StepsLeaveLocked ==
  ASSUME BenchesIndexed, NEW n \in Nodes, Busy(n),
         \/ \E s \in ItemSet : StepTrack(s)
         \/ \E m \in Nodes : StepDocument(m) \/ StepBack(m) \/ Close(m)
  PROVE  BenchStays(n)
<1>1. ASSUME NEW s \in ItemSet, StepTrack(s) PROVE BenchStays(n)
  <2>1. HomeOf[s] # n
    BY <1>1 DEF StepTrack, MoveCursor
  <2> QED
    BY <1>1, <2>1 DEF StepTrack, BenchStays, BenchesIndexed
<1>2. ASSUME NEW m \in Nodes, StepDocument(m) PROVE BenchStays(n)
  <2>1. m # n
    BY <1>2 DEF StepDocument, MoveCursor
  <2> QED
    BY <1>2, <2>1 DEF StepDocument, BenchStays, BenchesIndexed
<1>3. ASSUME NEW m \in Nodes, StepBack(m) PROVE BenchStays(n)
  <2>1. m # n
    BY <1>3 DEF StepBack, MoveCursor
  <2> QED
    BY <1>3, <2>1 DEF StepBack, BenchStays, BenchesIndexed
<1>4. ASSUME NEW m \in Nodes, Close(m) PROVE BenchStays(n)
  <2>1. m # n
    BY <1>4 DEF Close, CloseNode
  <2> QED
    BY <1>4, <2>1 DEF Close, BenchStays, BenchesIndexed
<1> QED
  BY <1>1, <1>2, <1>3, <1>4

LEMMA LockedStep ==
  ASSUME Inv, TypeOK', BenchesIndexed, [LiveNext]_allVars,
         NEW n \in Nodes, Busy(n), Busy(n)'
  PROVE  BenchStays(n)
<1>1. ASSUME NEW q \in Queues, PollQueue(q) PROVE BenchStays(n)
  BY <1>1, PollLeavesLocked
<1>2. CASE DriveLand
  <2>1. CASE UNCHANGED <<bench, document>>
    BY <2>1 DEF BenchStays
  <2>2. ASSUME NEW inputs, NEW how, LandEvaluation(inputs, how), UNCHANGED document
        PROVE  BenchStays(n)
    BY <2>2, InstallLeavesLocked
  <2> QED
    BY <1>2, <2>1, <2>2 DEF DriveLand
<1>3. CASE \/ \E s \in ItemSet : StepTrack(s)
           \/ \E m \in Nodes : StepDocument(m) \/ StepBack(m) \/ Close(m)
  BY <1>3, StepsLeaveLocked
<1>4. CASE UNCHANGED <<bench, document>>
  BY <1>4 DEF BenchStays
<1>5. CASE BeginFrame \/ InputArrives \/ DriveQueue \/ View \/ DrawPanels \/ EndSteps
             \/ CancelAsked \/ EvaluationAnswers \/ UNCHANGED allVars
  BY <1>4, <1>5 DEF BeginFrame, InputArrives, DriveQueue, View, DrawPanels, EndSteps,
     CancelAsked, EvaluationAnswers, benchVars, liveVars, allVars
<1>6. ASSUME NEW op, NEW m, Ask(op, m) PROVE BenchStays(n)
  BY <1>4, <1>6 DEF Ask, liveVars
<1>7. ASSUME NEW q, WorkerReports(q) PROVE BenchStays(n)
  BY <1>4, <1>7 DEF WorkerReports, benchVars
<1> QED
  BY <1>1, <1>2, <1>3, <1>5, <1>6, <1>7 DEF LiveNext

-----------------------------------------------------------------------------
(* What the driver's state is like.                                        *)

Single(b) == b \in SUBSET Track /\ \A t, u \in b : t = u

PastTyped ==
  /\ past = [n \in Nodes |-> past[n]]
  /\ \A n \in Nodes : past[n].document \in Nat
  /\ \A s \in ItemSet : Single(past[HomeOf[s]].bench[s])

BenchTyped == bench = [s \in ItemSet |-> bench[s]] /\ \A s \in ItemSet : Single(bench[s])

TracksTyped ==
  /\ BenchTyped /\ PastTyped
  /\ document \in [Nodes -> Nat]
  /\ made \in [Subjects -> Nat]

Inputs == [item : Subjects, track : Track, document : Nat]

(* A value the slot settled for was read at the document it was settled    *)
(* with.                                                                   *)
SettledFresh ==
  /\ settled = [s \in ItemSet |-> settled[s]]
  /\ \A s \in ItemSet : \A e \in settled[s] :
       e.ok => e.inputs.track.readAt = e.inputs.document
  /\ \A e \in queued : e.inputs \in Inputs

Entry ==
  [document : Nat, evaluation : {"evaluating", "current", "failed"}, track : Track]

(* A cache whose current tracks are fresh, with no Arc beyond the m-th: two*)
(* cached tracks that share an Arc are of one document.                    *)
FreshCache(c, m) ==
  /\ c \in Seq(Entry)
  /\ \A i \in DOMAIN c :
       /\ c[i].track.arc <= m
       /\ c[i].evaluation = "current" => c[i].track.readAt = c[i].document
  /\ \A i, j \in DOMAIN c :
       c[i].track.arc = c[j].track.arc => c[i].document = c[j].document

CacheFresh == FreshCache(cache, made[Viewed])

LiveInv == TracksTyped /\ SettledFresh /\ CacheFresh

LEMMA EntriesTyped ==
  ASSUME NEW c \in Seq(Entry), NEW i \in DOMAIN c
  PROVE  /\ c[i] \in Entry /\ c[i].document \in Nat
         /\ c[i].track \in Track /\ c[i].track.arc \in Nat
<1>1. c[i] \in Entry
  OBVIOUS
<1> QED
  BY <1>1 DEF Entry, Track

(* A list made of entries of the cache, or of entries no older Arc knows,  *)
(* is as good.                                                             *)
LEMMA CacheFollows ==
  ASSUME NEW m \in Nat, NEW now \in Nat, m <= now,
         NEW c, FreshCache(c, m), NEW d \in Seq(Entry),
         \A i \in DOMAIN d :
           \/ \E j \in DOMAIN c : d[i] = c[j]
           \/ \E j \in DOMAIN c :
                /\ d[i].document = c[j].document /\ d[i].track.arc = c[j].track.arc
                /\ d[i].evaluation # "current"
           \/ /\ d[i].track.arc = now /\ now = m + 1
              /\ d[i].evaluation = "current" => d[i].track.readAt = d[i].document
              /\ \A k \in DOMAIN d : d[k].track.arc = now => d[k].document = d[i].document
  PROVE  FreshCache(d, now)
<1>1. \A j \in DOMAIN c : c[j] \in Entry /\ c[j].track.arc \in Nat /\ c[j].track.arc <= m
  BY EntriesTyped DEF FreshCache
<1>2. \A i \in DOMAIN d : d[i] \in Entry /\ d[i].track.arc \in Nat
  BY EntriesTyped
<1>3. \A i \in DOMAIN d :
        /\ d[i].track.arc <= now
        /\ d[i].evaluation = "current" => d[i].track.readAt = d[i].document
  BY <1>1, <1>2 DEF FreshCache
<1>4. ASSUME NEW i \in DOMAIN d, NEW k \in DOMAIN d, d[i].track.arc = d[k].track.arc
      PROVE  d[i].document = d[k].document
  <2>1. CASE d[i].track.arc = now /\ now = m + 1
    <3>1. \A j \in DOMAIN c : c[j].track.arc # now
      BY <1>1, <2>1
    <3> QED
      BY <1>4, <2>1, <3>1
  <2>2. CASE ~(d[i].track.arc = now /\ now = m + 1)
    <3>0. ~(d[k].track.arc = now /\ now = m + 1)
      BY <1>4, <2>2
    <3>1. PICK j \in DOMAIN c : d[i].document = c[j].document /\ d[i].track.arc = c[j].track.arc
      BY <2>2
    <3>2. PICK l \in DOMAIN c : d[k].document = c[l].document /\ d[k].track.arc = c[l].track.arc
      BY <3>0
    <3>3. c[j].track.arc = c[l].track.arc
      BY <1>4, <3>1, <3>2
    <3>4. c[j].document = c[l].document
      BY <3>3 DEF FreshCache
    <3> QED
      BY <3>1, <3>2, <3>4
  <2> QED
    BY <2>1, <2>2
<1> QED
  BY <1>3, <1>4 DEF FreshCache

Written(old, track, evaluation) ==
  [old EXCEPT !.track = track, !.evaluation = evaluation]

LEMMA EntryWritten ==
  ASSUME NEW old \in Entry, NEW track \in Track,
         NEW evaluation \in {"evaluating", "current", "failed"}
  PROVE  /\ Written(old, track, evaluation) \in Entry
         /\ Written(old, track, evaluation).document = old.document
         /\ Written(old, track, evaluation).track = track
         /\ Written(old, track, evaluation).evaluation = evaluation
  BY DEF Entry, Written

(* What an evaluation of the viewed track that has not moved installs.     *)
LEMMA InstallViewedFresh ==
  ASSUME CacheFresh, NEW inputs \in Inputs, inputs.item = Viewed, ~Moved(inputs),
         NEW track \in Track, NEW evaluation \in {"evaluating", "current", "failed"},
         InstallViewed(inputs, track, evaluation),
         made[Viewed] \in Nat, made'[Viewed] \in Nat,
         \/ evaluation = "failed" /\ track = inputs.track /\ made'[Viewed] = made[Viewed]
         \/ /\ track.arc = made[Viewed] + 1 /\ made'[Viewed] = made[Viewed] + 1
            /\ track.readAt = inputs.document
  PROVE  CacheFresh'
<1>1. PICK at \in DOMAIN cache :
        cache[at].track = inputs.track /\ cache[at].document = inputs.document
  BY DEF Moved, InputsOf, Same, ViewedTrack, Range
<1>2. \A i \in DOMAIN cache :
        cache[i].track.arc = inputs.track.arc => cache[i].document = inputs.document
  BY <1>1 DEF CacheFresh, FreshCache
<1>3. PICK d : d = cache'
  OBVIOUS
<1>4. DOMAIN d = DOMAIN cache
  BY <1>3 DEF InstallViewed
<1>5. \A i \in DOMAIN cache :
        /\ cache[i].track.arc # inputs.track.arc => d[i] = cache[i]
        /\ cache[i].track.arc = inputs.track.arc =>
             d[i] = Written(cache[i], track, evaluation)
  BY <1>3 DEF InstallViewed, Written
<1>6. cache \in Seq(Entry) /\ \A i \in DOMAIN cache : cache[i] \in Entry
        /\ cache[i].track.arc \in Nat /\ cache[i].track.arc <= made[Viewed]
  BY EntriesTyped DEF CacheFresh, FreshCache
<1>7. ASSUME NEW i \in DOMAIN d, cache[i].track.arc = inputs.track.arc
      PROVE  /\ d[i] \in Entry /\ d[i].document = inputs.document
             /\ d[i].track = track /\ d[i].evaluation = evaluation
  <2>1. cache[i] \in Entry /\ cache[i].document = inputs.document
    BY <1>2, <1>4, <1>6, <1>7
  <2>2. d[i] = Written(cache[i], track, evaluation)
    BY <1>4, <1>5, <1>7
  <2> QED
    BY <2>1, <2>2, EntryWritten
<1>8. d \in Seq(Entry)
  <2>1. DOMAIN cache = 1..Len(cache) /\ Len(cache) \in Nat
    BY <1>6
  <2>2. \A i \in 1..Len(cache) : d[i] \in Entry
    BY <1>4, <1>5, <1>6, <1>7, <2>1
  <2>3. d = [i \in 1..Len(cache) |-> d[i]]
    <3>1. d = [i \in DOMAIN d |-> d[i]]
      BY <1>3 DEF InstallViewed
    <3> QED
      BY <1>4, <2>1, <3>1
  <2>4. PICK N \in Nat : N = Len(cache)
    BY <2>1
  <2>5. d \in [1..N -> Entry]
    BY <2>2, <2>3, <2>4
  <2> QED
    BY <2>5
<1>9. CASE evaluation = "failed" /\ track = inputs.track /\ made'[Viewed] = made[Viewed]
  <2>1. ASSUME NEW i \in DOMAIN d
        PROVE  \E j \in DOMAIN cache :
                 \/ d[i] = cache[j]
                 \/ d[i].document = cache[j].document /\ d[i].track.arc = cache[j].track.arc
                      /\ d[i].evaluation # "current"
    <3>1. CASE cache[i].track.arc # inputs.track.arc
      BY <1>4, <1>5, <3>1
    <3>2. CASE cache[i].track.arc = inputs.track.arc
      BY <1>2, <1>4, <1>7, <1>9, <3>2
    <3> QED
      BY <3>1, <3>2
  <2>2. FreshCache(cache, made[Viewed]) /\ made[Viewed] <= made'[Viewed]
    BY <1>9 DEF CacheFresh
  <2>3. FreshCache(d, made'[Viewed])
    BY <1>8, <2>1, <2>2, CacheFollows
  <2> QED
    BY <1>3, <2>3 DEF CacheFresh
<1>10. CASE /\ track.arc = made[Viewed] + 1 /\ made'[Viewed] = made[Viewed] + 1
            /\ track.readAt = inputs.document
  <2>1. ASSUME NEW i \in DOMAIN d, d[i].track.arc = made'[Viewed]
        PROVE  d[i].document = inputs.document
    <3>1. CASE cache[i].track.arc # inputs.track.arc
      BY <1>4, <1>5, <1>6, <1>10, <2>1, <3>1
    <3>2. CASE cache[i].track.arc = inputs.track.arc
      BY <1>7, <3>2
    <3> QED
      BY <3>1, <3>2
  <2>2. ASSUME NEW i \in DOMAIN d
        PROVE  \/ \E j \in DOMAIN cache : d[i] = cache[j]
               \/ /\ d[i].track.arc = made'[Viewed]
                  /\ d[i].evaluation = "current" => d[i].track.readAt = d[i].document
                  /\ \A k \in DOMAIN d :
                       d[k].track.arc = made'[Viewed] => d[k].document = d[i].document
    BY <1>4, <1>5, <1>7, <1>10, <2>1, <2>2
  <2>3. FreshCache(cache, made[Viewed]) /\ made[Viewed] <= made'[Viewed]
          /\ made'[Viewed] = made[Viewed] + 1
    BY <1>10 DEF CacheFresh
  <2>4. FreshCache(d, made'[Viewed])
    BY <1>8, <2>2, <2>3, CacheFollows
  <2> QED
    BY <1>3, <2>4 DEF CacheFresh
<1> QED
  BY <1>9, <1>10

-----------------------------------------------------------------------------
(* Each step keeps the driver's state so.                                  *)

LEMMA SteppedTyped ==
  ASSUME TracksTyped, NEW s \in ItemSet
  PROVE  Single({SteppedTrack(s)})
<1>1. made[s] \in Nat
  BY DEF TracksTyped, Subjects
<1> QED
  BY <1>1 DEF SteppedTrack, Track, Single

LEMMA LeftTyped ==
  ASSUME TracksTyped, NEW n \in Nodes, LeaveBehind(n)
  PROVE  PastTyped'
<1>1. \A m \in Nodes : past'[m] =
        IF m = n THEN [bench |-> BenchOf(n), document |-> document[n]] ELSE past[m]
  BY DEF LeaveBehind, TracksTyped, PastTyped
<1>2. past' = [m \in Nodes |-> past'[m]]
  BY DEF LeaveBehind, TracksTyped, PastTyped
<1>3. \A m \in Nodes : past'[m].document \in Nat
  BY <1>1 DEF TracksTyped, PastTyped
<1>4. ASSUME NEW s \in ItemSet PROVE Single(past'[HomeOf[s]].bench[s])
  <2>1. CASE HomeOf[s] = n
    <3>1. past'[n].bench = BenchOf(n)
      BY <1>1
    <3>2. BenchOf(n)[s] = bench[s]
      BY <2>1 DEF BenchOf
    <3> QED
      BY <2>1, <3>1, <3>2 DEF TracksTyped, BenchTyped
  <2>2. CASE HomeOf[s] # n
    BY <1>1, <2>2, SubjectsHaveNodes DEF TracksTyped, PastTyped
  <2> QED
    BY <2>1, <2>2
<1> QED
  BY <1>2, <1>3, <1>4 DEF PastTyped

LEMMA BenchWritten ==
  ASSUME BenchTyped, NEW s \in ItemSet, NEW b, Single(b), bench' = [bench EXCEPT ![s] = b]
  PROVE  BenchTyped'
  BY DEF BenchTyped

(* A new value of an item is no new value of the viewed track.             *)
LEMMA MadeCounted ==
  ASSUME made \in [Subjects -> Nat], NEW s \in Subjects,
         made' = [made EXCEPT ![s] = @ + 1]
  PROVE  /\ made' \in [Subjects -> Nat]
         /\ s = Viewed => made'[Viewed] = made[Viewed] + 1
         /\ s # Viewed => made'[Viewed] = made[Viewed]
<1>1. Viewed \in Subjects
  BY DEF Subjects
<1> QED
  BY <1>1

(* The steps that leave the driver and the cache alone.                    *)
LEMMA DriverUntouched ==
  ASSUME LiveInv, TracksTyped', UNCHANGED <<queued, settled, cache>>,
         made'[Viewed] = made[Viewed]
  PROVE  LiveInv'
  BY DEF LiveInv, SettledFresh, CacheFresh

LEMMA StepTrackKeeps ==
  ASSUME LiveInv, NEW s \in ItemSet, StepTrack(s) PROVE LiveInv'
<1>1. HomeOf[s] \in Nodes /\ s \in Subjects /\ s # Viewed
  BY SubjectsHaveNodes DEF Subjects
<1>2. PastTyped'
  BY <1>1, LeftTyped DEF StepTrack, LiveInv
<1>3. BenchTyped'
  BY SteppedTyped, BenchWritten DEF StepTrack, LiveInv, TracksTyped
<1>4. made' \in [Subjects -> Nat] /\ made'[Viewed] = made[Viewed]
  BY <1>1, MadeCounted DEF StepTrack, LiveInv, TracksTyped
<1> QED
  BY <1>2, <1>3, <1>4, DriverUntouched
  DEF StepTrack, LiveInv, TracksTyped, driverVars, viewedVars

LEMMA StepDocumentKeeps ==
  ASSUME LiveInv, TypeOK', NEW n \in Nodes, StepDocument(n) PROVE LiveInv'
<1>1. PastTyped'
  BY LeftTyped DEF StepDocument, LiveInv
<1>2. cursor'[n] \in Nat
  BY DEF TypeOK
<1>3. document' \in [Nodes -> Nat]
  BY <1>2 DEF StepDocument, LiveInv, TracksTyped
<1> QED
  BY <1>1, <1>3, DriverUntouched
  DEF StepDocument, LiveInv, TracksTyped, BenchTyped, driverVars, viewedVars

LEMMA StepBackKeeps ==
  ASSUME LiveInv, NEW n \in Nodes, StepBack(n) PROVE LiveInv'
<1>1. PastTyped'
  BY LeftTyped DEF StepBack, LiveInv
<1>2. document' \in [Nodes -> Nat]
  BY DEF StepBack, LiveInv, TracksTyped, PastTyped
<1>3. BenchTyped'
  BY DEF StepBack, LiveInv, TracksTyped, PastTyped, BenchTyped
<1> QED
  BY <1>1, <1>2, <1>3, DriverUntouched
  DEF StepBack, LiveInv, TracksTyped, driverVars, viewedVars

LEMMA EmptyCache == ASSUME NEW m PROVE FreshCache(<<>>, m)
  BY DEF FreshCache

LEMMA CloseKeeps ==
  ASSUME LiveInv, NEW n \in Nodes, Close(n) PROVE LiveInv'
<1>1. Single({})
  BY DEF Single
<1>2. BenchTyped'
  BY <1>1 DEF Close, LiveInv, TracksTyped, BenchTyped
<1>3. TracksTyped' /\ SettledFresh' /\ made' = made
  BY <1>2 DEF Close, LiveInv, TracksTyped, PastTyped, SettledFresh, driverVars
<1>4. cache' = cache \/ cache' = <<>>
  BY DEF Close, viewedVars
<1> QED
  BY <1>3, <1>4, EmptyCache DEF LiveInv, CacheFresh

LEMMA PollKeeps ==
  ASSUME LiveInv, TypeOK', Inv, NEW q \in Queues, PollQueue(q) PROVE LiveInv'
<1>1. UNCHANGED <<queued, settled, cache>>
  BY DEF PollQueue, driverVars, viewedVars
<1>2. CASE UNCHANGED benchVars
  BY <1>1, <1>2, DriverUntouched DEF benchVars, LiveInv, TracksTyped, BenchTyped, PastTyped
<1>3. ASSUME NEW n \in Nodes, LeaveBehind(n),
             \/ /\ \E s \in ItemSet : /\ bench' = [bench EXCEPT ![s] = {SteppedTrack(s)}]
                                      /\ made' = [made EXCEPT ![s] = @ + 1]
                /\ UNCHANGED document
             \/ /\ document' = [document EXCEPT ![n] = cursor'[n]]
                /\ UNCHANGED <<bench, made>>
      PROVE  LiveInv'
  <2>1. PastTyped'
    BY <1>3, LeftTyped DEF LiveInv
  <2>2. ASSUME NEW s \in ItemSet, bench' = [bench EXCEPT ![s] = {SteppedTrack(s)}],
               made' = [made EXCEPT ![s] = @ + 1], UNCHANGED document
        PROVE  LiveInv'
    <3>1. s \in Subjects /\ s # Viewed
      BY SubjectsHaveNodes DEF Subjects
    <3>2. BenchTyped'
      BY <2>2, SteppedTyped, BenchWritten DEF LiveInv, TracksTyped
    <3>3. made' \in [Subjects -> Nat] /\ made'[Viewed] = made[Viewed]
      BY <2>2, <3>1, MadeCounted DEF LiveInv, TracksTyped
    <3> QED
      BY <1>1, <2>1, <2>2, <3>2, <3>3, DriverUntouched DEF LiveInv, TracksTyped
  <2>3. CASE /\ document' = [document EXCEPT ![n] = cursor'[n]]
             /\ UNCHANGED <<bench, made>>
    <3>1. cursor'[n] \in Nat
      BY DEF TypeOK
    <3>2. document' \in [Nodes -> Nat]
      BY <2>3, <3>1 DEF LiveInv, TracksTyped
    <3> QED
      BY <1>1, <2>1, <2>3, <3>2, DriverUntouched DEF LiveInv, TracksTyped, BenchTyped
  <2> QED
    BY <1>3, <2>2, <2>3
<1>4. ASSUME NEW t \in running[q], LandedValue(t, worker[q]), ~UNCHANGED benchVars
      PROVE  LiveInv'
  <2>1. t.node \in Nodes
    BY <1>4 DEF LandedValue, Inv, TypeOK
  <2>2. LeaveBehind(t.node)
    BY <1>4 DEF LandedValue, LeaveBehind
  <2> QED
    BY <1>3, <1>4, <2>1, <2>2 DEF LandedValue
<1> QED
  BY <1>2, <1>4 DEF PollQueue

(* The slot is given one value of an item.                                 *)
LEMMA SettleKeeps ==
  ASSUME settled = [s \in ItemSet |-> settled[s]],
         \A s \in ItemSet : \A e \in settled[s] : e.ok => e.inputs.track.readAt = e.inputs.document,
         NEW s \in ItemSet, NEW slot,
         \A e \in slot : e.ok => e.inputs.track.readAt = e.inputs.document,
         settled' = [settled EXCEPT ![s] = slot], queued' \subseteq queued,
         \A e \in queued : e.inputs \in Inputs
  PROVE  SettledFresh'
<1>1. \A i \in ItemSet : settled'[i] = IF i = s THEN slot ELSE settled[i]
  OBVIOUS
<1>2. settled' = [i \in ItemSet |-> settled'[i]]
  OBVIOUS
<1> QED
  BY <1>1, <1>2 DEF SettledFresh

LEMMA MeasuredTyped ==
  ASSUME NEW inputs \in Inputs, NEW arc \in Nat, NEW mark \in BOOLEAN
  PROVE  [arc |-> arc, step |-> inputs.track.step, readAt |-> inputs.document, marked |-> mark]
           \in Track
<1>1. inputs.track \in Track /\ inputs.document \in Nat
  BY DEF Inputs
<1> QED
  BY <1>1 DEF Track

LEMMA InstallTrackKeeps ==
  ASSUME LiveInv, NEW inputs \in Inputs, inputs.item # Viewed, InstallTrack(inputs),
         queued' \subseteq queued, UNCHANGED <<document, past, cache>>
  PROVE  LiveInv'
<1> DEFINE item == inputs.item
<1>1. item \in ItemSet /\ item \in Subjects
  BY DEF Inputs, Subjects
<1> DEFINE Read(marked) == [arc |-> made[item] + 1, step |-> inputs.track.step,
                            readAt |-> inputs.document, marked |-> marked]
<1>1a. PICK mark \in BOOLEAN :
        /\ bench' = [bench EXCEPT ![item] = {Read(mark)}]
        /\ made' = [made EXCEPT ![item] = @ + 1]
        /\ IF mark
           THEN settled' = [settled EXCEPT ![item] = {}]
           ELSE Settle(settled, [inputs EXCEPT !.track = Read(mark)], TRUE)
  BY Zenon DEF InstallTrack
<1>1b. PICK landed : landed = Read(mark)
  OBVIOUS
<1>2. /\ landed = [arc |-> made[item] + 1, step |-> inputs.track.step,
                   readAt |-> inputs.document, marked |-> mark]
      /\ bench' = [bench EXCEPT ![item] = {landed}]
      /\ made' = [made EXCEPT ![item] = @ + 1]
      /\ IF mark
         THEN settled' = [settled EXCEPT ![item] = {}]
         ELSE Settle(settled, [inputs EXCEPT !.track = landed], TRUE)
  BY <1>1a, <1>1b, Zenon
<1> HIDE DEF Read
<1>3. made' \in [Subjects -> Nat] /\ made'[Viewed] = made[Viewed] /\ made[item] \in Nat
  BY <1>1, <1>2, MadeCounted DEF LiveInv, TracksTyped
<1>4. landed \in Track
  BY <1>2, <1>3, MeasuredTyped
<1>5. BenchTyped'
  BY <1>1, <1>2, <1>4, BenchWritten DEF LiveInv, TracksTyped, Single
<1>6. TracksTyped'
  BY <1>3, <1>5 DEF LiveInv, TracksTyped, PastTyped
<1>7. SettledFresh'
  <2>1. CASE mark
    BY <1>1, <1>2, <2>1, SettleKeeps DEF LiveInv, SettledFresh
  <2>2. CASE ~mark
    <3>1. PICK settledFor : settledFor = [inputs EXCEPT !.track = landed]
      OBVIOUS
    <3>2. settledFor.item = item /\ settledFor.track = landed
            /\ settledFor.document = inputs.document
      BY <3>1 DEF Inputs
    <3>3. settled' = [settled EXCEPT ![item] = {[inputs |-> settledFor, ok |-> TRUE]}]
      BY <1>2, <2>2, <3>1, <3>2 DEF Settle
    <3>4. settledFor.track.readAt = settledFor.document
      BY <1>2, <3>2
    <3>5. \A e \in {[inputs |-> settledFor, ok |-> TRUE]} :
            e.ok => e.inputs.track.readAt = e.inputs.document
      BY <3>4
    <3> QED
      BY <1>1, <3>3, <3>5, SettleKeeps DEF LiveInv, SettledFresh
  <2> QED
    BY <2>1, <2>2
<1> QED
  BY <1>3, <1>6, <1>7 DEF LiveInv, CacheFresh

LEMMA MeasureViewedKeeps ==
  ASSUME LiveInv, NEW inputs \in Inputs, inputs.item = Viewed, ~Moved(inputs),
         MeasureViewed(inputs), queued' \subseteq queued,
         UNCHANGED <<document, past, bench, settled>>
  PROVE  LiveInv'
<1>1. Viewed \in Subjects
  BY DEF Subjects
<1>2. PICK mark, track :
        /\ mark \in BOOLEAN
        /\ track = [arc |-> made[Viewed] + 1, step |-> inputs.track.step,
                    readAt |-> inputs.document, marked |-> mark]
        /\ InstallViewed(inputs, track, IF mark THEN "evaluating" ELSE "current")
        /\ made' = [made EXCEPT ![Viewed] = @ + 1]
  <2> DEFINE Read(mark) == [arc |-> made[Viewed] + 1, step |-> inputs.track.step,
                            readAt |-> inputs.document, marked |-> mark]
  <2>1. PICK mark \in BOOLEAN :
          /\ InstallViewed(inputs, Read(mark), IF mark THEN "evaluating" ELSE "current")
          /\ made' = [made EXCEPT ![Viewed] = @ + 1]
    BY Zenon DEF MeasureViewed
  <2> WITNESS mark, Read(mark)
  <2> QED
    BY <2>1
<1>3. made' \in [Subjects -> Nat] /\ made'[Viewed] = made[Viewed] + 1 /\ made[Viewed] \in Nat
  BY <1>1, <1>2, MadeCounted DEF LiveInv, TracksTyped
<1>4. track \in Track /\ track.arc = made[Viewed] + 1 /\ track.readAt = inputs.document
  BY <1>2, <1>3, MeasuredTyped
<1>5. PICK evaluation \in {"evaluating", "current", "failed"} :
        InstallViewed(inputs, track, evaluation)
  BY <1>2
<1>6. CacheFresh'
  BY <1>3, <1>4, <1>5, InstallViewedFresh DEF LiveInv
<1>7. TracksTyped' /\ SettledFresh'
  BY <1>3 DEF LiveInv, TracksTyped, BenchTyped, PastTyped, SettledFresh
<1> QED
  BY <1>6, <1>7 DEF LiveInv

LEMMA FailureKeeps ==
  ASSUME LiveInv, NEW inputs \in Inputs, ~Moved(inputs), NEW kept,
         kept = [s \in ItemSet |-> kept[s]],
         \A s \in ItemSet : \A e \in kept[s] : e.ok => e.inputs.track.readAt = e.inputs.document,
         RecordFailure(kept, inputs), queued' \subseteq queued,
         UNCHANGED <<document, past, bench, made>>
  PROVE  LiveInv'
<1>1. TracksTyped' /\ made[Viewed] \in Nat /\ made' = made
  BY DEF LiveInv, TracksTyped, BenchTyped, PastTyped, Subjects
<1>2. CASE inputs.item = Viewed
  <2>1. InstallViewed(inputs, inputs.track, "failed") /\ settled' = kept
    BY <1>2 DEF RecordFailure
  <2>2. inputs.track \in Track
    BY DEF Inputs
  <2>3. CacheFresh'
    BY <1>1, <1>2, <2>1, <2>2, InstallViewedFresh DEF LiveInv
  <2>4. SettledFresh'
    BY <2>1 DEF LiveInv, SettledFresh
  <2> QED
    BY <1>1, <2>3, <2>4 DEF LiveInv
<1>3. CASE inputs.item # Viewed
  <2>1. inputs.item \in ItemSet
    BY <1>3 DEF Inputs, Subjects
  <2>2. settled' = [kept EXCEPT ![inputs.item] = {[inputs |-> inputs, ok |-> FALSE]}]
          /\ UNCHANGED cache
    BY <1>3 DEF RecordFailure, Settle
  <2>3. \A s \in ItemSet : settled'[s] =
          IF s = inputs.item THEN {[inputs |-> inputs, ok |-> FALSE]} ELSE kept[s]
    BY <2>2
  <2>4. settled' = [s \in ItemSet |-> settled'[s]]
    BY <2>2
  <2>5. SettledFresh'
    BY <2>3, <2>4 DEF LiveInv, SettledFresh
  <2> QED
    BY <1>1, <2>2, <2>5 DEF LiveInv, CacheFresh
<1> QED
  BY <1>2, <1>3

LEMMA LandKeeps ==
  ASSUME LiveInv, NEW inputs \in Inputs, NEW how, LandEvaluation(inputs, how),
         queued' \subseteq queued, UNCHANGED <<document, past>>
  PROVE  LiveInv'
<1>1. CASE UNCHANGED <<bench, made, settled, cache>>
  BY <1>1 DEF LiveInv, TracksTyped, BenchTyped, PastTyped, SettledFresh, CacheFresh
<1>2. CASE ~Moved(inputs) /\ RecordFailure(settled, inputs) /\ UNCHANGED <<bench, made>>
  <2>1. /\ settled = [s \in ItemSet |-> settled[s]]
        /\ \A s \in ItemSet : \A e \in settled[s] : e.ok => e.inputs.track.readAt = e.inputs.document
    BY DEF LiveInv, SettledFresh
  <2> QED
    BY <1>2, <2>1, FailureKeeps
<1>3. CASE ~Moved(inputs) /\ inputs.item = Viewed /\ MeasureViewed(inputs)
             /\ UNCHANGED <<bench, settled>>
  BY <1>3, MeasureViewedKeeps
<1>4. CASE inputs.item # Viewed /\ InstallTrack(inputs) /\ UNCHANGED cache
  BY <1>4, InstallTrackKeeps
<1> QED
  BY <1>1, <1>2, <1>3, <1>4 DEF LandEvaluation, Install

LEMMA DriveLandKeeps == ASSUME LiveInv, DriveLand PROVE LiveInv'
<1>1. UNCHANGED <<document, past>> /\ \A e \in queued : e.inputs \in Inputs
  BY DEF DriveLand, LiveInv, SettledFresh
<1>2. CASE UNCHANGED <<queued, bench, made, settled, cache>>
  BY <1>1, <1>2 DEF LiveInv, TracksTyped, BenchTyped, PastTyped, SettledFresh, CacheFresh
<1>3. CASE queued' = {} /\ UNCHANGED <<bench, made, settled, cache>>
  BY <1>1, <1>3 DEF LiveInv, TracksTyped, BenchTyped, PastTyped, SettledFresh, CacheFresh
<1>4. ASSUME NEW e \in queued, NEW how, queued' = {}, LandEvaluation(e.inputs, how)
      PROVE  LiveInv'
  BY <1>1, <1>4, LandKeeps
<1> QED
  BY <1>2, <1>3, <1>4 DEF DriveLand

LEMMA InputsTyped ==
  ASSUME LiveInv, NEW s \in Subjects, NEW inputs \in InputsOf(s)
  PROVE  inputs \in Inputs /\ inputs.item = s /\ ~Moved(inputs)
<1>1. inputs.item = s
  BY DEF InputsOf
<1>2. ~Moved(inputs)
  BY <1>1 DEF Moved, Same
<1>3. CASE s = Viewed
  <2>1. PICK v \in Range(cache) :
          inputs = [item |-> s, track |-> v.track, document |-> v.document]
    BY <1>3 DEF InputsOf, ViewedTrack
  <2>2. v.track \in Track /\ v.document \in Nat
    BY <2>1, EntriesTyped DEF LiveInv, CacheFresh, FreshCache, Range
  <2> QED
    BY <1>1, <1>2, <2>1, <2>2 DEF Inputs
<1>4. CASE s # Viewed
  <2>1. s \in ItemSet
    BY <1>4 DEF Subjects
  <2>2. PICK t \in bench[s] :
          inputs = [item |-> s, track |-> t, document |-> document[HomeOf[s]]]
    BY <1>4 DEF InputsOf
  <2>3. t \in Track /\ document[HomeOf[s]] \in Nat
    BY <2>1, <2>2, SubjectsHaveNodes DEF LiveInv, TracksTyped, BenchTyped, Single
  <2> QED
    BY <1>1, <1>2, <2>2, <2>3 DEF Inputs
<1> QED
  BY <1>3, <1>4

LEMMA RememberedFresh ==
  ASSUME LiveInv
  PROVE  /\ Remembered = [s \in ItemSet |-> Remembered[s]]
         /\ \A s \in ItemSet : \A e \in Remembered[s] :
              e.ok => e.inputs.track.readAt = e.inputs.document
  BY DEF LiveInv, SettledFresh, Remembered

LEMMA DriveQueueKeeps == ASSUME LiveInv, DriveQueue PROVE LiveInv'
<1>1. UNCHANGED <<bench, document, past, made>>
  BY DEF DriveQueue, benchVars
<1>2. TracksTyped' /\ (UNCHANGED cache => CacheFresh')
  BY <1>1 DEF LiveInv, TracksTyped, BenchTyped, PastTyped, CacheFresh
<1>3. CASE UNCHANGED <<queued, settled, cache>>
  BY <1>2, <1>3 DEF LiveInv, SettledFresh
<1>4. CASE settled' = Remembered /\ queued' = {} /\ UNCHANGED cache
  BY <1>2, <1>4, RememberedFresh DEF LiveInv, SettledFresh
<1>5. ASSUME NEW s \in NextUnevaluated, NEW inputs \in InputsOf(s),
             queued' = {}, RecordFailure(Remembered, inputs)
      PROVE  LiveInv'
  <2>1. inputs \in Inputs /\ ~Moved(inputs)
    BY <1>5, InputsTyped, UnevaluatedIsSubject
  <2>2. queued' \subseteq queued
    BY <1>5
  <2>3. PICK kept : kept = Remembered
    OBVIOUS
  <2>4. /\ kept = [i \in ItemSet |-> kept[i]]
        /\ \A i \in ItemSet : \A e \in kept[i] : e.ok => e.inputs.track.readAt = e.inputs.document
        /\ RecordFailure(kept, inputs)
    BY <1>5, <2>3, RememberedFresh
  <2> QED
    BY <1>1, <2>1, <2>2, <2>4, FailureKeeps
<1>6. ASSUME NEW s \in NextUnevaluated, NEW inputs \in InputsOf(s),
             queued' = {[inputs |-> inputs, task |-> nextQuietId]},
             settled' = Remembered, UNCHANGED cache
      PROVE  LiveInv'
  <2>1. inputs \in Inputs
    BY <1>6, InputsTyped, UnevaluatedIsSubject
  <2>2. \A e \in queued' : e.inputs \in Inputs
    BY <1>6, <2>1
  <2>3. SettledFresh'
    BY <1>6, <2>2, RememberedFresh DEF SettledFresh
  <2> QED
    BY <1>2, <1>6, <2>3 DEF LiveInv
<1>7. ASSUME NEW s \in NextUnevaluated, QueueEvaluation(s) PROVE LiveInv'
  BY <1>5, <1>6, <1>7 DEF QueueEvaluation
<1> QED
  BY <1>3, <1>4, <1>7 DEF DriveQueue

(* The key's track is moved to the front.                                  *)
LEMMA MovedToFront ==
  ASSUME NEW m \in Nat, NEW c, FreshCache(c, m), NEW at \in DOMAIN c
  PROVE  FreshCache(<<c[at]>> \o RemoveAt(c, at), m)
<1>1. c \in Seq(Entry) /\ c[at] \in Entry
  BY EntriesTyped DEF FreshCache
<1>2. PICK N \in Nat : N = Len(c) /\ DOMAIN c = 1..N
  BY <1>1
<1>3. PICK before : before = SubSeq(c, 1, at - 1)
  OBVIOUS
<1>4. before \in Seq(Entry) /\ \A i \in DOMAIN before : i \in DOMAIN c /\ before[i] = c[i]
  <2>1. \A i \in 1..(at - 1) : c[i] \in Entry /\ i \in DOMAIN c
    BY <1>1, <1>2, EntriesTyped
  <2>2. at - 1 \in Nat
    BY <1>2
  <2>3. /\ SubSeq(c, 1, at - 1) \in Seq(Entry) /\ Len(SubSeq(c, 1, at - 1)) = at - 1
        /\ \A i \in 1..(at - 1) : SubSeq(c, 1, at - 1)[i] = c[i]
    BY <2>1, <2>2, SubSeqProperties
  <2> QED
    BY <1>3, <2>1, <2>3
<1>5. PICK after : after = SubSeq(c, at + 1, Len(c))
  OBVIOUS
<1>6. after \in Seq(Entry) /\ \A i \in DOMAIN after : i + at \in DOMAIN c /\ after[i] = c[i + at]
  <2>1. \A i \in (at + 1)..N : c[i] \in Entry
    BY <1>1, <1>2, EntriesTyped
  <2>2. /\ SubSeq(c, at + 1, N) \in Seq(Entry) /\ Len(SubSeq(c, at + 1, N)) = N - at
        /\ \A i \in 1..(N - at) : SubSeq(c, at + 1, N)[i] = c[i + at]
    BY <1>2, <2>1, SubSeqProperties
  <2> QED
    BY <1>2, <1>5, <2>2
<1>7. PICK rest : rest = RemoveAt(c, at) /\ rest = before \o after
  BY <1>3, <1>5 DEF RemoveAt
<1>8. rest \in Seq(Entry) /\ \A i \in DOMAIN rest : \E j \in DOMAIN c : rest[i] = c[j]
  <2>1. /\ rest \in Seq(Entry) /\ Len(rest) = Len(before) + Len(after)
        /\ \A i \in 1..(Len(before) + Len(after)) :
             rest[i] = IF i <= Len(before) THEN before[i] ELSE after[i - Len(before)]
    BY <1>4, <1>6, <1>7, ConcatProperties
  <2>2. Len(before) \in Nat /\ Len(after) \in Nat
    BY <1>4, <1>6
  <2>3. ASSUME NEW i \in DOMAIN rest PROVE \E j \in DOMAIN c : rest[i] = c[j]
    <3>1. i \in 1..(Len(before) + Len(after))
      BY <2>1
    <3>2. CASE i <= Len(before)
      BY <1>4, <2>1, <2>2, <3>1, <3>2
    <3>3. CASE ~(i <= Len(before))
      BY <1>6, <2>1, <2>2, <3>1, <3>3
    <3> QED
      BY <3>2, <3>3
  <2> QED
    BY <2>1, <2>3
<1>9. PICK d : d = <<c[at]>> \o rest
  OBVIOUS
<1>10. d \in Seq(Entry) /\ \A i \in DOMAIN d : \E j \in DOMAIN c : d[i] = c[j]
  <2>1. <<c[at]>> \in Seq(Entry) /\ Len(<<c[at]>>) = 1 /\ <<c[at]>>[1] = c[at]
    BY <1>1
  <2>2. PICK front \in Seq(Entry) : front = <<c[at]>> /\ Len(front) = 1 /\ front[1] = c[at]
    BY <2>1
  <2>3. /\ d \in Seq(Entry) /\ Len(d) = 1 + Len(rest)
        /\ \A i \in 1..(1 + Len(rest)) : d[i] = IF i <= 1 THEN front[i] ELSE rest[i - 1]
    BY <1>8, <1>9, <2>2, ConcatProperties
  <2>4. Len(rest) \in Nat
    BY <1>8
  <2>5. ASSUME NEW i \in DOMAIN d PROVE \E j \in DOMAIN c : d[i] = c[j]
    <3>1. i \in 1..(1 + Len(rest))
      BY <2>3
    <3>2. CASE i = 1
      BY <2>2, <2>3, <3>1, <3>2
    <3>3. CASE i # 1
      <4>1. d[i] = rest[i - 1] /\ i - 1 \in DOMAIN rest
        BY <1>8, <2>3, <2>4, <3>1, <3>3
      <4> QED
        BY <1>8, <4>1
    <3> QED
      BY <3>2, <3>3
  <2> QED
    BY <2>3, <2>5
<1>11. FreshCache(d, m)
  BY <1>10, CacheFollows
<1> QED
  BY <1>7, <1>9, <1>11

(* The key's track is built, and the cache keeps its first few.            *)
LEMMA BuiltInFront ==
  ASSUME NEW m \in Nat, NEW c, FreshCache(c, m), NEW built \in Entry,
         built.track.arc = m + 1, built.evaluation # "current",
         NEW kept \in Nat, kept <= Len(c)
  PROVE  FreshCache(<<built>> \o SubSeq(c, 1, kept), m + 1)
<1>1. c \in Seq(Entry)
  BY DEF FreshCache
<1>2. PICK rest : rest = SubSeq(c, 1, kept)
  OBVIOUS
<1>3. rest \in Seq(Entry) /\ \A i \in DOMAIN rest : i \in DOMAIN c /\ rest[i] = c[i]
  <2>1. \A i \in 1..kept : c[i] \in Entry /\ i \in DOMAIN c
    BY <1>1, EntriesTyped
  <2>2. /\ SubSeq(c, 1, kept) \in Seq(Entry) /\ Len(SubSeq(c, 1, kept)) = kept
        /\ \A i \in 1..kept : SubSeq(c, 1, kept)[i] = c[i]
    BY <2>1, SubSeqProperties
  <2> QED
    BY <1>2, <2>1, <2>2
<1>4. \A i \in DOMAIN rest : \E j \in DOMAIN c : rest[i] = c[j]
  BY <1>3
<1>5. \A j \in DOMAIN c : c[j].track.arc \in Nat /\ c[j].track.arc <= m
  BY <1>1, EntriesTyped DEF FreshCache
<1>6. PICK d : d = <<built>> \o rest
  OBVIOUS
<1>7. /\ d \in Seq(Entry) /\ 1 \in DOMAIN d /\ d[1] = built
      /\ \A i \in DOMAIN d : i # 1 => i - 1 \in DOMAIN rest /\ d[i] = rest[i - 1]
  <2>0. <<built>> \in Seq(Entry) /\ Len(<<built>>) = 1 /\ <<built>>[1] = built
    OBVIOUS
  <2>1. PICK front \in Seq(Entry) : front = <<built>> /\ Len(front) = 1 /\ front[1] = built
    BY <2>0
  <2>2. /\ d \in Seq(Entry) /\ Len(d) = 1 + Len(rest)
        /\ \A i \in 1..(1 + Len(rest)) : d[i] = IF i <= 1 THEN front[i] ELSE rest[i - 1]
    BY <1>3, <1>6, <2>1, ConcatProperties
  <2>3. Len(rest) \in Nat /\ DOMAIN rest = 1..Len(rest)
    BY <1>3
  <2>4. DOMAIN d = 1..(1 + Len(rest))
    BY <2>2
  <2> QED
    BY <2>1, <2>2, <2>3, <2>4
<1>8. ASSUME NEW i \in DOMAIN d
      PROVE  \/ \E j \in DOMAIN c : d[i] = c[j]
             \/ /\ d[i].track.arc = m + 1
                /\ d[i].evaluation = "current" => d[i].track.readAt = d[i].document
                /\ \A k \in DOMAIN d : d[k].track.arc = m + 1 => d[k].document = d[i].document
  <2>1. CASE i # 1
    BY <1>4, <1>7, <2>1
  <2>2. CASE i = 1
    <3>1. \A k \in DOMAIN d : k # 1 => d[k].track.arc # m + 1
      BY <1>4, <1>5, <1>7
    <3> QED
      BY <1>7, <2>2, <3>1
  <2> QED
    BY <2>1, <2>2
<1>9. FreshCache(d, m + 1)
  BY <1>7, <1>8, CacheFollows
<1> QED
  BY <1>2, <1>6, <1>9

LEMMA DrawPanelsKeeps == ASSUME LiveInv, DrawPanels PROVE LiveInv'
<1>1. UNCHANGED <<bench, document, past, queued, settled>>
  BY DEF DrawPanels, driverVars
<1>2. SettledFresh' /\ BenchTyped' /\ PastTyped' /\ document' \in [Nodes -> Nat]
  BY <1>1 DEF LiveInv, TracksTyped, BenchTyped, PastTyped, SettledFresh
<1>3. CacheFresh /\ made \in [Subjects -> Nat] /\ made[Viewed] \in Nat /\ Viewed \in Subjects
  BY DEF LiveInv, TracksTyped, Subjects
<1>4. CASE UNCHANGED <<cache, made>>
  BY <1>2, <1>3, <1>4 DEF LiveInv, TracksTyped, CacheFresh
<1>5. ASSUME NEW at \in DOMAIN cache, UNCHANGED made,
             cache' = <<cache[at]>> \o RemoveAt(cache, at)
      PROVE  LiveInv'
  <2>1. FreshCache(cache', made[Viewed])
    BY <1>3, <1>5, MovedToFront DEF CacheFresh
  <2> QED
    BY <1>2, <1>3, <1>5, <2>1 DEF LiveInv, TracksTyped, CacheFresh
<1>6. ASSUME NEW key \in ViewedKey, made' = [made EXCEPT ![Viewed] = @ + 1],
             NEW kept \in Nat, kept <= Len(cache),
             cache' = <<BuiltTrack(key)>> \o SubSeq(cache, 1, kept)
      PROVE  LiveInv'
  <2>1. key \in Nat
    BY <1>6, ItemsAssumption DEF ViewedKey, LiveInv, TracksTyped
  <2>2. BuiltTrack(key) \in Entry /\ BuiltTrack(key).track.arc = made[Viewed] + 1
          /\ BuiltTrack(key).evaluation # "current"
    BY <1>3, <2>1 DEF BuiltTrack, Entry, Track
  <2>3. FreshCache(cache', made[Viewed] + 1)
    BY <1>3, <1>6, <2>2, BuiltInFront DEF CacheFresh
  <2>4. made' \in [Subjects -> Nat] /\ made'[Viewed] = made[Viewed] + 1
    BY <1>3, <1>6, MadeCounted
  <2> QED
    BY <1>2, <2>3, <2>4 DEF LiveInv, TracksTyped, CacheFresh
<1>7. PICK kept \in Nat : /\ kept <= Len(cache)
                          /\ kept = IF Len(cache) < CacheSize THEN Len(cache) ELSE CacheSize - 1
  <2>1. Len(cache) \in Nat /\ CacheSize \in Nat \ {0}
    BY <1>3, ItemsAssumption DEF CacheFresh, FreshCache
  <2> QED
    BY <2>1
<1> QED
  BY <1>4, <1>5, <1>6, <1>7 DEF DrawPanels, RefreshViewed

-----------------------------------------------------------------------------
LEMMA LiveInvInit == LiveInit => LiveInv
<1> SUFFICES ASSUME LiveInit PROVE LiveInv
  OBVIOUS
<1>1. \A s \in ItemSet : Single({FirstTrack(s)}) /\ Single({})
  BY DEF FirstTrack, Track, Single
<1>2. BenchTyped
  BY <1>1 DEF LiveInit, BenchTyped
<1>3. PastTyped
  <2>1. past = [n \in Nodes |-> past[n]]
          /\ \A n \in Nodes : past[n].document = 0 /\ past[n].bench = BenchOf(n)
    BY DEF LiveInit
  <2>2. \A s \in ItemSet : BenchOf(HomeOf[s])[s] = bench[s]
    BY DEF BenchOf
  <2> QED
    BY <1>2, <2>1, <2>2, SubjectsHaveNodes DEF PastTyped, BenchTyped
<1>4. TracksTyped
  BY <1>2, <1>3 DEF LiveInit, TracksTyped
<1>5. SettledFresh
  BY DEF LiveInit, SettledFresh
<1>6. CacheFresh
  BY EmptyCache DEF LiveInit, CacheFresh
<1> QED
  BY <1>4, <1>5, <1>6 DEF LiveInv

LEMMA LiveInvStep ==
  ASSUME LiveInv, Inv, TypeOK', [LiveNext]_allVars PROVE LiveInv'
<1>1. CASE UNCHANGED <<benchVars, queued, settled, cache>>
  BY <1>1 DEF benchVars, LiveInv, TracksTyped, BenchTyped, PastTyped, SettledFresh, CacheFresh
<1>2. ASSUME NEW q \in Queues, PollQueue(q) PROVE LiveInv'
  BY <1>2, PollKeeps
<1>3. CASE DriveLand \/ DriveQueue \/ DrawPanels
  BY <1>3, DriveLandKeeps, DriveQueueKeeps, DrawPanelsKeeps
<1>4. ASSUME NEW s \in ItemSet, StepTrack(s) PROVE LiveInv'
  BY <1>4, StepTrackKeeps
<1>5. ASSUME NEW n \in Nodes, StepDocument(n) \/ StepBack(n) \/ Close(n) PROVE LiveInv'
  BY <1>5, StepDocumentKeeps, StepBackKeeps, CloseKeeps
<1>6. CASE BeginFrame \/ InputArrives \/ View \/ EndSteps \/ CancelAsked \/ EvaluationAnswers
             \/ UNCHANGED allVars
  BY <1>1, <1>6 DEF BeginFrame, InputArrives, View, EndSteps, CancelAsked, EvaluationAnswers,
     benchVars, driverVars, viewedVars, liveVars, allVars
<1>7. ASSUME NEW op, NEW n, Ask(op, n) PROVE LiveInv'
  BY <1>1, <1>7 DEF Ask, liveVars, benchVars
<1>8. ASSUME NEW q, WorkerReports(q) PROVE LiveInv'
  BY <1>1, <1>8 DEF WorkerReports, driverVars, viewedVars
<1> QED
  BY <1>2, <1>3, <1>4, <1>5, <1>6, <1>7, <1>8 DEF LiveNext

LEMMA LiveInvAlways == LiveSpec => []LiveInv /\ []Inv
<1>1. Inv /\ LiveInv /\ [LiveNext]_allVars /\ Inv' => LiveInv'
  BY LiveInvStep DEF Inv
<1> QED
  BY <1>1, LiveInvInit, LiveStepsTheQueues, PTL DEF LiveSpec

-----------------------------------------------------------------------------
(* A track that reads as current carries measurements read at the document *)
(* now at its cursor, and a viewed one those read at its key's document    *)
(* (evaluation_of, land_evaluation, install_viewed_evaluation).            *)
THEOREM CurrentAlwaysFresh == LiveSpec => []CurrentIsFresh
<1>1. LiveInv => CurrentIsFresh
  <2> SUFFICES ASSUME LiveInv PROVE CurrentIsFresh
    OBVIOUS
  <2>1. ASSUME NEW s \in ItemSet, Current(s), NEW t \in bench[s]
        PROVE  t.readAt = document[HomeOf[s]]
    <3>1. PICK u \in bench[s], e \in settled[s] :
            e.inputs.track = u /\ e.inputs.document = document[HomeOf[s]] /\ e.ok
      BY <2>1, SubjectsHaveNodes DEF Current, InputsOf, Same
    <3>2. u = t
      BY <2>1, <3>1 DEF LiveInv, TracksTyped, BenchTyped, Single
    <3> QED
      BY <3>1, <3>2 DEF LiveInv, SettledFresh
  <2>2. \A v \in Range(cache) : v.evaluation = "current" => v.track.readAt = v.document
    BY DEF LiveInv, CacheFresh, FreshCache, Range
  <2> QED
    BY <2>1, <2>2 DEF CurrentIsFresh
<1> QED
  BY <1>1, LiveInvAlways, PTL

(* No evaluation lands into a locked node, and nothing else moves its      *)
(* bench or its document: what a locking task captured stays as it was     *)
(* (land_evaluation, the busy refusals of state/edits.rs).                 *)
THEOREM LockedBenchAlwaysStays == LiveSpec => LockedBenchStays
<1> DEFINE Stays == \A n \in Nodes :
             Busy(n) /\ Busy(n)' =>
               /\ document'[n] = document[n]
               /\ \A s \in ItemSet : HomeOf[s] = n => bench'[s] = bench[s]
<1>1. Inv /\ Inv' /\ LiveInv /\ [LiveNext]_allVars => Stays
  <2> SUFFICES ASSUME Inv, Inv', LiveInv, [LiveNext]_allVars PROVE Stays
    OBVIOUS
  <2>1. BenchesIndexed /\ TypeOK'
    BY DEF LiveInv, TracksTyped, BenchTyped, BenchesIndexed, Inv
  <2> QED
    BY <2>1, LockedStep DEF BenchStays
<1> HIDE DEF Stays
<1>2. LiveSpec => [][Stays]_allVars
  BY <1>1, LiveInvAlways, PTL DEF LiveSpec
<1> QED
  BY <1>2 DEF LockedBenchStays, Stays

(* Landing an evaluation keeps the step each track came from: a person's   *)
(* step that came while it was measured is never undone by it              *)
(* (land_evaluation, Inputs).                                              *)
THEOREM StepsOutliveEvaluations == LiveSpec => EvaluationKeepsSteps
<1> DEFINE Kept == DriveLand =>
             \A s \in ItemSet : {t.step : t \in bench'[s]} = {t.step : t \in bench[s]}
<1>1. ASSUME LiveInv, NEW inputs \in Inputs, ~Moved(inputs), inputs.item # Viewed,
             InstallTrack(inputs), NEW s \in ItemSet
      PROVE  {t.step : t \in bench'[s]} = {t.step : t \in bench[s]}
  <2>1. inputs.item \in ItemSet /\ inputs.track \in bench[inputs.item]
    BY <1>1 DEF Moved, InputsOf, Same, Inputs, Subjects
  <2>2. bench[inputs.item] = {inputs.track}
    BY <1>1, <2>1 DEF LiveInv, TracksTyped, BenchTyped, Single
  <2>3. PICK landed : landed.step = inputs.track.step
                        /\ bench' = [bench EXCEPT ![inputs.item] = {landed}]
    BY <1>1 DEF InstallTrack
  <2>4. CASE s = inputs.item
    <3>1. bench'[s] = {landed}
      BY <1>1, <2>1, <2>3, <2>4 DEF LiveInv, TracksTyped, BenchTyped
    <3> QED
      BY <2>2, <2>3, <2>4, <3>1
  <2>5. CASE s # inputs.item
    BY <1>1, <2>3, <2>5 DEF LiveInv, TracksTyped, BenchTyped
  <2> QED
    BY <2>4, <2>5
<1>2. LiveInv /\ DriveLand => Kept
  <2> SUFFICES ASSUME LiveInv, DriveLand, NEW s \in ItemSet
               PROVE  {t.step : t \in bench'[s]} = {t.step : t \in bench[s]}
    OBVIOUS
  <2>1. CASE UNCHANGED bench
    BY <2>1
  <2>2. ASSUME NEW e \in queued, NEW how, LandEvaluation(e.inputs, how), ~UNCHANGED bench
        PROVE  {t.step : t \in bench'[s]} = {t.step : t \in bench[s]}
    <3>1. e.inputs \in Inputs
      BY DEF LiveInv, SettledFresh
    <3>2. ~Moved(e.inputs) /\ e.inputs.item # Viewed /\ InstallTrack(e.inputs)
      BY <2>2 DEF LandEvaluation, Install, RecordFailure
    <3> QED
      BY <1>1, <3>1, <3>2
  <2> QED
    BY <2>1, <2>2 DEF DriveLand
<1>3. LiveInv => Kept
  BY <1>2
<1> HIDE DEF Kept
<1>4. LiveSpec => [][Kept]_allVars
  BY <1>3, LiveInvAlways, PTL DEF LiveSpec
<1> QED
  BY <1>4 DEF EvaluationKeepsSteps, Kept

-----------------------------------------------------------------------------
(* The evaluation the driver holds.                                        *)

LEMMA LiveTasksAreQuiet ==
  ASSUME Crewed, NEW t \in Held
  PROVE  /\ t.op = LiveSource => t.quiet
         /\ t.quiet => /\ t.id \in 1..MaxQuiet /\ t.id < nextQuietId
                       /\ t \in HeldIn("fast") /\ t \notin running["slow"]
<1>1. TypeOK /\ HandedOut /\ QuietInFast
  BY DEF Crewed, Accounted, Booked, Ordered, Placed
<1>2. t \in Task
  BY <1>1, HeldAreTasks
<1>3. LiveSource \in AllSources
  BY DEF LiveSource, AllSources
<1>4. t.op = LiveSource => t.quiet
  BY <1>2, <1>3, TaskRanks
<1>5. t.quiet => t.id \in 1..MaxQuiet /\ t.id < nextQuietId
  BY <1>1, <1>2, TaskRanks DEF HandedOut
<1>6. t.quiet => t \notin HeldIn("slow")
  BY <1>1 DEF QuietInFast
<1> QED
  BY <1>4, <1>5, <1>6 DEF Held, HeldIn

LEMMA LiveTasksAreQuietNext ==
  ASSUME Crewed', NEW t \in Held'
  PROVE  /\ t.op = LiveSource => t.quiet
         /\ t.quiet => t.id \in 1..MaxQuiet /\ t \in HeldIn("fast")'
<1>1. TypeOK' /\ QuietInFast'
  BY DEF Crewed, Accounted, Booked, Ordered, Placed
<1>2. t \in Task
  <2>1. \A q \in Queues : HeldIn(q)' \subseteq Task
    BY <1>1 DEF TypeOK, HeldIn, Range
  <2> QED
    BY <2>1 DEF Held, Queues
<1>3. LiveSource \in AllSources
  BY DEF LiveSource, AllSources
<1>4. t.quiet => t \notin HeldIn("slow")'
  BY <1>1 DEF QuietInFast
<1>5. Held' = HeldIn("slow")' \cup HeldIn("fast")'
  BY DEF Held
<1> QED
  BY <1>2, <1>3, <1>4, <1>5, TaskRanks

LEMMA RunsInFast ==
  ASSUME Crewed, NEW id
  PROVE  QuietRunning(id) <=> \E t \in running["fast"] : t.quiet /\ t.id = id
<1>1. QuietInFast
  BY DEF Crewed
<1> QED
  BY <1>1 DEF QuietRunning, QuietInFast, HeldIn, Queues

OneQueued == \A e, f \in queued : e = f

TaskHandedOut == \A e \in queued : e.task \in 1..MaxQuiet /\ e.task < nextQuietId

(* What OneEvaluation says, of either queue's tasks at once.               *)
Unanswered == {t \in Held : t.op = LiveSource /\ told[t.id] = {}}

HeldByDriver == \A t \in Unanswered : \E e \in queued : e.task = t.id

LEMMA OneEvaluationIsHeldByDriver == OneEvaluation <=> HeldByDriver
  BY DEF OneEvaluation, HeldByDriver, Unanswered, Held, Queues

(* No word of a quiet source is taken back.                                *)
WordsStay == \A i \in 1..MaxQuiet : told'[i] = {} => told[i] = {}

(* A step of the queues that makes no evaluation, with the driver's state  *)
(* as it was, leaves none to nobody.                                       *)
LEMMA StillHeldByDriver ==
  ASSUME Crewed, HeldByDriver, NEW gone, NEW new, TakesAndPuts(gone, new),
         \A t \in new : t.op # LiveSource, WordsStay, UNCHANGED queued
  PROVE  HeldByDriver'
<1> SUFFICES ASSUME NEW t \in Held', t.op = LiveSource, told'[t.id] = {}
             PROVE  \E e \in queued : e.task = t.id
  BY DEF HeldByDriver, Unanswered
<1>1. t \in Held
  BY DEF TakesAndPuts
<1>2. t.id \in 1..MaxQuiet
  BY <1>1, LiveTasksAreQuiet
<1>3. t \in Unanswered
  BY <1>1, <1>2 DEF WordsStay, Unanswered
<1> QED
  BY <1>3 DEF HeldByDriver

(* cancel_quiet_task: a task that runs is asked to stop, and one that      *)
(* waits is told that it was dropped.                                      *)
LEMMA AskToStopEffect ==
  ASSUME Crewed, NEW id, AskToStop(id)
  PROVE  /\ \E gone : TakesAndPuts(gone, {})
         /\ UNCHANGED running /\ UNCHANGED worker /\ UNCHANGED nextQuietId
         /\ UNCHANGED loaded
         /\ WordsStay
         /\ QuietRunning(id) => cancel'["fast"]
         /\ ~QuietRunning(id) => \A t \in Held' : t.quiet /\ t.id = id => told'[id] # {}
<1>1. Placed /\ TypeOK /\ "fast" \in Queues
  BY DEF Crewed, Accounted, Booked, Ordered, Placed, Queues
<1>2. ASSUME UNCHANGED vars, ~\E t \in HeldIn("fast") : t.quiet /\ t.id = id
      PROVE  /\ TakesAndPuts({}, {}) /\ WordsStay /\ ~QuietRunning(id)
             /\ \A t \in Held' : ~(t.quiet /\ t.id = id)
  <2>1. UNCHANGED running /\ UNCHANGED waiting /\ UNCHANGED told
    BY <1>2 DEF vars
  <2>2. TakesAndPuts({}, {}) /\ Held' = Held
    BY <2>1, SameQueuesTakeNothing DEF TakesAndPuts
  <2>3. ~QuietRunning(id)
    BY <1>2, RunsInFast DEF HeldIn
  <2>4. \A t \in Held : ~(t.quiet /\ t.id = id)
    BY <1>2, LiveTasksAreQuiet
  <2> QED
    BY <2>1, <2>2, <2>3, <2>4 DEF WordsStay
<1>3. ASSUME \E t \in running["fast"] : t.quiet /\ t.id = id,
             cancel' = [cancel EXCEPT !["fast"] = TRUE],
             UNCHANGED running, UNCHANGED waiting, UNCHANGED told
      PROVE  /\ TakesAndPuts({}, {}) /\ WordsStay /\ QuietRunning(id) /\ cancel'["fast"]
  BY <1>1, <1>3, SameQueuesTakeNothing, RunsInFast DEF WordsStay, TypeOK
<1>4. ASSUME NEW i \in 1..Len(waiting["fast"]), waiting["fast"][i].quiet,
             waiting["fast"][i].id = id,
             waiting' = [waiting EXCEPT !["fast"] = RemoveAt(@, i)],
             told' = Tell({id}, "dropped"), UNCHANGED running
      PROVE  /\ \E gone : TakesAndPuts(gone, {})
             /\ WordsStay /\ ~QuietRunning(id)
             /\ \A t \in Held' : t.quiet /\ t.id = id => told'[id] # {}
  <2> DEFINE u == waiting["fast"][i]
  <2>1. TakesAndPuts({u}, {})
    BY <1>1, <1>4, RemovalTakes
  <2>2. u \in HeldIn("fast") /\ u \in Held
    BY <1>1, <1>4, WaitingAreHeld
  <2>3. \A j \in 1..MaxQuiet : told'[j] = IF j = id THEN told[j] \cup {"dropped"} ELSE told[j]
    BY <1>4 DEF Tell
  <2>4. WordsStay
    BY <2>3 DEF WordsStay
  <2>5. u \notin running["fast"]
    BY <1>1, <1>4, OwnPlaces
  <2>6. u.quiet /\ u.id = id
    BY <1>4
  <2> HIDE DEF u
  <2>7. ~QuietRunning(id)
    <3> SUFFICES ASSUME NEW t \in running["fast"], t.quiet, t.id = id PROVE FALSE
      BY RunsInFast
    <3>1. t \in Held
      BY DEF Held, HeldIn
    <3>2. t = u
      BY <1>1, <2>2, <2>6, <3>1, UniqueIds
    <3> QED
      BY <2>5, <3>2
  <2>8. id \in 1..MaxQuiet
    BY <2>2, <2>6, LiveTasksAreQuiet
  <2>9. told'[id] # {}
    BY <2>3, <2>8
  <2> QED
    BY <2>1, <2>4, <2>7, <2>9
<1>5. CASE UNCHANGED vars /\ ~\E t \in HeldIn("fast") : t.quiet /\ t.id = id
  BY <1>2, <1>5 DEF vars
<1>6. CASE CancelQuiet("fast", id)
  <2>1. UNCHANGED running /\ UNCHANGED worker /\ UNCHANGED nextQuietId /\ UNCHANGED loaded
    BY <1>6 DEF CancelQuiet
  <2> QED
    BY <1>3, <1>4, <1>6, <2>1 DEF CancelQuiet
<1> QED
  BY <1>5, <1>6 DEF AskToStop

(* queue_evaluation while none runs that the driver holds: the one that    *)
(* waits is replaced, and the new one is the driver's.                     *)
LEMMA QueueEvaluationHolds ==
  ASSUME Crewed, HeldByDriver, NEW s \in NextUnevaluated, QueueEvaluation(s),
         \A e \in queued : ~QuietRunning(e.task)
  PROVE  HeldByDriver'
<1> DEFINE n == NodeOf(s)
           rank == RankOf(s)
           w == waiting["fast"]
           t == NewQuiet(LiveSource, rank, n)
           gone == {w[i] : i \in EntryOf(w, LiveSource)}
<1>1. Ordered /\ Placed /\ TypeOK /\ QueueOrder /\ w \in Seq(Task)
  BY DEF Crewed, Accounted, Booked, Ordered, Placed, TypeOK, Queues
<1>2. StartQuiet(LiveSource, rank, n) /\ LiveSource \in Sources /\ n \in Nodes /\ rank \in QuietRanks
  BY UnevaluatedIsSubject, SubjectsHaveNodes, ItemsAssumption DEF RankOf, QuietRanks, QueueEvaluation
<1>3. \/ TakesAndPuts(gone, {t}) /\ told' = Tell({u.id : u \in gone}, "dropped")
      \/ TakesAndPuts({}, {t}) /\ w = <<>> /\ UNCHANGED told
      \/ /\ TakesAndPuts({}, {}) /\ w = <<>>
         /\ \E word \in {"dropped", "failed"} : told' = Tell({nextQuietId}, word)
  BY <1>1, <1>2, StartQuietTakesAndPuts
<1>4. WordsStay
  BY <1>3, TellWords DEF WordsStay
<1>5. told'[nextQuietId] = {} => \E e \in queued' : e.task = nextQuietId
  <2>1. PICK inputs : told'[nextQuietId] # {"failed"} =>
                        queued' = {[inputs |-> inputs, task |-> nextQuietId]}
    BY Zenon DEF QueueEvaluation
  <2>2. PICK e : e = [inputs |-> inputs, task |-> nextQuietId]
    OBVIOUS
  <2>3. e.task = nextQuietId
    BY <2>2
  <2>4. told'[nextQuietId] # {"failed"} => e \in queued'
    BY <2>1, <2>2
  <2> QED
    BY <2>3, <2>4
<1>6. t.id = nextQuietId
  BY DEF NewQuiet
<1>7. ASSUME NEW u \in Unanswered
      PROVE  u \in gone /\ w # <<>>
  <2>1. u \in Held /\ u.op = LiveSource /\ u.quiet /\ u.id \in 1..MaxQuiet /\ told[u.id] = {}
    BY <1>7, LiveTasksAreQuiet DEF Unanswered
  <2>2. ~QuietRunning(u.id)
    BY <1>7 DEF HeldByDriver
  <2>3. u \in HeldIn("fast") /\ u \notin running["fast"]
    BY <2>1, <2>2, LiveTasksAreQuiet, RunsInFast
  <2>4. Range(w) = {w[i] : i \in 1..Len(w)}
    BY <1>1 DEF Range
  <2>5. PICK j \in 1..Len(w) : w[j] = u
    BY <2>3, <2>4 DEF HeldIn
  <2>6. ASSUME NEW k \in 1..(j - 1) PROVE w[k].op # LiveSource
    <3>1. k \in 1..Len(w) /\ k < j
      BY <2>5
    <3>2. w[k] \in Task /\ LiveSource \in AllSources
      BY <1>1, <3>1, ElementOfSeq DEF LiveSource, AllSources
    <3>3. w[k].quiet => w[k].op # w[j].op
      BY <1>1, <2>5, <3>1, QueueOrderIsInOrder DEF InOrder, Ahead, Queues
    <3> QED
      BY <2>1, <2>5, <3>2, <3>3, TaskRanks
  <2>7. j \in EntryOf(w, LiveSource)
    BY <2>1, <2>5, <2>6 DEF EntryOf
  <2> QED
    BY <2>5, <2>7
<1> SUFFICES ASSUME NEW u \in Held', u.op = LiveSource, told'[u.id] = {}
             PROVE  \E e \in queued' : e.task = u.id
  BY DEF HeldByDriver, Unanswered
<1> HIDE DEF gone, t, w
<1>8. ASSUME u \in Held PROVE u \in Unanswered
  <2>1. u.id \in 1..MaxQuiet
    BY <1>8, LiveTasksAreQuiet
  <2> QED
    BY <1>4, <1>8, <2>1 DEF WordsStay, Unanswered
<1>9. u = t
  BY <1>3, <1>7, <1>8 DEF TakesAndPuts
<1> QED
  BY <1>5, <1>6, <1>9

-----------------------------------------------------------------------------
(* Wakes: what a worker said is still to be polled, or was.                *)

Wakes ==
  \A q \in Queues : worker[q] \in {"produced", "nothing"} =>
    \/ wanted
    \/ phase = "slow"
    \/ phase = "fast" /\ q = "fast"

(* An evaluation that was answered still runs, or the driver is about to   *)
(* land it: this frame, or the next one, which was asked for.              *)
AnswerIsComing ==
  \A e \in queued : told[e.task] # {} =>
    \/ wanted
    \/ phase \in {"slow", "fast", "land"}
    \/ \E t \in running["fast"] : t.quiet /\ t.id = e.task

DriverInv == OneQueued /\ TaskHandedOut /\ HeldByDriver /\ Wakes /\ AnswerIsComing

LEMMA DriverInvInit == LiveInit => DriverInv
<1> SUFFICES ASSUME LiveInit PROVE DriverInv
  OBVIOUS
<1>1. queued = {} /\ wanted = TRUE /\ Init
  BY DEF LiveInit
<1>2. Held = {}
  BY <1>1 DEF Init, Held, HeldIn, Range, Queues
<1>3. HeldByDriver
  BY <1>2 DEF HeldByDriver, Unanswered
<1> QED
  BY <1>1, <1>3 DEF DriverInv, OneQueued, TaskHandedOut, Wakes, AnswerIsComing

(* A step that leaves the driver's evaluation and makes none.              *)
LEMMA DriverLeft ==
  ASSUME Crewed, DriverInv, [Next]_vars, UNCHANGED queued,
         NEW gone, NEW new, TakesAndPuts(gone, new), \A t \in new : t.op # LiveSource,
         WordsStay, Wakes', AnswerIsComing'
  PROVE  DriverInv'
<1>1. TypeOK
  BY DEF Crewed, Accounted, Booked, Ordered, Placed
<1>2. /\ nextQuietId <= nextQuietId' /\ nextQuietId \in Int /\ nextQuietId' \in Int
      /\ \A i \in 1..MaxQuiet : i \in Int
  <2>1. TypeOK'
    BY <1>1, TypeStep
  <2> QED
    BY <1>1, <2>1, IdsOnlyGrow, ConstantsAssumption DEF IdsGrow, TypeOK
<1>3. HeldByDriver'
  BY StillHeldByDriver DEF DriverInv
<1>4. TaskHandedOut'
  BY <1>2 DEF DriverInv, TaskHandedOut
<1> QED
  BY <1>3, <1>4 DEF DriverInv, OneQueued

(* What is left of the driver's two promises to itself by a step that goes *)
(* on in a phase other than the polls and the landing.                     *)
LEMMA ComingLeft ==
  ASSUME DriverInv, UNCHANGED queued, wanted => wanted',
         phase' = phase \/ phase \notin {"slow", "fast", "land"},
         \A q \in Queues : worker'[q] \in {"produced", "nothing"} => worker'[q] = worker[q],
         running["fast"] \subseteq running'["fast"],
         \A e \in queued : told'[e.task] # {} =>
           \/ told[e.task] # {}
           \/ \E t \in running["fast"] : t.quiet /\ t.id = e.task
  PROVE  Wakes' /\ AnswerIsComing'
<1>1. Wakes'
  BY DEF DriverInv, Wakes
<1>2. AnswerIsComing'
  BY DEF DriverInv, AnswerIsComing
<1> QED
  BY <1>1, <1>2

LEMMA QueuesLeft ==
  ASSUME Crewed, DriverInv, [Next]_vars, UNCHANGED queued, UNCHANGED wanted,
         phase' = phase \/ phase \notin {"slow", "fast", "land"},
         UNCHANGED running, UNCHANGED waiting, UNCHANGED worker, UNCHANGED told
  PROVE  DriverInv'
<1>1. TakesAndPuts({}, {})
  BY SameQueuesTakeNothing
<1>2. Wakes' /\ AnswerIsComing'
  BY ComingLeft
<1> QED
  BY <1>1, <1>2, DriverLeft DEF WordsStay

LEMMA BeginFrameDrives ==
  ASSUME Crewed, DriverInv, BeginFrame \/ InputArrives
  PROVE  DriverInv'
<1>1. UNCHANGED vars /\ phase' = "slow" /\ UNCHANGED queued
  BY DEF BeginFrame, InputArrives, driverVars
<1>2. TakesAndPuts({}, {}) /\ WordsStay
  BY <1>1, SameQueuesTakeNothing DEF vars, WordsStay
<1> QED
  BY <1>1, <1>2, DriverLeft DEF Wakes, AnswerIsComing

LEMMA PollDrives ==
  ASSUME Crewed, DriverInv, [Next]_vars, NEW q \in Queues, PollQueue(q)
  PROVE  DriverInv'
<1>1. phase = q /\ phase' \in {"fast", "land"} /\ (q = "slow" => phase' = "fast") /\ UNCHANGED queued
  BY DEF PollQueue, AfterPoll, driverVars, Queues
<1>2. AnswerIsComing'
  BY <1>1 DEF AnswerIsComing
<1>3. CASE Land(q) /\ wanted' = TRUE
  <2>1. PICK t, k : LandsAs(q, t, k)
    BY <1>3, LandTakesAndPuts DEF Crewed, Accounted, Booked
  <2>2. TakesAndPuts(Leaving(q, t, k), {})
        /\ \A i \in 1..MaxQuiet :
             \/ \E word : told'[i] = told[i] \cup {word}
             \/ told'[i] = told[i]
    BY <2>1, Zenon DEF LandsAs
  <2>3. WordsStay
    BY <2>2 DEF WordsStay
  <2>4. Wakes'
    BY <1>3 DEF Wakes
  <2> QED
    BY <1>1, <1>2, <2>2, <2>3, <2>4, DriverLeft
<1>4. CASE UNCHANGED vars /\ UNCHANGED wanted /\ worker[q] \notin {"produced", "nothing"}
  <2>1. TakesAndPuts({}, {}) /\ WordsStay /\ UNCHANGED worker
    BY <1>4, SameQueuesTakeNothing DEF vars, WordsStay
  <2>2. Wakes'
    BY <1>1, <1>4, <2>1 DEF Wakes, DriverInv, Queues
  <2> QED
    BY <1>1, <1>2, <2>1, <2>2, DriverLeft
<1> QED
  BY <1>3, <1>4 DEF PollQueue

LEMMA LandingDrives ==
  ASSUME Crewed, DriverInv, DriveLand
  PROVE  DriverInv'
<1>1. UNCHANGED vars /\ phase \in {"land", "landAgain"}
      /\ phase' \notin {"slow", "fast", "land"}
  BY DEF DriveLand, AfterLanding
<1>2. UNCHANGED running /\ UNCHANGED waiting /\ UNCHANGED worker /\ UNCHANGED told
      /\ UNCHANGED nextQuietId
  BY <1>1 DEF vars
<1>3. Unanswered' = Unanswered
  BY <1>2 DEF Unanswered, Held, HeldIn
<1>4. CASE \E e \in queued : Answered(e)
  <2>1. queued' = {} /\ wanted' = TRUE
    BY <1>4 DEF DriveLand
  <2>2. Unanswered = {}
    BY <1>4 DEF DriverInv, HeldByDriver, OneQueued, Answered, Unanswered
  <2> QED
    BY <1>3, <2>1, <2>2 DEF DriverInv, HeldByDriver, OneQueued, TaskHandedOut, Wakes,
       AnswerIsComing
<1>5. CASE ~\E e \in queued : Answered(e)
  <2>1. UNCHANGED queued /\ UNCHANGED wanted
    BY <1>5 DEF DriveLand
  <2>2. AnswerIsComing'
    BY <1>2, <1>5, <2>1 DEF Answered, AnswerIsComing
  <2>3. Wakes'
    BY <1>1, <1>2, <2>1 DEF Wakes, DriverInv
  <2> QED
    BY <1>2, <1>3, <2>1, <2>2, <2>3 DEF DriverInv, HeldByDriver, OneQueued, TaskHandedOut
<1> QED
  BY <1>4, <1>5

LEMMA StopDrives ==
  ASSUME Crewed, DriverInv, [Next]_vars, NEW e \in queued, QuietRunning(e.task),
         AskToStop(e.task), UNCHANGED queued, UNCHANGED wanted,
         phase \notin {"slow", "fast", "land"}
  PROVE  DriverInv'
<1>1. PICK gone : TakesAndPuts(gone, {})
  BY AskToStopEffect
<1>2. WordsStay /\ UNCHANGED running /\ UNCHANGED worker
  BY AskToStopEffect
<1>3. \A f \in queued : \E t \in running["fast"] : t.quiet /\ t.id = f.task
  BY RunsInFast DEF DriverInv, OneQueued
<1>4. Wakes' /\ AnswerIsComing'
  BY <1>2, <1>3, ComingLeft
<1> QED
  BY <1>1, <1>2, <1>4, DriverLeft

LEMMA ForgetDrives ==
  ASSUME Crewed, DriverInv, \A e \in queued : ~QuietRunning(e.task), queued' = {},
         phase \notin {"slow", "fast", "land"},
         \/ queued = {} /\ UNCHANGED vars /\ UNCHANGED wanted
         \/ wanted' = TRUE /\ \E e \in queued : AskToStop(e.task)
  PROVE  DriverInv'
<1>1. HeldByDriver'
  <2>1. CASE queued = {} /\ UNCHANGED vars
    <3>1. Unanswered' = Unanswered
      BY <2>1 DEF Unanswered, Held, HeldIn, vars
    <3> QED
      BY <2>1, <3>1 DEF DriverInv, HeldByDriver
  <2>2. ASSUME NEW e \in queued, AskToStop(e.task) PROVE HeldByDriver'
    <3> SUFFICES ASSUME NEW t \in Held', t.op = LiveSource, told'[t.id] = {} PROVE FALSE
      BY DEF HeldByDriver, Unanswered
    <3>1. PICK gone : TakesAndPuts(gone, {})
      BY <2>2, AskToStopEffect
    <3>2. t \in Held
      BY <3>1 DEF TakesAndPuts
    <3>3. t.quiet /\ t.id \in 1..MaxQuiet
      BY <3>2, LiveTasksAreQuiet
    <3>4. WordsStay /\ ~QuietRunning(e.task)
      BY <2>2, AskToStopEffect
    <3>5. t \in Unanswered
      BY <3>2, <3>3, <3>4 DEF WordsStay, Unanswered
    <3>6. t.id = e.task
      BY <3>5 DEF DriverInv, HeldByDriver, OneQueued
    <3> QED
      BY <2>2, <3>3, <3>4, <3>6, AskToStopEffect
  <2> QED
    BY <2>1, <2>2
<1>2. Wakes'
  <2>1. CASE wanted' = TRUE
    BY <2>1 DEF Wakes
  <2>2. CASE UNCHANGED vars /\ UNCHANGED wanted
    BY <2>2 DEF Wakes, vars, DriverInv
  <2> QED
    BY <2>1, <2>2
<1> QED
  BY <1>1, <1>2 DEF DriverInv, OneQueued, TaskHandedOut, AnswerIsComing

LEMMA RequestDrives ==
  ASSUME Crewed, DriverInv, \A e \in queued : ~QuietRunning(e.task),
         NEW s \in NextUnevaluated, QueueEvaluation(s), wanted' = TRUE
  PROVE  DriverInv'
<1>1. TypeOK
  BY DEF Crewed, Accounted, Booked, Ordered, Placed
<1>2. HeldByDriver'
  BY QueueEvaluationHolds DEF DriverInv
<1>3. nextQuietId' = nextQuietId + 1 /\ nextQuietId <= MaxQuiet
  BY DEF QueueEvaluation, StartQuiet
<1>4. nextQuietId \in 1..MaxQuiet /\ nextQuietId < nextQuietId'
  BY <1>1, <1>3, ConstantsAssumption DEF TypeOK
<1>5. PICK e : e.task = nextQuietId /\ (queued' = {} \/ queued' = {e})
  <2>1. PICK inputs : queued' = {} \/ queued' = {[inputs |-> inputs, task |-> nextQuietId]}
    BY Zenon DEF QueueEvaluation
  <2>2. PICK e : e = [inputs |-> inputs, task |-> nextQuietId]
    OBVIOUS
  <2> QED
    BY <2>1, <2>2
<1>6. OneQueued' /\ TaskHandedOut'
  BY <1>4, <1>5 DEF OneQueued, TaskHandedOut
<1> QED
  BY <1>2, <1>6 DEF DriverInv, Wakes, AnswerIsComing

LEMMA DriveQueueDrives ==
  ASSUME Crewed, DriverInv, [Next]_vars, DriveQueue
  PROVE  DriverInv'
<1>1. phase \notin {"slow", "fast", "land"}
  BY DEF DriveQueue
<1>2. CASE UNCHANGED <<vars, wanted, queued>>
  <2>1. UNCHANGED running /\ UNCHANGED waiting /\ UNCHANGED worker /\ UNCHANGED told
        /\ UNCHANGED queued /\ UNCHANGED wanted
    BY <1>2 DEF vars
  <2> QED
    BY <1>1, <2>1, QueuesLeft
<1>3. CASE /\ \E e \in queued : Stale(e) /\ QuietRunning(e.task) /\ AskToStop(e.task)
           /\ UNCHANGED <<wanted, queued>>
  BY <1>1, <1>3, StopDrives
<1>4. CASE /\ \A e \in queued : ~QuietRunning(e.task)
           /\ queued' = {}
           /\ IF queued = {}
              THEN UNCHANGED <<vars, wanted>>
              ELSE /\ \E e \in queued : AskToStop(e.task)
                   /\ wanted' = TRUE
  BY <1>1, <1>4, ForgetDrives
<1>5. ASSUME \A e \in queued : ~QuietRunning(e.task), wanted' = TRUE,
             NEW s \in NextUnevaluated, QueueEvaluation(s)
      PROVE  DriverInv'
  BY <1>5, RequestDrives
<1> QED
  BY <1>2, <1>3, <1>4, <1>5 DEF DriveQueue

LEMMA AskDrives ==
  ASSUME Crewed, DriverInv, [Next]_vars, NEW op \in AskedOps, NEW n \in Nodes, Ask(op, n)
  PROVE  DriverInv'
<1> DEFINE p == QueueOf(op)
           t == NewAsked(op, n)
<1>1. StartAsked(op, n) /\ phase \notin {"slow", "fast", "land"} /\ n \in Nodes \cup {NoNode}
      /\ UNCHANGED queued /\ UNCHANGED wanted /\ UNCHANGED phase
  BY DEF Ask, Stepping, liveVars
<1>2. Ordered /\ TypeOK /\ p \in Queues
  BY DEF Crewed, Accounted, Booked, Ordered, Placed, QueueOf, Queues
<1>3. TakesAndPuts({}, {t}) \/ TakesAndPuts({}, {})
  BY <1>1, <1>2, StartAskedTakesAndPuts
<1>4. t.op # LiveSource
  BY DEF NewAsked, AskedOps, LiveSource
<1>5. UNCHANGED told
  BY <1>1 DEF StartAsked
<1>6. (UNCHANGED running /\ UNCHANGED worker) \/ Run(p, t)
  BY <1>1, Zenon DEF StartAsked
<1> HIDE DEF p, t
<1>7. /\ running["fast"] \subseteq running'["fast"]
      /\ \A q \in Queues : worker'[q] \in {"produced", "nothing"} => worker'[q] = worker[q]
  <2>1. CASE UNCHANGED running /\ UNCHANGED worker
    BY <2>1
  <2>2. ASSUME Run(p, t)
        PROVE  /\ running["fast"] \subseteq running'["fast"]
               /\ \A q \in Queues : worker'[q] \in {"produced", "nothing"}
                                     => worker'[q] = worker[q]
    <3>1. running[p] = {} /\ "fast" \in Queues
          /\ (\A o \in Queues : o # p => running'[o] = running[o])
      BY <1>2, <2>2 DEF Run, TypeOK, Queues
    <3>2. \A o \in Queues : worker'[o] = worker[o] \/ worker'[o] = "computing"
      BY <1>2, <2>2 DEF Run, TypeOK
    <3>3. running["fast"] \subseteq running'["fast"]
      BY <3>1
    <3> QED
      BY <3>2, <3>3
  <2> QED
    BY <1>6, <2>1, <2>2
<1>8. Wakes' /\ AnswerIsComing'
  BY <1>1, <1>5, <1>7, ComingLeft
<1>9. PICK new : TakesAndPuts({}, new) /\ \A u \in new : u.op # LiveSource
  BY <1>3, <1>4
<1> QED
  BY <1>1, <1>5, <1>8, <1>9, DriverLeft DEF WordsStay

LEMMA CancelDrives ==
  ASSUME Crewed, DriverInv, [Next]_vars, CancelAsked
  PROVE  DriverInv'
<1>1. UNCHANGED queued /\ UNCHANGED wanted /\ UNCHANGED phase
  BY DEF CancelAsked, liveVars
<1>2. Placed
  BY DEF Crewed, Accounted, Booked, Ordered
<1>3. ASSUME NEW q \in Queues, CancelRunning(q) PROVE DriverInv'
  <2>1. UNCHANGED running /\ UNCHANGED waiting /\ UNCHANGED worker /\ UNCHANGED told
    BY <1>3 DEF CancelRunning
  <2> QED
    BY <1>1, <2>1, QueuesLeft
<1>4. ASSUME NEW q \in Queues, NEW i \in 1..Len(waiting[q]), CancelWaiting(q, i) PROVE DriverInv'
  <2>1. UNCHANGED running /\ UNCHANGED worker /\ UNCHANGED told
        /\ waiting' = [waiting EXCEPT ![q] = RemoveAt(@, i)]
    BY <1>4 DEF CancelWaiting
  <2>2. PICK gone : TakesAndPuts(gone, {})
    BY <1>2, <2>1, RemovalTakes
  <2>3. Wakes' /\ AnswerIsComing'
    BY <1>1, <2>1, ComingLeft
  <2> QED
    BY <1>1, <2>1, <2>2, <2>3, DriverLeft DEF WordsStay
<1> QED
  BY <1>3, <1>4 DEF CancelAsked

LEMMA WorkersDrive ==
  ASSUME Crewed, DriverInv, [Next]_vars,
         EvaluationAnswers \/ \E q \in Queues : WorkerReports(q)
  PROVE  DriverInv'
<1>1. TypeOK
  BY DEF Crewed, Accounted, Booked, Ordered, Placed
<1>2. CASE EvaluationAnswers
  <2>1. UNCHANGED queued /\ UNCHANGED wanted /\ UNCHANGED phase /\ WorkerAnswers("fast")
    BY <1>2 DEF EvaluationAnswers
  <2>2. PICK t \in running["fast"] : t.quiet /\ told' = Tell({t.id}, "answered")
    BY <2>1 DEF WorkerAnswers
  <2>3. UNCHANGED running /\ UNCHANGED waiting
        /\ worker' = [worker EXCEPT !["fast"] = "answered"]
    BY <2>1 DEF WorkerAnswers
  <2>4. \A i \in 1..MaxQuiet :
          told'[i] = IF i = t.id THEN told[i] \cup {"answered"} ELSE told[i]
    BY <2>2 DEF Tell
  <2>5. TakesAndPuts({}, {})
    BY <2>3, SameQueuesTakeNothing
  <2>6. \A q \in Queues : worker'[q] \in {"produced", "nothing"} => worker'[q] = worker[q]
    BY <1>1, <2>3 DEF TypeOK
  <2>7. \A e \in queued : told'[e.task] # {} =>
          \/ told[e.task] # {}
          \/ \E u \in running["fast"] : u.quiet /\ u.id = e.task
    BY <2>2, <2>4 DEF DriverInv, TaskHandedOut
  <2>8. Wakes' /\ AnswerIsComing'
    BY <2>1, <2>3, <2>6, <2>7, ComingLeft
  <2>9. WordsStay
    BY <2>4 DEF WordsStay
  <2> QED
    BY <2>1, <2>5, <2>8, <2>9, DriverLeft
<1>3. ASSUME NEW q \in Queues, WorkerReports(q) PROVE DriverInv'
  <2>1. wanted' = TRUE /\ WorkerDone(q) /\ UNCHANGED queued
    BY <1>3 DEF WorkerReports, driverVars
  <2>2. UNCHANGED running /\ UNCHANGED waiting /\ UNCHANGED told
    BY <2>1 DEF WorkerDone
  <2>3. TakesAndPuts({}, {}) /\ WordsStay
    BY <2>2, SameQueuesTakeNothing DEF WordsStay
  <2> QED
    BY <2>1, <2>3, DriverLeft DEF Wakes, AnswerIsComing
<1> QED
  BY <1>2, <1>3

LEMMA StepsDrive ==
  ASSUME Crewed, DriverInv, [Next]_vars,
         \/ \E s \in ItemSet : StepTrack(s)
         \/ \E n \in Nodes : StepDocument(n) \/ StepBack(n) \/ Close(n)
         \/ View \/ DrawPanels \/ EndSteps
  PROVE  DriverInv'
<1>1. ASSUME NEW n, MoveCursor(n) \/ CloseNode(n) \/ UNCHANGED vars
      PROVE  UNCHANGED running /\ UNCHANGED waiting /\ UNCHANGED worker /\ UNCHANGED told
  BY <1>1 DEF MoveCursor, CloseNode, vars
<1>2. /\ \E n : MoveCursor(n) \/ CloseNode(n) \/ UNCHANGED vars
      /\ UNCHANGED queued /\ UNCHANGED wanted
      /\ phase' = phase \/ phase \notin {"slow", "fast", "land"}
  BY DEF StepTrack, StepDocument, StepBack, Close, View, DrawPanels, EndSteps, driverVars
<1> QED
  BY <1>1, <1>2, QueuesLeft

LEMMA DriverInvStep ==
  ASSUME Crewed, DriverInv, [LiveNext]_allVars
  PROVE  DriverInv'
<1>1. TypeOK
  BY DEF Crewed, Accounted, Booked, Ordered, Placed
<1>2. [Next]_vars
  BY <1>1, LiveSteps
<1>3. CASE UNCHANGED allVars
  <2>1. UNCHANGED running /\ UNCHANGED waiting /\ UNCHANGED worker /\ UNCHANGED told
        /\ UNCHANGED queued /\ UNCHANGED wanted /\ UNCHANGED phase
    BY <1>3 DEF allVars, vars, liveVars
  <2> QED
    BY <1>2, <2>1, QueuesLeft
<1> QED
  BY <1>2, <1>3, BeginFrameDrives, PollDrives, LandingDrives, DriveQueueDrives, AskDrives,
     CancelDrives, WorkersDrive, StepsDrive DEF LiveNext

LEMMA AlwaysDriverInv == LiveSpec => []Crewed /\ []DriverInv
<1>1. LiveSpec => []Crewed
  BY LiveStepsTheQueues, AlwaysCrewed, PTL
<1>2. Crewed /\ DriverInv /\ [LiveNext]_allVars => DriverInv'
  BY DriverInvStep
<1> QED
  BY <1>1, <1>2, DriverInvInit, PTL DEF LiveSpec

(* At most one evaluation waits or computes without having answered, and   *)
(* it is the one the driver holds: one that is replaced, dropped or        *)
(* forgotten leaves the queue (queue_evaluation, drive_bench_evaluation).  *)
THEOREM AlwaysOneEvaluation == LiveSpec => []OneEvaluation
<1>1. DriverInv => OneEvaluation
  BY OneEvaluationIsHeldByDriver DEF DriverInv
<1> QED
  BY <1>1, AlwaysDriverInv, PTL
-----------------------------------------------------------------------------
(* Between frames.                                                         *)

LEMMA InputsStay ==
  ASSUME UNCHANGED loaded, UNCHANGED bench, UNCHANGED document,
         UNCHANGED viewing, UNCHANGED current, UNCHANGED cache
  PROVE  /\ \A s : InputsOf(s)' = InputsOf(s)
         /\ \A inputs : Moved(inputs)' <=> Moved(inputs)
         /\ ViewedTrack' = ViewedTrack
<1>1. ViewedTrack' = ViewedTrack
  BY DEF ViewedTrack, ViewedKey
<1>2. ASSUME NEW s PROVE InputsOf(s)' = InputsOf(s)
  BY <1>1 DEF InputsOf
<1>3. ASSUME NEW inputs PROVE Moved(inputs)' <=> Moved(inputs)
  BY <1>2 DEF Moved
<1> QED
  BY <1>1, <1>2, <1>3

(* The GUI thread is idle once the second drive is done, and then only the *)
(* workers do anything.                                                    *)
LEMMA WhileIdle ==
  ASSUME [LiveNext]_allVars, phase' = "idle"
  PROVE  \/ DriveQueue /\ phase = "queueAgain"
         \/ /\ phase = "idle"
            /\ UNCHANGED running /\ UNCHANGED cancel /\ UNCHANGED queued /\ UNCHANGED loaded
            /\ UNCHANGED bench /\ UNCHANGED document /\ UNCHANGED viewing
            /\ UNCHANGED current /\ UNCHANGED cache
            /\ \/ EvaluationAnswers
               \/ \E q \in Queues : WorkerReports(q)
               \/ UNCHANGED allVars
<1>1. ASSUME NEW q \in Queues PROVE ~PollQueue(q)
  BY DEF PollQueue, AfterPoll, Queues
<1>2. ~BeginFrame /\ ~InputArrives /\ ~DriveLand /\ ~DrawPanels /\ ~EndSteps
  BY DEF BeginFrame, InputArrives, DriveLand, AfterLanding, DrawPanels, EndSteps
<1>3. ~CancelAsked /\ ~View /\ \A op, n : ~Ask(op, n)
  BY DEF CancelAsked, View, Ask, Stepping, liveVars
<1>4. ASSUME NEW n PROVE ~StepDocument(n) /\ ~StepBack(n) /\ ~Close(n) /\ ~StepTrack(n)
  BY DEF StepDocument, StepBack, Close, StepTrack, Stepping
<1>5. CASE DriveQueue
  BY <1>5 DEF DriveQueue, AfterQueueing
<1>6. CASE EvaluationAnswers
  BY <1>6 DEF EvaluationAnswers, WorkerAnswers, benchVars, viewedVars
<1>7. ASSUME NEW q \in Queues, WorkerReports(q)
      PROVE  /\ phase = "idle"
             /\ UNCHANGED running /\ UNCHANGED cancel /\ UNCHANGED queued /\ UNCHANGED loaded
             /\ UNCHANGED bench /\ UNCHANGED document /\ UNCHANGED viewing
             /\ UNCHANGED current /\ UNCHANGED cache
  BY <1>7 DEF WorkerReports, WorkerDone, benchVars, driverVars, viewedVars
<1>8. CASE UNCHANGED allVars
  BY <1>8 DEF allVars, vars, liveVars
<1> QED
  BY <1>1, <1>2, <1>3, <1>4, <1>5, <1>6, <1>7, <1>8 DEF LiveNext

(* What the driver leaves behind: it leaves its evaluation be, has asked it*)
(* to stop, or has one that was queued for the inputs of this moment.      *)
LEMMA DriveQueueStops ==
  ASSUME Crewed, DriverInv, LiveInv, DriveQueue
  PROVE  (\A e \in queued : Stale(e) /\ QuietRunning(e.task) => cancel["fast"])'
<1>1. UNCHANGED bench /\ UNCHANGED document /\ UNCHANGED viewing /\ UNCHANGED current
  BY DEF DriveQueue, benchVars
<1>2. ASSUME NEW e \in queued, ~Stale(e), UNCHANGED vars, UNCHANGED queued, UNCHANGED cache
      PROVE  \A f \in queued' : ~Stale(f)'
  <2>1. UNCHANGED loaded
    BY <1>2 DEF vars
  <2>2. \A f \in queued' : f = e
    BY <1>2 DEF DriverInv, OneQueued
  <2> QED
    BY <1>1, <1>2, <2>1, <2>2, InputsStay DEF Stale
<1>3. ASSUME NEW e \in queued, QuietRunning(e.task), AskToStop(e.task)
      PROVE  cancel'["fast"]
  BY <1>3, AskToStopEffect
<1>4. ASSUME NEW s \in NextUnevaluated, QueueEvaluation(s)
      PROVE  \A f \in queued' : ~Stale(f)'
  <2>1. PICK inputs \in InputsOf(s) :
          /\ StartQuiet(LiveSource, RankOf(s), NodeOf(s))
          /\ \/ queued' = {}
             \/ queued' = {[inputs |-> inputs, task |-> nextQuietId]} /\ UNCHANGED cache
    BY <1>4, Zenon DEF QueueEvaluation
  <2>2. ~Moved(inputs)
    BY InputsTyped, UnevaluatedIsSubject
  <2>3. UNCHANGED loaded
    BY <2>1 DEF StartQuiet
  <2>4. ASSUME UNCHANGED cache PROVE ~Moved(inputs)'
    BY <1>1, <2>2, <2>3, <2>4, InputsStay
  <2>5. \A f : f = [inputs |-> inputs, task |-> nextQuietId] => f.inputs = inputs
    OBVIOUS
  <2>6. queued' # {} => UNCHANGED cache /\ \A f \in queued' : f.inputs = inputs
    BY <2>1, <2>5
  <2> QED
    BY <2>4, <2>6 DEF Stale
<1>5. ASSUME \A e \in queued : ~QuietRunning(e.task), UNCHANGED vars, UNCHANGED queued
      PROVE  \A f \in queued' : ~QuietRunning(f.task)'
  <2>1. UNCHANGED running
    BY <1>5 DEF vars
  <2> QED
    BY <1>5, <2>1 DEF QuietRunning
<1> QED
  BY <1>2, <1>3, <1>4, <1>5 DEF DriveQueue

LEMMA StaleIsStoppedStep ==
  ASSUME Crewed, DriverInv, LiveInv, StaleIsStopped, [LiveNext]_allVars
  PROVE  StaleIsStopped'
<1> SUFFICES ASSUME phase' = "idle", NEW e \in queued', Stale(e)', QuietRunning(e.task)'
             PROVE  cancel'["fast"]
  BY DEF StaleIsStopped
<1>1. CASE DriveQueue
  BY <1>1, DriveQueueStops
<1>2. CASE /\ phase = "idle"
           /\ UNCHANGED running /\ UNCHANGED cancel /\ UNCHANGED queued /\ UNCHANGED loaded
           /\ UNCHANGED bench /\ UNCHANGED document /\ UNCHANGED viewing
           /\ UNCHANGED current /\ UNCHANGED cache
  <2>1. Stale(e)
    BY <1>2, InputsStay DEF Stale
  <2>2. QuietRunning(e.task)
    BY <1>2 DEF QuietRunning
  <2> QED
    BY <1>2, <2>1, <2>2 DEF StaleIsStopped
<1> QED
  BY <1>1, <1>2, WhileIdle

(* Between frames, an evaluation that runs on inputs that have moved has   *)
(* been asked to stop (drive_bench_evaluation, cancel_quiet_task).         *)
THEOREM AlwaysStaleIsStopped == LiveSpec => []StaleIsStopped
<1>1. LiveInit => StaleIsStopped
  BY DEF LiveInit, StaleIsStopped
<1> QED
  BY <1>1, StaleIsStoppedStep, LiveInvAlways, AlwaysDriverInv, PTL DEF LiveSpec
-----------------------------------------------------------------------------
(* Nothing is forgotten.                                                   *)

(* next_unevaluated names a subject whenever one on a free node is not     *)
(* evaluated.                                                              *)
LEMMA SomeUnevaluated ==
  ASSUME NEW s \in Subjects, Evaluating(s), ~Busy(NodeOf(s))
  PROVE  NextUnevaluated # {}
<1> DEFINE order == <<Viewed>> \o Items
           candidates == {i \in DOMAIN order : Evaluating(order[i]) /\ ~Busy(NodeOf(order[i]))}
<1>1. Items \in Seq(STRING) /\ Len(Items) \in Nat
  BY ItemsAssumption
<1>2. Len(order) = Len(Items) + 1 /\ DOMAIN order = 1..(Len(Items) + 1)
        /\ order[1] = Viewed /\ \A k \in 2..(Len(Items) + 1) : order[k] = Items[k - 1]
  BY <1>1
<1>3. NextUnevaluated = {order[i] : i \in {j \in candidates : \A k \in candidates : j <= k}}
  BY DEF NextUnevaluated
<1> HIDE DEF order
<1>4. \E i \in DOMAIN order : order[i] = s
  <2>1. CASE s = Viewed
    <3>1. 1 \in DOMAIN order
      BY <1>1, <1>2
    <3> QED
      BY <1>2, <2>1, <3>1
  <2>2. CASE s # Viewed
    <3>1. PICK j \in DOMAIN Items : Items[j] = s
      BY <2>2 DEF Subjects, ItemSet, Range
    <3>2. j + 1 \in 2..(Len(Items) + 1) /\ (j + 1) - 1 = j
      BY <1>1
    <3>3. j + 1 \in DOMAIN order /\ order[j + 1] = s
      BY <1>2, <3>1, <3>2
    <3> QED
      BY <3>3
  <2> QED
    BY <2>1, <2>2
<1>5. candidates # {} /\ candidates \subseteq Nat
  BY <1>1, <1>2, <1>4
<1> HIDE DEF candidates
<1>6. PICK m \in candidates : \A k \in candidates : m <= k
  BY <1>5, LeastNumber
<1> QED
  BY <1>3, <1>6

(* A queue that runs a task, with no frame asked for and none in its polls,*)
(* has a worker that has yet to say its last word.                         *)
LEMMA RunningIsAtWork ==
  ASSUME Crewed, DriverInv, ~wanted, phase \notin {"slow", "fast"}, running["fast"] # {}
  PROVE  \E t \in running["fast"] : worker["fast"] \in {"computing", "answered"}
<1>1. worker["fast"] \in {"none", "computing", "answered", "produced", "nothing"}
  BY DEF Crewed, Accounted, Booked, Ordered, Placed, TypeOK, Queues
<1>2. worker["fast"] # "none"
  BY DEF Crewed, Manned, Queues
<1>3. worker["fast"] \notin {"produced", "nothing"}
  BY DEF DriverInv, Wakes, Queues
<1> QED
  BY <1>1, <1>2, <1>3

(* The evaluation the driver holds keeps the fast queue busy until the     *)
(* driver has landed it.                                                   *)
LEMMA HeldEvaluationRuns ==
  ASSUME Crewed, DriverInv, ~wanted, phase \notin {"slow", "fast", "land"}, NEW e \in queued
  PROVE  running["fast"] # {}
<1>1. CASE told[e.task] # {}
  BY <1>1 DEF DriverInv, AnswerIsComing
<1>2. CASE told[e.task] = {}
  <2>1. e.task \in 1..MaxQuiet /\ e.task < nextQuietId
    BY DEF DriverInv, TaskHandedOut
  <2>2. PICK t \in Held : t.quiet /\ t.id = e.task
    BY <1>2, <2>1 DEF Crewed, Accounted, Told, ToldOnce
  <2>3. t \in HeldIn("fast")
    BY <2>2, LiveTasksAreQuiet
  <2>4. QueueOrder /\ "fast" \in Queues
    BY DEF Crewed, Accounted, Booked, Ordered, Queues
  <2>5. running["fast"] = {} => waiting["fast"] = <<>>
    BY <2>4, NothingWaitsWhenIdle
  <2>6. Range(<<>>) = {}
    BY DEF Range
  <2> QED
    BY <2>3, <2>5, <2>6 DEF HeldIn
<1> QED
  BY <1>1, <1>2

(* A frame that finds nothing to evaluate leaves nothing to evaluate:      *)
(* forget_settled_tracks forgets only items that are on no bench.          *)
LEMMA NothingLeftToEvaluate ==
  ASSUME NextUnevaluated = {}, settled' = Remembered, UNCHANGED vars, UNCHANGED bench,
         UNCHANGED document, UNCHANGED viewing, UNCHANGED current, UNCHANGED cache,
         NEW s \in Subjects, Evaluating(s)', ~Busy(NodeOf(s))'
  PROVE  FALSE
<1>1. UNCHANGED running /\ UNCHANGED waiting /\ UNCHANGED loaded
  BY DEF vars
<1>2. ~Busy(NodeOf(s))
  BY <1>1 DEF Busy, Held, HeldIn, LockedBy
<1>3. InputsOf(s)' = InputsOf(s) /\ ViewedTrack' = ViewedTrack
  BY <1>1, InputsStay
<1>4. CASE s = Viewed
  <2>1. Evaluating(s)
    BY <1>3, <1>4 DEF Evaluating
  <2> QED
    BY <1>2, <2>1, SomeUnevaluated
<1>5. CASE s # Viewed
  <2>1. s \in ItemSet
    BY <1>5 DEF Subjects
  <2>2. PICK inputs \in InputsOf(s) : ~SettledFor(s, inputs)'
    BY <1>3, <1>5 DEF Evaluating
  <2>3. bench[s] # {}
    BY <1>5, <2>2 DEF InputsOf
  <2>4. settled'[s] = settled[s]
    BY <2>1, <2>3 DEF Remembered
  <2>5. ~SettledFor(s, inputs)
    BY <2>2, <2>4 DEF SettledFor
  <2>6. Evaluating(s)
    BY <1>5, <2>2, <2>5 DEF Evaluating
  <2> QED
    BY <1>2, <2>6, SomeUnevaluated
<1> QED
  BY <1>4, <1>5

LEMMA DriveQueueForgetsNothing ==
  ASSUME Crewed, DriverInv, DriveQueue, ~wanted',
         NEW s \in Subjects, Evaluating(s)', ~Busy(NodeOf(s))'
  PROVE  \E t \in running'["fast"] : worker'["fast"] \in {"computing", "answered"}
<1>1. phase \notin {"slow", "fast", "land"} /\ UNCHANGED bench /\ UNCHANGED document
      /\ UNCHANGED viewing /\ UNCHANGED current
  BY DEF DriveQueue, benchVars
<1>2. ASSUME NEW e \in queued, UNCHANGED vars, UNCHANGED wanted
      PROVE  \E t \in running'["fast"] : worker'["fast"] \in {"computing", "answered"}
  <2>1. UNCHANGED running /\ UNCHANGED worker
    BY <1>2 DEF vars
  <2> QED
    BY <1>1, <1>2, <2>1, HeldEvaluationRuns, RunningIsAtWork
<1>3. ASSUME NEW e \in queued, QuietRunning(e.task), AskToStop(e.task), UNCHANGED wanted
      PROVE  \E t \in running'["fast"] : worker'["fast"] \in {"computing", "answered"}
  <2>1. UNCHANGED running /\ UNCHANGED worker
    BY <1>3, AskToStopEffect
  <2>2. running["fast"] # {}
    BY <1>3, RunsInFast
  <2> QED
    BY <1>1, <1>3, <2>1, <2>2, RunningIsAtWork
<1>4. ASSUME NextUnevaluated = {}, settled' = Remembered, UNCHANGED cache,
             IF queued = {} THEN UNCHANGED <<vars, wanted>>
             ELSE (\E e \in queued : AskToStop(e.task)) /\ wanted' = TRUE
      PROVE  FALSE
  <2>1. UNCHANGED vars
    BY <1>4
  <2> QED
    BY <1>1, <1>4, <2>1, NothingLeftToEvaluate
<1> QED
  BY <1>2, <1>3, <1>4 DEF DriveQueue

LEMMA NothingIsForgottenStep ==
  ASSUME Crewed, DriverInv, NothingIsForgotten, [LiveNext]_allVars
  PROVE  NothingIsForgotten'
<1> SUFFICES ASSUME phase' = "idle", ~wanted',
                    NEW s \in Subjects, Evaluating(s)', ~Busy(NodeOf(s))'
             PROVE  \E t \in running'["fast"] : worker'["fast"] \in {"computing", "answered"}
  BY DEF NothingIsForgotten
<1>1. CASE DriveQueue
  BY <1>1, DriveQueueForgetsNothing
<1>2. CASE EvaluationAnswers
  <2>1. WorkerAnswers("fast") /\ worker \in [Queues -> {"none", "computing", "answered", "produced", "nothing"}]
    BY <1>2 DEF EvaluationAnswers, Crewed, Accounted, Booked, Ordered, Placed, TypeOK
  <2>2. running["fast"] # {} /\ UNCHANGED running /\ worker'["fast"] = "answered"
    BY <2>1 DEF WorkerAnswers, Queues
  <2> QED
    BY <2>2
<1>3. CASE \E q \in Queues : WorkerReports(q)
  BY <1>3 DEF WorkerReports
<1>4. CASE UNCHANGED allVars
  <2>1. UNCHANGED phase /\ UNCHANGED wanted /\ UNCHANGED nextQuietId /\ UNCHANGED running
        /\ UNCHANGED waiting /\ UNCHANGED worker /\ UNCHANGED loaded /\ UNCHANGED bench
        /\ UNCHANGED document /\ UNCHANGED viewing /\ UNCHANGED current /\ UNCHANGED cache
        /\ UNCHANGED settled
    BY <1>4 DEF allVars, liveVars, vars
  <2>2. ~Busy(NodeOf(s))
    BY <2>1 DEF Busy, Held, HeldIn, LockedBy
  <2>3. Evaluating(s)
    BY <2>1, InputsStay DEF Evaluating, SettledFor
  <2> QED
    BY <2>1, <2>2, <2>3 DEF NothingIsForgotten
<1> QED
  BY <1>1, <1>2, <1>3, <1>4, WhileIdle

(* Between frames, a track of a free node that is not evaluated has the    *)
(* fast queue at work, whose worker has still to wake the viewer, or the   *)
(* next frame has been asked for: the invariant bench/live.rs states.      *)
THEOREM AlwaysNothingForgotten == LiveSpec => []NothingIsForgotten
<1>1. LiveInit => NothingIsForgotten
  BY DEF LiveInit, NothingIsForgotten
<1> QED
  BY <1>1, NothingIsForgottenStep, AlwaysDriverInv, PTL DEF LiveSpec

=============================================================================
