------------------------ MODULE SurfaceTilingProofs ------------------------
(***************************************************************************)
(* A tiling sequence takes its steps on what it made, and its end is told  *)
(* of once, for any number of items, acts, versions and sequences.         *)
(*                                                                         *)
(* What makes StepsFollowSteps inductive is Followed: a sequence that      *)
(* waits for nothing knows the serial of its own last version, and no      *)
(* other version has it; a step under way holds the node, so the version   *)
(* it follows stays at the cursor until it lands; and a step that landed   *)
(* well is seen by the sequence in the same frame, before anybody acts.    *)
(***************************************************************************)
EXTENDS SurfaceTiling, TLAPS

Benches == UNION {[D -> Nat] : D \in SUBSET Items}

Author == [run : Nat, at : Nat]

Version == [serial : Nat, bench : Benches, by : Author]

LockingTask ==
  [id : Nat, item : Nat, by : Author, at : {"queued", "running", "done", "failed"}]

Sequence ==
  [item : Items, steps : {TILING_STEPS, DUPLICATE_STEPS}, next : Nat \ {0},
   waitingOn : Nat, serial : Nat, run : Nat]

Words == {"stopped", "finished", "restarted"}

TypeOK ==
  /\ versions \in Seq(Version) /\ cursor \in Nat /\ serials \in Nat
  /\ made \in Nat /\ focus \in Items \cup {0}
  /\ task \in SUBSET LockingTask /\ ended \in [id : Nat, ok : BOOLEAN] /\ tasks \in Nat
  /\ settled \in [Items -> [track : Nat, worked : BOOLEAN, out : BOOLEAN]]
  /\ reading \in SUBSET [item : Items, track : Nat, answered : BOOLEAN]
  /\ sequence \in SUBSET Sequence
  /\ rows \in Seq(Seq(Words))
  /\ phase \in {"rest", "evaluate", "tile"}

(* At most one task and one sequence, each with a number of its own, and a *)
(* cursor on a version while the node is loaded.                           *)
OneOfEach ==
  /\ \A t, u \in task : t = u
  /\ \A s, r \in sequence : s = r
  /\ \A t \in task : t.id \in 1..tasks /\ ended.id # t.id
  /\ ended.id <= tasks
  /\ \A s \in sequence : s.waitingOn <= tasks /\ s.run \in DOMAIN rows /\ s.serial <= serials
  /\ Loaded => cursor \in DOMAIN versions
  /\ task # {} => Loaded
  /\ focus # 0 => Loaded

(* A serial names one version.                                             *)
SerialsName ==
  \A v, w \in DOMAIN versions :
    /\ versions[v].serial <= serials
    /\ versions[v].serial = versions[w].serial => v = w

(* Version v may be followed by a step `by` of a sequence.                 *)
MayFollow(v, by) == v.by.run = by.run /\ v.by.at < by.at

(* Every version a sequence's step made follows one the sequence made.     *)
Chained ==
  \A v \in DOMAIN versions :
    v > 1 /\ versions[v].by.at > 0 => MayFollow(versions[v - 1], versions[v].by)

Followed ==
  /\ \A s \in sequence : s.waitingOn = 0 =>
       \A v \in DOMAIN versions : versions[v].serial = s.serial =>
         MayFollow(versions[v], By(s.run, s.next))
  /\ \A t \in task : t.by.at > 0 => MayFollow(Here, t.by) /\ ~Evaluating(t.item)
  /\ \A s \in sequence, t \in task : t.id = s.waitingOn => t.by = By(s.run, s.next)
  /\ \A s \in sequence :
       s.waitingOn # 0 /\ ended = [id |-> s.waitingOn, ok |-> TRUE] =>
         /\ phase # "rest"
         /\ Loaded => Here.by.run = s.run /\ Here.by.at <= s.next

(* A drop is one step and starts no task; a move's last step starts none.  *)
WithinSteps(s) ==
  IF IsDrop(s) THEN s.next = 1 /\ s.waitingOn = 0
  ELSE s.next \in 1..6 /\ (s.waitingOn # 0 => s.next < 6)

(* A sequence under way is at one of its steps, and no row tells yet of    *)
(* its end.                                                                *)
Untold == \A s \in sequence : Len(rows[s.run]) = 0 /\ WithinSteps(s)

Inv == TypeOK /\ OneOfEach /\ SerialsName /\ Chained /\ Followed /\ Untold

-----------------------------------------------------------------------------
(* Versions.                                                               *)

LEMMA HereTyped ==
  ASSUME TypeOK, OneOfEach, Loaded
  PROVE  /\ Here \in Version
         /\ DOMAIN Here.bench \in SUBSET Items
         /\ Here.bench \in [DOMAIN Here.bench -> Nat]
<1>1. Here \in Version
  BY DEF TypeOK, OneOfEach, Loaded, Here
<1>2. PICK D \in SUBSET Items : Here.bench \in [D -> Nat]
  BY <1>1 DEF Version, Benches
<1> QED
  BY <1>1, <1>2

LEMMA BenchTyped ==
  ASSUME NEW D \in SUBSET Items, NEW bench \in [D -> Nat]
  PROVE  bench \in Benches
  BY DEF Benches

(* Push keeps the rows up to the cursor and puts its version behind them.  *)
PushedBehind(bench, by) ==
  /\ versions' \in Seq(Version) /\ serials' \in Nat /\ cursor' \in Nat
  /\ serials' = serials + 1
  /\ DOMAIN versions' = 1..(cursor + 1) /\ cursor' = cursor + 1 /\ Loaded'
  /\ \A v \in 1..cursor : v \in DOMAIN versions /\ versions'[v] = versions[v]
  /\ versions'[cursor + 1] = [serial |-> serials + 1, bench |-> bench, by |-> by]
  /\ Here' = versions'[cursor + 1]

LEMMA PushStep ==
  ASSUME TypeOK, OneOfEach, Loaded, NEW bench \in Benches, NEW by \in Author,
         Push(bench, by)
  PROVE  PushedBehind(bench, by)
<1> DEFINE new == [serial |-> serials + 1, bench |-> bench, by |-> by]
           kept == SubSeq(versions, 1, cursor)
<1>1. versions \in Seq(Version) /\ cursor \in 1..Len(versions) /\ serials \in Nat
  BY DEF TypeOK, OneOfEach
<1>2. new \in Version
  BY <1>1 DEF Version
<1>3. kept \in Seq(Version) /\ Len(kept) = cursor
        /\ \A v \in 1..cursor : kept[v] = versions[v]
  BY <1>1
<1>4. versions' = Append(kept, new) /\ cursor' = cursor + 1 /\ serials' = serials + 1
  BY DEF Push
<1> HIDE DEF new, kept
<1>5. versions' \in Seq(Version) /\ Len(versions') = cursor + 1
        /\ \A v \in 1..cursor : versions'[v] = kept[v]
        /\ versions'[cursor + 1] = new
  BY <1>1, <1>2, <1>3, <1>4
<1>6. DOMAIN versions' = 1..(cursor + 1) /\ versions' # <<>>
  BY <1>1, <1>5
<1> QED
  BY <1>1, <1>3, <1>4, <1>5, <1>6 DEF PushedBehind, new, Loaded, Here

(* The line of versions stays a chain when what is pushed may follow what  *)
(* is shown.                                                               *)
LEMMA PushChains ==
  ASSUME TypeOK, OneOfEach, Loaded, SerialsName, Chained,
         NEW bench \in Benches, NEW by \in Author, Push(bench, by),
         by.at > 0 => MayFollow(Here, by)
  PROVE  SerialsName' /\ Chained'
<1> USE DEF PushedBehind
<1>0. PushedBehind(bench, by)
  BY PushStep
<1>1. cursor \in Nat \ {0} /\ cursor \in DOMAIN versions /\ serials \in Nat
        /\ \A v \in DOMAIN versions : versions[v] \in Version
  BY DEF TypeOK, OneOfEach
<1>2. \A v, w \in DOMAIN versions' :
        /\ versions'[v].serial <= serials'
        /\ versions'[v].serial = versions'[w].serial => v = w
  <2>1. \A v \in 1..cursor : versions'[v].serial \in Nat /\ versions'[v].serial <= serials
    BY <1>0, <1>1 DEF SerialsName, Version
  <2>2. versions'[cursor + 1].serial = serials + 1
    BY <1>0
  <2>3. \A v \in DOMAIN versions' : v \in 1..cursor \/ v = cursor + 1
    BY <1>0, <1>1
  <2>4. \A v, w \in 1..cursor : versions'[v].serial = versions'[w].serial => v = w
    BY <1>0 DEF SerialsName
  <2> QED
    BY <1>0, <1>1, <2>1, <2>2, <2>3, <2>4
<1>3. ASSUME NEW v \in DOMAIN versions', v > 1, versions'[v].by.at > 0
      PROVE  MayFollow(versions'[v - 1], versions'[v].by)
  <2>1. CASE v = cursor + 1
    <3>1. versions'[v].by = by /\ versions'[v - 1] = Here
      BY <1>0, <1>1, <2>1 DEF Here
    <3> QED
      BY <1>3, <3>1
  <2>2. CASE v # cursor + 1
    <3>1. v \in 1..cursor
      BY <1>0, <1>1, <1>3, <2>2
    <3>2. v - 1 \in 1..cursor
      BY <1>1, <1>3, <3>1
    <3> QED
      BY <1>0, <1>3, <3>1, <3>2 DEF Chained
  <2> QED
    BY <2>1, <2>2
<1> QED
  BY <1>2, <1>3 DEF SerialsName, Chained, MayFollow

(* Nothing of this is disturbed while the history stays.                   *)
LEMMA HistoryStays ==
  ASSUME UNCHANGED history
  PROVE  /\ Loaded' = Loaded /\ Here' = Here
         /\ SerialsName => SerialsName'
         /\ Chained => Chained'
  BY DEF history, Loaded, Here, SerialsName, Chained, MayFollow

-----------------------------------------------------------------------------
(* Rows.                                                                   *)

LEMMA WordAdded ==
  ASSUME NEW row \in Seq(Words), NEW word \in Words
  PROVE  Append(row, word) \in Seq(Words) /\ Len(Append(row, word)) = Len(row) + 1
  OBVIOUS

(* One more word in the row of a run, and all else as it was.              *)
OneWordMore(run) ==
  /\ rows' \in Seq(Seq(Words)) /\ DOMAIN rows' = DOMAIN rows
  /\ Len(rows'[run]) = Len(rows[run]) + 1
  /\ \A r \in DOMAIN rows : r # run => rows'[r] = rows[r]

LEMMA ToldStep ==
  ASSUME TypeOK, NEW run \in DOMAIN rows, NEW word \in Words, rows' = Told(run, word)
  PROVE  OneWordMore(run)
<1>1. rows \in [1..Len(rows) -> Seq(Words)] /\ Len(rows) \in Nat /\ DOMAIN rows = 1..Len(rows)
  BY DEF TypeOK
<1>2. rows' = [rows EXCEPT ![run] = Append(rows[run], word)]
  BY DEF Told
<1>3. Append(rows[run], word) \in Seq(Words)
        /\ Len(Append(rows[run], word)) = Len(rows[run]) + 1
  BY <1>1, WordAdded
<1>4. rows' \in [1..Len(rows) -> Seq(Words)]
  BY <1>1, <1>2, <1>3
<1> QED
  BY <1>1, <1>2, <1>3, <1>4 DEF OneWordMore

(* The run under way, if any, is told its end, and a new row is begun.     *)
OneRowMore ==
  /\ rows' \in Seq(Seq(Words)) /\ DOMAIN rows' = DOMAIN rows \cup {Len(rows) + 1}
  /\ rows'[Len(rows) + 1] = <<>>
  /\ \A r \in DOMAIN rows :
       Len(rows'[r]) = IF \E s \in sequence : s.run = r THEN Len(rows[r]) + 1 ELSE Len(rows[r])
  /\ \A r \in DOMAIN rows : ~UnderWay(r) => rows'[r] = rows[r]

LEMMA BeginStep ==
  ASSUME TypeOK, NEW i \in Items, NEW steps \in {TILING_STEPS, DUPLICATE_STEPS},
         NEW serial \in Nat, NEW word \in Words, Begin(i, steps, serial, word)
  PROVE  /\ OneRowMore
         /\ sequence' = {SequenceOn(i, steps, serial)}
         /\ SequenceOn(i, steps, serial) \in Sequence
<1> DEFINE told == [r \in DOMAIN rows |->
                      IF \E s \in sequence : s.run = r THEN Append(rows[r], word) ELSE rows[r]]
<1>1. rows \in Seq(Seq(Words)) /\ Len(rows) \in Nat /\ DOMAIN rows = 1..Len(rows)
  BY DEF TypeOK
<1>2. \A r \in DOMAIN rows : rows[r] \in Seq(Words) /\ Append(rows[r], word) \in Seq(Words)
                              /\ Len(Append(rows[r], word)) = Len(rows[r]) + 1
  BY <1>1, WordAdded
<1>3. told \in [1..Len(rows) -> Seq(Words)]
  BY <1>1, <1>2
<1>4. told \in Seq(Seq(Words)) /\ Len(told) = Len(rows)
  BY <1>1, <1>3
<1>5. \A r \in DOMAIN rows :
        Len(told[r]) = IF \E s \in sequence : s.run = r THEN Len(rows[r]) + 1 ELSE Len(rows[r])
  BY <1>2
<1>13. \A r \in DOMAIN rows : ~UnderWay(r) => told[r] = rows[r]
  BY DEF UnderWay
<1>6. rows' = Append(told, <<>>) /\ sequence' = {SequenceOn(i, steps, serial)}
  BY DEF Begin
<1>7. <<>> \in Seq(Words)
  OBVIOUS
<1> HIDE DEF told
<1>8. /\ Append(told, <<>>) \in Seq(Seq(Words))
      /\ DOMAIN Append(told, <<>>) = 1..(Len(rows) + 1)
      /\ Append(told, <<>>)[Len(rows) + 1] = <<>>
      /\ \A r \in 1..Len(rows) : Append(told, <<>>)[r] = told[r]
  BY <1>1, <1>4, <1>7
<1>9. SequenceOn(i, steps, serial) \in Sequence
  BY <1>1 DEF SequenceOn, Sequence
<1>10. /\ rows' \in Seq(Seq(Words)) /\ DOMAIN rows' = DOMAIN rows \cup {Len(rows) + 1}
       /\ rows'[Len(rows) + 1] = <<>>
  BY <1>1, <1>6, <1>8
<1>11. \A r \in DOMAIN rows : rows'[r] = told[r]
  BY <1>1, <1>6, <1>8
<1>12. OneRowMore
  BY <1>5, <1>10, <1>11, <1>13 DEF OneRowMore
<1> QED
  BY <1>6, <1>9, <1>12

-----------------------------------------------------------------------------
(* The evaluation and the workers.                                         *)

LEMMA EvaluateStep == ASSUME Inv, Evaluate PROVE Inv'
<1>1. /\ UNCHANGED <<versions, cursor, serials, made, focus, task, ended, tasks, sequence, rows>>
      /\ UNCHANGED history /\ phase' = "tile"
  BY DEF Evaluate, history, work
<1>2. /\ settled' \in [Items -> [track : Nat, worked : BOOLEAN, out : BOOLEAN]]
      /\ task # {} => settled' = settled
  <2>1. settled \in [Items -> [track : Nat, worked : BOOLEAN, out : BOOLEAN]]
          /\ \A e \in reading : e.item \in Items /\ e.track \in Nat
    BY DEF Inv, TypeOK
  <2>2. ASSUME ~Busy, NEW e \in reading, NEW worked \in BOOLEAN, NEW out \in Judged(e.item),
               settled' = [settled EXCEPT ![e.item] =
                             [track |-> e.track, worked |-> worked, out |-> out]]
        PROVE  settled' \in [Items -> [track : Nat, worked : BOOLEAN, out : BOOLEAN]] /\ task = {}
    BY <2>1, <2>2 DEF Busy, Judged
  <2>3. CASE UNCHANGED settled
    BY <2>1, <2>3
  <2> QED
    BY <2>2, <2>3 DEF Evaluate, LandAnswer
<1>3. reading' \in SUBSET [item : Items, track : Nat, answered : BOOLEAN]
  <2> DEFINE need == {i \in Items : OnBench(i) /\ Evaluating(i)'}
  <2>1. CASE reading' \subseteq reading
    BY <2>1 DEF Inv, TypeOK
  <2>2. ASSUME NEW i \in need,
               reading' = {[item |-> i, track |-> Here.bench[i], answered |-> FALSE]}
        PROVE  reading' \in SUBSET [item : Items, track : Nat, answered : BOOLEAN]
    BY <2>2, HereTyped DEF Inv, OnBench
  <2> QED
    BY <2>1, <2>2 DEF Evaluate, QueueNext
<1>4. TypeOK'
  BY <1>1, <1>2, <1>3 DEF Inv, TypeOK
<1>5. OneOfEach'
  BY <1>1, HistoryStays DEF Inv, OneOfEach
<1>6. SerialsName' /\ Chained'
  BY <1>1, HistoryStays DEF Inv
<1>7. Followed'
  <2>1. ASSUME NEW t \in task, t.by.at > 0 PROVE MayFollow(Here', t.by) /\ ~Evaluating(t.item)'
    BY <1>1, <1>2, <2>1, HistoryStays DEF Inv, Followed, Evaluating
  <2> QED
    BY <1>1, <2>1, HistoryStays DEF Inv, Followed, MayFollow
<1>8. Untold'
  BY <1>1 DEF Inv, Untold
<1> QED
  BY <1>4, <1>5, <1>6, <1>7, <1>8 DEF Inv

LEMMA EvaluationAnswersStep == ASSUME Inv, EvaluationAnswers PROVE Inv'
<1> USE DEF Inv, EvaluationAnswers
<1>1. UNCHANGED history /\ UNCHANGED work
  OBVIOUS
<1>2. TypeOK'
  BY <1>1 DEF TypeOK, history, work
<1>3. OneOfEach'
  BY <1>1, HistoryStays DEF OneOfEach, history, work
<1>4. SerialsName' /\ Chained'
  BY <1>1, HistoryStays
<1>5. Followed'
  BY <1>1, HistoryStays DEF Followed, history, work, MayFollow, Evaluating
<1>6. Untold'
  BY DEF Untold
<1> QED
  BY <1>2, <1>3, <1>4, <1>5, <1>6

(* A worker's progress is all the task changes by.                         *)
LEMMA WorkerStep == ASSUME Inv, TaskStarts \/ TaskReports PROVE Inv'
<1> USE DEF Inv
<1>1. UNCHANGED history /\ UNCHANGED <<ended, tasks, settled, sequence, rows, phase, made, focus, reading>>
  BY DEF TaskStarts, TaskReports
<1>2. PICK t \in task, at \in {"running", "done", "failed"} : task' = {[t EXCEPT !.at = at]}
  BY DEF TaskStarts, TaskReports
<1>3. [t EXCEPT !.at = at] \in LockingTask /\ [t EXCEPT !.at = at].id = t.id
        /\ [t EXCEPT !.at = at].by = t.by /\ [t EXCEPT !.at = at].item = t.item
  BY <1>2 DEF TypeOK, LockingTask
<1> DEFINE u == [t EXCEPT !.at = at]
<1> HIDE DEF u
<1>4. task' = {u} /\ u \in LockingTask /\ u.id = t.id /\ u.by = t.by /\ u.item = t.item
  BY <1>2, <1>3 DEF u
<1>5. TypeOK'
  BY <1>1, <1>4 DEF TypeOK, history
<1>6. OneOfEach'
  BY <1>1, <1>4, HistoryStays DEF OneOfEach, history
<1>7. SerialsName' /\ Chained'
  BY <1>1, HistoryStays
<1>8. Followed'
  BY <1>1, <1>4, HistoryStays DEF Followed, history, MayFollow, Evaluating
<1>9. Untold'
  BY <1>1 DEF Untold
<1> QED
  BY <1>5, <1>6, <1>7, <1>8, <1>9

-----------------------------------------------------------------------------
(* Landing.                                                                *)

(* A version pushed now is none a sequence knows.                          *)
LEMMA PushIsNew ==
  ASSUME Inv, Loaded, NEW bench \in Benches, NEW by \in Author, Push(bench, by),
         NEW s \in sequence, s.waitingOn = 0,
         NEW v \in DOMAIN versions', versions'[v].serial = s.serial
  PROVE  MayFollow(versions'[v], By(s.run, s.next))
<1>1. PushedBehind(bench, by)
  BY PushStep DEF Inv
<1>2. s.serial <= serials /\ s.serial \in Nat /\ serials \in Nat /\ cursor \in Nat
  BY DEF Inv, OneOfEach, TypeOK, Sequence
<1>3. v \in 1..cursor
  BY <1>1, <1>2 DEF PushedBehind
<1> QED
  BY <1>1, <1>3 DEF PushedBehind, Inv, Followed

LEMMA InstalledTyped ==
  ASSUME Inv, Loaded, NEW t \in task
  PROVE  Installed(t) \in Benches
<1>1. \A i \in DOMAIN Here.bench :
        (IF i = t.item \/ t.item = 0 THEN serials + 1 ELSE Here.bench[i]) \in Nat
  BY HereTyped DEF Inv, TypeOK
<1>2. Installed(t) \in [DOMAIN Here.bench -> Nat]
  BY <1>1 DEF Installed
<1> QED
  BY <1>2, HereTyped, BenchTyped DEF Inv

LEMMA LandStep ==
  ASSUME Inv, BeginFrame, NEW t \in task, t.at \in {"done", "failed"},
         ended' = [id |-> t.id, ok |-> t.at = "done"], task' = {},
         \/ t.at = "done" /\ Push(Installed(t), t.by)
         \/ UNCHANGED history
  PROVE  Inv'
<1>1. /\ UNCHANGED <<made, focus, tasks, settled, reading, sequence, rows>>
      /\ phase' = "evaluate"
  BY DEF BeginFrame
<1>2. Loaded /\ t.id \in Nat /\ t.id <= tasks /\ t.by \in Author /\ tasks \in Nat
  BY DEF Inv, OneOfEach, TypeOK, LockingTask
<1>3. Installed(t) \in Benches
  BY <1>2, InstalledTyped
<1>4. t.by.at > 0 => MayFollow(Here, t.by)
  BY DEF Inv, Followed
<1>5. SerialsName' /\ Chained'
  BY <1>2, <1>3, <1>4, PushChains, HistoryStays DEF Inv
<1>6. /\ versions' \in Seq(Version) /\ cursor' \in Nat /\ serials' \in Nat /\ serials <= serials'
      /\ Loaded' /\ cursor' \in DOMAIN versions'
      /\ Here'.by \in {t.by, Here.by}
  <2>1. CASE Push(Installed(t), t.by)
    <3>1. PushedBehind(Installed(t), t.by) /\ cursor \in Nat /\ serials \in Nat
      BY <1>2, <1>3, <2>1, PushStep DEF Inv, TypeOK
    <3> QED
      BY <3>1 DEF PushedBehind
  <2>2. CASE UNCHANGED history
    BY <1>2, <2>2, HistoryStays DEF Inv, TypeOK, OneOfEach, history
  <2> QED
    BY <2>1, <2>2
<1>7. TypeOK'
  BY <1>1, <1>2, <1>6 DEF Inv, TypeOK
<1>8. OneOfEach'
  <2>1. \A s \in sequence : s.serial \in Nat /\ s.serial <= serials /\ serials \in Nat
    BY DEF Inv, OneOfEach, TypeOK, Sequence
  <2> QED
    BY <1>1, <1>2, <1>6, <2>1 DEF Inv, TypeOK, OneOfEach
<1>9. Followed'
  <2>1. ASSUME NEW s \in sequence, s.waitingOn = 0, NEW v \in DOMAIN versions',
               versions'[v].serial = s.serial
        PROVE  MayFollow(versions'[v], By(s.run, s.next))
    BY <1>2, <1>3, <2>1, PushIsNew DEF Inv, Followed, history
  <2>2. ASSUME NEW s \in sequence, s.waitingOn # 0,
               ended' = [id |-> s.waitingOn, ok |-> TRUE]
        PROVE  Here'.by.run = s.run /\ Here'.by.at <= s.next
    <3>1. t.id = s.waitingOn
      BY <2>2
    <3>2. t.by = By(s.run, s.next) /\ s.next \in Nat \ {0}
      BY <3>1 DEF Inv, Followed, TypeOK, Sequence
    <3>3. Here.by.at \in Nat
      BY <1>2, HereTyped DEF Inv, Version, Author
    <3> QED
      BY <1>4, <1>6, <3>2, <3>3 DEF MayFollow, By
  <2> QED
    BY <1>1, <2>1, <2>2 DEF Followed, MayFollow
<1>10. Untold'
  BY <1>1 DEF Inv, Untold
<1> QED
  BY <1>5, <1>7, <1>8, <1>9, <1>10 DEF Inv

LEMMA BeginFrameStep == ASSUME Inv, BeginFrame PROVE Inv'
<1>1. CASE \E t \in task :
             /\ t.at \in {"done", "failed"}
             /\ ended' = [id |-> t.id, ok |-> t.at = "done"]
             /\ task' = {}
             /\ (t.at = "done" /\ Push(Installed(t), t.by)) \/ UNCHANGED history
  BY <1>1, LandStep
<1>2. CASE UNCHANGED <<history, task, ended>>
  <2>1. /\ UNCHANGED <<versions, cursor, serials, task, ended, made, focus, tasks, settled,
                       reading, sequence, rows>>
        /\ UNCHANGED history /\ phase = "rest" /\ phase' = "evaluate"
    BY <1>2 DEF BeginFrame, history
  <2>2. TypeOK'
    BY <2>1 DEF Inv, TypeOK
  <2>3. OneOfEach'
    BY <2>1, HistoryStays DEF Inv, OneOfEach
  <2>4. SerialsName' /\ Chained'
    BY <2>1, HistoryStays DEF Inv
  <2>5. Followed'
    BY <2>1, HistoryStays DEF Inv, Followed, MayFollow, Evaluating
  <2>6. Untold'
    BY <2>1 DEF Inv, Untold
  <2> QED
    BY <2>2, <2>3, <2>4, <2>5, <2>6 DEF Inv
<1> QED
  BY <1>1, <1>2 DEF BeginFrame, Poll

-----------------------------------------------------------------------------
(* Driving.                                                                *)

TilesOn == phase' = "rest" /\ UNCHANGED <<made, focus, settled, reading>>

(* s is the sequence q, or q once its step has landed: it waits for        *)
(* nothing, and its next step may follow the version shown.                *)
Ready(q, s) ==
  /\ s \in Sequence /\ s.run = q.run /\ s.waitingOn = 0
  /\ OnBench(s.item) /\ s.serial = Here.serial /\ WithinSteps(s)
  /\ MayFollow(Here, By(s.run, s.next))

(* A sequence ends, with a row or without, and perhaps with a version of   *)
(* its last step.                                                          *)
LEMMA EndStep ==
  ASSUME Inv, TilesOn, NEW q \in sequence, NEW word \in Words,
         sequence' = {}, rows' = Told(q.run, word) \/ rows' = rows, UNCHANGED work,
         NEW bench, NEW by,
         \/ UNCHANGED history
         \/ /\ Loaded /\ ~Busy /\ bench \in Benches /\ by \in Author
            /\ MayFollow(Here, by) /\ Push(bench, by)
  PROVE  Inv'
<1>1. UNCHANGED <<task, ended, tasks, made, focus, settled, reading>> /\ phase' = "rest"
  BY DEF TilesOn, work
<1>2. /\ q.run \in DOMAIN rows /\ \A s \in sequence : s = q
      /\ rows' \in Seq(Seq(Words)) /\ DOMAIN rows' = DOMAIN rows
  BY ToldStep DEF Inv, OneOfEach, OneWordMore, TypeOK
<1>3. Untold'
  BY DEF Untold
<1>4. SerialsName' /\ Chained'
  BY PushChains, HistoryStays DEF Inv
<1>5. /\ versions' \in Seq(Version) /\ cursor' \in Nat /\ serials' \in Nat
      /\ Loaded' = Loaded
      /\ Loaded' => cursor' \in DOMAIN versions'
      /\ task # {} => UNCHANGED history
  <2>1. CASE UNCHANGED history
    BY <2>1, HistoryStays DEF Inv, TypeOK, OneOfEach, history
  <2>2. CASE Loaded /\ ~Busy /\ bench \in Benches /\ by \in Author /\ Push(bench, by)
    <3>1. PushedBehind(bench, by) /\ cursor \in Nat
      BY <2>2, PushStep DEF Inv, TypeOK
    <3> QED
      BY <2>2, <3>1 DEF PushedBehind, Busy
  <2> QED
    BY <2>1, <2>2
<1>6. TypeOK'
  BY <1>1, <1>2, <1>5 DEF Inv, TypeOK
<1>7. OneOfEach'
  BY <1>1, <1>5 DEF Inv, OneOfEach
<1>8. Followed'
  <2>1. ASSUME NEW t \in task, t.by.at > 0 PROVE MayFollow(Here', t.by) /\ ~Evaluating(t.item)'
    BY <1>1, <1>5, <2>1, HistoryStays DEF Inv, Followed, Evaluating
  <2> QED
    BY <1>1, <2>1 DEF Followed, MayFollow
<1> QED
  BY <1>3, <1>4, <1>6, <1>7, <1>8 DEF Inv

(* A sequence goes on waiting, for an evaluation.                          *)
LEMMA WaitStep ==
  ASSUME Inv, TilesOn, NEW q \in sequence, NEW s, Ready(q, s),
         sequence' = {s}, UNCHANGED <<history, work, rows>>
  PROVE  Inv'
<1>1. UNCHANGED <<versions, cursor, serials, task, ended, tasks, made, focus, settled,
                  reading, rows>> /\ phase' = "rest" /\ UNCHANGED history
  BY DEF TilesOn, history, work
<1>2. q.run \in DOMAIN rows /\ (\A r \in sequence : r = q) /\ s.run = q.run /\ s.waitingOn = 0
        /\ Loaded /\ cursor \in DOMAIN versions /\ tasks \in Nat /\ s \in Sequence
  BY DEF Inv, OneOfEach, TypeOK, Ready, OnBench
<1>3. s.serial = versions[cursor].serial /\ s.serial <= serials
  BY <1>2 DEF Inv, SerialsName, Ready, Here
<1>4. TypeOK'
  BY <1>1, <1>2 DEF Inv, TypeOK
<1>5. OneOfEach'
  BY <1>1, <1>2, <1>3, HistoryStays DEF Inv, OneOfEach
<1>6. SerialsName' /\ Chained'
  BY <1>1, HistoryStays DEF Inv
<1>7. Followed'
  <2>1. ASSUME NEW t \in task, t.by.at > 0 PROVE MayFollow(Here', t.by) /\ ~Evaluating(t.item)'
    BY <1>1, <2>1, HistoryStays DEF Inv, Followed, Evaluating
  <2>2. ASSUME NEW v \in DOMAIN versions, versions[v].serial = s.serial
        PROVE  MayFollow(versions[v], By(s.run, s.next))
    BY <1>2, <1>3, <2>2 DEF Inv, SerialsName, Ready, Here
  <2>3. \A t \in task : t.id # s.waitingOn
    BY <1>2 DEF Inv, OneOfEach
  <2> QED
    BY <1>1, <1>2, <2>1, <2>2, <2>3 DEF Followed, MayFollow
<1>8. Untold'
  BY <1>1, <1>2 DEF Inv, Untold, Ready, WithinSteps, IsDrop
<1> QED
  BY <1>4, <1>5, <1>6, <1>7, <1>8 DEF Inv

(* A sequence starts its next step and waits for the task.                 *)
LEMMA StartedStep ==
  ASSUME Inv, TilesOn, NEW q \in sequence, NEW s, Ready(q, s), ~MustWait(s),
         StepOf(s) \notin {"Commit", "DropOut"}, StartTask(s.item, By(s.run, s.next)),
         sequence' = {[s EXCEPT !.waitingOn = tasks + 1]}, UNCHANGED <<history, rows>>
  PROVE  Inv'
<1>0. PICK w, t :
        /\ w = [s EXCEPT !.waitingOn = tasks + 1]
        /\ t = [id |-> tasks + 1, item |-> s.item, by |-> By(s.run, s.next), at |-> "queued"]
  OBVIOUS
<1>1. /\ UNCHANGED <<versions, cursor, serials, ended, made, focus, settled, reading, rows>>
      /\ phase' = "rest" /\ UNCHANGED history
      /\ tasks' = tasks + 1 /\ task' = {t} /\ sequence' = {w}
  BY <1>0 DEF TilesOn, history, StartTask
<1>2. /\ q.run \in DOMAIN rows /\ (\A r \in sequence : r = q) /\ s.run = q.run
      /\ Loaded /\ cursor \in DOMAIN versions /\ tasks \in Nat /\ s \in Sequence
      /\ ended.id \in Nat /\ ended.id <= tasks
  BY DEF Inv, OneOfEach, TypeOK, Ready, OnBench
<1>3. s.serial = versions[cursor].serial /\ s.serial <= serials
  BY <1>2 DEF Inv, SerialsName, Ready, Here
<1>4. /\ w \in Sequence /\ w.run = s.run /\ w.next = s.next /\ w.serial = s.serial
      /\ w.waitingOn = tasks + 1 /\ w.steps = s.steps
  BY <1>0, <1>2 DEF Sequence
<1>5. /\ t \in LockingTask /\ t.id = tasks + 1 /\ t.by = By(s.run, s.next) /\ t.item = s.item
  BY <1>0, <1>2 DEF LockingTask, Sequence, By, Author, Items
<1>6. TypeOK'
  <2>1. task' \in SUBSET LockingTask /\ tasks' \in Nat
    BY <1>1, <1>2, <1>5
  <2>2. sequence' \in SUBSET Sequence
    BY <1>1, <1>4
  <2> QED
    BY <1>1, <2>1, <2>2 DEF Inv, TypeOK
<1>7. OneOfEach'
  BY <1>1, <1>2, <1>3, <1>4, <1>5, HistoryStays DEF Inv, OneOfEach
<1>8. SerialsName' /\ Chained'
  BY <1>1, HistoryStays DEF Inv
<1>9. Followed'
  <2>1. MayFollow(Here', t.by) /\ ~Evaluating(t.item)'
    <3>1. Here' = Here
      BY <1>1, HistoryStays
    <3>2. MayFollow(Here, By(s.run, s.next))
      BY DEF Ready
    <3>3. settled[s.item].track = Here.bench[s.item]
      BY DEF MustWait, Evaluating
    <3>4. MayFollow(Here', t.by)
      BY <1>5, <3>1, <3>2
    <3>5. ~Evaluating(t.item)'
      BY <1>1, <1>5, <3>1, <3>3 DEF Evaluating
    <3> QED
      BY <3>4, <3>5
  <2>2. w.waitingOn # 0 /\ ended # [id |-> w.waitingOn, ok |-> TRUE] /\ t.by = By(w.run, w.next)
    BY <1>2, <1>4, <1>5
  <2> QED
    BY <1>1, <2>1, <2>2 DEF Followed, MayFollow
<1>10. Untold'
  <2>1. ~IsDrop(s) /\ s.next \in 1..6 /\ s.next # 6
    <3>1. IsDrop(s) => s.next = 1 /\ StepOf(s) = "DropOut"
      BY DEF Ready, WithinSteps, IsDrop, StepOf, DUPLICATE_STEPS
    <3>2. s.steps = TILING_STEPS /\ s.next = 6 => StepOf(s) = "Commit"
      BY DEF StepOf, TILING_STEPS
    <3> QED
      BY <1>2, <3>1, <3>2 DEF Ready, WithinSteps, Sequence, IsDrop
  <2>2. WithinSteps(w)'
    BY <1>4, <2>1 DEF WithinSteps, IsDrop
  <2> QED
    BY <1>1, <1>2, <1>4, <2>2 DEF Inv, Untold
<1> QED
  BY <1>6, <1>7, <1>8, <1>9, <1>10 DEF Inv

LEMMA BenchesMade ==
  ASSUME Inv, Loaded
  PROVE  /\ [i \in DOMAIN Here.bench |-> serials + 1] \in Benches
         /\ \A j : [Here.bench EXCEPT ![j] = serials + 1] \in Benches
<1>1. serials + 1 \in Nat /\ DOMAIN Here.bench \in SUBSET Items
        /\ Here.bench \in [DOMAIN Here.bench -> Nat]
  BY HereTyped DEF Inv, TypeOK
<1>2. [i \in DOMAIN Here.bench |-> serials + 1] \in [DOMAIN Here.bench -> Nat]
  BY <1>1
<1>3. \A j : [Here.bench EXCEPT ![j] = serials + 1] \in [DOMAIN Here.bench -> Nat]
  BY <1>1
<1> QED
  BY <1>1, <1>2, <1>3, BenchTyped

(* A step is taken: at once, as a task, or not at all.                     *)
LEMMA TakenStep ==
  ASSUME Inv, TilesOn, NEW q \in sequence, NEW s, Ready(q, s), ~MustWait(s), TakeStep(s)
  PROVE  Inv'
<1>1. s.run = q.run /\ s \in Sequence /\ Loaded /\ s.item \in DOMAIN Here.bench
        /\ MayFollow(Here, By(s.run, s.next))
  BY DEF Ready, OnBench
<1>2. By(s.run, s.next) \in Author
  BY <1>1 DEF Sequence, By, Author
<1>3. "stopped" \in Words /\ "finished" \in Words
  BY DEF Words
<1>4. CASE Stop(s) /\ UNCHANGED <<history, work>>
  BY <1>1, <1>3, <1>4, EndStep DEF Stop, history, work
<1>5. CASE Finish(s) /\ UNCHANGED <<history, work>>
  BY <1>1, <1>3, <1>5, EndStep DEF Finish, history, work
<1>6. ASSUME NEW bench \in Benches, ~Busy, Finish(s), Push(bench, By(s.run, s.next)),
             UNCHANGED work
      PROVE  Inv'
  BY <1>1, <1>2, <1>3, <1>6, EndStep DEF Finish
<1>7. CASE StepOf(s) = "Commit" /\ CommitStep(s)
  BY <1>1, <1>4, <1>5, <1>6, <1>7, BenchesMade DEF CommitStep, history, work
<1>10. CASE sequence' = {} /\ UNCHANGED <<history, work, rows>>
  BY <1>1, <1>3, <1>10, EndStep DEF history, work
<1>8. CASE StepOf(s) = "DropOut" /\ DropStep(s)
  BY <1>1, <1>4, <1>6, <1>8, <1>10, BenchesMade DEF DropStep, history, work
<1>9. CASE StartStep(s) /\ StepOf(s) \notin {"Commit", "DropOut"}
  BY <1>4, <1>9, StartedStep DEF StartStep, history
<1> QED
  BY <1>7, <1>8, <1>9 DEF TakeStep

LEMMA GoOnStep ==
  ASSUME Inv, TilesOn, NEW q \in sequence, NEW s, Ready(q, s), GoOn(s)
  PROVE  Inv'
<1>1. CASE MustWait(s)
  BY <1>1, WaitStep DEF GoOn, history, work
<1>2. CASE ~MustWait(s)
  BY <1>2, TakenStep DEF GoOn
<1> QED
  BY <1>1, <1>2

(* A frame in which the sequence only waits for its task, or there is none.*)
LEMMA IdleStep ==
  ASSUME Inv, TilesOn, UNCHANGED <<history, work, sequence, rows>>,
         \A s \in sequence : \E t \in task : t.id = s.waitingOn
  PROVE  Inv'
<1>1. UNCHANGED <<versions, cursor, serials, task, ended, tasks, made, focus, settled,
                  reading, sequence, rows>> /\ phase' = "rest" /\ UNCHANGED history
  BY DEF TilesOn, history, work
<1>2. TypeOK'
  BY <1>1 DEF Inv, TypeOK
<1>3. OneOfEach'
  BY <1>1, HistoryStays DEF Inv, OneOfEach
<1>4. SerialsName' /\ Chained'
  BY <1>1, HistoryStays DEF Inv
<1>5. Followed'
  <2>1. \A s \in sequence : ended # [id |-> s.waitingOn, ok |-> TRUE]
    BY DEF Inv, OneOfEach
  <2> QED
    BY <1>1, <2>1, HistoryStays DEF Inv, Followed, MayFollow, Evaluating
<1>6. Untold'
  BY <1>1 DEF Inv, Untold
<1> QED
  BY <1>2, <1>3, <1>4, <1>5, <1>6 DEF Inv

GoneOn(s, n, serial) == [s EXCEPT !.next = n, !.waitingOn = 0, !.serial = serial]

LEMMA SequenceLanded ==
  ASSUME NEW s \in Sequence, NEW n \in Nat \ {0}, NEW serial \in Nat
  PROVE  /\ GoneOn(s, n, serial) \in Sequence
         /\ GoneOn(s, n, serial).run = s.run /\ GoneOn(s, n, serial).waitingOn = 0
         /\ GoneOn(s, n, serial).item = s.item /\ GoneOn(s, n, serial).serial = serial
         /\ GoneOn(s, n, serial).next = n /\ GoneOn(s, n, serial).steps = s.steps
<1>0. PICK l : l = GoneOn(s, n, serial)
  OBVIOUS
<1>1. PICK a : a = [s EXCEPT !.next = n]
  OBVIOUS
<1>2. PICK b : b = [a EXCEPT !.waitingOn = 0]
  OBVIOUS
<1>3. l = [b EXCEPT !.serial = serial]
  BY <1>0, <1>1, <1>2 DEF GoneOn
<1>4. a \in Sequence /\ a.run = s.run /\ a.item = s.item /\ a.next = n /\ a.steps = s.steps
  BY <1>1 DEF Sequence
<1>5. b \in Sequence /\ b.run = s.run /\ b.item = s.item /\ b.next = n /\ b.waitingOn = 0
        /\ b.steps = s.steps
  BY <1>2, <1>4 DEF Sequence
<1>6. /\ l \in Sequence /\ l.run = s.run /\ l.waitingOn = 0
      /\ l.item = s.item /\ l.serial = serial /\ l.next = n /\ l.steps = s.steps
  BY <1>3, <1>5 DEF Sequence
<1> QED
  BY <1>0, <1>6

LEMMA DriveStep == ASSUME Inv, TilesOn, phase # "rest", NEW q \in sequence, Drive(q) PROVE Inv'
<1>1. q \in Sequence /\ (\A s \in sequence : s = q)
  BY DEF Inv, TypeOK, OneOfEach
<1>2. CASE StopNow(q)
  BY <1>2, EndStep DEF StopNow, Stop, Words, history, work
<1>3. CASE q.waitingOn # 0 /\ (\E t \in task : t.id = q.waitingOn)
           /\ UNCHANGED <<history, work, sequence, rows>>
  BY <1>1, <1>3, IdleStep DEF history, work
<1>4. CASE ~Lost(q) /\ q.waitingOn # 0 /\ ended = [id |-> q.waitingOn, ok |-> TRUE]
           /\ GoOn(Landed(q))
  <2>1. OnBench(q.item) /\ Loaded
    BY <1>4 DEF Lost, OnBench
  <2>2. Here.by.run = q.run /\ Here.by.at <= q.next
    BY <1>4, <2>1 DEF Inv, Followed
  <2>3. Here.serial \in Nat /\ Here.by.at \in Nat
    BY <2>1, HereTyped DEF Inv, Version, Author
  <2>4. /\ Landed(q) \in Sequence /\ Landed(q).run = q.run /\ Landed(q).waitingOn = 0
        /\ Landed(q).item = q.item /\ Landed(q).serial = Here.serial
        /\ Landed(q).next = q.next + 1 /\ q.next \in Nat /\ Landed(q).steps = q.steps
    <3>1. q.next \in Nat \ {0} /\ q.next + 1 \in Nat \ {0}
      BY <1>1 DEF Sequence
    <3>2. PICK n, h : n = q.next + 1 /\ h = Here.serial
      OBVIOUS
    <3>3. Landed(q) = GoneOn(q, n, h)
      BY <3>2 DEF Landed, GoneOn
    <3>4. q \in Sequence /\ n \in Nat \ {0} /\ h \in Nat
      BY <1>1, <2>3, <3>1, <3>2
    <3>5. /\ GoneOn(q, n, h) \in Sequence
          /\ GoneOn(q, n, h).run = q.run /\ GoneOn(q, n, h).waitingOn = 0
          /\ GoneOn(q, n, h).item = q.item /\ GoneOn(q, n, h).serial = h
          /\ GoneOn(q, n, h).next = n /\ GoneOn(q, n, h).steps = q.steps
      BY <3>4, SequenceLanded
    <3> QED
      BY <3>1, <3>2, <3>3, <3>5
  <2>5. MayFollow(Here, By(Landed(q).run, Landed(q).next))
    BY <2>2, <2>3, <2>4 DEF MayFollow, By
  <2>7. WithinSteps(Landed(q))
    BY <1>4, <2>4 DEF Inv, Untold, WithinSteps, IsDrop
  <2>6. Ready(q, Landed(q))
    BY <2>1, <2>4, <2>5, <2>7 DEF Ready
  <2> QED
    BY <1>4, <2>6, GoOnStep
<1>5. CASE ~Lost(q) /\ q.waitingOn = 0 /\ ~Overtaken(q) /\ GoOn(q)
  <2>1. OnBench(q.item) /\ Loaded /\ cursor \in DOMAIN versions /\ Here.serial = q.serial
    BY <1>5 DEF Lost, OnBench, Overtaken, Inv, OneOfEach
  <2>2. MayFollow(Here, By(q.run, q.next))
    BY <1>5, <2>1 DEF Inv, Followed, Here
  <2>3. Ready(q, q)
    BY <1>1, <1>5, <2>1, <2>2 DEF Ready, Inv, Untold
  <2> QED
    BY <1>5, <2>3, GoOnStep
<1> QED
  BY <1>2, <1>3, <1>4, <1>5 DEF Drive

LEMMA TileStep == ASSUME Inv, Tile PROVE Inv'
<1>1. TilesOn /\ phase # "rest"
  BY DEF Tile, TilesOn
<1>2. CASE \E s \in sequence : Drive(s)
  BY <1>1, <1>2, DriveStep
<1>3. CASE sequence = {} /\ UNCHANGED <<history, work, sequence, rows>>
  BY <1>1, <1>3, IdleStep
<1> QED
  BY <1>2, <1>3 DEF Tile, history, work

-----------------------------------------------------------------------------
(* Acts.                                                                   *)

ActsOn == phase = "rest" /\ UNCHANGED <<settled, reading, phase>>

(* Nothing that landed waits to be seen while the frame rests.             *)
LEMMA NoneLanded ==
  ASSUME Inv, phase = "rest", NEW s \in sequence, s.waitingOn # 0
  PROVE  ended # [id |-> s.waitingOn, ok |-> TRUE]
  BY DEF Inv, Followed

(* The history after a push by anybody but a sequence.                     *)
Moved(serial, by) ==
  /\ versions' \in Seq(Version) /\ cursor' \in Nat /\ serials' \in Nat
  /\ serials <= serials' /\ Loaded' /\ cursor' \in DOMAIN versions'
  /\ SerialsName' /\ Chained'
  /\ serial \in Nat /\ Here'.serial = serial /\ serial <= serials' /\ Here'.by = by

LEMMA PushMoves ==
  ASSUME Inv, Loaded, NEW bench \in Benches, NEW by \in Author, by.at = 0, Push(bench, by)
  PROVE  Moved(serials + 1, by)
<1>1. PushedBehind(bench, by) /\ cursor \in Nat /\ serials \in Nat
  BY PushStep DEF Inv, TypeOK
<1>2. SerialsName' /\ Chained'
  BY PushChains DEF Inv
<1> QED
  BY <1>1, <1>2 DEF Moved, PushedBehind

LEMMA AuthorsTyped ==
  ASSUME TypeOK
  PROVE  /\ Others \in Author /\ Others.at = 0
         /\ StartsRun \in Author /\ StartsRun.at = 0 /\ StartsRun.run = Len(rows) + 1
  BY DEF TypeOK, Others, StartsRun, By, Author

(* An act begins a sequence on the version it has just made.               *)
LEMMA BegunStep ==
  ASSUME Inv, ActsOn, ~Busy, UNCHANGED work, made' \in Nat, focus' \in Items \cup {0},
         NEW serial, Moved(serial, StartsRun),
         NEW i \in Items, NEW steps \in {TILING_STEPS, DUPLICATE_STEPS}, NEW word \in Words,
         Begin(i, steps, serial, word)
  PROVE  Inv'
<1>1. /\ UNCHANGED <<task, ended, tasks, settled, reading, phase>> /\ phase = "rest" /\ task = {}
      /\ Moved(serial, StartsRun)
  BY DEF ActsOn, work, Busy
<1>2. PICK new : new = SequenceOn(i, steps, serial)
  OBVIOUS
<1>3. OneRowMore /\ sequence' = {new} /\ new \in Sequence
  BY <1>1, <1>2, BeginStep DEF Inv, Moved
<1>4. new.waitingOn = 0 /\ new.serial = serial /\ new.next = 1 /\ new.run = Len(rows) + 1
        /\ WithinSteps(new)
  BY <1>2 DEF SequenceOn, WithinSteps
<1>5. Len(rows) \in Nat /\ DOMAIN rows = 1..Len(rows) /\ tasks \in Nat
  BY DEF Inv, TypeOK
<1>6. TypeOK'
  BY <1>1, <1>3 DEF Inv, TypeOK, Moved, OneRowMore
<1>7. OneOfEach'
  BY <1>1, <1>3, <1>4, <1>5 DEF Inv, OneOfEach, Moved, OneRowMore
<1>8. Followed'
  <2>1. ASSUME NEW v \in DOMAIN versions', versions'[v].serial = serial
        PROVE  MayFollow(versions'[v], By(new.run, new.next))
    <3>1. v = cursor'
      BY <1>1, <2>1 DEF Moved, SerialsName, Here
    <3> QED
      BY <1>1, <1>4, <3>1, AuthorsTyped DEF Moved, MayFollow, Here, By, Inv
  <2> QED
    BY <1>1, <1>3, <1>4, <2>1 DEF Followed, MayFollow
<1>9. Untold'
  BY <1>3, <1>4 DEF OneRowMore, Untold, WithinSteps, IsDrop
<1> QED
  BY <1>1, <1>6, <1>7, <1>8, <1>9 DEF Inv, Moved

(* A version is pushed that no sequence made or began from.                *)
LEMMA PushedStep ==
  ASSUME Inv, ActsOn, Loaded, ~Busy, UNCHANGED <<work, sequence, rows>>,
         made' \in Nat, focus' \in Items \cup {0},
         NEW bench \in Benches, Push(bench, Others)
  PROVE  Inv'
<1>1. /\ UNCHANGED <<task, ended, tasks, settled, reading, phase, sequence, rows>>
      /\ phase = "rest" /\ task = {}
  BY DEF ActsOn, work, Busy
<1>2. Moved(serials + 1, Others)
  BY PushMoves, AuthorsTyped DEF Inv
<1>3. TypeOK'
  BY <1>1, <1>2 DEF Inv, TypeOK, Moved
<1>4. OneOfEach'
  <2>1. \A s \in sequence : s.serial \in Nat /\ s.serial <= serials /\ serials \in Nat
    BY DEF Inv, OneOfEach, TypeOK, Sequence
  <2> QED
    BY <1>1, <1>2, <2>1 DEF Inv, OneOfEach, Moved
<1>5. Followed'
  <2>1. ASSUME NEW s \in sequence, s.waitingOn = 0, NEW v \in DOMAIN versions',
               versions'[v].serial = s.serial
        PROVE  MayFollow(versions'[v], By(s.run, s.next))
    BY <2>1, PushIsNew, AuthorsTyped DEF Inv
  <2> QED
    BY <1>1, <2>1, NoneLanded DEF Followed, MayFollow
<1>6. Untold'
  BY <1>1 DEF Inv, Untold
<1> QED
  BY <1>2, <1>3, <1>4, <1>5, <1>6 DEF Inv, Moved

LEMMA MovePatchStep == ASSUME Inv, ActsOn, MovePatch PROVE Inv'
<1>1. /\ focus # 0 /\ ~Busy /\ UNCHANGED work /\ Loaded
      /\ made' \in Nat /\ focus' \in Items \cup {0} /\ focus \in Items
  BY DEF MovePatch, Inv, OneOfEach, TypeOK
<1>2. PICK moved : moved = [Here.bench EXCEPT ![focus] = serials + 1]
  OBVIOUS
<1>3. moved \in Benches
  BY <1>1, <1>2, BenchesMade
<1>4. CASE Push(moved, StartsRun) /\ StartMove(focus, serials + 1)
  <2>1. PICK word \in Words : Begin(focus, TILING_STEPS, serials + 1, word)
    BY <1>4 DEF StartMove, Words
  <2>2. Moved(serials + 1, StartsRun)
    BY <1>1, <1>3, <1>4, PushMoves, AuthorsTyped DEF Inv
  <2> QED
    BY <1>1, <2>1, <2>2, BegunStep
<1>5. CASE Push(moved, Others) /\ UNCHANGED <<sequence, rows>>
  BY <1>1, <1>3, <1>5, PushedStep DEF work
<1> QED
  BY <1>2, <1>4, <1>5 DEF MovePatch

(* The copy and, behind it, its unpinned form.                             *)
TwoPushed(a, b) ==
  /\ versions' \in Seq(Version) /\ serials' = serials + 2 /\ cursor' = cursor + 2
  /\ DOMAIN versions' = 1..(cursor + 2) /\ Loaded' /\ Here' = b
  /\ \A v \in 1..cursor : v \in DOMAIN versions /\ versions'[v] = versions[v]
  /\ versions'[cursor + 1] = a /\ versions'[cursor + 2] = b

LEMMA PushTwoStep ==
  ASSUME Inv, Loaded, NEW a \in Version, NEW b \in Version,
         serials' = serials + 2, cursor' = cursor + 2,
         versions' = SubSeq(versions, 1, cursor) \o <<a, b>>
  PROVE  TwoPushed(a, b)
<1>1. versions \in Seq(Version) /\ cursor \in 1..Len(versions)
  BY DEF Inv, TypeOK, OneOfEach
<1>2. PICK kept : kept = SubSeq(versions, 1, cursor)
  OBVIOUS
<1>3. kept \in Seq(Version) /\ Len(kept) = cursor
        /\ \A v \in 1..cursor : kept[v] = versions[v]
  BY <1>1, <1>2
<1>4. /\ versions' \in Seq(Version) /\ Len(versions') = cursor + 2
      /\ \A v \in 1..cursor : versions'[v] = kept[v]
      /\ versions'[cursor + 1] = a /\ versions'[cursor + 2] = b
  BY <1>1, <1>2, <1>3
<1>5. DOMAIN versions' = 1..(cursor + 2) /\ versions' # <<>>
  BY <1>1, <1>4
<1> QED
  BY <1>1, <1>3, <1>4, <1>5 DEF TwoPushed, Loaded, Here

LEMMA PushedTwice ==
  ASSUME Inv, Loaded, NEW a \in Version, NEW b \in Version, TwoPushed(a, b),
         a.serial = serials + 1, b.serial = serials + 2, a.by.at = 0, b.by = StartsRun
  PROVE  Moved(serials + 2, StartsRun)
<1>1. versions \in Seq(Version) /\ cursor \in 1..Len(versions) /\ serials \in Nat
  BY DEF Inv, TypeOK, OneOfEach
<1>4. versions' \in Seq(Version) /\ serials' = serials + 2 /\ cursor' = cursor + 2
        /\ versions'[cursor + 1] = a /\ versions'[cursor + 2] = b
  BY DEF TwoPushed
<1>5. /\ DOMAIN versions' = 1..(cursor + 2) /\ Loaded' /\ Here' = b
      /\ \A v \in 1..cursor : v \in DOMAIN versions /\ versions'[v] = versions[v]
  BY DEF TwoPushed
<1>6. \A v \in DOMAIN versions' : v \in 1..cursor \/ v = cursor + 1 \/ v = cursor + 2
  BY <1>1, <1>5
<1>7. \A v \in 1..cursor : versions'[v].serial \in Nat /\ versions'[v].serial <= serials
  <2>1. \A v \in DOMAIN versions : versions[v] \in Version /\ versions[v].serial <= serials
    BY <1>1 DEF Inv, SerialsName
  <2>2. \A v \in 1..cursor : versions[v].serial \in Nat /\ versions[v].serial <= serials
    BY <1>5, <2>1 DEF Version
  <2> QED
    BY <1>5, <2>2
<1>8. SerialsName'
  <2>1. \A v, w \in 1..cursor : versions'[v].serial = versions'[w].serial => v = w
    BY <1>5 DEF Inv, SerialsName
  <2>2. \A v, w \in DOMAIN versions' :
          /\ versions'[v].serial <= serials'
          /\ versions'[v].serial = versions'[w].serial => v = w
    <3>1. versions'[cursor + 1].serial = serials + 1 /\ versions'[cursor + 2].serial = serials + 2
      BY <1>4
    <3>2. serials' = serials + 2 /\ serials \in Nat /\ cursor \in Nat
      BY <1>1, <1>4
    <3> QED
      BY <1>6, <1>7, <2>1, <3>1, <3>2
  <2> QED
    BY <2>2 DEF SerialsName
<1>9. Chained'
  <2>1. b.by.at = 0
    BY AuthorsTyped DEF Inv
  <2>2. ASSUME NEW v \in DOMAIN versions', v > 1, versions'[v].by.at > 0
        PROVE  MayFollow(versions'[v - 1], versions'[v].by)
    <3>1. v # cursor + 1
      BY <1>4, <2>2
    <3>2. v # cursor + 2
      BY <1>4, <2>1, <2>2
    <3>3. v \in 1..cursor
      BY <1>6, <3>1, <3>2
    <3>4. cursor \in Nat
      BY <1>1
    <3>5. v - 1 \in 1..cursor
      BY <2>2, <3>3, <3>4
    <3> QED
      BY <1>5, <2>2, <3>3, <3>5 DEF Inv, Chained
  <2> QED
    BY <2>2 DEF Chained, MayFollow
<1> QED
  BY <1>1, <1>4, <1>5, <1>8, <1>9 DEF Moved

LEMMA DuplicateStep == ASSUME Inv, ActsOn, Duplicate PROVE Inv'
<1> DEFINE copied(serial) ==
             [i \in DOMAIN Here.bench \cup {made + 1} |->
                IF i = made + 1 THEN serial ELSE Here.bench[i]]
<1>1. /\ focus # 0 /\ ~Busy /\ UNCHANGED work /\ Loaded
      /\ made \in Nat /\ made + 1 \in Items /\ made' = made + 1 /\ focus' = made + 1
  BY TilingAssumption DEF Duplicate, Inv, OneOfEach, TypeOK, Items
<1>2. made' \in Nat /\ focus' \in Items \cup {0} /\ serials \in Nat
  BY <1>1 DEF Inv, TypeOK
<1>3. ASSUME NEW serial \in Nat PROVE copied(serial) \in Benches
  <2>1. PICK D : D = DOMAIN Here.bench \cup {made + 1}
    OBVIOUS
  <2>2. D \in SUBSET Items /\ copied(serial) \in [D -> Nat]
    BY <1>1, <2>1, HereTyped DEF Inv
  <2> QED
    BY <2>2, BenchTyped
<1>4. Others \in Author /\ StartsRun \in Author /\ Others.at = 0 /\ StartsRun.at = 0
  BY AuthorsTyped DEF Inv
<1>5. ASSUME NEW serial \in Nat, StartDrop(made + 1, serial), Moved(serial, StartsRun)
      PROVE  Inv'
  <2>1. Begin(made + 1, DUPLICATE_STEPS, serial, "stopped") /\ "stopped" \in Words
    BY <1>5 DEF StartDrop, Words
  <2> QED
    BY <1>1, <1>2, <1>5, <2>1, BegunStep
<1>6. CASE Push(copied(serials + 1), StartsRun) /\ StartDrop(made + 1, serials + 1)
  <2>1. Moved(serials + 1, StartsRun)
    BY <1>1, <1>2, <1>3, <1>4, <1>6, PushMoves
  <2> QED
    BY <1>2, <1>5, <1>6, <2>1
<1>7. ASSUME NEW a, NEW b,
             a = [serial |-> serials + 1, bench |-> copied(serials + 1), by |-> Others],
             b = [serial |-> serials + 2, bench |-> copied(serials + 2), by |-> StartsRun],
             serials' = serials + 2, cursor' = cursor + 2,
             versions' = SubSeq(versions, 1, cursor) \o <<a, b>>,
             StartDrop(made + 1, serials + 2)
      PROVE  Inv'
  <2>1. a \in Version /\ b \in Version
    <3>1. copied(serials + 1) \in Benches /\ copied(serials + 2) \in Benches
      BY <1>2, <1>3
    <3> HIDE DEF copied
    <3> QED
      BY <1>2, <1>4, <1>7, <3>1 DEF Version
  <2>2. TwoPushed(a, b)
    BY <1>1, <1>7, <2>1, PushTwoStep
  <2>3. a.serial = serials + 1 /\ b.serial = serials + 2 /\ a.by.at = 0 /\ b.by = StartsRun
    BY <1>4, <1>7
  <2>4. Moved(serials + 2, StartsRun)
    BY <1>1, <2>1, <2>2, <2>3, PushedTwice
  <2> QED
    BY <1>2, <1>5, <1>7, <2>4
<1>8. CASE Push(copied(serials + 1), Others) /\ UNCHANGED <<sequence, rows>>
  BY <1>1, <1>2, <1>3, <1>8, PushedStep DEF work
<1> QED
  BY <1>6, <1>7, <1>8 DEF Duplicate

LEMMA OtherStepStep == ASSUME Inv, ActsOn, OtherStep PROVE Inv'
<1>1. /\ Loaded /\ ~Busy /\ UNCHANGED <<work, sequence, rows>>
      /\ made' \in Nat /\ focus \in Items \cup {0}
  BY DEF OtherStep, Inv, TypeOK
<1>2. DOMAIN Here.bench \in SUBSET Items /\ Here.bench \in [DOMAIN Here.bench -> Nat]
  BY <1>1, HereTyped DEF Inv
<1>3. PICK bench \in
        {Here.bench, [i \in DOMAIN Here.bench |-> serials + 1]}
          \cup {[Here.bench EXCEPT ![i] = serials + 1] : i \in DOMAIN Here.bench}
          \cup {[j \in DOMAIN Here.bench \ {i} |-> Here.bench[j]] : i \in DOMAIN Here.bench} :
        Push(bench, Others) /\ Settle(bench)
  BY DEF OtherStep
<1>4. bench \in Benches
  <2>1. CASE bench = Here.bench
    BY <1>2, <2>1, BenchTyped
  <2>2. CASE bench = [i \in DOMAIN Here.bench |-> serials + 1]
    BY <1>1, <2>2, BenchesMade
  <2>3. CASE \E i \in DOMAIN Here.bench : bench = [Here.bench EXCEPT ![i] = serials + 1]
    BY <1>1, <2>3, BenchesMade
  <2>4. ASSUME NEW i \in DOMAIN Here.bench,
               bench = [j \in DOMAIN Here.bench \ {i} |-> Here.bench[j]]
        PROVE  bench \in Benches
    <3>1. PICK D : D = DOMAIN Here.bench \ {i}
      OBVIOUS
    <3>2. D \in SUBSET Items /\ bench \in [D -> Nat]
      BY <1>2, <2>4, <3>1
    <3> QED
      BY <3>2, BenchTyped
  <2> QED
    BY <1>3, <2>1, <2>2, <2>3, <2>4
<1>5. focus' \in Items \cup {0}
  BY <1>1, <1>3 DEF Settle
<1> QED
  BY <1>1, <1>3, <1>4, <1>5, PushedStep

(* Acts that push nothing and leave the sequence alone.                    *)
LEMMA QuietActStep ==
  ASSUME Inv, ActsOn, UNCHANGED <<sequence, rows>>, made' = made, focus' \in Items \cup {0},
         UNCHANGED <<versions, serials>> \/ (versions' = <<>> /\ serials' = serials),
         cursor' \in Nat, Loaded' => cursor' \in DOMAIN versions,
         focus' # 0 => Loaded',
         \/ UNCHANGED work
         \/ /\ UNCHANGED tasks /\ task' = {}
            /\ ended' \in [id : Nat, ok : BOOLEAN] /\ ended'.id <= tasks /\ ended'.ok = FALSE,
         task' # {} => Loaded' /\ UNCHANGED history
  PROVE  Inv'
<1>1. /\ UNCHANGED <<settled, reading, phase, sequence, rows, serials, tasks>> /\ phase = "rest"
      /\ task' \in {task, {}} /\ versions' \in {versions, <<>>}
      /\ task' # {} => ended' = ended
      /\ made' = made /\ serials \in Nat
  BY DEF ActsOn, work, Inv, TypeOK
<1>2. ended' \in [id : Nat, ok : BOOLEAN] /\ ended'.id <= tasks
      /\ (ended' = ended \/ ended'.ok = FALSE)
  BY DEF Inv, TypeOK, OneOfEach, work
<1>3. TypeOK'
  <2>1. versions' \in Seq(Version)
    <3>1. <<>> \in Seq(Version) /\ versions \in Seq(Version)
      BY DEF Inv, TypeOK
    <3>2. versions' = versions \/ versions' = <<>>
      BY <1>1
    <3> QED
      BY <3>1, <3>2
  <2>2. task' \in SUBSET LockingTask /\ tasks' \in Nat
    BY <1>1 DEF Inv, TypeOK
  <2> QED
    BY <1>1, <1>2, <2>1, <2>2 DEF Inv, TypeOK
<1>4. OneOfEach'
  BY <1>1, <1>2 DEF Inv, OneOfEach, Loaded
<1>5. SerialsName' /\ Chained'
  BY <1>1 DEF Inv, SerialsName, Chained, MayFollow
<1>6. Followed'
  <2>1. ASSUME NEW t \in task', t.by.at > 0
        PROVE  MayFollow(Here', t.by) /\ ~(settled[t.item].track # Here'.bench[t.item])
    <3>1. Here' = Here /\ t \in task
      BY <1>1, <2>1, HistoryStays
    <3> QED
      BY <2>1, <3>1 DEF Inv, Followed, Evaluating
  <2>2. ASSUME NEW s \in sequence, s.waitingOn # 0
        PROVE  ended' # [id |-> s.waitingOn, ok |-> TRUE]
    BY <1>1, <1>2, <2>2, NoneLanded
  <2>3. \A s \in sequence : s.waitingOn = 0 =>
          \A v \in DOMAIN versions' : versions'[v].serial = s.serial =>
            MayFollow(versions'[v], By(s.run, s.next))
    BY <1>1 DEF Inv, Followed
  <2>4. \A s \in sequence, t \in task' : t.id = s.waitingOn => t.by = By(s.run, s.next)
    BY <1>1 DEF Inv, Followed
  <2> QED
    BY <1>1, <2>1, <2>2, <2>3, <2>4 DEF Followed, MayFollow, Evaluating
<1>7. Untold'
  BY <1>1 DEF Inv, Untold
<1> QED
  BY <1>3, <1>4, <1>5, <1>6, <1>7 DEF Inv

LEMMA JumpStep == ASSUME Inv, ActsOn, Jump PROVE Inv'
<1>1. PICK v \in DOMAIN versions \ {cursor} : cursor' = v /\ Settle(versions[v].bench)
  BY DEF Jump
<1>2. v \in Nat /\ Loaded /\ focus \in Items \cup {0}
  BY DEF Inv, TypeOK, Loaded
<1>3. task = {} /\ Loaded' /\ UNCHANGED <<work, versions, serials, made, sequence, rows>>
  BY <1>2 DEF Jump, Busy, Loaded
<1>4. focus' \in Items \cup {0} /\ task' = {} /\ cursor' \in Nat
  BY <1>1, <1>2, <1>3 DEF Settle, work
<1> QED
  BY <1>1, <1>2, <1>3, <1>4, QuietActStep

LEMMA FocusStep == ASSUME Inv, ActsOn, Focus PROVE Inv'
<1>1. Loaded /\ UNCHANGED history /\ UNCHANGED work /\ UNCHANGED <<versions, cursor, serials>>
  BY DEF Focus, history
<1>2. focus' \in Items \cup {0} /\ cursor' \in Nat /\ Loaded' /\ cursor' \in DOMAIN versions
  BY <1>1, HereTyped, HistoryStays DEF Focus, Inv, TypeOK, OneOfEach
<1> QED
  BY <1>1, <1>2, QuietActStep DEF Focus

LEMMA CancelQueuedStep == ASSUME Inv, ActsOn, CancelQueued PROVE Inv'
<1>1. /\ ended' \in [id : Nat, ok : BOOLEAN] /\ ended'.id <= tasks /\ ended'.ok = FALSE
      /\ task' = {}
  BY DEF CancelQueued, Inv, TypeOK, OneOfEach, LockingTask
<1>2. UNCHANGED <<versions, cursor, serials, made, focus, tasks, sequence, rows>>
        /\ UNCHANGED history
  BY DEF CancelQueued, history
<1>3. cursor' \in Nat /\ focus' \in Items \cup {0} /\ (focus' # 0 => Loaded')
        /\ (Loaded' => cursor' \in DOMAIN versions)
  BY <1>2, HistoryStays DEF Inv, TypeOK, OneOfEach
<1> QED
  BY <1>1, <1>2, <1>3, QuietActStep

LEMMA CloseNodeStep == ASSUME Inv, ActsOn, CloseNode PROVE Inv'
<1>1. versions' = <<>> /\ focus' = 0 /\ task = {} /\ ~Loaded'
  BY DEF CloseNode, Busy, Loaded
<1>2. UNCHANGED <<cursor, serials, made, task, ended, tasks, sequence, rows>> /\ UNCHANGED work
  BY DEF CloseNode, work
<1> QED
  BY <1>1, <1>2, QuietActStep DEF Inv, TypeOK

LEMMA TurnOffStep == ASSUME Inv, ActsOn, TurnOff PROVE Inv'
<1>1. TilesOn /\ "stopped" \in Words /\ UNCHANGED history /\ UNCHANGED work
  BY DEF TurnOff, ActsOn, TilesOn, Words
<1>2. PICK q \in sequence : sequence' = {} /\ rows' = Told(q.run, "stopped")
  BY DEF TurnOff, Stop
<1> QED
  BY <1>1, <1>2, EndStep

LEMMA StartOtherStep == ASSUME Inv, ActsOn, StartOther PROVE Inv'
<1>1. /\ UNCHANGED <<versions, cursor, serials, ended, made, focus, settled, reading, sequence,
                     rows, phase>>
      /\ UNCHANGED history /\ Loaded /\ phase = "rest" /\ tasks' = tasks + 1 /\ tasks \in Nat
      /\ ended.id \in Nat /\ ended.id <= tasks
  BY DEF StartOther, StartTask, ActsOn, history, Inv, TypeOK, OneOfEach
<1>2. PICK i \in DOMAIN Here.bench \cup {0} :
        task' = {[id |-> tasks + 1, item |-> i, by |-> Others, at |-> "queued"]}
  BY DEF StartOther, StartTask
<1>3. i \in Nat
  BY <1>1, HereTyped DEF Inv, Items
<1>4. PICK t : t = [id |-> tasks + 1, item |-> i, by |-> Others, at |-> "queued"]
  OBVIOUS
<1>5. task' = {t} /\ t \in LockingTask /\ t.id = tasks + 1 /\ t.by.at = 0
  BY <1>1, <1>2, <1>3, <1>4, AuthorsTyped DEF LockingTask, Inv
<1>6. TypeOK'
  BY <1>1, <1>5 DEF Inv, TypeOK
<1>7. \A s \in sequence : s.waitingOn \in Nat /\ s.waitingOn <= tasks
  BY DEF Inv, OneOfEach, TypeOK, Sequence
<1>8. OneOfEach'
  BY <1>1, <1>5, <1>7, HistoryStays DEF Inv, OneOfEach
<1>9. SerialsName' /\ Chained'
  BY <1>1, HistoryStays DEF Inv
<1>10. Followed'
  BY <1>1, <1>5, <1>7, NoneLanded DEF Inv, Followed, MayFollow
<1>11. Untold'
  BY <1>1 DEF Inv, Untold
<1> QED
  BY <1>6, <1>8, <1>9, <1>10, <1>11 DEF Inv

LEMMA ActStep == ASSUME Inv, Act PROVE Inv'
<1>1. ActsOn
  BY DEF Act, ActsOn
<1> QED
  BY <1>1, MovePatchStep, DuplicateStep, OtherStepStep, JumpStep, FocusStep, TurnOffStep,
     StartOtherStep, CancelQueuedStep, CloseNodeStep DEF Act

-----------------------------------------------------------------------------
(* Every reachable state.                                                  *)

LEMMA InitHolds == Init => Inv
<1> SUFFICES ASSUME Init PROVE Inv
  OBVIOUS
<1>1. [i \in {1} |-> 1] \in Benches
  <2>1. {1} \in SUBSET Items
    BY TilingAssumption DEF Items
  <2> QED
    BY <2>1, BenchTyped
<1>2. PICK first : first = [serial |-> 1, by |-> Others, bench |-> [i \in {1} |-> 1]]
  OBVIOUS
<1>3. Others \in Author /\ Others.at = 0
  BY DEF Others, By, Author
<1>4. first \in Version /\ first.serial = 1 /\ first.by = Others
  BY <1>1, <1>2, <1>3 DEF Version
<1>5. versions = <<first>> /\ cursor = 1 /\ serials = 1
  BY <1>2 DEF Init
<1>6. TypeOK
  <2>1. versions \in Seq(Version) /\ rows \in Seq(Seq(Words)) /\ 1 \in Items
    BY <1>4, <1>5, TilingAssumption DEF Init, Items
  <2>2. settled \in [Items -> [track : Nat, worked : BOOLEAN, out : BOOLEAN]]
    BY DEF Init
  <2> QED
    BY <2>1, <2>2 DEF Init, TypeOK
<1>7. OneOfEach
  BY <1>5 DEF Init, OneOfEach, Loaded
<1>8. SerialsName /\ Chained
  BY <1>3, <1>4, <1>5 DEF SerialsName, Chained
<1>9. Followed /\ Untold
  BY DEF Init, Followed, Untold
<1> QED
  BY <1>6, <1>7, <1>8, <1>9 DEF Inv

LEMMA StutterHolds == ASSUME Inv, UNCHANGED vars PROVE Inv'
<1>1. UNCHANGED <<versions, cursor, serials, made, focus, task, ended, tasks, settled, reading,
                  sequence, rows, phase>> /\ UNCHANGED history
  BY DEF vars, history, work
<1>2. TypeOK'
  BY <1>1 DEF Inv, TypeOK
<1>3. OneOfEach' /\ SerialsName' /\ Chained'
  BY <1>1, HistoryStays DEF Inv, OneOfEach
<1>4. Followed'
  BY <1>1, HistoryStays DEF Inv, Followed, MayFollow, Evaluating
<1>5. Untold'
  BY <1>1 DEF Inv, Untold
<1> QED
  BY <1>2, <1>3, <1>4, <1>5 DEF Inv

(* What holds at first holds after every step of a frame, of a worker, and *)
(* of the person.                                                          *)
THEOREM InvAlways == Spec => []Inv
<1>1. Inv /\ [Next]_vars => Inv'
  BY EvaluateStep, EvaluationAnswersStep, WorkerStep, BeginFrameStep, TileStep, ActStep,
     StutterHolds DEF Next, FrameStep
<1> QED
  BY <1>1, InitHolds, PTL DEF Spec

(* The rows of an ended sequence, and of one that goes on, stay.            *)
LEMMA GoesOnUntold ==
  ASSUME Inv, rows' = rows, \A s \in sequence : UnderWay(s.run)'
  PROVE  EndsAreTold
<1>1. \A s \in sequence : rows[s.run] = <<>>
  BY DEF Inv, TypeOK, OneOfEach, Untold
<1> QED
  BY <1>1 DEF EndsAreTold

(* One row more ends the sequence under way.                               *)
LEMMA EndToldByRow ==
  ASSUME Inv, NEW q \in sequence, NEW word \in Words, sequence' = {},
         rows' = Told(q.run, word)
  PROVE  EndsAreTold
<1>1. q.run \in DOMAIN rows /\ (\A s \in sequence : s = q) /\ OneWordMore(q.run)
  BY ToldStep DEF Inv, OneOfEach
<1>2. Len(rows'[q.run]) = 1
  BY <1>1 DEF Inv, Untold, OneWordMore
<1>3. \A r \in DOMAIN rows : ~UnderWay(r) => rows'[r] = rows[r]
  BY <1>1 DEF UnderWay, OneWordMore
<1>4. \A s \in sequence : ~UnderWay(s.run)'
  BY DEF UnderWay
<1> QED
  BY <1>1, <1>2, <1>3, <1>4 DEF EndsAreTold

(* So does the row that a new sequence begins with.                        *)
LEMMA EndToldByBegin ==
  ASSUME Inv, NEW i \in Items, NEW steps \in {TILING_STEPS, DUPLICATE_STEPS},
         NEW serial \in Nat, NEW word \in Words, Begin(i, steps, serial, word)
  PROVE  EndsAreTold
<1>1. OneRowMore /\ sequence' = {SequenceOn(i, steps, serial)}
  BY BeginStep DEF Inv
<1>2. SequenceOn(i, steps, serial).run = Len(rows) + 1
  BY DEF SequenceOn
<1>3. Len(rows) + 1 \notin DOMAIN rows
  BY DEF Inv, TypeOK
<1>4. \A s \in sequence : s.run \in DOMAIN rows /\ Len(rows[s.run]) = 0
  BY DEF Inv, OneOfEach, Untold
<1>5. ASSUME NEW s \in sequence PROVE ~UnderWay(s.run)' /\ Len(rows'[s.run]) = 1
  <2>1. s.run \in DOMAIN rows /\ Len(rows[s.run]) = 0 /\ s.run # Len(rows) + 1
    BY <1>3, <1>4
  <2>2. ~UnderWay(s.run)'
    BY <1>1, <1>2, <2>1 DEF UnderWay
  <2>3. Len(rows'[s.run]) = Len(rows[s.run]) + 1
    BY <1>1, <2>1 DEF OneRowMore
  <2> QED
    BY <2>1, <2>2, <2>3
<1> QED
  BY <1>1, <1>5 DEF EndsAreTold, OneRowMore

(* A step that is taken ends the sequence with a row, or it is the drop    *)
(* of a copy with nothing out.                                             *)
LEMMA StepTold ==
  ASSUME Inv, phase = "tile", NEW q \in sequence, NEW s, s \in Sequence, s.run = q.run,
         StepOf(s) = "DropOut" => s = q /\ IsDrop(q) /\ ~Lost(q) /\ ~Overtaken(q),
         GoOn(s)
  PROVE  EndsAreTold
<1>1. CASE MustWait(s)
  <2>1. sequence' = {s} /\ rows' = rows /\ \A r \in sequence : r = q
    BY <1>1 DEF GoOn, Inv, OneOfEach
  <2> QED
    BY <2>1, GoesOnUntold DEF UnderWay
<1>2. CASE Stop(s)
  BY <1>2, EndToldByRow DEF Stop, Words
<1>3. CASE Finish(s)
  BY <1>3, EndToldByRow DEF Finish, Words
<1>4. CASE ~MustWait(s) /\ StepOf(s) = "DropOut" /\ NothingOut(s.item)
             /\ sequence' = {} /\ UNCHANGED <<history, rows>>
  <2>1. Skipped(q) /\ UNCHANGED history /\ rows' = rows /\ \A r \in sequence : r = q
    BY <1>4 DEF Skipped, MustWait, history, Inv, OneOfEach
  <2>2. rows[q.run] = <<>>
    BY DEF Inv, TypeOK, OneOfEach, Untold
  <2>3. ~UnderWay(q.run)'
    BY <1>4 DEF UnderWay
  <2> QED
    BY <2>1, <2>2, <2>3 DEF EndsAreTold
<1>5. CASE sequence' = {[s EXCEPT !.waitingOn = tasks + 1]} /\ UNCHANGED <<history, rows>>
  <2>1. PICK w : w = [s EXCEPT !.waitingOn = tasks + 1]
    OBVIOUS
  <2>2. w.run = q.run /\ sequence' = {w} /\ rows' = rows /\ \A r \in sequence : r = q
    BY <1>5, <2>1 DEF Sequence, Inv, OneOfEach
  <2> QED
    BY <2>2, GoesOnUntold DEF UnderWay
<1>6. CASE ~MustWait(s) /\ TakeStep(s)
  <2>1. CASE StepOf(s) = "Commit" /\ CommitStep(s)
    BY <1>2, <1>3, <2>1 DEF CommitStep
  <2>2. CASE StepOf(s) = "DropOut" /\ DropStep(s)
    BY <1>2, <1>3, <1>4, <1>6, <2>2 DEF DropStep
  <2>3. CASE StartStep(s)
    BY <1>2, <1>5, <2>3 DEF StartStep
  <2> QED
    BY <1>6, <2>1, <2>2, <2>3 DEF TakeStep
<1> QED
  BY <1>1, <1>6 DEF GoOn

LEMMA DriveTold == ASSUME Inv, phase = "tile", NEW q \in sequence, Drive(q) PROVE EndsAreTold
<1>1. q \in Sequence
  BY DEF Inv, TypeOK
<1>2. CASE StopNow(q)
  BY <1>2, EndToldByRow DEF StopNow, Stop, Words
<1>3. CASE UNCHANGED <<sequence, rows>>
  BY <1>3, GoesOnUntold DEF UnderWay
<1>4. CASE ~Lost(q) /\ q.waitingOn # 0 /\ GoOn(Landed(q))
  <2>1. PICK n, h : n = q.next + 1 /\ h = Here.serial
    OBVIOUS
  <2>2. PICK s : s = GoneOn(q, n, h)
    OBVIOUS
  <2>3. s = Landed(q) /\ GoOn(s)
    BY <1>4, <2>1, <2>2 DEF Landed, GoneOn
  <2>4. q.steps = TILING_STEPS /\ q.next \in 1..5
    BY <1>1, <1>4 DEF Inv, Untold, WithinSteps, IsDrop, Sequence
  <2>5. n \in 2..6 /\ h \in Nat
    BY <1>4, <2>1, <2>4, HereTyped DEF Lost, OnBench, Inv, Version
  <2>6. s \in Sequence /\ s.run = q.run /\ s.steps = TILING_STEPS /\ s.next \in 2..6
    <3>1. n \in Nat \ {0}
      BY <2>5
    <3>2. /\ GoneOn(q, n, h) \in Sequence /\ GoneOn(q, n, h).run = q.run
          /\ GoneOn(q, n, h).steps = q.steps /\ GoneOn(q, n, h).next = n
      BY <1>1, <2>5, <3>1, SequenceLanded
    <3> QED
      BY <2>2, <2>4, <2>5, <3>2
  <2>7. StepOf(s) # "DropOut"
    BY <2>6 DEF StepOf, TILING_STEPS
  <2> QED
    BY <2>3, <2>6, <2>7, StepTold
<1>5. CASE ~Lost(q) /\ ~Overtaken(q) /\ GoOn(q)
  <2>1. StepOf(q) = "DropOut" => IsDrop(q)
    BY <1>1 DEF StepOf, IsDrop, TILING_STEPS, Inv, Untold, WithinSteps, Sequence
  <2> QED
    BY <1>1, <1>5, <2>1, StepTold
<1> QED
  BY <1>2, <1>3, <1>4, <1>5 DEF Drive

LEMMA ActTold == ASSUME Inv, Act PROVE EndsAreTold
<1>1. CASE UNCHANGED <<sequence, rows>>
  BY <1>1, GoesOnUntold DEF UnderWay
<1>2. serials \in Nat /\ made \in Nat /\ focus \in Items \cup {0}
  BY DEF Inv, TypeOK
<1>3. CASE MovePatch
  <2>1. "stopped" \in Words /\ "restarted" \in Words
    BY DEF Words
  <2> QED
    BY <1>1, <1>2, <1>3, <2>1, EndToldByBegin DEF MovePatch, StartMove
<1>4. CASE Duplicate
  <2>1. made + 1 \in Items /\ serials + 1 \in Nat /\ serials + 2 \in Nat /\ "stopped" \in Words
    BY <1>2, <1>4, TilingAssumption DEF Duplicate, Items, Words
  <2> QED
    BY <1>1, <1>4, <2>1, EndToldByBegin DEF Duplicate, StartDrop
<1>5. CASE TurnOff
  BY <1>5, EndToldByRow DEF TurnOff, Stop, Words
<1> QED
  BY <1>1, <1>3, <1>4, <1>5 DEF Act, OtherStep, Jump, Focus, StartOther, CancelQueued, CloseNode

(* No sequence is dropped without its row and none gets two, however many  *)
(* are started, restarted, overtaken, or cut off by a close; the one that  *)
(* ends unmentioned is a drop that a settled evaluation left nothing to do.*)
THEOREM NoSequenceEverVanishes == Spec => NoSequenceVanishes
<1>1. ASSUME Inv, Next PROVE EndsAreTold
  <2>1. CASE UNCHANGED <<sequence, rows>>
    BY <1>1, <2>1, GoesOnUntold DEF UnderWay
  <2>2. CASE Tile
    BY <1>1, <2>1, <2>2, DriveTold DEF Tile
  <2> QED
    BY <1>1, <2>1, <2>2, ActTold
       DEF Next, FrameStep, BeginFrame, Evaluate, TaskStarts, TaskReports, EvaluationAnswers
<1>2. Inv /\ [Next]_vars => [EndsAreTold]_vars
  BY <1>1
<1> QED
  BY <1>2, InvAlways, PTL DEF Spec, NoSequenceVanishes

(* A sequence's versions follow its own versions and no others, and its    *)
(* step works on a track that was read, however long the history is and    *)
(* whoever else edits it.                                                  *)
THEOREM StepsAlwaysFollow == Spec => []StepsFollowSteps
<1>1. ASSUME Inv PROVE StepsFollowSteps
  <2>1. \A t \in task : t.by.at > 0 => ~Evaluating(t.item)
    BY <1>1 DEF Inv, Followed
  <2>2. Len(versions) \in Nat /\ DOMAIN versions = 1..Len(versions)
    BY <1>1 DEF Inv, TypeOK
  <2>3. \A v \in 2..Len(versions) : v \in DOMAIN versions /\ v > 1
    BY <2>2
  <2> QED
    BY <1>1, <2>1, <2>3 DEF StepsFollowSteps, Inv, Chained, MayFollow
<1> QED
  BY <1>1, InvAlways, PTL

=============================================================================
