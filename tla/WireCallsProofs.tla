---------------------------- MODULE WireCallsProofs ----------------------------
(***************************************************************************)
(* What WireCalls promises of the agent's calls, for any number of calls,  *)
(* tasks, photographs and input commands, and any ring of finished tasks.  *)
(*                                                                         *)
(* A call is in one place at a time and calls are applied in the order     *)
(* they came, so a call that is deferred, queued or running is older than  *)
(* any still to be applied (Applied).  On that rest the order of the input *)
(* commands, what they hold, and what is true of an answer.                *)
(***************************************************************************)
EXTENDS WireCalls, SequenceTheorems, TLAPS

Call == [id : CallIds, kind : AllKinds, image : Images]

InOrder(s) == \A i, j \in DOMAIN s : i < j => s[i].id < s[j].id

(* The calls on their way are in the order they were made.                 *)
CallsInOrder ==
  /\ sent \in 0..MaxCalls
  /\ channel \in Seq(Call) /\ InOrder(channel)
  /\ batch \in Seq(Call) /\ InOrder(batch)
  /\ phase # "apply" => batch = <<>>
  /\ \A i \in DOMAIN batch, j \in DOMAIN channel : batch[i].id < channel[j].id
  /\ \A j \in DOMAIN channel : channel[j].id <= sent
  /\ \A i \in DOMAIN batch : batch[i].id <= sent

(* A call that has been applied is older than any that has not.            *)
Applied(id) ==
  /\ id \in Nat /\ id <= sent
  /\ \A i \in DOMAIN batch : id < batch[i].id
  /\ \A j \in DOMAIN channel : id < channel[j].id

-----------------------------------------------------------------------------
(* Calls on their way.                                                     *)

LEMMA Bounds == MaxCalls \in Nat /\ MaxForeign \in Nat /\ Kept \in Nat \ {0} /\ FirstImage \in Images
  BY WireAssumption

LEMMA AppendProps ==
  ASSUME NEW S, NEW s \in Seq(S), NEW e \in S
  PROVE  /\ Append(s, e) \in Seq(S)
         /\ DOMAIN Append(s, e) = 1..(Len(s) + 1) /\ DOMAIN s = 1..Len(s) /\ Len(s) \in Nat
         /\ \A i \in 1..Len(s) : Append(s, e)[i] = s[i]
         /\ Append(s, e)[Len(s) + 1] = e
  OBVIOUS

LEMMA TailProps ==
  ASSUME NEW S, NEW s \in Seq(S), s # <<>>
  PROVE  /\ Head(s) \in S /\ Head(s) = s[1] /\ 1 \in DOMAIN s
         /\ Tail(s) \in Seq(S)
         /\ \A i \in DOMAIN Tail(s) : i \in Nat /\ i # 0 /\ i + 1 \in DOMAIN s /\ Tail(s)[i] = s[i + 1]
         /\ \A i \in DOMAIN s : i # 1 => i - 1 \in DOMAIN Tail(s)
  OBVIOUS

LEMMA ElementProps ==
  ASSUME NEW S, NEW s \in Seq(S), NEW i \in DOMAIN s
  PROVE  s[i] \in S /\ i \in Nat /\ i # 0
  OBVIOUS

LEMMA CallProps ==
  ASSUME NEW s \in Seq(Call), NEW i \in DOMAIN s
  PROVE  s[i] \in Call /\ s[i].id \in Nat /\ s[i].id # 0 /\ i \in Nat /\ i <= Len(s) /\ Len(s) \in Nat
<1>1. s[i] \in Call /\ i \in Nat /\ i <= Len(s) /\ Len(s) \in Nat
  OBVIOUS
<1>2. s[i].id \in 1..MaxCalls
  BY <1>1 DEF Call, CallIds
<1> QED
  BY <1>1, <1>2, Bounds

LEMMA SendInOrder ==
  ASSUME CallsInOrder, NEW kind \in Kinds, NEW image \in Images, Send(kind, image)
  PROVE  CallsInOrder' /\ \A id : Applied(id) => Applied(id)'
<1>1. sent' = sent + 1 /\ sent' \in 1..MaxCalls /\ sent \in Nat
  BY Bounds DEF Send, CallsInOrder
<1>2. PICK c \in Call : c.id = sent' /\ channel' = Append(channel, c)
  <2>1. CallOf(sent + 1, kind, image) \in Call /\ CallOf(sent + 1, kind, image).id = sent'
    BY <1>1, WireAssumption DEF CallOf, Call, CallIds
  <2> QED
    BY <2>1 DEF Send
<1>3. UNCHANGED <<batch, phase>>
  BY DEF Send
<1>4. channel' \in Seq(Call) /\ \A j \in DOMAIN channel' :
        \/ j \in DOMAIN channel /\ channel'[j] = channel[j]
        \/ j = Len(channel) + 1 /\ channel'[j] = c
  BY <1>2, AppendProps DEF CallsInOrder
<1>5. \A j \in DOMAIN channel : channel[j].id \in Nat /\ channel[j].id <= sent /\ j \in Nat
        /\ j < Len(channel) + 1
  BY CallProps DEF CallsInOrder
<1>6. \A i \in DOMAIN batch : batch[i].id \in Nat /\ batch[i].id <= sent
  BY CallProps DEF CallsInOrder
<1>7. InOrder(channel')
  BY <1>1, <1>2, <1>4, <1>5 DEF CallsInOrder, InOrder
<1>8. CallsInOrder'
  BY <1>1, <1>2, <1>3, <1>4, <1>5, <1>6, <1>7 DEF CallsInOrder, InOrder
<1>9. ASSUME NEW id, Applied(id) PROVE Applied(id)'
  BY <1>1, <1>2, <1>3, <1>4, <1>5, <1>9 DEF Applied
<1> QED
  BY <1>8, <1>9

LEMMA BeginInOrder ==
  ASSUME CallsInOrder, BeginFrame
  PROVE  CallsInOrder' /\ \A id : Applied(id) => Applied(id)'
<1>1. batch' = channel /\ channel' = <<>> /\ phase' = "apply" /\ sent' = sent
  BY DEF BeginFrame
<1>2. CallsInOrder'
  BY <1>1 DEF CallsInOrder, InOrder
<1> QED
  BY <1>1, <1>2 DEF Applied

LEMMA ApplyInOrder ==
  ASSUME CallsInOrder, ApplyOne, NEW c, c = Head(batch)
  PROVE  /\ CallsInOrder' /\ \A id : Applied(id) => Applied(id)'
         /\ c \in Call /\ c.id \in Nat /\ Applied(c.id)' /\ ~Applied(c.id)
<1>1. batch # <<>> /\ batch' = Tail(batch) /\ UNCHANGED <<phase, sent, channel>> /\ phase = "apply"
  BY DEF ApplyOne
<1>2. /\ c \in Call /\ c = batch[1] /\ 1 \in DOMAIN batch /\ batch' \in Seq(Call)
      /\ \A i \in DOMAIN batch' :
           i \in Nat /\ i # 0 /\ i + 1 \in DOMAIN batch /\ batch'[i] = batch[i + 1]
  BY <1>1, TailProps DEF CallsInOrder
<1>3. c.id \in Nat /\ c.id <= sent
  BY <1>2, CallProps DEF CallsInOrder
<1>4. InOrder(batch')
  BY <1>2 DEF CallsInOrder, InOrder
<1>5. CallsInOrder'
  BY <1>1, <1>2, <1>4 DEF CallsInOrder
<1>6. \A i \in DOMAIN batch' : c.id < batch'[i].id
  BY <1>2 DEF CallsInOrder, InOrder
<1>7. \A j \in DOMAIN channel' : c.id < channel'[j].id
  BY <1>1, <1>2 DEF CallsInOrder
<1>8. Applied(c.id)'
  BY <1>1, <1>3, <1>6, <1>7 DEF Applied
<1>9. ~Applied(c.id)
  BY <1>2, <1>3 DEF Applied
<1>10. ASSUME NEW id, Applied(id) PROVE Applied(id)'
  BY <1>1, <1>2, <1>10 DEF Applied
<1> QED
  BY <1>2, <1>3, <1>5, <1>8, <1>9, <1>10

LEMMA CallsStep ==
  ASSUME CallsInOrder, [Next]_wireVars
  PROVE  CallsInOrder' /\ \A id : Applied(id) => Applied(id)'
<1>1. CASE UNCHANGED <<sent, channel, batch>> /\ (phase' = "apply" => phase = "apply")
             /\ (phase' # "apply" => batch = <<>>)
  BY <1>1 DEF CallsInOrder, Applied
<1>2. CASE Pass \/ Stop \/ Present
  BY <1>1, <1>2 DEF Pass, Stop, Present, CallsInOrder
<1>3. CASE UNCHANGED <<sent, channel, batch, phase>>
  BY <1>3 DEF CallsInOrder, Applied
<1>4. CASE Outside
  <2>1. ASSUME NEW image, DecodeEnds(image) \/ PersonSelects(image)
        PROVE  UNCHANGED <<sent, channel, batch, phase>>
    BY <2>1 DEF DecodeEnds, PersonSelects, callVars
  <2>2. ASSUME NEW id, Late(id) \/ PersonStarts(id)
        PROVE  UNCHANGED <<sent, channel, batch, phase>>
    BY <2>2 DEF Late, PersonStarts, callVars
  <2>3. CASE WorkerEnds \/ PersonDrags \/ PersonCloses
    BY <1>3, <2>3 DEF WorkerEnds, PersonDrags, PersonCloses, callVars
  <2> QED
    BY <1>3, <1>4, <2>1, <2>2, <2>3, SendInOrder DEF Outside
<1>5. CASE UNCHANGED wireVars
  BY <1>3, <1>5 DEF wireVars, callVars
<1> QED
  BY <1>2, <1>4, <1>5, BeginInOrder, ApplyInOrder DEF Next

-----------------------------------------------------------------------------
(* The steps of a command.                                                 *)

(* What is held when a command is about to take a step, and once it has.   *)
HeldBefore(kind, step) ==
  CASE step \in {"DragTo", "Up"} -> {"button"} \cup Modifiers(kind)
    [] step = "KeyUp" -> {"key"} \cup Modifiers(kind)
    [] step \in {"PressAgain", "Coast", "Settle"} -> Modifiers(kind)
    [] OTHER -> {}

HeldOnce(kind, step) ==
  CASE step \in {"Down", "DragTo"} -> {"button"} \cup Modifiers(kind)
    [] step = "KeyDown" -> {"key"} \cup Modifiers(kind)
    [] step \in {"Press", "PressAgain", "Wheel", "Coast", "Up", "KeyUp"} -> Modifiers(kind)
    [] OTHER -> {}

Steps ==
  {"Look", "Gone", "Move", "Press", "PressAgain", "Down", "DragTo", "Up", "Wheel", "Coast",
   "KeyDown", "KeyUp", "Text", "Settle"}

LEMMA StepTaken ==
  ASSUME NEW kind, NEW step \in Steps, held = HeldBefore(kind, step)
  PROVE  HeldBy(kind, step) = HeldOnce(kind, step)
<1>1. Modifiers(kind) = {} \/ Modifiers(kind) = {"modifiers"}
  BY DEF Modifiers
<1>2. CASE step \in {"Look", "Gone", "Move", "Text", "PressAgain", "DragTo", "Coast"}
  BY <1>2 DEF HeldBefore, HeldOnce, HeldBy
<1>3. CASE step \in {"Press", "Wheel", "Down", "KeyDown"}
  BY <1>3 DEF HeldBefore, HeldOnce, HeldBy
<1>4. CASE step = "Up"
  BY <1>1, <1>4 DEF HeldBefore, HeldOnce, HeldBy
<1>5. CASE step = "KeyUp"
  BY <1>1, <1>5 DEF HeldBefore, HeldOnce, HeldBy
<1>6. CASE step = "Settle"
  BY <1>1, <1>6 DEF HeldBefore, HeldOnce, HeldBy
<1> QED
  BY <1>2, <1>3, <1>4, <1>5, <1>6 DEF Steps

LEMMA HeldValues ==
  ASSUME NEW kind
  PROVE  /\ HeldBefore(kind, "Look") = {} /\ HeldBefore(kind, "Gone") = {}
         /\ HeldBefore(kind, "Move") = {} /\ HeldBefore(kind, "Press") = {}
         /\ HeldBefore(kind, "Down") = {} /\ HeldBefore(kind, "Wheel") = {}
         /\ HeldBefore(kind, "KeyDown") = {} /\ HeldBefore(kind, "Text") = {}
         /\ HeldBefore(kind, "PressAgain") = Modifiers(kind)
         /\ HeldBefore(kind, "Coast") = Modifiers(kind)
         /\ HeldBefore(kind, "Settle") = Modifiers(kind)
         /\ HeldBefore(kind, "DragTo") = {"button"} \cup Modifiers(kind)
         /\ HeldBefore(kind, "Up") = {"button"} \cup Modifiers(kind)
         /\ HeldBefore(kind, "KeyUp") = {"key"} \cup Modifiers(kind)
         /\ HeldOnce(kind, "Look") = {} /\ HeldOnce(kind, "Gone") = {}
         /\ HeldOnce(kind, "Move") = {} /\ HeldOnce(kind, "Text") = {}
         /\ HeldOnce(kind, "Settle") = {} /\ HeldOnce(kind, "Press") = Modifiers(kind)
         /\ HeldOnce(kind, "PressAgain") = Modifiers(kind)
         /\ HeldOnce(kind, "Wheel") = Modifiers(kind)
         /\ HeldOnce(kind, "Coast") = Modifiers(kind) /\ HeldOnce(kind, "Up") = Modifiers(kind)
         /\ HeldOnce(kind, "KeyUp") = Modifiers(kind)
         /\ HeldOnce(kind, "Down") = {"button"} \cup Modifiers(kind)
         /\ HeldOnce(kind, "DragTo") = {"button"} \cup Modifiers(kind)
         /\ HeldOnce(kind, "KeyDown") = {"key"} \cup Modifiers(kind)
  BY DEF HeldBefore, HeldOnce

(* What a step leaves held is what is held before the next one.            *)
Passes(kind, step, next) == HeldOnce(kind, step) = HeldBefore(kind, next)

(* A list of steps begins with nothing held and lets go of everything.     *)
ListHolds(kind, s) ==
  /\ s \in Seq(Steps) /\ Len(s) \in Nat \ {0}
  /\ HeldBefore(kind, s[1]) = {} /\ HeldOnce(kind, s[Len(s)]) = {}
  /\ \A k \in 1..(Len(s) - 1) : Passes(kind, s[k], s[k + 1])
  /\ \A k \in 1..Len(s) : s[k] \in {"DragTo", "Up"} => kind = "drag"

LEMMA StepsHold ==
  ASSUME NEW kind \in InputKinds
  PROVE  ListHolds(kind, StepsOf(kind))
<1>1. CASE kind = "click"
  <2> DEFINE s == <<"Look", "Move", "Press", "Settle">>
  <2>1. s \in Seq(Steps) /\ Len(s) = 4
    BY DEF Steps
  <2>2. s[1] = "Look" /\ s[2] = "Move" /\ s[3] = "Press" /\ s[4] = "Settle"
    OBVIOUS
  <2>3. s = StepsOf(kind)
    BY <1>1 DEF StepsOf
  <2>4. /\ HeldBefore(kind, "Look") = {} /\ HeldOnce(kind, "Settle") = {}
        /\ Passes(kind, "Look", "Move") /\ Passes(kind, "Move", "Press")
        /\ Passes(kind, "Press", "Settle")
    BY HeldValues DEF Passes
  <2> HIDE DEF s
  <2>5. \A k \in 1..(Len(s) - 1) : Passes(kind, s[k], s[k + 1])
    BY <2>1, <2>2, <2>4
  <2>6. HeldBefore(kind, s[1]) = {} /\ HeldOnce(kind, s[Len(s)]) = {}
    BY <2>1, <2>2, <2>4
  <2>7. \A k \in 1..Len(s) : s[k] \in {"DragTo", "Up"} => kind = "drag"
    BY <1>1, <2>1, <2>2
  <2>8. ListHolds(kind, s)
    BY <2>1, <2>5, <2>6, <2>7 DEF ListHolds
  <2> QED
    BY <2>3, <2>8
<1>2. CASE kind = "twice"
  <2> DEFINE s == <<"Look", "Move", "Press", "PressAgain", "Settle">>
  <2>1. s \in Seq(Steps) /\ Len(s) = 5
    BY DEF Steps
  <2>2. s[1] = "Look" /\ s[2] = "Move" /\ s[3] = "Press" /\ s[4] = "PressAgain" /\ s[5] = "Settle"
    OBVIOUS
  <2>3. s = StepsOf(kind)
    BY <1>2 DEF StepsOf
  <2>4. /\ HeldBefore(kind, "Look") = {} /\ HeldOnce(kind, "Settle") = {}
        /\ Passes(kind, "Look", "Move") /\ Passes(kind, "Move", "Press")
        /\ Passes(kind, "Press", "PressAgain") /\ Passes(kind, "PressAgain", "Settle")
    BY HeldValues DEF Passes
  <2> HIDE DEF s
  <2>5. \A k \in 1..(Len(s) - 1) : Passes(kind, s[k], s[k + 1])
    BY <2>1, <2>2, <2>4
  <2>6. HeldBefore(kind, s[1]) = {} /\ HeldOnce(kind, s[Len(s)]) = {}
    BY <2>1, <2>2, <2>4
  <2>7. \A k \in 1..Len(s) : s[k] \in {"DragTo", "Up"} => kind = "drag"
    BY <1>2, <2>1, <2>2
  <2>8. ListHolds(kind, s)
    BY <2>1, <2>5, <2>6, <2>7 DEF ListHolds
  <2> QED
    BY <2>3, <2>8
<1>3. CASE kind = "hover"
  <2> DEFINE s == <<"Look", "Move", "Settle">>
  <2>1. s \in Seq(Steps) /\ Len(s) = 3
    BY DEF Steps
  <2>2. s[1] = "Look" /\ s[2] = "Move" /\ s[3] = "Settle"
    OBVIOUS
  <2>3. s = StepsOf(kind)
    BY <1>3 DEF StepsOf
  <2>4. /\ HeldBefore(kind, "Look") = {} /\ HeldOnce(kind, "Settle") = {}
        /\ Passes(kind, "Look", "Move") /\ Passes(kind, "Move", "Settle")
    BY <1>3, HeldValues DEF Passes, Modifiers, Modified
  <2> HIDE DEF s
  <2>5. \A k \in 1..(Len(s) - 1) : Passes(kind, s[k], s[k + 1])
    BY <2>1, <2>2, <2>4
  <2>6. HeldBefore(kind, s[1]) = {} /\ HeldOnce(kind, s[Len(s)]) = {}
    BY <2>1, <2>2, <2>4
  <2>7. \A k \in 1..Len(s) : s[k] \in {"DragTo", "Up"} => kind = "drag"
    BY <1>3, <2>1, <2>2
  <2>8. ListHolds(kind, s)
    BY <2>1, <2>5, <2>6, <2>7 DEF ListHolds
  <2> QED
    BY <2>3, <2>8
<1>4. CASE kind = "leave"
  <2> DEFINE s == <<"Gone", "Settle">>
  <2>1. s \in Seq(Steps) /\ Len(s) = 2
    BY DEF Steps
  <2>2. s[1] = "Gone" /\ s[2] = "Settle"
    OBVIOUS
  <2>3. s = StepsOf(kind)
    BY <1>4 DEF StepsOf
  <2>4. /\ HeldBefore(kind, "Gone") = {} /\ HeldOnce(kind, "Settle") = {}
        /\ Passes(kind, "Gone", "Settle")
    BY <1>4, HeldValues DEF Passes, Modifiers, Modified
  <2> HIDE DEF s
  <2>5. \A k \in 1..(Len(s) - 1) : Passes(kind, s[k], s[k + 1])
    BY <2>1, <2>2, <2>4
  <2>6. HeldBefore(kind, s[1]) = {} /\ HeldOnce(kind, s[Len(s)]) = {}
    BY <2>1, <2>2, <2>4
  <2>7. \A k \in 1..Len(s) : s[k] \in {"DragTo", "Up"} => kind = "drag"
    BY <1>4, <2>1, <2>2
  <2>8. ListHolds(kind, s)
    BY <2>1, <2>5, <2>6, <2>7 DEF ListHolds
  <2> QED
    BY <2>3, <2>8
<1>5. CASE kind = "drag"
  <2> DEFINE s == <<"Look", "Move", "Down", "DragTo", "Up", "Settle">>
  <2>1. s \in Seq(Steps) /\ Len(s) = 6
    BY DEF Steps
  <2>2. s[1] = "Look" /\ s[2] = "Move" /\ s[3] = "Down" /\ s[4] = "DragTo" /\ s[5] = "Up" /\ s[6] = "Settle"
    OBVIOUS
  <2>3. s = StepsOf(kind)
    BY <1>5 DEF StepsOf
  <2>4. /\ HeldBefore(kind, "Look") = {} /\ HeldOnce(kind, "Settle") = {}
        /\ Passes(kind, "Look", "Move") /\ Passes(kind, "Move", "Down")
        /\ Passes(kind, "Down", "DragTo") /\ Passes(kind, "DragTo", "Up")
        /\ Passes(kind, "Up", "Settle")
    BY HeldValues DEF Passes
  <2> HIDE DEF s
  <2>5. \A k \in 1..(Len(s) - 1) : Passes(kind, s[k], s[k + 1])
    BY <2>1, <2>2, <2>4
  <2>6. HeldBefore(kind, s[1]) = {} /\ HeldOnce(kind, s[Len(s)]) = {}
    BY <2>1, <2>2, <2>4
  <2>7. \A k \in 1..Len(s) : s[k] \in {"DragTo", "Up"} => kind = "drag"
    BY <1>5, <2>1, <2>2
  <2>8. ListHolds(kind, s)
    BY <2>1, <2>5, <2>6, <2>7 DEF ListHolds
  <2> QED
    BY <2>3, <2>8
<1>6. CASE kind = "scroll"
  <2> DEFINE s == <<"Look", "Move", "Wheel", "Coast", "Settle">>
  <2>1. s \in Seq(Steps) /\ Len(s) = 5
    BY DEF Steps
  <2>2. s[1] = "Look" /\ s[2] = "Move" /\ s[3] = "Wheel" /\ s[4] = "Coast" /\ s[5] = "Settle"
    OBVIOUS
  <2>3. s = StepsOf(kind)
    BY <1>6 DEF StepsOf
  <2>4. /\ HeldBefore(kind, "Look") = {} /\ HeldOnce(kind, "Settle") = {}
        /\ Passes(kind, "Look", "Move") /\ Passes(kind, "Move", "Wheel")
        /\ Passes(kind, "Wheel", "Coast") /\ Passes(kind, "Coast", "Settle")
    BY HeldValues DEF Passes
  <2> HIDE DEF s
  <2>5. \A k \in 1..(Len(s) - 1) : Passes(kind, s[k], s[k + 1])
    BY <2>1, <2>2, <2>4
  <2>6. HeldBefore(kind, s[1]) = {} /\ HeldOnce(kind, s[Len(s)]) = {}
    BY <2>1, <2>2, <2>4
  <2>7. \A k \in 1..Len(s) : s[k] \in {"DragTo", "Up"} => kind = "drag"
    BY <1>6, <2>1, <2>2
  <2>8. ListHolds(kind, s)
    BY <2>1, <2>5, <2>6, <2>7 DEF ListHolds
  <2> QED
    BY <2>3, <2>8
<1>7. CASE kind = "key"
  <2> DEFINE s == <<"KeyDown", "KeyUp", "Settle">>
  <2>1. s \in Seq(Steps) /\ Len(s) = 3
    BY DEF Steps
  <2>2. s[1] = "KeyDown" /\ s[2] = "KeyUp" /\ s[3] = "Settle"
    OBVIOUS
  <2>3. s = StepsOf(kind)
    BY <1>7 DEF StepsOf
  <2>4. /\ HeldBefore(kind, "KeyDown") = {} /\ HeldOnce(kind, "Settle") = {}
        /\ Passes(kind, "KeyDown", "KeyUp") /\ Passes(kind, "KeyUp", "Settle")
    BY HeldValues DEF Passes
  <2> HIDE DEF s
  <2>5. \A k \in 1..(Len(s) - 1) : Passes(kind, s[k], s[k + 1])
    BY <2>1, <2>2, <2>4
  <2>6. HeldBefore(kind, s[1]) = {} /\ HeldOnce(kind, s[Len(s)]) = {}
    BY <2>1, <2>2, <2>4
  <2>7. \A k \in 1..Len(s) : s[k] \in {"DragTo", "Up"} => kind = "drag"
    BY <1>7, <2>1, <2>2
  <2>8. ListHolds(kind, s)
    BY <2>1, <2>5, <2>6, <2>7 DEF ListHolds
  <2> QED
    BY <2>3, <2>8
<1>8. CASE kind = "keyOver"
  <2> DEFINE s == <<"Look", "Move", "KeyDown", "KeyUp", "Settle">>
  <2>1. s \in Seq(Steps) /\ Len(s) = 5
    BY DEF Steps
  <2>2. s[1] = "Look" /\ s[2] = "Move" /\ s[3] = "KeyDown" /\ s[4] = "KeyUp" /\ s[5] = "Settle"
    OBVIOUS
  <2>3. s = StepsOf(kind)
    BY <1>8 DEF StepsOf
  <2>4. /\ HeldBefore(kind, "Look") = {} /\ HeldOnce(kind, "Settle") = {}
        /\ Passes(kind, "Look", "Move") /\ Passes(kind, "Move", "KeyDown")
        /\ Passes(kind, "KeyDown", "KeyUp") /\ Passes(kind, "KeyUp", "Settle")
    BY HeldValues DEF Passes
  <2> HIDE DEF s
  <2>5. \A k \in 1..(Len(s) - 1) : Passes(kind, s[k], s[k + 1])
    BY <2>1, <2>2, <2>4
  <2>6. HeldBefore(kind, s[1]) = {} /\ HeldOnce(kind, s[Len(s)]) = {}
    BY <2>1, <2>2, <2>4
  <2>7. \A k \in 1..Len(s) : s[k] \in {"DragTo", "Up"} => kind = "drag"
    BY <1>8, <2>1, <2>2
  <2>8. ListHolds(kind, s)
    BY <2>1, <2>5, <2>6, <2>7 DEF ListHolds
  <2> QED
    BY <2>3, <2>8
<1>9. CASE kind = "type"
  <2> DEFINE s == <<"Look", "Move", "Press", "Text", "Settle">>
  <2>1. s \in Seq(Steps) /\ Len(s) = 5
    BY DEF Steps
  <2>2. s[1] = "Look" /\ s[2] = "Move" /\ s[3] = "Press" /\ s[4] = "Text" /\ s[5] = "Settle"
    OBVIOUS
  <2>3. s = StepsOf(kind)
    BY <1>9 DEF StepsOf
  <2>4. /\ HeldBefore(kind, "Look") = {} /\ HeldOnce(kind, "Settle") = {}
        /\ Passes(kind, "Look", "Move") /\ Passes(kind, "Move", "Press")
        /\ Passes(kind, "Press", "Text") /\ Passes(kind, "Text", "Settle")
    BY <1>9, HeldValues DEF Passes, Modifiers, Modified
  <2> HIDE DEF s
  <2>5. \A k \in 1..(Len(s) - 1) : Passes(kind, s[k], s[k + 1])
    BY <2>1, <2>2, <2>4
  <2>6. HeldBefore(kind, s[1]) = {} /\ HeldOnce(kind, s[Len(s)]) = {}
    BY <2>1, <2>2, <2>4
  <2>7. \A k \in 1..Len(s) : s[k] \in {"DragTo", "Up"} => kind = "drag"
    BY <1>9, <2>1, <2>2
  <2>8. ListHolds(kind, s)
    BY <2>1, <2>5, <2>6, <2>7 DEF ListHolds
  <2> QED
    BY <2>3, <2>8
<1>10. CASE kind = "typeHere"
  <2> DEFINE s == <<"Look", "Text", "Settle">>
  <2>1. s \in Seq(Steps) /\ Len(s) = 3
    BY DEF Steps
  <2>2. s[1] = "Look" /\ s[2] = "Text" /\ s[3] = "Settle"
    OBVIOUS
  <2>3. s = StepsOf(kind)
    BY <1>10 DEF StepsOf
  <2>4. /\ HeldBefore(kind, "Look") = {} /\ HeldOnce(kind, "Settle") = {}
        /\ Passes(kind, "Look", "Text") /\ Passes(kind, "Text", "Settle")
    BY <1>10, HeldValues DEF Passes, Modifiers, Modified
  <2> HIDE DEF s
  <2>5. \A k \in 1..(Len(s) - 1) : Passes(kind, s[k], s[k + 1])
    BY <2>1, <2>2, <2>4
  <2>6. HeldBefore(kind, s[1]) = {} /\ HeldOnce(kind, s[Len(s)]) = {}
    BY <2>1, <2>2, <2>4
  <2>7. \A k \in 1..Len(s) : s[k] \in {"DragTo", "Up"} => kind = "drag"
    BY <1>10, <2>1, <2>2
  <2>8. ListHolds(kind, s)
    BY <2>1, <2>5, <2>6, <2>7 DEF ListHolds
  <2> QED
    BY <2>3, <2>8
<1> QED
  BY <1>1, <1>2, <1>3, <1>4, <1>5, <1>6, <1>7, <1>8, <1>9, <1>10 DEF InputKinds

LEMMA StepsTyped ==
  ASSUME NEW kind \in InputKinds
  PROVE  StepsOf(kind) \in Seq(Steps) /\ Len(StepsOf(kind)) \in Nat \ {0}
  BY StepsHold DEF ListHolds

(* The steps a command has left when its k-th is next.                     *)
Left(kind, k) == SubSeq(StepsOf(kind), k, Len(StepsOf(kind)))

LEMMA LeftProps ==
  ASSUME NEW kind \in InputKinds, NEW k \in 1..Len(StepsOf(kind))
  PROVE  /\ Left(kind, k) \in Seq(Steps) /\ Left(kind, k) # <<>>
         /\ Len(Left(kind, k)) = Len(StepsOf(kind)) - k + 1
         /\ Head(Left(kind, k)) = StepsOf(kind)[k]
         /\ k # Len(StepsOf(kind)) => Tail(Left(kind, k)) = Left(kind, k + 1)
         /\ Left(kind, 1) = StepsOf(kind)
         /\ k # 1 => Left(kind, k) # StepsOf(kind)
<1>1. PICK s \in Seq(Steps) : s = StepsOf(kind)
  BY StepsTyped
<1>2. PICK N \in Nat \ {0} : N = Len(s) /\ N = Len(StepsOf(kind)) /\ DOMAIN s = 1..N
  BY <1>1, StepsTyped
<1>3. k \in 1..N /\ k \in Int /\ \A i \in k..N : s[i] \in Steps
  BY <1>1, <1>2
<1>4. PICK left : left = SubSeq(s, k, N) /\ left = Left(kind, k)
  BY <1>1, <1>2 DEF Left
<1>5. /\ left \in Seq(Steps) /\ Len(left) = N - k + 1
      /\ \A i \in 1..(N - k + 1) : left[i] = s[k + i - 1]
  <2>1. /\ SubSeq(s, k, N) \in Seq(Steps)
        /\ Len(SubSeq(s, k, N)) = IF k <= N THEN N - k + 1 ELSE 0
        /\ \A i \in 1..(N - k + 1) : SubSeq(s, k, N)[i] = s[k + i - 1]
    BY <1>3, SubSeqProperties
  <2> QED
    BY <1>3, <1>4, <2>1
<1>6. left # <<>> /\ Head(left) = s[k]
  BY <1>3, <1>5
<1>7. k # N => Tail(left) = SubSeq(s, k + 1, N)
  <2>1. k \in 1..Len(s) /\ Len(s) \in k..Len(s)
    BY <1>2, <1>3
  <2>2. Tail(SubSeq(s, k, Len(s))) = SubSeq(s, k + 1, Len(s))
    BY <1>1, <2>1, HeadTailOfSubSeq
  <2> QED
    BY <1>2, <1>4, <2>2
<1>8. SubSeq(s, 1, N) = s
  BY <1>1, <1>2, SubSeqFull
<1>9. k # 1 => left # s
  BY <1>2, <1>3, <1>5
<1> QED
  BY <1>1, <1>2, <1>4, <1>5, <1>6, <1>7, <1>8, <1>9 DEF Left

LEMMA FirstStep ==
  ASSUME NEW kind \in InputKinds
  PROVE  /\ 1 \in 1..Len(StepsOf(kind)) /\ Left(kind, 1) = StepsOf(kind)
         /\ HeldBefore(kind, StepsOf(kind)[1]) = {}
<1>1. ListHolds(kind, StepsOf(kind))
  BY StepsHold
<1>2. PICK N \in Nat \ {0} : N = Len(StepsOf(kind))
  BY StepsTyped
<1>3. 1 \in 1..Len(StepsOf(kind))
  BY <1>2
<1> QED
  BY <1>1, <1>3, LeftProps DEF ListHolds

-----------------------------------------------------------------------------
(* The commands that wait, and what is held.                               *)

Input == [id : CallIds, kind : InputKinds, steps : Seq(Steps), coasted : Nat]

(* The first command is about to take its k-th step, and h is what is held *)
(* before it.                                                              *)
AtStep(input, h, k) ==
  input.steps = Left(input.kind, k) /\ h = HeldBefore(input.kind, StepsOf(input.kind)[k])

(* Only the first command may have begun.                                  *)
QueueGood(queue, h) ==
  /\ queue \in Seq(Input) /\ InOrder(queue)
  /\ \A i \in DOMAIN queue : i # 1 => queue[i].steps = StepsOf(queue[i].kind)
  /\ queue = <<>> => h = {}
  /\ queue # <<>> => \E k \in 1..Len(StepsOf(queue[1].kind)) : AtStep(queue[1], h, k)

LEMMA InputProps ==
  ASSUME NEW s \in Seq(Input), NEW i \in DOMAIN s
  PROVE  /\ s[i] \in Input /\ s[i].kind \in InputKinds /\ s[i].id \in Nat
         /\ i \in 1..Len(s) /\ Len(s) \in Nat
<1>1. s[i] \in Input /\ i \in 1..Len(s) /\ Len(s) \in Nat
  OBVIOUS
<1> QED
  BY <1>1, Bounds DEF Input, CallIds

LEMMA FrontProps ==
  ASSUME NEW S, NEW s \in Seq(S), s # <<>>, NEW e \in S, NEW d, d = <<e>> \o Tail(s)
  PROVE  /\ d \in Seq(S) /\ d # <<>> /\ DOMAIN d = DOMAIN s /\ d[1] = e
         /\ \A i \in DOMAIN d : i # 1 => d[i] = s[i]
<1>1. PICK front \in Seq(S) : front = <<e>> /\ Len(front) = 1 /\ front[1] = e
  <2>1. <<e>> \in Seq(S) /\ Len(<<e>>) = 1 /\ <<e>>[1] = e
    OBVIOUS
  <2> QED
    BY <2>1
<1>2. PICK rest \in Seq(S) : /\ rest = Tail(s) /\ Len(rest) = Len(s) - 1
                             /\ \A i \in 1..Len(rest) : rest[i] = s[i + 1]
  BY HeadTailProperties
<1>3. Len(s) \in Nat /\ DOMAIN s = 1..Len(s) /\ Len(s) # 0
  OBVIOUS
<1>4. /\ d \in Seq(S) /\ Len(d) = Len(s)
      /\ \A i \in 1..Len(s) : d[i] = IF i <= 1 THEN front[1] ELSE rest[i - 1]
  <2>1. /\ d \in Seq(S) /\ Len(d) = Len(front) + Len(rest)
        /\ \A i \in 1..(Len(front) + Len(rest)) :
             d[i] = IF i <= Len(front) THEN front[i] ELSE rest[i - Len(front)]
    BY <1>1, <1>2, ConcatProperties
  <2>2. Len(front) + Len(rest) = Len(s)
    BY <1>1, <1>2, <1>3
  <2> QED
    BY <1>1, <1>2, <1>3, <2>1, <2>2
<1>5. DOMAIN d = DOMAIN s
  BY <1>3, <1>4
<1>6. ASSUME NEW i \in DOMAIN d, i # 1 PROVE d[i] = s[i]
  <2>1. i \in 1..Len(s) /\ i - 1 \in 1..Len(rest) /\ ~(i <= 1)
    BY <1>2, <1>3, <1>5, <1>6
  <2> QED
    BY <1>2, <1>4, <2>1
<1> QED
  BY <1>1, <1>3, <1>4, <1>5, <1>6

(* A command that is queued has not begun.                                 *)
LEMMA Pushed ==
  ASSUME NEW queue, NEW h, QueueGood(queue, h), NEW c \in Call, c.kind \in InputKinds,
         \A i \in DOMAIN queue : queue[i].id < c.id
  PROVE  /\ QueueGood(Append(queue, Pending(c)), h)
         /\ \A i \in DOMAIN Append(queue, Pending(c)) :
              \/ Append(queue, Pending(c))[i].id = c.id
              \/ i \in DOMAIN queue /\ Append(queue, Pending(c))[i].id = queue[i].id
<1>1. PICK new \in Input : /\ new = Pending(c) /\ new.id = c.id /\ new.kind = c.kind
                           /\ new.steps = StepsOf(c.kind)
  <2>1. c.id \in CallIds
    BY DEF Call
  <2>2. StepsOf(c.kind) \in Seq(Steps)
    BY StepsTyped
  <2>3. Pending(c) \in Input
    BY <2>1, <2>2 DEF Pending, Input
  <2> QED
    BY <2>3 DEF Pending
<1>2. queue \in Seq(Input)
  BY DEF QueueGood
<1>3. PICK d : d = Append(queue, new)
  OBVIOUS
<1>4. /\ d \in Seq(Input) /\ DOMAIN d = 1..(Len(queue) + 1)
      /\ DOMAIN queue = 1..Len(queue) /\ Len(queue) \in Nat
      /\ \A i \in 1..Len(queue) : d[i] = queue[i]
      /\ d[Len(queue) + 1] = new
  BY <1>2, <1>3, AppendProps
<1>5. \A i \in DOMAIN d : \/ d[i] = new /\ i = Len(queue) + 1
                          \/ i \in DOMAIN queue /\ d[i] = queue[i]
  BY <1>4
<1>6. InOrder(d)
  BY <1>1, <1>4, <1>5 DEF QueueGood, InOrder
<1>7. \A i \in DOMAIN d : i # 1 => d[i].steps = StepsOf(d[i].kind)
  BY <1>1, <1>5 DEF QueueGood
<1>8. \E k \in 1..Len(StepsOf(d[1].kind)) : AtStep(d[1], h, k)
  <2>1. CASE queue = <<>>
    <3>1. d[1] = new /\ h = {}
      BY <1>4, <2>1 DEF QueueGood
    <3>2. 1 \in 1..Len(StepsOf(new.kind)) /\ HeldBefore(new.kind, StepsOf(new.kind)[1]) = {}
            /\ Left(new.kind, 1) = StepsOf(new.kind)
      BY <1>1, FirstStep
    <3> QED
      BY <1>1, <3>1, <3>2 DEF AtStep
  <2>2. CASE queue # <<>>
    <3>1. d[1] = queue[1]
      BY <1>2, <1>4, <2>2
    <3> QED
      BY <2>2, <3>1 DEF QueueGood
  <2> QED
    BY <2>1, <2>2
<1>9. d # <<>>
  BY <1>4
<1>10. QueueGood(d, h)
  BY <1>4, <1>6, <1>7, <1>8, <1>9 DEF QueueGood
<1> QED
  BY <1>1, <1>3, <1>5, <1>10

(* Commands are refused before anything is held.                           *)
LEMMA Dropped ==
  ASSUME NEW queue, NEW h, QueueGood(queue, h), NEW n \in 0..Len(queue),
         \A i \in 1..n : MayBeRefused(Head(queue[i].steps)),
         NEW rest, rest = SubSeq(queue, n + 1, Len(queue))
  PROVE  /\ QueueGood(rest, h)
         /\ \A i \in DOMAIN rest : i + n \in DOMAIN queue /\ rest[i] = queue[i + n]
<1>1. PICK N \in Nat : N = Len(queue) /\ DOMAIN queue = 1..N /\ queue \in Seq(Input)
  BY DEF QueueGood
<1>2. /\ rest \in Seq(Input) /\ DOMAIN rest = 1..(N - n)
      /\ \A i \in DOMAIN rest : i + n \in DOMAIN queue /\ rest[i] = queue[i + n]
  <2>1. \A i \in (n + 1)..N : queue[i] \in Input
    BY <1>1, InputProps
  <2>2. /\ SubSeq(queue, n + 1, N) \in Seq(Input)
        /\ Len(SubSeq(queue, n + 1, N)) = IF n + 1 <= N THEN N - (n + 1) + 1 ELSE 0
        /\ \A i \in 1..(N - (n + 1) + 1) : SubSeq(queue, n + 1, N)[i] = queue[(n + 1) + i - 1]
    BY <1>1, <2>1, SubSeqProperties
  <2>3. rest \in Seq(Input) /\ Len(rest) = N - n /\ \A i \in 1..(N - n) : rest[i] = queue[i + n]
    BY <1>1, <2>2
  <2> QED
    BY <1>1, <2>3
<1>3. CASE n = 0
  <2>1. rest = queue
    BY <1>1, <1>3, SubSeqFull
  <2> QED
    BY <1>2, <2>1
<1>4. CASE n # 0
  <2>1. h = {}
    <3>1. queue # <<>> /\ 1 \in DOMAIN queue /\ MayBeRefused(Head(queue[1].steps))
      BY <1>1, <1>4
    <3>2. PICK k \in 1..Len(StepsOf(queue[1].kind)) : AtStep(queue[1], h, k)
      BY <3>1 DEF QueueGood
    <3>3. Head(queue[1].steps) = StepsOf(queue[1].kind)[k]
      BY <1>1, <3>1, <3>2, InputProps, LeftProps DEF AtStep
    <3>4. StepsOf(queue[1].kind)[k] = "Move" \/ StepsOf(queue[1].kind)[k] = "Text"
      BY <3>1, <3>3 DEF MayBeRefused
    <3> QED
      BY <3>2, <3>4, HeldValues DEF AtStep
  <2>2. InOrder(rest)
    <3> SUFFICES ASSUME NEW i \in DOMAIN rest, NEW j \in DOMAIN rest, i < j
                 PROVE  rest[i].id < rest[j].id
      BY DEF InOrder
    <3>1. i + n \in DOMAIN queue /\ rest[i] = queue[i + n]
      BY <1>2
    <3>2. j + n \in DOMAIN queue /\ rest[j] = queue[j + n]
      BY <1>2
    <3>3. i \in Int /\ j \in Int /\ n \in Int
      BY <1>1, <1>2
    <3>4. i + n < j + n
      BY <3>3
    <3> QED
      BY <3>1, <3>2, <3>4 DEF QueueGood, InOrder
  <2>3. \A i \in DOMAIN rest : rest[i].steps = StepsOf(rest[i].kind)
    <3> SUFFICES ASSUME NEW i \in DOMAIN rest PROVE rest[i].steps = StepsOf(rest[i].kind)
      OBVIOUS
    <3>1. i + n \in DOMAIN queue /\ rest[i] = queue[i + n]
      BY <1>2
    <3>2. i \in Int /\ i >= 1 /\ n \in Int /\ n >= 1
      BY <1>1, <1>2, <1>4
    <3>3. i + n # 1
      BY <3>2
    <3> QED
      BY <3>1, <3>3 DEF QueueGood
  <2>4. ASSUME rest # <<>>
        PROVE  \E k \in 1..Len(StepsOf(rest[1].kind)) : AtStep(rest[1], h, k)
    <3>1. 1 \in DOMAIN rest
      BY <1>2, <2>4
    <3>2. rest[1].kind \in InputKinds /\ rest[1].steps = StepsOf(rest[1].kind)
      BY <1>2, <2>3, <3>1, InputProps
    <3>3. 1 \in 1..Len(StepsOf(rest[1].kind))
            /\ HeldBefore(rest[1].kind, StepsOf(rest[1].kind)[1]) = {}
            /\ Left(rest[1].kind, 1) = StepsOf(rest[1].kind)
      BY <3>2, FirstStep
    <3> QED
      BY <2>1, <3>2, <3>3 DEF AtStep
  <2> QED
    BY <1>2, <2>1, <2>2, <2>3, <2>4 DEF QueueGood
<1> QED
  BY <1>3, <1>4

Advanced(input) == [input EXCEPT !.steps = Tail(@)]

Waited(input) == [input EXCEPT !.coasted = @ + 1]

LEMMA InputsWritten ==
  ASSUME NEW input \in Input, input.steps # <<>>
  PROVE  /\ Advanced(input) \in Input /\ Advanced(input).id = input.id
         /\ Advanced(input).kind = input.kind /\ Advanced(input).steps = Tail(input.steps)
         /\ Waited(input) \in Input /\ Waited(input).id = input.id
         /\ Waited(input).kind = input.kind /\ Waited(input).steps = input.steps
<1>1. Tail(input.steps) \in Seq(Steps) /\ input.coasted + 1 \in Nat
  BY DEF Input
<1> QED
  BY <1>1 DEF Input, Advanced, Waited

(* The first command of a list is replaced by one that is further on.      *)
Replaced(queue, e) == <<e>> \o Tail(queue)

LEMMA FrontReplaced ==
  ASSUME NEW queue, NEW h, QueueGood(queue, h), queue # <<>>,
         NEW e \in Input, e.id = queue[1].id, NEW g,
         \E k \in 1..Len(StepsOf(e.kind)) : AtStep(e, g, k)
  PROVE  /\ QueueGood(Replaced(queue, e), g)
         /\ \A i \in DOMAIN Replaced(queue, e) : \E j \in DOMAIN queue :
              Replaced(queue, e)[i].id = queue[j].id
<1>1. queue \in Seq(Input)
  BY DEF QueueGood
<1>0. PICK d : d = <<e>> \o Tail(queue) /\ d = Replaced(queue, e)
  BY DEF Replaced
<1>2. /\ d \in Seq(Input) /\ d # <<>> /\ DOMAIN d = DOMAIN queue /\ d[1] = e
      /\ \A i \in DOMAIN d : i # 1 => d[i] = queue[i]
  BY <1>0, <1>1, FrontProps
<1>3. \A i \in DOMAIN d : d[i].id = queue[i].id
  BY <1>2
<1>4. InOrder(d)
  BY <1>2, <1>3 DEF QueueGood, InOrder
<1>5. \A i \in DOMAIN d : i # 1 => d[i].steps = StepsOf(d[i].kind)
  BY <1>2 DEF QueueGood
<1> QED
  BY <1>0, <1>2, <1>3, <1>4, <1>5 DEF QueueGood

(* A frame takes one step of the first command.                            *)
LEMMA Taken ==
  ASSUME NEW queue, QueueGood(queue, held), NEW after \in AfterStep(queue)
  PROVE  /\ QueueGood(after, HeldAfter(queue))
         /\ \A i \in DOMAIN after : \E j \in DOMAIN queue : after[i].id = queue[j].id
<1>1. CASE queue = <<>>
  BY <1>1 DEF AfterStep, HeldAfter
<1>2. CASE queue # <<>>
  <2>1. queue \in Seq(Input) /\ Head(queue) = queue[1] /\ queue[1] \in Input
    BY <1>2, TailProps DEF QueueGood
  <2>2. PICK input \in Input : input = Head(queue) /\ input = queue[1]
    BY <2>1
  <2>3. PICK k \in 1..Len(StepsOf(input.kind)) : AtStep(input, held, k)
    BY <1>2, <2>2 DEF QueueGood
  <2>4. input.kind \in InputKinds /\ Len(StepsOf(input.kind)) \in Nat \ {0}
    BY StepsTyped DEF Input
  <2>5. /\ input.steps # <<>> /\ Head(input.steps) = StepsOf(input.kind)[k]
        /\ Len(input.steps) = Len(StepsOf(input.kind)) - k + 1
        /\ k # Len(StepsOf(input.kind)) => Tail(input.steps) = Left(input.kind, k + 1)
    <3>1. input.steps = Left(input.kind, k)
      BY <2>3 DEF AtStep
    <3>2. /\ Left(input.kind, k) # <<>> /\ Head(Left(input.kind, k)) = StepsOf(input.kind)[k]
          /\ Len(Left(input.kind, k)) = Len(StepsOf(input.kind)) - k + 1
          /\ k # Len(StepsOf(input.kind)) => Tail(Left(input.kind, k)) = Left(input.kind, k + 1)
      BY <2>4, LeftProps
    <3> QED
      BY <3>1, <3>2
  <2>6. PICK step \in Steps : step = StepsOf(input.kind)[k]
    BY <2>4, StepsTyped
  <2>7. HeldAfter(queue) = HeldBy(input.kind, step)
    BY <1>2, <2>2, <2>5, <2>6 DEF HeldAfter
  <2>8. HeldBy(input.kind, step) = HeldOnce(input.kind, step)
    BY <2>3, <2>6, StepTaken DEF AtStep
  <2>9. CASE Len(input.steps) = 1 /\ after = Tail(queue)
    <3>1. k = Len(StepsOf(input.kind))
      <4>1. PICK N \in Nat : N = Len(StepsOf(input.kind)) /\ k \in 1..N /\ 1 = N - k + 1
        BY <2>4, <2>5, <2>9
      <4> QED
        BY <4>1
    <3>2. HeldAfter(queue) = {}
      BY <2>4, <2>6, <2>7, <2>8, <3>1, StepsHold DEF ListHolds
    <3>3. /\ after \in Seq(Input)
          /\ \A i \in DOMAIN after :
               i \in Nat /\ i # 0 /\ i + 1 \in DOMAIN queue /\ after[i] = queue[i + 1]
      BY <1>2, <2>1, <2>9, TailProps
    <3>4. InOrder(after)
      <4> SUFFICES ASSUME NEW i \in DOMAIN after, NEW j \in DOMAIN after, i < j
                   PROVE  after[i].id < after[j].id
        BY DEF InOrder
      <4>1. i + 1 \in DOMAIN queue /\ j + 1 \in DOMAIN queue /\ i + 1 < j + 1
              /\ after[i] = queue[i + 1] /\ after[j] = queue[j + 1]
        BY <3>3
      <4> QED
        BY <4>1 DEF QueueGood, InOrder
    <3>5. \A i \in DOMAIN after : after[i].steps = StepsOf(after[i].kind)
      BY <3>3 DEF QueueGood
    <3>6. ASSUME after # <<>>
          PROVE  \E j \in 1..Len(StepsOf(after[1].kind)) : AtStep(after[1], {}, j)
      <4>1. 1 \in DOMAIN after
        BY <3>3, <3>6
      <4>2. after[1].kind \in InputKinds /\ after[1].steps = StepsOf(after[1].kind)
        BY <3>3, <3>5, <4>1, InputProps
      <4> QED
        BY <4>2, FirstStep DEF AtStep
    <3> QED
      BY <3>2, <3>3, <3>4, <3>5, <3>6 DEF QueueGood
  <2>10. CASE Len(input.steps) # 1 /\ after = <<Advanced(input)>> \o Tail(queue)
    <3>1. k # Len(StepsOf(input.kind)) /\ k + 1 \in 1..Len(StepsOf(input.kind))
            /\ k \in 1..(Len(StepsOf(input.kind)) - 1)
      <4>1. PICK N \in Nat : N = Len(StepsOf(input.kind)) /\ k \in 1..N /\ 1 # N - k + 1
        BY <2>4, <2>5, <2>10
      <4>2. k # N /\ k + 1 \in 1..N /\ k \in 1..(N - 1)
        BY <4>1
      <4> QED
        BY <4>1, <4>2
    <3>2. HeldOnce(input.kind, step) = HeldBefore(input.kind, StepsOf(input.kind)[k + 1])
      BY <2>4, <2>6, <3>1, StepsHold DEF ListHolds, Passes
    <3>3. AtStep(Advanced(input), HeldAfter(queue), k + 1)
      BY <2>5, <2>7, <2>8, <3>1, <3>2, InputsWritten DEF AtStep
    <3>4. Advanced(input) \in Input /\ Advanced(input).id = queue[1].id
            /\ Advanced(input).kind = input.kind
      BY <2>2, <2>5, InputsWritten
    <3>5. \E j \in 1..Len(StepsOf(Advanced(input).kind)) :
            AtStep(Advanced(input), HeldAfter(queue), j)
      BY <3>1, <3>3, <3>4
    <3>6. PICK e \in Input : e = Advanced(input)
      BY <3>4
    <3>7. e.id = queue[1].id /\ \E j \in 1..Len(StepsOf(e.kind)) : AtStep(e, HeldAfter(queue), j)
      BY <3>4, <3>5, <3>6
    <3>8. after = Replaced(queue, e)
      BY <2>10, <3>6 DEF Replaced
    <3>9. PICK g : g = HeldAfter(queue)
      OBVIOUS
    <3>10. \E j \in 1..Len(StepsOf(e.kind)) : AtStep(e, g, j)
      BY <3>7, <3>9
    <3>11. /\ QueueGood(after, g)
           /\ \A i \in DOMAIN after : \E j \in DOMAIN queue : after[i].id = queue[j].id
      BY <1>2, <3>7, <3>8, <3>10, FrontReplaced
    <3> QED
      BY <3>9, <3>11
  <2>11. CASE step = "Coast" /\ after = <<Waited(input)>> \o Tail(queue)
    <3>1. HeldAfter(queue) = held
      BY <2>7, <2>11 DEF HeldBy
    <3>2. AtStep(Waited(input), held, k)
      BY <2>3, <2>5, InputsWritten DEF AtStep
    <3>3. Waited(input) \in Input /\ Waited(input).id = queue[1].id
            /\ Waited(input).kind = input.kind
      BY <2>2, <2>5, InputsWritten
    <3>4. \E j \in 1..Len(StepsOf(Waited(input).kind)) : AtStep(Waited(input), held, j)
      BY <3>2, <3>3
    <3>5. PICK e \in Input : e = Waited(input)
      BY <3>3
    <3>6. e.id = queue[1].id /\ \E j \in 1..Len(StepsOf(e.kind)) : AtStep(e, HeldAfter(queue), j)
      BY <3>1, <3>3, <3>4, <3>5
    <3>7. after = Replaced(queue, e)
      BY <2>11, <3>5 DEF Replaced
    <3>8. PICK g : g = HeldAfter(queue)
      OBVIOUS
    <3>9. \E j \in 1..Len(StepsOf(e.kind)) : AtStep(e, g, j)
      BY <3>6, <3>8
    <3>10. /\ QueueGood(after, g)
           /\ \A i \in DOMAIN after : \E j \in DOMAIN queue : after[i].id = queue[j].id
      BY <1>2, <3>6, <3>7, <3>9, FrontReplaced
    <3> QED
      BY <3>8, <3>10
  <2>12. \/ Len(input.steps) = 1 /\ after = Tail(queue)
         \/ Len(input.steps) # 1 /\ after = <<Advanced(input)>> \o Tail(queue)
         \/ step = "Coast" /\ after = <<Waited(input)>> \o Tail(queue)
    BY <1>2, <2>2, <2>5, <2>6 DEF AfterStep, MayCoast, Coasted, Advanced, Waited
  <2> QED
    BY <2>9, <2>10, <2>11, <2>12
<1> QED
  BY <1>1, <1>2

CommandsGood ==
  /\ QueueGood(inputs, held)
  /\ \A i \in DOMAIN inputs : Applied(inputs[i].id)

LEMMA ApplyInputKeeps ==
  ASSUME CallsInOrder, CommandsGood, ApplyOne, NEW c, c = Head(batch), ApplyInput(c)
  PROVE  CommandsGood'
<1>1. c \in Call /\ c.id \in Nat /\ Applied(c.id)' /\ \A id : Applied(id) => Applied(id)'
  BY ApplyInOrder
<1>2. inputs' = Append(inputs, Pending(c)) /\ held' = held /\ c.kind \in InputKinds
  BY DEF ApplyInput, Behind, ApplyOne
<1>3. batch # <<>> /\ 1 \in DOMAIN batch /\ batch[1] = c
  BY TailProps DEF ApplyOne, CallsInOrder
<1>4. \A i \in DOMAIN inputs : inputs[i].id < c.id
  BY <1>3 DEF CommandsGood, Applied
<1>5. PICK q, h : q = inputs /\ h = held
  OBVIOUS
<1>6. /\ QueueGood(Append(q, Pending(c)), h)
      /\ \A i \in DOMAIN Append(q, Pending(c)) :
           \/ Append(q, Pending(c))[i].id = c.id
           \/ i \in DOMAIN q /\ Append(q, Pending(c))[i].id = q[i].id
  BY <1>1, <1>2, <1>4, <1>5, Pushed DEF CommandsGood
<1>7. inputs' = Append(q, Pending(c)) /\ held' = h
  BY <1>2, <1>5
<1>8. PICK after : after = inputs'
  OBVIOUS
<1>9. \A i \in DOMAIN after : Applied(after[i].id)'
  <2> SUFFICES ASSUME NEW i \in DOMAIN after PROVE Applied(after[i].id)'
    OBVIOUS
  <2>1. after[i].id = c.id \/ Applied(after[i].id)
    BY <1>5, <1>6, <1>7, <1>8 DEF CommandsGood
  <2> QED
    BY <1>1, <2>1
<1> QED
  BY <1>6, <1>7, <1>8, <1>9 DEF CommandsGood

LEMMA PassKeepsCommands ==
  ASSUME CallsInOrder, CommandsGood, Pass
  PROVE  CommandsGood'
<1>1. \A id : Applied(id) => Applied(id)'
  BY CallsStep DEF Next
<1>2. PICK n, rest :
        /\ n \in Refusals
        /\ rest = SubSeq(inputs, n + 1, Len(inputs))
        /\ inputs' \in AfterStep(rest) /\ held' = HeldAfter(rest)
  BY DEF Pass
<1>3. n \in 0..Len(inputs) /\ \A i \in 1..n : MayBeRefused(Head(inputs[i].steps))
  BY <1>2 DEF Refusals
<1>4. PICK q, h : q = inputs /\ h = held
  OBVIOUS
<1>5. /\ QueueGood(rest, h)
      /\ \A i \in DOMAIN rest : i + n \in DOMAIN q /\ rest[i] = q[i + n]
  BY <1>2, <1>3, <1>4, Dropped DEF CommandsGood
<1>6. PICK after : after = inputs'
  OBVIOUS
<1>7. /\ QueueGood(after, HeldAfter(rest))
      /\ \A i \in DOMAIN after : \E j \in DOMAIN rest : after[i].id = rest[j].id
  BY <1>2, <1>4, <1>5, <1>6, Taken
<1>8. \A i \in DOMAIN after : Applied(after[i].id)
  BY <1>4, <1>5, <1>7 DEF CommandsGood
<1>9. \A i \in DOMAIN after : Applied(after[i].id)'
  <2> SUFFICES ASSUME NEW i \in DOMAIN after PROVE Applied(after[i].id)'
    OBVIOUS
  <2> QED
    BY <1>1, <1>8
<1> QED
  BY <1>2, <1>6, <1>7, <1>9 DEF CommandsGood

LEMMA CommandsStep ==
  ASSUME CallsInOrder, CommandsGood, [Next]_wireVars
  PROVE  CommandsGood'
<1>1. \A id : Applied(id) => Applied(id)'
  BY CallsStep
<1>2. CASE UNCHANGED <<inputs, held>>
  <2>1. QueueGood(inputs, held)'
    BY <1>2 DEF CommandsGood, QueueGood, InOrder, AtStep
  <2>2. PICK after : after = inputs'
    OBVIOUS
  <2>3. \A i \in DOMAIN after : Applied(after[i].id)'
    <3> SUFFICES ASSUME NEW i \in DOMAIN after PROVE Applied(after[i].id)'
      OBVIOUS
    <3>1. Applied(after[i].id)
      BY <1>2, <2>2 DEF CommandsGood
    <3> QED
      BY <1>1, <3>1
  <2> QED
    BY <2>1, <2>2, <2>3 DEF CommandsGood
<1>3. CASE Outside
  <2>1. ASSUME NEW kind, NEW image, Send(kind, image) PROVE UNCHANGED <<inputs, held>>
    BY <2>1 DEF Send
  <2>2. ASSUME NEW image, DecodeEnds(image) \/ PersonSelects(image)
        PROVE  UNCHANGED <<inputs, held>>
    BY <2>2 DEF DecodeEnds, PersonSelects, callVars
  <2>3. ASSUME NEW id, Late(id) \/ PersonStarts(id) PROVE UNCHANGED <<inputs, held>>
    BY <2>3 DEF Late, PersonStarts, callVars
  <2>4. CASE WorkerEnds \/ PersonDrags \/ PersonCloses
    BY <1>2, <2>4 DEF WorkerEnds, PersonDrags, PersonCloses, callVars
  <2> QED
    BY <1>2, <1>3, <2>1, <2>2, <2>3, <2>4 DEF Outside
<1>4. CASE BeginFrame \/ Stop \/ Present
  BY <1>2, <1>4 DEF BeginFrame, Stop, Present
<1>5. CASE ApplyOne
  <2>1. PICK c : c = Head(batch)
    OBVIOUS
  <2>2. CASE ApplyInput(c)
    BY <1>5, <2>1, <2>2, ApplyInputKeeps
  <2>3. CASE ApplyRead(c) \/ ApplyTask(c) \/ ApplyCancel(c) \/ ApplyView(c)
    BY <1>2, <1>5, <2>3
    DEF ApplyOne, ApplyRead, ApplyTask, ApplyCancel, ApplyView, Defer, AnswerNow
  <2> QED
    BY <1>5, <2>1, <2>2, <2>3 DEF ApplyOne
<1>6. CASE UNCHANGED wireVars
  BY <1>2, <1>6 DEF wireVars, callVars
<1> QED
  BY <1>3, <1>4, <1>5, <1>6, PassKeepsCommands DEF Next

LEMMA CommandsInit == Init => CallsInOrder /\ CommandsGood
<1> SUFFICES ASSUME Init PROVE CallsInOrder /\ CommandsGood
  OBVIOUS
<1>1. CallsInOrder
  BY Bounds DEF Init, CallsInOrder, InOrder
<1>2. inputs = <<>> /\ held = {}
  BY DEF Init
<1> QED
  BY <1>1, <1>2 DEF CommandsGood, QueueGood, InOrder

LEMMA CommandsAlways == Spec => []CallsInOrder /\ []CommandsGood
<1>1. CallsInOrder /\ [Next]_wireVars => CallsInOrder'
  BY CallsStep
<1>2. CallsInOrder /\ CommandsGood /\ [Next]_wireVars => CommandsGood'
  BY CommandsStep
<1> QED
  BY <1>1, <1>2, CommandsInit, PTL DEF Spec

(* Input commands run one after another, in the order they came, whatever  *)
(* is refused: only the first has begun (InputQueue::before_pass,          *)
(* after_pass).                                                            *)
THEOREM CommandsTakeTurns == Spec => []OneCommandAtATime
<1>1. CommandsGood => OneCommandAtATime
  <2> SUFFICES ASSUME CommandsGood, NEW i \in DOMAIN inputs, NEW j \in DOMAIN inputs, i < j
               PROVE  ~Begun(inputs[j]) /\ inputs[i].id < inputs[j].id
    BY DEF OneCommandAtATime
  <2>1. inputs \in Seq(Input)
    BY DEF CommandsGood, QueueGood
  <2>2. i \in Nat /\ i # 0 /\ j # 1
    BY <2>1, ElementProps
  <2> QED
    BY <2>2 DEF CommandsGood, QueueGood, InOrder, Begun
<1> QED
  BY <1>1, CommandsAlways, PTL

(* A mouse button, a key or modifiers are down only while the command that *)
(* pressed them goes on (PendingInput::step).                              *)
THEOREM WhatIsHeldIsLetGo == Spec => []NothingStaysHeld
<1>1. CommandsGood => NothingStaysHeld
  <2> SUFFICES ASSUME CommandsGood, held # {} PROVE NothingStaysHeld
    BY DEF NothingStaysHeld
  <2>1. inputs # <<>> /\ inputs \in Seq(Input)
    BY DEF CommandsGood, QueueGood
  <2>2. PICK input \in Input : input = Head(inputs) /\ input = inputs[1]
    BY <2>1, TailProps
  <2>3. PICK k \in 1..Len(StepsOf(input.kind)) : AtStep(input, held, k)
    BY <2>1, <2>2 DEF CommandsGood, QueueGood
  <2>4. input.kind \in InputKinds
    BY DEF Input
  <2>5. k # 1 /\ Begun(input)
    BY <2>3, <2>4, FirstStep, LeftProps DEF AtStep, Begun
  <2>6. PICK step \in Steps : step = StepsOf(input.kind)[k] /\ step = Head(input.steps)
    BY <2>3, <2>4, StepsTyped, LeftProps DEF AtStep
  <2>7. held = HeldBefore(input.kind, step)
    BY <2>3, <2>6 DEF AtStep
  <2>8. Modifiers(input.kind) \subseteq {"modifiers"}
    BY DEF Modifiers
  <2>9. "button" \in held => step \in {"DragTo", "Up"}
    BY <2>7, <2>8 DEF HeldBefore
  <2>10. "key" \in held => step = "KeyUp"
    BY <2>7, <2>8 DEF HeldBefore
  <2>11. step \in {"DragTo", "Up"} => input.kind = "drag"
    BY <2>4, <2>6, StepsHold DEF ListHolds
  <2> QED
    BY <2>1, <2>2, <2>5, <2>6, <2>9, <2>10, <2>11 DEF NothingStaysHeld
<1> QED
  BY <1>1, CommandsAlways, PTL

-----------------------------------------------------------------------------
(* The calls that wait.                                                    *)

Waits ==
  [id : CallIds, kind : AllKinds, image : Images, frame : {"none", "this", "old"},
   since : BOOLEAN, late : BOOLEAN, layout : Nat]

Captured(c) == Published(Capture(c))

OneAged(c) == IF c.frame = "this" THEN [c EXCEPT !.frame = "old"] ELSE c

(* What a call that waits keeps, whatever is written of it.                *)
SameCall(c, d) == d.id = c.id /\ d.kind = c.kind /\ d.image = c.image /\ d.layout = c.layout

(* A call waits once.  A picture's widgets are this frame's once the frame *)
(* has passed, and a view's panel was drawn since the call was applied.    *)
DeferredGood ==
  /\ deferred \subseteq Waits
  /\ \A c \in deferred : Applied(c.id)
  /\ \A c, d \in deferred : c.id = d.id => c = d
  /\ phase = "passed" => \A c \in deferred : c.kind = "picture" => c.frame = "this"
  /\ layout \in Nat /\ reading.layout \in Int /\ reading.layout <= layout
  /\ \A c \in deferred : c.layout <= layout /\ (c.since => reading.layout >= c.layout)

LEMMA CapturedWritten ==
  ASSUME NEW c \in Waits
  PROVE  /\ Captured(c) \in Waits /\ SameCall(c, Captured(c)) /\ Captured(c).late = c.late
         /\ c.kind = "picture" => Captured(c).frame = "this"
         /\ Captured(c).since => c.since \/ Publishes
<1>0. /\ Capture(c) \in Waits /\ SameCall(c, Capture(c)) /\ Capture(c).late = c.late
      /\ Capture(c).since = c.since
      /\ c.kind = "picture" => Capture(c).frame = "this"
  BY DEF Capture, Waits, SameCall
<1>1. PICK d \in Waits : /\ d = Capture(c) /\ SameCall(c, d) /\ d.late = c.late /\ d.since = c.since
                         /\ c.kind = "picture" => d.frame = "this"
  BY <1>0
<1>2. /\ Published(d) \in Waits /\ SameCall(d, Published(d)) /\ Published(d).late = d.late
      /\ Published(d).frame = d.frame
      /\ Published(d).since => d.since \/ Publishes
  BY DEF Published, Waits, SameCall
<1> QED
  BY <1>1, <1>2 DEF Captured, SameCall

LEMMA AgedWritten ==
  ASSUME NEW c \in Waits
  PROVE  /\ OneAged(c) \in Waits /\ SameCall(c, OneAged(c))
         /\ OneAged(c).late = c.late /\ OneAged(c).since = c.since
  BY DEF OneAged, Waits, SameCall

LEMMA LateWritten ==
  ASSUME NEW c \in Waits
  PROVE  /\ [c EXCEPT !.late = TRUE] \in Waits /\ SameCall(c, [c EXCEPT !.late = TRUE])
         /\ [c EXCEPT !.late = TRUE].frame = c.frame /\ [c EXCEPT !.late = TRUE].since = c.since
  BY DEF Waits, SameCall

(* A step that only writes in calls that wait, or answers some.            *)
LEMMA OnlyWritten ==
  ASSUME DeferredGood, deferred' \subseteq Waits, \A id : Applied(id) => Applied(id)',
         layout' = layout \/ layout' = layout + 1,
         reading' = reading \/ (reading'.layout = layout /\ layout' = layout),
         \A d \in deferred' : \E c \in deferred : SameCall(c, d) /\ (d.since => c.since \/ reading'.layout = layout),
         \A d, e \in deferred' : d.id = e.id => d = e,
         phase' = "passed" => \A d \in deferred' : d.kind = "picture" => d.frame = "this"
  PROVE  DeferredGood'
<1>1. layout' \in Nat /\ reading'.layout \in Int /\ reading'.layout <= layout'
        /\ reading'.layout >= reading.layout
  BY DEF DeferredGood
<1>2. \A d \in deferred' : Applied(d.id)'
  <2> SUFFICES ASSUME NEW calls, calls = deferred', NEW d \in calls PROVE Applied(d.id)'
    OBVIOUS
  <2>1. Applied(d.id)
    BY DEF DeferredGood, SameCall
  <2> QED
    BY <2>1
<1>3. ASSUME NEW d \in deferred' PROVE d.layout <= layout' /\ (d.since => reading'.layout >= d.layout)
  <2>1. PICK c \in deferred : SameCall(c, d) /\ (d.since => c.since \/ reading'.layout = layout)
    OBVIOUS
  <2>2. c.layout \in Nat /\ c.layout = d.layout
    BY <2>1 DEF DeferredGood, Waits, SameCall
  <2> QED
    BY <1>1, <2>1, <2>2 DEF DeferredGood
<1> QED
  BY <1>1, <1>2, <1>3 DEF DeferredGood

LEMMA LateKeeps ==
  ASSUME DeferredGood, NEW id \in CallIds, Late(id), \A i : Applied(i) => Applied(i)'
  PROVE  DeferredGood'
<1>1. UNCHANGED <<phase, layout, reading>>
  BY DEF Late, viewVars
<1>2. PICK c \in deferred : deferred' = (deferred \ {c}) \cup {[c EXCEPT !.late = TRUE]}
  BY DEF Late
<1>3. PICK d \in Waits : d = [c EXCEPT !.late = TRUE] /\ SameCall(c, d) /\ d.frame = c.frame /\ d.since = c.since
  BY LateWritten DEF DeferredGood
<1>4. deferred' = (deferred \ {c}) \cup {d}
  BY <1>2, <1>3
<1>5. deferred' \subseteq Waits /\ \A x, y \in deferred' : x.id = y.id => x = y
  <2>1. deferred' \subseteq Waits
    BY <1>4 DEF DeferredGood
  <2>2. d.id = c.id
    BY <1>3 DEF SameCall
  <2>3. \A x \in deferred : x.id = c.id => x = c
    BY DEF DeferredGood
  <2>4. \A x \in deferred \ {c} : x.id # d.id
    BY <2>2, <2>3
  <2>5. \A x, y \in deferred \ {c} : x.id = y.id => x = y
    BY DEF DeferredGood
  <2> QED
    BY <1>4, <2>1, <2>4, <2>5
<1>6. \A x \in deferred' : \E y \in deferred : SameCall(y, x) /\ (x.since => y.since \/ reading'.layout = layout)
  BY <1>3, <1>4 DEF SameCall
<1>7. phase' = "passed" => \A x \in deferred' : x.kind = "picture" => x.frame = "this"
  BY <1>1, <1>3, <1>4 DEF DeferredGood, SameCall
<1> QED
  BY <1>1, <1>5, <1>6, <1>7, OnlyWritten

LEMMA PassKeepsDeferred ==
  ASSUME DeferredGood, Pass, \A i : Applied(i) => Applied(i)'
  PROVE  DeferredGood'
<1>1. layout' = layout /\ (reading' = reading \/ reading'.layout = layout)
        /\ (Publishes => reading'.layout = layout)
  BY DEF Pass, PanelDraws, NoPanelDraws, Publishes, viewVars
<1>2. \A d \in deferred' : \E c \in deferred : d = Captured(c)
  BY DEF Pass, Captured
<1>3. \A c \in deferred : /\ Captured(c) \in Waits /\ SameCall(c, Captured(c))
                          /\ c.kind = "picture" => Captured(c).frame = "this"
                          /\ Captured(c).since => c.since \/ Publishes
  BY CapturedWritten DEF DeferredGood
<1>4. deferred' \subseteq Waits
  BY <1>2, <1>3
<1>5. ASSUME NEW d \in deferred', NEW e \in deferred', d.id = e.id PROVE d = e
  <2>1. PICK c \in deferred, b \in deferred : d = Captured(c) /\ e = Captured(b)
    BY <1>2
  <2>2. c.id = b.id
    BY <1>3, <1>5, <2>1 DEF SameCall
  <2> QED
    BY <2>1, <2>2 DEF DeferredGood
<1>6. \A d \in deferred' : \E c \in deferred : SameCall(c, d) /\ (d.since => c.since \/ reading'.layout = layout)
  BY <1>1, <1>2, <1>3
<1>7. \A d \in deferred' : d.kind = "picture" => d.frame = "this"
  BY <1>2, <1>3 DEF SameCall
<1> QED
  BY <1>1, <1>4, <1>5, <1>6, <1>7, OnlyWritten

LEMMA EndOfFrameKeeps ==
  ASSUME DeferredGood, Stop \/ Present, \A i : Applied(i) => Applied(i)'
  PROVE  DeferredGood'
<1>1. UNCHANGED <<layout, reading>> /\ phase' = "idle"
  BY DEF Stop, Present, viewVars
<1>2. \A d \in deferred' : \E c \in deferred : d = OneAged(c)
  BY DEF Stop, Present, Aged, OneAged
<1>3. \A c \in deferred : OneAged(c) \in Waits /\ SameCall(c, OneAged(c)) /\ OneAged(c).since = c.since
  BY AgedWritten DEF DeferredGood
<1>4. deferred' \subseteq Waits
  BY <1>2, <1>3
<1>5. ASSUME NEW d \in deferred', NEW e \in deferred', d.id = e.id PROVE d = e
  <2>1. PICK c \in deferred, b \in deferred : d = OneAged(c) /\ e = OneAged(b)
    BY <1>2
  <2>2. c.id = b.id
    BY <1>3, <1>5, <2>1 DEF SameCall
  <2> QED
    BY <2>1, <2>2 DEF DeferredGood
<1>6. \A d \in deferred' : \E c \in deferred : SameCall(c, d) /\ (d.since => c.since \/ reading'.layout = layout)
  BY <1>2, <1>3
<1> QED
  BY <1>1, <1>4, <1>5, <1>6, OnlyWritten

LEMMA DeferKeeps ==
  ASSUME CallsInOrder, DeferredGood, ApplyOne
  PROVE  DeferredGood'
<1>1. PICK c : c = Head(batch)
  OBVIOUS
<1>2. /\ \A id : Applied(id) => Applied(id)'
      /\ c \in Call /\ Applied(c.id)' /\ ~Applied(c.id)
  BY <1>1, ApplyInOrder
<1>3. UNCHANGED <<phase, layout, reading>> /\ phase # "passed"
  <2>1. UNCHANGED <<layout, reading>>
    BY DEF ApplyOne, ApplyRead, ApplyTask, ApplyCancel, ApplyView, ApplyInput, viewVars
  <2> QED
    BY <2>1 DEF ApplyOne
<1>4. deferred' = deferred \/ deferred' = deferred \cup {Wait(c)}
  BY <1>1 DEF ApplyOne, ApplyRead, ApplyTask, ApplyCancel, ApplyView, ApplyInput, Defer, AnswerNow
<1>5. CASE deferred' = deferred
  <2>1. deferred' \subseteq Waits /\ \A x, y \in deferred' : x.id = y.id => x = y
    BY <1>5 DEF DeferredGood
  <2>2. \A d \in deferred' : \E e \in deferred : SameCall(e, d) /\ (d.since => e.since \/ reading'.layout = layout)
    BY <1>5 DEF SameCall
  <2> QED
    BY <1>2, <1>3, <2>1, <2>2, OnlyWritten
<1>6. CASE deferred' = deferred \cup {Wait(c)}
  <2>0. /\ Wait(c) \in Waits /\ Wait(c).id = c.id /\ Wait(c).layout = layout
        /\ Wait(c).since = FALSE
    BY <1>2 DEF Wait, Waits, Call, DeferredGood
  <2>1. PICK w \in Waits : w = Wait(c) /\ w.id = c.id /\ w.layout = layout /\ w.since = FALSE
    BY <2>0
  <2>2. \A d \in deferred : d.id # w.id
    BY <1>2, <2>1 DEF DeferredGood
  <2>3. \A d \in deferred \cup {w} : Applied(d.id)'
    <3> SUFFICES ASSUME NEW d \in deferred \cup {w} PROVE Applied(d.id)'
      OBVIOUS
    <3>1. d.id = c.id \/ Applied(d.id)
      BY <2>1 DEF DeferredGood
    <3> QED
      BY <1>2, <3>1
  <2>4. deferred' = deferred \cup {w}
    BY <1>6, <2>1
  <2>5. \A d \in deferred' : Applied(d.id)'
    <3> SUFFICES ASSUME NEW calls, calls = deferred', NEW d \in calls PROVE Applied(d.id)'
      OBVIOUS
    <3>1. d \in deferred \cup {w}
      BY <2>4
    <3> QED
      BY <2>3, <3>1
  <2> QED
    BY <1>3, <2>1, <2>2, <2>4, <2>5 DEF DeferredGood
<1> QED
  BY <1>4, <1>5, <1>6

LEMMA DeferredStep ==
  ASSUME CallsInOrder, DeferredGood, [Next]_wireVars
  PROVE  DeferredGood'
<1>1. \A id : Applied(id) => Applied(id)'
  BY CallsStep
<1>2. CASE /\ deferred' = deferred /\ reading' = reading
           /\ phase' # "passed" \/ phase' = phase
           /\ layout' = layout \/ layout' = layout + 1
  <2>1. deferred' \subseteq Waits /\ \A x, y \in deferred' : x.id = y.id => x = y
    BY <1>2 DEF DeferredGood
  <2>2. \A d \in deferred' : \E e \in deferred : SameCall(e, d) /\ (d.since => e.since \/ reading'.layout = layout)
    BY <1>2 DEF SameCall
  <2>3. phase' = "passed" => \A d \in deferred' : d.kind = "picture" => d.frame = "this"
    BY <1>2 DEF DeferredGood
  <2>4. layout' = layout \/ layout' = layout + 1
    BY <1>2
  <2>5. reading' = reading \/ (reading'.layout = layout /\ layout' = layout)
    BY <1>2
  <2> HIDE <1>2
  <2> QED
    BY <1>1, <2>1, <2>2, <2>3, <2>4, <2>5, OnlyWritten
<1>3. CASE Outside
  <2>1. ASSUME NEW kind, NEW image, Send(kind, image) PROVE DeferredGood'
    BY <1>2, <2>1 DEF Send, viewVars
  <2>2. ASSUME NEW image, DecodeEnds(image) \/ PersonSelects(image) PROVE DeferredGood'
    BY <1>2, <2>2 DEF DecodeEnds, PersonSelects, callVars
  <2>3. ASSUME NEW id, PersonStarts(id) PROVE DeferredGood'
    BY <1>2, <2>3 DEF PersonStarts, callVars, viewVars
  <2>4. CASE WorkerEnds \/ PersonDrags \/ PersonCloses
    BY <1>2, <2>4 DEF WorkerEnds, PersonDrags, PersonCloses, callVars, viewVars
  <2> QED
    BY <1>1, <1>3, <2>1, <2>2, <2>3, <2>4, LateKeeps DEF Outside
<1>4. CASE BeginFrame
  BY <1>2, <1>4 DEF BeginFrame, viewVars
<1>5. CASE UNCHANGED wireVars
  BY <1>2, <1>5 DEF wireVars, callVars, viewVars
<1> QED
  BY <1>1, <1>3, <1>4, <1>5, DeferKeeps, PassKeepsDeferred, EndOfFrameKeeps DEF Next

LEMMA DeferredAlways == Spec => []CallsInOrder /\ []DeferredGood
<1>1. Init => DeferredGood
  BY DEF Init, DeferredGood, NoReading
<1>2. CallsInOrder /\ [Next]_wireVars => CallsInOrder'
  BY CallsStep
<1>3. CallsInOrder /\ DeferredGood /\ [Next]_wireVars => DeferredGood'
  BY DeferredStep
<1> QED
  BY <1>1, <1>2, <1>3, CommandsInit, PTL DEF Spec

-----------------------------------------------------------------------------
(* The tasks.                                                              *)

Known(id) == id = running \/ id \in Range(waiting) \/ id \in ended

(* A task is in one place: it runs, it waits once, or it has ended.  The   *)
(* ring remembers only what has ended.  An agent's task is known from the  *)
(* call that started it on.                                                *)
TasksGood ==
  /\ running \in TaskIds \cup {NoTask} /\ ended \subseteq TaskIds
  /\ waiting \in Seq(TaskIds) /\ ring \in Seq(TaskIds) /\ Len(ring) <= Kept
  /\ Range(ring) \subseteq ended
  /\ running \notin ended
  /\ \A i \in DOMAIN waiting : waiting[i] \notin ended /\ waiting[i] # running
  /\ \A i, j \in DOMAIN waiting : i # j => waiting[i] # waiting[j]
  /\ \A id \in CallIds : Known(id) => Applied(id)

LEMMA TaskIdsProps == CallIds \subseteq TaskIds /\ NoTask \notin TaskIds /\ ForeignTasks \subseteq TaskIds
                        /\ CallIds \cap ForeignTasks = {}
  BY Bounds DEF CallIds, TaskIds, NoTask, ForeignTasks

LEMMA SeqRange ==
  ASSUME NEW S, NEW s \in Seq(S)
  PROVE  \A x : x \in Range(s) <=> \E i \in DOMAIN s : x = s[i]
  BY DEF Range

(* The ring keeps the last of what it had and what ended.                  *)
LEMMA Remembered ==
  ASSUME ring \in Seq(TaskIds), NEW ids \in Seq(TaskIds)
  PROVE  /\ Remember(ids) \in Seq(TaskIds) /\ Len(Remember(ids)) <= Kept
         /\ Range(Remember(ids)) \subseteq Range(ring) \cup Range(ids)
<1>1. PICK all : all = ring \o ids
  OBVIOUS
<1>2. all \in Seq(TaskIds) /\ \A i \in DOMAIN all :
        (\E j \in DOMAIN ring : all[i] = ring[j]) \/ (\E j \in DOMAIN ids : all[i] = ids[j])
  BY <1>1
<1>3. PICK m : m = IF Len(all) > Kept THEN Len(all) - Kept + 1 ELSE 1
  OBVIOUS
<1>4. PICK n \in Nat : n = Len(all)
  BY <1>2
<1>5. m \in Nat /\ m >= 1 /\ m <= n + 1 /\ n - m + 1 <= Kept
  BY <1>3, <1>4, Bounds
<1>6. PICK kept : kept = SubSeq(all, m, n)
  OBVIOUS
<1>7. /\ kept \in Seq(TaskIds) /\ Len(kept) = n - m + 1
      /\ \A i \in DOMAIN kept : i \in Nat /\ i + m - 1 \in DOMAIN all /\ kept[i] = all[i + m - 1]
  BY <1>2, <1>4, <1>5, <1>6
<1>8. Remember(ids) = kept
  BY <1>1, <1>3, <1>4, <1>6 DEF Remember
<1>9. Range(kept) \subseteq Range(ring) \cup Range(ids)
  BY <1>2, <1>7 DEF Range
<1> QED
  BY <1>5, <1>7, <1>8, <1>9

LEMMA StartedKeeps ==
  ASSUME TasksGood, NEW id \in TaskIds, ~Known(id), StartOrWait(id), UNCHANGED <<ring, ended>>,
         \A i : Applied(i) => Applied(i)', id \in CallIds => Applied(id)'
  PROVE  TasksGood' /\ Known(id)' /\ \A i \in TaskIds : Known(i) => Known(i)'
<1>1. id # running /\ id \notin ended /\ \A i \in DOMAIN waiting : waiting[i] # id
  BY DEF Known, Range
<1>2. CASE running = NoTask /\ running' = id /\ waiting' = waiting
  <2>1. \A i \in DOMAIN waiting : waiting[i] # NoTask
    BY TaskIdsProps, ElementProps DEF TasksGood
  <2>2. \A i : Known(i)' => Known(i) \/ i = id
    BY <1>2 DEF Known
  <2>3. Known(id)' /\ \A i \in TaskIds : Known(i) => Known(i)'
    BY <1>2, TaskIdsProps DEF Known
  <2>4. \A i \in CallIds : Known(i)' => Applied(i)'
    BY <2>2 DEF TasksGood
  <2> QED
    BY <1>1, <1>2, <2>3, <2>4 DEF TasksGood
<1>3. CASE running' = running /\ waiting' = Append(waiting, id)
  <2>1. /\ waiting' \in Seq(TaskIds) /\ Len(waiting) \in Nat
        /\ DOMAIN waiting' = 1..(Len(waiting) + 1) /\ DOMAIN waiting = 1..Len(waiting)
        /\ \A i \in DOMAIN waiting : waiting'[i] = waiting[i]
        /\ waiting'[Len(waiting) + 1] = id
    BY <1>3, AppendProps DEF TasksGood
  <2>2. \A i : i \in Range(waiting') <=> i \in Range(waiting) \/ i = id
    BY <2>1 DEF Range
  <2>3. \A i : Known(i)' <=> Known(i) \/ i = id
    BY <1>3, <2>2 DEF Known
  <2>4. \A i \in CallIds : Known(i)' => Applied(i)'
    BY <2>3 DEF TasksGood
  <2>5. \A i \in DOMAIN waiting' : waiting'[i] \notin ended /\ waiting'[i] # running
    BY <1>1, <2>1 DEF TasksGood
  <2>6. \A i, j \in DOMAIN waiting' : i # j => waiting'[i] # waiting'[j]
    BY <1>1, <2>1 DEF TasksGood
  <2> QED
    BY <1>3, <2>1, <2>3, <2>4, <2>5, <2>6 DEF TasksGood
<1> QED
  BY <1>2, <1>3 DEF StartOrWait

(* The running task lands and the next one starts.                         *)
LEMMA PollKeeps ==
  ASSUME TasksGood, Poll, \A i : Applied(i) => Applied(i)'
  PROVE  TasksGood' /\ \A i \in TaskIds : Known(i) => Known(i)'
<1>1. CASE UNCHANGED taskVars
  <2>1. \A i : Known(i)' <=> Known(i)
    BY <1>1 DEF Known, taskVars
  <2> QED
    BY <1>1, <2>1 DEF TasksGood, taskVars
<1>2. CASE running # NoTask /\ reported
  <2>1. /\ ring' = Remember(<<running>>) /\ ended' = ended \cup {running}
        /\ running' = IF waiting = <<>> THEN NoTask ELSE Head(waiting)
        /\ waiting' = IF waiting = <<>> THEN waiting ELSE Tail(waiting)
    BY <1>2 DEF Poll, End, Range
  <2>2. running \in TaskIds /\ <<running>> \in Seq(TaskIds) /\ Range(<<running>>) = {running}
    BY <1>2 DEF TasksGood, Range
  <2>3. ring' \in Seq(TaskIds) /\ Len(ring') <= Kept /\ Range(ring') \subseteq ended'
    BY <2>1, <2>2, Remembered DEF TasksGood
  <2>4. CASE waiting = <<>>
    <3>1. running' = NoTask /\ waiting' = <<>> /\ Range(waiting) = {} /\ Range(waiting') = {}
      BY <2>1, <2>4 DEF Range
    <3>2. \A i : Known(i)' <=> (i = NoTask \/ i = running \/ i \in ended)
      BY <2>1, <3>1 DEF Known
    <3>3. \A i \in CallIds : Known(i)' => Applied(i)'
      BY <3>2, TaskIdsProps DEF TasksGood, Known
    <3>4. \A i \in TaskIds : Known(i) => Known(i)'
      BY <3>1, <3>2 DEF Known
    <3> QED
      BY <2>1, <2>2, <2>3, <3>1, <3>3, <3>4, TaskIdsProps DEF TasksGood
  <2>5. CASE waiting # <<>>
    <3>1. PICK first : first = Head(waiting)
      OBVIOUS
    <3>2. /\ first \in TaskIds /\ first = waiting[1] /\ 1 \in DOMAIN waiting
          /\ Tail(waiting) \in Seq(TaskIds)
          /\ \A i \in DOMAIN Tail(waiting) :
               i \in Nat /\ i # 0 /\ i + 1 \in DOMAIN waiting /\ Tail(waiting)[i] = waiting[i + 1]
          /\ \A i \in DOMAIN waiting : i \in Nat /\ (i # 1 => i - 1 \in DOMAIN Tail(waiting))
      BY <2>5, <3>1, TailProps, ElementProps DEF TasksGood
    <3>3. running' = first /\ waiting' = Tail(waiting)
      BY <2>1, <2>5, <3>1
    <3>4. \A x : x \in Range(waiting) <=> x = first \/ x \in Range(waiting')
      <4>1. ASSUME NEW x, x \in Range(waiting') PROVE x \in Range(waiting)
        BY <3>2, <3>3, <4>1 DEF Range
      <4>2. ASSUME NEW i \in DOMAIN waiting, i # 1 PROVE waiting[i] \in Range(waiting')
        <5>1. i - 1 \in DOMAIN Tail(waiting) /\ Tail(waiting)[i - 1] = waiting[i]
          BY <3>2, <4>2
        <5> QED
          BY <3>3, <5>1 DEF Range
      <4> QED
        BY <3>2, <4>1, <4>2 DEF Range
    <3>5. \A i : Known(i)' <=> Known(i)
      BY <2>1, <3>3, <3>4 DEF Known
    <3>6. \A i \in CallIds : Known(i)' => Applied(i)'
      BY <3>5 DEF TasksGood
    <3>7. first \notin ended' /\ \A i \in DOMAIN waiting' : waiting'[i] \notin ended' /\ waiting'[i] # first
      BY <2>1, <3>2, <3>3 DEF TasksGood
    <3>8. \A i, j \in DOMAIN waiting' : i # j => waiting'[i] # waiting'[j]
      BY <3>2, <3>3 DEF TasksGood
    <3> QED
      BY <2>1, <2>2, <2>3, <3>2, <3>3, <3>5, <3>6, <3>7, <3>8 DEF TasksGood
  <2> QED
    BY <2>4, <2>5
<1> QED
  BY <1>1, <1>2 DEF Poll

LEMMA CancelKeepsTasks ==
  ASSUME TasksGood, NEW c, ApplyCancel(c), \A i : Applied(i) => Applied(i)'
  PROVE  TasksGood' /\ \A i \in TaskIds : Known(i) => Known(i)'
<1>1. /\ ring' = Remember(waiting) /\ ended' = ended \cup Range(waiting)
      /\ running' = running /\ waiting' = <<>>
  BY DEF ApplyCancel, End
<1>2. Range(waiting) \subseteq TaskIds /\ Range(waiting') = {} /\ running \notin Range(waiting)
  BY <1>1 DEF TasksGood, Range
<1>3. ring' \in Seq(TaskIds) /\ Len(ring') <= Kept /\ Range(ring') \subseteq ended'
  BY <1>1, Remembered DEF TasksGood
<1>4. \A i : Known(i)' <=> Known(i)
  BY <1>1, <1>2 DEF Known
<1>5. \A i \in CallIds : Known(i)' => Applied(i)'
  BY <1>4 DEF TasksGood
<1> QED
  BY <1>1, <1>2, <1>3, <1>4, <1>5 DEF TasksGood

(* A task call that waits for its answer is about a task that is known.    *)
TaskWaits == \A c \in deferred : c.kind = "task" => Known(c.id)

LEMMA TasksStep ==
  ASSUME CallsInOrder, TasksGood, [Next]_wireVars
  PROVE  TasksGood' /\ \A i \in TaskIds : Known(i) => Known(i)'
<1>1. \A id : Applied(id) => Applied(id)'
  BY CallsStep
<1>2. CASE UNCHANGED <<running, waiting, ring, ended>>
  <2>1. \A i : Known(i)' <=> Known(i)
    BY <1>2 DEF Known
  <2>2. \A i \in CallIds : Known(i)' => Applied(i)'
    BY <1>1, <2>1 DEF TasksGood
  <2> QED
    BY <1>2, <2>1, <2>2 DEF TasksGood
<1>3. CASE Outside
  <2>1. ASSUME NEW kind, NEW image, Send(kind, image) PROVE UNCHANGED <<running, waiting, ring, ended>>
    BY <2>1 DEF Send, taskVars
  <2>2. ASSUME NEW image, DecodeEnds(image) \/ PersonSelects(image)
        PROVE  UNCHANGED <<running, waiting, ring, ended>>
    BY <2>2 DEF DecodeEnds, PersonSelects, taskVars
  <2>3. ASSUME NEW id, Late(id) PROVE UNCHANGED <<running, waiting, ring, ended>>
    BY <2>3 DEF Late, taskVars
  <2>4. CASE WorkerEnds \/ PersonDrags \/ PersonCloses
    BY <1>2, <2>4 DEF WorkerEnds, PersonDrags, PersonCloses, taskVars
  <2>5. ASSUME NEW id \in ForeignTasks, PersonStarts(id)
        PROVE  TasksGood' /\ \A i \in TaskIds : Known(i) => Known(i)'
    <3>1. id \in TaskIds /\ id \notin CallIds
      BY TaskIdsProps
    <3>2. ~Known(id) /\ StartOrWait(id) /\ UNCHANGED <<ring, ended>>
      BY <2>5 DEF PersonStarts, Known
    <3> QED
      BY <1>1, <3>1, <3>2, StartedKeeps
  <2> QED
    BY <1>2, <1>3, <2>1, <2>2, <2>3, <2>4, <2>5 DEF Outside
<1>4. CASE BeginFrame
  BY <1>1, <1>4, PollKeeps DEF BeginFrame
<1>5. CASE ApplyOne
  <2>1. PICK c : c = Head(batch)
    OBVIOUS
  <2>2. /\ c.id \in CallIds /\ Applied(c.id)' /\ ~Applied(c.id)
    BY <1>5, <2>1, ApplyInOrder DEF Call
  <2>3. CASE ApplyTask(c)
    <3>1. c.id \in TaskIds /\ ~Known(c.id)
      BY <2>2, TaskIdsProps DEF TasksGood
    <3>2. UNCHANGED <<ring, ended>> /\ (StartOrWait(c.id) \/ UNCHANGED <<running, waiting>>)
      BY <2>3 DEF ApplyTask
    <3> QED
      BY <1>1, <1>2, <2>2, <3>1, <3>2, StartedKeeps
  <2>4. CASE ApplyCancel(c)
    BY <1>1, <2>4, CancelKeepsTasks
  <2>5. CASE ApplyRead(c) \/ ApplyView(c) \/ ApplyInput(c)
    BY <1>2, <2>5 DEF ApplyRead, ApplyView, ApplyInput, taskVars
  <2> QED
    BY <1>5, <2>1, <2>3, <2>4, <2>5 DEF ApplyOne
<1>6. CASE Pass \/ Stop \/ Present \/ UNCHANGED wireVars
  BY <1>2, <1>6 DEF Pass, Stop, Present, wireVars, taskVars
<1> QED
  BY <1>3, <1>4, <1>5, <1>6 DEF Next

LEMMA TaskWaitsStep ==
  ASSUME CallsInOrder, DeferredGood, TasksGood, TaskWaits, [Next]_wireVars
  PROVE  TaskWaits'
<1>1. \A i \in TaskIds : Known(i) => Known(i)'
  BY TasksStep
<1>2. CASE \A d \in deferred' : \E c \in deferred : SameCall(c, d)
  <2> SUFFICES ASSUME NEW calls, calls = deferred', NEW d \in calls, d.kind = "task" PROVE Known(d.id)'
    BY DEF TaskWaits
  <2>1. PICK c \in deferred : SameCall(c, d)
    BY <1>2
  <2>2. c.id = d.id /\ c.id \in TaskIds /\ Known(c.id)
    BY <2>1, TaskIdsProps DEF SameCall, TaskWaits, DeferredGood, Waits
  <2> QED
    BY <1>1, <2>2
<1>3. CASE deferred' = deferred
  BY <1>2, <1>3 DEF SameCall
<1>4. CASE Outside
  <2>1. ASSUME NEW kind, NEW image, Send(kind, image) PROVE deferred' = deferred
    BY <2>1 DEF Send
  <2>2. ASSUME NEW image, DecodeEnds(image) \/ PersonSelects(image) PROVE deferred' = deferred
    BY <2>2 DEF DecodeEnds, PersonSelects, callVars
  <2>3. ASSUME NEW id, PersonStarts(id) PROVE deferred' = deferred
    BY <2>3 DEF PersonStarts, callVars
  <2>4. CASE WorkerEnds \/ PersonDrags \/ PersonCloses
    BY <1>3, <2>4 DEF WorkerEnds, PersonDrags, PersonCloses, callVars
  <2>5. ASSUME NEW id, Late(id) PROVE \A d \in deferred' : \E c \in deferred : SameCall(c, d)
    <3>1. PICK c \in deferred : deferred' = (deferred \ {c}) \cup {[c EXCEPT !.late = TRUE]}
      BY <2>5 DEF Late
    <3>2. SameCall(c, [c EXCEPT !.late = TRUE])
      BY LateWritten DEF DeferredGood
    <3> QED
      BY <3>1, <3>2 DEF SameCall
  <2> QED
    BY <1>2, <1>3, <1>4, <2>1, <2>2, <2>3, <2>4, <2>5 DEF Outside
<1>5. CASE BeginFrame \/ UNCHANGED wireVars
  BY <1>3, <1>5 DEF BeginFrame, wireVars, callVars
<1>6. CASE Pass
  <2>1. \A d \in deferred' : \E c \in deferred : d = Captured(c)
    BY <1>6 DEF Pass, Captured
  <2>2. \A c \in deferred : SameCall(c, Captured(c))
    BY CapturedWritten DEF DeferredGood
  <2> QED
    BY <1>2, <2>1, <2>2
<1>7. CASE Stop \/ Present
  <2>1. \A d \in deferred' : \E c \in deferred : d = OneAged(c)
    BY <1>7 DEF Stop, Present, Aged, OneAged
  <2>2. \A c \in deferred : SameCall(c, OneAged(c))
    BY AgedWritten DEF DeferredGood
  <2> QED
    BY <1>2, <2>1, <2>2
<1>8. CASE ApplyOne
  <2>1. PICK c : c = Head(batch)
    OBVIOUS
  <2>2. c.id \in CallIds /\ ~Applied(c.id) /\ c.id \in TaskIds
    BY <1>8, <2>1, ApplyInOrder, TaskIdsProps DEF Call
  <2>3. CASE deferred' = deferred
    BY <1>3, <2>3
  <2>4. CASE deferred' = deferred \cup {Wait(c)} /\ (c.kind = "task" => StartOrWait(c.id) /\ UNCHANGED <<ring, ended>>)
    <3>1. Wait(c).id = c.id /\ Wait(c).kind = c.kind
      BY DEF Wait
    <3>2. c.kind = "task" => Known(c.id)'
      <4>1. ~Known(c.id) /\ Applied(c.id)'
        BY <1>8, <2>1, <2>2, ApplyInOrder DEF TasksGood
      <4>2. \A i : Applied(i) => Applied(i)'
        BY CallsStep
      <4> QED
        BY <2>2, <2>4, <4>1, <4>2, StartedKeeps
    <3> SUFFICES ASSUME NEW calls, calls = deferred', NEW d \in calls, d.kind = "task" PROVE Known(d.id)'
      BY DEF TaskWaits
    <3>3. (d.id = c.id /\ c.kind = "task") \/ (d.id \in TaskIds /\ Known(d.id))
      BY <2>4, <3>1, TaskIdsProps DEF TaskWaits, DeferredGood, Waits
    <3> QED
      BY <1>1, <3>2, <3>3
  <2> QED
    BY <1>8, <2>1, <2>3, <2>4
    DEF ApplyOne, ApplyRead, ApplyTask, ApplyCancel, ApplyView, ApplyInput, Defer, AnswerNow
<1> QED
  BY <1>4, <1>5, <1>6, <1>7, <1>8 DEF Next

-----------------------------------------------------------------------------
(* Types.                                                                  *)

Replies ==
  {NoAnswer, "done", "picture", "listing", "result", "handle", "displaced", "view", "notDrawn",
   "input", "refused"}

LEMMA PresentReplies ==
  ASSUME NEW c
  PROVE  AnswerOf(c) \subseteq {"picture", "result", "displaced", "handle", "view", "notDrawn"}
  BY DEF AnswerOf, BackgroundReply, ViewReply

LEMMA PassReplies ==
  ASSUME NEW n, NEW id \in CallIds
  PROVE  InputAnswers(n)[id] \in {"refused", "input", answers[id]}
  BY DEF InputAnswers

LEMMA HeldTyped ==
  ASSUME held \subseteq {"button", "key", "modifiers"}, NEW queue
  PROVE  HeldAfter(queue) \subseteq {"button", "key", "modifiers"}
<1>1. \A kind, step : HeldBy(kind, step) \subseteq {"button", "key", "modifiers"}
  <2> SUFFICES ASSUME NEW kind, NEW step
               PROVE  HeldBy(kind, step) \subseteq {"button", "key", "modifiers"}
    OBVIOUS
  <2>1. Modifiers(kind) \subseteq {"modifiers"}
    BY DEF Modifiers
  <2> QED
    BY <2>1 DEF HeldBy
<1> QED
  BY <1>1 DEF HeldAfter

LEMMA TypesStep ==
  ASSUME CallsInOrder, TasksGood, TasksGood', TypeOK, [Next]_wireVars
  PROVE  TypeOK'
<1>1. /\ sent' \in 0..MaxCalls /\ running' \in TaskIds \cup {NoTask} /\ ended' \subseteq TaskIds
      /\ Len(ring') <= Kept
  BY CallsStep DEF CallsInOrder, TasksGood
<1>2. CASE UNCHANGED <<answers, held, selected, look, framed>> /\ phase' \in {phase, "idle", "apply"}
             /\ leaf' \in {leaf, "closed"} /\ wanted' \in BOOLEAN /\ reported' \in BOOLEAN
  BY <1>1, <1>2 DEF TypeOK
<1>3. CASE Outside
  <2>1. ASSUME NEW kind, NEW image, Send(kind, image) PROVE TypeOK'
    BY <1>2, <2>1 DEF Send, taskVars, viewVars, TypeOK
  <2>2. ASSUME NEW image, DecodeEnds(image) PROVE TypeOK'
    BY <1>2, <2>2 DEF DecodeEnds, callVars, taskVars, TypeOK
  <2>3. ASSUME NEW image \in Images, PersonSelects(image) PROVE TypeOK'
    BY <1>1, <2>3 DEF PersonSelects, callVars, taskVars, TypeOK
  <2>4. ASSUME NEW id, Late(id) PROVE TypeOK'
    BY <1>2, <2>4 DEF Late, taskVars, viewVars, TypeOK
  <2>5. ASSUME NEW id, PersonStarts(id) PROVE TypeOK'
    BY <1>2, <2>5 DEF PersonStarts, StartOrWait, callVars, viewVars, TypeOK
  <2>6. CASE WorkerEnds \/ PersonDrags \/ PersonCloses
    BY <1>2, <2>6 DEF WorkerEnds, PersonDrags, PersonCloses, callVars, taskVars, viewVars, TypeOK
  <2> QED
    BY <1>3, <2>1, <2>2, <2>3, <2>4, <2>5, <2>6 DEF Outside
<1>4. CASE BeginFrame
  BY <1>2, <1>4 DEF BeginFrame, Poll, taskVars, viewVars, TypeOK
<1>5. CASE Stop
  <2>1. wanted' \in BOOLEAN
    BY <1>5 DEF Stop, FramesKeepComing, TypeOK
  <2> QED
    BY <1>2, <1>5, <2>1 DEF Stop, taskVars, viewVars, TypeOK
<1>6. CASE Present
  <2>1. wanted' \in BOOLEAN
    BY <1>6 DEF Present, FramesKeepComing, TypeOK
  <2>2. answers' \in [CallIds -> Replies]
    <3> SUFFICES ASSUME NEW id \in CallIds
                 PROVE  LET now == UNION {AnswerOf(c) : c \in {d \in deferred : d.id = id}}
                        IN (IF now = {} THEN answers[id] ELSE CHOOSE a \in now : TRUE) \in Replies
      BY <1>6 DEF Present
    <3> DEFINE now == UNION {AnswerOf(c) : c \in {d \in deferred : d.id = id}}
    <3>1. now \subseteq Replies
      BY PresentReplies DEF Replies
    <3>2. answers[id] \in Replies
      BY DEF TypeOK, Replies
    <3> HIDE DEF now
    <3>3. now # {} => (CHOOSE a \in now : TRUE) \in now
      OBVIOUS
    <3> QED
      BY <3>1, <3>2, <3>3 DEF now
  <2> QED
    BY <1>1, <1>6, <2>1, <2>2 DEF Present, taskVars, viewVars, TypeOK, Replies
<1>7. CASE Pass
  <2> DEFINE captured == {Published(Capture(c)) : c \in deferred}
  <2>1. PICK n \in Refusals :
          /\ held' = HeldAfter(SubSeq(inputs, n + 1, Len(inputs)))
          /\ wanted' = (wanted \/ SubSeq(inputs, n + 1, Len(inputs)) # <<>>)
          /\ answers' = [id \in CallIds |->
               IF \E c \in Listings(captured) : c.id = id THEN "listing" ELSE InputAnswers(n)[id]]
    BY <1>7, Zenon DEF Pass
  <2>2. answers' \in [CallIds -> Replies]
    <3>1. \A id \in CallIds : InputAnswers(n)[id] \in Replies
      <4> SUFFICES ASSUME NEW id \in CallIds PROVE InputAnswers(n)[id] \in Replies
        OBVIOUS
      <4>1. answers[id] \in Replies
        BY DEF TypeOK, Replies
      <4> QED
        BY <4>1, PassReplies DEF Replies
    <3> QED
      BY <2>1, <3>1 DEF Replies
  <2>3. held' \subseteq {"button", "key", "modifiers"}
    BY <2>1, HeldTyped DEF TypeOK
  <2>4. /\ phase' = "passed" /\ UNCHANGED <<reported, selected>>
        /\ look' \in {look, NoCall} /\ framed' \in {framed, look} /\ leaf' \in {leaf, "laid"}
    BY <1>7 DEF Pass, PanelDraws, NoPanelDraws, taskVars, viewVars
  <2>5. wanted' \in BOOLEAN
    BY <2>1
  <2> QED
    BY <1>1, <2>2, <2>3, <2>4, <2>5 DEF TypeOK, Replies
<1>8. CASE ApplyOne
  <2>1. PICK c : c = Head(batch)
    OBVIOUS
  <2>2. c.id \in CallIds /\ c.image \in Images
    BY <1>8, <2>1, ApplyInOrder DEF Call
  <2>3. UNCHANGED <<phase, wanted, held>>
    BY <1>8 DEF ApplyOne
  <2>4. CASE ApplyRead(c) \/ ApplyInput(c)
    BY <1>2, <2>3, <2>4 DEF ApplyRead, ApplyInput, Defer, taskVars, viewVars, TypeOK
  <2>5. ASSUME NEW how \in {"done", "view"}, AnswerNow(c, how) PROVE answers' \in [CallIds -> Replies]
    BY <2>5 DEF AnswerNow, TypeOK, Replies
  <2>6. CASE ApplyTask(c)
    <3>1. reported' \in BOOLEAN /\ UNCHANGED viewVars /\ (answers' = answers \/ AnswerNow(c, "done"))
      BY <2>6 DEF ApplyTask, StartOrWait, Defer, TypeOK
    <3> QED
      BY <1>1, <2>3, <2>5, <3>1 DEF viewVars, TypeOK, Replies
  <2>7. CASE ApplyCancel(c)
    BY <1>1, <2>3, <2>5, <2>7 DEF ApplyCancel, viewVars, TypeOK, Replies
  <2>8. CASE ApplyView(c)
    <3>1. answers' = answers \/ AnswerNow(c, "view")
      BY <2>8 DEF ApplyView, Defer
    <3>2. leaf' \in {leaf, "new", "laid"}
      BY <2>8 DEF ApplyView, Surface
    <3> QED
      BY <1>1, <2>2, <2>3, <2>5, <2>8, <3>1, <3>2 DEF ApplyView, taskVars, TypeOK, Replies
  <2> QED
    BY <1>8, <2>1, <2>4, <2>6, <2>7, <2>8 DEF ApplyOne
<1>9. CASE UNCHANGED wireVars
  BY <1>2, <1>9 DEF wireVars, callVars, taskVars, viewVars, TypeOK
<1> QED
  BY <1>3, <1>4, <1>5, <1>6, <1>7, <1>8, <1>9 DEF Next

WireInv ==
  /\ CallsInOrder /\ DeferredGood /\ TasksGood /\ TaskWaits /\ TypeOK

LEMMA WireInvAlways == Spec => []WireInv
<1>1. Init => WireInv
  <2> SUFFICES ASSUME Init PROVE WireInv
    OBVIOUS
  <2>1. CallsInOrder
    BY CommandsInit
  <2>2. DeferredGood /\ TaskWaits
    BY DEF Init, DeferredGood, NoReading, TaskWaits
  <2>3. TasksGood
    <3>1. running = NoTask /\ waiting = <<>> /\ ring = <<>> /\ ended = {}
      BY DEF Init
    <3>2. Range(waiting) = {} /\ Range(ring) = {} /\ Len(ring) = 0
      BY <3>1 DEF Range
    <3> QED
      BY <3>1, <3>2, Bounds, TaskIdsProps DEF TasksGood, Known
  <2>4. answers \in [CallIds -> Replies]
    BY DEF Init, Replies
  <2>5. TypeOK
    BY <2>1, <2>3, <2>4, Bounds DEF CallsInOrder, TasksGood, Init, TypeOK, Replies
  <2> QED
    BY <2>1, <2>2, <2>3, <2>5 DEF WireInv
<1>2. WireInv /\ [Next]_wireVars => WireInv'
  BY CallsStep, DeferredStep, TasksStep, TaskWaitsStep, TypesStep DEF WireInv
<1> QED
  BY <1>1, <1>2, PTL DEF Spec

(* The endpoint's state keeps its types, for any number of calls, tasks    *)
(* and photographs; the ring never holds more than it may (keep_finished). *)
THEOREM WireTypes == Spec => []TypeOK
<1>1. WireInv => TypeOK
  BY DEF WireInv
<1> QED
  BY <1>1, WireInvAlways, PTL

-----------------------------------------------------------------------------
(* Answers.                                                                *)

AnsweredByFrame == {"result", "displaced", "handle", "picture", "view"}

(* What a call may be answered with after the present, and as it is        *)
(* applied.                                                                *)
LEMMA AnswersComeFrom ==
  ASSUME TypeOK, [Next]_wireVars, NEW id \in CallIds, NEW how \in AnsweredByFrame,
         AnsweredAs(id, how)
  PROVE  \/ Present /\ \E d \in deferred : d.id = id /\ how \in AnswerOf(d)
         \/ ApplyOne /\ ApplyView(Head(batch)) /\ AnsweredAtOnce /\ Head(batch).id = id /\ how = "view"
<1>1. answers' # answers /\ answers'[id] = how /\ answers[id] = NoAnswer /\ how # NoAnswer
  BY DEF AnsweredAs, Answered, AnsweredByFrame, NoAnswer
<1>2. answers \in [CallIds -> Replies]
  BY DEF TypeOK, Replies
<1>3. CASE Outside
  <2>1. ASSUME NEW kind, NEW image, Send(kind, image) PROVE answers' = answers
    BY <2>1 DEF Send
  <2>2. ASSUME NEW image, DecodeEnds(image) \/ PersonSelects(image) PROVE answers' = answers
    BY <2>2 DEF DecodeEnds, PersonSelects, callVars
  <2>3. ASSUME NEW call, Late(call) \/ PersonStarts(call) PROVE answers' = answers
    BY <2>3 DEF Late, PersonStarts, callVars
  <2>4. CASE WorkerEnds \/ PersonDrags \/ PersonCloses
    BY <1>1, <2>4 DEF WorkerEnds, PersonDrags, PersonCloses, callVars
  <2> QED
    BY <1>1, <1>3, <2>1, <2>2, <2>3, <2>4 DEF Outside
<1>4. CASE BeginFrame \/ Stop \/ UNCHANGED wireVars
  BY <1>1, <1>4 DEF BeginFrame, Stop, wireVars, callVars
<1>5. CASE Pass
  <2> DEFINE captured == {Published(Capture(c)) : c \in deferred}
  <2>1. PICK n \in Refusals : answers' = [call \in CallIds |->
               IF \E c \in Listings(captured) : c.id = call THEN "listing" ELSE InputAnswers(n)[call]]
    BY <1>5, Zenon DEF Pass
  <2>2. answers'[id] \in {"listing", "refused", "input", NoAnswer}
    BY <1>1, <2>1, PassReplies
  <2> QED
    BY <1>1, <2>2 DEF AnsweredByFrame
<1>6. CASE Present
  <2> DEFINE now == UNION {AnswerOf(c) : c \in {d \in deferred : d.id = id}}
  <2>1. answers'[id] = IF now = {} THEN answers[id] ELSE CHOOSE a \in now : TRUE
    BY <1>6 DEF Present
  <2>2. now # {} /\ answers'[id] = CHOOSE a \in now : TRUE
    BY <1>1, <2>1
  <2>3. how \in now
    <3> HIDE DEF now
    <3> QED
      BY <1>1, <2>2
  <2> QED
    BY <1>6, <2>3
<1>7. CASE ApplyOne
  <2>1. PICK c : c = Head(batch)
    OBVIOUS
  <2>2. ASSUME NEW answer, AnswerNow(c, answer) PROVE answer = how /\ c.id = id
    BY <1>1, <1>2, <2>2 DEF AnswerNow
  <2>3. CASE ApplyRead(c) \/ ApplyInput(c)
    BY <1>1, <2>3 DEF ApplyRead, ApplyInput, Defer
  <2>4. CASE ApplyTask(c) \/ ApplyCancel(c)
    BY <1>1, <2>2, <2>4 DEF ApplyTask, ApplyCancel, Defer, AnsweredByFrame
  <2>5. CASE ApplyView(c)
    BY <1>1, <1>7, <2>1, <2>2, <2>5 DEF ApplyView, Defer
  <2> QED
    BY <1>7, <2>1, <2>3, <2>4, <2>5 DEF ApplyOne
<1> QED
  BY <1>3, <1>4, <1>5, <1>6, <1>7 DEF Next

LEMMA RepliesStep ==
  ASSUME WireInv, [Next]_wireVars, NEW id \in CallIds
  PROVE  /\ AnsweredAs(id, "result") \/ AnsweredAs(id, "displaced") => id \in ended
         /\ AnsweredAs(id, "handle") => id \notin ended
<1>1. TypeOK /\ TasksGood /\ TaskWaits /\ id \in TaskIds
  BY TaskIdsProps DEF WireInv
<1>2. ASSUME NEW how \in {"result", "displaced", "handle"}, AnsweredAs(id, how)
      PROVE  \E d \in deferred : d.id = id /\ d.kind = "task" /\ how \in BackgroundReply(d)
  <2>1. PICK d \in deferred : d.id = id /\ how \in AnswerOf(d)
    BY <1>1, <1>2, AnswersComeFrom DEF AnsweredByFrame
  <2>2. d.kind = "task"
    BY <2>1 DEF AnswerOf, ViewReply
  <2> QED
    BY <2>1, <2>2 DEF AnswerOf
<1>3. ASSUME NEW how \in {"result", "displaced", "handle"}, AnsweredAs(id, how)
      PROVE  /\ Known(id)
             /\ how = "result" => StateOf(id) = "finished"
             /\ how = "displaced" => StateOf(id) = "none"
             /\ how = "handle" => Handled(StateOf(id))
  <2>1. PICK d \in deferred : d.id = id /\ d.kind = "task" /\ how \in BackgroundReply(d)
    BY <1>2, <1>3
  <2> QED
    BY <1>1, <2>1 DEF BackgroundReply, TaskWaits
<1>4. /\ StateOf(id) = "finished" => id \in Range(ring)
      /\ StateOf(id) = "none" => id # running /\ id \notin Range(waiting)
      /\ Handled(StateOf(id)) => id = running \/ id \in Range(waiting)
  BY DEF StateOf, Handled
<1>5. /\ id \in Range(ring) => id \in ended
      /\ id = running \/ id \in Range(waiting) => id \notin ended
  BY <1>1 DEF TasksGood, Range
<1> QED
  BY <1>3, <1>4, <1>5 DEF Known

(* A reply about a background task is true: a result, or the word that its *)
(* outcome was lost, of a task that has ended; a handle of one that has    *)
(* not, however short the ring of finished tasks is (background_reply).    *)
THEOREM RepliesAlwaysTrue == Spec => RepliesAreTrue
<1>1. WireInv /\ [Next]_wireVars =>
        \A id \in CallIds :
          /\ AnsweredAs(id, "result") \/ AnsweredAs(id, "displaced") => id \in ended
          /\ AnsweredAs(id, "handle") => id \notin ended
  BY RepliesStep
<1> QED
  BY <1>1, WireInvAlways, PTL DEF Spec, RepliesAreTrue

LEMMA PictureStep ==
  ASSUME WireInv, [Next]_wireVars, NEW c \in deferred, AnsweredAs(c.id, "picture")
  PROVE  c.frame = "this"
<1>1. TypeOK /\ DeferredGood /\ c.id \in CallIds
  BY DEF WireInv, DeferredGood, Waits
<1>2. PICK d \in deferred : Present /\ d.id = c.id /\ "picture" \in AnswerOf(d)
  BY <1>1, AnswersComeFrom DEF AnsweredByFrame
<1>3. d = c /\ phase = "passed"
  BY <1>1, <1>2 DEF DeferredGood, Present
<1>4. d.kind = "picture"
  BY <1>2 DEF AnswerOf, BackgroundReply, ViewReply
<1> QED
  BY <1>1, <1>3, <1>4 DEF DeferredGood

(* A picture is answered with the widgets of the frame it shows, also when *)
(* frames before it stopped without a present (capture_mcp_widgets).       *)
THEOREM PicturesMatchListings == Spec => PictureAndListingAgree
<1>1. WireInv /\ [Next]_wireVars =>
        \A c \in deferred : AnsweredAs(c.id, "picture") => c.frame = "this"
  BY PictureStep
<1> QED
  BY <1>1, WireInvAlways, PTL DEF Spec, PictureAndListingAgree

LEMMA ViewStep ==
  ASSUME WireInv, [Next]_wireVars, NEW id \in CallIds, AnsweredAs(id, "view")
  PROVE  \/ \E c \in deferred : c.id = id /\ reading.layout >= c.layout
         \/ (\A c \in deferred : c.id # id) /\ (reading.layout = layout \/ leaf = "new")
<1>1. TypeOK /\ DeferredGood /\ CallsInOrder
  BY DEF WireInv
<1>2. CASE Present /\ \E d \in deferred : d.id = id /\ "view" \in AnswerOf(d)
  <2>1. PICK d \in deferred : d.id = id /\ "view" \in AnswerOf(d)
    BY <1>2
  <2>2. d.since
    BY <2>1 DEF AnswerOf, BackgroundReply, ViewReply, DrawnSince
  <2> QED
    BY <1>1, <2>1, <2>2 DEF DeferredGood
<1>3. CASE ApplyOne /\ AnsweredAtOnce /\ Head(batch).id = id
  <2>1. ~Applied(id)
    BY <1>1, <1>3, ApplyInOrder
  <2>2. \A c \in deferred : c.id # id
    BY <1>1, <2>1 DEF DeferredGood
  <2> QED
    BY <1>1, <1>3, <2>2 DEF TypeOK, AnsweredAtOnce, ReadingIsCurrent, Docked, HasBody
<1> QED
  BY <1>1, <1>2, <1>3, AnswersComeFrom DEF AnsweredByFrame

(* A view is answered from a reading of the panel at the size it had when  *)
(* the call was applied, or since, however often the panel is dragged or   *)
(* closed and whether or not a frame had shown the change; but for a view  *)
(* that finds the panel in a leaf no pass has laid out (apply_view,        *)
(* image_detail_view_is_current, pending_view_reply).                      *)
THEOREM AnswersFitThePanel == Spec => AnswerFitsThePanel
<1>1. WireInv /\ [Next]_wireVars =>
        \A id \in CallIds : AnsweredAs(id, "view") =>
          \/ \E c \in deferred : c.id = id /\ reading.layout >= c.layout
          \/ (\A c \in deferred : c.id # id) /\ (reading.layout = layout \/ leaf = "new")
  BY ViewStep
<1> QED
  BY <1>1, WireInvAlways, PTL DEF Spec, AnswerFitsThePanel

=============================================================================
