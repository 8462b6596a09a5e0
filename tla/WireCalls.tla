----------------------------- MODULE WireCalls -----------------------------
(***************************************************************************)
(* The calls an agent makes over the wire and the frames they are answered *)
(* in (sfm-explorer: mcp/frame.rs, mcp/edit.rs, mcp/display.rs,            *)
(* mcp/input.rs, app.rs, lib.rs).                                          *)
(*                                                                         *)
(* A frame takes every call that has arrived, applies them, runs the egui  *)
(* pass and presents.  Most calls are answered as they are applied.  A     *)
(* picture waits for the present, a listing for the pass, a view for the   *)
(* panel to have drawn its photograph, a background task for its end or    *)
(* for two tenths of a second, and an input command for several frames, a  *)
(* step in each.  A frame whose surface cannot be acquired stops after its *)
(* pass and answers none of those that wait for the present.               *)
(*                                                                         *)
(* One background queue stands for the two, and its workers' reports for   *)
(* their ends.  The Image Detail panel is in front of its leaf whenever it *)
(* is docked.  What the transport does with a reply is not modelled.       *)
(***************************************************************************)
EXTENDS Integers, Sequences, FiniteSets, SequencesExt

CONSTANTS
  Kinds,        \* the kinds of call that are made
  Images,       \* the photographs a view may name
  FirstImage,   \* the one selected at the start
  Kept,         \* FINISHED_KEPT: how many finished tasks are remembered
  MaxCoast,     \* MAX_SCROLL_COAST_FRAMES
  MaxCalls,     \* bound: how many calls are made
  MaxForeign,   \* bound: how many tasks a person starts
  MaxPerson     \* bound: how often a person selects a photograph, drags the
                \* panel to another size or closes it

(* The input commands: a click, a double click, the pointer over a place   *)
(* or off the window, a drag, a turn of the wheel, a key where the pointer *)
(* is or over a panel, and text into a named field or the focused one.     *)
InputKinds ==
  {"click", "twice", "hover", "leave", "drag", "scroll", "key", "keyOver", "type", "typeHere"}

AllKinds == {"picture", "listing", "task", "cancel", "view"} \cup InputKinds

ASSUME WireAssumption ==
  /\ Kinds \subseteq AllKinds
  /\ FirstImage \in Images
  /\ Kept \in Nat \ {0} /\ MaxCoast \in Nat
  /\ MaxCalls \in Nat /\ MaxForeign \in Nat /\ MaxPerson \in Nat

VARIABLES
  phase,     \* where the GUI thread is in the frame
  wanted,    \* whether a redraw has been requested
  sent,      \* how many calls were made
  channel,   \* mcp_rx: the calls that arrived and were not taken
  batch,     \* the calls this frame took and has not applied
  deferred,  \* App::mcp_deferred: the calls that wait for their answer
  inputs,    \* App::mcp_input: the input commands, each with its steps left
  held,      \* what an agent holds: a mouse button, a key, modifiers
  answers,   \* per call, how it was answered
  running,   \* the running task, or none
  reported,  \* whether its worker has reported its end
  waiting,   \* the tasks that wait for it
  ring,      \* the finished tasks that are remembered, oldest first
  ended,     \* every task that has ended
  selected,  \* AppState::selected_image
  look,      \* AppState::look: the view call whose look stands, or none
  framed,    \* the view call whose look the panel applied last, or none
  decoded,   \* the photographs the cache holds
  decoding,  \* the photographs being decoded
  layout,    \* the size the window and its splitters give the panel
  leaf,      \* the panel's leaf in the dock: closed, new or laid out
  reading,   \* AppState::image_detail_view, with the layout it was drawn in
  person     \* how often a person selected, dragged or closed

callVars == <<channel, batch, deferred, inputs, held, answers>>
taskVars == <<running, reported, waiting, ring, ended>>
viewVars == <<selected, look, framed, decoded, decoding, layout, leaf, reading>>
wireVars == <<phase, wanted, sent, callVars, taskVars, viewVars, person>>

-----------------------------------------------------------------------------
CallIds == 1..MaxCalls
NoCall == 0
NoTask == 0
TaskIds == 1..(MaxCalls + MaxForeign)
NoReading == [image |-> FirstImage, layout |-> -1]

(* A call.  Only a view has a photograph of its own.                       *)
CallOf(id, kind, image) == [id |-> id, kind |-> kind, image |-> image]

(* Deferred.  `frame` is the one whose widgets were captured, `since` says *)
(* that the panel has published since the call, and `late` that the call's *)
(* window has passed.  `layout` is the panel's when the call was applied.  *)
Wait(c) ==
  [id |-> c.id, kind |-> c.kind, image |-> c.image, frame |-> "none",
   since |-> FALSE, late |-> FALSE, layout |-> layout]

StepsOf(kind) ==
  CASE kind = "click" -> <<"Look", "Move", "Press", "Settle">>
    [] kind = "twice" -> <<"Look", "Move", "Press", "PressAgain", "Settle">>
    [] kind = "hover" -> <<"Look", "Move", "Settle">>
    [] kind = "leave" -> <<"Gone", "Settle">>
    [] kind = "drag" -> <<"Look", "Move", "Down", "DragTo", "Up", "Settle">>
    [] kind = "scroll" -> <<"Look", "Move", "Wheel", "Coast", "Settle">>
    [] kind = "key" -> <<"KeyDown", "KeyUp", "Settle">>
    [] kind = "keyOver" -> <<"Look", "Move", "KeyDown", "KeyUp", "Settle">>
    [] kind = "type" -> <<"Look", "Move", "Press", "Text", "Settle">>
    [] kind = "typeHere" -> <<"Look", "Text", "Settle">>

(* The commands that may carry modifiers; each is taken to carry some.     *)
Modified == InputKinds \ {"hover", "leave", "type", "typeHere"}

Modifiers(kind) == IF kind \in Modified THEN {"modifiers"} ELSE {}

Pending(c) == [id |-> c.id, kind |-> c.kind, steps |-> StepsOf(c.kind), coasted |-> 0]

Begun(input) == input.steps # StepsOf(input.kind)

Popped(input) == Len(StepsOf(input.kind)) - Len(input.steps)

(* Some of its steps have put events into a frame.                         *)
Delivered(input) ==
  \E i \in 1..Popped(input) : StepsOf(input.kind)[i] # "Look"

NoAnswer == "none"
Answered(id) == answers[id] # NoAnswer

-----------------------------------------------------------------------------
(* The tasks.                                                              *)

(* keep_finished: the ring forgets its oldest.                             *)
Remember(ids) ==
  LET all == ring \o ids
  IN SubSeq(all, IF Len(all) > Kept THEN Len(all) - Kept + 1 ELSE 1, Len(all))

End(ids) == ring' = Remember(ids) /\ ended' = ended \cup Range(ids)

StartOrWait(id) ==
  IF running = NoTask
  THEN running' = id /\ reported' = FALSE /\ UNCHANGED waiting
  ELSE waiting' = Append(waiting, id) /\ UNCHANGED <<running, reported>>

(* Slip: a task is looked for by what the queue runs.                      *)
StateByQueue(id) ==
  IF running # NoTask THEN "running" ELSE IF id \in Range(ring) THEN "finished" ELSE "none"

(* AppState::task                                                          *)
StateOf(id) ==
  CASE id = running -> "running"
    [] id \in Range(waiting) -> "waiting"
    [] id \in Range(ring) -> "finished"
    [] OTHER -> "none"

Handled(state) == state \in {"running", "waiting"}

(* background_reply: none yet, or the answer.                              *)
BackgroundReply(c) ==
  LET state == StateOf(c.id)
  IN CASE state = "finished" -> {"result"}
       [] state = "none" -> {"displaced"}
       [] OTHER -> IF c.late /\ Handled(state) THEN {"handle"} ELSE {}

-----------------------------------------------------------------------------
(* The view.                                                               *)

Docked == leaf # "closed"

(* panel_body_points finds a rectangle: egui_dock gives a leaf its viewport*)
(* in the pass, and a leaf that has been through none has no area.         *)
HasBody == leaf = "laid"

(* image_detail_view_is_current compares the leaf's rectangle with the one *)
(* publish_image_detail_view kept.  It publishes while the pass has taken  *)
(* the dock out of the state, in which there is then no panel to find: it  *)
(* keeps none.                                                             *)
ReadingIsCurrent == reading # NoReading /\ ~HasBody

(* apply_view answers from the reading that stands.                        *)
AnsweredAtOnce == ReadingIsCurrent /\ Docked

(* Slip: a reading of its photograph from before the call will do.         *)
DrawnEver(c) == reading # NoReading /\ reading.image = c.image

(* pending_view_reply takes a reading published since, of its photograph.  *)
DrawnSince(c) == c.since /\ reading.image = c.image

ViewReply(c) ==
  IF DrawnSince(c) THEN {"view"} ELSE IF c.late THEN {"notDrawn"} ELSE {}

-----------------------------------------------------------------------------
(* Outside the frame.                                                      *)

(* A call is put in the channel and wakes the viewer.                      *)
Send(kind, image) ==
  /\ sent < MaxCalls
  /\ image = FirstImage \/ kind = "view"
  /\ sent' = sent + 1
  /\ channel' = Append(channel, CallOf(sent + 1, kind, image))
  /\ wanted' = TRUE
  /\ UNCHANGED <<phase, batch, deferred, inputs, held, answers, taskVars, viewVars, person>>

(* A worker reports the end of its task and wakes the viewer.              *)
WorkerEnds ==
  /\ running # NoTask /\ ~reported
  /\ reported' = TRUE
  /\ wanted' = TRUE
  /\ UNCHANGED <<phase, sent, callVars, running, waiting, ring, ended, viewVars, person>>

(* A decode ends and asks for a repaint.                                   *)
DecodeEnds(image) ==
  /\ image \in decoding
  /\ decoding' = decoding \ {image}
  /\ decoded' = decoded \cup {image}
  /\ wanted' = TRUE
  /\ UNCHANGED <<phase, sent, callVars, taskVars, selected, look, framed, layout, leaf,
                 reading, person>>

(* REPLY_DIRECTLY_WITHIN and DRAWS_WITHIN pass.  Nothing wakes the viewer. *)
Late(id) ==
  /\ \E c \in deferred :
       /\ c.id = id /\ c.kind \in {"task", "view"} /\ ~c.late
       /\ deferred' = (deferred \ {c}) \cup {[c EXCEPT !.late = TRUE]}
  /\ UNCHANGED <<phase, wanted, sent, channel, batch, inputs, held, answers,
                 taskVars, viewVars, person>>

(* select_image, of another photograph: the look that stands is dropped.   *)
PersonSelects(image) ==
  /\ phase = "idle" /\ person < MaxPerson /\ image # selected
  /\ selected' = image
  /\ look' = NoCall
  /\ person' = person + 1
  /\ wanted' = TRUE
  /\ UNCHANGED <<phase, sent, callVars, taskVars, framed, decoded, decoding, layout, leaf, reading>>

(* The window or a splitter gives the panel another size.  No rectangle in *)
(* the dock tells of it before the pass lays the leaf out again.           *)
PersonDrags ==
  /\ phase = "idle" /\ person < MaxPerson
  /\ layout' = layout + 1
  /\ person' = person + 1
  /\ wanted' = TRUE
  /\ UNCHANGED <<phase, sent, callVars, taskVars, selected, look, framed, decoded, decoding,
                 leaf, reading>>

(* The panel is taken out of the dock.  Its last reading stands, of a size *)
(* the next leaf it is given does not have.                                *)
PersonCloses ==
  /\ phase = "idle" /\ person < MaxPerson /\ Docked
  /\ leaf' = "closed"
  /\ layout' = layout + 1
  /\ person' = person + 1
  /\ wanted' = TRUE
  /\ UNCHANGED <<phase, sent, callVars, taskVars, selected, look, framed, decoded, decoding,
                 reading>>

ForeignTasks == MaxCalls + 1 .. MaxCalls + MaxForeign

PersonStarts(id) ==
  /\ phase = "idle"
  /\ id \in ForeignTasks \ (ended \cup {running} \cup Range(waiting))
  /\ StartOrWait(id)
  /\ wanted' = TRUE
  /\ UNCHANGED <<phase, sent, callVars, ring, ended, viewVars, person>>

-----------------------------------------------------------------------------
(* The frame begins: the task that ended lands, the one that waited starts,*)
(* and every call that has arrived is taken.                               *)

Poll ==
  IF running # NoTask /\ reported
  THEN /\ End(<<running>>)
       /\ running' = IF waiting = <<>> THEN NoTask ELSE Head(waiting)
       /\ waiting' = IF waiting = <<>> THEN waiting ELSE Tail(waiting)
       /\ reported' = FALSE
       /\ wanted' = TRUE
  ELSE wanted' = FALSE /\ UNCHANGED taskVars

BeginFrame ==
  /\ phase = "idle" /\ wanted
  /\ phase' = "apply"
  /\ Poll
  /\ batch' = channel
  /\ channel' = <<>>
  /\ UNCHANGED <<sent, deferred, inputs, held, answers, viewVars, person>>

-----------------------------------------------------------------------------
(* drain_mcp applies the calls it took, in their order.                    *)

Defer(c) ==
  /\ deferred' = deferred \cup {Wait(c)}
  /\ UNCHANGED <<inputs, answers>>

AnswerNow(c, answer) ==
  /\ answers' = [answers EXCEPT ![c.id] = answer]
  /\ UNCHANGED <<deferred, inputs>>

ApplyRead(c) ==
  /\ c.kind \in {"picture", "listing"}
  /\ Defer(c)
  /\ UNCHANGED <<taskVars, viewVars>>

(* started_or: a task that was started is waited for, whether it runs or   *)
(* waits; a start that was refused is answered.                            *)
ApplyTask(c) ==
  /\ c.kind = "task"
  /\ \/ Defer(c) /\ StartOrWait(c.id)
     \/ AnswerNow(c, "done") /\ UNCHANGED <<running, reported, waiting>>
  /\ UNCHANGED <<ring, ended, viewVars>>

(* cancel_background_tasks: the waiting ones end now, the running one is   *)
(* asked to.                                                               *)
ApplyCancel(c) ==
  /\ c.kind = "cancel"
  /\ AnswerNow(c, "done")
  /\ End(waiting)
  /\ waiting' = <<>>
  /\ UNCHANGED <<running, reported, viewVars>>

(* show_panel: a panel that is closed goes in behind a group-mate's tab,   *)
(* whose leaf is laid out, or into a leaf of its own that is not.          *)
Surface == leaf' \in IF Docked THEN {leaf} ELSE {"new", "laid"}

(* apply_view: the photograph is selected, the look stands and the panel is*)
(* surfaced, whichever frame the answer is from; whether the reading will  *)
(* do is decided before it is.                                             *)
ApplyView(c) ==
  /\ c.kind = "view"
  /\ IF AnsweredAtOnce THEN AnswerNow(c, "view") ELSE Defer(c)
  /\ selected' = c.image
  /\ look' = c.id
  /\ Surface
  /\ UNCHANGED <<taskVars, framed, decoded, decoding, layout, reading>>

(* Slip: the command goes ahead of the ones that wait.                     *)
AheadOf(queue, input) == <<input>> \o queue

Behind(queue, input) == Append(queue, input)

ApplyInput(c) ==
  /\ c.kind \in InputKinds
  /\ inputs' = Behind(inputs, Pending(c))
  /\ UNCHANGED <<deferred, answers, taskVars, viewVars>>

ApplyOne ==
  /\ phase = "apply" /\ batch # <<>>
  /\ LET c == Head(batch)
     IN ApplyRead(c) \/ ApplyTask(c) \/ ApplyCancel(c) \/ ApplyView(c) \/ ApplyInput(c)
  /\ batch' = Tail(batch)
  /\ UNCHANGED <<phase, wanted, sent, channel, held, person>>

-----------------------------------------------------------------------------
(* The egui pass.                                                          *)

(* Slip: each point of a drag is aimed in the frame that moves to it.      *)
RefusedWhileHeld(step) == step \in {"Move", "DragTo", "Text"}

(* The steps that may be refused: an aim that hits nothing, and a text     *)
(* with no field that has the focus.                                       *)
MayBeRefused(step) == step \in {"Move", "Text"}

(* InputQueue::before_pass: the first n commands are refused and answered, *)
(* and the next one takes its step in the same frame.                      *)
Refusals == {n \in 0..Len(inputs) : \A i \in 1..n : MayBeRefused(Head(inputs[i].steps))}

(* A scroll waits while egui still spreads it over frames, but not for     *)
(* ever.                                                                   *)
MayCoast(queue) ==
  queue # <<>> /\ Head(Head(queue).steps) = "Coast" /\ Head(queue).coasted < MaxCoast

Coasted(queue) == <<[Head(queue) EXCEPT !.coasted = @ + 1]>> \o Tail(queue)

(* The last step's frame is captured in the same pass and answers.         *)
AfterStep(queue) ==
  CASE queue = <<>> -> {queue}
    [] queue # <<>> /\ Len(Head(queue).steps) = 1 -> {Tail(queue)}
    [] OTHER ->
         {<<[Head(queue) EXCEPT !.steps = Tail(@)]>> \o Tail(queue)}
           \cup IF MayCoast(queue) THEN {Coasted(queue)} ELSE {}

(* What the step of this frame leaves held.  The modifiers go down with    *)
(* the first press and are put back as egui had them in the last frame.    *)
HeldBy(kind, step) ==
  CASE step \in {"Press", "Wheel"} -> held \cup Modifiers(kind)
    [] step = "Down" -> held \cup {"button"} \cup Modifiers(kind)
    [] step = "Up" -> held \ {"button"}
    [] step = "KeyDown" -> held \cup {"key"} \cup Modifiers(kind)
    [] step = "KeyUp" -> held \ {"key"}
    [] step = "Settle" -> held \ {"modifiers"}
    [] OTHER -> held

HeldAfter(queue) ==
  IF queue = <<>> THEN held ELSE HeldBy(Head(queue).kind, Head(Head(queue).steps))

InputAnswers(n) ==
  LET rest == SubSeq(inputs, n + 1, Len(inputs))
  IN [id \in CallIds |->
       IF \E i \in 1..n : inputs[i].id = id THEN "refused"
       ELSE IF rest # <<>> /\ Head(rest).id = id /\ Len(Head(rest).steps) = 1 THEN "input"
       ELSE answers[id]]

(* Slip: a call that has its frame keeps it.                               *)
CaptureOnce(c) ==
  IF c.kind \in {"picture", "listing"} /\ c.frame = "none" THEN [c EXCEPT !.frame = "this"] ELSE c

(* capture_mcp_widgets: this frame's, in place of an earlier one's.        *)
Capture(c) ==
  IF c.kind \in {"picture", "listing"} THEN [c EXCEPT !.frame = "this"] ELSE c

(* show_image_detail lays the leaf out and takes the look of the photograph*)
(* that is selected.  The panel applies it and publishes when it has pixels*)
(* to draw, and asks for a decode when it has none.                        *)
PanelDraws ==
  /\ Docked
  /\ leaf' = "laid"
  /\ look' = NoCall
  /\ IF selected \in decoded
     THEN /\ framed' = IF look = NoCall THEN framed ELSE look
          /\ reading' = [image |-> selected, layout |-> layout]
          /\ UNCHANGED decoding
     ELSE decoding' = decoding \cup {selected} /\ UNCHANGED <<framed, reading>>
  /\ UNCHANGED <<selected, decoded, layout>>

NoPanelDraws == ~Docked /\ UNCHANGED viewVars

Publishes == Docked /\ selected \in decoded

Published(c) == IF c.kind = "view" /\ Publishes THEN [c EXCEPT !.since = TRUE] ELSE c

(* resolve_mcp_widgets answers the listings.                               *)
Listings(calls) == {c \in calls : c.kind = "listing"}

Pass ==
  /\ phase = "apply" /\ batch = <<>>
  /\ phase' = "passed"
  /\ \E n \in Refusals :
       LET rest == SubSeq(inputs, n + 1, Len(inputs))
           captured == {Published(Capture(c)) : c \in deferred}
           given == InputAnswers(n)
       IN /\ inputs' \in AfterStep(rest)
          /\ held' = HeldAfter(rest)
          /\ wanted' = (wanted \/ rest # <<>>)
          /\ deferred' = captured \ Listings(captured)
          /\ answers' = [id \in CallIds |->
               IF \E c \in Listings(captured) : c.id = id THEN "listing" ELSE given[id]]
  /\ PanelDraws \/ NoPanelDraws
  /\ UNCHANGED <<sent, channel, batch, taskVars, person>>

-----------------------------------------------------------------------------
(* The frame ends.                                                         *)

Aged(calls) ==
  {IF c.frame = "this" THEN [c EXCEPT !.frame = "old"] ELSE c : c \in calls}

(* Slip: a call that waits asks for no frame.                              *)
NoMoreFrames(calls, queue) == FALSE

(* RedrawRequested: frames keep coming while a call is waiting.            *)
FramesKeepComing(calls, queue) == calls # {} \/ queue # <<>>

(* The surface could not be acquired.                                      *)
Stop ==
  /\ phase = "passed"
  /\ phase' = "idle"
  /\ deferred' = Aged(deferred)
  /\ wanted' = (wanted \/ FramesKeepComing(deferred, inputs))
  /\ UNCHANGED <<sent, channel, batch, inputs, held, answers, taskVars, viewVars, person>>

AnswerOf(c) ==
  CASE c.kind = "picture" -> {"picture"}
    [] c.kind = "task" -> BackgroundReply(c)
    [] c.kind = "view" -> ViewReply(c)
    [] OTHER -> {}

(* resolve_mcp_deferred, after the present.                                *)
Present ==
  /\ phase = "passed"
  /\ phase' = "idle"
  /\ LET left == {c \in deferred : AnswerOf(c) = {}}
     IN /\ deferred' = Aged(left)
        /\ wanted' = (wanted \/ FramesKeepComing(left, inputs))
  /\ answers' = [id \in CallIds |->
       LET now == UNION {AnswerOf(c) : c \in {d \in deferred : d.id = id}}
       IN IF now = {} THEN answers[id] ELSE CHOOSE a \in now : TRUE]
  /\ UNCHANGED <<sent, channel, batch, inputs, held, taskVars, viewVars, person>>

-----------------------------------------------------------------------------
Init ==
  /\ phase = "idle" /\ wanted = TRUE /\ sent = 0
  /\ channel = <<>> /\ batch = <<>> /\ deferred = {} /\ inputs = <<>>
  /\ held = {}
  /\ answers = [id \in CallIds |-> NoAnswer]
  /\ running = NoTask /\ reported = FALSE /\ waiting = <<>> /\ ring = <<>> /\ ended = {}
  /\ selected = FirstImage /\ look = NoCall /\ framed = NoCall
  /\ decoded = {FirstImage} /\ decoding = {}
  /\ layout = 0 /\ leaf = "new" /\ reading = NoReading
  /\ person = 0

Outside ==
  \/ \E kind \in Kinds, image \in Images : Send(kind, image)
  \/ WorkerEnds
  \/ \E image \in Images : DecodeEnds(image) \/ PersonSelects(image)
  \/ \E id \in CallIds : Late(id)
  \/ PersonDrags \/ PersonCloses
  \/ \E id \in ForeignTasks : PersonStarts(id)

Next == Outside \/ BeginFrame \/ ApplyOne \/ Pass \/ Stop \/ Present

Spec == Init /\ [][Next]_wireVars

(* A frame that was asked for is drawn to its pass, its surface is not     *)
(* lost for ever, and time passes.  No task need end.                      *)
Fairness ==
  /\ WF_wireVars(BeginFrame) /\ WF_wireVars(ApplyOne) /\ WF_wireVars(Pass)
  /\ SF_wireVars(Present)
  /\ WF_wireVars(Stop \/ Present)
  /\ \A id \in CallIds : WF_wireVars(Late(id))

FairSpec == Spec /\ Fairness

-----------------------------------------------------------------------------
TypeOK ==
  /\ phase \in {"idle", "apply", "passed"}
  /\ wanted \in BOOLEAN /\ reported \in BOOLEAN
  /\ sent \in 0..MaxCalls
  /\ answers \in [CallIds -> {NoAnswer, "done", "picture", "listing", "result", "handle",
                              "displaced", "view", "notDrawn", "input", "refused"}]
  /\ running \in TaskIds \cup {NoTask} /\ ended \subseteq TaskIds
  /\ Len(ring) <= Kept
  /\ held \subseteq {"button", "key", "modifiers"}
  /\ leaf \in {"closed", "new", "laid"}
  /\ selected \in Images /\ look \in CallIds \cup {NoCall} /\ framed \in CallIds \cup {NoCall}

AnsweredAs(id, how) == ~Answered(id) /\ answers'[id] = how

(* A picture and the listing that goes with it are of one frame, also when *)
(* the frame that was captured first never presented.                      *)
PictureAndListingAgree ==
  [][\A c \in deferred : AnsweredAs(c.id, "picture") => c.frame = "this"]_wireVars

(* A reply about a background task is about the call's own task, and true: *)
(* a result or a lost outcome of one that has ended, a handle of one that  *)
(* has not.                                                                *)
RepliesAreTrue ==
  [][\A id \in CallIds :
       /\ AnsweredAs(id, "result") \/ AnsweredAs(id, "displaced") => id \in ended
       /\ AnsweredAs(id, "handle") => id \notin ended]_wireVars

(* A view is answered from a reading of the panel at the size it had when  *)
(* the call was applied, or since, also when that size was on no screen yet*)
(* (mcp/display.rs: apply_view, pending_view_reply).  The exception is the *)
(* code's: a view that finds the panel in a leaf the pass has not laid out *)
(* is answered from the reading of the leaf that is gone.                  *)
AnswerFitsThePanel ==
  [][\A id \in CallIds : AnsweredAs(id, "view") =>
       \/ \E c \in deferred : c.id = id /\ reading.layout >= c.layout
       \/ (\A c \in deferred : c.id # id) /\ (reading.layout = layout \/ leaf = "new")]_wireVars

(* Input commands run one after another, in the order they came: only the  *)
(* first has begun.                                                        *)
OneCommandAtATime ==
  \A i, j \in DOMAIN inputs : i < j => ~Begun(inputs[j]) /\ inputs[i].id < inputs[j].id

(* What an agent holds is let go: a mouse button, a key or modifiers are   *)
(* down only while the command that pressed them goes on, whatever is      *)
(* refused and whichever frames are lost meanwhile (mcp/input.rs: step).   *)
NothingStaysHeld ==
  held # {} =>
    /\ inputs # <<>> /\ Begun(Head(inputs))
    /\ "button" \in held => Head(inputs).kind = "drag"
    /\ "key" \in held => Head(Head(inputs).steps) = "KeyUp"

(* Every call is answered, also when its task never ends, its photograph   *)
(* is never drawn or frames stop before their present.                     *)
EveryCallIsAnswered == \A id \in CallIds : sent >= id ~> Answered(id)

(* A call's look has been applied when the call is answered from what the  *)
(* panel drew (mcp/mod.rs:1254).                                           *)
ViewHasItsLook ==
  [][\A c \in deferred : AnsweredAs(c.id, "view") => framed >= c.id]_wireVars

(* A refused command has delivered nothing (mcp/input.rs:426).             *)
RefusedBeforeDelivery ==
  [][\A i \in DOMAIN inputs : AnsweredAs(inputs[i].id, "refused") => ~Delivered(inputs[i])]_wireVars

=============================================================================
