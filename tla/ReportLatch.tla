----------------------------- MODULE ReportLatch -----------------------------
(***************************************************************************)
(* How a worker tells the GUI thread that there is something to read       *)
(* (background/mod.rs: progressed, Worker::run, apply_reports).            *)
(*                                                                         *)
(* What is reported goes into a collector both sides hold.  The channel    *)
(* carries "read it again", coalesced by a latch the GUI thread clears as  *)
(* it drains, and at last "done".  A frame is drawn only when a wake asked *)
(* for one, so a report the latch swallows at the wrong moment stays       *)
(* unread, and a "done" nobody reads leaves its node locked.               *)
(*                                                                         *)
(* One running task.  Its job may report from several threads at once; it  *)
(* returns when they are done.  Steps are those of single atomic accesses. *)
(***************************************************************************)
EXTENDS Integers, Sequences

CONSTANT Reporters   \* the threads a job reports from

VARIABLES
  pc,       \* per reporter, where it is in the hook `progressed` returns
  job,      \* where Worker::run is
  unread,   \* whether the collector holds what no frame has shown
  queued,   \* the latch
  channel,  \* the reports sent and not received
  wanted,   \* whether a frame has been asked for
  gui,      \* where the GUI thread is in the frame
  landed    \* whether the task has landed

vars == <<pc, job, unread, queued, channel, wanted, gui, landed>>

-----------------------------------------------------------------------------
(* A reporter: write to the collector, then run the hook.                  *)

Report(r) ==
  /\ job = "running"
  /\ pc[r] = "out"
  /\ pc' = [pc EXCEPT ![r] = "swap"]
  /\ unread' = TRUE
  /\ UNCHANGED <<job, queued, channel, wanted, gui, landed>>

(* The latch is up: an unread report says the same thing already.          *)
Swap(r) ==
  /\ pc[r] = "swap"
  /\ pc' = [pc EXCEPT ![r] = IF queued THEN "out" ELSE "send"]
  /\ queued' = TRUE
  /\ UNCHANGED <<job, unread, channel, wanted, gui, landed>>

Send(r) ==
  /\ pc[r] = "send"
  /\ pc' = [pc EXCEPT ![r] = "wake"]
  /\ channel' = Append(channel, "Progressed")
  /\ UNCHANGED <<job, unread, queued, wanted, gui, landed>>

Wake(r) ==
  /\ pc[r] = "wake"
  /\ pc' = [pc EXCEPT ![r] = "out"]
  /\ wanted' = TRUE
  /\ UNCHANGED <<job, unread, queued, channel, gui, landed>>

-----------------------------------------------------------------------------
(* Worker::run, once the job has returned.                                 *)

(* Slip: the last word goes through the latch as the others do.            *)
SendDoneLatched ==
  /\ job = "running"
  /\ \A r \in Reporters : pc[r] = "out"
  /\ job' = IF queued THEN "gone" ELSE "wake"
  /\ channel' = IF queued THEN channel ELSE Append(channel, "Done")
  /\ UNCHANGED <<pc, unread, queued, wanted, gui, landed>>

SendDone ==
  /\ job = "running"
  /\ \A r \in Reporters : pc[r] = "out"
  /\ job' = "wake"
  /\ channel' = Append(channel, "Done")
  /\ UNCHANGED <<pc, unread, queued, wanted, gui, landed>>

WakeDone ==
  /\ job = "wake"
  /\ job' = "gone"
  /\ wanted' = TRUE
  /\ UNCHANGED <<pc, unread, queued, channel, gui, landed>>

-----------------------------------------------------------------------------
(* The GUI thread: apply_reports at the top of a frame, then the drawing.  *)

BeginFrame ==
  /\ gui = "idle" /\ wanted
  /\ wanted' = FALSE
  /\ gui' = IF landed THEN "draw" ELSE "clear"
  /\ UNCHANGED <<pc, job, unread, queued, channel, landed>>

(* Slip: the latch stays up.                                               *)
ClearNothing ==
  /\ gui = "clear"
  /\ gui' = "drain"
  /\ UNCHANGED <<pc, job, unread, queued, channel, wanted, landed>>

(* The latch goes down before the drain.                                   *)
Clear ==
  /\ gui = "clear"
  /\ queued' = FALSE
  /\ gui' = "drain"
  /\ UNCHANGED <<pc, job, unread, channel, wanted, landed>>

(* Slip: the latch goes down at every report taken.                        *)
ReceiveClearing ==
  /\ gui = "drain"
  /\ channel # <<>>
  /\ channel' = Tail(channel)
  /\ queued' = FALSE
  /\ landed' = (Head(channel) = "Done")
  /\ gui' = IF Head(channel) = "Done" THEN "draw" ELSE "drain"
  /\ UNCHANGED <<pc, job, unread, wanted>>

Receive ==
  /\ gui = "drain"
  /\ channel # <<>>
  /\ channel' = Tail(channel)
  /\ landed' = (Head(channel) = "Done")
  /\ gui' = IF Head(channel) = "Done" THEN "draw" ELSE "drain"
  /\ UNCHANGED <<pc, job, unread, queued, wanted>>

Drained ==
  /\ gui = "drain"
  /\ channel = <<>>
  /\ gui' = "draw"
  /\ UNCHANGED <<pc, job, unread, queued, channel, wanted, landed>>

(* The panels read the collector as it stands.                             *)
Draw ==
  /\ gui = "draw"
  /\ gui' = "idle"
  /\ unread' = FALSE
  /\ UNCHANGED <<pc, job, queued, channel, wanted, landed>>

-----------------------------------------------------------------------------
Init ==
  /\ pc = [r \in Reporters |-> "out"]
  /\ job = "running"
  /\ unread = FALSE
  /\ queued = FALSE
  /\ channel = <<>>
  /\ wanted = FALSE
  /\ gui = "idle"
  /\ landed = FALSE

Gui == BeginFrame \/ Clear \/ Receive \/ Drained \/ Draw

Hook(r) == Swap(r) \/ Send(r) \/ Wake(r)

Next ==
  \/ \E r \in Reporters : Report(r) \/ Hook(r)
  \/ SendDone
  \/ WakeDone
  \/ Gui

Spec == Init /\ [][Next]_vars

(* The GUI thread runs while it has something to do, a thread in the hook  *)
(* comes out of it, and a worker that has returned sends its last word.  A *)
(* job is not owed to anybody: it may compute and report for ever.         *)
Fairness ==
  /\ WF_vars(Gui)
  /\ \A r \in Reporters : WF_vars(Hook(r))
  /\ WF_vars(WakeDone)

FairSpec == Spec /\ Fairness

-----------------------------------------------------------------------------
(* Type invariant.                                                         *)
TypeOK ==
  /\ pc \in [Reporters -> {"out", "swap", "send", "wake"}]
  /\ job \in {"running", "wake", "gone"}
  /\ unread \in BOOLEAN
  /\ queued \in BOOLEAN
  /\ channel \in Seq({"Progressed", "Done"})
  /\ wanted \in BOOLEAN
  /\ gui \in {"idle", "clear", "drain", "draw"}
  /\ landed \in BOOLEAN

(* A latch that is up has a frame coming, or a thread about to ask for it; *)
(* so has a collector with something unread, and a channel with a report.  *)
Sending(r) == pc[r] \in {"send", "wake"}

LatchIsAnswered ==
  queued /\ ~landed => wanted \/ gui = "clear" \/ \E r \in Reporters : Sending(r)

UnreadIsAnswered ==
  unread => wanted \/ gui # "idle" \/ \E r \in Reporters : pc[r] # "out"

ChannelIsAnswered ==
  channel # <<>> /\ ~landed =>
    wanted \/ job = "wake" \/ gui \in {"clear", "drain"}
      \/ \E r \in Reporters : pc[r] = "wake"

(* Nothing reports once the task has landed, and no drain begins.          *)
LandedIsQuiet ==
  /\ landed => job # "running" /\ gui \notin {"clear", "drain"}
  /\ job # "running" => \A r \in Reporters : pc[r] = "out"
  /\ job = "running" => \A i \in DOMAIN channel : channel[i] # "Done"

Answered ==
  TypeOK /\ LandedIsQuiet /\ LatchIsAnswered /\ UnreadIsAnswered /\ ChannelIsAnswered

(* When every thread rests and no frame has been asked for, nothing is     *)
(* left unread and, until the task lands, nothing is left in the channel:  *)
(* the latch never swallows the wake the GUI thread needed.                *)
NothingIsLeftUnread ==
  gui = "idle" /\ ~wanted /\ job # "wake" /\ (\A r \in Reporters : pc[r] = "out") =>
    /\ ~unread
    /\ ~landed => channel = <<>>

(* A drain ends however fast the job reports: the latch lets each thread   *)
(* add one report at most while it is up, so the frame is drawn.           *)
DrainEnds == gui = "drain" ~> gui # "drain"

(* A job that returned lands: its node is not locked for ever.             *)
DoneLands == job # "running" ~> landed

=============================================================================
