-------------------------- MODULE ReportLatchProofs --------------------------
(* No report is left unread, however many threads a job reports from.      *)
EXTENDS ReportLatch, TLAPS

(* The channel holds reports, whatever is sent or received.                *)
LEMMA ChannelStep ==
  ASSUME NEW c \in Seq({"Progressed", "Done"})
  PROVE  /\ \A m \in {"Progressed", "Done"} :
              /\ Append(c, m) \in Seq({"Progressed", "Done"})
              /\ Append(c, m) # <<>>
              /\ DOMAIN Append(c, m) = DOMAIN c \cup {Len(c) + 1}
              /\ \A i \in DOMAIN c : Append(c, m)[i] = c[i]
              /\ Append(c, m)[Len(c) + 1] = m
         /\ c # <<>> =>
              /\ Tail(c) \in Seq({"Progressed", "Done"})
              /\ Head(c) \in {"Progressed", "Done"}
              /\ Head(c) = c[1] /\ 1 \in DOMAIN c
              /\ \A i \in DOMAIN Tail(c) : Tail(c)[i] = c[i + 1] /\ i + 1 \in DOMAIN c
  OBVIOUS

(* Every variable keeps its type (TypeOK of ReportLatch).                  *)
LEMMA TypeStep == TypeOK /\ [Next]_vars => TypeOK'
<1> SUFFICES ASSUME TypeOK, [Next]_vars PROVE TypeOK'
  OBVIOUS
<1> USE DEF TypeOK
<1>1. ASSUME NEW r \in Reporters, Report(r) PROVE TypeOK'
  BY <1>1 DEF Report
<1>2. ASSUME NEW r \in Reporters, Swap(r) PROVE TypeOK'
  BY <1>2 DEF Swap
<1>3. ASSUME NEW r \in Reporters, Send(r) PROVE TypeOK'
  BY <1>3, ChannelStep DEF Send
<1>4. ASSUME NEW r \in Reporters, Wake(r) PROVE TypeOK'
  BY <1>4 DEF Wake
<1>5. CASE SendDone
  BY <1>5, ChannelStep DEF SendDone
<1>6. CASE WakeDone
  BY <1>6 DEF WakeDone
<1>7. CASE BeginFrame
  BY <1>7 DEF BeginFrame
<1>8. CASE Clear
  BY <1>8 DEF Clear
<1>9. CASE Receive
  BY <1>9, ChannelStep DEF Receive
<1>10. CASE Drained
  BY <1>10 DEF Drained
<1>11. CASE Draw
  BY <1>11 DEF Draw
<1>12. CASE UNCHANGED vars
  BY <1>12 DEF vars
<1> QED
  BY <1>1, <1>2, <1>3, <1>4, <1>5, <1>6, <1>7, <1>8, <1>9, <1>10, <1>11, <1>12
  DEF Next, Hook, Gui

(* Once the task has landed nobody reports and no drain begins.            *)
LEMMA LandedStep == TypeOK /\ LandedIsQuiet /\ [Next]_vars => LandedIsQuiet'
<1> SUFFICES ASSUME TypeOK, LandedIsQuiet, [Next]_vars PROVE LandedIsQuiet'
  OBVIOUS
<1> USE DEF TypeOK, LandedIsQuiet
<1>1. ASSUME NEW r \in Reporters, Report(r) PROVE LandedIsQuiet'
  BY <1>1 DEF Report
<1>2. ASSUME NEW r \in Reporters, Swap(r) PROVE LandedIsQuiet'
  BY <1>2 DEF Swap
<1>3. ASSUME NEW r \in Reporters, Send(r) PROVE LandedIsQuiet'
  BY <1>3, ChannelStep DEF Send
<1>4. ASSUME NEW r \in Reporters, Wake(r) PROVE LandedIsQuiet'
  BY <1>4 DEF Wake
<1>5. CASE SendDone
  BY <1>5 DEF SendDone
<1>6. CASE WakeDone
  BY <1>6 DEF WakeDone
<1>7. CASE BeginFrame
  BY <1>7 DEF BeginFrame
<1>8. CASE Clear
  BY <1>8 DEF Clear
<1>9. CASE Receive
  BY <1>9, ChannelStep DEF Receive
<1>10. CASE Drained
  BY <1>10 DEF Drained
<1>11. CASE Draw
  BY <1>11 DEF Draw
<1>12. CASE UNCHANGED vars
  BY <1>12 DEF vars
<1> QED
  BY <1>1, <1>2, <1>3, <1>4, <1>5, <1>6, <1>7, <1>8, <1>9, <1>10, <1>11, <1>12
  DEF Next, Hook, Gui

(* A latch that is up, a collector with something unread and a channel     *)
(* with a report each have a frame coming, whatever step is taken.         *)
LEMMA AnsweredStep == Answered /\ [Next]_vars => Answered'
<1> SUFFICES ASSUME Answered, [Next]_vars
             PROVE (LatchIsAnswered /\ UnreadIsAnswered /\ ChannelIsAnswered)'
  BY TypeStep, LandedStep DEF Answered
<1> DEFINE Goal == (LatchIsAnswered /\ UnreadIsAnswered /\ ChannelIsAnswered)'
<1> USE DEF Answered, TypeOK, LatchIsAnswered, UnreadIsAnswered, ChannelIsAnswered, Sending
<1>1. ASSUME NEW r \in Reporters, Report(r) PROVE Goal
  BY <1>1 DEF Report, LandedIsQuiet
<1>2. ASSUME NEW r \in Reporters, Swap(r) PROVE Goal
  BY <1>2 DEF Swap, LandedIsQuiet
<1>3. ASSUME NEW r \in Reporters, Send(r) PROVE Goal
  BY <1>3 DEF Send
<1>4. ASSUME NEW r \in Reporters, Wake(r) PROVE Goal
  BY <1>4 DEF Wake
<1>5. CASE SendDone
  BY <1>5 DEF SendDone
<1>6. CASE WakeDone
  BY <1>6 DEF WakeDone
<1>7. CASE BeginFrame
  BY <1>7 DEF BeginFrame
<1>8. CASE Clear
  BY <1>8 DEF Clear
<1>9. CASE Receive
  <2>1. ~landed /\ landed' = (Head(channel) = "Done")
    BY <1>9 DEF Receive, LandedIsQuiet
  <2>2. CASE Head(channel) = "Done"
    <3>1. landed' /\ gui' = "draw"
      BY <1>9, <2>1, <2>2 DEF Receive
    <3> QED
      BY <3>1
  <2>3. CASE Head(channel) # "Done"
    <3>1. gui' = "drain" /\ queued' = queued /\ pc' = pc /\ wanted' = wanted
      BY <1>9, <2>3 DEF Receive
    <3> QED
      BY <3>1, <2>1, <1>9 DEF Receive
  <2> QED
    BY <2>2, <2>3
<1>10. CASE Drained
  BY <1>10 DEF Drained
<1>11. CASE Draw
  BY <1>11 DEF Draw
<1>12. CASE UNCHANGED vars
  BY <1>12 DEF vars
<1> QED
  BY <1>1, <1>2, <1>3, <1>4, <1>5, <1>6, <1>7, <1>8, <1>9, <1>10, <1>11, <1>12
  DEF Next, Hook, Gui

(* The inductive invariant holds throughout (progressed, apply_reports).   *)
THEOREM AlwaysAnswered == Spec => []Answered
<1>1. Init => Answered
  <2> SUFFICES ASSUME Init PROVE Answered
    OBVIOUS
  <2> USE DEF Init
  <2>1. TypeOK
    <3>1. channel \in Seq({"Progressed", "Done"})
      OBVIOUS
    <3>2. pc \in [Reporters -> {"out", "swap", "send", "wake"}]
      OBVIOUS
    <3> QED
      BY <3>1, <3>2, Zenon DEF TypeOK
  <2>2. LandedIsQuiet
    BY DEF LandedIsQuiet
  <2>3. LatchIsAnswered /\ UnreadIsAnswered /\ ChannelIsAnswered
    BY DEF LatchIsAnswered, UnreadIsAnswered, ChannelIsAnswered
  <2> QED
    BY <2>1, <2>2, <2>3 DEF Answered
<1> QED
  BY <1>1, AnsweredStep, PTL DEF Spec

(* For any number of reporting threads: when every thread rests and no     *)
(* frame has been asked for, nothing is left unread in the collector and   *)
(* nothing in the channel of a task that has not landed.                   *)
THEOREM NoReportIsLost == Spec => []NothingIsLeftUnread
<1>1. Answered => NothingIsLeftUnread
  BY DEF Answered, TypeOK, LatchIsAnswered, UnreadIsAnswered, ChannelIsAnswered,
         NothingIsLeftUnread
<1> QED
  BY <1>1, AlwaysAnswered, PTL

=============================================================================
