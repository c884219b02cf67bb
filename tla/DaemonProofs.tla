----------------------------- MODULE DaemonProofs -----------------------------
(***************************************************************************)
(* One run of the daemon, for any number of pairs, control clients and     *)
(* signals, and with no assumption on how many of them are inside          *)
(* stop_capture: what the manager guarantees holds in the daemon, the      *)
(* capture shutdown finds is flushed, and no exit but a forced one loses   *)
(* what was acknowledged.                                                  *)
(***************************************************************************)
EXTENDS Daemon, CaptureManagerProofs

\* A frame of stop_capture has still to write output k of n, or is past it.
Rewrites(frame, n, k) == frame.cap = n /\ frame.pc \in {"truncate", "fill"} /\ frame.next <= k
Passed(frame, k) == frame.pc = "written" \/ (frame.pc \in {"truncate", "fill"} /\ k < frame.next)

\* An output that an overlapping stop has truncated will be written again by it.
Covered(n, k) == out[n][k].state = "whole" \/ \E s \in Stoppers : Rewrites(stop[s], n, k)

\* While no call fails, each output of a capture whose buffer is gone is whole or about
\* to be, and so is each output that a stop has passed.
Saved ==
  faults = 0 =>
    /\ \A n \in dirs \ onDisk, k \in Outputs : Covered(n, k)
    /\ \A s \in Stoppers, k \in Outputs : Passed(stop[s], k) => Covered(stop[s].cap, k)

\* The flush is of the capture shutdown has found, whose buffer is gone after it.
FlushIsOfFound ==
  /\ atShutdown # NoCapture => atShutdown \in dirs
  /\ stage = "flushing" => stop[ShutdownTask].pc # "idle" /\ stop[ShutdownTask].cap = atShutdown
  /\ stage \in {"closingListener", "closingControl", "draining", "exited"}
       /\ exit \in {"none", "clean"} => atShutdown \notin onDisk

EndOfRun ==
  /\ exit = "forced" => stage = "exited"
  /\ stage \notin {"draining", "exited"} => exit = "none"
  /\ stage = "exited" => \A s \in Stoppers : stop[s] = Idle

Orderly ==
  /\ DaemonTypeOK
  /\ Shared
  /\ exit # "forced" => Saved
  /\ FlushIsOfFound
  /\ EndOfRun

---------------------------------------------------------------------------
(* The manager's part of a step                                            *)

\* A step of the daemon is one of the manager, or the death of the process.
LEMMA ManagersPart ==
  ASSUME DaemonNext
  PROVE  [Next]_vars \/ (Kill /\ crashes' = crashes /\ stage # "exited")
<1> USE StoppersAssumption
<1>1. ASSUME NEW r \in Requests,
             Accept(r) \/ Hangup(r) \/ Record(r) \/ AppendEnds(r) \/ WorkerThread(r)
      PROVE  [Next]_vars
  BY <1>1 DEF Accept, Hangup, Record, AppendEnds, WorkerThread, Next, Recording
<1>2. ASSUME NEW c \in Clients, Connect(c) \/ Command(c) \/ CaptureStopEnds(c)
      PROVE  [Next]_vars
  BY <1>2 DEF Connect, Command, CaptureStart, CaptureStop, Query, ProxyStop, CaptureStopEnds,
              Next, StopCall, StopWork
<1>3. ASSUME NEW s \in Stoppers, OutputThread(s) PROVE [Next]_vars
  BY <1>3 DEF OutputThread, Next, StopWork
<1>4. CASE Signal \/ Exit
  BY <1>4 DEF Signal, Exit, Dies
<1>5. CASE BeginShutdown \/ FlushEnds \/ ListenerClosed \/ ControlClosed
  BY <1>5 DEF BeginShutdown, FlushEnds, ListenerClosed, ControlClosed, Next, StopCall, StopWork
<1> QED BY <1>1, <1>2, <1>3, <1>4, <1>5 DEF DaemonNext, Shutdown

LEMMA SharedInDaemon == Shared /\ [DaemonNext]_allVars => Shared'
<1> SUFFICES ASSUME Shared, [DaemonNext]_allVars PROVE Shared' OBVIOUS
<1>1. CASE [Next]_vars
  BY <1>1, SharedStep
<1>2. CASE Kill /\ crashes' = crashes
  <2>1. crashes' \in 0..MaxCrashes
    BY <1>2 DEF Shared, TypeOK
  <2>2. TypeOK'
    BY <1>2, <2>1, KillTypes DEF Shared
  <2> QED BY <1>2, <2>2, KillPreservesShared
<1>3. CASE UNCHANGED allVars
  BY <1>3, SharedStep DEF allVars
<1> QED BY <1>1, <1>2, <1>3, ManagersPart

---------------------------------------------------------------------------
(* Nothing is lost                                                         *)

\* Starting and failing, and whatever happens to pairs.
LEMMA OtherPreservesSaved ==
  ASSUME Shared, Saved,
         \/ UNCHANGED vars
         \/ \E n \in Names : StartCapture(n) \/ StartFails(n)
         \/ \E r \in Requests : Recording(r)
         \/ \E s \in Stoppers : StopRaises(s) \/ StopBreaks(s)
  PROVE  Saved'
<1> USE DEF Shared, TypeOK, BufferTypeOK
<1>1. CASE UNCHANGED <<dirs, onDisk, out, stop>> /\ (faults' = 0 => faults = 0)
  BY <1>1 DEF Saved, Covered
<1>2. CASE faults' # 0
  BY <1>2 DEF Saved
<1>3. ASSUME NEW n \in Names, StartCapture(n) PROVE Saved'
  BY <1>3 DEF StartCapture, OpenBuffer, Saved, Covered
<1>4. ASSUME NEW n \in Names, StartFails(n) PROVE faults' # 0
  BY <1>4 DEF StartFails, Fault
<1>5. ASSUME NEW r \in Requests, Recording(r)
      PROVE  UNCHANGED <<dirs, onDisk, out, stop>> /\ (faults' = 0 => faults = 0)
  <2>1. CASE BufferWork(r)
    BY <1>5, <2>1
    DEF BufferWork, Worker, WriteLine, FlushLines, WriteLineFails, FlushOrSyncFails, BeginSync,
        EndSync, SyncOnClosed, UseClosedFile, Fault, bufferVars, outputVars
  <2>2. CASE RecordEntry(r) \/ AppendReturns(r) \/ AppendRaises(r)
    BY <2>2 DEF RecordEntry, AppendReturns, AppendRaises, bufferVars, outputVars
  <2> QED BY <1>5, <2>1, <2>2 DEF Recording
<1>6. ASSUME NEW s \in Stoppers, StopRaises(s)
      PROVE  UNCHANGED <<dirs, onDisk, out, stop>> /\ (faults' = 0 => faults = 0)
  BY <1>6 DEF StopRaises, StopCloseFails, StopReadFails, StopAnalysisFails, CloseBuffer,
              CloseBufferFails, Fault, outputVars
<1>7. ASSUME NEW s \in Stoppers, StopBreaks(s) PROVE faults' # 0
  BY <1>7 DEF StopBreaks, WriteFails, UnlinkFails, Fault
<1>8. CASE UNCHANGED vars
  BY <1>1, <1>8 DEF vars, bufferVars, outputVars
<1> QED BY <1>1, <1>2, <1>3, <1>4, <1>5, <1>6, <1>7, <1>8

\* A stop covers what it truncates, and what it has filled is whole.
LEMMA StopPreservesSaved ==
  ASSUME Shared, Saved, NEW s \in Stoppers,
         StopBegin(s) \/ TruncateOutput(s) \/ FillOutput(s) \/ StopFinish(s)
  PROVE  Saved'
<1> DEFINE n == stop[s].cap
           i == stop[s].next
<1> USE DEF Shared, TypeOK, BufferTypeOK
<1>1. /\ faults' = faults /\ dirs' = dirs
      /\ \A t \in Stoppers \ {s} : stop'[t] = stop[t]
  BY DEF StopBegin, TruncateOutput, FillOutput, StopFinish, CloseBuffer, outputVars
<1>2. CASE StopBegin(s)
  <2>1. /\ out' = out /\ onDisk' = onDisk /\ stop[s].pc = "idle"
        /\ stop'[s].pc = "truncate" /\ stop'[s].next = 1
    BY <1>2 DEF StopBegin, CloseBuffer, outputVars
  <2>2. \A m \in Names, k \in Outputs : Covered(m, k) => Covered(m, k)'
    BY <1>1, <2>1 DEF Covered, Rewrites
  <2>3. \A k \in Outputs : ~Passed(stop'[s], k)
    BY <2>1 DEF Passed, Outputs
  <2>4. \A t \in Stoppers \ {s}, k \in Outputs : Passed(stop[t], k) => stop[t].cap \in Names
    BY DEF Passed, StopState, Busy, Idle
  <2> QED BY <1>1, <2>1, <2>2, <2>3, <2>4 DEF Saved
<1>3. CASE TruncateOutput(s) \/ FillOutput(s) \/ StopFinish(s)
  <2>1. /\ stop[s] \in Busy /\ n \in Names /\ i \in Outputs
        /\ stop[s].pc \in {"truncate", "fill", "written"}
    BY <1>3 DEF TruncateOutput, FillOutput, StopFinish, StopState, Busy, Idle
  <2>2. \A t \in Stoppers, k \in Outputs : Passed(stop[t], k) => stop[t].cap \in Names
    BY DEF Passed, StopState, Busy, Idle
  <2>3. CASE TruncateOutput(s)
    <3>1. /\ onDisk' = onDisk /\ stop[s].pc = "truncate"
          /\ stop'[s].pc = "fill" /\ stop'[s].cap = n /\ stop'[s].next = i
      BY <2>1, <2>3 DEF TruncateOutput, bufferVars, Busy
    <3>2. \A m \in Names, k \in Outputs : out'[m][k] = out[m][k] \/ (m = n /\ k = i)
      BY <2>1, <2>3 DEF TruncateOutput
    <3>3. ASSUME NEW m \in Names, NEW k \in Outputs, Covered(m, k) PROVE Covered(m, k)'
      <4>1. CASE m = n /\ k = i
        <5>1. Rewrites(stop'[s], m, k)
          BY <2>1, <3>1, <4>1 DEF Rewrites, Outputs
        <5> QED BY <5>1 DEF Covered
      <4>2. CASE ~(m = n /\ k = i) /\ out[m][k].state = "whole"
        BY <3>2, <4>2 DEF Covered
      <4>3. ASSUME NEW t \in Stoppers, Rewrites(stop[t], m, k) PROVE Covered(m, k)'
        <5>1. Rewrites(stop'[t], m, k)
          BY <1>1, <3>1, <4>3 DEF Rewrites
        <5> QED BY <5>1 DEF Covered
      <4> QED BY <3>3, <4>1, <4>2, <4>3 DEF Covered
    <3>4. \A k \in Outputs : Passed(stop'[s], k) => Passed(stop[s], k)
      BY <3>1 DEF Passed
    <3> QED BY <1>1, <2>1, <2>2, <3>1, <3>3, <3>4 DEF Saved
  <2>4. CASE FillOutput(s)
    <3>1. /\ onDisk' = onDisk /\ stop[s].pc = "fill" /\ stop'[s] = Filled(stop[s])
      BY <2>4 DEF FillOutput, bufferVars
    <3>2. /\ stop'[s].cap = n
          /\ IF i = 3 THEN stop'[s].pc = "written"
                      ELSE stop'[s].pc = "truncate" /\ stop'[s].next = i + 1
      BY <2>1, <3>1 DEF Filled, Busy
    <3>3. /\ out'[n][i].state = "whole"
          /\ \A m \in Names, k \in Outputs : out'[m][k] = out[m][k] \/ (m = n /\ k = i)
      BY <2>1, <2>4 DEF FillOutput, Whole
    <3>4. ASSUME NEW m \in Names, NEW k \in Outputs, Covered(m, k) PROVE Covered(m, k)'
      <4>1. CASE out'[m][k].state = "whole"
        BY <4>1 DEF Covered
      <4>2. ASSUME NEW t \in Stoppers, Rewrites(stop[t], m, k), ~(m = n /\ k = i)
            PROVE  Covered(m, k)'
        <5>1. CASE t = s
          <6>1. m = n /\ i <= k /\ k # i
            BY <4>2, <5>1 DEF Rewrites
          <6>2. i \in 1..3 /\ k \in 1..3
            BY <2>1 DEF Outputs
          <6>3. i # 3 /\ i + 1 <= k
            <7> HIDE DEF i
            <7> QED BY <6>1, <6>2
          <6>4. Rewrites(stop'[s], m, k)
            BY <3>2, <6>1, <6>3 DEF Rewrites
          <6> QED BY <6>4 DEF Covered
        <5>2. CASE t # s
          BY <1>1, <4>2, <5>2 DEF Covered
        <5> QED BY <5>1, <5>2
      <4> QED BY <3>3, <3>4, <4>1, <4>2 DEF Covered
    <3>5. \A k \in Outputs : Passed(stop'[s], k) => Passed(stop[s], k) \/ k = i
      BY <2>1, <3>1, <3>2 DEF Passed, Outputs
    <3>6. \A m \in Names, k \in Outputs : m = n /\ k = i => Covered(m, k)'
      BY <3>3 DEF Covered
    <3> QED BY <1>1, <2>1, <2>2, <3>1, <3>2, <3>4, <3>5, <3>6 DEF Saved
  <2>5. CASE StopFinish(s)
    <3>1. /\ out' = out /\ stop[s].pc = "written" /\ stop'[s] = Idle
          /\ onDisk' = onDisk \ {n}
      BY <2>5 DEF StopFinish, outputVars
    <3>2. \A m \in Names, k \in Outputs : Covered(m, k) => Covered(m, k)'
      BY <1>1, <3>1 DEF Covered, Rewrites
    <3>3. \A k \in Outputs : Passed(stop[s], k) /\ ~Passed(stop'[s], k)
      BY <3>1 DEF Passed, Idle
    <3>4. ASSUME faults = 0, NEW m \in dirs' \ onDisk', NEW k \in Outputs
          PROVE  Covered(m, k)'
      <4>1. m \in Names /\ (m = n \/ m \in dirs \ onDisk)
        BY <1>1, <2>1, <3>1, <3>4
      <4>2. Covered(m, k)
        BY <3>3, <3>4, <4>1 DEF Saved
      <4> QED BY <3>2, <4>1, <4>2
    <3>5. ASSUME faults = 0, NEW t \in Stoppers, NEW k \in Outputs, Passed(stop'[t], k)
          PROVE  Covered(stop[t].cap, k)' /\ stop'[t] = stop[t]
      <4>1. t # s /\ stop'[t] = stop[t]
        BY <1>1, <3>3, <3>5
      <4>2. Covered(stop[t].cap, k) /\ stop[t].cap \in Names
        BY <2>2, <3>5, <4>1 DEF Saved
      <4> QED BY <3>2, <4>1, <4>2
    <3> QED BY <1>1, <3>4, <3>5 DEF Saved
  <2> QED BY <1>3, <2>3, <2>4, <2>5
<1> QED BY <1>2, <1>3

\* The threads have been joined when the process goes: what is covered is whole.
LEMMA ExitPreservesSaved ==
  ASSUME Shared, Saved, Kill, \A s \in Stoppers : stop[s].pc \notin {"truncate", "fill"}
  PROVE  Saved'
<1>1. \A n \in Names, k \in Outputs : Covered(n, k) => Covered(n, k)'
  BY DEF Kill, outputVars, Covered, Rewrites
<1>2. \A s \in Stoppers, k \in Outputs : ~Passed(stop'[s], k)
  BY DEF Kill, Idle, Passed
<1> QED BY <1>1, <1>2 DEF Kill, outputVars, Saved, Shared, TypeOK

---------------------------------------------------------------------------
(* The run                                                                 *)

LEMMA DaemonTypeStep == DaemonTypeOK /\ TypeOK' /\ [DaemonNext]_allVars => DaemonTypeOK'
<1> SUFFICES ASSUME DaemonTypeOK, TypeOK', [DaemonNext]_allVars PROVE DaemonTypeOK' OBVIOUS
<1> USE SignalAssumption
    DEF DaemonTypeOK, daemonVars, serverVars, runVars, Stages, ClientSteps, Goes
<1>1. CASE UNCHANGED allVars
  BY <1>1 DEF allVars
<1>2. ASSUME NEW r \in Requests,
             Accept(r) \/ Hangup(r) \/ Record(r) \/ AppendEnds(r) \/ WorkerThread(r)
      PROVE  DaemonTypeOK'
  BY <1>2 DEF Accept, Hangup, Record, AppendEnds, WorkerThread
<1>3. ASSUME NEW c \in Clients, Connect(c) \/ Command(c) \/ CaptureStopEnds(c)
      PROVE  DaemonTypeOK'
  <2>1. \E to \in ClientSteps : client' = [client EXCEPT ![c] = to]
    BY <1>3 DEF Connect, Command, CaptureStart, CaptureStop, Query, ProxyStop, CaptureStopEnds
  <2>2. client' \in [Clients -> ClientSteps]
    BY <2>1
  <2>3. UNCHANGED <<serverVars, stage, atShutdown, exit, signals, waits>>
    BY <1>3 DEF Connect, Command, CaptureStart, CaptureStop, Query, ProxyStop, CaptureStopEnds
  <2>4. requested' \in {requested, TRUE}
    BY <1>3 DEF Connect, Command, CaptureStart, CaptureStop, Query, ProxyStop, CaptureStopEnds
  <2> QED BY <2>2, <2>3, <2>4
<1>4. ASSUME NEW s \in Stoppers, OutputThread(s) PROVE DaemonTypeOK'
  BY <1>4 DEF OutputThread
<1>5. CASE Signal
  <2>1. signals' \in 0..MaxSignals
    BY <1>5 DEF Signal
  <2>2. CASE Dies("forced")
    BY <1>5, <2>1, <2>2 DEF Dies
  <2>3. CASE requested' = TRUE /\ UNCHANGED <<serverVars, stage, atShutdown, exit, client, waits>>
    BY <1>5, <2>1, <2>3
  <2> QED BY <1>5, <2>2, <2>3 DEF Signal
<1>6. CASE BeginShutdown
  BY <1>6 DEF BeginShutdown, CloseListener, ShutdownRaises, TypeOK
<1>7. CASE FlushEnds
  BY <1>7 DEF FlushEnds, CloseListener, ShutdownRaises
<1>8. CASE ListenerClosed \/ ControlClosed \/ Exit
  BY <1>8 DEF ListenerClosed, ControlClosed, Exit, Dies
<1> QED BY <1>1, <1>2, <1>3, <1>4, <1>5, <1>6, <1>7, <1>8 DEF DaemonNext, Shutdown

\* No step of the manager ends a run, links a buffer again, or removes a directory.
LEMMA BuffersDoNotReturn ==
  ASSUME Shared, [DaemonNext]_allVars
  PROVE  dirs \subseteq dirs' /\ \A n \in dirs : n \notin onDisk => n \notin onDisk'
<1>1. CASE [Next]_vars
  <2> USE DEF vars, bufferVars, outputVars
  <2>1. CASE UNCHANGED vars
    BY <2>1
  <2>2. ASSUME NEW n \in Names, StartCapture(n) \/ StartFails(n)
        PROVE  dirs \subseteq dirs' /\ onDisk' \subseteq onDisk \cup {n} /\ n \notin dirs
    BY <2>2 DEF StartCapture, StartFails, OpenBuffer
  <2>3. ASSUME NEW r \in Requests, Recording(r) PROVE UNCHANGED <<dirs, onDisk>>
    BY <2>3 DEF Recording, RecordEntry, AppendReturns, AppendRaises, BufferWork, Worker, WriteLine,
                FlushLines, WriteLineFails, FlushOrSyncFails, BeginSync, EndSync, SyncOnClosed,
                UseClosedFile
  <2>4. ASSUME NEW s \in Stoppers, StopCall(s) \/ StopWork(s)
        PROVE  dirs' = dirs /\ onDisk' \subseteq onDisk
    BY <2>4 DEF StopCall, StopWork, StopBegin, StopRaises, StopCloseFails, StopReadFails,
                StopAnalysisFails, CloseBuffer, CloseBufferFails, TruncateOutput, FillOutput,
                StopBreaks, WriteFails, UnlinkFails, StopFinish
  <2>5. CASE Crash \/ Restart
    BY <2>5 DEF Crash, Kill, Restart
  <2> QED BY <1>1, <2>1, <2>2, <2>3, <2>4, <2>5 DEF Next
<1>2. CASE Kill
  BY <1>2 DEF Kill, outputVars
<1>3. CASE UNCHANGED allVars
  BY <1>3 DEF allVars, vars, bufferVars, outputVars
<1> QED BY <1>1, <1>2, <1>3, ManagersPart

\* After a forced exit nothing is claimed; any other step keeps what is saved.
LEMMA SavedInDaemon ==
  ASSUME Orderly, [DaemonNext]_allVars
  PROVE  exit' # "forced" => exit # "forced" /\ Saved'
<1> SUFFICES ASSUME exit' # "forced" PROVE exit # "forced" /\ Saved' OBVIOUS
<1> USE StoppersAssumption DEF Orderly
<1>1. exit # "forced"
  BY DEF EndOfRun, DaemonNext, allVars, daemonVars, runVars, serverVars, Accept, Hangup, Record,
         AppendEnds, WorkerThread, Connect, Command, CaptureStart, CaptureStop, Query, ProxyStop,
         CaptureStopEnds, OutputThread, Signal, Dies, Shutdown, BeginShutdown, CloseListener,
         ShutdownRaises, FlushEnds, ListenerClosed, ControlClosed, Exit
<1>2. CASE UNCHANGED vars
  BY <1>1, <1>2, OtherPreservesSaved
<1>3. CASE \E n \in Names : StartCapture(n) \/ StartFails(n)
  BY <1>1, <1>3, OtherPreservesSaved
<1>4. CASE \E r \in Requests : Recording(r)
  BY <1>1, <1>4, OtherPreservesSaved
<1>5. CASE \E s \in Stoppers : StopRaises(s) \/ StopBreaks(s)
  BY <1>1, <1>5, OtherPreservesSaved
<1>6. CASE \E s \in Stoppers :
             StopBegin(s) \/ TruncateOutput(s) \/ FillOutput(s) \/ StopFinish(s)
  BY <1>1, <1>6, StopPreservesSaved
<1>7. CASE Exit
  BY <1>1, <1>7, ExitPreservesSaved DEF Exit, Dies
<1>8. ASSUME Signal PROVE UNCHANGED vars
  BY <1>8 DEF Signal, Dies
<1>9. ASSUME NEW c \in Clients, Connect(c) \/ Command(c) \/ CaptureStopEnds(c)
      PROVE  \/ UNCHANGED vars
             \/ \E n \in Names : StartCapture(n) \/ StartFails(n)
             \/ \E s \in Stoppers : StopRaises(s) \/ StopBreaks(s) \/ StopBegin(s) \/ StopFinish(s)
  BY <1>9 DEF Connect, Command, CaptureStart, CaptureStop, Query, ProxyStop, CaptureStopEnds
<1>10. ASSUME NEW r \in Requests,
              Accept(r) \/ Hangup(r) \/ Record(r) \/ AppendEnds(r) \/ WorkerThread(r)
       PROVE  UNCHANGED vars \/ Recording(r)
  BY <1>10 DEF Accept, Hangup, Record, AppendEnds, WorkerThread, Recording
<1>11. ASSUME NEW s \in Stoppers, OutputThread(s) PROVE TruncateOutput(s) \/ FillOutput(s)
  BY <1>11 DEF OutputThread
<1>12. ASSUME BeginShutdown \/ FlushEnds \/ ListenerClosed \/ ControlClosed
       PROVE  \/ UNCHANGED vars
              \/ \E s \in Stoppers : StopRaises(s) \/ StopBreaks(s) \/ StopBegin(s) \/ StopFinish(s)
  BY <1>12 DEF BeginShutdown, FlushEnds, ListenerClosed, ControlClosed
<1>13. CASE UNCHANGED allVars
  BY <1>2, <1>13 DEF allVars
<1>14. CASE \E c \in Clients : Connect(c) \/ Command(c) \/ CaptureStopEnds(c)
  BY <1>1, <1>2, <1>3, <1>5, <1>6, <1>9, <1>14
<1>15. CASE \E r \in Requests :
              Accept(r) \/ Hangup(r) \/ Record(r) \/ AppendEnds(r) \/ WorkerThread(r)
  BY <1>1, <1>2, <1>4, <1>10, <1>15
<1>16. CASE \E s \in Stoppers : OutputThread(s)
  BY <1>1, <1>6, <1>11, <1>16
<1>17. CASE Signal
  BY <1>1, <1>2, <1>8, <1>17
<1>18. CASE BeginShutdown \/ FlushEnds \/ ListenerClosed \/ ControlClosed
  BY <1>1, <1>2, <1>5, <1>6, <1>12, <1>18
<1> QED BY <1>1, <1>7, <1>13, <1>14, <1>15, <1>16, <1>17, <1>18 DEF DaemonNext, Shutdown

\* Only Exit and a second signal end the run, and both leave no task behind.
LEMMA EndInDaemon ==
  ASSUME Orderly, [DaemonNext]_allVars
  PROVE  EndOfRun'
<1> USE DEF Orderly, EndOfRun, daemonVars, serverVars, runVars
<1>1. ASSUME NEW s \in Stoppers, OutputThread(s) PROVE EndOfRun'
  <2>1. stop[s].pc # "idle" /\ UNCHANGED <<stage, exit>>
    BY <1>1 DEF OutputThread, TruncateOutput, FillOutput
  <2>2. stage # "exited"
    BY <2>1 DEF Idle
  <2> QED BY <2>1, <2>2
<1>2. ASSUME NEW r \in Requests,
             Accept(r) \/ Hangup(r) \/ Record(r) \/ AppendEnds(r) \/ WorkerThread(r)
      PROVE  EndOfRun'
  <2>1. UNCHANGED <<stage, exit>>
    BY <1>2 DEF Accept, Hangup, Record, AppendEnds, WorkerThread
  <2>2. stage = "exited" => UNCHANGED stop
    BY <1>2 DEF Accept, Hangup, Record, AppendEnds, WorkerThread, LoopRuns
  <2> QED BY <2>1, <2>2
<1>3. ASSUME NEW c \in Clients, Connect(c) \/ Command(c) \/ CaptureStopEnds(c)
      PROVE  EndOfRun'
  <2>1. stage # "exited" /\ UNCHANGED <<stage, exit>>
    BY <1>3 DEF Connect, Command, CaptureStart, CaptureStop, Query, ProxyStop, CaptureStopEnds,
                Goes, LoopRuns
  <2> QED BY <2>1
<1>4. CASE Signal
  <2>1. CASE Dies("forced")
    BY <2>1 DEF Dies, Kill
  <2>2. CASE UNCHANGED <<vars, stage, exit>>
    BY <2>2 DEF vars
  <2> QED BY <1>4, <2>1, <2>2 DEF Signal
<1>5. CASE BeginShutdown \/ FlushEnds \/ ListenerClosed \/ ControlClosed
  BY <1>5 DEF BeginShutdown, CloseListener, ShutdownRaises, FlushEnds, ListenerClosed,
              ControlClosed
<1>6. CASE Exit
  BY <1>6 DEF Exit, Dies, Kill
<1>7. CASE UNCHANGED allVars
  BY <1>7 DEF allVars, vars
<1> QED BY <1>1, <1>2, <1>3, <1>4, <1>5, <1>6, <1>7 DEF DaemonNext, Shutdown

\* Only its own task ends the flush, and the buffer it unlinks is the one it was found with.
LEMMA FlushInDaemon ==
  ASSUME Orderly, [DaemonNext]_allVars, Shared', DaemonTypeOK'
  PROVE  FlushIsOfFound'
<1> USE NoCaptureAssumption, StoppersAssumption
    DEF Orderly, FlushIsOfFound, daemonVars, serverVars, runVars
<1>1. dirs \subseteq dirs' /\ \A n \in dirs : n \notin onDisk => n \notin onDisk'
  BY BuffersDoNotReturn
<1>2. onDisk \subseteq Names /\ onDisk' \subseteq Names
  BY DEF Shared, TypeOK, BufferTypeOK
<1>3. CASE /\ UNCHANGED <<stage, exit, atShutdown>>
           /\ stop'[ShutdownTask] = stop[ShutdownTask]
  BY <1>1, <1>2, <1>3
<1>4. ASSUME NEW s \in Stoppers, OutputThread(s) PROVE FlushIsOfFound'
  <2>1. UNCHANGED <<stage, exit, atShutdown>>
    BY <1>4 DEF OutputThread
  <2>2. CASE s = ShutdownTask
    <3>1. stop[s] \in Busy
      BY <1>4 DEF OutputThread, TruncateOutput, FillOutput, Shared, TypeOK, StopState, Idle
    <3>2. stop'[s].pc # "idle" /\ stop'[s].cap = stop[s].cap
      <4>1. CASE TruncateOutput(s)
        BY <3>1, <4>1 DEF TruncateOutput, Busy, Shared, TypeOK
      <4>2. CASE FillOutput(s)
        BY <3>1, <4>2 DEF FillOutput, Filled, Busy, Shared, TypeOK
      <4> QED BY <1>4, <4>1, <4>2 DEF OutputThread
    <3> QED BY <1>1, <1>2, <2>1, <2>2, <3>2
  <2>3. CASE s # ShutdownTask
    <3>1. stop'[ShutdownTask] = stop[ShutdownTask]
      BY <1>4, <2>3 DEF OutputThread, TruncateOutput, FillOutput, Shared, TypeOK
    <3> QED BY <1>3, <2>1, <3>1
  <2> QED BY <2>2, <2>3
<1>5. ASSUME NEW r \in Requests,
             Accept(r) \/ Hangup(r) \/ Record(r) \/ AppendEnds(r) \/ WorkerThread(r)
      PROVE  FlushIsOfFound'
  BY <1>3, <1>5 DEF Accept, Hangup, Record, AppendEnds, WorkerThread, RecordEntry, AppendReturns,
                    AppendRaises, BufferWork, vars
<1>6. ASSUME NEW c \in Clients, Connect(c) \/ Command(c) \/ CaptureStopEnds(c)
      PROVE  FlushIsOfFound'
  <2>1. UNCHANGED <<stage, exit, atShutdown>>
    BY <1>6 DEF Connect, Command, CaptureStart, CaptureStop, Query, ProxyStop, CaptureStopEnds
  <2>2. c # ShutdownTask /\ c \in Stoppers
    OBVIOUS
  <2>3. \/ UNCHANGED stop
        \/ StopBegin(c) \/ StopRaises(c) \/ StopFinish(c) \/ StopBreaks(c)
    BY <1>6 DEF Connect, Command, CaptureStart, CaptureStop, Query, ProxyStop, CaptureStopEnds,
                StartCapture, StartFails, vars
  <2>4. \/ UNCHANGED stop
        \/ \E frame : stop' = [stop EXCEPT ![c] = frame]
    BY <2>3 DEF StopBegin, StopRaises, StopCloseFails, StopReadFails, StopAnalysisFails,
                StopFinish, StopBreaks, WriteFails, UnlinkFails
  <2>5. stop'[ShutdownTask] = stop[ShutdownTask]
    BY <2>2, <2>4 DEF Shared, TypeOK
  <2> QED BY <1>3, <2>1, <2>5
<1>7. CASE Signal
  <2>1. CASE Dies("forced")
    BY <1>1, <2>1 DEF Dies
  <2>2. CASE UNCHANGED <<vars, stage, atShutdown, exit>>
    BY <1>3, <2>2 DEF vars
  <2> QED BY <1>7, <2>1, <2>2 DEF Signal
<1>8. CASE BeginShutdown
  <2>1. active # NoCapture => active \in dirs
    BY DEF Shared, BufferOfActive
  <2>2. CASE active = NoCapture
    BY <1>2, <1>8, <2>2 DEF BeginShutdown, CloseListener
  <2>3. CASE StopBegin(ShutdownTask) /\ stage' = "flushing"
    <3>1. stop'[ShutdownTask].pc = "truncate" /\ stop'[ShutdownTask].cap = active
      BY <2>3 DEF StopBegin, Shared, TypeOK
    <3> QED BY <1>1, <1>8, <2>1, <2>3, <3>1 DEF BeginShutdown
  <2>4. CASE ShutdownRaises
    BY <1>1, <1>8, <2>1, <2>4 DEF BeginShutdown, ShutdownRaises
  <2> QED BY <1>8, <2>2, <2>3, <2>4 DEF BeginShutdown
<1>9. CASE FlushEnds
  <2>1. CASE StopFinish(ShutdownTask) /\ CloseListener
    BY <1>1, <1>9, <2>1 DEF FlushEnds, StopFinish, CloseListener
  <2>2. CASE ShutdownRaises
    BY <1>1, <1>9, <2>2 DEF FlushEnds, ShutdownRaises
  <2> QED BY <1>9, <2>1, <2>2 DEF FlushEnds
<1>10. CASE ListenerClosed \/ ControlClosed
  BY <1>1, <1>2, <1>10 DEF ListenerClosed, ControlClosed, EndOfRun
<1>11. CASE Exit
  BY <1>1, <1>2, <1>11 DEF Exit, Dies
<1>12. CASE UNCHANGED allVars
  BY <1>3, <1>12 DEF allVars, vars
<1> QED BY <1>4, <1>5, <1>6, <1>7, <1>8, <1>9, <1>10, <1>11, <1>12 DEF DaemonNext, Shutdown

LEMMA OrderlyInit == DaemonInit => Orderly
<1> SUFFICES ASSUME DaemonInit PROVE Orderly OBVIOUS
<1>1. Shared
  BY SharedInit DEF DaemonInit
<1>2. DaemonTypeOK
  <2>1. signals \in 0..MaxSignals
    BY SignalAssumption DEF DaemonInit
  <2>2. client \in [Clients -> ClientSteps]
    BY DEF DaemonInit, ClientSteps
  <2> QED BY <1>1, <2>1, <2>2 DEF DaemonInit, DaemonTypeOK, Stages, Shared
<1>3. Saved
  BY DEF DaemonInit, Init, Saved, Passed, Idle
<1>4. FlushIsOfFound /\ EndOfRun
  BY DEF DaemonInit, FlushIsOfFound, EndOfRun
<1> QED BY <1>1, <1>2, <1>3, <1>4 DEF Orderly

LEMMA OrderlyStep == Orderly /\ [DaemonNext]_allVars => Orderly'
<1> SUFFICES ASSUME Orderly, [DaemonNext]_allVars PROVE Orderly' OBVIOUS
<1>1. Shared'
  BY SharedInDaemon DEF Orderly
<1>2. DaemonTypeOK'
  BY <1>1, DaemonTypeStep DEF Orderly, Shared
<1>3. exit' # "forced" => Saved'
  BY SavedInDaemon
<1>4. EndOfRun'
  BY EndInDaemon
<1>5. FlushIsOfFound'
  BY <1>1, <1>2, FlushInDaemon
<1> QED BY <1>1, <1>2, <1>3, <1>4, <1>5 DEF Orderly

LEMMA AlwaysOrderly == DaemonSpec => []Orderly
BY OrderlyInit, OrderlyStep, PTL DEF DaemonSpec

---------------------------------------------------------------------------
(* Theorems                                                                *)

\* Type correctness of the daemon with its manager and buffers.
THEOREM DaemonTypeCorrect == DaemonSpec => []DaemonTypeOK
BY AlwaysOrderly, PTL DEF Orderly

\* In the daemon, with its signals and overlapping stops, a pair is answered only after
\* its line was fsynced.
THEOREM FsyncedInDaemon == DaemonSpec => []FsyncedBeforeAnswer
BY AlwaysOrderly, PTL DEF Orderly, Shared

\* In the daemon no whole output lacks an acknowledged pair, however stops overlap.
THEOREM ReportsCompleteInDaemon == DaemonSpec => []ReportsHoldAcknowledged
<1>1. Orderly => ReportsHoldAcknowledged
  BY SharedReports DEF Orderly
<1> QED BY <1>1, AlwaysOrderly, PTL

\* At the end of a run every output of a capture whose buffer is gone is whole.
LEMMA EndIsWhole ==
  ASSUME Orderly, stage = "exited", exit # "forced", faults = 0,
         NEW n \in dirs, n \notin onDisk, NEW k \in Outputs
  PROVE  out[n][k].state = "whole"
BY DEF Orderly, EndOfRun, Saved, Covered, Rewrites, Idle

\* The capture that shutdown finds active is whole after a clean exit, whatever control
\* clients did meanwhile.
THEOREM ActiveIsFlushed == DaemonSpec => []ActiveCaptureIsFlushed
<1>1. Orderly => ActiveCaptureIsFlushed
  BY EndIsWhole DEF Orderly, FlushIsOfFound, ActiveCaptureIsFlushed
<1> QED BY <1>1, AlwaysOrderly, PTL

\* No exit but a forced one loses a pair that was acknowledged, however stops overlap.
THEOREM OrderlyExitLosesNothing == DaemonSpec => []OrderlyExitKeepsAcknowledged
<1>1. ASSUME Orderly PROVE OrderlyExitKeepsAcknowledged
  <2> SUFFICES ASSUME stage = "exited", exit # "forced", faults = 0,
                      NEW r \in Requests, NEW n \in Names, Acknowledged(r, n)
               PROVE  Kept(n, r)
    BY DEF OrderlyExitKeepsAcknowledged
  <2>1. n \in dirs /\ r \in Range(file[n])
    BY <1>1, NoCaptureAssumption
    DEF Orderly, Shared, PairsHaveBuffers, LinesAreThere, Acknowledged
  <2>2. CASE n \in onDisk
    BY <2>1, <2>2 DEF Kept
  <2>3. CASE n \notin onDisk
    <3>1. \A k \in Outputs : out[n][k].state = "whole"
      BY <1>1, <2>1, <2>3, EndIsWhole
    <3>2. \A k \in Outputs : out[n][k].entries = file[n]
      BY <1>1, <3>1 DEF Orderly, Shared, OutputsAreFinal
    <3> QED BY <2>1, <3>1, <3>2 DEF Kept
  <2> QED BY <2>2, <2>3
<1> QED BY <1>1, AlwaysOrderly, PTL
---------------------------------------------------------------------------
(* Without an overlap of stops                                             *)

\* The daemon's process is there until it exits.
Runs == up <=> stage # "exited"

LEMMA RunsInDaemon == Runs /\ [DaemonNext]_allVars => Runs'
<1> SUFFICES ASSUME Runs, [DaemonNext]_allVars PROVE Runs' OBVIOUS
<1> USE DEF Runs, daemonVars, serverVars, runVars
<1>1. ASSUME NEW r \in Requests,
             Accept(r) \/ Hangup(r) \/ Record(r) \/ AppendEnds(r) \/ WorkerThread(r)
      PROVE  Runs'
  BY <1>1 DEF Accept, Hangup, Record, AppendEnds, WorkerThread, RecordEntry, AppendReturns,
              AppendRaises, BufferWork, vars
<1>2. ASSUME NEW c \in Clients, Connect(c) \/ Command(c) \/ CaptureStopEnds(c)
      PROVE  Runs'
  <2>1. stage' = stage
    BY <1>2 DEF Connect, Command, CaptureStart, CaptureStop, Query, ProxyStop, CaptureStopEnds
  <2>2. up' = up
    BY <1>2 DEF Connect, Command, CaptureStart, CaptureStop, Query, ProxyStop, CaptureStopEnds,
                StartCapture, StartFails, StopBegin, StopRaises, StopCloseFails, StopReadFails,
                StopAnalysisFails, StopFinish, StopBreaks, WriteFails, UnlinkFails, vars
  <2> QED BY <2>1, <2>2
<1>3. ASSUME NEW s \in Stoppers, OutputThread(s) PROVE Runs'
  BY <1>3 DEF OutputThread, TruncateOutput, FillOutput
<1>4. CASE Signal
  BY <1>4 DEF Signal, Dies, Kill, vars
<1>5. CASE BeginShutdown \/ FlushEnds \/ ListenerClosed \/ ControlClosed
  <2>1. stage # "exited" /\ stage' # "exited"
    BY <1>5 DEF BeginShutdown, FlushEnds, ListenerClosed, ControlClosed, CloseListener,
                ShutdownRaises
  <2>2. up' = up
    BY <1>5 DEF BeginShutdown, FlushEnds, ListenerClosed, ControlClosed, StopBegin, StopRaises,
                StopCloseFails, StopReadFails, StopAnalysisFails, StopFinish, StopBreaks,
                WriteFails, UnlinkFails, vars
  <2> QED BY <2>1, <2>2
<1>6. CASE Exit
  BY <1>6 DEF Exit, Dies, Kill
<1>7. CASE UNCHANGED allVars
  BY <1>7 DEF allVars, vars
<1> QED BY <1>1, <1>2, <1>3, <1>4, <1>5, <1>6, <1>7 DEF DaemonNext, Shutdown

LEMMA StoredInDaemon ==
  ASSUME NoOverlap, NoOverlap', Stored, [DaemonNext]_allVars
  PROVE  Stored'
<1>1. CASE [Next]_vars
  BY <1>1, StoredStep
<1>2. CASE Kill
  <2>1. Shared'
    BY SharedInDaemon DEF Stored, Solo
  <2>2. Solo'
    BY <1>2, <2>1, KillPreservesSolo DEF Stored
  <2> QED BY <1>2, <2>2 DEF Stored, DeadIsIdle, Kill
<1>3. CASE UNCHANGED allVars
  BY <1>3, StoredStep DEF allVars
<1> QED BY <1>1, <1>2, <1>3, ManagersPart

LEMMA StoredDuringRun == DaemonSpec /\ []NoOverlap => [](Stored /\ Runs)
<1>1. DaemonInit => Stored /\ Runs
  BY StoredInit DEF DaemonInit, Init, Runs
<1>2. /\ Stored /\ Runs /\ NoOverlap /\ NoOverlap' /\ [DaemonNext]_allVars
      => Stored' /\ Runs'
  BY StoredInDaemon, RunsInDaemon
<1> QED BY <1>1, <1>2, PTL DEF DaemonSpec

\* Overlapping stops are all that lets an interrupted or killed daemon lose what it
\* has acknowledged (InterruptKeepsAcknowledged): in every run without one, whatever
\* clients ask for, signals interrupt and calls fail, no acknowledged pair is missing
\* from disk.
THEOREM OnlyOverlapLoses == DaemonSpec /\ []NoOverlap => []AcknowledgedIsKept
<1>1. Stored => AcknowledgedIsKept
  BY SoloKeeps DEF Stored
<1> QED BY <1>1, StoredDuringRun, PTL

\* The daemon's clients, signals and shutdown drive the manager as a store in which
\* no log shrinks, none grows but the recording one's, and sealing changes none.
THEOREM DaemonRefinesStore == DaemonSpec /\ []NoOverlap => ImplementsStore
<1>1. DaemonInit => Store!StoreInit
  BY StoreInitial DEF DaemonInit
<1>2. ASSUME Stored, Stored', Runs, [DaemonNext]_allVars
      PROVE  [Store!StoreNext]_(Store!storeVars)
  <2>1. CASE [Next]_vars
    BY <1>2, <2>1, StoreStep
  <2>2. CASE Kill /\ stage # "exited"
    BY <1>2, <2>2, KillIsDie DEF Runs, Store!StoreNext
  <2>3. CASE UNCHANGED allVars
    BY <1>2, <2>3, StoreStep DEF allVars
  <2> QED BY <1>2, <2>1, <2>2, <2>3, ManagersPart
<1> QED BY <1>1, <1>2, StoredDuringRun, PTL DEF DaemonSpec, ImplementsStore, Store!StoreSpec
===============================================================================
