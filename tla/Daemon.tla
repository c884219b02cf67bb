------------------------------- MODULE Daemon -------------------------------
(***************************************************************************)
(* daemon.py: one run of the daemon from the moment it serves to its exit, *)
(* composing the capture manager with the clients of the control socket    *)
(* (recording/control.py), the proxy's connections, the signals, and       *)
(* Daemon.shutdown.                                                        *)
(*                                                                         *)
(* Control clients and shutdown call the same stop_capture, each in a task *)
(* of its own, and nothing serialises them: the tasks that may be inside   *)
(* stop_capture are the clients and ShutdownTask.                          *)
(***************************************************************************)
EXTENDS CaptureManager

CONSTANTS
  Clients,       \* invocations of the CLI, each one control connection
  ShutdownTask,  \* Daemon.shutdown
  MaxSignals     \* bound on the SIGINT and SIGTERM received

ASSUME StoppersAssumption == Stoppers = Clients \cup {ShutdownTask}
                             /\ ShutdownTask \notin Clients
ASSUME SignalAssumption == MaxSignals \in Nat

VARIABLES
  stage,       \* how far Daemon.run is
  requested,   \* _shutdown_event
  listening,   \* the proxy listener accepts connections
  controlOpen, \* the control server accepts clients
  conns,       \* pairs whose client connection is open
  seen,        \* pairs whose connection has been accepted at some time
  client,      \* [Clients -> ClientSteps]
  atShutdown,  \* the capture shutdown found active
  exit,        \* how the process ended
  signals,     \* signals received
  waits        \* Server.wait_closed waits for open connections: Python 3.12.1
               \* and later do, 3.11 (also supported) does not

serverVars == <<listening, controlOpen, conns, seen>>
runVars == <<stage, requested, atShutdown, exit, waits>>
daemonVars == <<serverVars, runVars, client, signals>>

\* "draining" is the end of asyncio.run: every task has been cancelled and the
\* threads of the default executor are joined.
Stages == {"serving", "flushing", "closingListener", "closingControl", "draining", "exited"}

\* A client is "refused" by an error it is told, and "cut" when its handler
\* raises anything else and the connection is closed without a response.
ClientSteps == {"new", "connected", "stopping", "served", "refused", "cut"}

DaemonTypeOK ==
  /\ TypeOK
  /\ stage \in Stages
  /\ requested \in BOOLEAN
  /\ listening \in BOOLEAN
  /\ controlOpen \in BOOLEAN
  /\ conns \subseteq seen
  /\ seen \subseteq Requests
  /\ client \in [Clients -> ClientSteps]
  /\ atShutdown \in Names \cup {NoCapture}
  /\ exit \in {"none", "clean", "error", "forced"}
  /\ signals \in 0..MaxSignals
  /\ waits \in BOOLEAN

DaemonInit ==
  /\ Init
  /\ stage = "serving"
  /\ requested = FALSE
  /\ listening = TRUE
  /\ controlOpen = TRUE
  /\ conns = {}
  /\ seen = {}
  /\ client = [c \in Clients |-> "new"]
  /\ atShutdown = NoCapture
  /\ exit = "none"
  /\ signals = 0
  /\ waits \in BOOLEAN

\* Coroutines run; from "draining" on only threads do.
LoopRuns == stage \notin {"draining", "exited"}

---------------------------------------------------------------------------
(* The proxy's connections.  One connection carries one pair here; it      *)
(* stays open after the response for as long as the client likes, and      *)
(* before it for as long as the upstream takes: nothing times out.         *)

\* Mutant of Accept: the connection is not remembered.
AcceptForgetting(r) ==
  /\ LoopRuns /\ listening
  /\ r \notin seen
  /\ conns' = conns \cup {r}
  /\ UNCHANGED <<vars, listening, controlOpen, seen, runVars, client, signals>>

Accept(r) ==
  /\ LoopRuns /\ listening
  /\ r \notin seen
  /\ seen' = seen \cup {r}
  /\ conns' = conns \cup {r}
  /\ UNCHANGED <<vars, listening, controlOpen, runVars, client, signals>>

Hangup(r) ==
  /\ LoopRuns
  /\ r \in conns
  /\ pc[r] \in {"forwarding", "answered", "dropped"}
  /\ conns' = conns \ {r}
  /\ UNCHANGED <<vars, listening, controlOpen, seen, runVars, client, signals>>

\* The upstream has answered.
Record(r) ==
  /\ LoopRuns
  /\ r \in conns
  /\ RecordEntry(r)
  /\ UNCHANGED daemonVars

AppendEnds(r) ==
  /\ LoopRuns
  /\ AppendReturns(r) \/ AppendRaises(r)
  /\ UNCHANGED daemonVars

---------------------------------------------------------------------------
(* The control socket: ControlServer._handle_client and the commands       *)

Goes(c, from, to) ==
  /\ LoopRuns
  /\ client[c] = from
  /\ client' = [client EXCEPT ![c] = to]

Connect(c) ==
  /\ controlOpen
  /\ Goes(c, "new", "connected")
  /\ UNCHANGED <<vars, serverVars, runVars, signals>>

CaptureStart(c) ==
  /\ \/ Goes(c, "connected", "served") /\ \E n \in Names : StartCapture(n)
     \/ Goes(c, "connected", "cut") /\ \E n \in Names : StartFails(n)
     \/ Goes(c, "connected", "refused") /\ (active # NoCapture \/ dirs # {}) /\ UNCHANGED vars
  /\ UNCHANGED <<serverVars, runVars, signals>>

CaptureStop(c) ==
  /\ \/ Goes(c, "connected", "stopping") /\ StopBegin(c)
     \/ Goes(c, "connected", "cut") /\ StopRaises(c)
     \/ Goes(c, "connected", "refused") /\ active = NoCapture /\ UNCHANGED vars
  /\ UNCHANGED <<serverVars, runVars, signals>>

CaptureStopEnds(c) ==
  /\ \/ Goes(c, "stopping", "served") /\ StopFinish(c)
     \/ Goes(c, "stopping", "cut") /\ StopBreaks(c)
  /\ UNCHANGED <<serverVars, runVars, signals>>

\* capture.list and proxy.status only read.
Query(c) ==
  /\ Goes(c, "connected", "served")
  /\ UNCHANGED <<vars, serverVars, runVars, signals>>

ProxyStop(c) ==
  /\ Goes(c, "connected", "served")
  /\ requested' = TRUE
  /\ UNCHANGED <<vars, serverVars, stage, atShutdown, exit, signals, waits>>

Command(c) ==
  CaptureStart(c) \/ CaptureStop(c) \/ Query(c) \/ ProxyStop(c)

---------------------------------------------------------------------------
(* Signals, and Daemon.shutdown                                            *)

\* What the loop is in the middle of when the process goes.
Dies(how) ==
  /\ Kill
  /\ UNCHANGED crashes
  /\ stage' = "exited"
  /\ exit' = how
  /\ listening' = FALSE
  /\ controlOpen' = FALSE
  /\ conns' = {}
  /\ UNCHANGED <<seen, requested, atShutdown, client, waits>>

Signal ==
  /\ stage # "exited"
  /\ signals < MaxSignals
  /\ signals' = signals + 1
  /\ \/ /\ requested
        /\ Dies("forced")
     \/ /\ ~requested
        /\ requested' = TRUE
        /\ UNCHANGED <<vars, serverVars, stage, atShutdown, exit, client, waits>>

\* ProxyListener.stop up to its await, with no await before it.
CloseListener ==
  /\ stage' = "closingListener"
  /\ listening' = FALSE
  /\ UNCHANGED <<controlOpen, conns, seen>>

\* An exception from stop_capture leaves Daemon.run: asyncio.run ends it.
ShutdownRaises ==
  /\ stage' = "draining"
  /\ exit' = "error"
  /\ UNCHANGED serverVars

\* Mutant of BeginShutdown: no flush.
BeginShutdownUnflushed ==
  /\ stage = "serving"
  /\ requested
  /\ atShutdown' = active
  /\ CloseListener
  /\ UNCHANGED <<vars, exit, requested, client, signals, waits>>

\* wait_for_shutdown returns; shutdown runs to its first await.
BeginShutdown ==
  /\ stage = "serving"
  /\ requested
  /\ atShutdown' = active
  /\ IF active = NoCapture
     THEN CloseListener /\ UNCHANGED <<vars, exit>>
     ELSE \/ StopBegin(ShutdownTask) /\ stage' = "flushing" /\ UNCHANGED <<serverVars, exit>>
          \/ StopRaises(ShutdownTask) /\ ShutdownRaises
  /\ UNCHANGED <<requested, client, signals, waits>>

FlushEnds ==
  /\ stage = "flushing"
  /\ \/ StopFinish(ShutdownTask) /\ CloseListener /\ UNCHANGED exit
     \/ StopBreaks(ShutdownTask) /\ ShutdownRaises
  /\ UNCHANGED <<requested, atShutdown, client, signals, waits>>

\* Mutant of ListenerClosed: waits for open connections whatever the Python.
ListenerClosedWaiting ==
  /\ stage = "closingListener"
  /\ conns = {}
  /\ stage' = "closingControl"
  /\ controlOpen' = FALSE
  /\ UNCHANGED <<vars, listening, conns, seen, requested, atShutdown, exit, client, signals,
                 waits>>

ListenerClosed ==
  /\ stage = "closingListener"
  /\ waits => conns = {}
  /\ stage' = "closingControl"
  /\ controlOpen' = FALSE
  /\ UNCHANGED <<vars, listening, conns, seen, requested, atShutdown, exit, client, signals,
                 waits>>

ControlClosed ==
  /\ stage = "closingControl"
  /\ waits => \A c \in Clients : client[c] \notin {"connected", "stopping"}
  /\ stage' = "draining"
  /\ exit' = "clean"
  /\ UNCHANGED <<vars, serverVars, requested, atShutdown, client, signals, waits>>

\* Mutant of Exit: the threads are not joined.
ExitUnjoined ==
  /\ stage = "draining"
  /\ Dies(exit)
  /\ UNCHANGED signals

\* A thread that has begun is joined; one still queued has been cancelled.
Exit ==
  /\ stage = "draining"
  /\ \A r \in Requests : pc[r] \notin {"written", "flushed", "syncing"}
  /\ \A s \in Stoppers : stop[s].pc \notin {"truncate", "fill"}
  /\ Dies(exit)
  /\ UNCHANGED signals

---------------------------------------------------------------------------
WorkerThread(r) == BufferWork(r) /\ stage # "exited" /\ UNCHANGED daemonVars

OutputThread(s) == (TruncateOutput(s) \/ FillOutput(s)) /\ UNCHANGED daemonVars

Shutdown == BeginShutdown \/ FlushEnds \/ ListenerClosed \/ ControlClosed \/ Exit

DaemonNext ==
  \/ \E r \in Requests : Accept(r) \/ Hangup(r) \/ Record(r) \/ AppendEnds(r) \/ WorkerThread(r)
  \/ \E c \in Clients : Connect(c) \/ Command(c) \/ CaptureStopEnds(c)
  \/ \E s \in Stoppers : OutputThread(s)
  \/ Signal
  \/ Shutdown

allVars == <<vars, daemonVars>>

\* The loop and the threads run on, and send_request writes its command as soon as
\* it is connected.  Nothing is assumed of the proxy's clients and the upstream:
\* the code puts no limit on how long they take.
DaemonFairness ==
  /\ \A r \in Requests : WF_allVars(AppendEnds(r)) /\ WF_allVars(WorkerThread(r))
  /\ \A c \in Clients : WF_allVars(Command(c)) /\ WF_allVars(CaptureStopEnds(c))
  /\ \A s \in Stoppers : WF_allVars(OutputThread(s))
  /\ WF_allVars(Shutdown)

DaemonSpec == DaemonInit /\ [][DaemonNext]_allVars /\ DaemonFairness

---------------------------------------------------------------------------
(* Properties                                                              *)

\* The capture that shutdown finds active has all its outputs once the daemon has
\* exited of its own accord, whatever clients were doing to it at the time; only a
\* failing write by a client's overlapping stop can undo that.
ActiveCaptureIsFlushed ==
  stage = "exited" /\ exit = "clean" /\ atShutdown # NoCapture /\ faults = 0
    => \A k \in Outputs : out[atShutdown][k].state = "whole"

\* As long as no file-system call fails: however the daemon ends other than by a
\* second interrupt, nothing that was acknowledged is missing from disk.  Overlapping
\* stops do not change that, since threads that have begun to write are waited for,
\* nor does a flush whose analysis raises, which ends the daemon by that exception
\* with the buffer closed and in place.  (A client's stop that overlaps the flush,
\* and fails to write after the flush has unlinked the buffer, does lose pairs.)
OrderlyExitKeepsAcknowledged ==
  stage = "exited" /\ exit # "forced" /\ faults = 0 =>
    \A r \in Requests, n \in Names : Acknowledged(r, n) => Kept(n, r)

\* Once a shutdown is requested the daemon exits, also when the flush fails and
\* while clients keep calling capture start and stop.  One thing can keep it from
\* it: a proxy connection that stays open, where wait_closed waits for those.
HeldOpen == stage = "closingListener" /\ waits /\ conns # {}
ShutdownEnds == [](requested => <>(stage = "exited") \/ <>[]HeldOpen)

---------------------------------------------------------------------------
(* What the documentation says and the code does not do                    *)

\* README.md: Ctrl+C "auto-flushes any active capture before exiting, so you never
\* lose a capture".  The control socket still takes capture.start while shutdown
\* writes the last capture and waits for connections, and nobody stops that one.
NeverLoseACapture ==
  stage = "exited" /\ exit = "clean" => \A n \in Names : n \notin onDisk

\* buffer.py: the buffer "gives a natural recovery path if the daemon crashes
\* mid-capture".  A stop that overlaps another one truncates the outputs again
\* after the first has unlinked the buffer.
InterruptKeepsAcknowledged == AcknowledgedIsKept
=============================================================================
