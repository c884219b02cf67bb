---------------------------- MODULE InstanceGuard ----------------------------
(***************************************************************************)
(* recording/control.py and daemon.py: how daemons started on one state    *)
(* directory keep out of each other's way.  ControlServer.start probes the *)
(* socket path, removes a stale socket and binds; the proxy listener binds *)
(* its port next; stop unlinks the path.  Each of these is a system call   *)
(* of its own, and the processes are not synchronised.                     *)
(***************************************************************************)
EXTENDS FiniteSets

CONSTANTS
  Daemons,   \* the processes started on the state directory
  Ports,     \* the --listen-address values they are given
  Nobody     \* no process

ASSUME NobodyAssumption == Nobody \notin Daemons

VARIABLES
  at,        \* [Daemons -> Steps]: where each process is
  path,      \* whose socket file control.sock is, or Nobody
  serving,   \* the processes whose control socket is listening
  bound,     \* [Ports -> Daemons \cup {Nobody}]: who holds each port
  portOf,    \* [Daemons -> Ports]
  contended  \* a start has overlapped another process's start or stop

vars == <<at, path, serving, bound, portOf, contended>>

Starting == {"probing", "unlinking", "replacing", "binding", "opening", "listening"}
Stopping == {"closing", "checking", "removing"}
Ended == {"refused", "failed", "exited", "killed"}
Steps == {"new", "running"} \cup Starting \cup Stopping \cup Ended

TypeOK ==
  /\ at \in [Daemons -> Steps]
  /\ path \in Daemons \cup {Nobody}
  /\ serving \subseteq Daemons
  /\ bound \in [Ports -> Daemons \cup {Nobody}]
  /\ portOf \in [Daemons -> Ports]
  /\ contended \in BOOLEAN

Init ==
  /\ at = [d \in Daemons |-> "new"]
  /\ path = Nobody
  /\ serving = {}
  /\ bound = [p \in Ports |-> Nobody]
  /\ portOf \in [Daemons -> Ports]
  /\ contended = FALSE

Goes(d, from, to) == at[d] = from /\ at' = [at EXCEPT ![d] = to]

\* A process that ends takes its sockets along, but not the socket file.
Ends(d, from, how) ==
  /\ Goes(d, from, how)
  /\ serving' = serving \ {d}
  /\ bound' = [p \in Ports |-> IF bound[p] = d THEN Nobody ELSE bound[p]]
  /\ UNCHANGED <<path, portOf, contended>>

---------------------------------------------------------------------------
(* ControlServer.start                                                     *)

Exists(d) ==
  /\ Goes(d, "new", IF path = Nobody THEN "replacing" ELSE "probing")
  /\ contended' = (contended \/ \E e \in Daemons : at[e] \in Starting \cup Stopping)
  /\ UNCHANGED <<path, serving, bound, portOf>>

\* _is_socket_live: only a listening socket accepts the connection; one that is
\* gone, stale, or bound and not yet listening refuses it.
ProbeLive(d) ==
  /\ path \in serving
  /\ Ends(d, "probing", "refused")

\* Mutant of ProbeStale: what exists is taken to be stale.
ProbeStaleBlindly(d) ==
  /\ Goes(d, "probing", "unlinking")
  /\ UNCHANGED <<path, serving, bound, portOf, contended>>

ProbeStale(d) ==
  /\ path \notin serving
  /\ Goes(d, "probing", "unlinking")
  /\ UNCHANGED <<path, serving, bound, portOf, contended>>

\* Path.unlink removes whatever is there by now, and throws if nothing is.
Unlink(d) ==
  \/ /\ path # Nobody
     /\ Goes(d, "unlinking", "replacing")
     /\ path' = Nobody
     /\ UNCHANGED <<serving, bound, portOf, contended>>
  \/ /\ path = Nobody
     /\ Ends(d, "unlinking", "failed")

\* asyncio's create_unix_server removes a socket it finds at the path itself,
RemoveSocket(d) ==
  /\ Goes(d, "replacing", "binding")
  /\ path' = Nobody
  /\ UNCHANGED <<serving, bound, portOf, contended>>

\* Mutant of Bind: the path is recorded under the port.
BindToPort(d) ==
  \/ /\ path = Nobody
     /\ Goes(d, "binding", "opening")
     /\ path' = portOf[d]
     /\ UNCHANGED <<serving, bound, portOf, contended>>
  \/ /\ path # Nobody
     /\ Ends(d, "binding", "failed")

\* then binds, which fails if another process has bound in the meantime,
Bind(d) ==
  \/ /\ path = Nobody
     /\ Goes(d, "binding", "opening")
     /\ path' = d
     /\ UNCHANGED <<serving, bound, portOf, contended>>
  \/ /\ path # Nobody
     /\ Ends(d, "binding", "failed")

\* and listens.
Listen(d) ==
  /\ Goes(d, "opening", "listening")
  /\ serving' = serving \cup {d}
  /\ UNCHANGED <<path, bound, portOf, contended>>

---------------------------------------------------------------------------
(* ProxyListener.start, called after it and outside run's try              *)

BindPort(d) ==
  \/ /\ bound[portOf[d]] = Nobody
     /\ Goes(d, "listening", "running")
     /\ bound' = [bound EXCEPT ![portOf[d]] = d]
     /\ UNCHANGED <<path, serving, portOf, contended>>
  \/ /\ bound[portOf[d]] # Nobody
     /\ Ends(d, "listening", "failed")

---------------------------------------------------------------------------
(* Daemon.shutdown and ControlServer.stop                                  *)

StopListener(d) ==
  /\ Goes(d, "running", "closing")
  /\ bound' = [bound EXCEPT ![portOf[d]] = Nobody]
  /\ contended' = (contended \/ \E e \in Daemons : at[e] \in Starting)
  /\ UNCHANGED <<path, serving, portOf>>

CloseControl(d) ==
  /\ Goes(d, "closing", "checking")
  /\ serving' = serving \ {d}
  /\ UNCHANGED <<path, bound, portOf, contended>>

CheckPath(d) ==
  /\ Goes(d, "checking", IF path = Nobody THEN "exited" ELSE "removing")
  /\ UNCHANGED <<path, serving, bound, portOf, contended>>

RemovePath(d) ==
  /\ Goes(d, "removing", IF path = Nobody THEN "failed" ELSE "exited")
  /\ path' = Nobody
  /\ UNCHANGED <<serving, bound, portOf, contended>>

\* SIGKILL, or the forced exit of a second interrupt.
Kill(d) == \E from \in {"running"} \cup Starting \cup Stopping : Ends(d, from, "killed")

---------------------------------------------------------------------------
Start(d) ==
  \/ Exists(d) \/ ProbeLive(d) \/ ProbeStale(d) \/ Unlink(d)
  \/ RemoveSocket(d) \/ Bind(d) \/ Listen(d) \/ BindPort(d)

Stop(d) == StopListener(d) \/ CloseControl(d) \/ CheckPath(d) \/ RemovePath(d)

Next == \E d \in Daemons : Start(d) \/ Stop(d) \/ Kill(d)

Spec == Init /\ [][Next]_vars

---------------------------------------------------------------------------
(* Properties                                                              *)

\* As long as no start has overlapped another start or a stop, at most one daemon
\* runs, and it is the one the command line reaches, whatever was killed before.
SoleDaemonIsReachable ==
  ~contended => \A d \in Daemons : at[d] = "running" =>
    /\ path = d /\ d \in serving
    /\ \A e \in Daemons : at[e] = "running" => e = d

\* Without such an overlap no start fails: a socket file a killed daemon left is
\* never in the way, and a running daemon is found before its port is.
StaleSocketNeverBlocks ==
  ~contended => \A d \in Daemons : at[d] # "failed"
=============================================================================
