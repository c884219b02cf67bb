--------------------------- MODULE CaptureManager ---------------------------
(***************************************************************************)
(* recording/manager.py: the capture state machine of a daemon run, with   *)
(* the request handlers that record into it and the tasks that stop it.    *)
(*                                                                         *)
(* The event loop runs a coroutine from one await to the next, so an       *)
(* action is what happens between two awaits.  record_entry awaits a       *)
(* buffer worker; stop_capture awaits the thread that writes the outputs,  *)
(* and touches _active and _buffer again only after it.                    *)
(***************************************************************************)
EXTENDS CaptureBuffer

CONSTANTS
  Stoppers,    \* the tasks that may be inside stop_capture
  MaxCrashes   \* bound on how often the daemon process is killed

ASSUME CrashAssumption == MaxCrashes \in Nat

VARIABLES
  up,        \* the daemon process is running
  active,    \* _active
  buffer,    \* _buffer, named by the capture it was opened for
  count,     \* _active_request_count
  history,   \* _history
  dirs,      \* the captures whose output directory exists
  out,       \* [Names -> [Outputs -> Content]]: the files in it
  stop,      \* [Stoppers -> StopState]: each task's frame of stop_capture
  crashes    \* how often the daemon process was killed

managerVars == <<active, buffer, count, history>>
outputVars == <<dirs, out>>
vars == <<bufferVars, pairVars, faults, managerVars, outputVars, up, stop, crashes>>

\* raw.har, manifest.json and ANALYSIS.md, in the order they are written; the
\* content of each is known by the entries it was made from.
Outputs == 1..3
Content == [state : {"absent", "torn", "whole"}, entries : Seq(Requests)]
Absent == [state |-> "absent", entries |-> <<>>]
Torn == [state |-> "torn", entries |-> <<>>]
Whole(entries) == [state |-> "whole", entries |-> entries]

\* A stop is idle, about to open output `next` (which truncates it), about to
\* fill it, or has written all three and waits for the event loop.
Idle == [pc |-> "idle", cap |-> NoCapture, entries |-> <<>>, next |-> 1]
Busy == [pc : {"truncate", "fill", "written"}, cap : Names, entries : Seq(Requests),
         next : Outputs]
StopState == Busy \cup {Idle}

Stopping(n) == \E s \in Stoppers : stop[s].pc # "idle" /\ stop[s].cap = n

TypeOK ==
  /\ BufferTypeOK
  /\ up \in BOOLEAN
  /\ active \in Names \cup {NoCapture}
  /\ buffer \in Names \cup {NoCapture}
  /\ count \in Nat
  /\ history \in Seq([name : Names, entries : Seq(Requests)])
  /\ dirs \subseteq Names
  /\ out \in [Names -> [Outputs -> Content]]
  /\ stop \in [Stoppers -> StopState]
  /\ crashes \in 0..MaxCrashes

Init ==
  /\ BufferInit
  /\ active = NoCapture
  /\ buffer = NoCapture
  /\ count = 0
  /\ history = <<>>
  /\ up = TRUE
  /\ dirs = {}
  /\ out = [n \in Names |-> [k \in Outputs |-> Absent]]
  /\ stop = [s \in Stoppers |-> Idle]
  /\ crashes = 0

---------------------------------------------------------------------------
(* capture start                                                           *)

\* Mutant of StartCapture: the output directory may exist already.
StartCaptureReusing(n) ==
  /\ up
  /\ active = NoCapture
  /\ OpenBuffer(n)
  /\ dirs' = dirs \cup {n}
  /\ buffer' = n
  /\ active' = n
  /\ count' = 0
  /\ UNCHANGED <<pairVars, faults, history, out, up, stop, crashes>>

StartCapture(n) ==
  /\ up
  /\ active = NoCapture
  /\ n \notin dirs
  /\ OpenBuffer(n)
  /\ dirs' = dirs \cup {n}
  /\ buffer' = n
  /\ active' = n
  /\ count' = 0
  /\ UNCHANGED <<pairVars, faults, history, out, up, stop, crashes>>

\* The directory is made, the buffer file cannot be opened.
StartFails(n) ==
  /\ up
  /\ active = NoCapture
  /\ n \notin dirs
  /\ Fault
  /\ dirs' = dirs \cup {n}
  /\ UNCHANGED <<bufferVars, pairVars, managerVars, out, up, stop, crashes>>

---------------------------------------------------------------------------
(* record_entry, awaited by a request handler before it answers.  The      *)
(* client and the upstream chose what the pair holds.                      *)

RecordEntry(r) ==
  /\ up
  /\ pc[r] = "forwarding"
  /\ into' = [into EXCEPT ![r] = buffer]
  /\ pc' = [pc EXCEPT ![r] = IF buffer = NoCapture THEN "answered" ELSE "queued"]
  /\ unfit' \in IF buffer = NoCapture THEN {unfit} ELSE {unfit, unfit \cup {r}}
  /\ UNCHANGED <<bufferVars, faults, managerVars, outputVars, up, stop, crashes>>

\* Mutant of AppendReturns: the counter goes the wrong way.
AppendReturnsUncounting(r) ==
  /\ Advance(r, "synced", "answered")
  /\ count' = count - 1
  /\ UNCHANGED <<bufferVars, faults, active, buffer, history, outputVars, up, stop, crashes>>

\* Mutant of AppendReturns: waits for the buffer it was called on to be current.
AppendReturnsIfCurrent(r) ==
  /\ into[r] = buffer
  /\ Advance(r, "synced", "answered")
  /\ count' = count + 1
  /\ UNCHANGED <<bufferVars, faults, active, buffer, history, outputVars, up, stop, crashes>>

AppendReturns(r) ==
  /\ Advance(r, "synced", "answered")
  /\ count' = count + 1
  /\ UNCHANGED <<bufferVars, faults, active, buffer, history, outputVars, up, stop, crashes>>

\* The exception leaves _serve_requests before write_response.
AppendRaises(r) ==
  /\ Advance(r, "raised", "dropped")
  /\ UNCHANGED <<bufferVars, faults, managerVars, outputVars, up, stop, crashes>>

---------------------------------------------------------------------------
(* stop_capture up to its await: close the buffer, read it back, and       *)
(* compute the outputs                                                     *)

\* classify_entries, build_flows, build_manifest and render_analysis_md parse the
\* URLs and bodies the pairs hold, and let the exceptions of urljoin, urlsplit and
\* a deeply nested json.loads through.
Analysable(entries) == Range(entries) \cap unfit = {}

\* Mutant of StopBegin: unlinks the buffer as soon as it has been read.
StopBeginUnlinking(s) ==
  /\ up
  /\ stop[s].pc = "idle"
  /\ active # NoCapture /\ buffer # NoCapture
  /\ Readable(active)
  /\ Analysable(ReadBuffer(active, file[active] \o pending[active]))
  /\ file' = [file EXCEPT ![buffer] = @ \o pending[buffer]]
  /\ pending' = [pending EXCEPT ![buffer] = <<>>]
  /\ open' = open \ {buffer}
  /\ onDisk' = onDisk \ {active}
  /\ stop' = [stop EXCEPT ![s] = [pc |-> "truncate", cap |-> active, next |-> 1,
                                  entries |-> ReadBuffer(active, file'[active])]]
  /\ UNCHANGED <<synced, torn, pairVars, faults, managerVars, outputVars, up, crashes>>

\* Mutant of StopBegin: reads the buffer without closing it.
StopBeginUnclosed(s) ==
  /\ up
  /\ stop[s].pc = "idle"
  /\ active # NoCapture /\ buffer # NoCapture
  /\ Readable(active)
  /\ Analysable(ReadBuffer(active, file[active]))
  /\ stop' = [stop EXCEPT ![s] = [pc |-> "truncate", cap |-> active, next |-> 1,
                                  entries |-> ReadBuffer(active, file[active])]]
  /\ UNCHANGED <<bufferVars, pairVars, faults, managerVars, outputVars, up, crashes>>

StopBegin(s) ==
  /\ up
  /\ stop[s].pc = "idle"
  /\ active # NoCapture /\ buffer # NoCapture
  /\ CloseBuffer(buffer)
  /\ Readable(active)
  /\ Analysable(ReadBuffer(active, file'[active]))
  /\ stop' = [stop EXCEPT ![s] = [pc |-> "truncate", cap |-> active, next |-> 1,
                                  entries |-> ReadBuffer(active, file'[active])]]
  /\ UNCHANGED <<pairVars, faults, managerVars, outputVars, up, crashes>>

StopCloseFails(s) ==
  /\ up
  /\ stop[s].pc = "idle"
  /\ active # NoCapture /\ buffer # NoCapture
  /\ CloseBufferFails(buffer)
  /\ UNCHANGED <<pairVars, managerVars, outputVars, up, stop, crashes>>

\* read_buffer throws: the buffer is closed, and the capture stays active.
StopReadFails(s) ==
  /\ up
  /\ stop[s].pc = "idle"
  /\ active # NoCapture /\ buffer # NoCapture
  /\ CloseBuffer(buffer)
  /\ ~Readable(active)
  /\ UNCHANGED <<pairVars, faults, managerVars, outputVars, up, stop, crashes>>

\* The analysis raises, as it will at every later stop: again the buffer is closed
\* and the capture stays active.
StopAnalysisFails(s) ==
  /\ up
  /\ stop[s].pc = "idle"
  /\ active # NoCapture /\ buffer # NoCapture
  /\ CloseBuffer(buffer)
  /\ Readable(active)
  /\ ~Analysable(ReadBuffer(active, file'[active]))
  /\ UNCHANGED <<pairVars, faults, managerVars, outputVars, up, stop, crashes>>

(* _write_outputs, on a worker thread *)

TruncateOutput(s) ==
  /\ stop[s].pc = "truncate"
  /\ out' = [out EXCEPT ![stop[s].cap][stop[s].next] = Torn]
  /\ stop' = [stop EXCEPT ![s].pc = "fill"]
  /\ UNCHANGED <<bufferVars, pairVars, faults, managerVars, dirs, up, crashes>>

\* Mutant of Filled: ANALYSIS.md is not written.
FilledEarly(frame) == IF frame.next = 2
                      THEN [frame EXCEPT !.pc = "written"]
                      ELSE [frame EXCEPT !.pc = "truncate", !.next = @ + 1]

Filled(frame) == IF frame.next = 3
                 THEN [frame EXCEPT !.pc = "written"]
                 ELSE [frame EXCEPT !.pc = "truncate", !.next = @ + 1]

FillOutput(s) ==
  /\ stop[s].pc = "fill"
  /\ out' = [out EXCEPT ![stop[s].cap][stop[s].next] = Whole(stop[s].entries)]
  /\ stop' = [stop EXCEPT ![s] = Filled(@)]
  /\ UNCHANGED <<bufferVars, pairVars, faults, managerVars, dirs, up, crashes>>

\* Mutant of WriteFails: _active and _buffer are cleared all the same.
WriteFailsForgetting(s) ==
  /\ stop[s].pc \in {"truncate", "fill"}
  /\ Fault
  /\ stop' = [stop EXCEPT ![s] = Idle]
  /\ active' = NoCapture
  /\ buffer' = NoCapture
  /\ UNCHANGED <<bufferVars, pairVars, count, history, outputVars, up, crashes>>

\* Mutant of WriteFails: _buffer is cleared when it is closed.
WriteFailsUnbuffered(s) ==
  /\ stop[s].pc \in {"truncate", "fill"}
  /\ Fault
  /\ stop' = [stop EXCEPT ![s] = Idle]
  /\ buffer' = NoCapture
  /\ UNCHANGED <<bufferVars, pairVars, active, count, history, outputVars, up, crashes>>

\* An OSError from the thread leaves stop_capture: nothing it would have done
\* after the await happens, and the capture stays active.
WriteFails(s) ==
  /\ stop[s].pc \in {"truncate", "fill"}
  /\ Fault
  /\ stop' = [stop EXCEPT ![s] = Idle]
  /\ UNCHANGED <<bufferVars, pairVars, managerVars, outputVars, up, crashes>>

(* stop_capture after its await *)
StopFinish(s) ==
  /\ stop[s].pc = "written"
  /\ onDisk' = onDisk \ {stop[s].cap}
  /\ active' = NoCapture
  /\ buffer' = NoCapture
  /\ history' = Append(history, [name |-> stop[s].cap, entries |-> stop[s].entries])
  /\ stop' = [stop EXCEPT ![s] = Idle]
  /\ UNCHANGED <<pending, file, synced, open, torn, pairVars, faults, count, outputVars, up,
                 crashes>>

\* The buffer cannot be unlinked: the outputs are whole, and the capture that they
\* are of stays active.
UnlinkFails(s) ==
  /\ stop[s].pc = "written"
  /\ stop[s].cap \in onDisk
  /\ Fault
  /\ stop' = [stop EXCEPT ![s] = Idle]
  /\ UNCHANGED <<bufferVars, pairVars, managerVars, outputVars, up, crashes>>

---------------------------------------------------------------------------
(* The process is killed (SIGKILL, os._exit) and later started again: its  *)
(* memory is gone, its files are as the operating system has them.         *)

Kill ==
  /\ up' = FALSE
  /\ active' = NoCapture
  /\ buffer' = NoCapture
  /\ count' = 0
  /\ history' = <<>>
  /\ open' = {}
  /\ pending' = [n \in Names |-> <<>>]
  /\ pc' = [r \in Requests |-> IF pc[r] \in WorkerSteps \cup {"raised"}
                               THEN "dropped" ELSE pc[r]]
  /\ stop' = [s \in Stoppers |-> Idle]
  /\ UNCHANGED <<file, synced, onDisk, torn, into, unfit, faults, outputVars>>

Crash ==
  /\ up
  /\ crashes < MaxCrashes
  /\ crashes' = crashes + 1
  /\ Kill

\* Mutant of Restart: a start clears leftover buffers away.
RestartClearing ==
  /\ ~up
  /\ up' = TRUE
  /\ onDisk' = {}
  /\ UNCHANGED <<pending, file, synced, open, torn, pairVars, faults, managerVars, outputVars,
                 stop, crashes>>

Restart ==
  /\ ~up
  /\ up' = TRUE
  /\ UNCHANGED <<bufferVars, pairVars, faults, managerVars, outputVars, stop, crashes>>

---------------------------------------------------------------------------
BufferWork(r) ==
  /\ Worker(r)
  /\ UNCHANGED <<managerVars, outputVars, up, stop, crashes>>

Recording(r) == RecordEntry(r) \/ BufferWork(r) \/ AppendReturns(r) \/ AppendRaises(r)

\* stop_capture raises after, and before, it has handed over to the thread.
StopBreaks(s) == WriteFails(s) \/ UnlinkFails(s)
StopRaises(s) == StopCloseFails(s) \/ StopReadFails(s) \/ StopAnalysisFails(s)

StopWork(s) == TruncateOutput(s) \/ FillOutput(s) \/ StopFinish(s) \/ StopBreaks(s)

StopCall(s) == StopBegin(s) \/ StopRaises(s)

Next ==
  \/ \E n \in Names : StartCapture(n) \/ StartFails(n)
  \/ \E r \in Requests : Recording(r)
  \/ \E s \in Stoppers : StopCall(s) \/ StopWork(s)
  \/ Crash
  \/ Restart

Spec == Init /\ [][Next]_vars

\* Threads and ready coroutines are scheduled; the operator, or the daemon's
\* shutdown, calls stop_capture for as long as a capture is active.
Fairness ==
  /\ \A r \in Requests : WF_vars(BufferWork(r)) /\ WF_vars(AppendReturns(r))
                                                 /\ WF_vars(AppendRaises(r))
  /\ \A s \in Stoppers : WF_vars(StopWork(s)) /\ WF_vars(StopCall(s))
  /\ WF_vars(Restart)

FairSpec == Spec /\ Fairness

---------------------------------------------------------------------------
(* Properties                                                              *)

WholeOutputs(n, entries) == \A k \in Outputs : out[n][k] = Whole(entries)

\* What a process that dies now leaves to be read: the buffer, or all of the
\* outputs.
Kept(n, r) ==
  \/ n \in onDisk /\ r \in Range(file[n])
  \/ \A k \in Outputs : out[n][k].state = "whole" /\ r \in Range(out[n][k].entries)

\* A pair whose append returned is never missing from disk, whatever the loop,
\* the workers and the writer of the outputs are at when the process dies: the
\* buffer is unlinked only when the outputs hold everything it held.
AcknowledgedIsKept ==
  \A r \in Requests, n \in Names : Acknowledged(r, n) => Kept(n, r)

\* While the buffer is open, a pair is answered only after an fsync covered its
\* line (append: "flushed and fsynced before returning").
FsyncedBeforeAnswer ==
  \A r \in Requests : \A n \in open : Acknowledged(r, n) => r \in synced[n]

\* No file stop_capture has written for a capture lacks a pair acknowledged into
\* that capture: closing first makes the entries it reads back final.
ReportsHoldAcknowledged ==
  \A r \in Requests, n \in Names, k \in Outputs :
    Acknowledged(r, n) /\ out[n][k].state = "whole" => r \in Range(out[n][k].entries)

\* A capture in the list of completed ones is there once, its three files agree
\* with the request count reported for it, and its buffer is gone.
HistoryIsWhole ==
  /\ \A i, j \in DOMAIN history : history[i].name = history[j].name => i = j
  /\ \A i \in DOMAIN history :
       LET h == history[i]
       IN  WholeOutputs(h.name, h.entries) /\ h.name \notin onDisk

\* A capture stops being the active one only by entering the history, unless the
\* process dies.
NoCaptureForgotten ==
  [][active # NoCapture /\ active' # active /\ up'
       => history' # history /\ history'[Len(history')].name = active]_vars

\* Once a capture is neither active nor being stopped, nothing touches its files:
\* not a late worker, not a later capture, not a daemon started after a crash.
SettledIsFrozen ==
  [][\A n \in dirs :
       n # active /\ ~Stopping(n)
         => /\ file'[n] = file[n] /\ out'[n] = out[n]
            /\ n \in onDisk' <=> n \in onDisk]_vars

\* A capture whose stop keeps being asked for is completed in the end, also after
\* its buffer, one of the outputs or the unlink has failed: the failed stop has
\* left a state from which it can be tried again.  Two things are in the way of
\* every stop that follows: half a line in the buffer, and a pair in it with
\* content the analysis raises on.
StopsComplete ==
  \A n \in Names : active = n ~> \/ \E i \in DOMAIN history : history[i].name = n
                                 \/ ~up
                                 \/ n \in torn
                                 \/ ~Analysable(file[n])

\* A request handler is never left waiting for its append.
AppendsSettle ==
  \A r \in Requests : pc[r] = "queued" ~> pc[r] \in {"answered", "dropped"}

---------------------------------------------------------------------------
(* The store a user is promised                                            *)

\* A capture is sealed once its outputs have replaced its buffer.
StorePhase(n) ==
  IF n \notin dirs THEN "unused"
  ELSE IF n = active THEN "recording"
  ELSE IF n \notin onDisk /\ out[n][1].state = "whole" THEN "sealed"
  ELSE "spoiled"

StoreKept(n) == Range(IF n \in onDisk THEN file[n] ELSE out[n][1].entries)

Store == INSTANCE CaptureStore WITH
  running <- up,
  phase <- [n \in Names |-> StorePhase(n)],
  kept <- [n \in Names |-> StoreKept(n)]

\* Recording, stopping, failing and dying are steps of the store: no log ever
\* shrinks, none grows but the active one's, and sealing changes no log.
ImplementsStore == Store!StoreSpec

---------------------------------------------------------------------------
(* What the documentation says and the code does not do                    *)

\* README.md: "in-scope traffic flows normally whether or not a capture is
\* active".  A pair whose append meets the closed buffer takes the client's
\* connection down with it.
TrafficFlowsNormally == \A r \in Requests : pc[r] # "dropped"
=============================================================================
