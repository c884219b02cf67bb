--------------------------- MODULE CaptureBuffer ---------------------------
(***************************************************************************)
(* capture/buffer.py: the append-only JSONL buffer of a capture, as the    *)
(* daemon's threads use it.                                                *)
(*                                                                         *)
(* CaptureBuffer.append hands _append_sync to a worker thread, so a pair   *)
(* that is being recorded goes through write, flush and fsync while the    *)
(* event loop, and the workers of other pairs, run.  The loop may close    *)
(* the file between any two of these calls.  A line is the pair it holds:  *)
(* what JSON it is written as is har.py's business.                        *)
(***************************************************************************)
EXTENDS Naturals, Sequences, FiniteSets, Functions

CONSTANTS
  Requests,   \* the request/response pairs the proxy completes
  Names,      \* a capture's --name on a day: it determines the output directory
  NoCapture,  \* Python's None, for _active and _buffer
  MaxFaults   \* bound on the file-system calls that fail

ASSUME NoCaptureAssumption == NoCapture \notin Names
ASSUME FaultAssumption == MaxFaults \in Nat

VARIABLES
  pending,  \* [Names -> Seq(Requests)]: lines still in the file object's memory
  file,     \* [Names -> Seq(Requests)]: lines the operating system has
  synced,   \* [Names -> SUBSET Requests]: lines an fsync has made durable
  open,     \* the captures whose buffer file is open
  onDisk,   \* the captures whose .buffer.jsonl is linked in their directory
  torn,     \* the captures with half a line in their file, the rest of it lost
  pc,       \* [Requests -> Steps]: how far each pair is
  into,     \* [Requests -> Names \cup {NoCapture}]: the buffer append was called on
  unfit,    \* the recorded pairs with content that the analysis raises on
  faults    \* how many file-system calls have failed

bufferVars == <<pending, file, synced, open, onDisk, torn>>
pairVars == <<pc, into, unfit>>

\* "forwarding": the response has not been read yet.  The next five are the
\* worker's: "queued" for a thread, then past each call of _append_sync;
\* "raised": a call of _append_sync has thrown.  At the end the response has
\* been "answered" to the client, or its connection "dropped".
WorkerSteps == {"queued", "written", "flushed", "syncing", "synced"}
Steps == WorkerSteps \cup {"forwarding", "raised", "answered", "dropped"}

\* append returned normally: by contract the line is flushed and fsynced.
Acknowledged(r, n) == pc[r] \in {"synced", "answered"} /\ into[r] = n

BufferTypeOK ==
  /\ pending \in [Names -> Seq(Requests)]
  /\ file \in [Names -> Seq(Requests)]
  /\ synced \in [Names -> SUBSET Requests]
  /\ open \subseteq Names
  /\ onDisk \subseteq Names
  /\ torn \subseteq Names
  /\ pc \in [Requests -> Steps]
  /\ into \in [Requests -> Names \cup {NoCapture}]
  /\ unfit \subseteq Requests
  /\ faults \in 0..MaxFaults

BufferInit ==
  /\ pending = [n \in Names |-> <<>>]
  /\ file = [n \in Names |-> <<>>]
  /\ synced = [n \in Names |-> {}]
  /\ open = {}
  /\ onDisk = {}
  /\ torn = {}
  /\ pc = [r \in Requests |-> "forwarding"]
  /\ into = [r \in Requests |-> NoCapture]
  /\ unfit = {}
  /\ faults = 0

Fault == faults < MaxFaults /\ faults' = faults + 1

---------------------------------------------------------------------------
(* What the event loop does to a buffer.                                   *)

OpenBuffer(n) ==
  /\ open' = open \cup {n}
  /\ onDisk' = onDisk \cup {n}
  /\ UNCHANGED <<pending, file, synced, torn>>

\* close() writes what is still in memory.  On a closed file it does nothing,
\* and there `pending` is empty.
CloseBuffer(n) ==
  /\ open' = open \ {n}
  /\ file' = [file EXCEPT ![n] = @ \o pending[n]]
  /\ pending' = [pending EXCEPT ![n] = <<>>]
  /\ UNCHANGED <<synced, onDisk, torn>>

\* That write fails, halfway through a line or not: close() throws, but the
\* descriptor is closed all the same.
CloseBufferFails(n) ==
  /\ pending[n] # <<>>
  /\ Fault
  /\ open' = open \ {n}
  /\ pending' = [pending EXCEPT ![n] = <<>>]
  /\ torn' \in {torn, torn \cup {n}}
  /\ UNCHANGED <<file, synced, onDisk>>

\* read_buffer, or the empty list when the file is not there.  It throws on half
\* a line, which is not JSON.
Readable(n) == n \in onDisk => n \notin torn
ReadBuffer(n, lines) == IF n \in onDisk THEN lines ELSE <<>>

---------------------------------------------------------------------------
(* _append_sync, on a worker thread.                                       *)

Advance(r, from, to) ==
  /\ pc[r] = from
  /\ pc' = [pc EXCEPT ![r] = to]
  /\ UNCHANGED <<into, unfit>>

WriteLine(r) ==
  /\ into[r] \in open
  /\ Advance(r, "queued", "written")
  /\ pending' = [pending EXCEPT ![into[r]] = Append(@, r)]
  /\ UNCHANGED <<file, synced, open, onDisk, torn, faults>>

\* A line larger than the file object's buffer goes to the operating system at
\* once.  If that fails the file object forgets the line, part of which may be
\* in the file by then.
WriteLineFails(r) ==
  /\ into[r] \in open
  /\ Advance(r, "queued", "raised")
  /\ Fault
  /\ torn' \in {torn, torn \cup {into[r]}}
  /\ UNCHANGED <<pending, file, synced, open, onDisk>>

\* Mutant of FlushLines: _append_sync without the fsync.
FlushLinesUnsynced(r) ==
  /\ into[r] \in open
  /\ Advance(r, "written", "synced")
  /\ file' = [file EXCEPT ![into[r]] = @ \o pending[into[r]]]
  /\ pending' = [pending EXCEPT ![into[r]] = <<>>]
  /\ UNCHANGED <<synced, open, onDisk, torn, faults>>

\* A flush takes along the lines other workers have written.
FlushLines(r) ==
  /\ into[r] \in open
  /\ Advance(r, "written", "flushed")
  /\ file' = [file EXCEPT ![into[r]] = @ \o pending[into[r]]]
  /\ pending' = [pending EXCEPT ![into[r]] = <<>>]
  /\ UNCHANGED <<synced, open, onDisk, torn, faults>>

\* The disk is full or broken; what was written stays in memory.
FlushOrSyncFails(r) ==
  /\ into[r] \in open
  /\ \E from \in {"written", "syncing"} : Advance(r, from, "raised")
  /\ Fault
  /\ UNCHANGED bufferVars

\* fileno() needs the file open; fsync is then under way in the kernel.
BeginSync(r) ==
  /\ into[r] \in open
  /\ Advance(r, "flushed", "syncing")
  /\ UNCHANGED <<bufferVars, faults>>

\* It covers at least the lines up to r's own.
EndSync(r) ==
  /\ Advance(r, "syncing", "synced")
  /\ \E i \in DOMAIN file[into[r]] :
       /\ file[into[r]][i] = r
       /\ synced' = [synced EXCEPT
                       ![into[r]] = @ \cup {file[into[r]][j] : j \in 1..i}]
  /\ UNCHANGED <<pending, file, open, onDisk, torn, faults>>

\* The descriptor was closed before the system call was made: it fails, or it
\* syncs nothing of this file if the number has been reused.
SyncOnClosed(r) ==
  /\ into[r] \notin open
  /\ \/ Advance(r, "syncing", "synced")
     \/ Advance(r, "syncing", "raised")
  /\ UNCHANGED <<bufferVars, faults>>

\* write, flush and fileno throw ValueError on a closed file.
UseClosedFile(r) ==
  /\ into[r] \notin open
  /\ \E from \in {"queued", "written", "flushed"} : Advance(r, from, "raised")
  /\ UNCHANGED <<bufferVars, faults>>

Worker(r) ==
  \/ WriteLine(r)
  \/ WriteLineFails(r)
  \/ FlushLines(r)
  \/ FlushOrSyncFails(r)
  \/ BeginSync(r)
  \/ EndSync(r)
  \/ SyncOnClosed(r)
  \/ UseClosedFile(r)

=============================================================================
