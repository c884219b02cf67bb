# secondeye in TLA+

secondeye is an intercepting HTTP proxy that records traffic into *captures*. A foreground
daemon (`secondeye proxy start`) listens for clients, decides per connection whether a domain
is in scope, relays what is not, and decrypts, forwards and, while a capture is active, records
what is. A second process, the command line, tells it over a Unix socket to start and stop
captures. Stopping a capture turns its append-only buffer into `raw.har`, `manifest.json` and
`ANALYSIS.md`.

The daemon is one asyncio event loop with a thread pool. A coroutine runs undisturbed from one
`await` to the next, so an action of these modules is what the code does between two awaits, or
one file-system or socket call of a worker thread or of another process. What has no state, the
analysis and the two parsers, is modelled as operators over bounded inputs.

## Inventory

| Component (`src/src/secondeye`) | State | Operations | Interacts through | Modules |
| --- | --- | --- | --- | --- |
| capture buffer, `capture/buffer.py` | file object, file, its fsynced part | open, append (write, flush, fsync on a thread), close, read back | called by the manager; the loop closes the file under the threads' feet | `CaptureBuffer` |
| capture manager, `recording/manager.py` | `_active`, `_buffer`, counter, history, output files | start, record, stop, list | called by request handlers, control handlers and shutdown | `CaptureManager`, `CaptureStore` |
| control socket, `recording/control.py` | server, socket path | start (probe, unlink, bind, listen), stop, one command per client | other processes on the same path; commands call the manager and the daemon | `Daemon`, `InstanceGuard` |
| daemon, `daemon.py` | shutdown event | start, signals, shutdown | starts and stops everything | `Daemon`, `InstanceGuard`, `Startup` |
| listener, `proxy/listener.py` | `_active_connections` | accept or reject, read request and ClientHello, choose a handler | calls one of the three handlers | `Proxy`, `ClientHello` |
| intercept and plain HTTP handlers, `proxy/intercept.py`, `plain_http.py`, `_http_cycle.py` | one request cycle per connection | read, connect, forward, record, answer, upgrade, close | awaits `record_entry` before answering | `Proxy`, `CaptureManager` |
| blind relay and passthrough, `proxy/splice.py`, `_http_cycle.py` | two pumps | replay, copy, cancel, close | the two peers | `Relay` |
| upstream connector, `proxy/upstream.py` | configuration | connect directly, or ask the upstream proxy for a tunnel and encrypt in it | called by handlers and relay | `Proxy` |
| certificates, `tls/` | CA files, leaf cache | load or generate, get context | files shared by processes, cache shared by threads | `Startup` |
| scope and SNI, `scope/`, `proxy/sni.py` | none | match, parse | listener, plain HTTP handler | `Scope`, `ClientHello` |
| analysis, `analysis/` | none | classify, cluster, build flows, compute signals, render | called by `stop_capture` | `Flows`, `Signals`, `Report` |
| HAR model, `capture/har.py` | none | build, to and from JSON | buffer, outputs | `Har` |
| command line, `cli.py` | none | parse, send one request, export the CA, print | control socket, CA files | in `Daemon` and `Startup` |

What is hard, and what makes each component correct:

- *Capture buffer and manager.* Appends run on threads while the loop stops the capture; the
  stop awaits a writer thread and touches its state again afterwards; any file-system call may
  fail; the process may be killed at any time and started again on what it left. Correct means:
  a pair whose append returned can always be read back, from the buffer or from all outputs;
  completed captures are whole and stay as they are; a failed stop can be tried again.
- *Daemon.* Control clients, signals and shutdown call `stop_capture` in tasks nothing
  serialises; teardown cancels coroutines and joins threads. Correct means: a requested shutdown
  ends, and what is active is flushed.
- *Start.* Unsynchronised processes, each killed at any step, share the CA's two files and one
  socket path. Correct means: all use one CA, one daemon runs, it is the reachable one, and
  leftovers block nobody.
- *Proxy.* Each connection may time out, break, be answered by an error, or be left by an
  exception at each await, and all share one connection counter. Correct means: no slot is lost,
  each in-scope response is recorded once and before it is answered, both legs are closed.
- *Relay.* Two pumps, of which the first to end cancels the other. Correct means: nothing is
  lost, repeated or reordered up to the close, and the relay ends.
- *Analysis.* Clusters, chains, polling groups and flows are computed apart and joined by index.
  Correct means: every request is told once, in order, with what was found in it.
- *Scope and SNI.* Names are written in many ways, a hello comes in pieces. Correct means: a
  target matches by labels, and the choice to intercept does not depend on how the bytes arrive.

## Modules

`CaptureBuffer` holds the file of each capture as `pending` (in the file object), `file` (with
the operating system), `synced` and `onDisk` (the directory entry), and the worker of each pair:
`queued`, `written`, `flushed`, `syncing`, `synced`, or `raised`. Each is one call of
`_append_sync`, so the loop's `close` can fall between any two. `close` flushes what is pending,
as Python's does; a worker that goes on to use a closed file gets a `ValueError`, except that an
fsync that has already taken its descriptor completes or fails as the descriptor's fate decides.
A write, flush or close may fail, and may leave half a line behind (`torn`). `unfit` has the pairs
whose content the analysis will raise on, which is up to what client and upstream send.

`CaptureManager` EXTENDS it with `_active`, `_buffer`, the counter, the history and the three
output files, each absent, torn (truncated or half written) or whole. `StopBegin` is
`stop_capture` up to its await; `StopCloseFails`, `StopReadFails` and `StopAnalysisFails` are the
ways it raises before that, each with the buffer closed and the capture still active.
`TruncateOutput` and `FillOutput` are the writer thread; `WriteFails`, `UnlinkFails` and
`StopFinish` the ways it is resumed. `stop` has one frame per task (`Stoppers`), so that stops may
overlap. `Crash` is the death of the process; the file system survives it.

`CaptureStore` is the abstract specification: captures as logs, one recording at a time, logs
never shrink, only the recording one's grows. `ImplementsStore` is the refinement. A capture is
*recording* while it is `_active`, *sealed* when the outputs have replaced the buffer,
*spoiled* when its directory exists and it is neither.

`Daemon` EXTENDS the manager with the run of one daemon process: proxy connections of one pair
each, control clients (each sends one command), up to two signals, the awaits of
`Daemon.shutdown` as `stage`, and the end of `asyncio.run`, which cancels coroutines and joins
threads. `waits` chooses between the two behaviours of `Server.wait_closed` among the supported
Python versions.

`InstanceGuard` models start and stop of several processes on one state directory, one system
call per action. `contended` records that a start has overlapped another process's start or
stop. `Startup` EXTENDS it with what a process does before: `load_or_create_ca`, whose look at
the two files and whose two reads or two writes (each an open that truncates, then a fill) are
actions of their own, between any of which the process may be killed; and `ca export`, which ends
there. `raced` records that two processes have been in it at once.

`Proxy` models every client connection from the limit check to its close. `at` is the await a
handler is in, `upstream` its outbound leg, `raised` says that an exception which is only logged
has left its request cycle or itself. A leg is *stranded* when the replay into a blind relay fails:
`listener.py:260` catches that error and the handler returns as usual, but nothing closes the leg
(`ReplayFails`). Timeouts and errors are choices; what the client or server sends is a choice, and
so is whether there is an upstream proxy. `Relay` has the inside of the stages `relay` and
`passthrough`, `CaptureManager` that of `record`. A `recorded` request is one handed to
`on_entry_recorded`, whether or not a capture is active.

`Relay` models one relay, `splice` after `blind_relay`'s replay or `raw_passthrough`. Chunks are
numbered by their sender. Resets, half-closes and back-pressure come from the environment.
`Throws` is when a drain may raise: on a broken connection, and to the server of an upgraded
connection once that has closed, since asyncio's TLS transport closes itself on the peer's end of
stream.

`Har`, `Flows`, `Signals` and `Report`, each EXTENDing the one before, are the way of an entry
from the buffer's JSON to `ANALYSIS.md`. `Har` is the entry and its two encodings; `Flows`
classification, clusters, redirect chains, polling groups and flows; `Signals` one operator per
`compute_*` function; `Report` the document as the parts it has and the entries each part refers
to. A URL is its host, path and query; header values and JSON members are values; a body is its
bytes as a token, with what the program can tell of them: UTF-8 or not, length, the JSON object
it is, and which signatures and secret patterns occur in it. In the file times, URLs and headers
are what they are in memory: of `to_har_dict` and `parse_har_entry` only what is done to bodies is
translated. Times are integers, and so the
20 % and the multiples of a median are compared without division. An entry is known by its
position, which is its `raw.har` index plus one.

`Scope` is `scope/matcher.py` over letters: a capital, a dot, a letter that is not ASCII with its
capital and its punycode, one that IDNA refuses, and the glob characters `*` and `?`. Patterns with
brackets are left out, and so are the blanks around a name, which `matcher.py:54` strips.
`ClientHello` is `proxy/sni.py` byte by byte, and `Route`, what the listener makes of its result.
`Write` is its reference definition: a hello put together from what it should say.

`Inputs` puts what keeps no state under one specification: a machine that makes its input (a
capture, a host name, the bytes a client sends) longer by one element per step, so that what holds
of every state holds of every input and of each of its beginnings. Its constants say what inputs
are made of, and their assumptions what the code can produce: entries as the handlers build them
(`IsEntry`), bodies about which everything follows from their bytes, hellos whose lengths fit their
fields (`IsHello`), bytes.

`MCCaptureManager`, `MCStartup` and `MCInputs` are for TLC: symmetry sets, and in `MCInputs` the
entries, names and bytes that inputs are made of. Operators whose comment begins with "Mutant of"
are deliberately wrong variants of the definition below them. No specification uses them; each is
the bug that a property listed in `PROJECT.json` is there to catch, and TLC finds the property
violated when the variant takes the definition's place.

The modules named `...Proofs` and `Recursion` hold theorems and their proofs (see below).

## Runs

| Run | What it asks | Bounds |
| --- | --- | --- |
| `capture_safety` | Are acknowledged pairs kept, outputs complete, captures frozen once settled, and is the store implemented? | 2 pairs, 2 names, 1 stopper, 1 fault, 1 crash; 237k states |
| `capture_liveness` | Do stops complete after a failure, do appends settle? | the same without crash; 168k states |
| `daemon` | Overlapping stops, late commands, signals: what holds anyway, does shutdown end? | 1 pair, 2 names, 2 clients, 2 signals, 1 fault; 104k states |
| `instance_guard` | One CA and one reachable daemon, no start blocked by leftovers, while starts do not overlap | 3 processes, 2 ports; 451k states |
| `relay` | In order, closing side heard out, ends on a close | 3 chunks a side, 1 read ahead; 65k states |
| `proxy` | Slots, recording, closing of legs, departed clients | 2 connections, limit 1, 2 requests each; 289k states |
| `inputs` | Is every request told once, is what was recorded read back, are notes true, is scope by labels, is a hello understood, and decided on once? | captures of up to 5 entries, names of up to 3 letters, hellos of up to about 40 bytes; 38k states |
| `capture_traffic` | violated: "in-scope traffic flows normally whether or not a capture is active" | 2 pairs, no fault |
| `daemon_late_start` | violated: "you never lose a capture" | no fault |
| `daemon_interrupt` | violated: the buffer is a recovery path after a crash | no fault |
| `proxy_upgrade` | violated: WebSocket frames on in-scope domains are passed through | 1 connection |
| `reuse_notes` | violated: a reused value is noted on its first later occurrence | up to 5 entries |

Why the bounds are enough. Two pairs put one worker into every step while another pair, or the
stop, is in every other step; two names let a stopped capture and its successor coexist; a third
of either only repeats a pairwise interaction. One fault and one crash each fall at every point,
and liveness after one failure is the question. In `daemon`, two clients and the shutdown give
three tasks in `stop_capture`. Three processes let one that was killed precede two others. Three
chunks give a relay one read ahead, one in flight and one left behind; two requests on a
connection are a first and a later one; two connections at a limit of one meet it.

In `inputs` three alphabets of entries are used, each for one kind of interaction. Eight pages,
redirects and assets in captures of up to four: redirects that loop or are left, an asset within
and beyond the window, an entry that began before the one recorded last; a chain of three and a
fourth entry inside it exist. Six calls of one endpoint in captures of up to five: three make a
polling group, so that a fourth and a fifth may be late, differ, leak, be the same JSON in other
bytes that leak, or be an asset. Five entries with parameters, cookies and slow answers in captures
of up to five, the least number that can have an outlier. A target or host of three letters has two
labels, and with 15 targets all pairs of spellings meet. Each hello is cut at every byte, and each
of its bytes is also replaced by 0, 2 and 255, so that every length in it is once too short and
once too long.

CHECK_DEADLOCK is off where everything may really have ended: pairs are answered, names used up,
processes and connections gone, inputs at their longest.

Fairness. Threads and ready coroutines are scheduled (weak fairness of each worker and loop step).
In `capture_liveness` a stop is asked for as long as a capture is active, as a user who retries
does. In `daemon` the command line sends its command once connected, as `send_request` does;
nothing is assumed of proxy clients and upstreams, because no timeout covers them, which is why
`ShutdownEnds` allows for connections held open. In `proxy` connects that have a timeout
end (the operating system's for a TCP connect, ten seconds for the upstream proxy's answer,
asyncio's for a TLS handshake with it); what waits on the client ends once the client has hung up.
That holds of the reads before a handler is chosen too: the request line has a timeout, but each
chunk of a ClientHello is given its ten seconds anew (`listener.py:210`), so that a client which
sends a byte now and then keeps its slot, and no bound is assumed or claimed;
what waits on the server (the forward, a relay) need not, and `HungUpIsReleased` says so. In
`relay` a pump's drain returns only for a broken connection. The guard is about safety and has no
fairness; inputs have none to speak of.

## What the runs show

With one stop at a time, everything a user may expect of a capture holds, through races of
appends with the stop, failures and crashes. Three limits of it were met. A half-written line makes
every later stop fail, and so does a pair with content that the analysis raises on: a `Location`
or `Referer` that `urljoin` (`cluster.py:152`) or `urlsplit` (`render.py:299`) refuses, or a body
nested too deeply for `json.loads` (`cluster.py:237`). The buffer is kept then, but the capture is
never completed (`StopsComplete` excepts both). And a power failure is outside the model, since the
outputs are not fsynced before the buffer is unlinked.

Stops can overlap: an interrupt during `capture stop`, or two clients. `ReportsHoldAcknowledged`
and `FsyncedBeforeAnswer` hold even then (the latter is checked in `capture_safety` and proved for
the daemon); after an orderly exit nothing acknowledged is missing, though the flush may have ended
it by an exception of the analysis, as long as no file-system call has failed
(`OrderlyExitKeepsAcknowledged`): a client's stop that overlaps the flush, and fails to write after
the flush has unlinked the buffer, does lose pairs. And the
second stop truncates outputs whose buffer the first has unlinked, so that a forced exit in that
gap loses the capture (`daemon_interrupt`).

Appends that meet a closed buffer raise, and the handler drops the client's connection
(`capture_traffic`). A capture started while shutdown flushes the last one is not flushed
(`daemon_late_start`). An upgrade over plain HTTP is accepted and cut (`proxy_upgrade`).

As long as starts do not overlap, killed processes leave nothing that harms a later one, with one
exception: a key file that was open and not yet filled makes every later start fail until it is
removed (`InterruptedWriteIsRepaired` says that it is the only one). Nothing in the code keeps
starts apart. Two that overlap may both run, on different ports, of which one is not reachable
(`control.py:77`), and two first runs may each generate a CA; the properties exclude it by
`contended` and `raced`.

In `proxy` the slot counter is exact, whatever handlers raise, and recording is exact. The
outbound leg is closed on every path but two kinds (`NoLegLeftOpen`). Where an exception passes that
nothing but the log expects (recording fails, the client breaks while it is answered, h11 refuses
to forward an HTTP/1.0 request, a host is not ASCII, `--upstream-ca` cannot be read) the code leaves
the leg to the garbage collector, and so does the model. Where the replay of a ClientHello fails,
`blind_relay` has not reached the `finally` that closes the leg, and the listener takes the error for
one of the connect. That h11 refuses is knowledge of that library, not of this repository.

A relay delivers in order, and the side that closes is heard out, with one exception: when the server
of an upgraded connection closes first and the client goes on sending, the client pump's drain may
raise on the transport that has closed itself (`_http_cycle.py:225`), and the other pump is
cancelled with the server's last words unread (`CutShort`).

The analysis tells every request that is not a static asset exactly once. A warning is lost only
with a later redirect of a chain, or with a repetition that is equal to the group's first answer as
JSON but not as bytes: `_bodies_match` (`cluster.py:237`) compares what `json.loads` returns, while
secrets and error pages are looked for in the text, so an answer in which a letter is no longer
escaped is collapsed with its warning (`NoWarningIsCollapsed` excepts these two). A note on a
reused value names a value its entry repeats and the entry that sent it first; how many further
repetitions it counts may be wrong (`reuse_notes`). Where the analysis falls short of its
documentation, a property states what does hold, or the run `reuse_notes` shows it:

- Two values first reused in one request share one note: the first one's is lost, and its later
  repeats are counted for the other (`reuse_notes`).
- Assets of the page at the end of a redirect chain are told nowhere, since `_render_flow` looks
  the cluster up by the chain's first entry, and neither are those of a page whose cluster was cut
  by another page (`manifest.py:151-153` has them summarised with their navigation).
  `DocumentAccountsForAll` lets assets, and only them, be missing.
- Notes on the later hops of a chain, and reuse notes on collapsed repetitions, are not shown;
  `NoWarningIsCollapsed` is about secrets and error pages, and excepts those hops.
- The polling signature has no query, host or request body, though the document speaks of an
  identical request.
- The cookie audit looks for `secure` anywhere in the header, so that a name beginning with
  `__Secure-` hides its absence.
- `render.py:70` clusters with the default window whatever `--cluster-window` says.
- A hello that is split over two TLS records is malformed, and its connection dropped.
- A label that mixes a glob character with a letter that is not ASCII matches no host, since it
  is not brought to punycode.

## Proofs

Every safety property of the runs about state (`capture_safety`, `daemon`, `instance_guard`,
`relay`, `proxy`) is proved for all values of the constants, each by an inductive invariant: it
holds at first, each action preserves it, and it implies the property. Of the run `inputs`, every
property is proved too, for inputs of any length: what the buffer, the parser of hellos, the scope
matcher, the clustering, the chains, the document and the notes on reused values compute.

`CaptureManagerProofs` (any number of stoppers, pairs, names, faults, crashes):
`TypeCorrect`; and by the invariant `Shared`, `AcknowledgedIsFsynced` and `ReportsAreComplete`.
`FsyncedBeforeAnswer` is not inductive by itself: it needs where each line is at each step of its
worker (pending, in the file, synced). `ReportsHoldAcknowledged` needs that a frame of
`stop_capture` is taken from a file that is closed for good, that closed files do not grow, and
that whatever is acknowledged is already in the file when the file is closed.

Its second part is about the behaviours in which no two tasks are inside `stop_capture` at once:
these theorems have the form `Spec /\ []NoOverlap => ...`. The code does not ensure `NoOverlap`,
and `Daemon` shows what happens without it, so the theorems state it; it is a condition on a
behaviour and not on the constants, and any number of tasks may stop captures one after the other.
The invariant `Solo` adds that only the active capture's buffer is open, that the one frame is of
the active capture and has already filled the outputs it has passed, and that a buffer that is gone
has been replaced by whole outputs of the same lines. From it: `AcknowledgedSurvives`,
`CompletedIsWhole`, `ActiveIsNotForgotten`. From `Solo` and the fact that files only grow and
outputs change only for the active capture: `RefinesStore`, every step of the manager is a step of
`CaptureStore` or a stutter under the refinement mapping, and `SettledStaysFrozen`.

`DaemonProofs` needs no such condition for the properties of the run `daemon`: each step of the
daemon is one of the manager or the death of the process, so `Shared` carries over, and with it
`FsyncedInDaemon` and `ReportsCompleteInDaemon`. The invariant `Orderly` adds what makes
overlapping stops harmless in an orderly exit (`Saved`): an output that a second stop has truncated
will be written again by it, and so, while no call fails, each output of a capture whose buffer is
gone is whole or about to be. At the exit no stop is left (`EndOfRun`), since threads have been
joined; and the capture that shutdown found has lost its buffer by the end of the flush
(`FlushIsOfFound`). From it: `ActiveIsFlushed` and `OrderlyExitLosesNothing`.

With the condition, it gets the rest: `OnlyOverlapLoses` proves `DaemonSpec /\ []NoOverlap =>
[]AcknowledgedIsKept`, the very property that the run `daemon_interrupt`, under the name
`InterruptKeepsAcknowledged`, finds violated. So overlapping stops are the only cause of that loss;
a second interrupt, failing calls and late commands alone never lead to it. `DaemonRefinesStore`
lifts the refinement: clients, signals and shutdown drive the manager as the store its users are
promised.

`StartupProofs`: for the control socket, `RunningIsReachable` and `StartsSucceed` from `Guarded`,
which says who holds the sockets and ports, and unless `contended`, that one process at a time
starts or stops and what is at the path for each step of it; for the CA, `AuthorityIsOne` and
`OnlyTornKeyRefuses` from `Sound`, by which, unless `raced`, one process at a time is at the CA's
files, the key is never ahead of the certificate, and each step knows what the files contain; and
`StartupRefinesGuard`, by which what was proved of the guard holds of `Startup`.

`RelayProofs`: order and the closer's hearing from `Relayed`: between replay and pumps nothing falls
through, and a pump ends by itself only at the end of its stream, on a broken connection, or on a
write to a server that has closed an upgraded one, which is `CutShort`.

`ProxyProofs`: `SlotsAreExact`, `AnswersAreRecorded` and `LegsAreClosed` from `Kept`, for any
number of connections, limit and requests. The recorded numbers are the in-scope answers and at
most the request in hand, which is there from its recording on; an open leg without an exception
belongs to a stage that goes on to close it; the counter is the cardinality of the set of handlers.

`InputsProofs` proves what operators compute, of inputs of any length:

- `EntryReadsBack`, `CapturesReadBack`: an entry that the handlers can build is read back from the
  buffer's JSON as it was, whatever its bodies.
- `StreamsAreDecidedOnce`, `HellosAreDecidedOnce`: of any sequence of bytes, sent in any chunks, the
  listener waits exactly until the first record is whole, and what comes later changes nothing.
  The parser is total: each of its loops ends in a finding or in an error.
- `WhatIsWrittenIsUnderstood`, `HellosAreUnderstood`: of a hello of any lengths, with any extensions
  in any order, the parser finds the first host name in the first extension for server names, or
  finds that there is none. The argument follows the bytes: `Holds(s, pos, b)` says that what was
  written is at its place, each vector and each item is read back from where it was written
  (`VectorReadBack`, `ItemReadBack`), and a loop goes through the items one by one
  (`LoopReadsBack`).
- `ScopeByLabels`, `TargetsAllMatchByLabels`: of any target and any host, over any alphabet, a target
  means itself and its subdomains, at label boundaries, and how the two are written is no matter.
  Two halves make it up. `HostNormal` says that normalization gives the same name whatever the
  capitals and final dots of the one it is given, and that a second time changes nothing. That is
  less obvious than it looks: it needs that splitting a name undoes joining it (`LabelsOfJoin`),
  that a label is settled once encoded (`CodedIs`: punycode has no letter that would be lowered,
  refused or encoded again), and that a name which did not end with a dot does not end with one
  after normalization (`LabelsEnd`, `JoinEnds`), or the second time would strip it. `StarTarget`
  says that a target without patterns matches the host itself and what "*." before the target
  matches. On one side is `endswith`, on the other the pattern's automaton; `StarGlob` shows by
  induction over the letters that a star and letters match exactly what ends with these letters,
  and `StarHost` that "*." is left alone by normalization and leaves alone what follows. The
  exception for targets of no letters is needed there: of "." after "*" nothing but the star is
  left, since the dot is a final dot then.

`AnalysisProofs` proves what the analysis makes of every list of entries with times (`Timed`), and by
`InputsInductive` of every capture:

- `ByTimeSorts`: sorting by time is a stable permutation. `ClustersCut`, `ClustersAreCut`: the
  clusters are the capture in order of time, cut exactly where an activity ends. The invariant of
  the loop is that this is so of the entries gone through so far (`JoinOrBeginKeeps`).
- `ChainsRun`, `ChainsFollow`, `ChainsAreFollowed`: each redirect chain is a run of successive
  navigations, as long at both ends as redirects reach, and every redirect is inside exactly one.
  The loop skips what is in a chain already; that two chains never overlap is what makes this right
  (`RunsMeet`: two maximal runs that share a page are one).
- `DocumentTells`, `DocumentsAccountForAll`: the document tells every request that is no asset once.
  The argument goes through the stages of the pipeline. Groups are runs of matching bodies, in
  order of time and without a common call (`GroupsApart`, from `RunsAreRuns` and `PartsOnce`: parts
  of a list without repetitions have nothing in common). Chains have nothing in common either
  (`ChainsApart`), and no call is a navigation. So each flow that is told is an entry alone, a
  chain or a group (`KindOfFlow`), no two tell of the same entry (`TellsApart`) and together they
  tell of all that are no assets (`TellsAll`). The counts add up by `Tally`: hops, named and counted
  repetitions are as many as the set of what is told. Assets belong to the cluster that the
  section's first entry begins, and clusters have nothing in common (`ClustersApart`).
- `RepetitionsAreCounted`: the flow that a repetition is collapsed into has its number by then, so
  `flow_id_by_index[group.first_index]` cannot fail; it is told, and counts the repetition.
- `WarningsSurvive`, `NoWarningsAreCollapsed`: collapsing loses no warning but those of later
  redirects and of rewritten bodies (`Rewritten`). A repetition matches its group's first answer
  (`IsRunOfOne`), so it is rewritten or has the same bytes, and with them, by `BodiesAssumption`,
  the same marks.
- `ReuseIsNoted`, `ReuseNotesAreAllTrue`: where a value is sent a second time there is a note, and
  what a note says is true. The invariant of the two nested loops is `Tracks`: the three
  dictionaries agree with the set of <<entry, pair>> sent so far. `first_seen` has exactly the
  pairs that were sent, each with its least entry; `note_entry_by_key` has exactly those that two
  entries sent, each with its second least; and every note that is left is about a pair whose place
  is there. The last part is why the property holds although one entry has one note only: a pair
  whose note was replaced keeps its place, so its later repetitions raise the count of a note that
  is about another pair (`EveryReuseHasItsNote`, which `reuse_notes` refutes), but no note ever
  names an entry that was not first. It needs that the entries of the surface rise (`SurfaceRises`)
  and that each sends its values once (`ValuesOnce`), which is what `set(...)` in the loop is for:
  a pair that is twice in one request would otherwise be its own reuse.

Loops whose results are proved about are recursive functions (`Keep`, `Total`, `RunsOf`, ...) where
`SelectSeq` and the folds would do for TLC: the provers can use a function's equations, once it
is shown to exist, but not an operator that takes an operator.

The library's induction theorems cannot be instantiated here, since they take an operator as a
parameter. `Recursion` does without them. `LeastExists` (a set of numbers that is not empty has a
least element) gives induction over sets: a property that fails somewhere fails at a least number.
From it follow `UpTo` and `DownFrom`, induction upwards and downwards over an interval; `LoopExists`
and `SearchExists`, that the recursive function by which a loop is modelled exists, so that its
equations may be used; what `FlattenSeq` computes (`FlattenAppend`, `FlattenPositions`,
`FlattenGrow`); and `SeqGrows`, induction over sequences by one element more, from which
`InputsProofs` has induction over lists of labels (`ListsGrow`).

The assumptions on constants are `NoCaptureAssumption` (no name is the absence of a capture),
`FaultAssumption`, `CrashAssumption`, `SignalAssumption` and `ChunkAssumption` (bounds are
numbers), `StoppersAssumption` (clients and the shutdown call stop), `NobodyAssumption` and
`ContentAssumption` (markers are no processes), `AheadAssumption` (what is read ahead is a part of
what is sent), `ProxyAssumption` (finitely many connections, positive limits), `WindowAssumption`
(the window is a number of milliseconds), and those of `Inputs`: `KindsAssumption`,
`BodiesAssumption`, `HellosAssumption`, `StreamsAssumption` and `HostsAssumption` (inputs are what
the code can get).

Only model-checked: liveness (`StopsComplete`, `AppendsSettle`, `ShutdownEnds`, `ClosingEndsRelay`,
`HungUpIsReleased`), which is out of the prover's reach with fairness and
ENABLED. What is proved of the scope takes the effects of idna and fnmatch as `Encoded` and `Glob`
give them: one letter that is not ASCII, and no brackets in patterns.

## Plan

Done, in order of importance: capture buffer and manager with the store they implement; the daemon
around them; the start of processes with the CA; the relays; the connections with the upstream
connector; the analysis, the HAR model, the scope and the hello; the proofs of every safety
property of the stateful modules, and of what the buffer's JSON, the parser of hellos, the scope
matcher, the clustering, the chains, the flows, the document and the notes on reused values
compute.

Left:

1. The leaf cache of `tls/leaf.py` under concurrent lookups. Two that miss it build a context
   each, of the same CA, and either serves, so there is little to state.
2. Composing `Proxy` with `CaptureManager`, where `record` is one step and its failure a choice.
3. Wording, if a promise about it is ever made: escaping in the document's tables and diagram.

## Not modelled

Text and layout of the document, the kinds (scripts, styles, fonts, images) by which it counts a
page's assets, of `manifest.json`'s summaries and of the console; argument
parsing; JSON framing of the control protocol; cryptography and which certificates are trusted;
fields of a HAR entry that are only copied. What a regular expression finds in a body is given
with the body. h11, asyncio, ssl, idna and fnmatch appear by their effects on the code that calls
them. Power failures and file systems that lose written data are outside the models.
