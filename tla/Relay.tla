------------------------------- MODULE Relay -------------------------------
(***************************************************************************)
(* proxy/splice.py, and raw_passthrough in proxy/_http_cycle.py: one relay *)
(* between a client and a server.  Bytes that were read ahead (the         *)
(* ClientHello, what h11 has over-read at a protocol switch) are replayed, *)
(* then one pump per direction copies until either ends; the other pump is *)
(* cancelled and the writers are closed.                                   *)
(*                                                                         *)
(* A stream is a sequence of chunks, numbered by their sender: reads of    *)
(* other sizes only cut the same bytes elsewhere.                          *)
(***************************************************************************)
EXTENDS Naturals, Sequences

CONSTANTS
  MaxChunks,  \* bound on the chunks a side sends
  MaxAhead    \* bound on the chunks read ahead of the relay

ASSUME ChunkAssumption == MaxChunks \in Nat
ASSUME AheadAssumption == MaxAhead \in 0..MaxChunks

Sides == {"client", "server"}
Other(s) == CHOOSE o \in Sides : o # s

VARIABLES
  mode,       \* "splice", or "passthrough" of an upgraded connection
  ahead,      \* [Sides -> 0..MaxAhead]: chunks of each side read ahead
  sent,       \* [Sides -> 0..MaxChunks]: chunks each side has sent
  ended,      \* the sides that have closed their sending direction
  reset,      \* the sides whose connection is broken
  taken,      \* [Sides -> 0..MaxChunks]: chunks of each side that have been read
  delivered,  \* [Sides -> Seq(Nat)]: chunks of each side given to the other's writer
  pump,       \* [Sides -> PumpSteps]: the pump that reads from each side
  stage,
  closed      \* the sides whose writer has been closed

vars == <<mode, ahead, sent, ended, reset, taken, delivered, pump, stage, closed>>
peerVars == <<sent, ended, reset>>

PumpSteps == {"reading", "draining", "done", "cancelled"}
Stages == {"replayingServer", "replayingClient", "pumping", "cancelling", "over", "failed"}

TypeOK ==
  /\ mode \in {"splice", "passthrough"}
  /\ ahead \in [Sides -> 0..MaxAhead]
  /\ sent \in [Sides -> 0..MaxChunks]
  /\ ended \subseteq Sides
  /\ reset \subseteq Sides
  /\ taken \in [Sides -> 0..MaxChunks]
  /\ delivered \in [Sides -> Seq(1..MaxChunks)]
  /\ pump \in [Sides -> PumpSteps]
  /\ stage \in Stages
  /\ closed \subseteq Sides

Init ==
  /\ mode \in {"splice", "passthrough"}
  /\ ahead \in [Sides -> 0..MaxAhead]
  /\ mode = "splice" => ahead["server"] = 0
  /\ sent = ahead
  /\ taken = ahead
  /\ ended = {}
  /\ reset = {}
  /\ delivered = [s \in Sides |-> <<>>]
  /\ pump = [s \in Sides |-> "reading"]
  /\ stage = IF mode = "passthrough" THEN "replayingServer" ELSE "replayingClient"
  /\ closed = {}

---------------------------------------------------------------------------
(* The client and the server                                               *)

Send(s) ==
  /\ sent[s] < MaxChunks
  /\ s \notin ended \cup reset
  /\ sent' = [sent EXCEPT ![s] = @ + 1]
  /\ UNCHANGED <<mode, ahead, ended, reset, taken, delivered, pump, stage, closed>>

End(s) ==
  /\ s \notin ended
  /\ ended' = ended \cup {s}
  /\ UNCHANGED <<mode, ahead, sent, reset, taken, delivered, pump, stage, closed>>

Break(s) ==
  /\ s \notin reset
  /\ reset' = reset \cup {s}
  /\ UNCHANGED <<mode, ahead, sent, ended, taken, delivered, pump, stage, closed>>

\* A drain of the writer to s may throw: its connection is broken, or its transport
\* has closed itself.  asyncio's TLS transport, which carries the upstream leg of an
\* upgraded connection, does that at some time after the server's end of stream,
\* and forgets what is written from then on; the reader keeps what it has.
Throws(s) == s \in reset \/ (s = "server" /\ mode = "passthrough" /\ "server" \in ended)

---------------------------------------------------------------------------
(* Replay, each with its drain                                             *)

\* Mutant of Ahead: counts from zero.
AheadFromZero(s) == [i \in 1..ahead[s] |-> i - 1]

Ahead(s) == [i \in 1..ahead[s] |-> i]

\* raw_passthrough only: what the server sent behind its 101.
ReplayServer ==
  /\ stage = "replayingServer"
  /\ ahead["server"] > 0 => "client" \notin reset
  /\ delivered' = [delivered EXCEPT !["server"] = Ahead("server")]
  /\ stage' = "replayingClient"
  /\ UNCHANGED <<mode, ahead, peerVars, taken, pump, closed>>

\* Mutant of ReplayClient: what was read ahead is dropped.
ReplayNothing ==
  /\ stage = "replayingClient"
  /\ stage' = "pumping"
  /\ UNCHANGED <<mode, ahead, peerVars, taken, delivered, pump, closed>>

\* The ClientHello, or what the client sent behind its upgrade request.
ReplayClient ==
  /\ stage = "replayingClient"
  /\ ahead["client"] > 0 => "server" \notin reset
  /\ delivered' = [delivered EXCEPT !["client"] = Ahead("client")]
  /\ stage' = "pumping"
  /\ UNCHANGED <<mode, ahead, peerVars, taken, pump, closed>>

\* A write that meets a broken or closed connection throws, outside every finally.
ReplayFails ==
  /\ \/ stage = "replayingServer" /\ ahead["server"] > 0 /\ "client" \in reset
     \/ stage = "replayingClient" /\ ahead["client"] > 0 /\ Throws("server")
  /\ stage' = "failed"
  /\ UNCHANGED <<mode, ahead, peerVars, taken, delivered, pump, closed>>

---------------------------------------------------------------------------
(* The pumps, which run until the relay's own task has cancelled them      *)

Pumps(s, from) == stage = "pumping" /\ pump[s] = from

\* read returns a chunk and write takes it, with no await in between.
Copy(s) ==
  /\ Pumps(s, "reading")
  /\ s \notin reset
  /\ taken[s] < sent[s]
  /\ taken' = [taken EXCEPT ![s] = @ + 1]
  /\ delivered' = [delivered EXCEPT ![s] = Append(@, taken[s] + 1)]
  /\ pump' = [pump EXCEPT ![s] = "draining"]
  /\ UNCHANGED <<mode, ahead, peerVars, stage, closed>>

\* drain returns once the other side has taken enough, and ends the pump if it throws.
Drain(s) ==
  /\ Pumps(s, "draining")
  /\ \/ Other(s) \notin reset /\ pump' = [pump EXCEPT ![s] = "reading"]
     \/ Throws(Other(s)) /\ pump' = [pump EXCEPT ![s] = "done"]
  /\ UNCHANGED <<mode, ahead, peerVars, taken, delivered, stage, closed>>

\* Mutant of PumpEnds: a closed sending direction is seen before the last chunk.
PumpEndsEarly(s) ==
  /\ Pumps(s, "reading")
  /\ s \in reset \/ s \in ended
  /\ pump' = [pump EXCEPT ![s] = "done"]
  /\ UNCHANGED <<mode, ahead, peerVars, taken, delivered, stage, closed>>

\* read returns b"" after the last chunk, or throws whatever is still waiting.
PumpEnds(s) ==
  /\ Pumps(s, "reading")
  /\ s \in reset \/ (s \in ended /\ taken[s] = sent[s])
  /\ pump' = [pump EXCEPT ![s] = "done"]
  /\ UNCHANGED <<mode, ahead, peerVars, taken, delivered, stage, closed>>

\* Mutant of CancelOther: waits for both pumps (gather).
CancelAfterBoth ==
  /\ stage = "pumping"
  /\ \A s \in Sides : pump[s] = "done"
  /\ stage' = "cancelling"
  /\ UNCHANGED <<mode, ahead, peerVars, taken, delivered, pump, closed>>

\* asyncio.wait(FIRST_COMPLETED) returns; a pump that is not done is cancelled.
CancelOther ==
  /\ stage = "pumping"
  /\ \E s \in Sides : pump[s] = "done"
  /\ pump' = [s \in Sides |-> IF pump[s] = "done" THEN "done" ELSE "cancelled"]
  /\ stage' = "cancelling"
  /\ UNCHANGED <<mode, ahead, peerVars, taken, delivered, closed>>

\* splice closes both writers, raw_passthrough the upstream one.
CloseWriters ==
  /\ stage = "cancelling"
  /\ closed' = IF mode = "splice" THEN Sides ELSE {"server"}
  /\ stage' = "over"
  /\ UNCHANGED <<mode, ahead, peerVars, taken, delivered, pump>>

Relaying ==
  \/ ReplayServer \/ ReplayClient \/ ReplayFails
  \/ \E s \in Sides : Copy(s) \/ PumpEnds(s)
  \/ CancelOther \/ CloseWriters

Peers == \E s \in Sides : Send(s) \/ End(s) \/ Break(s)

Next == Relaying \/ (\E s \in Sides : Drain(s)) \/ Peers

Spec == Init /\ [][Next]_vars

\* The event loop runs what is ready, and what is replayed fits the transports'
\* buffers, so that its drain returns at once.  Whether a pump's drain returns is
\* up to the side that reads, unless its connection is broken.
Fairness ==
  /\ \A s \in Sides : WF_vars(Copy(s)) /\ WF_vars(PumpEnds(s))
  /\ \A s \in Sides : WF_vars(Drain(s) /\ Other(s) \in reset)
  /\ WF_vars(CancelOther \/ CloseWriters)
  /\ WF_vars(ReplayServer \/ ReplayClient \/ ReplayFails)

FairSpec == Spec /\ Fairness

---------------------------------------------------------------------------
(* Properties                                                              *)

\* Each side receives what the other has sent from the first chunk on, in order
\* and nothing twice, the chunks read ahead included: they come before the pumps'.
DeliveredInOrder == \A s \in Sides : \A i \in DOMAIN delivered[s] : delivered[s][i] = i

\* When a relay ends with both connections intact, a side that closed has been
\* heard out: everything it sent before closing has reached the other's writer,
\* and only what the other side was still sending may be lost.  One relay may end
\* otherwise: on an upgraded connection whose server closes first, a client that
\* goes on sending ends it, with the server's last words unread.
HeardOut(s) == s \in ended /\ Len(delivered[s]) = sent[s]
CutShort ==
  /\ mode = "passthrough" /\ "server" \in ended
  /\ pump["client"] = "done" /\ taken["client"] > ahead["client"]
CloserIsHeardOut ==
  stage = "over" /\ reset = {} => CutShort \/ \E s \in Sides : HeardOut(s)

\* A side that closes ends the relay, whatever the other does: the only thing that
\* may hold it is the other side not reading what has been written to it.
ClosingEndsRelay ==
  \A s \in Sides :
    [](s \in ended =>
         <>(stage \in {"over", "failed"}) \/ <>[](pump[s] = "draining"))

=============================================================================
