----------------------------- MODULE RelayProofs -----------------------------
(***************************************************************************)
(* What a relay promises for streams of any length and any amount read     *)
(* ahead: type correctness, order, and that the side that closed has been  *)
(* heard out.                                                              *)
(***************************************************************************)
EXTENDS Relay, SequenceTheorems, TLAPS

\* Between the replay and the pumps nothing falls through: while a stream is being
\* replayed nothing else has been read of it, and from then on whatever has been
\* read has been written.
NothingInBetween ==
  /\ stage \in {"replayingServer", "replayingClient"} => taken = ahead
  /\ stage = "replayingServer" => \A s \in Sides : Len(delivered[s]) = 0
  /\ stage = "replayingClient" => Len(delivered["client"]) = 0
                                  /\ Len(delivered["server"]) = ahead["server"]
  /\ stage \in {"pumping", "cancelling", "over"} => \A s \in Sides : Len(delivered[s]) = taken[s]

\* The pump of the client ended because the transport to the server closed itself,
\* which it found out by sending something.
Withdrawn(s) ==
  s = "client" /\ mode = "passthrough" /\ "server" \in ended /\ taken[s] > ahead[s]

\* A pump ends by itself only at the end of its stream, unless a connection broke or
\* closed itself, and no relay ends before one of its pumps.
PumpsEndLast ==
  /\ \A s \in Sides : ahead[s] <= taken[s] /\ taken[s] <= sent[s]
  /\ \A s \in Sides : pump[s] = "draining" => taken[s] > ahead[s]
  /\ \A s \in Sides :
       pump[s] = "done" => \/ reset # {}
                           \/ s \in ended /\ taken[s] = sent[s]
                           \/ Withdrawn(s)
  /\ stage \in {"cancelling", "over"} => \E s \in Sides : pump[s] = "done"

Relayed == TypeOK /\ DeliveredInOrder /\ NothingInBetween /\ PumpsEndLast

---------------------------------------------------------------------------
\* What is replayed is a sequence of that many chunks, numbered from one.
LEMMA AheadIsASeq ==
  ASSUME TypeOK, NEW s \in Sides
  PROVE  /\ Ahead(s) \in Seq(1..MaxChunks)
         /\ Len(Ahead(s)) = ahead[s]
         /\ \A i \in DOMAIN Ahead(s) : Ahead(s)[i] = i
<1>1. ahead[s] \in Nat /\ ahead[s] <= MaxChunks
  BY ChunkAssumption, AheadAssumption DEF TypeOK
<1>2. \A i \in 1..ahead[s] : i \in 1..MaxChunks
  BY <1>1, ChunkAssumption
<1>3. Ahead(s) \in Seq(1..MaxChunks)
  <2>1. Ahead(s) \in [1..ahead[s] -> 1..MaxChunks]
    BY <1>2 DEF Ahead
  <2> QED BY <1>1, <2>1, SeqDef
<1>4. DOMAIN Ahead(s) = 1..ahead[s]
  BY DEF Ahead
<1>5. Len(Ahead(s)) = ahead[s]
  BY <1>1, <1>3, <1>4, LenProperties
<1> QED BY <1>3, <1>4, <1>5 DEF Ahead

\* There are two sides.
LEMMA OtherSide == Other("client") = "server" /\ Other("server") = "client"
BY DEF Other, Sides

LEMMA RelayedInit == Init => Relayed
<1> SUFFICES ASSUME Init PROVE Relayed OBVIOUS
<1>1. ahead \in [Sides -> 0..MaxChunks]
  BY ChunkAssumption, AheadAssumption DEF Init
<1>2. TypeOK
  BY <1>1 DEF Init, TypeOK, PumpSteps, Stages
<1>3. DeliveredInOrder /\ NothingInBetween
  BY <1>1 DEF Init, DeliveredInOrder, NothingInBetween, Sides
<1>4. PumpsEndLast
  BY <1>1 DEF Init, PumpsEndLast, Withdrawn
<1> QED BY <1>2, <1>3, <1>4 DEF Relayed

LEMMA PeersPreserve ==
  ASSUME Relayed, NEW s \in Sides, Send(s) \/ End(s) \/ Break(s)
  PROVE  Relayed'
<1> USE ChunkAssumption, AheadAssumption DEF Relayed, TypeOK
<1>1. CASE Send(s)
  <2>1. \A t \in Sides : sent[t] <= sent'[t] /\ (t \in ended => sent'[t] = sent[t])
    BY <1>1 DEF Send
  <2>2. TypeOK' /\ DeliveredInOrder' /\ NothingInBetween'
    BY <1>1 DEF Send, DeliveredInOrder, NothingInBetween
  <2>3. PumpsEndLast'
    BY <1>1, <2>1 DEF Send, PumpsEndLast, Withdrawn
  <2> QED BY <2>2, <2>3
<1>2. CASE End(s)
  BY <1>2 DEF End, DeliveredInOrder, NothingInBetween, PumpsEndLast, Withdrawn
<1>3. CASE Break(s)
  BY <1>3 DEF Break, DeliveredInOrder, NothingInBetween, PumpsEndLast, Withdrawn
<1> QED BY <1>1, <1>2, <1>3

LEMMA ReplayPreserves ==
  ASSUME Relayed, ReplayServer \/ ReplayClient \/ ReplayFails
  PROVE  Relayed'
<1> USE DEF Relayed, peerVars
<1>1. ASSUME NEW s \in Sides, delivered' = [delivered EXCEPT ![s] = Ahead(s)],
             UNCHANGED <<mode, ahead, peerVars, taken, pump, closed>>, stage' \in Stages
      PROVE  TypeOK' /\ DeliveredInOrder'
  BY <1>1, AheadIsASeq DEF TypeOK, DeliveredInOrder
<1>2. CASE ReplayServer
  <2>1. TypeOK' /\ DeliveredInOrder'
    BY <1>1, <1>2 DEF ReplayServer, Stages, Sides
  <2>2. NothingInBetween'
    BY <1>2, AheadIsASeq DEF ReplayServer, NothingInBetween, TypeOK, Sides
  <2>3. PumpsEndLast'
    BY <1>2 DEF ReplayServer, PumpsEndLast, Withdrawn
  <2> QED BY <2>1, <2>2, <2>3
<1>3. CASE ReplayClient
  <2>1. TypeOK' /\ DeliveredInOrder'
    BY <1>1, <1>3 DEF ReplayClient, Stages, Sides
  <2>2. NothingInBetween'
    BY <1>3, AheadIsASeq DEF ReplayClient, NothingInBetween, TypeOK, Sides
  <2>3. PumpsEndLast'
    BY <1>3 DEF ReplayClient, PumpsEndLast, Withdrawn
  <2> QED BY <2>1, <2>2, <2>3
<1>4. CASE ReplayFails
  BY <1>4 DEF ReplayFails, TypeOK, Stages, DeliveredInOrder, NothingInBetween, PumpsEndLast,
              Withdrawn
<1> QED BY <1>2, <1>3, <1>4

\* The pump of a stream appends the chunk after the last one it has delivered.
LEMMA CopyPreserves ==
  ASSUME Relayed, NEW s \in Sides, Copy(s)
  PROVE  Relayed'
<1> USE ChunkAssumption DEF Relayed, Copy, Pumps, peerVars
<1>1. /\ taken[s] \in Nat /\ taken[s] + 1 \in 1..MaxChunks
      /\ delivered[s] \in Seq(1..MaxChunks) /\ Len(delivered[s]) = taken[s]
  BY DEF TypeOK, NothingInBetween, PumpsEndLast, Withdrawn
<1>2. TypeOK'
  BY <1>1 DEF TypeOK, PumpSteps
<1>3. /\ Len(delivered'[s]) = taken'[s]
      /\ \A i \in DOMAIN delivered'[s] : delivered'[s][i] = i
  BY <1>1 DEF TypeOK, DeliveredInOrder
<1>4. \A t \in Sides \ {s} : delivered'[t] = delivered[t] /\ taken'[t] = taken[t]
  BY DEF TypeOK
<1>5. DeliveredInOrder'
  BY <1>3, <1>4 DEF DeliveredInOrder
<1>6. NothingInBetween'
  BY <1>3, <1>4 DEF NothingInBetween
<1>7. PumpsEndLast'
  BY <1>1 DEF PumpsEndLast, Withdrawn, TypeOK
<1> QED BY <1>2, <1>5, <1>6, <1>7

LEMMA PumpPreserves ==
  ASSUME Relayed, NEW s \in Sides, Drain(s) \/ PumpEnds(s)
  PROVE  Relayed'
<1> USE DEF Relayed, Pumps, peerVars, TypeOK, PumpSteps
<1>1. CASE Drain(s)
  <2>1. pump'[s] = "done" => reset # {} \/ Withdrawn(s)
    <3>1. taken[s] > ahead[s] /\ pump \in [Sides -> PumpSteps]
      BY <1>1 DEF Drain, PumpsEndLast
    <3>2. pump'[s] = "done" => Throws(Other(s))
      BY <1>1, <3>1 DEF Drain
    <3>3. Throws(Other(s)) => reset # {} \/ Withdrawn(s)
      BY <3>1, OtherSide DEF Throws, Withdrawn, Sides
    <3> QED BY <3>2, <3>3
  <2>2. TypeOK' /\ DeliveredInOrder' /\ NothingInBetween'
    BY <1>1 DEF Drain, DeliveredInOrder, NothingInBetween
  <2>3. PumpsEndLast'
    BY <1>1, <2>1 DEF Drain, PumpsEndLast, Withdrawn
  <2> QED BY <2>2, <2>3
<1>2. CASE PumpEnds(s)
  BY <1>2 DEF PumpEnds, DeliveredInOrder, NothingInBetween, PumpsEndLast, Withdrawn
<1> QED BY <1>1, <1>2

LEMMA ClosingPreserves ==
  ASSUME Relayed, CancelOther \/ CloseWriters
  PROVE  Relayed'
<1> USE DEF Relayed, peerVars, TypeOK, PumpSteps, Stages
<1>1. CASE CancelOther
  BY <1>1 DEF CancelOther, DeliveredInOrder, NothingInBetween, PumpsEndLast, Withdrawn
<1>2. CASE CloseWriters
  BY <1>2 DEF CloseWriters, DeliveredInOrder, NothingInBetween, PumpsEndLast, Withdrawn, Sides
<1> QED BY <1>1, <1>2

LEMMA RelayedStep == Relayed /\ [Next]_vars => Relayed'
<1> SUFFICES ASSUME Relayed, [Next]_vars PROVE Relayed' OBVIOUS
<1>1. CASE UNCHANGED vars
  BY <1>1 DEF vars, Relayed, TypeOK, DeliveredInOrder, NothingInBetween, PumpsEndLast, Withdrawn
<1>2. CASE Relaying
  BY <1>2, ReplayPreserves, CopyPreserves, PumpPreserves, ClosingPreserves DEF Relaying
<1>3. CASE \E s \in Sides : Drain(s)
  BY <1>3, PumpPreserves
<1>4. CASE Peers
  BY <1>4, PeersPreserve DEF Peers
<1> QED BY <1>1, <1>2, <1>3, <1>4 DEF Next

LEMMA AlwaysRelayed == Spec => []Relayed
BY RelayedInit, RelayedStep, PTL DEF Spec

\* Type correctness, for streams of any length.
THEOREM RelayTypeCorrect == Spec => []TypeOK
<1>1. Relayed => TypeOK
  BY DEF Relayed
<1> QED BY <1>1, AlwaysRelayed, PTL

\* Each side receives what the other has sent from the first chunk on, in order and
\* nothing twice, whatever was read ahead.
THEOREM RelaysInOrder == Spec => []DeliveredInOrder
<1>1. Relayed => DeliveredInOrder
  BY DEF Relayed
<1> QED BY <1>1, AlwaysRelayed, PTL

\* A relay ends with a side that closed heard out to its last chunk, unless a
\* connection broke, or the server of an upgraded connection closed while the client
\* was still sending.
THEOREM CloserHeardOut == Spec => []CloserIsHeardOut
<1>1. Relayed => CloserIsHeardOut
  BY DEF Relayed, NothingInBetween, PumpsEndLast, Withdrawn, CloserIsHeardOut, HeardOut, CutShort
<1> QED BY <1>1, AlwaysRelayed, PTL
=============================================================================
