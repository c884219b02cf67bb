----------------------------- MODULE ProxyProofs -----------------------------
(***************************************************************************)
(* The connections of the proxy, for any number of them, any limit and any *)
(* number of requests on each: type correctness, the slot counter, what is *)
(* recorded against what is answered, and the outbound leg.                *)
(***************************************************************************)
EXTENDS Proxy, SequenceTheorems, FiniteSetTheorems, TLAPS

\* A request is in hand, or there has been none; it may have been recorded; the
\* outbound leg is in use.
Unanswered ==
  (Cycle \ {"http"}) \cup Early \cup {"new", "relayConnect", "proxyAnswer", "startTls"}
Recorded == {"respond", "closing", "leaving", "lingering", "closed"}
UsesLeg == {"proxyAnswer", "startTls", "forward", "record", "respond", "relay", "passthrough"}

Numbers(rec) == {rec[i] : i \in DOMAIN rec}
ServedIn(ans) == {k \in DOMAIN ans : ans[k].inScope = TRUE /\ ans[k].how # "gateway"}

\* What one connection has recorded, given its stage and its answers: the in-scope
\* answers, and besides them at most the request in hand, which is there from its
\* recording on.
InStep(stage, scope, rec, ans) ==
  /\ stage \in Unanswered => Len(ans) < MaxRequests
  /\ stage = "record" => scope
  /\ \A i, j \in DOMAIN rec : i < j => rec[i] < rec[j]
  /\ ServedIn(ans) \subseteq Numbers(rec)
  /\ Numbers(rec) \subseteq ServedIn(ans) \cup {Len(ans) + 1}
  /\ Len(ans) + 1 \in Numbers(rec) => scope /\ stage \in Recorded
  /\ stage = "respond" /\ scope => Len(ans) + 1 \in Numbers(rec)

\* An open outbound leg belongs to a stage that goes on to close or to strand it.
LegInUse(stage, leg, exception) == leg = "open" /\ ~exception => stage \in UsesLeg

EachInStep == \A c \in Conns : InStep(at[c], inScope[c], recorded[c], answers[c])
EachLegInUse == \A c \in Conns : LegInUse(at[c], upstream[c], raised[c])

Kept == TypeOK /\ SlotsAreHandlers /\ EachInStep /\ EachLegInUse

---------------------------------------------------------------------------
(* Recording and answering, as facts about sequences                       *)

LEMMA NumbersOfAppend ==
  ASSUME NEW rec \in Seq(Nat), NEW n \in Nat
  PROVE  Numbers(Append(rec, n)) = Numbers(rec) \cup {n}
<1>1. DOMAIN Append(rec, n) = (DOMAIN rec) \cup {Len(rec) + 1}
  OBVIOUS
<1>2. \A i \in DOMAIN rec : Append(rec, n)[i] = rec[i]
  OBVIOUS
<1>3. Append(rec, n)[Len(rec) + 1] = n
  OBVIOUS
<1> QED BY <1>1, <1>2, <1>3 DEF Numbers

LEMMA ServedInAppend ==
  ASSUME NEW ans \in Seq(Answers), NEW a \in Answers
  PROVE  ServedIn(Append(ans, a)) =
           ServedIn(ans) \cup {k \in {Len(ans) + 1} : a.inScope = TRUE /\ a.how # "gateway"}
<1>1. DOMAIN Append(ans, a) = (DOMAIN ans) \cup {Len(ans) + 1}
  OBVIOUS
<1>2. \A i \in DOMAIN ans : Append(ans, a)[i] = ans[i]
  OBVIOUS
<1>3. Append(ans, a)[Len(ans) + 1] = a /\ Len(ans) + 1 \notin DOMAIN ans
  OBVIOUS
<1> QED BY <1>1, <1>2, <1>3 DEF ServedIn

LEMMA ServedInBound ==
  ASSUME NEW ans \in Seq(Answers)
  PROVE  ServedIn(ans) \subseteq 1..Len(ans) /\ Len(ans) \in Nat
BY DEF ServedIn

\* Recording the request in hand keeps the order: all that was recorded was before it.
LEMMA RecordInStep ==
  ASSUME NEW rec \in Seq(Nat), NEW ans \in Seq(Answers), NEW scope \in BOOLEAN,
         InStep("record", scope, rec, ans)
  PROVE  InStep("respond", scope, Append(rec, Len(ans) + 1), ans)
<1> DEFINE n == Len(ans) + 1
           rec2 == Append(rec, n)
<1>1. n \in Nat /\ ServedIn(ans) \subseteq 1..Len(ans)
  BY ServedInBound
<1>2. Numbers(rec2) = Numbers(rec) \cup {n}
  BY <1>1, NumbersOfAppend
<1>3. \A i \in DOMAIN rec : rec[i] \in Nat /\ rec[i] < n
  <2>1. Numbers(rec) \subseteq 1..Len(ans)
    BY <1>1 DEF InStep, Recorded
  <2>2. \A i \in DOMAIN rec : rec[i] \in 1..Len(ans)
    BY <2>1 DEF Numbers
  <2>3. Len(ans) \in Nat
    BY ServedInBound
  <2> QED BY <2>2, <2>3
<1>4. \A i, j \in DOMAIN rec2 : i < j => rec2[i] < rec2[j]
  <2> SUFFICES ASSUME NEW i \in DOMAIN rec2, NEW j \in DOMAIN rec2, i < j
               PROVE  rec2[i] < rec2[j]
    OBVIOUS
  <2>1. i \in DOMAIN rec /\ rec2[i] = rec[i]
    BY <1>1
  <2>2. CASE j \in DOMAIN rec
    BY <2>1, <2>2, <1>1 DEF InStep
  <2>3. CASE j = Len(rec) + 1
    BY <2>1, <2>3, <1>1, <1>3
  <2> QED BY <2>2, <2>3, <1>1
<1>5. Len(ans) < MaxRequests /\ scope
  BY DEF InStep, Unanswered, Early, Cycle
<1> HIDE DEF rec2
<1>6. InStep("respond", scope, rec2, ans)
  BY <1>2, <1>4, <1>5 DEF InStep, Unanswered, Early, Cycle, Recorded
<1> QED BY <1>6 DEF rec2

\* Answering moves the request in hand to those that have been answered.
LEMMA AnswerInStep ==
  ASSUME NEW rec \in Seq(Nat), NEW ans \in Seq(Answers), NEW scope \in BOOLEAN,
         NEW how \in {"response", "switched"}, NEW to \in {"http", "closing", "passthrough"},
         InStep("respond", scope, rec, ans)
  PROVE  InStep(to, FALSE, rec, Append(ans, [how |-> how, inScope |-> scope]))
<1> DEFINE a == [how |-> how, inScope |-> scope]
           ans2 == Append(ans, a)
<1>1. a \in Answers
  BY DEF Answers
<1>2. Len(ans2) = Len(ans) + 1 /\ Len(ans) \in Nat
  BY <1>1
<1>3. ServedIn(ans) \subseteq 1..Len(ans)
  BY ServedInBound
<1>4. ServedIn(ans2) = ServedIn(ans) \cup {k \in {Len(ans) + 1} : scope}
  <2>1. a.inScope = scope /\ a.how # "gateway"
    OBVIOUS
  <2> HIDE DEF a
  <2>2. ServedIn(ans2) = ServedIn(ans)
                         \cup {k \in {Len(ans) + 1} : a.inScope = TRUE /\ a.how # "gateway"}
    BY <1>1, ServedInAppend
  <2> QED BY <2>1, <2>2
<1> HIDE DEF ans2
<1>5. \A i, j \in DOMAIN rec : i < j => rec[i] < rec[j]
  BY DEF InStep
<1>6. /\ ServedIn(ans2) \subseteq Numbers(rec)
      /\ Numbers(rec) \subseteq ServedIn(ans2)
  BY <1>4 DEF InStep
<1>7. Len(ans) + 2 \notin Numbers(rec)
  BY <1>2, <1>3, <1>4, <1>6
<1>8. InStep(to, FALSE, rec, ans2)
  BY <1>2, <1>5, <1>6, <1>7 DEF InStep, Unanswered, Early, Cycle, Recorded
<1> QED BY <1>8 DEF ans2

LEMMA GatewayInStep ==
  ASSUME NEW rec \in Seq(Nat), NEW ans \in Seq(Answers), NEW scope \in BOOLEAN,
         InStep("gateway", scope, rec, ans)
  PROVE  InStep("closing", FALSE, rec, Append(ans, [how |-> "gateway", inScope |-> scope]))
<1> DEFINE a == [how |-> "gateway", inScope |-> scope]
           ans2 == Append(ans, a)
<1>1. a \in Answers
  BY DEF Answers
<1>2. Len(ans2) = Len(ans) + 1 /\ Len(ans) \in Nat
  BY <1>1
<1>3. ServedIn(ans) \subseteq 1..Len(ans)
  BY ServedInBound
<1>4. ServedIn(ans2) = ServedIn(ans)
  <2>1. ServedIn(ans2) = ServedIn(ans)
                         \cup {k \in {Len(ans) + 1} : a.inScope = TRUE /\ a.how # "gateway"}
    BY <1>1, ServedInAppend
  <2>2. a.how = "gateway"
    OBVIOUS
  <2> QED BY <2>1, <2>2
<1> HIDE DEF ans2
<1>5. InStep("closing", FALSE, rec, ans2)
  BY <1>2, <1>3, <1>4 DEF InStep, Unanswered, Early, Cycle, Recorded
<1> QED BY <1>5 DEF ans2

---------------------------------------------------------------------------
(* A step of one connection                                                *)

\* Connection c goes to stage to: the other connections stay as they are, and c is
\* in step there.
Moves(c, to) ==
  /\ at' = [at EXCEPT ![c] = to]
  /\ kind' \in [Conns -> Kinds]
  /\ inScope' \in [Conns -> BOOLEAN]
  /\ switching' \in [Conns -> BOOLEAN]
  /\ upstream' \in [Conns -> Legs]
  /\ recorded' \in [Conns -> Seq(1..MaxRequests)]
  /\ answers' \in [Conns -> Seq(Answers)]
  /\ gone' \in [Conns -> BOOLEAN]
  /\ raised' \in [Conns -> BOOLEAN]
  /\ \A d \in Conns \ {c} :
       /\ inScope'[d] = inScope[d] /\ recorded'[d] = recorded[d] /\ answers'[d] = answers[d]
       /\ upstream'[d] = upstream[d] /\ raised'[d] = raised[d]
  /\ Len(answers'[c]) <= MaxRequests
  /\ InStep(to, inScope'[c], recorded'[c], answers'[c])
  /\ LegInUse(to, upstream'[c], raised'[c])

LEMMA MovePreserves ==
  ASSUME Kept, NEW c \in Conns, NEW to \in Stages, Moves(c, to),
         slots' \in 0..MaxConnections, SlotsAreHandlers'
  PROVE  Kept'
<1> USE DEF Kept, Moves
<1>1. TypeOK'
  BY DEF TypeOK
<1>2. \A d \in Conns \ {c} : at'[d] = at[d]
  BY DEF TypeOK
<1>3. at'[c] = to
  BY DEF TypeOK
<1>4. EachInStep'
  BY <1>2, <1>3 DEF EachInStep
<1>5. EachLegInUse'
  BY <1>2, <1>3 DEF EachLegInUse
<1> QED BY <1>1, <1>4, <1>5

\* A connection that stays in its slot, or out of it, leaves the counter alone.
LEMMA SlotsUnmoved ==
  ASSUME Kept, NEW c \in Conns, NEW to \in Stages, at' = [at EXCEPT ![c] = to],
         at[c] \in Handling <=> to \in Handling, UNCHANGED slots
  PROVE  slots' \in 0..MaxConnections /\ SlotsAreHandlers'
<1>1. {d \in Conns : at'[d] \in Handling} = {d \in Conns : at[d] \in Handling}
  BY DEF Kept, TypeOK
<1> QED BY <1>1 DEF Kept, TypeOK, SlotsAreHandlers

\* A step that neither reads a request nor records nor answers.
Quiet(c, to) ==
  /\ at' = [at EXCEPT ![c] = to]
  /\ at[c] \in Handling <=> to \in Handling
  /\ to \in Unanswered => at[c] \in Unanswered
  /\ at[c] \in Recorded => to \in Recorded
  /\ to = "record" => inScope[c]
  /\ to = "respond" => ~inScope[c]
  /\ UNCHANGED <<slots, inScope, recorded, answers>>
  /\ kind' \in [Conns -> Kinds]
  /\ switching' \in [Conns -> BOOLEAN]
  /\ upstream' \in [Conns -> Legs]
  /\ gone' \in [Conns -> BOOLEAN]
  /\ raised' \in [Conns -> BOOLEAN]
  /\ \A d \in Conns \ {c} : upstream'[d] = upstream[d] /\ raised'[d] = raised[d]
  /\ LegInUse(to, upstream'[c], raised'[c])

LEMMA QuietPreserves ==
  ASSUME Kept, NEW c \in Conns, NEW to \in Stages, Quiet(c, to)
  PROVE  Kept'
<1>1. InStep(to, inScope[c], recorded[c], answers[c])
  BY DEF Kept, EachInStep, Quiet, InStep
<1>2. Moves(c, to)
  BY <1>1 DEF Kept, TypeOK, Quiet, Moves
<1>3. slots' \in 0..MaxConnections /\ SlotsAreHandlers'
  BY SlotsUnmoved DEF Quiet
<1> QED BY <1>2, <1>3, MovePreserves

\* An exception: the leg it may leave open is excused.
LEMMA RaisesPreserves ==
  ASSUME Kept, NEW c \in Conns, NEW from \in Handling, Raises(c, from)
  PROVE  Kept'
<1> DEFINE to == IF kind[c] \in {"plain", "tunnel"} THEN "closing" ELSE "leaving"
<1>1. to \in {"closing", "leaving"}
  OBVIOUS
<1>2. at[c] = from /\ at' = [at EXCEPT ![c] = to]
  BY DEF Raises, Goes
<1> HIDE DEF to
<1>3. Quiet(c, to)
  BY <1>1, <1>2
  DEF Raises, Quiet, Kept, TypeOK, cycleVars, LegInUse, Handling, Early, Cycle, Unanswered, Recorded
<1> QED BY <1>1, <1>3, QuietPreserves DEF Stages, Handling

---------------------------------------------------------------------------
(* The actions                                                             *)

\* Accept takes the slot it has checked for, Release gives its own back.
LEMMA SlotsPreserve ==
  ASSUME Kept, NEW c \in Conns, Accept(c) \/ Release(c)
  PROVE  Kept'
<1> DEFINE held == {d \in Conns : at[d] \in Handling}
           heldNext == {d \in Conns : at'[d] \in Handling}
<1> USE DEF Kept, TypeOK, cycleVars
<1>1. IsFiniteSet(held) /\ Cardinality(held) \in Nat
  BY ProxyAssumption, FS_Subset, FS_CardinalityType
<1>2. slots = Cardinality(held) /\ slots \in 0..MaxConnections /\ MaxConnections \in Nat
  BY ProxyAssumption DEF SlotsAreHandlers
<1>3. SlotsAreHandlers' <=> slots' = Cardinality(heldNext)
  BY DEF SlotsAreHandlers
<1>4. CASE Accept(c)
  <2> USE <1>4 DEF Accept, Goes
  <2>1. heldNext = held \cup {c} /\ c \notin held
    BY DEF Handling, Early, Cycle
  <2>2. Moves(c, "request")
    BY DEF Moves, EachInStep, InStep, Unanswered, Early, Cycle, Recorded, EachLegInUse, LegInUse,
           UsesLeg
  <2> HIDE DEF held, heldNext
  <2>3. Cardinality(heldNext) = Cardinality(held) + 1
    BY <1>1, <2>1, FS_AddElement
  <2>4. SlotsAreHandlers' /\ slots' \in 0..MaxConnections
    BY <1>2, <1>3, <2>3
  <2> QED BY <2>2, <2>4, MovePreserves DEF Stages, Handling, Early
<1>5. CASE Release(c)
  <2> USE <1>5 DEF Release, Returned, Goes
  <2>1. heldNext = held \ {c} /\ c \in held
    BY DEF Handling, Early, Cycle
  <2>2. Moves(c, "lingering")
    BY DEF Moves, Kinds, EachInStep, InStep, Unanswered, Early, Cycle, Recorded, EachLegInUse,
           LegInUse, UsesLeg, Legs
  <2> HIDE DEF held, heldNext
  <2>3. Cardinality(heldNext) = Cardinality(held) - 1
    BY <1>1, <2>1, FS_RemoveElement
  <2>4. Cardinality(heldNext) \in Nat
    BY <1>1, <2>1, FS_RemoveElement, FS_CardinalityType
  <2>5. SlotsAreHandlers' /\ slots' \in 0..MaxConnections
    BY <1>2, <1>3, <2>3, <2>4
  <2> QED BY <2>2, <2>5, MovePreserves DEF Stages
<1> QED BY <1>4, <1>5

LEMMA ListenerPreserves ==
  ASSUME Kept, NEW c \in Conns, Listener(c)
  PROVE  Kept'
<1> USE DEF Kept, TypeOK, cycleVars, Goes, Quiet, Handling, Early, Cycle, Unanswered, Recorded,
            EachLegInUse, LegInUse, UsesLeg, Legs
<1>1. CASE Reject(c)
  <2>1. Quiet(c, "rejecting") BY <1>1 DEF Reject
  <2> QED BY <2>1, QuietPreserves DEF Stages
<1>2. CASE PlainRequest(c)
  <2>1. Quiet(c, "http") BY <1>2 DEF PlainRequest, Chooses, Kinds
  <2> QED BY <2>1, QuietPreserves DEF Stages
<1>3. CASE ConnectRequest(c)
  <2>1. Quiet(c, "hello") BY <1>3 DEF ConnectRequest
  <2> QED BY <2>1, QuietPreserves DEF Stages
<1>4. CASE InScopeHello(c)
  <2>1. Quiet(c, "leaf") BY <1>4 DEF InScopeHello, Chooses, Kinds
  <2> QED BY <2>1, QuietPreserves DEF Stages
<1>5. CASE OutOfScopeHello(c)
  <2>1. Quiet(c, "relayConnect") BY <1>5 DEF OutOfScopeHello, Chooses, Kinds
  <2> QED BY <2>1, QuietPreserves DEF Stages
<1>6. CASE Drop(c)
  <2>1. Quiet(c, "leaving") BY <1>6 DEF Drop
  <2> QED BY <2>1, QuietPreserves DEF Stages
<1>7. CASE ConnectAnswerRaises(c)
  BY <1>7, RaisesPreserves DEF ConnectAnswerRaises
<1>8. CASE CloseQuietly(c)
  <2>1. Quiet(c, "closed") BY <1>8 DEF CloseQuietly
  <2> QED BY <2>1, QuietPreserves DEF Stages
<1> QED BY <1>1, <1>2, <1>3, <1>4, <1>5, <1>6, <1>7, <1>8, SlotsPreserve DEF Listener

LEMMA ConnectorPreserves ==
  ASSUME Kept, NEW c \in Conns, Connector(c)
  PROVE  Kept'
<1>1. CASE NameRaises(c) \/ ContextRaises(c)
  BY <1>1, RaisesPreserves DEF NameRaises, ContextRaises, Handling, Cycle
<1> USE DEF Kept, TypeOK, cycleVars, Goes, Quiet, Handling, Early, Cycle, Unanswered, Recorded,
            EachLegInUse, LegInUse, UsesLeg, Legs
<1>2. CASE Connected(c) \/ TlsStarts(c)
  <2>1. Quiet(c, "forward") BY <1>2 DEF Connected, Connects, TlsStarts
  <2> QED BY <2>1, QuietPreserves DEF Stages
<1>3. CASE RelayConnects(c)
  <2>1. Quiet(c, "relay") BY <1>3 DEF RelayConnects, Connects
  <2> QED BY <2>1, QuietPreserves DEF Stages
<1>4. CASE ConnectFails(c)
  <2>1. Quiet(c, "gateway") BY <1>4 DEF ConnectFails
  <2> QED BY <2>1, QuietPreserves DEF Stages
<1>5. CASE RelayConnectFails(c)
  <2>1. Quiet(c, "leaving") BY <1>5 DEF RelayConnectFails
  <2> QED BY <2>1, QuietPreserves DEF Stages
<1>6. CASE ReachesProxy(c)
  <2>1. Quiet(c, "proxyAnswer") BY <1>6 DEF ReachesProxy, Connects
  <2> QED BY <2>1, QuietPreserves DEF Stages
<1>7. CASE ConnectRaises(c)
  <2>1. Quiet(c, "closing") \/ Quiet(c, "leaving") BY <1>7 DEF ConnectRaises
  <2> QED BY <2>1, QuietPreserves DEF Stages
<1>8. CASE ProxyAccepts(c)
  <2>1. Quiet(c, "relay") \/ Quiet(c, "startTls") BY <1>8 DEF ProxyAccepts
  <2> QED BY <2>1, QuietPreserves DEF Stages
<1>9. CASE ProxyRefuses(c) \/ TlsFails(c)
  <2>1. Quiet(c, "leaving") \/ Quiet(c, "gateway") BY <1>9 DEF ProxyRefuses, TlsFails, GivesUp
  <2> QED BY <2>1, QuietPreserves DEF Stages
<1> QED BY <1>1, <1>2, <1>3, <1>4, <1>5, <1>6, <1>7, <1>8, <1>9 DEF Connector

LEMMA OutOfScopePreserves ==
  ASSUME Kept, NEW c \in Conns, OutOfScope(c)
  PROVE  Kept'
<1> USE DEF Kept, TypeOK, cycleVars, Goes, Quiet, Handling, Early, Cycle, Unanswered, Recorded,
            EachLegInUse, LegInUse, UsesLeg, Legs
<1>1. CASE RelayEnds(c)
  <2>1. Quiet(c, "leaving") BY <1>1 DEF RelayEnds
  <2> QED BY <2>1, QuietPreserves DEF Stages
<1>2. CASE ReplayFails(c)
  <2>1. Quiet(c, "leaving") BY <1>2 DEF ReplayFails
  <2> QED BY <2>1, QuietPreserves DEF Stages
<1> QED BY <1>1, <1>2 DEF OutOfScope

LEMMA TunnelPreserves ==
  ASSUME Kept, NEW c \in Conns, Tunnel(c)
  PROVE  Kept'
<1> USE DEF Kept, TypeOK, cycleVars, Goes, Quiet, Handling, Early, Cycle, Unanswered, Recorded,
            EachLegInUse, LegInUse, UsesLeg, Legs
<1>1. CASE LeafDone(c)
  <2>1. Quiet(c, "handshake") BY <1>1 DEF LeafDone
  <2> QED BY <2>1, QuietPreserves DEF Stages
<1>2. CASE HandshakeDone(c)
  <2>1. Quiet(c, "http") BY <1>2 DEF HandshakeDone
  <2> QED BY <2>1, QuietPreserves DEF Stages
<1>3. CASE LeafFails(c) \/ HandshakeFails(c)
  <2>1. Quiet(c, "closing") BY <1>3 DEF LeafFails, HandshakeFails
  <2> QED BY <2>1, QuietPreserves DEF Stages
<1>4. CASE PassthroughEnds(c)
  <2>1. Quiet(c, "closing") BY <1>4 DEF PassthroughEnds
  <2> QED BY <2>1, QuietPreserves DEF Stages
<1>5. CASE PassthroughRaises(c)
  BY <1>5, RaisesPreserves DEF PassthroughRaises
<1> QED BY <1>1, <1>2, <1>3, <1>4, <1>5 DEF Tunnel

\* A response in hand is answered and the request is over.
LEMMA AnsweredPreserves ==
  ASSUME Kept, NEW c \in Conns, NEW how \in {"response", "switched"},
         NEW to \in {"http", "closing", "passthrough"},
         Goes(c, "respond", to), Answered(c, how),
         upstream' = [upstream EXCEPT ![c] = "closed"]
           \/ (UNCHANGED upstream /\ to = "passthrough")
  PROVE  Kept'
<1> USE DEF Kept, TypeOK, Legs, Answered, Goes
<1> DEFINE a == [how |-> how, inScope |-> inScope[c]]
<1>1. recorded[c] \in Seq(Nat) /\ answers[c] \in Seq(Answers) /\ inScope[c] \in BOOLEAN
  BY ProxyAssumption, SeqMonotonic
<1>2. InStep("respond", inScope[c], recorded[c], answers[c])
  BY DEF EachInStep
<1>3. InStep(to, FALSE, recorded[c], Append(answers[c], a))
  <2> HIDE DEF Kept, TypeOK, Answered, Goes
  <2> QED BY <1>1, <1>2, AnswerInStep
<1>4. a \in Answers
  BY DEF Answers
<1>5. answers'[c] = Append(answers[c], a) /\ answers' \in [Conns -> Seq(Answers)]
  BY <1>1, <1>4
<1>6. Len(answers'[c]) <= MaxRequests
  BY <1>1, <1>2, <1>4, <1>5, ProxyAssumption DEF InStep, Unanswered, Early, Cycle
<1>7. LegInUse(to, upstream'[c], raised'[c])
  BY DEF LegInUse, UsesLeg
<1>8. Moves(c, to)
  BY <1>3, <1>5, <1>6, <1>7 DEF Moves
<1>9. to \in Stages /\ at[c] \in Handling /\ to \in Handling
  BY DEF Stages, Handling, Cycle
<1>10. slots' \in 0..MaxConnections /\ SlotsAreHandlers'
  BY <1>9, SlotsUnmoved
<1> QED BY <1>8, <1>9, <1>10, MovePreserves

LEMMA GatewayPreserves ==
  ASSUME Kept, NEW c \in Conns, Gateway(c)
  PROVE  Kept'
<1> USE DEF Kept, TypeOK, Gateway, Answered, Goes
<1> DEFINE a == [how |-> "gateway", inScope |-> inScope[c]]
<1>1. recorded[c] \in Seq(Nat) /\ answers[c] \in Seq(Answers) /\ inScope[c] \in BOOLEAN
  BY ProxyAssumption, SeqMonotonic
<1>2. InStep("gateway", inScope[c], recorded[c], answers[c])
  BY DEF EachInStep
<1>3. InStep("closing", FALSE, recorded[c], Append(answers[c], a))
  BY <1>1, <1>2, GatewayInStep
<1>4. a \in Answers
  BY DEF Answers
<1>5. answers'[c] = Append(answers[c], a) /\ answers' \in [Conns -> Seq(Answers)]
  BY <1>1, <1>4
<1>6. Len(answers'[c]) <= MaxRequests
  BY <1>1, <1>2, <1>4, <1>5, ProxyAssumption DEF InStep, Unanswered, Early, Cycle
<1>7. LegInUse("closing", upstream'[c], raised'[c])
  BY DEF EachLegInUse, LegInUse, UsesLeg
<1>8. Moves(c, "closing")
  BY <1>3, <1>5, <1>6, <1>7 DEF Moves
<1>9. "closing" \in Stages /\ at[c] \in Handling /\ "closing" \in Handling
  BY DEF Stages, Handling, Cycle
<1>10. slots' \in 0..MaxConnections /\ SlotsAreHandlers'
  BY <1>9, SlotsUnmoved
<1> QED BY <1>8, <1>9, <1>10, MovePreserves

LEMMA RecordPreserves ==
  ASSUME Kept, NEW c \in Conns, Record(c)
  PROVE  Kept'
<1> USE DEF Kept, TypeOK, Record, Goes, Request
<1>1. recorded[c] \in Seq(Nat) /\ answers[c] \in Seq(Answers) /\ inScope[c] \in BOOLEAN
  BY ProxyAssumption, SeqMonotonic
<1>2. InStep("record", inScope[c], recorded[c], answers[c])
  BY DEF EachInStep
<1>3. InStep("respond", inScope[c], Append(recorded[c], Len(answers[c]) + 1), answers[c])
  BY <1>1, <1>2, RecordInStep
<1>4. Len(answers[c]) \in Nat /\ Len(answers[c]) < MaxRequests
  BY <1>1, <1>2 DEF InStep, Unanswered, Early, Cycle
<1>5. Len(answers[c]) + 1 \in 1..MaxRequests
  BY <1>4, ProxyAssumption
<1>6. /\ recorded'[c] = Append(recorded[c], Len(answers[c]) + 1)
      /\ recorded' \in [Conns -> Seq(1..MaxRequests)]
  BY <1>5
<1>7. LegInUse("respond", upstream'[c], raised'[c])
  BY DEF LegInUse, UsesLeg
<1>8. Moves(c, "respond")
  BY <1>3, <1>6, <1>7 DEF Moves
<1>9. "respond" \in Stages /\ at[c] \in Handling /\ "respond" \in Handling
  BY DEF Stages, Handling, Cycle
<1>10. slots' \in 0..MaxConnections /\ SlotsAreHandlers'
  BY <1>9, SlotsUnmoved
<1> QED BY <1>8, <1>9, <1>10, MovePreserves

LEMMA ReadRequestPreserves ==
  ASSUME Kept, NEW c \in Conns, ReadRequest(c)
  PROVE  Kept'
<1> USE DEF Kept, TypeOK, ReadRequest, Goes
<1>1. inScope' \in [Conns -> BOOLEAN] /\ \A d \in Conns \ {c} : inScope'[d] = inScope[d]
  OBVIOUS
<1>2. InStep("connect", inScope'[c], recorded[c], answers[c])
  BY DEF EachInStep, InStep, Unanswered, Early, Cycle, Recorded
<1>3. LegInUse("connect", upstream'[c], raised'[c])
  BY DEF EachLegInUse, LegInUse, UsesLeg
<1>4. Moves(c, "connect")
  BY <1>1, <1>2, <1>3 DEF Moves
<1>5. "connect" \in Stages /\ at[c] \in Handling /\ "connect" \in Handling
  BY DEF Stages, Handling, Cycle
<1>6. slots' \in 0..MaxConnections /\ SlotsAreHandlers'
  BY <1>5, SlotsUnmoved
<1> QED BY <1>4, <1>5, <1>6, MovePreserves

LEMMA HttpCyclePreserves ==
  ASSUME Kept, NEW c \in Conns, HttpCycle(c)
  PROVE  Kept'
<1>1. CASE Respond(c) \/ RespondUpgrade(c) \/ RespondPlainUpgrade(c)
  BY <1>1, AnsweredPreserves DEF Respond, RespondUpgrade, RespondPlainUpgrade
<1>2. CASE TargetRaises(c) \/ ForwardRaises(c) \/ RecordRaises(c) \/ RespondRaises(c)
  BY <1>2, RaisesPreserves
  DEF TargetRaises, ForwardRaises, RecordRaises, RespondRaises, Handling, Cycle
<1> USE DEF Kept, TypeOK, cycleVars, Goes, Quiet, Handling, Early, Cycle, Unanswered, Recorded,
            EachLegInUse, LegInUse, UsesLeg, Legs
<1>3. CASE NoRequest(c)
  <2>1. Quiet(c, "closing") BY <1>3 DEF NoRequest
  <2> QED BY <2>1, QuietPreserves DEF Stages
<1>4. CASE Forward(c)
  <2>1. CASE inScope[c]
    <3>1. Quiet(c, "record") BY <1>4, <2>1 DEF Forward
    <3> QED BY <3>1, QuietPreserves DEF Stages
  <2>2. CASE ~inScope[c]
    <3>1. Quiet(c, "respond") BY <1>4, <2>2 DEF Forward
    <3> QED BY <3>1, QuietPreserves DEF Stages
  <2> QED BY <2>1, <2>2
<1>5. CASE RemoteFails(c)
  <2>1. Quiet(c, "gateway") BY <1>5 DEF RemoteFails
  <2> QED BY <2>1, QuietPreserves DEF Stages
<1>6. CASE GatewayLost(c)
  <2>1. Quiet(c, "closing") BY <1>6 DEF GatewayLost
  <2> QED BY <2>1, QuietPreserves DEF Stages
<1>7. CASE CloseStream(c)
  <2>1. Quiet(c, "leaving") BY <1>7 DEF CloseStream
  <2> QED BY <2>1, QuietPreserves DEF Stages
<1> QED BY <1>1, <1>2, <1>3, <1>4, <1>5, <1>6, <1>7,
           ReadRequestPreserves, RecordPreserves, GatewayPreserves DEF HttpCycle

LEMMA KeptInit == Init => Kept
<1> SUFFICES ASSUME Init PROVE Kept OBVIOUS
<1>1. \A c \in Conns : at[c] = "new" /\ recorded[c] = << >> /\ answers[c] = << >>
                       /\ upstream[c] = "none"
  BY DEF Init
<1>2. TypeOK
  BY ProxyAssumption DEF Init, TypeOK, Stages, Kinds, Legs
<1>3. SlotsAreHandlers
  <2>1. {c \in Conns : at[c] \in Handling} = {}
    BY <1>1 DEF Handling, Early, Cycle
  <2> QED BY <2>1, FS_EmptySet DEF Init, SlotsAreHandlers
<1>4. EachInStep
  BY <1>1, ProxyAssumption
  DEF EachInStep, InStep, Unanswered, Early, Cycle, Recorded, Numbers, ServedIn
<1>5. EachLegInUse
  BY <1>1 DEF EachLegInUse, LegInUse
<1> QED BY <1>2, <1>3, <1>4, <1>5 DEF Kept

LEMMA KeptStep == Kept /\ [Next]_vars => Kept'
<1> SUFFICES ASSUME Kept, [Next]_vars PROVE Kept' OBVIOUS
<1>1. CASE UNCHANGED vars
  BY <1>1 DEF vars, cycleVars, Kept, TypeOK, SlotsAreHandlers, EachInStep, EachLegInUse
<1>2. ASSUME NEW c \in Conns, HangUp(c) PROVE Kept'
  BY <1>2 DEF HangUp, cycleVars, Kept, TypeOK, SlotsAreHandlers, EachInStep, EachLegInUse
<1> QED BY <1>1, <1>2, ListenerPreserves, ConnectorPreserves, OutOfScopePreserves, TunnelPreserves,
           HttpCyclePreserves DEF Next

LEMMA AlwaysKept == Spec => []Kept
BY KeptInit, KeptStep, PTL DEF Spec

\* Type correctness, the bound on the slots included, for any number of connections.
THEOREM ProxyTypeCorrect == Spec => []TypeOK
<1>1. Kept => TypeOK
  BY DEF Kept
<1> QED BY <1>1, AlwaysKept, PTL

\* The slot counter is the number of connections being handled, whatever ends them.
THEOREM SlotsAreExact == Spec => []SlotsAreHandlers
<1>1. Kept => SlotsAreHandlers
  BY DEF Kept
<1> QED BY <1>1, AlwaysKept, PTL

\* What is recorded are the in-scope answers, each once, in order and beforehand.
THEOREM AnswersAreRecorded == Spec => []RecordedBeforeAnswer
<1>1. Kept => RecordedBeforeAnswer
  BY DEF Kept, EachInStep, InStep, Recorded, Numbers, ServedIn, RecordedBeforeAnswer, Served, Request
<1> QED BY <1>1, AlwaysKept, PTL

\* A connection that ends without an exception leaves no outbound leg open, but for
\* the one that a failed replay has stranded.
THEOREM LegsAreClosed == Spec => []NoLegLeftOpen
<1>1. Kept => NoLegLeftOpen
  BY DEF Kept, EachLegInUse, LegInUse, UsesLeg, NoLegLeftOpen
<1> QED BY <1>1, AlwaysKept, PTL
=============================================================================
