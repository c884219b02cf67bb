-------------------------------- MODULE Proxy --------------------------------
(***************************************************************************)
(* proxy/listener.py, intercept.py, plain_http.py, _http_cycle.py and      *)
(* upstream.py: the life of each client connection, from the check against *)
(* --max-connections through the request and ClientHello reads to one of   *)
(* three handlers, the HTTP request cycle and the closing of both legs.    *)
(* A stage is an await: other connections run between two stages.  What    *)
(* the relays do with the bytes is in Relay.                               *)
(***************************************************************************)
EXTENDS Naturals, Sequences, FiniteSets

CONSTANTS
  Conns,            \* the client connections
  MaxConnections,   \* --max-connections
  MaxRequests       \* bound: requests on one connection

ASSUME ProxyAssumption ==
  /\ IsFiniteSet(Conns)
  /\ MaxConnections \in Nat \ {0}
  /\ MaxRequests \in Nat \ {0}

VARIABLES
  at,         \* [Conns -> Stages]: the await each handler is in
  slots,      \* _active_connections
  kind,       \* [Conns -> Kinds]: which handler the listener has chosen
  inScope,    \* the request in hand is in scope
  switching,  \* the response in hand is a 101
  upstream,   \* the outbound leg
  recorded,   \* the requests given to on_entry_recorded, by number
  answers,    \* what the client has been answered, request by request
  gone,       \* the client has closed its connection
  raised      \* an exception that is only logged has left the handler's request cycle,
              \* or the handler

cycleVars == <<kind, inScope, switching, recorded, answers>>
vars == <<at, slots, upstream, gone, raised, cycleVars>>

Kinds == {"none", "plain", "tunnel", "blind"}
Early == {"request", "hello"}
Cycle == {"http", "connect", "forward", "record", "respond", "gateway"}
Handling ==
  Early \cup Cycle \cup
  {"leaf", "handshake", "relayConnect", "relay", "passthrough", "closing", "leaving"} \cup
  {"proxyAnswer", "startTls"}
Stages == Handling \cup {"new", "rejecting", "lingering", "closed"}
\* A "stranded" leg is open, and blind_relay, which opened it, has been left by an
\* exception: nothing refers to it any more.
Legs == {"none", "open", "closed", "stranded"}
Answers == [how : {"response", "switched", "gateway"}, inScope : BOOLEAN]

\* The connections being handled never exceed --max-connections.
TypeOK ==
  /\ at \in [Conns -> Stages]
  /\ slots \in 0..MaxConnections
  /\ kind \in [Conns -> Kinds]
  /\ inScope \in [Conns -> BOOLEAN]
  /\ switching \in [Conns -> BOOLEAN]
  /\ upstream \in [Conns -> Legs]
  /\ recorded \in [Conns -> Seq(1..MaxRequests)]
  /\ answers \in [Conns -> Seq(Answers)]
  /\ \A c \in Conns : Len(answers[c]) <= MaxRequests
  /\ gone \in [Conns -> BOOLEAN]
  /\ raised \in [Conns -> BOOLEAN]

Init ==
  /\ at = [c \in Conns |-> "new"]
  /\ slots = 0
  /\ kind = [c \in Conns |-> "none"]
  /\ inScope = [c \in Conns |-> FALSE]
  /\ switching = [c \in Conns |-> FALSE]
  /\ upstream = [c \in Conns |-> "none"]
  /\ recorded = [c \in Conns |-> << >>]
  /\ answers = [c \in Conns |-> << >>]
  /\ gone = [c \in Conns |-> FALSE]
  /\ raised = [c \in Conns |-> FALSE]

Goes(c, from, to) == at[c] = from /\ at' = [at EXCEPT ![c] = to]

\* The number of the request in hand: its predecessors have all been answered.
Request(c) == Len(answers[c]) + 1

---------------------------------------------------------------------------
(* The listener                                                            *)

\* Mutant of Accept: the limit is not checked.
AcceptUncapped(c) ==
  /\ Goes(c, "new", "request")
  /\ slots' = slots + 1
  /\ UNCHANGED <<upstream, gone, raised, cycleVars>>

\* The check and the increment have no await between them.
Accept(c) ==
  /\ slots < MaxConnections
  /\ Goes(c, "new", "request")
  /\ slots' = slots + 1
  /\ UNCHANGED <<upstream, gone, raised, cycleVars>>

Reject(c) ==
  /\ slots >= MaxConnections
  /\ Goes(c, "new", "rejecting")
  /\ UNCHANGED <<slots, upstream, gone, raised, cycleVars>>

Chooses(c, how) ==
  /\ kind' = [kind EXCEPT ![c] = how]
  /\ UNCHANGED <<slots, upstream, gone, raised, inScope, switching, recorded, answers>>

PlainRequest(c) == Goes(c, "request", "http") /\ Chooses(c, "plain")

ConnectRequest(c) ==
  /\ Goes(c, "request", "hello")
  /\ UNCHANGED <<slots, upstream, gone, raised, cycleVars>>

InScopeHello(c) == Goes(c, "hello", "leaf") /\ Chooses(c, "tunnel")

OutOfScopeHello(c) == Goes(c, "hello", "relayConnect") /\ Chooses(c, "blind")

\* A timeout, an end of file or bytes that do not parse end the early reads; the
\* 200 that answers CONNECT cannot be written to a client that has gone.  Each chunk
\* of a ClientHello is given the ten seconds anew.
Drop(c) ==
  /\ at[c] \in Early
  /\ at' = [at EXCEPT ![c] = "leaving"]
  /\ UNCHANGED <<slots, upstream, gone, raised, cycleVars>>

\* An exception passes through the handler, which still closes the client's
\* stream; the outbound leg, if there is one, is left as it is.
Raises(c, from) ==
  /\ Goes(c, from, IF kind[c] \in {"plain", "tunnel"} THEN "closing" ELSE "leaving")
  /\ raised' = [raised EXCEPT ![c] = TRUE]
  /\ UNCHANGED <<slots, upstream, gone, cycleVars>>

ConnectAnswerRaises(c) == gone[c] /\ Raises(c, "request")

\* The finally clause: the slot is given back before the connection is closed.
\* The handler has returned, and its local variables with it.
Returned(c) ==
  /\ Goes(c, "leaving", "lingering")
  /\ kind' = [kind EXCEPT ![c] = "none"]
  /\ UNCHANGED <<inScope, switching, upstream, recorded, answers, gone, raised>>

\* Mutant of Release: an exception skips the decrement.
ReleaseUnlessRaised(c) ==
  Returned(c) /\ slots' = IF raised[c] THEN slots ELSE slots - 1

Release(c) == Returned(c) /\ slots' = slots - 1

CloseQuietly(c) ==
  /\ at[c] \in {"rejecting", "lingering"}
  /\ at' = [at EXCEPT ![c] = "closed"]
  /\ UNCHANGED <<slots, upstream, gone, raised, cycleVars>>

---------------------------------------------------------------------------
(* UpstreamConnector: directly, or through an upstream proxy that is asked  *)
(* for a tunnel first.  Which of the two is chosen anew for each connect.  *)

\* A connection that is open is as far as it goes for a plain request, and directly.
Connects(c, from, to) ==
  /\ Goes(c, from, to)
  /\ upstream' = [upstream EXCEPT ![c] = "open"]
  /\ UNCHANGED <<slots, gone, raised, cycleVars>>

Connected(c) == Connects(c, "connect", "forward")

RelayConnects(c) == Connects(c, "relayConnect", "relay")

ConnectFails(c) ==
  /\ Goes(c, "connect", "gateway")
  /\ UNCHANGED <<slots, upstream, gone, raised, cycleVars>>

RelayConnectFails(c) ==
  /\ Goes(c, "relayConnect", "leaving")
  /\ UNCHANGED <<slots, upstream, gone, raised, cycleVars>>

\* A host name that IDNA cannot encode raises before anything is open, one that TLS
\* does not take when the tunnel is.
NameRaises(c) == Raises(c, "connect") \/ Raises(c, "relayConnect") \/ Raises(c, "startTls")

\* The proxy is sent a CONNECT; a host that is not ASCII raises in writing it.
ReachesProxy(c) ==
  /\ kind[c] # "plain"
  /\ \E from \in {"connect", "relayConnect"} : Connects(c, from, "proxyAnswer")

ConnectRaises(c) ==
  /\ kind[c] # "plain"
  /\ \/ Goes(c, "connect", "closing")
     \/ Goes(c, "relayConnect", "leaving")
  /\ upstream' = [upstream EXCEPT ![c] = "open"]
  /\ raised' = [raised EXCEPT ![c] = TRUE]
  /\ UNCHANGED <<slots, gone, cycleVars>>

\* A 200: what is in scope is encrypted in the tunnel, what is not is relayed.
ProxyAccepts(c) ==
  /\ Goes(c, "proxyAnswer", IF kind[c] = "blind" THEN "relay" ELSE "startTls")
  /\ UNCHANGED <<slots, upstream, gone, raised, cycleVars>>

\* UpstreamConnectionError: what was opened is closed again.
GivesUp(c, from) ==
  /\ Goes(c, from, IF kind[c] = "blind" THEN "leaving" ELSE "gateway")
  /\ upstream' = [upstream EXCEPT ![c] = "closed"]
  /\ UNCHANGED <<slots, gone, raised, cycleVars>>

\* Another status, an end of file, a head too long, or no answer in ten seconds.
ProxyRefuses(c) == GivesUp(c, "proxyAnswer")

\* --upstream-ca cannot be read: connect_tls makes its context outside the try.
ContextRaises(c) == kind[c] = "tunnel" /\ Raises(c, "proxyAnswer")

TlsStarts(c) ==
  /\ Goes(c, "startTls", "forward")
  /\ UNCHANGED <<slots, upstream, gone, raised, cycleVars>>

TlsFails(c) == GivesUp(c, "startTls")

---------------------------------------------------------------------------
(* Out of scope: blind_relay                                               *)

\* splice closes both writers when either side has closed.
RelayEnds(c) ==
  /\ Goes(c, "relay", "leaving")
  /\ upstream' = [upstream EXCEPT ![c] = "closed"]
  /\ UNCHANGED <<slots, gone, raised, cycleVars>>

\* The replay of the ClientHello is outside splice's finally clause.  The listener
\* catches its OSError like one of the connect, and returns.
ReplayFails(c) ==
  /\ Goes(c, "relay", "leaving")
  /\ upstream' = [upstream EXCEPT ![c] = "stranded"]
  /\ UNCHANGED <<slots, gone, raised, cycleVars>>

---------------------------------------------------------------------------
(* In scope: the leaf certificate and the handshake with the client        *)

LeafDone(c) ==
  /\ Goes(c, "leaf", "handshake")
  /\ UNCHANGED <<slots, upstream, gone, raised, cycleVars>>

LeafFails(c) ==
  /\ Goes(c, "leaf", "closing")
  /\ UNCHANGED <<slots, upstream, gone, raised, cycleVars>>

HandshakeDone(c) ==
  /\ Goes(c, "handshake", "http")
  /\ UNCHANGED <<slots, upstream, gone, raised, cycleVars>>

HandshakeFails(c) ==
  /\ Goes(c, "handshake", "closing")
  /\ UNCHANGED <<slots, upstream, gone, raised, cycleVars>>

---------------------------------------------------------------------------
(* The request cycle of InterceptHandler and PlainHttpHandler              *)

\* A tunnel was found in scope by its SNI; a plain request is matched by its host.
ReadRequest(c) ==
  /\ Len(answers[c]) < MaxRequests
  /\ Goes(c, "http", "connect")
  /\ \E scope \in (IF kind[c] = "tunnel" THEN {TRUE} ELSE BOOLEAN) :
       inScope' = [inScope EXCEPT ![c] = scope]
  /\ UNCHANGED <<slots, kind, switching, upstream, recorded, answers, gone, raised>>

\* Mutant of NoRequest: an end of file is waited out like missing data.
NoRequestIgnoringEof(c) ==
  /\ ~gone[c]
  /\ Goes(c, "http", "closing")
  /\ UNCHANGED <<slots, upstream, gone, raised, cycleVars>>

\* The client has closed, or what it sends is not HTTP or has no absolute target;
\* nothing bounds the time it may take.
NoRequest(c) ==
  /\ Goes(c, "http", "closing")
  /\ UNCHANGED <<slots, upstream, gone, raised, cycleVars>>

\* A target whose port is not a number makes the parser raise.
TargetRaises(c) == kind[c] = "plain" /\ Raises(c, "http")

\* Mutant of Forward: the scope is not asked.
ForwardRecordingAll(c) ==
  /\ Goes(c, "forward", "record")
  /\ \E is101 \in BOOLEAN : switching' = [switching EXCEPT ![c] = is101]
  /\ UNCHANGED <<slots, kind, inScope, upstream, recorded, answers, gone, raised>>

\* A response has been read to its end.  Only what is in scope is recorded.
Forward(c) ==
  /\ Goes(c, "forward", IF inScope[c] THEN "record" ELSE "respond")
  /\ \E is101 \in BOOLEAN : switching' = [switching EXCEPT ![c] = is101]
  /\ UNCHANGED <<slots, kind, inScope, upstream, recorded, answers, gone, raised>>

\* Mutant of RemoteFails: the outbound leg is left open.
RemoteFailsUnclosed(c) ==
  /\ Goes(c, "forward", "gateway")
  /\ UNCHANGED <<slots, upstream, gone, raised, cycleVars>>

RemoteFails(c) ==
  /\ Goes(c, "forward", "gateway")
  /\ upstream' = [upstream EXCEPT ![c] = "closed"]
  /\ UNCHANGED <<slots, gone, raised, cycleVars>>

\* h11 refuses to send what it has received, an HTTP/1.0 request for one: that
\* LocalProtocolError is not among the caught ones.
ForwardRaises(c) == Raises(c, "forward")

Record(c) ==
  /\ Goes(c, "record", "respond")
  /\ recorded' = [recorded EXCEPT ![c] = Append(@, Request(c))]
  /\ UNCHANGED <<slots, kind, inScope, switching, upstream, answers, gone, raised>>

\* The capture's buffer refuses the entry (CaptureManager's AppendRaises).
RecordRaises(c) == Raises(c, "record")

\* Once answered, the request and its response are no longer in hand.
Answered(c, how) ==
  /\ answers' = [answers EXCEPT ![c] = Append(@, [how |-> how, inScope |-> inScope[c]])]
  /\ inScope' = [inScope EXCEPT ![c] = FALSE]
  /\ switching' = [switching EXCEPT ![c] = FALSE]
  /\ UNCHANGED <<slots, kind, recorded, gone, raised>>

\* An upgrade keeps the outbound leg; any other response closes it, and h11 decides
\* from both sides' headers whether the connection may carry another request.
Respond(c) ==
  /\ ~switching[c]
  /\ \E next \in {"http", "closing"} : Goes(c, "respond", next)
  /\ Answered(c, "response")
  /\ upstream' = [upstream EXCEPT ![c] = "closed"]

RespondUpgrade(c) ==
  /\ switching[c]
  /\ kind[c] = "tunnel"
  /\ Goes(c, "respond", "passthrough")
  /\ Answered(c, "switched")
  /\ UNCHANGED upstream

\* PlainHttpHandler has no passthrough: start_next_cycle refuses, and it returns.
RespondPlainUpgrade(c) ==
  /\ switching[c]
  /\ kind[c] = "plain"
  /\ Goes(c, "respond", "closing")
  /\ Answered(c, "switched")
  /\ upstream' = [upstream EXCEPT ![c] = "closed"]

\* The client's connection is broken, or h11 refuses the response.
RespondRaises(c) == Raises(c, "respond")

Gateway(c) ==
  /\ Goes(c, "gateway", "closing")
  /\ Answered(c, "gateway")
  /\ UNCHANGED upstream

\* The 502 is not written: an OSError is dropped, and for a HEAD request h11
\* refuses the body, which raises.
GatewayLost(c) ==
  /\ Goes(c, "gateway", "closing")
  /\ raised' \in {raised, [raised EXCEPT ![c] = TRUE]}
  /\ UNCHANGED <<slots, upstream, gone, cycleVars>>

PassthroughEnds(c) ==
  /\ Goes(c, "passthrough", "closing")
  /\ upstream' = [upstream EXCEPT ![c] = "closed"]
  /\ UNCHANGED <<slots, gone, raised, cycleVars>>

\* The replay of what was read ahead is outside raw_passthrough's finally clause.
PassthroughRaises(c) == Raises(c, "passthrough")

\* The handler's own close waits until the client has taken what is buffered.
CloseStream(c) ==
  /\ Goes(c, "closing", "leaving")
  /\ UNCHANGED <<slots, upstream, gone, raised, cycleVars>>

---------------------------------------------------------------------------
(* The client                                                              *)

HangUp(c) ==
  /\ at[c] \notin {"new", "closed"}
  /\ ~gone[c]
  /\ gone' = [gone EXCEPT ![c] = TRUE]
  /\ UNCHANGED <<at, slots, upstream, raised, cycleVars>>

---------------------------------------------------------------------------
(* Specification                                                           *)

Listener(c) ==
  \/ Accept(c) \/ Reject(c) \/ PlainRequest(c) \/ ConnectRequest(c)
  \/ InScopeHello(c) \/ OutOfScopeHello(c) \/ Drop(c) \/ ConnectAnswerRaises(c)
  \/ Release(c) \/ CloseQuietly(c)

Connector(c) ==
  \/ Connected(c) \/ RelayConnects(c) \/ ConnectFails(c) \/ RelayConnectFails(c)
  \/ NameRaises(c) \/ ReachesProxy(c) \/ ConnectRaises(c)
  \/ ProxyAccepts(c) \/ ProxyRefuses(c) \/ ContextRaises(c)
  \/ TlsStarts(c) \/ TlsFails(c)

OutOfScope(c) == RelayEnds(c) \/ ReplayFails(c)

Tunnel(c) ==
  \/ LeafDone(c) \/ LeafFails(c) \/ HandshakeDone(c) \/ HandshakeFails(c)
  \/ PassthroughEnds(c) \/ PassthroughRaises(c)

HttpCycle(c) ==
  \/ ReadRequest(c) \/ NoRequest(c) \/ TargetRaises(c)
  \/ Forward(c) \/ RemoteFails(c) \/ ForwardRaises(c)
  \/ Record(c) \/ RecordRaises(c)
  \/ Respond(c) \/ RespondUpgrade(c) \/ RespondPlainUpgrade(c) \/ RespondRaises(c)
  \/ Gateway(c) \/ GatewayLost(c) \/ CloseStream(c)

Next ==
  \E c \in Conns :
    Listener(c) \/ Connector(c) \/ OutOfScope(c) \/ Tunnel(c) \/ HttpCycle(c) \/ HangUp(c)

Spec == Init /\ [][Next]_vars

\* What the daemon does by itself ends: local work, and connects with a timeout.
\* What waits for the client ends once the client has gone.  What waits for the
\* server, forward and the relays, need never end.
Fairness ==
  \A c \in Conns :
    /\ WF_vars(Release(c)) /\ WF_vars(CloseQuietly(c))
    /\ WF_vars(Connector(c))
    /\ WF_vars(LeafDone(c) \/ LeafFails(c))
    /\ WF_vars(Record(c) \/ RecordRaises(c))
    /\ WF_vars(gone[c] /\ Drop(c))
    /\ WF_vars(gone[c] /\ HandshakeFails(c))
    /\ WF_vars(gone[c] /\ NoRequest(c))
    /\ WF_vars(gone[c] /\ (Respond(c) \/ RespondUpgrade(c) \/ RespondPlainUpgrade(c)
                           \/ RespondRaises(c)))
    /\ WF_vars(gone[c] /\ (Gateway(c) \/ GatewayLost(c)))
    /\ WF_vars(gone[c] /\ CloseStream(c))

FairSpec == Spec /\ Fairness

---------------------------------------------------------------------------
(* Properties                                                              *)

\* The counter the limit is checked against is the number of connections being
\* handled, whichever way their handlers end: no slot is lost or given back twice.
SlotsAreHandlers == slots = Cardinality({c \in Conns : at[c] \in Handling})

\* The requests of a connection that have been answered with the server's response.
Served(c, scope) ==
  {k \in DOMAIN answers[c] : answers[c][k].inScope = scope /\ answers[c][k].how # "gateway"}

\* Every in-scope response is recorded, once, in order and before the client sees
\* it; what is out of scope and what the proxy itself answers is never recorded.
RecordedBeforeAnswer ==
  \A c \in Conns :
    LET kept == {recorded[c][i] : i \in DOMAIN recorded[c]}
    IN  /\ \A i, j \in DOMAIN recorded[c] : i < j => recorded[c][i] < recorded[c][j]
        /\ Served(c, TRUE) \subseteq kept
        /\ kept \subseteq Served(c, TRUE) \cup {Request(c)}
        /\ Request(c) \in kept => inScope[c] /\ at[c] \notin {"forward", "gateway"}

\* A connection leaves an outbound leg behind in two ways only: an exception that is
\* not expected, and a replay into a blind relay that fails, which strands the leg.
\* Every expected failure, and every other end of a handler, closes what it opened.
NoLegLeftOpen ==
  \A c \in Conns : at[c] = "closed" /\ ~raised[c] => upstream[c] # "open"

\* Once a client has hung up its connection is closed, unless the handler waits
\* for ever on a server that neither answers nor closes: the forward has no timeout.
HungUpIsReleased ==
  \A c \in Conns :
    <>(gone[c]) =>
      <>(at[c] = "closed") \/ <>[](at[c] \in {"forward", "relay", "passthrough"})

\* README.md:261-262: "WebSocket frames on in-scope domains are passed through".
\* An in-scope upgrade is answered only by a handler that goes on to relay.
UpgradesPassThrough ==
  [][\A c \in Conns :
       Len(answers'[c]) > Len(answers[c]) /\ answers'[c][Request(c)].how = "switched"
         /\ inScope[c] => at'[c] = "passthrough"]_vars

=============================================================================
