-------------------------------- MODULE Report --------------------------------
(***************************************************************************)
(* analysis/render.py: ANALYSIS.md, as the parts it has and what each of   *)
(* them refers to.  Wording, escaping and layout are left out.             *)
(***************************************************************************)
EXTENDS Signals

CONSTANT InlineBelow   \* _OTHER_INLINE_MAX_BYTES

ChangingMethods == {"POST", "PUT", "DELETE", "PATCH"}

\* The flows the document tells, by number: repetitions are not among them.
NarrativeFlows(flows) == Keep(Indices(flows), {f \in DOMAIN flows : flows[f].collapsedInto = None})

Primary(flow) == flow.entries[1]
IsChain(flow) == Len(flow.entries) > 1

---------------------------------------------------------------------------
(* Before the flows                                                        *)

Header(es) ==
  LET count == BuildStats(es).byCategory
  IN [total |-> Len(es), counts |-> {<<c, count[c]>> : c \in {c \in Categories : count[c] > 0}}]

\* Left out if it would be empty.
Summary(es) ==
  IF Surface(es) = <<>> THEN None
  ELSE <<[endpoints |-> [k \in DOMAIN DistinctEndpoints(es) |->
                           <<DistinctEndpoints(es)[k], DistinctEndpoints(es)[k][1] \in ChangingMethods>>],
          mechanisms |-> AuthMechanisms(es),
          statuses |-> StatusCodeRollup(es),
          parameters |-> ParameterNames(es)]>>

CaptureSignals(es) ==
  IF Surface(es) = <<>> /\ StackHints(es) = <<>> THEN None
  ELSE <<[posture |-> SecurityHeaderPosture(es),
          hints |-> StackHints(es),
          cors |-> CorsMisconfigurations(es),
          cookies |-> CookieFlagIssues(es)]>>

\* The arrow pairs: a chain answers with the status of its last hop.
SequenceDiagram(es, flows, told) ==
  [k \in DOMAIN told |->
     LET flow == flows[told[k]]
     IN [request |-> <<es[Primary(flow)].method, es[Primary(flow)].url>>,
         status |-> es[Last(flow.entries)].status,
         hops |-> Len(flow.entries)]]

Heading(es, id, flow) ==
  LET e == es[Primary(flow)]
  IN [flow |-> id,
      at |-> e.at,
      category |-> Category(e),
      suffix |-> IF IsChain(flow) THEN <<"redirect chain">>
                 ELSE IF Category(e) = "xhr-api" THEN Referer(e)
                 ELSE None,
      guessed |-> ~Confirmed(e)]

---------------------------------------------------------------------------
(* A flow                                                                  *)

\* The entries whose response bodies are shown.
BodiesShown(es, flow) ==
  LET i == Last(flow.entries)
      size == es[i].body.size
  IN IF size = 0 \/ (Category(es[i]) = "other" /\ size >= InlineBelow) THEN {} ELSE {i}

\* Mutant of AssetsSummary: all the members of the page's cluster count as assets.
MembersSummary(es, flow) ==
  LET cluster == {c \in ToSet(ClusterEntries(es)) : c[1] = Primary(flow)}
  IN IF Category(es[Primary(flow)]) # "navigation" THEN {}
     ELSE UNION {ToSet(Tail(c)) : c \in cluster}

\* The assets of the cluster that the flow's first entry anchors: of a chain, that
\* is the first redirect, not the page.
AssetsSummary(es, flow) ==
  LET cluster == {c \in ToSet(ClusterEntries(es)) : c[1] = Primary(flow)}
  IN IF Category(es[Primary(flow)]) # "navigation" THEN {}
     ELSE {i \in UNION {ToSet(Tail(c)) : c \in cluster} : Is("static-asset", es, i)}

AssetBytes(es, assets) == FoldSet(LAMBDA i, n : n + es[i].body.size, 0, assets)

AssetLine(es, flow) ==
  LET assets == AssetsSummary(es, flow)
  IN [assets |-> assets, bytes |-> AssetBytes(es, assets)]

\* The first three repetitions are named, the others counted.
PollingNote(flow) ==
  LET polled == flow.polled
  IN [named |-> SubSeq(polled, 1, IF Len(polled) < 3 THEN Len(polled) ELSE 3),
      more |-> IF Len(polled) > 3 THEN Len(polled) - 3 ELSE 0]

\* What the entries' sections may note, found once for the document.
Found(es) ==
  [slow |-> TimingOutliers(es), large |-> SizeOutliers(es), debug |-> DebugPageHints(es),
   secrets |-> SecretFindings(es), reuse |-> IdValueReuse(es)]

\* What is noted of an entry is noted in the flow that begins with it.
Notes(found, i) ==
  LET Of(signal) == [k \in {i} \cap DOMAIN signal |-> signal[k]]
  IN [slow |-> i \in found.slow, large |-> i \in found.large, debug |-> Of(found.debug),
      secrets |-> Of(found.secrets), reuse |-> Of(found.reuse)]

Section(es, found, id, flow) ==
  [heading |-> Heading(es, id, flow),
   hops |-> flow.entries,
   bodies |-> BodiesShown(es, flow),
   assets |-> AssetLine(es, flow),
   polling |-> PollingNote(flow),
   notes |-> Notes(found, Primary(flow))]

\* render_analysis_md
Document(es, flows) ==
  LET told == NarrativeFlows(flows)
      found == Found(es)
  IN [header |-> Header(es),
      summary |-> Summary(es),
      signals |-> CaptureSignals(es),
      diagram |-> SequenceDiagram(es, flows, told),
      contents |-> [k \in DOMAIN told |-> Heading(es, told[k], flows[told[k]])],
      sections |-> [k \in DOMAIN told |-> Section(es, found, told[k], flows[told[k]])],
      footer |-> <<Len(es), Len(told)>>]

---------------------------------------------------------------------------
(* Properties, of every list of entries                                    *)

ToldOnce(es, sections) ==
  LET hops == FlattenSeq([k \in DOMAIN sections |-> sections[k].hops])
      named == FlattenSeq([k \in DOMAIN sections |-> sections[k].polling.named])
      more == Total([k \in DOMAIN sections |-> sections[k].polling.more])
      assets == UNION {s.assets.assets : s \in ToSet(sections)}
  IN /\ IsInjective(hops \o named)
     /\ assets \cap ToSet(hops \o named) = {}
     /\ Len(hops) + Len(named) + more = Len(Surface(es))
     /\ \A s \in ToSet(sections) : \A i \in s.assets.assets :
          Referer(es[i]) = <<es[s.hops[1]].url>>
     /\ \A s, t \in ToSet(sections) : s # t => s.assets.assets \cap t.assets.assets = {}
     /\ \A k \in 2 .. Len(sections) : sections[k - 1].heading.at <= sections[k].heading.at

\* The document accounts for the capture: every request is told as a section or as
\* a hop of one, named or counted as a repetition, or counted with the assets of
\* the page that loaded it, and never more than one of these; only assets may be
\* missing.  Sections come in the order of time.
EveryRequestIsToldOnce(es) == ToldOnce(es, Document(es, BuildFlows(es)).sections)

\* Matching bodies of other bytes: a letter is escaped, or the members are in another
\* order.
Rewritten(a, b) == BodiesMatch(a, b) /\ a.bytes # b.bytes

WarningsAreTold(es, flows, found, sections) ==
  \A i \in ToSet(Surface(es)) : \E s \in ToSet(sections) :
    LET flow == flows[s.heading.flow] IN
    \/ i \in ToSet(Tail(flow.entries))
    \/ /\ i \in ToSet(<<Primary(flow)>> \o flow.polled)
       /\ \/ Rewritten(es[Primary(flow)].body, es[i].body)
          \/ /\ s.notes.debug # <<>> <=> i \in DOMAIN found.debug
             /\ s.notes.secrets # <<>> <=> i \in DOMAIN found.secrets

\* Collapsing loses a warning in two cases only: a secret or an error page found in a
\* response is told where that response is, or where the one it repeats is, unless the
\* response is a redirect after the first of its chain, or repeats the first one in
\* other bytes, which cluster.py, _bodies_match, does not tell from it.
WarningsSurviveCollapsing(es) ==
  LET flows == BuildFlows(es)
  IN WarningsAreTold(es, flows, Found(es), Document(es, flows).sections)
===============================================================================
