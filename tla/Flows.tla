-------------------------------- MODULE Flows --------------------------------
(***************************************************************************)
(* analysis/classify.py, analysis/cluster.py and analysis/manifest.py: the *)
(* entries of a stopped capture, in the order they were recorded, become   *)
(* clusters, redirect chains, polling groups and flows.  Entries are named *)
(* by their position, which is their raw.har index plus one.               *)
(***************************************************************************)
EXTENDS Har

CONSTANTS
  Window,      \* cluster_entries' window_ms
  AssetPaths   \* the paths that end like a static asset's

ASSUME WindowAssumption == Window \in Nat

Categories == {"navigation", "xhr-api", "static-asset", "other"}

---------------------------------------------------------------------------
(* classify.py                                                             *)

Confirmed(e) ==
  LET mode == HeaderValue(e.sent, "sec-fetch-mode")
  IN \/ mode = <<"navigate">>
     \/ mode \in {<<"cors">>, <<"same-origin">>} /\ HeaderValue(e.sent, "x-requested-with") # None

IsAssetType(type) ==
  type \in {<<"text/css">>, <<"application/javascript">>, <<"font/woff2">>, <<"image/png">>}

Guessed(e) ==
  LET type == ContentType(e.got) IN
  IF type = <<"text/html">> /\ e.method = "GET" THEN "navigation"
  ELSE IF type \in {<<"application/json">>, <<"application/xml">>} \/ e.reqBody.size > 0
    THEN "xhr-api"
  ELSE IF IsAssetType(type) \/ e.url.path \in AssetPaths THEN "static-asset"
  ELSE "other"

Category(e) ==
  IF ~Confirmed(e) THEN Guessed(e)
  ELSE IF HeaderValue(e.sent, "sec-fetch-mode") = <<"navigate">> THEN "navigation"
  ELSE "xhr-api"

Is(category, es, i) == Category(es[i]) = category

Indices(es) == [i \in DOMAIN es |-> i]

Before(es, i, j) == es[i].at < es[j].at \/ (es[i].at = es[j].at /\ i < j)

\* sorted(entries, key=started_at), which is stable: the k-th has k - 1 before it.
ByTime(es) ==
  [k \in DOMAIN es |->
     CHOOSE i \in DOMAIN es : Cardinality({j \in DOMAIN es : Before(es, j, i)}) = k - 1]

Referer(e) == HeaderValue(e.sent, "referer")

\* [i for i in s if i in S]
Keep(s, S) ==
  LET upTo[n \in 0 .. Len(s)] ==
        IF n = 0 THEN <<>>
        ELSE IF s[n] \in S THEN Append(upTo[n - 1], s[n]) ELSE upTo[n - 1]
  IN upTo[Len(s)]

Total(numbers) ==
  LET upTo[n \in 0 .. Len(numbers)] == IF n = 0 THEN 0 ELSE upTo[n - 1] + numbers[n]
  IN upTo[Len(numbers)]

---------------------------------------------------------------------------
(* cluster.py: clusters                                                    *)

ClusterReferer(e) == IF Category(e) = "navigation" THEN <<e.url>> ELSE Referer(e)

\* Mutant of Joins: the window is measured from the anchor.
JoinsFromAnchor(es, cluster, i) ==
  /\ ~Is("navigation", es, i)
  /\ es[i].at - es[cluster[1]].at <= Window
  /\ Referer(es[i]) = ClusterReferer(es[cluster[1]])

\* A cluster is its anchor followed by its members.
Joins(es, cluster, i) ==
  /\ ~Is("navigation", es, i)
  /\ es[i].at - es[Last(cluster)].at <= Window
  /\ Referer(es[i]) = ClusterReferer(es[cluster[1]])

JoinOrBegin(es, clusters, i) ==
  IF clusters # <<>> /\ Joins(es, Last(clusters), i)
  THEN [clusters EXCEPT ![Len(clusters)] = Append(@, i)]
  ELSE Append(clusters, <<i>>)

\* upTo[n] is the clusters of the first n entries.
ClusterEntries(es) ==
  LET order == ByTime(es)
      upTo[n \in 0 .. Len(order)] ==
        IF n = 0 THEN <<>> ELSE JoinOrBegin(es, upTo[n - 1], order[n])
  IN upTo[Len(order)]

---------------------------------------------------------------------------
(* cluster.py: redirect chains                                             *)

\* urljoin of an absolute URL or of an absolute path.
UrlJoin(url, location) ==
  [location EXCEPT !.host = IF @ = "" THEN url.host ELSE @]

Follows(es, i, j) ==
  LET location == HeaderValue(es[i].got, "location")
  IN /\ es[i].status \in 300 .. 399
     /\ location # None
     /\ es[j].url = UrlJoin(es[i].url, location[1])

Navigations(es) == Keep(ByTime(es), {i \in DOMAIN es : Is("navigation", es, i)})

\* Mutant of HopsFrom: a chain is one redirect and its target.
FirstHopsFrom(es, nav, p) ==
  SubSeq(nav, p, IF p < Len(nav) /\ Follows(es, nav[p], nav[p + 1]) THEN p + 1 ELSE p)

\* The longest chain that starts at nav[p].
HopsFrom(es, nav, p) ==
  LET Linked(q) == \A k \in p .. q - 1 : Follows(es, nav[k], nav[k + 1])
  IN SubSeq(nav, p, CHOOSE q \in p .. Len(nav) : Linked(q) /\ (q = Len(nav) \/ ~Linked(q + 1)))

\* What is in a chain already begins none, nor does what redirects nowhere.
AddChain(es, nav, chains, p) ==
  IF (\E c \in ToSet(chains) : nav[p] \in ToSet(c)) \/ Len(HopsFrom(es, nav, p)) = 1
  THEN chains
  ELSE Append(chains, HopsFrom(es, nav, p))

\* upTo[p] is the chains that begin at the first p navigations.
RedirectChains(es) ==
  LET nav == Navigations(es)
      upTo[p \in 0 .. Len(nav)] ==
        IF p = 0 THEN <<>> ELSE AddChain(es, nav, upTo[p - 1], p)
  IN upTo[Len(nav)]

---------------------------------------------------------------------------
(* cluster.py: polling groups                                              *)

Signature(e) == <<e.method, e.url.path, Referer(e)>>

\* Equal as JSON, in whatever order their members are, or equal bytes if either is
\* not JSON.
BodiesMatch(a, b) ==
  IF a.json # None /\ b.json # None THEN ToSet(a.json[1]) = ToSet(b.json[1]) ELSE a.bytes = b.bytes

\* Mutant of RunsOf: a changed body does not end the run.
RunsOfSignature(es, occurrences) == <<occurrences>>

\* A body that differs from the run's first one ends the run and starts another.
AddToRuns(es, runs, i) ==
  IF runs # <<>> /\ BodiesMatch(es[Last(runs)[1]].body, es[i].body)
  THEN [runs EXCEPT ![Len(runs)] = Append(@, i)]
  ELSE Append(runs, <<i>>)

\* upTo[n] is the runs of the first n occurrences.
RunsOf(es, occurrences) ==
  LET upTo[n \in 0 .. Len(occurrences)] ==
        IF n = 0 THEN <<>> ELSE AddToRuns(es, upTo[n - 1], occurrences[n])
  IN upTo[Len(occurrences)]

\* statistics.median, doubled so that it is an integer.
TwiceMedian(values) ==
  LET sorted == SortSeq(values, LAMBDA a, b : a < b)
  IN sorted[(Len(values) + 1) \div 2] + sorted[Len(values) \div 2 + 1]

Gaps(es, run) == [k \in 1 .. Len(run) - 1 |-> es[run[k + 1]].at - es[run[k]].at]

\* _finalize_run: three or more, and every gap within 20% of the median gap.
IsPolling(es, run) ==
  /\ Len(run) >= 3
  /\ LET twice == TwiceMedian(Gaps(es, run))
     IN /\ twice > 0
        /\ \A gap \in ToSet(Gaps(es, run)) : 5 * (2 * gap - twice) \in -twice .. twice

PollingGroups(es) ==
  LET xhr == Keep(ByTime(es), {i \in DOMAIN es : Is("xhr-api", es, i)})
      Of(signature) == Keep(xhr, {i \in DOMAIN es : Signature(es[i]) = signature})
  IN {run \in UNION {ToSet(RunsOf(es, Of(s))) : s \in {Signature(es[i]) : i \in ToSet(xhr)}} :
        IsPolling(es, run)}

---------------------------------------------------------------------------
(* manifest.py                                                             *)

\* The entries that get a flow of their own, in the order of the flow ids.
Told(es) ==
  LET consumed == UNION {ToSet(Tail(c)) : c \in ToSet(RedirectChains(es))}
  IN Keep(ByTime(es), {i \in DOMAIN es : ~Is("static-asset", es, i)} \ consumed)

SimpleFlow(i) == [entries |-> <<i>>, polled |-> <<>>, collapsedInto |-> None]

BuildFlows(es) ==
  LET told == Told(es)
      chains == ToSet(RedirectChains(es))
      groups == PollingGroups(es)
      FlowOf(i) ==
        LET chain == {c \in chains : Head(c) = i}
            group == {g \in groups : i \in ToSet(g)}
        IN IF chain # {} THEN [SimpleFlow(i) EXCEPT !.entries = CHOOSE c \in chain : TRUE]
           ELSE IF group = {} THEN SimpleFlow(i)
           ELSE LET g == CHOOSE g \in group : TRUE IN
                IF Head(g) = i THEN [SimpleFlow(i) EXCEPT !.polled = Tail(g)]
                ELSE [SimpleFlow(i) EXCEPT
                        !.collapsedInto = <<CHOOSE k \in DOMAIN told : told[k] = Head(g)>>]
  IN [k \in DOMAIN told |-> FlowOf(told[k])]

BuildStats(es) ==
  [total |-> Len(es),
   byCategory |-> [c \in Categories |-> Len(SelectSeq(es, LAMBDA e : Category(e) = c))],
   bytes |-> Total([i \in DOMAIN es |-> es[i].reqBody.size + es[i].body.size]),
   domains |-> {es[i].url.host : i \in DOMAIN es}]

---------------------------------------------------------------------------
(* Properties, of every list of entries                                    *)

\* Clusters cut the capture, in order of time, exactly where an entry is a
\* navigation, comes after a pause longer than the window, or was not sent from
\* the page (or with the referer) the cluster began with.
ClustersAreActivities(es) ==
  LET clusters == ClusterEntries(es)
      Cut(i, j, anchor) ==
        \/ Category(es[j]) = "navigation"
        \/ es[j].at > es[i].at + Window
        \/ Referer(es[j]) # IF Category(es[anchor]) = "navigation" THEN <<es[anchor].url>>
                            ELSE Referer(es[anchor])
  IN /\ FlattenSeq(clusters) = ByTime(es)
     /\ \A c \in ToSet(clusters) : \A m \in 2 .. Len(c) : ~Cut(c[m - 1], c[m], c[1])
     /\ \A k \in 2 .. Len(clusters) :
          Cut(Last(clusters[k - 1]), clusters[k][1], clusters[k - 1][1])

\* Two successive navigations are successive hops of exactly one chain if the first
\* redirects to the second, and of none otherwise.
ChainsAreRedirects(es) ==
  LET nav == Navigations(es)
      Hops(i, j) == {h \in ToSet(RedirectChains(es)) \X DOMAIN nav :
                       h[2] < Len(h[1]) /\ h[1][h[2]] = i /\ h[1][h[2] + 1] = j}
  IN \A i, j \in ToSet(nav) :
       Cardinality(Hops(i, j)) =
         IF Follows(es, i, j) /\ \E p \in 1 .. Len(nav) - 1 : nav[p] = i /\ nav[p + 1] = j
         THEN 1 ELSE 0
=============================================================================
