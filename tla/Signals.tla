------------------------------- MODULE Signals -------------------------------
(***************************************************************************)
(* analysis/signals.py: what the analysis points out in a capture.  Each   *)
(* operator is one compute_* function; entries come in the order they were *)
(* recorded.                                                               *)
(***************************************************************************)
EXTENDS Flows

CONSTANTS
  TimingMultiple, SizeMultiple,  \* an outlier is this many times the median
  Signatures,                    \* _DEBUG_PAGE_SIGNATURES, a sequence of marks
  SecretKinds,                   \* _SECRET_PATTERNS, a set of marks
  CookieHints                    \* _COOKIE_NAME_HINTS, a set of cookie names

LowSignal == {"", "0", "1", "true", "false", "null", "none"}
Trackers == {"strict-transport-security", "content-security-policy", "x-frame-options",
             "x-content-type-options", "x-xss-protection", "referrer-policy", "permissions-policy"}
Flags == {"secure", "httponly", "samesite"}
Schemes == {"bearer", "basic", "digest"}

\* What is left when every loop has skipped its static assets.
Surface(es) == Keep(Indices(es), {i \in DOMAIN es : ~Is("static-asset", es, i)})

\* The elements of a sequence whose keys, in order, no earlier element has.
Firsts(s, keys) ==
  LET at == Keep(Indices(s), {k \in DOMAIN s : \A j \in 1 .. k - 1 : keys[j] # keys[k]})
  IN [k \in DOMAIN at |-> s[at[k]]]

\* The elements of a sequence without the repetitions.
Distinct(s) == Firsts(s, s)

\* [key |-> how many of the surface's entries have it], if they have keys[entry].
CountBy(keys) ==
  [key \in UNION {keys[i] : i \in DOMAIN keys} |-> Cardinality({i \in DOMAIN keys : key \in keys[i]})]

---------------------------------------------------------------------------
(* Values that come back                                                   *)

\* parse_qs: the first value of each name, blank values dropped.
ParseQs(query) ==
  LET filled == Keep(query, {p \in ToSet(query) : p[2] # ""})
  IN Firsts(filled, [k \in DOMAIN filled |-> filled[k][1]])

\* The top-level members of a JSON request body.
JsonMembers(e) ==
  IF ContentType(e.sent) = <<"application/json">> /\ e.reqBody.json # None
  THEN e.reqBody.json[1] ELSE <<>>

\* The code goes through the set of these pairs in an order of Python's choice; it is
\* this one for a request that has its parameters in that order.
IdShapedValues(e) ==
  LET all == ParseQs(e.url.query) \o JsonMembers(e)
  IN Distinct(Keep(all, {p \in ToSet(all) : p[2] \notin LowSignal}))

Carries(es, i, pair) == pair \in ToSet(IdShapedValues(es[i]))

\* f[x] = y of a dictionary.
Put(f, x, y) == [z \in DOMAIN f \cup {x} |-> IF z = x THEN y ELSE f[z]]

\* Mutant of NoteValue: a note names the entry before it as the first to carry the value.
NoteValueBefore(found, pair, i) ==
  IF pair \notin DOMAIN found.firstSeen THEN [found EXCEPT !.firstSeen = Put(@, pair, i)]
  ELSE [found EXCEPT !.notes = Put(@, i, [pair |-> pair, firstSeen |-> i - 1, further |-> 0])]

\* One turn of the inner loop.  A note is stored under its entry, of which there is one
\* only: a second pair first reused in that entry takes the place of the first.
NoteValue(found, pair, i) ==
  IF pair \notin DOMAIN found.firstSeen THEN [found EXCEPT !.firstSeen = Put(@, pair, i)]
  ELSE IF pair \notin DOMAIN found.noteOf THEN
    [found EXCEPT
       !.noteOf = Put(@, pair, i),
       !.notes = Put(@, i, [pair |-> pair, firstSeen |-> found.firstSeen[pair], further |-> 0])]
  ELSE [found EXCEPT !.notes[found.noteOf[pair]].further = @ + 1]

\* What is found when entry i, which sends these pairs, has been gone through.
NoteEntry(found, pairs, i) ==
  LET upTo[n \in 0 .. Len(pairs)] ==
        IF n = 0 THEN found ELSE NoteValue(upTo[n - 1], pairs[n], i)
  IN upTo[Len(pairs)]

NothingFound == [firstSeen |-> <<>>, noteOf |-> <<>>, notes |-> <<>>]

\* upTo[n] is what is found in the first n entries of the surface.
IdValueReuse(es) ==
  LET surface == Surface(es)
      upTo[n \in 0 .. Len(surface)] ==
        IF n = 0 THEN NothingFound
        ELSE NoteEntry(upTo[n - 1], IdShapedValues(es[surface[n]]), surface[n])
  IN upTo[Len(surface)].notes

---------------------------------------------------------------------------
(* Summary                                                                 *)

DistinctEndpoints(es) ==
  LET surface == Surface(es)
  IN Distinct([k \in DOMAIN surface |-> <<es[surface[k]].method, es[surface[k]].url.path>>])

AuthMechanisms(es) ==
  CountBy([i \in ToSet(Surface(es)) |->
    (ToSet(HeaderValue(es[i].sent, "authorization")) \cap Schemes)
      \cup (IF HeaderValue(es[i].sent, "cookie") # None THEN {"cookie"} ELSE {})])

StatusCodeRollup(es) == CountBy([i \in ToSet(Surface(es)) |-> {es[i].status}])

NamesIn(e) ==
  {<<p[1], "query">> : p \in ToSet(ParseQs(e.url.query))}
    \cup {<<p[1], "body">> : p \in ToSet(JsonMembers(e))}

ParameterNames(es) == CountBy([i \in ToSet(Surface(es)) |-> NamesIn(es[i])])

---------------------------------------------------------------------------
(* Outliers                                                                *)

\* _compute_outliers: none among fewer than five, nor if the median is zero.
Outliers(surface, values, multiple) ==
  LET twice == TwiceMedian(values)
  IN IF Len(surface) < 5 THEN {}
     ELSE {surface[k] : k \in {k \in DOMAIN surface :
                                 twice > 0 /\ 2 * values[k] >= multiple * twice}}

TimingOutliers(es) ==
  Outliers(Surface(es), [k \in DOMAIN Surface(es) |-> es[Surface(es)[k]].time], TimingMultiple)
SizeOutliers(es) ==
  Outliers(Surface(es), [k \in DOMAIN Surface(es) |-> es[Surface(es)[k]].body.size], SizeMultiple)

---------------------------------------------------------------------------
(* What responses give away                                                *)

SecurityHeaderPosture(es) ==
  IF Surface(es) = <<>> THEN <<>> ELSE
  [name \in Trackers |->
     <<Cardinality({i \in ToSet(Surface(es)) : HeaderValue(es[i].got, name) # None}),
       Len(Surface(es))>>]

CorsMisconfigurations(es) ==
  Keep(Surface(es),
       {i \in ToSet(Surface(es)) :
          /\ HeaderValue(es[i].got, "access-control-allow-origin") = <<"*">>
          /\ HeaderValue(es[i].got, "access-control-allow-credentials") = <<"true">>})

\* Every Set-Cookie in order, as <<entry, cookie>>.  Of a cookie its name is known, and
\* which of the words secure, httponly and samesite its text contains.
SetCookies(es, indices) ==
  FlattenSeq([k \in DOMAIN indices |->
    LET cookies == Cookies(es[indices[k]].got)
    IN [c \in DOMAIN cookies |-> <<indices[k], cookies[c][2]>>]])

\* Only the first Set-Cookie of each name is audited.
CookieFlagIssues(es) ==
  LET set == SetCookies(es, Surface(es))
      first == Firsts(set, [k \in DOMAIN set |-> set[k][2].name])
  IN Keep(first, {c \in ToSet(first) : ~(Flags \subseteq c[2].words)})

\* The one signal that static assets may give.
StackHints(es) ==
  Distinct(FlattenSeq([i \in DOMAIN es |->
    LET server == HeaderValue(es[i].got, "server")
        powered == HeaderValue(es[i].got, "x-powered-by")
        cookies == SelectSeq(Cookies(es[i].got), LAMBDA c : c[2].name \in CookieHints)
    IN [k \in DOMAIN server |-> <<"server", server[k]>>]
         \o [k \in DOMAIN powered |-> <<"x-powered-by", powered[k]>>]
         \o [k \in DOMAIN cookies |-> <<"cookie", cookies[k][2].name>>]]))

\* The first signature in the table that the body contains.
DebugPageHints(es) ==
  LET matches(i) == Keep(Signatures, es[i].body.marks)
  IN [i \in {i \in ToSet(Surface(es)) : matches(i) # <<>>} |-> Head(matches(i))]

SecretFindings(es) ==
  [i \in {i \in ToSet(Surface(es)) : es[i].body.marks \cap SecretKinds # {}} |->
     es[i].body.marks \cap SecretKinds]

---------------------------------------------------------------------------
(* Properties, of every list of entries                                    *)

\* Where a value is sent a second time there is a note; and what a note says is
\* true: this entry repeats that value, the entry it names was the first to carry
\* it, and nothing in between did.
ReuseIsNotedTruly(es) ==
  LET notes == IdValueReuse(es)
      CarriersOf(pair) == Keep(Surface(es), {i \in ToSet(Surface(es)) : Carries(es, i, pair)})
      pairs == UNION {ToSet(IdShapedValues(es[i])) : i \in DOMAIN es}
  IN /\ \A pair \in pairs : Len(CarriersOf(pair)) > 1 => CarriersOf(pair)[2] \in DOMAIN notes
     /\ \A i \in DOMAIN notes :
          SubSeq(CarriersOf(notes[i].pair), 1, 2) = <<notes[i].firstSeen, i>>

---------------------------------------------------------------------------
(* What the documentation says and the code does not do                    *)

\* signals.py, compute_id_value_reuse: "Only the first later occurrence of a given
\* (name, value) pair is noted, on that occurrence's own entry - further repeats of
\* the same pair are folded into that note's further_occurrences count".  Two pairs
\* that are first repeated in one request share its note.
EveryReuseHasItsNote(es) ==
  LET notes == IdValueReuse(es)
      CarriersOf(pair) == Keep(Surface(es), {i \in ToSet(Surface(es)) : Carries(es, i, pair)})
  IN \A pair \in UNION {ToSet(IdShapedValues(es[i])) : i \in DOMAIN es} :
       LET carriers == CarriersOf(pair) IN
       Len(carriers) > 1 =>
         /\ carriers[2] \in DOMAIN notes
         /\ notes[carriers[2]] =
              [pair |-> pair, firstSeen |-> carriers[1], further |-> Len(carriers) - 2]
=============================================================================
