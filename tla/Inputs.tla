-------------------------------- MODULE Inputs --------------------------------
(***************************************************************************)
(* The inputs of what keeps no state: the analysis of a capture (Report),  *)
(* the choice of what to intercept (ClientHello) and the scope (Scope).    *)
(* An input grows by one element per step, so that what holds of every     *)
(* state holds of every input, of each of its beginnings too.              *)
(***************************************************************************)
EXTENDS Report, ClientHello

CONSTANTS
  Kinds,                          \* of captures: the entries they are made of, and how many
  HostLetters, MaxHost, Targets,  \* host names, and what they are matched with
  Hellos,                         \* what a client may mean to say
  Streams                         \* the bytes that it may send

\* Entries are as the handlers build them.
ASSUME KindsAssumption ==
  \A kind \in Kinds : kind.longest \in Nat /\ \A e \in kind.entries : IsEntry(e)

\* What is known of a body follows from its bytes.
ASSUME BodiesAssumption ==
  \A kind \in Kinds : \A a, b \in kind.entries : a.body.bytes = b.body.bytes => a.body = b.body

ASSUME HellosAssumption == RandomLen \in Nat /\ \A hello \in Hellos : IsHello(hello)

ASSUME StreamsAssumption == Streams \subseteq Seq(0 .. 255)

ASSUME HostsAssumption ==
  MaxHost \in Nat /\ HostLetters \subseteq STRING /\ Targets \subseteq Seq(STRING)

VARIABLES
  subject,  \* what the input is for
  given,    \* what is fixed beforehand: the kind of capture, the target, what is sent
  input     \* entries, letters, or the bytes that have arrived

vars == <<subject, given, input>>

Init ==
  /\ \/ subject = "capture" /\ given \in Kinds
     \/ subject = "scope" /\ given \in Targets
     \/ subject = "hello" /\ given \in Hellos
     \/ subject = "stream" /\ given \in Streams
  /\ input = <<>>

Grow(x) == input' = Append(input, x) /\ UNCHANGED <<subject, given>>

\* An entry is recorded when its answer is there: it may have begun before the one
\* recorded last.
RecordEntry ==
  /\ subject = "capture"
  /\ Len(input) < given.longest
  /\ \E e \in given.entries :
       Grow([e EXCEPT !.at = @ + IF input = <<>> THEN 0 ELSE Last(input).at])

AddLetter ==
  /\ subject = "scope"
  /\ Len(input) < MaxHost
  /\ \E letter \in HostLetters : Grow(letter)

ReceiveByte ==
  /\ subject = "stream"
  /\ Len(input) < Len(given)
  /\ Grow(given[Len(input) + 1])

Next == RecordEntry \/ AddLetter \/ ReceiveByte

Spec == Init /\ [][Next]_vars

---------------------------------------------------------------------------
(* What holds of every input                                               *)

\* What is read back from the buffer is what was recorded.
RecordedIsReadBack == subject = "capture" => RoundTrips(input)

\* Clusters cut a capture where its activities end.
ClustersCutActivities == subject = "capture" => ClustersAreActivities(input)

\* Chains are the maximal runs of redirects between navigations.
ChainsFollowRedirects == subject = "capture" => ChainsAreRedirects(input)

\* The document accounts for every request once.
DocumentAccountsForAll == subject = "capture" => EveryRequestIsToldOnce(input)

\* Collapsing loses no warning but those of later redirects and of bodies that are
\* equal as JSON only.
NoWarningIsCollapsed == subject = "capture" => WarningsSurviveCollapsing(input)

\* Notes on reused values are true, and every reuse has one where it first happens.
ReuseNotesAreTrue == subject = "capture" => ReuseIsNotedTruly(input)

\* signals.py, compute_id_value_reuse: each reused pair has a note of its own.
ReuseNotesAreKept == subject = "capture" => EveryReuseHasItsNote(input)

\* A target matches by labels, however it and the host are written.
TargetsMatchByLabels == subject = "scope" => ScopeIsByLabels(given, input)

\* The name that a client asks for is the name that is found.
HelloIsUnderstood == subject = "hello" => Understood(given)

\* The listener decides on what a client sends once, however it arrives.
HelloIsDecidedOnce ==
  LET scope == [targets |-> <<<<"a">>>>, regexes |-> <<<<"_">>>>]
      host == <<"host">>
  IN subject = "stream" =>
       \A all \in BOOLEAN :
         DecidedOnce(given, Len(input), LAMBDA data : Route(scope, all, host, data))
===============================================================================
