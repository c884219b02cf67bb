--------------------------------- MODULE Scope ---------------------------------
(***************************************************************************)
(* scope/matcher.py: which host names are in scope.  A name is a sequence  *)
(* of letters.  "ue" is the one letter that is not ASCII, "UE" its capital *)
(* and "u8" what punycode makes of it in a label that then begins with     *)
(* "xn"; "_" is a letter that IDNA refuses.                                *)
(***************************************************************************)
EXTENDS Integers, SequencesExt

GlobChars == {"*", "?"}

HasGlob(s) == ToSet(s) \cap GlobChars # {}

LowerLetter(c) == IF c = "A" THEN "a" ELSE IF c = "UE" THEN "ue" ELSE c

Lower(s) == [k \in DOMAIN s |-> LowerLetter(s[k])]

\* str.split("."), one letter more: a dot begins a label, any other letter goes to the last.
NextLetter(labels, c) ==
  IF c = "." THEN Append(labels, <<>>)
  ELSE [labels EXCEPT ![Len(labels)] = Append(@, c)]

Labels(s) ==
  LET upTo[n \in 0 .. Len(s)] == IF n = 0 THEN <<<<>>>> ELSE NextLetter(upTo[n - 1], s[n])
  IN upTo[Len(s)]

Join(labels) == Tail(FlattenSeq([k \in DOMAIN labels |-> <<".">> \o labels[k]]))

\* idna.encode of a label that it accepts.
Encoded(label) ==
  LET lower == Lower(label)
  IN IF "ue" \notin ToSet(lower) THEN lower
     ELSE <<"xn">> \o [k \in DOMAIN lower |-> IF lower[k] = "ue" THEN "u8" ELSE lower[k]]

\* A label that is a pattern, or that IDNA refuses, is only lowercased.
NormalizeLabel(label) ==
  IF HasGlob(label) \/ "_" \in ToSet(label) THEN Lower(label) ELSE Encoded(label)

StripDots(s) ==
  SubSeq(s, 1, CHOOSE n \in 0 .. Len(s) :
                 /\ n = 0 \/ s[n] # "."
                 /\ \A k \in n + 1 .. Len(s) : s[k] = ".")

NormalizeHostname(s) ==
  LET labels == Labels(StripDots(s))
  IN Join([k \in DOMAIN labels |-> NormalizeLabel(labels[k])])

\* fnmatch: upTo[n] is what the first n letters of the pattern may match up to.  A star
\* is any sequence of letters, dots included.
Glob(pattern, s) ==
  LET Past(ends, c) ==
        IF c = "*" THEN {l \in 0 .. Len(s) : \E k \in ends : k <= l}
        ELSE {l \in 1 .. Len(s) : l - 1 \in ends /\ c \in {"?", s[l]}}
      upTo[n \in 0 .. Len(pattern)] == IF n = 0 THEN {0} ELSE Past(upTo[n - 1], pattern[n])
  IN Len(s) \in upTo[Len(pattern)]

\* Mutant of InDomain: the dot before the target is forgotten.
InDomainOrAlike(host, target) == IsSuffix(target, host)

InDomain(host, target) == host = target \/ IsSuffix(<<".">> \o target, host)

\* What comes first of those at these places of a list.
FirstAt(list, places) == <<list[CHOOSE k \in places : \A l \in places : k <= l]>>

\* ScopeMatcher.match: what a host name is matched by, plain targets (normalized)
\* first, then patterns, then the regular expressions, which are literals here and
\* are matched at the start of the name.
MatchedBy(scope, host) ==
  LET name == NormalizeHostname(host)
      targets == [k \in DOMAIN scope.targets |-> NormalizeHostname(scope.targets[k])]
      plain == {k \in DOMAIN targets : ~HasGlob(targets[k]) /\ InDomain(name, targets[k])}
      globs == {k \in DOMAIN targets : HasGlob(targets[k]) /\ Glob(targets[k], name)}
      regexes == {k \in DOMAIN scope.regexes : IsPrefix(scope.regexes[k], name)}
  IN IF plain # {} THEN FirstAt(targets, plain)
     ELSE IF globs # {} THEN FirstAt(scope.targets, globs)
     ELSE IF regexes # {} THEN FirstAt(scope.regexes, regexes)
     ELSE <<>>

InScope(scope, host) == MatchedBy(scope, host) # <<>>

-------------------------------------------------------------------------------
(* Properties, of every target and host                                    *)

\* A target means itself and its subdomains, at label boundaries: the hosts that
\* the pattern "*." before it matches, and the target.  How host and target are
\* written, in capitals, with final dots, in Unicode or in punycode, is no matter.
\* (A target of no letters is left out: "*." is then "*" and matches everything.)
ScopeIsByLabels(target, host) ==
  LET Only(t) == [targets |-> <<t>>, regexes |-> <<>>]
      same(a, b) == NormalizeHostname(a) = NormalizeHostname(b)
      spellings(s) == {s, s \o <<".">>, NormalizeHostname(s),
                       [k \in DOMAIN s |-> IF s[k] = "a" THEN "A" ELSE s[k]]}
  IN /\ (~HasGlob(target) /\ NormalizeHostname(target) # <<>>) =>
          (InScope(Only(target), host)
             <=> same(host, target) \/ InScope(Only(<<"*", ".">> \o target), host))
     /\ \A t \in spellings(target), h \in spellings(host) :
          InScope(Only(t), h) <=> InScope(Only(target), host)
================================================================================
