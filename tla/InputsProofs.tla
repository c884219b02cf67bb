------------------------------ MODULE InputsProofs ------------------------------
(***************************************************************************)
(* Proofs about what keeps no state: of every capture whose entries are as *)
(* the handlers build them, of everything a client may mean to say, and of *)
(* every stream of bytes, whatever their lengths.                          *)
(***************************************************************************)
EXTENDS Inputs, Recursion, FiniteSetTheorems

---------------------------------------------------------------------------
(* What the inputs are                                                     *)

\* Entries of one kind, recorded at any time.
Recorded(kind) == {[e EXCEPT !.at = t] : e \in kind.entries, t \in Int}

\* Inputs are sequences of entries or of letters, or the beginning of what is sent.
InputsOK ==
  /\ subject = "capture" => given \in Kinds /\ input \in Seq(Recorded(given))
  /\ subject = "scope" => given \in Targets /\ input \in Seq(STRING)
  /\ subject = "hello" => given \in Hellos
  /\ subject = "stream" => given \in Streams /\ Len(input) \in 0 .. Len(given)

LEMMA RecordedIsEntry ==
  ASSUME NEW kind \in Kinds, NEW r \in Recorded(kind)
  PROVE  IsEntry(r) /\ r.at \in Int /\ \A t \in Int : [r EXCEPT !.at = t] \in Recorded(kind)
<1>1. PICK e \in kind.entries, t \in Int : r = [e EXCEPT !.at = t]
  BY DEF Recorded
<1>2. IsEntry(e)
  BY KindsAssumption
<1>3. e = [at |-> e.at, time |-> e.time, method |-> e.method, url |-> e.url, sent |-> e.sent,
           reqBody |-> e.reqBody, status |-> e.status, got |-> e.got, body |-> e.body]
      /\ IsBody(e.reqBody) /\ (e.reqBody.size = 0 => e.reqBody = NoBody) /\ IsBody(e.body)
      /\ e.url.query \in Seq(Pairs)
  BY <1>2 DEF IsEntry
<1>4. r = [at |-> t, time |-> e.time, method |-> e.method, url |-> e.url, sent |-> e.sent,
           reqBody |-> e.reqBody, status |-> e.status, got |-> e.got, body |-> e.body]
  BY <1>1, <1>3
<1>5. IsEntry(r) /\ r.at = t
  <2>1. r.at = t /\ r.time = e.time /\ r.method = e.method /\ r.url = e.url /\ r.sent = e.sent
        /\ r.reqBody = e.reqBody /\ r.status = e.status /\ r.got = e.got /\ r.body = e.body
    BY <1>4
  <2> QED BY <1>1, <1>3, <1>4, <2>1 DEF IsEntry
<1>6. ASSUME NEW u \in Int PROVE [r EXCEPT !.at = u] \in Recorded(kind)
  <2>1. [r EXCEPT !.at = u] = [e EXCEPT !.at = u]
    BY <1>3, <1>4
  <2> QED BY <2>1 DEF Recorded
<1> QED BY <1>5, <1>6

LEMMA InputsInductive == Spec => []InputsOK
<1>1. Init => InputsOK
  <2> SUFFICES ASSUME Init PROVE InputsOK
    OBVIOUS
  <2>1. \A S : <<>> \in Seq(S) /\ Len(<<>>) = 0
    BY EmptySeq
  <2>2. \A s \in Streams : Len(s) \in Nat
    BY StreamsAssumption, LenProperties
  <2> QED BY <2>1, <2>2 DEF Init, InputsOK
<1>2. InputsOK /\ [Next]_vars => InputsOK'
  <2> SUFFICES ASSUME InputsOK, [Next]_vars PROVE InputsOK'
    OBVIOUS
  <2>1. CASE RecordEntry
    <3>1. subject = "capture" /\ given \in Kinds /\ input \in Seq(Recorded(given))
      BY <2>1 DEF RecordEntry, InputsOK
    <3>2. PICK e \in given.entries :
            Grow([e EXCEPT !.at = @ + IF input = <<>> THEN 0 ELSE Last(input).at])
      BY <2>1 DEF RecordEntry
    <3> DEFINE gap == IF input = <<>> THEN 0 ELSE Last(input).at
    <3>3. gap \in Int
      <4>1. CASE input # <<>>
        <5>1. Len(input) \in 1 .. Len(input)
          BY <4>1, <3>1, EmptySeq
        <5>2. Last(input) \in Recorded(given)
          BY <5>1, <3>1, ElementOfSeq DEF Last
        <5> QED BY <5>2, <3>1, RecordedIsEntry
      <4> QED BY <4>1
    <3>4. e.at \in Int
      BY <3>1, KindsAssumption DEF IsEntry
    <3> HIDE DEF gap
    <3>5. [e EXCEPT !.at = @ + gap] \in Recorded(given)
      BY <3>3, <3>4 DEF Recorded
    <3>6. input' = Append(input, [e EXCEPT !.at = @ + gap]) /\ UNCHANGED <<subject, given>>
      BY <3>2 DEF Grow, gap
    <3>7. input' \in Seq(Recorded(given))
      BY <3>1, <3>5, <3>6, AppendProperties
    <3> QED BY <3>1, <3>6, <3>7 DEF InputsOK
  <2>2. CASE AddLetter
    <3>1. PICK letter \in HostLetters : input' = Append(input, letter) /\ UNCHANGED <<subject, given>>
      BY <2>2 DEF AddLetter, Grow
    <3>2. subject = "scope" /\ given \in Targets /\ input \in Seq(STRING) /\ letter \in STRING
      BY <2>2, HostsAssumption DEF AddLetter, InputsOK
    <3>3. input' \in Seq(STRING)
      BY <3>1, <3>2, AppendProperties
    <3> QED BY <3>1, <3>2, <3>3 DEF InputsOK
  <2>3. CASE ReceiveByte
    <3>1. /\ subject = "stream" /\ given \in Streams /\ Len(input) \in 0 .. Len(given)
          /\ UNCHANGED <<subject, given>> /\ Len(input) < Len(given)
          /\ input' = Append(input, given[Len(input) + 1])
      BY <2>3 DEF ReceiveByte, Grow, InputsOK
    <3> QED BY <3>1 DEF InputsOK
  <2>4. CASE UNCHANGED vars
    BY <2>4 DEF vars, InputsOK
  <2> QED BY <2>1, <2>2, <2>3, <2>4 DEF Next
<1> QED BY <1>1, <1>2, PTL DEF Spec

---------------------------------------------------------------------------
(* Entries to JSON and back                                                *)

LEMMA BodiesReadBack ==
  ASSUME NEW b, IsBody(b)
  PROVE  DecodeBody(<<EncodeBody(b)>>) = b
<1>1. b = [bytes |-> b.bytes, utf8 |-> b.utf8, size |-> b.size, json |-> b.json, marks |-> b.marks]
      /\ b.bytes \in Seq(STRING) /\ b.utf8 \in BOOLEAN
  BY DEF IsBody
<1>2. Tail(<<"base64">> \o b.bytes) = b.bytes
  BY <1>1
<1>3. <<EncodeBody(b)>> # None /\ Head(<<EncodeBody(b)>>) = EncodeBody(b) /\ None # <<"base64">>
  BY DEF None
<1>4. CASE b.utf8
  <2> DEFINE d == EncodeBody(b)
  <2>1. d.encoding = <<>> /\ d.body = b /\ d.text = b.bytes
    BY <1>4 DEF EncodeBody, None
  <2>2. <<d>> # None /\ Head(<<d>>) = d
    BY <1>3
  <2> HIDE DEF d
  <2>3. <<>> # <<"base64">>
    OBVIOUS
  <2>4. DecodeBody(<<d>>) = [b EXCEPT !.bytes = b.bytes]
    BY <2>1, <2>2, <2>3 DEF DecodeBody
  <2>5. [b EXCEPT !.bytes = b.bytes] = b
    BY <1>1
  <2> QED BY <2>4, <2>5 DEF d
<1>5. CASE ~b.utf8
  <2> DEFINE d == [text |-> Base64(b.bytes), encoding |-> <<"base64">>, body |-> b]
  <2>1. EncodeBody(b) = d
    BY <1>5 DEF EncodeBody
  <2>2. Tail(d.text) = b.bytes /\ d.encoding = <<"base64">> /\ d.body = b
    BY <1>2 DEF Base64
  <2> HIDE DEF d
  <2>3. DecodeBody(<<d>>) = [b EXCEPT !.bytes = b.bytes]
    <3>1. <<d>> # None /\ Head(<<d>>) = d
      BY DEF None
    <3> QED BY <2>2, <3>1 DEF DecodeBody
  <2>4. [b EXCEPT !.bytes = b.bytes] = b
    BY <1>1
  <2> QED BY <2>1, <2>3, <2>4
<1> QED BY <1>1, <1>4, <1>5

\* Whatever an entry that a handler builds holds, its line in the buffer is read back as
\* that entry.
THEOREM EntryReadsBack == \A e : IsEntry(e) => ParseHar(ToHar(e)) = e
<1> SUFFICES ASSUME NEW e, IsEntry(e) PROVE ParseHar(ToHar(e)) = e
  OBVIOUS
<1>1. e = [at |-> e.at, time |-> e.time, method |-> e.method, url |-> e.url, sent |-> e.sent,
           reqBody |-> e.reqBody, status |-> e.status, got |-> e.got, body |-> e.body]
      /\ IsBody(e.reqBody) /\ (e.reqBody.size = 0 => e.reqBody = NoBody) /\ IsBody(e.body)
  BY DEF IsEntry
<1>2. DecodeBody(IF e.reqBody.size > 0 THEN <<EncodeBody(e.reqBody)>> ELSE None) = e.reqBody
  <2>1. e.reqBody.size \in Nat
    BY <1>1 DEF IsBody
  <2>2. DecodeBody(None) = NoBody
    BY DEF DecodeBody
  <2> QED BY <1>1, <2>1, <2>2, BodiesReadBack
<1>3. DecodeBody(<<EncodeBody(e.body)>>) = e.body
  BY <1>1, BodiesReadBack
<1>4. ParseHar(ToHar(e)) =
        [at |-> e.at, time |-> e.time, method |-> e.method, url |-> e.url, sent |-> e.sent,
         reqBody |-> DecodeBody(IF e.reqBody.size > 0 THEN <<EncodeBody(e.reqBody)>> ELSE None),
         status |-> e.status, got |-> e.got, body |-> DecodeBody(<<EncodeBody(e.body)>>)]
  BY DEF ParseHar, ToHar
<1> QED BY <1>1, <1>2, <1>3, <1>4

\* Captures of any length are read back as they were recorded: a body of any kind
\* reaches raw.har and the analysis unchanged.
THEOREM CapturesReadBack == Spec => []RecordedIsReadBack
<1>1. InputsOK => RecordedIsReadBack
  <2> SUFFICES ASSUME InputsOK, subject = "capture", NEW i \in DOMAIN input
               PROVE  ParseHar(ToHar(input[i])) = input[i]
    BY DEF RecordedIsReadBack, RoundTrips
  <2>1. given \in Kinds /\ input \in Seq(Recorded(given))
    BY DEF InputsOK
  <2>2. input[i] \in Recorded(given)
    BY <2>1, LenProperties, ElementOfSeq
  <2> QED BY <2>1, <2>2, RecordedIsEntry, EntryReadsBack
<1> QED BY <1>1, InputsInductive, PTL

---------------------------------------------------------------------------
(* What the parser finds                                                   *)

Byte == 0 .. 255

LEMMA NumberRange ==
  ASSUME NEW s \in Seq(Byte), NEW pos \in Nat, NEW width \in {1, 2, 3}, pos + width <= Len(s)
  PROVE  Number(s, pos, width) \in Nat
<1>1. \A k \in 1 .. Len(s) : s[k] \in Byte
  BY ElementOfSeq
<1>2. Len(s) \in Nat
  BY LenProperties
<1>6. Byte \subseteq Nat
  BY DEF Byte
<1>3. CASE width = 1
  <2>1. pos + 1 \in 1 .. Len(s)
    BY <1>2, <1>3
  <2>2. Number(s, pos, width) = s[pos + 1]
    BY <1>3 DEF Number
  <2>3. s[pos + 1] \in Byte
    BY <2>1, <1>1
  <2> QED BY <1>6, <2>2, <2>3
<1>4. CASE width = 2
  <2>1. pos + 1 \in 1 .. Len(s) /\ pos + 2 \in 1 .. Len(s)
    BY <1>2, <1>4
  <2>2. Number(s, pos, width) = 256 * s[pos + 1] + s[pos + 2]
    BY <1>4 DEF Number
  <2>3. s[pos + 1] \in Byte /\ s[pos + 2] \in Byte
    BY <2>1, <1>1
  <2> DEFINE a == s[pos + 1]
             b == s[pos + 2]
  <2>4. a \in Byte /\ b \in Byte /\ Number(s, pos, width) = 256 * a + b
    BY <2>2, <2>3
  <2> HIDE DEF a, b
  <2>5. 256 * a + b \in Nat
    BY <2>4 DEF Byte
  <2> QED BY <2>4, <2>5
<1>5. CASE width = 3
  <2>1. pos + 1 \in 1 .. Len(s) /\ pos + 2 \in 1 .. Len(s) /\ pos + 3 \in 1 .. Len(s)
    BY <1>2, <1>5
  <2>2. Number(s, pos, width) = 65536 * s[pos + 1] + 256 * s[pos + 2] + s[pos + 3]
    BY <1>5 DEF Number
  <2>3. s[pos + 1] \in Byte /\ s[pos + 2] \in Byte /\ s[pos + 3] \in Byte
    BY <2>1, <1>1
  <2> DEFINE a == s[pos + 1]
             b == s[pos + 2]
             c == s[pos + 3]
  <2>4. a \in Byte /\ b \in Byte /\ c \in Byte /\ Number(s, pos, width) = 65536 * a + 256 * b + c
    BY <2>2, <2>3
  <2> HIDE DEF a, b, c
  <2>5. 65536 * a + 256 * b + c \in Nat
    BY <2>4 DEF Byte
  <2> QED BY <2>4, <2>5
<1> QED BY <1>3, <1>4, <1>5

LEMMA AfterRange ==
  ASSUME NEW s \in Seq(Byte), NEW pos \in Nat \cup {Bad}, NEW width \in {1, 2, 3},
         NEW end \in 0 .. Len(s)
  PROVE  After(s, pos, width, end) # Bad =>
           pos # Bad /\ After(s, pos, width, end) \in pos + width .. end
<1> SUFFICES ASSUME After(s, pos, width, end) # Bad
             PROVE  pos # Bad /\ After(s, pos, width, end) \in pos + width .. end
  OBVIOUS
<1>1. Len(s) \in Nat /\ end \in Nat /\ width \in Nat
  BY LenProperties
<1>2. pos # Bad /\ ~(pos + width > end)
  BY DEF After
<1>3. pos \in Nat /\ pos + width <= Len(s)
  BY <1>1, <1>2
<1>4. Number(s, pos, width) \in Nat
  BY <1>3, NumberRange
<1> DEFINE next == pos + width + Number(s, pos, width)
<1>5. After(s, pos, width, end) = next /\ next <= end
  BY <1>2 DEF After
<1> QED BY <1>1, <1>2, <1>3, <1>4, <1>5

\* What a loop over items finds.
Findings == {Item(bytes) : bytes \in Seq(Byte)} \cup {NoSni, Malformed}

\* f[pos] is what is found from pos on.
Finds(f, s, start, width, end) ==
  /\ f \in [start .. end -> Findings]
  /\ \A pos \in start .. end :
       LET next == After(s, pos + width, 2, end) IN
       f[pos] = IF pos = end THEN NoSni
                ELSE IF next = Bad THEN Malformed
                ELSE IF Number(s, pos, width) = 0 THEN Item(SubSeq(s, pos + width + 3, next))
                ELSE f[next]

LEMMA LoopFinds ==
  ASSUME NEW s \in Seq(Byte), NEW start \in Nat, NEW width \in {1, 2}, NEW end \in start .. Len(s)
  PROVE  \E f : Finds(f, s, start, width, end) /\ FirstOfType0(s, start, width, end) = f[start]
<1> DEFINE Onward(pos) == After(s, pos + width, 2, end)
           ItemAt(pos) == Item(SubSeq(s, pos + width + 3, Onward(pos)))
           E(f, pos) == IF pos = end THEN NoSni
                        ELSE IF Onward(pos) = Bad THEN Malformed
                        ELSE IF Number(s, pos, width) = 0 THEN ItemAt(pos)
                        ELSE f[Onward(pos)]
           Solves(f) == f = [pos \in start .. end |-> E(f, pos)]
<1>1. end \in Nat /\ Len(s) \in Nat /\ end \in 0 .. Len(s) /\ width \in Nat \ {0} /\ start <= end
  BY LenProperties
<1>2. ASSUME NEW pos \in start .. end, Onward(pos) # Bad
      PROVE  Onward(pos) \in pos + 1 .. end /\ ItemAt(pos) \in Findings
  <2>1. pos + width \in Nat
    BY <1>1
  <2>2. Onward(pos) \in pos + width + 2 .. end
    BY <1>1, <1>2, <2>1, AfterRange
  <2>3. \A k \in pos + width + 3 .. Onward(pos) : s[k] \in Byte
    <3>1. \A k \in 1 .. Len(s) : s[k] \in Byte
      BY ElementOfSeq
    <3> HIDE DEF Onward
    <3> QED BY <1>1, <2>2, <3>1
  <2>4. SubSeq(s, pos + width + 3, Onward(pos)) \in Seq(Byte)
    <3> HIDE DEF Onward
    <3>1. pos + width + 3 \in Int /\ Onward(pos) \in Int
      BY <1>1, <2>2
    <3> QED BY <2>3, <3>1, SubSeqProperties
  <2>5. ItemAt(pos) \in Findings
    BY <2>4 DEF Findings
  <2> HIDE DEF Onward
  <2> QED BY <1>1, <2>2, <2>5
<1>3. FirstOfType0(s, start, width, end) = (CHOOSE f : Solves(f))[start]
  BY DEF FirstOfType0
<1>4. NoSni \in Findings /\ Malformed \in Findings
  BY DEF Findings
<1> HIDE DEF Onward, ItemAt
<1>5. \E f \in [start .. end -> Findings] : \A pos \in start .. end : f[pos] = E(f, pos)
  <2> DEFINE stop == [pos \in start .. end |->
                        pos = end \/ Onward(pos) = Bad \/ Number(s, pos, width) = 0]
             value == [pos \in start .. end |->
                         IF pos = end THEN NoSni ELSE IF Onward(pos) = Bad THEN Malformed ELSE ItemAt(pos)]
             next == [pos \in start .. end |-> Onward(pos)]
  <2>1. /\ \A pos \in start .. end : stop[pos] \in BOOLEAN
        /\ \A pos \in start .. end : stop[pos] => value[pos] \in Findings
        /\ \A pos \in start .. end : ~stop[pos] => next[pos] \in pos + 1 .. end
    BY <1>2, <1>4
  <2>2. \A pos \in start .. end :
          /\ stop[pos] <=> (pos = end \/ Onward(pos) = Bad \/ Number(s, pos, width) = 0)
          /\ value[pos] = (IF pos = end THEN NoSni ELSE IF Onward(pos) = Bad THEN Malformed ELSE ItemAt(pos))
          /\ next[pos] = Onward(pos)
    OBVIOUS
  <2> HIDE DEF stop, value, next
  <2>3. PICK f : IsSearch(f, Findings, start, end, stop, value, next)
    BY <1>1, <2>1, SearchExists
  <2>4. f \in [start .. end -> Findings]
        /\ \A pos \in start .. end : f[pos] = IF stop[pos] THEN value[pos] ELSE f[next[pos]]
    BY <2>3 DEF IsSearch
  <2>5. \A pos \in start .. end : f[pos] = E(f, pos)
    BY <2>2, <2>4
  <2> QED BY <2>4, <2>5
<1> HIDE DEF E
<1>6. \E f : Solves(f)
  <2>1. PICK f \in [start .. end -> Findings] : \A pos \in start .. end : f[pos] = E(f, pos)
    BY <1>5
  <2>2. f = [pos \in start .. end |-> f[pos]]
    OBVIOUS
  <2> QED BY <2>1, <2>2
<1>7. ASSUME NEW g, Solves(g) PROVE \A pos \in start .. end : g[pos] = E(g, pos)
  <2> QED BY <1>7
<1> DEFINE g == CHOOSE f : Solves(f)
<1>8. Solves(g)
  <2> HIDE DEF Solves
  <2> QED BY <1>6
<1>9. FirstOfType0(s, start, width, end) = g[start]
  BY <1>3
<1> HIDE DEF g
<1>10. DOMAIN g = start .. end /\ \A pos \in start .. end : g[pos] = E(g, pos)
  BY <1>7, <1>8
<1>11. start .. end \subseteq {pos \in start .. end : g[pos] \in Findings}
  <2> DEFINE S == {pos \in start .. end : g[pos] \in Findings}
  <2>1. ASSUME NEW pos \in start .. end, \A l \in pos + 1 .. end : l \in S PROVE pos \in S
    <3>1. g[pos] = E(g, pos)
      BY <1>10
    <3> QED BY <1>2, <1>4, <2>1, <3>1 DEF E
  <2> HIDE DEF S
  <2>2. start .. end \subseteq S
    BY <1>1, <2>1, DownFrom
  <2> QED BY <2>2 DEF S
<1>12. g \in [start .. end -> Findings]
  <2>1. g = [pos \in start .. end |-> g[pos]]
    BY <1>8, <1>10
  <2> QED BY <1>11, <2>1
<1>13. Finds(g, s, start, width, end)
  BY <1>10, <1>12 DEF Finds, E, Onward, ItemAt
<1> QED BY <1>9, <1>13

---------------------------------------------------------------------------
(* A stream is decided upon once                                           *)

LEMMA Slice ==
  ASSUME NEW s \in Seq(Byte), NEW m \in Nat \ {0}, NEW n \in 0 .. Len(s)
  PROVE  /\ SubSeq(s, m, n) \in Seq(Byte)
         /\ Len(SubSeq(s, m, n)) = IF m <= n THEN n - m + 1 ELSE 0
         /\ \A i \in 1 .. n - m + 1 : SubSeq(s, m, n)[i] = s[m + i - 1]
<1>1. Len(s) \in Nat /\ \A k \in 1 .. Len(s) : s[k] \in Byte
  BY LenProperties, ElementOfSeq
<1>2. \A k \in m .. n : s[k] \in Byte
  BY <1>1
<1>3. m \in Int /\ n \in Int
  BY <1>1
<1> QED BY <1>2, <1>3, SubSeqProperties

LEMMA NameOutcome ==
  ASSUME NEW item \in Findings
  PROVE  HostNameIn(item).outcome \in {"malformed", "no_sni", "found"}
<1>1. CASE item.outcome = "item"
  BY <1>1 DEF HostNameIn, HostName, Malformed, Result
<1>2. CASE item.outcome # "item"
  <2>1. item \in {NoSni, Malformed}
    BY <1>2 DEF Findings, Item, Result
  <2> QED BY <1>2, <2>1 DEF HostNameIn, NoSni, Malformed, Result
<1> QED BY <1>1, <1>2

LEMMA ServerNameOutcome ==
  ASSUME NEW item \in Findings
  PROVE  ServerNameIn(item).outcome \in {"malformed", "no_sni", "found"}
<1>1. CASE item.outcome = "item"
  <2>1. item.sni \in Seq(Byte)
    BY <1>1 DEF Findings, Item, NoSni, Malformed, Result
  <2> DEFINE ext == item.sni
             end == After(ext, 0, 2, Len(ext))
  <2>2. CASE end = Bad
    BY <1>1, <2>2 DEF ServerNameIn, ServerNameExtension, Malformed, Result
  <2>3. CASE end # Bad
    <3>1. Len(ext) \in Nat /\ ext \in Seq(Byte)
      BY <2>1, LenProperties
    <3>2. end \in 0 + 2 .. Len(ext)
      BY <2>3, <3>1, AfterRange
    <3>3. FirstOfType0(ext, 2, 1, end) \in Findings
      <4> HIDE DEF end, ext
      <4>1. end \in 2 .. Len(ext)
        BY <3>2
      <4>2. PICK f : Finds(f, ext, 2, 1, end) /\ FirstOfType0(ext, 2, 1, end) = f[2]
        BY <3>1, <4>1, LoopFinds
      <4>3. f \in [2 .. end -> Findings] /\ 2 \in 2 .. end
        BY <3>1, <4>1, <4>2 DEF Finds
      <4> QED BY <4>2, <4>3
    <3>4. ServerNameIn(item) = HostNameIn(FirstOfType0(ext, 2, 1, end))
      BY <1>1, <2>3 DEF ServerNameIn, ServerNameExtension
    <3> QED BY <3>3, <3>4, NameOutcome
  <2> QED BY <2>2, <2>3
<1>2. CASE item.outcome # "item"
  <2>1. item \in {NoSni, Malformed}
    BY <1>2 DEF Findings, Item, Result
  <2> QED BY <1>2, <2>1 DEF ServerNameIn, NoSni, Malformed, Result
<1> QED BY <1>1, <1>2

LEMMA BodyOutcome ==
  ASSUME NEW body \in Seq(Byte)
  PROVE  HandshakeBody(body).outcome \in {"malformed", "no_sni", "found"}
<1> DEFINE end == After(body, 1, 3, Len(body))
           hello == SubSeq(body, 5, end)
<1>1. CASE end = Bad \/ body[1] # 1
  BY <1>1 DEF HandshakeBody, Malformed, Result
<1>2. CASE ~(end = Bad \/ body[1] # 1)
  <2>1. HandshakeBody(body) = Hello(hello)
    BY <1>2 DEF HandshakeBody
  <2>2. Len(body) \in Nat
    BY LenProperties
  <2>3. end \in 0 .. Len(body)
    <3>1. end \in 1 + 3 .. Len(body)
      BY <1>2, <2>2, AfterRange
    <3> HIDE DEF end
    <3> QED BY <2>2, <3>1
  <2>4. hello \in Seq(Byte)
    <3> HIDE DEF end
    <3> QED BY <2>3, Slice
  <2> HIDE DEF hello
  <2> DEFINE session == After(hello, 2 + RandomLen, 1, Len(hello))
             ciphers == After(hello, session, 2, Len(hello))
             methods == After(hello, ciphers, 1, Len(hello))
             extensions == After(hello, methods, 2, Len(hello))
  <2>5. CASE methods = Bad
    BY <2>1, <2>5 DEF Hello, Malformed, Result
  <2>6. CASE methods # Bad /\ methods = Len(hello)
    BY <2>1, <2>6 DEF Hello, NoSni, Result
  <2>7. CASE methods # Bad /\ methods # Len(hello) /\ extensions = Bad
    BY <2>1, <2>7 DEF Hello, Malformed, Result
  <2>8. CASE methods # Bad /\ methods # Len(hello) /\ extensions # Bad
    <3>1. Len(hello) \in 0 .. Len(hello) /\ Len(hello) \in Nat /\ 2 + RandomLen \in Nat
      BY <2>4, LenProperties, HellosAssumption
    <3>2. session \in Nat \cup {Bad}
      <4>1. session # Bad => session \in 2 + RandomLen + 1 .. Len(hello)
        BY <2>4, <3>1, AfterRange
      <4> HIDE DEF session
      <4> QED BY <3>1, <4>1
    <3>3. ciphers \in Nat \cup {Bad}
      <4> HIDE DEF session
      <4>1. ciphers # Bad => session # Bad /\ ciphers \in session + 2 .. Len(hello)
        BY <2>4, <3>1, <3>2, AfterRange
      <4> HIDE DEF ciphers
      <4> QED BY <3>1, <3>2, <4>1
    <3>4. methods \in Nat
      <4> HIDE DEF ciphers
      <4>1. ciphers # Bad /\ methods \in ciphers + 1 .. Len(hello)
        BY <2>4, <2>8, <3>1, <3>3, AfterRange
      <4> HIDE DEF methods
      <4> QED BY <3>1, <3>3, <4>1
    <3>5. extensions \in methods + 2 .. Len(hello)
      <4> HIDE DEF methods
      <4> QED BY <2>4, <2>8, <3>1, <3>4, AfterRange
    <3>6. Hello(hello) = ServerNameIn(FirstOfType0(hello, methods + 2, 2, extensions))
      BY <2>8 DEF Hello
    <3> HIDE DEF methods, extensions
    <3>7. PICK f : Finds(f, hello, methods + 2, 2, extensions)
                   /\ FirstOfType0(hello, methods + 2, 2, extensions) = f[methods + 2]
      <4>1. methods + 2 \in Nat
        BY <3>4
      <4> QED BY <2>4, <3>5, <4>1, LoopFinds
    <3>8. f[methods + 2] \in Findings
      <4>1. methods + 2 \in methods + 2 .. extensions
        BY <3>4, <3>5, <3>1
      <4> QED BY <3>7, <4>1 DEF Finds
    <3> QED BY <2>1, <3>6, <3>7, <3>8, ServerNameOutcome
  <2> QED BY <2>1, <2>5, <2>6, <2>7, <2>8
<1> QED BY <1>1, <1>2

LEMMA Cuts ==
  ASSUME NEW stream \in Seq(Byte), NEW n \in 0 .. Len(stream)
  PROVE  /\ SubSeq(stream, 1, n) \in Seq(Byte)
         /\ Len(SubSeq(stream, 1, n)) = n
         /\ \A i \in 1 .. n : SubSeq(stream, 1, n)[i] = stream[i]
<1>1. Len(stream) \in Nat
  BY LenProperties
<1> DEFINE cut == SubSeq(stream, 1, n)
<1>2. cut \in Seq(Byte) /\ Len(cut) = (IF 1 <= n THEN n - 1 + 1 ELSE 0)
      /\ \A i \in 1 .. n - 1 + 1 : cut[i] = stream[1 + i - 1]
  BY Slice
<1> HIDE DEF cut
<1>3. cut \in Seq(Byte) /\ Len(cut) = n /\ \A i \in 1 .. n : cut[i] = stream[i]
  BY <1>1, <1>2
<1> QED BY <1>3 DEF cut

\* What the parser says of the first k bytes of a stream, by where its record ends.
LEMMA ParseOfCut ==
  ASSUME NEW stream \in Seq(Byte), NEW k \in 0 .. Len(stream)
  PROVE  LET result == ParseClientHello(SubSeq(stream, 1, k))
             whole == 5 + Number(stream, 3, 2)
         IN /\ k < 5 => result = Incomplete(5)
            /\ k >= 5 =>
                 /\ whole \in Nat
                 /\ stream[1] # 22 => result = Malformed
                 /\ stream[1] = 22 /\ k < whole => result = Incomplete(whole)
                 /\ stream[1] = 22 /\ k >= whole => result = HandshakeBody(SubSeq(stream, 6, whole))
<1> DEFINE cut == SubSeq(stream, 1, k)
           whole == 5 + Number(stream, 3, 2)
<1>1. Len(stream) \in Nat
  BY LenProperties
<1>2. cut \in Seq(Byte) /\ Len(cut) = k /\ \A i \in 1 .. k : cut[i] = stream[i]
  BY Cuts
<1> HIDE DEF cut
<1>3. k < 5 => ParseClientHello(cut) = Incomplete(5)
  BY <1>2 DEF ParseClientHello
<1>4. ASSUME k >= 5
      PROVE  /\ whole \in Nat
             /\ stream[1] # 22 => ParseClientHello(cut) = Malformed
             /\ stream[1] = 22 /\ k < whole => ParseClientHello(cut) = Incomplete(whole)
             /\ stream[1] = 22 /\ k >= whole =>
                  ParseClientHello(cut) = HandshakeBody(SubSeq(stream, 6, whole))
  <2>1. 5 <= Len(stream) /\ ~(Len(cut) < 5) /\ 1 \in 1 .. k /\ 4 \in 1 .. k /\ 5 \in 1 .. k
    BY <1>1, <1>2, <1>4
  <2>2. Number(stream, 3, 2) \in Nat
    BY <2>1, NumberRange
  <2>3. Number(cut, 3, 2) = Number(stream, 3, 2)
    <3>1. \A s : Number(s, 3, 2) = 256 * s[3 + 1] + s[3 + 2]
      BY DEF Number
    <3>2. cut[3 + 1] = stream[3 + 1] /\ cut[3 + 2] = stream[3 + 2]
      BY <1>2, <2>1
    <3> QED BY <3>1, <3>2
  <2>4. cut[1] = stream[1]
    BY <1>2, <2>1
  <2>5. ASSUME k >= whole PROVE SubSeq(cut, 6, whole) = SubSeq(stream, 6, whole)
    <3>1. whole \in 0 .. Len(cut) /\ whole \in 0 .. Len(stream)
      BY <1>1, <1>2, <2>2, <2>5
    <3> HIDE DEF whole
    <3> DEFINE a == SubSeq(cut, 6, whole)
               b == SubSeq(stream, 6, whole)
    <3>2. /\ a \in Seq(Byte) /\ b \in Seq(Byte)
          /\ Len(a) = (IF 6 <= whole THEN whole - 6 + 1 ELSE 0)
          /\ Len(b) = (IF 6 <= whole THEN whole - 6 + 1 ELSE 0)
          /\ \A i \in 1 .. whole - 6 + 1 : a[i] = cut[6 + i - 1]
          /\ \A i \in 1 .. whole - 6 + 1 : b[i] = stream[6 + i - 1]
      BY <1>2, <3>1, Slice
    <3>3. \A i \in 1 .. whole - 6 + 1 : 6 + i - 1 \in 1 .. k
      BY <1>2, <3>1
    <3> HIDE DEF a, b
    <3>6. Len(a) = Len(b) /\ 1 .. Len(a) \subseteq 1 .. whole - 6 + 1
      BY <3>1, <3>2
    <3>4. \A i \in 1 .. Len(a) : a[i] = b[i]
      BY <3>2, <3>3, <3>6, <1>2
    <3>5. a = b
      BY <3>2, <3>4, <3>6, SeqEqual
    <3> QED BY <3>5 DEF a, b
  <2>6. ParseClientHello(cut) =
          IF cut[1] # 22 THEN Malformed
          ELSE IF k < whole THEN Incomplete(whole)
          ELSE HandshakeBody(SubSeq(cut, 6, whole))
    BY <1>2, <2>1, <2>3 DEF ParseClientHello
  <2>7. whole \in Nat
    BY <2>2
  <2> HIDE DEF whole
  <2>8. k >= whole <=> ~(k < whole)
    BY <1>1, <2>7
  <2> QED BY <2>4, <2>5, <2>6, <2>7, <2>8
<1> QED BY <1>3, <1>4 DEF cut

LEMMA RouteWaits ==
  ASSUME NEW scope, NEW all \in BOOLEAN, NEW host, NEW data,
         ParseClientHello(data).outcome \in {"incomplete", "malformed", "no_sni", "found"}
  PROVE  Route(scope, all, host, data) = <<"wait">> <=> ParseClientHello(data).outcome = "incomplete"
<1>1. CASE ParseClientHello(data).outcome = "incomplete"
  BY <1>1 DEF Route
<1>2. CASE ParseClientHello(data).outcome = "malformed"
  <2>1. Route(scope, all, host, data) = <<"drop">>
    BY <1>2 DEF Route
  <2> QED BY <1>2, <2>1
<1>3. CASE ParseClientHello(data).outcome \notin {"incomplete", "malformed"}
  <2>1. Route(scope, all, host, data) =
          IF ParseClientHello(data).outcome = "found"
             /\ (all \/ InScope(scope, ParseClientHello(data).sni))
            THEN <<"intercept", ParseClientHello(data).sni>>
          ELSE IF all THEN <<"intercept", host>> ELSE <<"relay">>
    BY <1>3 DEF Route
  <2> QED BY <1>3, <2>1
<1> QED BY <1>1, <1>2, <1>3

\* Of any stream of bytes, cut anywhere: before its first record is whole the listener
\* waits, and from then on it does one and the same thing, whatever comes after.
THEOREM StreamsAreDecidedOnce ==
  ASSUME NEW stream \in Seq(Byte), NEW n \in 0 .. Len(stream),
         NEW scope, NEW all \in BOOLEAN, NEW host
  PROVE  DecidedOnce(stream, n, LAMBDA data : Route(scope, all, host, data))
<1> DEFINE Cut(k) == SubSeq(stream, 1, k)
           R(k) == ParseClientHello(Cut(k))
           whole == 5 + Number(stream, 3, 2)
           To(k) == Route(scope, all, host, Cut(k))
<1>1. Len(stream) \in Nat
  BY LenProperties
<1>2. ASSUME NEW k \in 0 .. Len(stream)
      PROVE  /\ k < 5 => R(k) = Incomplete(5)
             /\ k >= 5 =>
                  /\ whole \in Nat
                  /\ stream[1] # 22 => R(k) = Malformed
                  /\ stream[1] = 22 /\ k < whole => R(k) = Incomplete(whole)
                  /\ stream[1] = 22 /\ k >= whole => R(k) = HandshakeBody(SubSeq(stream, 6, whole))
  BY ParseOfCut
<1>3. \A m : Incomplete(m).outcome = "incomplete" /\ Incomplete(m).needed = m
  BY DEF Incomplete, Result
<1>4. Malformed.outcome = "malformed"
  BY DEF Malformed, Result
<1>5. ASSUME whole \in 0 .. Len(stream)
      PROVE  HandshakeBody(SubSeq(stream, 6, whole)).outcome \in {"malformed", "no_sni", "found"}
  <2> HIDE DEF whole
  <2>1. SubSeq(stream, 6, whole) \in Seq(Byte)
    BY <1>5, Slice
  <2> QED BY <2>1, BodyOutcome
<1> HIDE DEF whole, R
<1>6. ASSUME NEW k \in 0 .. Len(stream)
      PROVE  R(k).outcome \in {"incomplete", "malformed", "no_sni", "found"}
  <2>1. CASE k >= 5 /\ stream[1] = 22 /\ k >= whole
    <3>1. whole \in 0 .. Len(stream)
      BY <1>1, <1>2, <2>1
    <3> QED BY <1>2, <1>5, <2>1, <3>1
  <2>2. CASE ~(k >= 5 /\ stream[1] = 22 /\ k >= whole)
    <3>1. k < 5 \/ (k >= 5 /\ stream[1] # 22) \/ (k >= 5 /\ stream[1] = 22 /\ k < whole)
      BY <1>2, <2>2
    <3> QED BY <1>2, <1>3, <1>4, <3>1
  <2> QED BY <2>1, <2>2
<1>7. ASSUME NEW k \in 0 .. Len(stream)
      PROVE  To(k) = <<"wait">> <=> R(k).outcome = "incomplete"
  BY <1>6, RouteWaits DEF R
<1>8. CASE R(n).outcome = "incomplete"
  <2>1. \/ n < 5 /\ R(n).needed = 5
        \/ n >= 5 /\ stream[1] = 22 /\ n < whole /\ R(n).needed = whole
    <3>1. CASE n < 5
      BY <1>2, <1>3, <3>1
    <3>2. CASE n >= 5 /\ stream[1] = 22 /\ n < whole
      BY <1>2, <1>3, <3>2
    <3>3. CASE n >= 5 /\ stream[1] # 22
      BY <1>2, <1>4, <1>8, <3>3
    <3>4. CASE n >= 5 /\ stream[1] = 22 /\ n >= whole
      <4>1. whole \in 0 .. Len(stream)
        BY <1>1, <1>2, <3>4
      <4> QED BY <1>2, <1>5, <1>8, <3>4, <4>1
    <3>5. n < 5 \/ n >= 5
      BY <1>1
    <3>6. n >= 5 => n < whole \/ n >= whole
      BY <1>1, <1>2
    <3> QED BY <3>1, <3>2, <3>3, <3>4, <3>5, <3>6
  <2>2. R(n).needed > n
    BY <1>1, <1>2, <2>1
  <2>3. ASSUME NEW k \in n .. R(n).needed - 1, k <= Len(stream) PROVE To(k) = <<"wait">>
    <3>1. k \in 0 .. Len(stream)
      BY <1>1, <2>3
    <3>2. CASE n < 5
      <4>1. k < 5
        BY <1>1, <2>1, <3>2
      <4> QED BY <1>2, <1>3, <1>7, <3>1, <4>1
    <3>3. CASE n >= 5 /\ stream[1] = 22 /\ n < whole /\ R(n).needed = whole
      <4>1. k >= 5 /\ k < whole
        BY <1>1, <1>2, <3>3
      <4> QED BY <1>2, <1>3, <1>7, <3>1, <3>3, <4>1
    <3> QED BY <2>1, <3>2, <3>3
  <2> QED BY <1>8, <2>2, <2>3 DEF DecidedOnce, R
<1>9. CASE R(n).outcome # "incomplete"
  <2>1. n >= 5 /\ (stream[1] # 22 \/ (stream[1] = 22 /\ n >= whole))
    <3>1. n >= 5
      BY <1>1, <1>2, <1>3, <1>9
    <3>2. n < whole \/ n >= whole
      BY <1>1, <1>2, <3>1
    <3> QED BY <1>2, <1>3, <1>9, <3>1, <3>2
  <2>2. ASSUME NEW k \in n .. Len(stream) PROVE R(k) = R(n)
    <3>1. k \in 0 .. Len(stream) /\ k >= 5 /\ (n >= whole => k >= whole)
      BY <1>1, <1>2, <2>1
    <3> QED BY <1>2, <2>1, <3>1
  <2>3. ASSUME NEW k \in n .. Len(stream) PROVE To(k) = To(n)
    BY <2>2 DEF R, Route
  <2>4. To(n) # <<"wait">>
    BY <1>7, <1>9
  <2> QED BY <1>9, <2>3, <2>4 DEF DecidedOnce, R
<1> QED BY <1>8, <1>9

\* Of every stream that a client may send, and every beginning of it.
THEOREM HellosAreDecidedOnce == Spec => []HelloIsDecidedOnce
<1>1. InputsOK => HelloIsDecidedOnce
  <2> SUFFICES ASSUME InputsOK, subject = "stream" PROVE HelloIsDecidedOnce
    BY DEF HelloIsDecidedOnce
  <2>1. given \in Seq(Byte) /\ Len(input) \in 0 .. Len(given)
    BY StreamsAssumption DEF InputsOK, Byte
  <2> DEFINE scope == [targets |-> <<<<"a">>>>, regexes |-> <<<<"_">>>>]
             host == <<"host">>
  <2>2. ASSUME NEW all \in BOOLEAN
        PROVE  DecidedOnce(given, Len(input), LAMBDA data : Route(scope, all, host, data))
    <3> HIDE DEF scope, host
    <3> QED BY <2>1, StreamsAreDecidedOnce DEF DecidedOnce
  <2> QED BY <2>2 DEF HelloIsDecidedOnce, DecidedOnce
<1> QED BY <1>1, InputsInductive, PTL

---------------------------------------------------------------------------
(* What a client writes is understood                                      *)

\* The bytes b are in s, after the first pos.
Holds(s, pos, b) ==
  /\ pos \in Nat /\ Len(b) \in Nat /\ Len(s) \in Nat /\ pos + Len(b) <= Len(s)
  /\ \A i \in 1 .. Len(b) : s[pos + i] = b[i]

LEMMA HoldsItself ==
  ASSUME NEW s \in Seq(Byte)
  PROVE  Holds(s, 0, s)
<1>1. Len(s) \in Nat
  BY LenProperties
<1> QED BY <1>1 DEF Holds

LEMMA HoldsParts ==
  ASSUME NEW s, NEW pos, NEW a \in Seq(Byte), NEW b \in Seq(Byte), Holds(s, pos, a \o b)
  PROVE  Holds(s, pos, a) /\ Holds(s, pos + Len(a), b)
<1> DEFINE c == a \o b
<1>1. /\ Len(a) \in Nat /\ Len(b) \in Nat /\ Len(c) = Len(a) + Len(b)
      /\ \A i \in 1 .. Len(a) : c[i] = a[i]
      /\ \A i \in 1 .. Len(b) : c[Len(a) + i] = b[i]
  BY ConcatAt
<1>2. Holds(s, pos, c)
  OBVIOUS
<1> HIDE DEF c
<1>3. pos \in Nat /\ Len(s) \in Nat /\ pos + Len(c) <= Len(s) /\ \A i \in 1 .. Len(c) : s[pos + i] = c[i]
  BY <1>2 DEF Holds
<1>4. Holds(s, pos, a)
  <2>1. \A i \in 1 .. Len(a) : i \in 1 .. Len(c)
    BY <1>1
  <2> QED BY <1>1, <1>3, <2>1 DEF Holds
<1>5. Holds(s, pos + Len(a), b)
  <2>1. ASSUME NEW i \in 1 .. Len(b) PROVE s[(pos + Len(a)) + i] = b[i]
    <3>1. Len(a) + i \in 1 .. Len(c) /\ (pos + Len(a)) + i = pos + (Len(a) + i)
      BY <1>1, <1>3
    <3> QED BY <1>1, <1>3, <3>1
  <2> QED BY <1>1, <1>3, <2>1 DEF Holds
<1> QED BY <1>4, <1>5

LEMMA HoldsSlice ==
  ASSUME NEW s \in Seq(Byte), NEW pos, NEW b \in Seq(Byte), Holds(s, pos, b)
  PROVE  SubSeq(s, pos + 1, pos + Len(b)) = b
<1> DEFINE c == SubSeq(s, pos + 1, pos + Len(b))
<1>1. /\ pos \in Nat /\ Len(b) \in Nat /\ Len(s) \in Nat /\ pos + Len(b) <= Len(s)
      /\ \A i \in 1 .. Len(b) : s[pos + i] = b[i]
  BY DEF Holds
<1>2. pos + 1 \in Nat \ {0} /\ pos + Len(b) \in 0 .. Len(s)
  BY <1>1
<1>3. /\ c \in Seq(Byte)
      /\ Len(c) = IF pos + 1 <= pos + Len(b) THEN (pos + Len(b)) - (pos + 1) + 1 ELSE 0
      /\ \A i \in 1 .. (pos + Len(b)) - (pos + 1) + 1 : c[i] = s[(pos + 1) + i - 1]
  BY <1>2, Slice
<1> HIDE DEF c
<1>4. Len(c) = Len(b)
  BY <1>1, <1>3
<1>5. ASSUME NEW i \in 1 .. Len(b) PROVE c[i] = b[i]
  <2>1. i \in 1 .. (pos + Len(b)) - (pos + 1) + 1 /\ (pos + 1) + i - 1 = pos + i
    BY <1>1
  <2> QED BY <1>1, <1>3, <2>1
<1>6. c = b
  BY <1>3, <1>4, <1>5, SeqEqual
<1> QED BY <1>6 DEF c

\* The largest length that a field of some bytes can hold, plus one.
Limit(width) == CASE width = 1 -> 256 [] width = 2 -> 65536 [] width = 3 -> 256 * 65536

LEMMA Limits == Limit(1) = 256 /\ Limit(2) = 65536
BY DEF Limit

Field(width, n) ==
  CASE width = 1 -> <<n>>
    [] width = 2 -> <<n \div 256, n % 256>>
    [] width = 3 -> <<n \div 65536, (n \div 256) % 256, n % 256>>

LEMMA DivMod ==
  ASSUME NEW n \in Nat
  PROVE  n \div 256 \in Nat /\ n % 256 \in 0 .. 255 /\ n = 256 * (n \div 256) + (n % 256)
OBVIOUS

LEMMA HighByte ==
  ASSUME NEW a \in Nat, NEW b \in Nat, NEW c \in Nat, c < 65536, a = 65536 * b + c
  PROVE  a \div 65536 = b /\ (a < 256 * 65536 => b < 256)
OBVIOUS

\* Wherever these bytes are, they are read as n.
IsField(bytes, width, n) ==
  /\ bytes \in Seq(Byte) /\ Len(bytes) = width
  /\ \A s, pos : Holds(s, pos, bytes) => Number(s, pos, width) = n

LEMMA FieldNumber ==
  ASSUME NEW width \in {1, 2, 3}, NEW n \in Nat, n < Limit(width)
  PROVE  IsField(Field(width, n), width, n)
<1> SUFFICES /\ Field(width, n) \in Seq(Byte) /\ Len(Field(width, n)) = width
             /\ \A s, pos : Holds(s, pos, Field(width, n)) => Number(s, pos, width) = n
  BY DEF IsField
<1>1. CASE width = 1
  <2>1. n < 256 /\ Field(width, n) = <<n>>
    BY <1>1 DEF Limit, Field
  <2>2. n \in Byte
    BY <2>1 DEF Byte
  <2>3. ASSUME NEW s, NEW pos, Holds(s, pos, Field(width, n)) PROVE Number(s, pos, width) = n
    <3>1. s[pos + 1] = n
      BY <2>1, <2>3 DEF Holds
    <3> QED BY <1>1, <3>1 DEF Number
  <2>4. <<n>> \in Seq(Byte) /\ Len(<<n>>) = 1
    BY <2>2
  <2> QED BY <1>1, <2>1, <2>3, <2>4
<1>2. CASE width = 2
  <2> DEFINE q == n \div 256
             r == n % 256
  <2>1. n < 65536 /\ Field(width, n) = <<q, r>>
    BY <1>2 DEF Limit, Field
  <2>2. q \in Nat /\ r \in 0 .. 255 /\ n = 256 * q + r
    BY DivMod
  <2> HIDE DEF q, r
  <2>3. q \in Byte /\ r \in Byte
    BY <2>1, <2>2 DEF Byte
  <2>4. ASSUME NEW s, NEW pos, Holds(s, pos, Field(width, n)) PROVE Number(s, pos, width) = n
    <3>1. s[pos + 1] = q /\ s[pos + 2] = r
      BY <2>1, <2>4 DEF Holds
    <3>2. Number(s, pos, width) = 256 * s[pos + 1] + s[pos + 2]
      BY <1>2 DEF Number
    <3> QED BY <2>2, <3>1, <3>2
  <2>5. <<q, r>> \in Seq(Byte) /\ Len(<<q, r>>) = 2
    BY <2>3
  <2>6. Field(width, n) \in Seq(Byte) /\ Len(Field(width, n)) = width
    <3>1. Field(width, n) = <<q, r>>
      BY <2>1
    <3> QED BY <1>2, <2>5, <3>1
  <2> QED BY <2>4, <2>6
<1>3. CASE width = 3
  <2> DEFINE q == n \div 256
             r == n % 256
             u == q \div 256
             v == q % 256
  <2>1. n < 256 * 65536 /\ Field(width, n) = <<n \div 65536, v, r>>
    BY <1>3 DEF Limit, Field
  <2>2. q \in Nat /\ r \in 0 .. 255 /\ n = 256 * q + r
    BY DivMod
  <2>3. u \in Nat /\ v \in 0 .. 255 /\ q = 256 * u + v
    <3> HIDE DEF q
    <3> QED BY <2>2, DivMod
  <2> HIDE DEF q, r, u, v
  <2>4. n = 65536 * u + (256 * v + r) /\ 256 * v + r \in Nat /\ 256 * v + r < 65536
    <3>1. 256 * q + r = 65536 * u + (256 * v + r) /\ 256 * v + r \in Nat /\ 256 * v + r < 65536
      <4>1. 256 * q = 65536 * u + 256 * v
        BY <2>3
      <4>2. 256 * v + r < 65536 /\ 256 * v + r \in Nat
        BY <2>2, <2>3
      <4> QED BY <2>2, <2>3, <4>1, <4>2
    <3> QED BY <2>2, <3>1
  <2>5. n \div 65536 = u /\ u < 256
    <3> DEFINE w == 256 * v + r
    <3>1. n = 65536 * u + w /\ w \in Nat /\ w < 65536
      BY <2>4
    <3> HIDE DEF w
    <3> QED BY <2>1, <2>3, <3>1, HighByte
  <2>6. u \in Byte /\ v \in Byte /\ r \in Byte
    BY <2>2, <2>3, <2>5 DEF Byte
  <2>7. ASSUME NEW s, NEW pos, Holds(s, pos, Field(width, n)) PROVE Number(s, pos, width) = n
    <3>1. s[pos + 1] = u /\ s[pos + 2] = v /\ s[pos + 3] = r
      BY <2>1, <2>5, <2>7 DEF Holds
    <3>2. Number(s, pos, width) = 65536 * s[pos + 1] + 256 * s[pos + 2] + s[pos + 3]
      BY <1>3 DEF Number
    <3>3. 256 * v + r = (256 * v) + r /\ 65536 * u + 256 * v + r = n
      BY <2>2, <2>3, <2>4
    <3> QED BY <3>1, <3>2, <3>3
  <2>8. <<u, v, r>> \in Seq(Byte) /\ Len(<<u, v, r>>) = 3
    BY <2>6
  <2>9. Field(width, n) \in Seq(Byte) /\ Len(Field(width, n)) = width
    BY <1>3, <2>1, <2>5, <2>8
  <2> QED BY <2>7, <2>9
<1> QED BY <1>1, <1>2, <1>3

LEMMA VectorIsField ==
  ASSUME NEW width \in {1, 2, 3}, NEW b
  PROVE  Vector(width, b) = Field(width, Len(b)) \o b
<1>1. CASE width = 1
  BY <1>1 DEF Vector, Field
<1>2. CASE width = 2
  BY <1>2 DEF Vector, Field
<1>3. CASE width = 3
  BY <1>3 DEF Vector, Field
<1> QED BY <1>1, <1>2, <1>3

\* Wherever these bytes are, a vector that holds b is found there, and its end.
IsVector(bytes, width, b) ==
  /\ bytes \in Seq(Byte) /\ Len(b) \in Nat
  /\ Len(bytes) = width + Len(b)
  /\ \A s \in Seq(Byte), pos, end \in Nat :
       Holds(s, pos, bytes) /\ end <= Len(s) /\ pos + width + Len(b) <= end =>
         /\ After(s, pos, width, end) = pos + width + Len(b)
         /\ Holds(s, pos + width, b)

LEMMA VectorReadBack ==
  ASSUME NEW width \in {1, 2, 3}, NEW b \in Seq(Byte), Len(b) < Limit(width)
  PROVE  IsVector(Vector(width, b), width, b)
<1> DEFINE n == Len(b)
           field == Field(width, n)
<1>1. n \in Nat /\ width \in Nat
  BY LenProperties
<1>2. field \in Seq(Byte) /\ Len(field) = width /\ \A s, pos : Holds(s, pos, field) => Number(s, pos, width) = n
  <2>1. IsField(field, width, n)
    BY <1>1, FieldNumber
  <2> QED BY <2>1 DEF IsField
<1>3. Vector(width, b) = field \o b
  BY VectorIsField
<1> HIDE DEF field
<1>4. field \o b \in Seq(Byte) /\ Len(field \o b) = width + n
  BY <1>2, ConcatAt
<1>5. ASSUME NEW s \in Seq(Byte), NEW pos, NEW end \in Nat,
             Holds(s, pos, field \o b), end <= Len(s), pos + width + n <= end
      PROVE  After(s, pos, width, end) = pos + width + n /\ Holds(s, pos + width, b)
  <2>1. Holds(s, pos, field) /\ Holds(s, pos + width, b)
    BY <1>2, <1>5, HoldsParts
  <2>2. Number(s, pos, width) = n
    BY <1>2, <2>1
  <2>3. pos \in Nat
    BY <2>1 DEF Holds
  <2>4. pos # Bad /\ ~(pos + width > end)
    BY <1>1, <1>5, <2>3 DEF Bad
  <2>5. After(s, pos, width, end) = pos + width + n
    BY <1>5, <2>2, <2>4 DEF After
  <2> QED BY <2>1, <2>5
<1> QED BY <1>1, <1>3, <1>4, <1>5 DEF IsVector

\* What is written of one entry of a list: its type, and a vector with its contents.
WrittenItem(width, type, b) == Field(width, type) \o Vector(2, b)

\* Wherever the bytes `item' are, the loop finds that type and those contents.
IsReadBack(item, width, type, b) ==
  /\ item \in Seq(Byte) /\ Len(b) \in Nat
  /\ Len(item) = width + 2 + Len(b)
  /\ \A s \in Seq(Byte), pos, end \in Nat :
       Holds(s, pos, item) /\ end <= Len(s) /\ pos + width + 2 + Len(b) <= end =>
         /\ Number(s, pos, width) = type
         /\ After(s, pos + width, 2, end) = pos + width + 2 + Len(b)
         /\ SubSeq(s, pos + width + 3, pos + width + 2 + Len(b)) = b

LEMMA ItemReadBack ==
  ASSUME NEW width \in {1, 2}, NEW type \in Nat, type < Limit(width),
         NEW b \in Seq(Byte), Len(b) < 65536
  PROVE  IsReadBack(WrittenItem(width, type, b), width, type, b)
<1> DEFINE field == Field(width, type)
           vector == Vector(2, b)
<1>1. field \in Seq(Byte) /\ Len(field) = width /\ \A s, pos : Holds(s, pos, field) => Number(s, pos, width) = type
  <2>1. width \in {1, 2, 3}
    OBVIOUS
  <2>2. IsField(field, width, type)
    BY <2>1, FieldNumber
  <2> QED BY <2>2 DEF IsField
<1>2. Limit(2) = 65536
  BY DEF Limit
<1>3. /\ vector \in Seq(Byte) /\ Len(b) \in Nat /\ Len(vector) = 2 + Len(b)
      /\ \A s \in Seq(Byte), pos, end \in Nat :
           Holds(s, pos, vector) /\ end <= Len(s) /\ pos + 2 + Len(b) <= end =>
             After(s, pos, 2, end) = pos + 2 + Len(b) /\ Holds(s, pos + 2, b)
  <2>1. IsVector(vector, 2, b)
    BY <1>2, VectorReadBack
  <2> QED BY <2>1 DEF IsVector
<1> HIDE DEF field, vector
<1>4. field \o vector \in Seq(Byte) /\ Len(field \o vector) = width + (2 + Len(b))
  BY <1>1, <1>3, ConcatAt
<1>5. ASSUME NEW s \in Seq(Byte), NEW pos \in Nat, NEW end \in Nat,
             Holds(s, pos, field \o vector), end <= Len(s), pos + width + 2 + Len(b) <= end
      PROVE  /\ Number(s, pos, width) = type
             /\ After(s, pos + width, 2, end) = pos + width + 2 + Len(b)
             /\ SubSeq(s, pos + width + 3, pos + width + 2 + Len(b)) = b
  <2>1. Holds(s, pos, field) /\ Holds(s, pos + width, vector)
    <3>1. field \in Seq(Byte) /\ vector \in Seq(Byte) /\ Len(field) = width
      BY <1>1, <1>3
    <3>2. Holds(s, pos, field \o vector)
      BY <1>5
    <3>3. Holds(s, pos, field) /\ Holds(s, pos + Len(field), vector)
      BY <3>1, <3>2, HoldsParts
    <3> QED BY <3>1, <3>3
  <2>2. pos + width \in Nat
    OBVIOUS
  <2>3. After(s, pos + width, 2, end) = (pos + width) + 2 + Len(b) /\ Holds(s, (pos + width) + 2, b)
    BY <1>3, <1>5, <2>1, <2>2
  <2>4. SubSeq(s, ((pos + width) + 2) + 1, ((pos + width) + 2) + Len(b)) = b
    <3> DEFINE from == (pos + width) + 2
    <3>1. Holds(s, from, b)
      BY <2>3
    <3> HIDE DEF from
    <3>2. SubSeq(s, from + 1, from + Len(b)) = b
      BY <3>1, HoldsSlice
    <3> QED BY <3>2 DEF from
  <2>5. ((pos + width) + 2) + 1 = pos + width + 3
    OBVIOUS
  <2> QED BY <1>1, <2>1, <2>3, <2>4, <2>5
<1>6. width + (2 + Len(b)) = width + 2 + Len(b)
  BY <1>3
<1> QED BY <1>3, <1>4, <1>5, <1>6 DEF IsReadBack, WrittenItem, field, vector

\* The written entries of a list.
IsWritten(c, width, n, type, b) ==
  /\ n \in Nat /\ type \in [1 .. n -> Nat] /\ b \in [1 .. n -> Seq(Byte)]
  /\ c = [k \in 1 .. n |-> WrittenItem(width, type[k], b[k])]
  /\ \A k \in 1 .. n : type[k] < Limit(width) /\ Len(b[k]) < 65536

LEMMA WrittenAt ==
  ASSUME NEW c, NEW width, NEW n, NEW type, NEW b, IsWritten(c, width, n, type, b), NEW k \in 1 .. n
  PROVE  /\ type[k] \in Nat /\ type[k] < Limit(width) /\ b[k] \in Seq(Byte) /\ Len(b[k]) < 65536
         /\ c[k] = WrittenItem(width, type[k], b[k])
  BY DEF IsWritten

\* Entry k is the first of type 0 from entry m on.
IsFirst0(type, m, k) == type[k] = 0 /\ \A l \in m .. k - 1 : type[l] # 0

\* What the loop finds in a written list.
LEMMA LoopReadsBack ==
  ASSUME NEW width \in {1, 2}, NEW c, NEW n, NEW type, NEW b, IsWritten(c, width, n, type, b),
         NEW s \in Seq(Byte), NEW start \in Nat, NEW end \in Nat,
         Holds(s, start, FlattenSeq(c)), end = start + Len(FlattenSeq(c))
  PROVE  /\ (\A k \in 1 .. n : type[k] # 0) => FirstOfType0(s, start, width, end) = NoSni
         /\ \A k \in 1 .. n :
              IsFirst0(type, 1, k) => FirstOfType0(s, start, width, end) = Item(b[k])
<1> DEFINE flat == FlattenSeq(c)
<1>1. /\ n \in Nat /\ type \in [1 .. n -> Nat] /\ b \in [1 .. n -> Seq(Byte)]
      /\ c = [k \in 1 .. n |-> WrittenItem(width, type[k], b[k])]
      /\ \A k \in 1 .. n : type[k] < Limit(width) /\ Len(b[k]) < 65536
  BY DEF IsWritten
<1>2. ASSUME NEW k \in 1 .. n
      PROVE  /\ c[k] \in Seq(Byte) /\ Len(b[k]) \in Nat /\ Len(c[k]) = width + 2 + Len(b[k])
             /\ \A pos \in Nat :
                  Holds(s, pos, c[k]) /\ end <= Len(s) /\ pos + width + 2 + Len(b[k]) <= end =>
                    /\ Number(s, pos, width) = type[k]
                    /\ After(s, pos + width, 2, end) = pos + width + 2 + Len(b[k])
                    /\ SubSeq(s, pos + width + 3, pos + width + 2 + Len(b[k])) = b[k]
  <2>1. type[k] \in Nat /\ b[k] \in Seq(Byte) /\ type[k] < Limit(width) /\ Len(b[k]) < 65536
        /\ c[k] = WrittenItem(width, type[k], b[k])
    BY <1>1
  <2>2. IsReadBack(c[k], width, type[k], b[k])
    BY <2>1, ItemReadBack
  <2> QED BY <2>2 DEF IsReadBack
<1>3. c \in Seq(Seq(Byte)) /\ Len(c) = n
  <2>1. c \in [1 .. n -> Seq(Byte)]
    BY <1>1, <1>2
  <2> QED BY <1>1, <2>1
<1>4. flat \in Seq(Byte) /\ \E p : ArePositions(p, c, flat)
  BY <1>3, FlattenPositions
<1>5. Holds(s, start, flat) /\ end = start + Len(flat)
  OBVIOUS
<1> HIDE DEF flat
<1>6. PICK p : ArePositions(p, c, flat)
  BY <1>4
<1>7. /\ p \in [1 .. n + 1 -> Nat] /\ p[1] = 0 /\ p[n + 1] = Len(flat)
      /\ \A k \in 1 .. n :
           /\ p[k + 1] = p[k] + Len(c[k]) /\ p[k + 1] <= Len(flat)
           /\ \A j \in 1 .. Len(c[k]) : flat[p[k] + j] = c[k][j]
  BY <1>3, <1>6 DEF ArePositions
<1>8. /\ Len(s) \in Nat /\ Len(flat) \in Nat /\ end <= Len(s) /\ end \in start .. Len(s)
      /\ \A i \in 1 .. Len(flat) : s[start + i] = flat[i]
  BY <1>5 DEF Holds
<1>9. PICK f : Finds(f, s, start, width, end) /\ FirstOfType0(s, start, width, end) = f[start]
  BY <1>8, LoopFinds
<1> DEFINE At(k) == start + p[k]
<1>10. ASSUME NEW k \in 1 .. n
       PROVE  /\ At(k) \in start .. end /\ At(k) # end
              /\ f[At(k)] = IF type[k] = 0 THEN Item(b[k]) ELSE f[At(k + 1)]
  <2> DEFINE pos == At(k)
             next == pos + width + 2 + Len(b[k])
  <2>1. /\ p[k] \in Nat /\ p[k + 1] \in Nat /\ Len(c[k]) \in Nat /\ Len(b[k]) \in Nat
        /\ p[k + 1] = p[k] + Len(c[k]) /\ p[k + 1] <= Len(flat) /\ Len(c[k]) = width + 2 + Len(b[k])
    <3>1. k \in 1 .. n + 1 /\ k + 1 \in 1 .. n + 1
      BY <1>1
    <3> QED BY <1>2, <1>7, <3>1, LenProperties
  <2>2. /\ pos \in Nat /\ next = At(k + 1) /\ next <= end /\ next \in Nat
        /\ pos \in start .. end /\ pos # end /\ pos = start + p[k] /\ pos + Len(c[k]) <= Len(s)
    <3> DEFINE x == p[k]
               y == p[k + 1]
               lb == Len(b[k])
               lc == Len(c[k])
               lf == Len(flat)
    <3>1. /\ x \in Nat /\ y \in Nat /\ lb \in Nat /\ lc \in Nat /\ lf \in Nat /\ Len(s) \in Nat
          /\ y = x + lc /\ y <= lf /\ lc = width + 2 + lb /\ end = start + lf /\ end <= Len(s)
          /\ width \in Nat
      <4>1. width \in Nat
        OBVIOUS
      <4>2. end = start + lf /\ lf \in Nat /\ Len(s) \in Nat /\ end <= Len(s)
        BY <1>5, <1>8
      <4> QED BY <2>1, <4>1, <4>2
    <3>2. pos = start + x /\ next = start + x + width + 2 + lb /\ At(k + 1) = start + y
      OBVIOUS
    <3> HIDE DEF x, y, lb, lc, lf, pos, next, At
    <3>3. /\ pos \in Nat /\ next = At(k + 1) /\ next <= end /\ next \in Nat
          /\ pos \in start .. end /\ pos # end /\ pos + lc <= Len(s)
      BY <3>1, <3>2
    <3> QED BY <3>2, <3>3 DEF x, lc
  <2>3. Holds(s, pos, c[k])
    <3>1. ASSUME NEW j \in 1 .. Len(c[k]) PROVE s[pos + j] = c[k][j]
      <4>1. p[k] + j \in 1 .. Len(flat) /\ start + (p[k] + j) = pos + j
        <5> DEFINE x == p[k]
                   y == p[k + 1]
                   lc == Len(c[k])
                   lf == Len(flat)
        <5>1. x \in Nat /\ lc \in Nat /\ lf \in Nat /\ y = x + lc /\ y <= lf /\ j \in 1 .. lc /\ pos = start + x
          BY <1>8, <2>1, <2>2
        <5> HIDE DEF x, y, lc, lf, pos
        <5>2. x + j \in 1 .. lf /\ start + (x + j) = pos + j
          BY <5>1
        <5> QED BY <5>2 DEF x, lf
      <4>2. flat[p[k] + j] = c[k][j]
        BY <1>7
      <4> HIDE DEF pos
      <4> QED BY <1>8, <4>1, <4>2
    <3> HIDE DEF pos
    <3> QED BY <1>8, <2>1, <2>2, <3>1 DEF Holds
  <2> HIDE DEF pos, next
  <2>4. /\ Number(s, pos, width) = type[k]
        /\ After(s, pos + width, 2, end) = next
        /\ SubSeq(s, pos + width + 3, next) = b[k]
    BY <1>2, <1>8, <2>2, <2>3 DEF next
  <2>5. next # Bad
    BY <2>2 DEF Bad
  <2>6. f[pos] = LET nxt == After(s, pos + width, 2, end) IN
                 IF pos = end THEN NoSni
                 ELSE IF nxt = Bad THEN Malformed
                 ELSE IF Number(s, pos, width) = 0 THEN Item(SubSeq(s, pos + width + 3, nxt))
                 ELSE f[nxt]
    BY <1>9, <2>2 DEF Finds
  <2>7. f[pos] = IF type[k] = 0 THEN Item(b[k]) ELSE f[next]
    BY <2>2, <2>4, <2>5, <2>6
  <2> QED BY <2>2, <2>7 DEF pos
<1>11. f[At(n + 1)] = NoSni
  <2>1. At(n + 1) = end /\ end \in start .. end
    BY <1>5, <1>7, <1>8
  <2> QED BY <1>9, <2>1 DEF Finds
<1> HIDE DEF At
<1> DEFINE Hits(k) ==
             /\ (\A l \in k .. n : type[l] # 0) => f[At(k)] = NoSni
             /\ \A m \in k .. n : IsFirst0(type, k, m) => f[At(k)] = Item(b[m])
           S == {k \in 1 .. n + 1 : Hits(k)}
<1>12. ASSUME NEW k \in 1 .. n + 1, \A l \in k + 1 .. n + 1 : l \in S PROVE k \in S
  <2>1. CASE k = n + 1
    BY <1>1, <1>11, <2>1
  <2>2. CASE k # n + 1
    <3>1. k \in 1 .. n /\ k + 1 \in k + 1 .. n + 1 /\ k \in k .. n
      BY <1>1, <2>2
    <3>2. Hits(k + 1)
      BY <1>12, <3>1
    <3>3. CASE type[k] = 0
      <4>1. f[At(k)] = Item(b[k])
        BY <1>10, <3>1, <3>3
      <4>2. ASSUME NEW m \in k .. n, IsFirst0(type, k, m) PROVE m = k
        <5>1. SUFFICES ASSUME m # k PROVE FALSE
          OBVIOUS
        <5>2. k \in k .. m - 1
          BY <1>1, <5>1
        <5> QED BY <3>3, <4>2, <5>2 DEF IsFirst0
      <4>3. Hits(k)
        BY <3>1, <3>3, <4>1, <4>2
      <4> QED BY <4>3
    <3>4. CASE type[k] # 0
      <4>1. f[At(k)] = f[At(k + 1)]
        BY <1>10, <3>1, <3>4
      <4>2. (\A l \in k .. n : type[l] # 0) => f[At(k)] = NoSni
        <5>1. \A l \in k + 1 .. n : l \in k .. n
          BY <1>1
        <5> QED BY <3>2, <4>1, <5>1
      <4>3. ASSUME NEW m \in k .. n, IsFirst0(type, k, m) PROVE f[At(k)] = Item(b[m])
        <5>1. m # k
          BY <3>4, <4>3 DEF IsFirst0
        <5>2. m \in k + 1 .. n
          BY <1>1, <5>1
        <5>3. \A l \in k + 1 .. m - 1 : l \in k .. m - 1
          BY <1>1
        <5>4. IsFirst0(type, k + 1, m)
          BY <4>3, <5>3 DEF IsFirst0
        <5> QED BY <3>2, <4>1, <5>2, <5>4
      <4>4. Hits(k)
        BY <4>2, <4>3
      <4> QED BY <4>4
    <3> QED BY <3>3, <3>4
  <2> QED BY <2>1, <2>2
<1>13. 1 \in S
  <2> HIDE DEF S
  <2>1. n + 1 \in Nat /\ 1 \in 1 .. n + 1
    BY <1>1
  <2>2. 1 .. n + 1 \subseteq S
    BY <1>12, <2>1, DownFrom
  <2> QED BY <2>1, <2>2
<1>14. f[At(1)] = FirstOfType0(s, start, width, end)
  BY <1>7, <1>9 DEF At
<1> QED BY <1>13, <1>14

\* First0 takes the first of type 0, if there is one.
TakesFirst0(pairs, n, type) ==
  \/ (\A k \in 1 .. n : type[k] # 0) /\ First0(pairs) = <<>>
  \/ \E k \in 1 .. n : IsFirst0(type, 1, k) /\ First0(pairs) = <<pairs[k][2]>>

LEMMA First0IsFirst ==
  ASSUME NEW pairs, NEW n \in Nat, DOMAIN pairs = 1 .. n,
         NEW type, \A k \in 1 .. n : type[k] = pairs[k][1]
  PROVE  TakesFirst0(pairs, n, type)
<1> DEFINE at == {k \in DOMAIN pairs : pairs[k][1] = 0}
<1>1. CASE at = {}
  BY <1>1 DEF First0, TakesFirst0
<1>2. CASE at # {}
  <2>1. at \subseteq Nat
    OBVIOUS
  <2>2. \E k \in at : \A m \in at : k <= m
    <3> HIDE DEF at
    <3> QED BY <1>2, <2>1, LeastExists
  <2>3. Min(at) \in at /\ \A m \in at : Min(at) <= m
    <3> HIDE DEF at
    <3> QED BY <2>2 DEF Min
  <2>4. First0(pairs) = <<pairs[Min(at)][2]>>
    BY <1>2 DEF First0
  <2> DEFINE k == Min(at)
  <2>5. k \in 1 .. n /\ type[k] = 0
    BY <2>3
  <2>6. ASSUME NEW l \in 1 .. k - 1 PROVE type[l] # 0
    <3>1. l \in 1 .. n /\ ~(k <= l)
      BY <2>5
    <3> QED BY <2>3, <3>1
  <2> QED BY <2>4, <2>5, <2>6 DEF IsFirst0, TakesFirst0
<1> QED BY <1>1, <1>2

\* What is found of a list of pairs: nothing, or the contents of the first of type 0.
Found0(pairs, contents) ==
  IF First0(pairs) = <<>> THEN NoSni ELSE Item(contents)

\* A list of names.
LEMMA NamesReadBack ==
  ASSUME NEW names, IsNames(names)
  PROVE  /\ WriteNames(names) \in Seq(Byte) /\ Len(WriteNames(names)) \in Nat
         /\ Len(WriteNames(names)) < 65534
         /\ \A s \in Seq(Byte), start, end \in Nat :
              Holds(s, start, WriteNames(names)) /\ end = start + Len(WriteNames(names)) =>
                FirstOfType0(s, start, 1, end) = Found0(names, First0(names)[1])
<1> DEFINE n == Len(names)
           type == [k \in 1 .. n |-> names[k][1]]
           b == [k \in 1 .. n |-> names[k][2]]
           c == [k \in DOMAIN names |-> WriteName(names[k])]
           w == WriteNames(names)
<1>1. n \in Nat /\ DOMAIN names = 1 .. n /\ Len(w) < 65534
      /\ \A k \in 1 .. n : names[k][1] \in Byte /\ names[k][2] \in Seq(Byte) /\ Len(names[k][2]) < 65536
  BY DEF IsNames, IsName, IsBytes, Byte
<1>2. IsWritten(c, 1, n, type, b)
  <2>1. \A name : WriteName(name) = WrittenItem(1, name[1], name[2])
    BY DEF WriteName, WrittenItem, Field
  <2>2. c = [k \in 1 .. n |-> WrittenItem(1, type[k], b[k])]
    BY <1>1, <2>1
  <2>3. \A k \in 1 .. n : type[k] \in Nat /\ type[k] < Limit(1)
    <3> TAKE k \in 1 .. n
    <3>1. type[k] \in Byte
      BY <1>1
    <3> HIDE DEF type
    <3>2. \A x \in Byte : x \in Nat /\ x < 256
      BY DEF Byte
    <3> QED BY <3>1, <3>2, Limits
  <2>4. type \in [1 .. n -> Nat] /\ b \in [1 .. n -> Seq(Byte)] /\ \A k \in 1 .. n : Len(b[k]) < 65536
    BY <1>1, <2>3
  <2> HIDE DEF c, type, b
  <2> QED BY <1>1, <2>2, <2>3, <2>4 DEF IsWritten
<1>3. w = FlattenSeq(c)
  BY DEF WriteNames
<1>4. w \in Seq(Byte)
  <2>1. ASSUME NEW k \in 1 .. n PROVE c[k] \in Seq(Byte)
    <3>1. /\ type[k] \in Nat /\ type[k] < Limit(1) /\ b[k] \in Seq(Byte) /\ Len(b[k]) < 65536
          /\ c[k] = WrittenItem(1, type[k], b[k])
      <4> HIDE DEF c, type, b
      <4> QED BY <1>2, WrittenAt
    <3> HIDE DEF c, type, b
    <3>2. IsReadBack(c[k], 1, type[k], b[k])
      BY <3>1, ItemReadBack
    <3> QED BY <3>2 DEF IsReadBack
  <2>2. c \in Seq(Seq(Byte))
    <3>1. c \in [1 .. n -> Seq(Byte)]
      BY <1>1, <2>1
    <3> QED BY <1>1, <3>1
  <2> HIDE DEF c
  <2> QED BY <1>3, <2>2, FlattenPositions
<1>5. \/ (\A k \in 1 .. n : type[k] # 0) /\ First0(names) = <<>>
      \/ \E k \in 1 .. n : IsFirst0(type, 1, k) /\ First0(names) = <<names[k][2]>>
  <2>1. \A k \in 1 .. n : type[k] = names[k][1]
    OBVIOUS
  <2> HIDE DEF n, type
  <2>2. TakesFirst0(names, n, type)
    BY <1>1, <2>1, First0IsFirst
  <2> QED BY <2>2 DEF TakesFirst0
<1>6. \A k \in 1 .. n : b[k] = names[k][2]
  OBVIOUS
<1> HIDE DEF n, type, b, c, w
<1>7. ASSUME NEW s \in Seq(Byte), NEW start \in Nat, NEW end \in Nat,
             Holds(s, start, w), end = start + Len(w)
      PROVE  FirstOfType0(s, start, 1, end) = Found0(names, First0(names)[1])
  <2>1. /\ (\A k \in 1 .. n : type[k] # 0) => FirstOfType0(s, start, 1, end) = NoSni
        /\ \A k \in 1 .. n : IsFirst0(type, 1, k) => FirstOfType0(s, start, 1, end) = Item(b[k])
    BY <1>2, <1>3, <1>7, LoopReadsBack
  <2>2. CASE (\A k \in 1 .. n : type[k] # 0) /\ First0(names) = <<>>
    BY <2>1, <2>2 DEF Found0
  <2>3. CASE \E k \in 1 .. n : IsFirst0(type, 1, k) /\ First0(names) = <<names[k][2]>>
    <3>1. PICK k \in 1 .. n : IsFirst0(type, 1, k) /\ First0(names) = <<names[k][2]>>
      BY <2>3
    <3>2. First0(names) # <<>> /\ First0(names)[1] = b[k]
      BY <1>6, <3>1
    <3> QED BY <2>1, <3>1, <3>2 DEF Found0
  <2> QED BY <1>5, <2>2, <2>3
<1>8. Len(w) \in Nat
  BY <1>4, LenProperties
<1> QED BY <1>1, <1>4, <1>7, <1>8 DEF w

\* The contents of an extension.
Contents(x) == IF x[1] = 0 THEN Vector(2, WriteNames(x[2])) ELSE x[2]

LEMMA ContentsAreBytes ==
  ASSUME NEW x, IsExtension(x)
  PROVE  /\ x[1] \in Nat /\ x[1] < Limit(2)
         /\ Contents(x) \in Seq(Byte) /\ Len(Contents(x)) \in Nat /\ Len(Contents(x)) < 65536
<1>1. x[1] \in Nat /\ x[1] < Limit(2)
  BY Limits DEF IsExtension
<1>2. CASE x[1] = 0
  <2> DEFINE w == WriteNames(x[2])
  <2>1. IsNames(x[2])
    BY <1>2 DEF IsExtension
  <2>2. w \in Seq(Byte) /\ Len(w) \in Nat /\ Len(w) < 65534
    BY <2>1, NamesReadBack
  <2> HIDE DEF w
  <2>3. Len(w) < Limit(2)
    BY <2>2 DEF Limit
  <2>4. Vector(2, w) \in Seq(Byte) /\ Len(Vector(2, w)) = 2 + Len(w)
    <3>1. IsVector(Vector(2, w), 2, w)
      BY <2>2, <2>3, VectorReadBack
    <3> QED BY <3>1 DEF IsVector
  <2>5. Contents(x) = Vector(2, w)
    BY <1>2 DEF Contents, w
  <2> QED BY <1>1, <2>2, <2>4, <2>5
<1>3. CASE x[1] # 0
  <2>1. Contents(x) = x[2] /\ x[2] \in Seq(Byte) /\ Len(x[2]) < 65536
    BY <1>3 DEF IsExtension, Contents, IsBytes, Byte
  <2> QED BY <1>1, <2>1, LenProperties
<1> QED BY <1>2, <1>3

\* A list of extensions.
LEMMA ExtensionsReadBack ==
  ASSUME NEW xs, IsExtensions(xs)
  PROVE  /\ WriteExtensions(xs) \in Seq(Byte) /\ Len(WriteExtensions(xs)) \in Nat
         /\ Len(WriteExtensions(xs)) < 65536
         /\ First0(xs) # <<>> => IsNames(First0(xs)[1])
         /\ \A s \in Seq(Byte), start, end \in Nat :
              Holds(s, start, WriteExtensions(xs)) /\ end = start + Len(WriteExtensions(xs)) =>
                FirstOfType0(s, start, 2, end) = Found0(xs, Vector(2, WriteNames(First0(xs)[1])))
<1> DEFINE n == Len(xs)
           type == [k \in 1 .. n |-> xs[k][1]]
           b == [k \in 1 .. n |-> Contents(xs[k])]
           c == [k \in DOMAIN xs |-> WriteExtension(xs[k])]
           w == WriteExtensions(xs)
<1>1. n \in Nat /\ DOMAIN xs = 1 .. n /\ Len(w) < 65536 /\ \A k \in 1 .. n : IsExtension(xs[k])
  BY DEF IsExtensions
<1>2. \A k \in 1 .. n :
        /\ type[k] \in Nat /\ type[k] < Limit(2)
        /\ b[k] \in Seq(Byte) /\ Len(b[k]) \in Nat /\ Len(b[k]) < 65536
  BY <1>1, ContentsAreBytes
<1>3. IsWritten(c, 2, n, type, b)
  <2>1. \A x : WriteExtension(x) = WrittenItem(2, x[1], Contents(x))
    BY DEF WriteExtension, WrittenItem, Field, Contents
  <2>2. c = [k \in 1 .. n |-> WrittenItem(2, type[k], b[k])]
    BY <1>1, <2>1
  <2>3. type \in [1 .. n -> Nat] /\ b \in [1 .. n -> Seq(Byte)]
    BY <1>2
  <2> HIDE DEF c, type, b
  <2> QED BY <1>1, <1>2, <2>2, <2>3 DEF IsWritten
<1>4. w = FlattenSeq(c)
  BY DEF WriteExtensions
<1>5. \/ (\A k \in 1 .. n : type[k] # 0) /\ First0(xs) = <<>>
      \/ \E k \in 1 .. n : IsFirst0(type, 1, k) /\ First0(xs) = <<xs[k][2]>>
  <2>1. \A k \in 1 .. n : type[k] = xs[k][1]
    OBVIOUS
  <2> HIDE DEF n, type
  <2>2. TakesFirst0(xs, n, type)
    BY <1>1, <2>1, First0IsFirst
  <2> QED BY <2>2 DEF TakesFirst0
<1>6. \A k \in 1 .. n : type[k] = xs[k][1] /\ b[k] = Contents(xs[k])
  OBVIOUS
<1>7. c \in Seq(Seq(Byte))
  <2>1. ASSUME NEW k \in 1 .. n PROVE c[k] \in Seq(Byte)
    <3>1. c[k] = WrittenItem(2, type[k], b[k])
      <4> HIDE DEF c, type, b
      <4> QED BY <1>3, WrittenAt
    <3> HIDE DEF c, type, b
    <3>2. IsReadBack(c[k], 2, type[k], b[k])
      BY <1>2, <3>1, ItemReadBack
    <3> QED BY <3>2 DEF IsReadBack
  <2>2. c \in [1 .. n -> Seq(Byte)]
    BY <1>1, <2>1
  <2> QED BY <1>1, <2>2
<1> HIDE DEF n, type, b, c, w
<1>8. w \in Seq(Byte) /\ Len(w) \in Nat
  BY <1>4, <1>7, FlattenPositions, LenProperties
<1>9. ASSUME NEW k \in 1 .. n, IsFirst0(type, 1, k), First0(xs) = <<xs[k][2]>>
      PROVE  /\ First0(xs) # <<>> /\ IsNames(First0(xs)[1])
             /\ b[k] = Vector(2, WriteNames(First0(xs)[1]))
  <2>1. xs[k][1] = 0 /\ First0(xs)[1] = xs[k][2] /\ First0(xs) # <<>>
    BY <1>6, <1>9 DEF IsFirst0
  <2>2. IsExtension(xs[k])
    BY <1>1
  <2> QED BY <1>6, <2>1, <2>2 DEF IsExtension, Contents
<1>10. ASSUME NEW s \in Seq(Byte), NEW start \in Nat, NEW end \in Nat,
              Holds(s, start, w), end = start + Len(w)
       PROVE  FirstOfType0(s, start, 2, end) = Found0(xs, Vector(2, WriteNames(First0(xs)[1])))
  <2>1. /\ (\A k \in 1 .. n : type[k] # 0) => FirstOfType0(s, start, 2, end) = NoSni
        /\ \A k \in 1 .. n : IsFirst0(type, 1, k) => FirstOfType0(s, start, 2, end) = Item(b[k])
    BY <1>3, <1>4, <1>10, LoopReadsBack
  <2>2. CASE (\A k \in 1 .. n : type[k] # 0) /\ First0(xs) = <<>>
    BY <2>1, <2>2 DEF Found0
  <2>3. CASE \E k \in 1 .. n : IsFirst0(type, 1, k) /\ First0(xs) = <<xs[k][2]>>
    <3>1. PICK k \in 1 .. n : IsFirst0(type, 1, k) /\ First0(xs) = <<xs[k][2]>>
      BY <2>3
    <3> QED BY <1>9, <2>1, <3>1 DEF Found0
  <2> QED BY <1>5, <2>2, <2>3
<1> QED BY <1>1, <1>5, <1>8, <1>9, <1>10 DEF w

\* What the parser says of a list of names, as the contents of an extension.
LEMMA ServerNameReadsBack ==
  ASSUME NEW names, IsNames(names)
  PROVE  ServerNameExtension(Vector(2, WriteNames(names))) =
           IF First0(names) = <<>> THEN NoSni ELSE HostName(First0(names)[1])
<1> DEFINE w == WriteNames(names)
           ext == Vector(2, w)
<1>1. /\ w \in Seq(Byte) /\ Len(w) \in Nat /\ Len(w) < 65534
      /\ \A s \in Seq(Byte), start, end \in Nat :
           Holds(s, start, w) /\ end = start + Len(w) =>
             FirstOfType0(s, start, 1, end) = Found0(names, First0(names)[1])
  BY NamesReadBack
<1> HIDE DEF w
<1>2. Len(w) < Limit(2)
  BY <1>1 DEF Limit
<1>3. /\ ext \in Seq(Byte) /\ Len(ext) = 2 + Len(w)
      /\ \A s \in Seq(Byte), pos, end \in Nat :
           Holds(s, pos, ext) /\ end <= Len(s) /\ pos + 2 + Len(w) <= end =>
             After(s, pos, 2, end) = pos + 2 + Len(w) /\ Holds(s, pos + 2, w)
  <2>1. IsVector(ext, 2, w)
    BY <1>1, <1>2, VectorReadBack
  <2> QED BY <2>1 DEF IsVector
<1> HIDE DEF ext
<1>4. Holds(ext, 0, ext)
  BY <1>3, HoldsItself
<1>5. Len(ext) \in Nat /\ Len(ext) <= Len(ext) /\ 0 + 2 + Len(w) <= Len(ext) /\ 0 + 2 + Len(w) = 2 + Len(w)
  BY <1>1, <1>3
<1>6. After(ext, 0, 2, Len(ext)) = 2 + Len(w) /\ Holds(ext, 2, w)
  BY <1>3, <1>4, <1>5
<1>7. FirstOfType0(ext, 2, 1, 2 + Len(w)) = Found0(names, First0(names)[1])
  BY <1>1, <1>3, <1>6
<1>8. 2 + Len(w) # Bad
  BY <1>1 DEF Bad
<1>9. ServerNameExtension(ext) = HostNameIn(Found0(names, First0(names)[1]))
  BY <1>6, <1>7, <1>8 DEF ServerNameExtension
<1>10. HostNameIn(NoSni) = NoSni
  BY DEF HostNameIn, NoSni, Result
<1>11. \A bytes : HostNameIn(Item(bytes)) = HostName(bytes)
  BY DEF HostNameIn, Item, Result
<1> QED BY <1>9, <1>10, <1>11 DEF Found0, ext, w

\* What comes after the compression methods.
Extensions(hello) ==
  IF hello.extensions = <<>> THEN <<>> ELSE Vector(2, WriteExtensions(hello.extensions[1]))

\* What the parser says of the body of a hello.
LEMMA HelloReadsBack ==
  ASSUME NEW hello, IsHello(hello)
  PROVE  /\ WriteBody(hello) \in Seq(Byte) /\ Len(WriteBody(hello)) \in Nat
         /\ Hello(WriteBody(hello)) =
              IF NameAsked(hello) = <<>> THEN NoSni ELSE HostName(NameAsked(hello)[1])
<1> DEFINE h == WriteBody(hello)
           random == [k \in 1 .. 2 + RandomLen |-> 3]
           v1 == Vector(1, hello.session)
           v2 == Vector(2, hello.ciphers)
           v3 == Vector(1, hello.methods)
           rest == Extensions(hello)
           xs == hello.extensions[1]
           w == WriteExtensions(xs)
           n1 == Len(hello.session)
           n2 == Len(hello.ciphers)
           n3 == Len(hello.methods)
           r == 2 + RandomLen
<1>1. /\ hello.session \in Seq(Byte) /\ n1 < 256 /\ hello.ciphers \in Seq(Byte) /\ n2 < 65536
      /\ hello.methods \in Seq(Byte) /\ n3 < 256
      /\ hello.extensions # <<>> => IsExtensions(xs)
  BY DEF IsHello, IsBytes, Byte
<1>2. r \in Nat /\ random \in Seq(Byte) /\ Len(random) = r
  <2>1. r \in Nat
    BY HellosAssumption
  <2>2. random \in [1 .. r -> Byte]
    BY DEF Byte
  <2> QED BY <2>1, <2>2
<1>3. h = (((random \o v1) \o v2) \o v3) \o rest
  BY DEF WriteBody, Extensions
<1>4. /\ v1 \in Seq(Byte) /\ n1 \in Nat /\ Len(v1) = 1 + n1
      /\ \A s \in Seq(Byte), pos, end \in Nat :
           Holds(s, pos, v1) /\ end <= Len(s) /\ pos + 1 + n1 <= end =>
             After(s, pos, 1, end) = pos + 1 + n1
  <2>1. IsVector(v1, 1, hello.session)
    BY <1>1, Limits, VectorReadBack
  <2> QED BY <2>1 DEF IsVector
<1>5. /\ v2 \in Seq(Byte) /\ n2 \in Nat /\ Len(v2) = 2 + n2
      /\ \A s \in Seq(Byte), pos, end \in Nat :
           Holds(s, pos, v2) /\ end <= Len(s) /\ pos + 2 + n2 <= end =>
             After(s, pos, 2, end) = pos + 2 + n2
  <2>1. IsVector(v2, 2, hello.ciphers)
    BY <1>1, Limits, VectorReadBack
  <2> QED BY <2>1 DEF IsVector
<1>6. /\ v3 \in Seq(Byte) /\ n3 \in Nat /\ Len(v3) = 1 + n3
      /\ \A s \in Seq(Byte), pos, end \in Nat :
           Holds(s, pos, v3) /\ end <= Len(s) /\ pos + 1 + n3 <= end =>
             After(s, pos, 1, end) = pos + 1 + n3
  <2>1. IsVector(v3, 1, hello.methods)
    BY <1>1, Limits, VectorReadBack
  <2> QED BY <2>1 DEF IsVector
<1>7. hello.extensions = <<>> => rest = <<>>
  BY DEF Extensions
<1>8. hello.extensions # <<>> =>
        /\ w \in Seq(Byte) /\ Len(w) \in Nat /\ Len(w) < Limit(2) /\ rest = Vector(2, w)
        /\ First0(xs) # <<>> => IsNames(First0(xs)[1])
        /\ \A s \in Seq(Byte), start, end \in Nat :
             Holds(s, start, w) /\ end = start + Len(w) =>
               FirstOfType0(s, start, 2, end) = Found0(xs, Vector(2, WriteNames(First0(xs)[1])))
  BY <1>1, Limits, ExtensionsReadBack DEF Extensions
<1> HIDE DEF h, random, v1, v2, v3, rest, xs, w, n1, n2, n3, r
<1>9. hello.extensions # <<>> =>
        /\ rest \in Seq(Byte) /\ Len(rest) = 2 + Len(w)
        /\ \A s \in Seq(Byte), pos, end \in Nat :
             Holds(s, pos, rest) /\ end <= Len(s) /\ pos + 2 + Len(w) <= end =>
               After(s, pos, 2, end) = pos + 2 + Len(w) /\ Holds(s, pos + 2, w)
  <2>1. hello.extensions # <<>> => IsVector(rest, 2, w)
    BY <1>8, VectorReadBack
  <2> QED BY <2>1 DEF IsVector
<1>10. rest \in Seq(Byte) /\ Len(rest) \in Nat /\ (hello.extensions = <<>> => Len(rest) = 0)
  <2>1. rest \in Seq(Byte)
    BY <1>7, <1>9, EmptySeq
  <2> QED BY <1>7, <2>1, EmptySeq, LenProperties
<1>11. h \in Seq(Byte) /\ Len(h) = r + (1 + n1) + (2 + n2) + (1 + n3) + Len(rest)
       /\ Holds(h, r, v1) /\ Holds(h, r + (1 + n1), v2) /\ Holds(h, r + (1 + n1) + (2 + n2), v3)
       /\ Holds(h, r + (1 + n1) + (2 + n2) + (1 + n3), rest)
  <2> DEFINE a == random \o v1
             b == a \o v2
             c == b \o v3
  <2>1. a \in Seq(Byte) /\ Len(a) = r + (1 + n1)
    BY <1>2, <1>4, ConcatLen
  <2>2. b \in Seq(Byte) /\ Len(b) = r + (1 + n1) + (2 + n2)
    <3> HIDE DEF a
    <3> QED BY <1>5, <2>1, ConcatLen
  <2>3. c \in Seq(Byte) /\ Len(c) = r + (1 + n1) + (2 + n2) + (1 + n3)
    <3> HIDE DEF b
    <3> QED BY <1>6, <2>2, ConcatLen
  <2>4. h = c \o rest
    BY <1>3
  <2>5. h \in Seq(Byte) /\ Len(h) = Len(c) + Len(rest)
    <3> HIDE DEF c
    <3> QED BY <1>10, <2>3, <2>4, ConcatLen
  <2>6. Holds(h, 0, h)
    BY <2>5, HoldsItself
  <2>7. Holds(h, 0, c) /\ Holds(h, 0 + Len(c), rest)
    <3> HIDE DEF c
    <3> QED BY <1>10, <2>3, <2>4, <2>6, HoldsParts
  <2>8. Holds(h, 0, b) /\ Holds(h, 0 + Len(b), v3)
    <3> HIDE DEF b
    <3> QED BY <1>6, <2>2, <2>7, HoldsParts
  <2>9. Holds(h, 0, a) /\ Holds(h, 0 + Len(a), v2)
    <3> HIDE DEF a
    <3> QED BY <1>5, <2>1, <2>8, HoldsParts
  <2>10. Holds(h, 0 + Len(random), v1)
    BY <1>2, <1>4, <2>9, HoldsParts
  <2>11. 0 + r = r /\ 0 + Len(a) = Len(a) /\ 0 + Len(b) = Len(b) /\ 0 + Len(c) = Len(c)
    <3> HIDE DEF a, b, c
    <3> QED BY <1>2, <1>4, <1>5, <1>6, <2>1, <2>2, <2>3
  <2> HIDE DEF a, b, c
  <2> QED BY <1>2, <2>1, <2>2, <2>3, <2>5, <2>7, <2>8, <2>9, <2>10, <2>11
<1> DEFINE p1 == r + (1 + n1)
           p2 == p1 + (2 + n2)
           p3 == p2 + (1 + n3)
<1>12. /\ p1 \in Nat /\ p2 \in Nat /\ p3 \in Nat /\ p1 = r + 1 + n1 /\ p2 = p1 + 2 + n2 /\ p3 = p2 + 1 + n3
       /\ Len(h) = p3 + Len(rest) /\ Len(h) \in Nat /\ Len(h) <= Len(h)
       /\ r + 1 + n1 <= Len(h) /\ p1 + 2 + n2 <= Len(h) /\ p2 + 1 + n3 <= Len(h)
  BY <1>2, <1>4, <1>5, <1>6, <1>10, <1>11
<1>13. Holds(h, r, v1) /\ Holds(h, p1, v2) /\ Holds(h, p2, v3) /\ Holds(h, p3, rest)
  BY <1>11
<1> HIDE DEF p1, p2, p3
<1>14. After(h, r, 1, Len(h)) = p1
  <2>1. /\ h \in Seq(Byte) /\ r \in Nat /\ Len(h) \in Nat /\ Holds(h, r, v1)
        /\ Len(h) <= Len(h) /\ r + 1 + n1 <= Len(h) /\ p1 = r + 1 + n1
    BY <1>2, <1>11, <1>12, <1>13
  <2> QED BY <1>4, <2>1
<1>15. After(h, p1, 2, Len(h)) = p2
  <2>1. /\ h \in Seq(Byte) /\ p1 \in Nat /\ Len(h) \in Nat /\ Holds(h, p1, v2)
        /\ Len(h) <= Len(h) /\ p1 + 2 + n2 <= Len(h) /\ p2 = p1 + 2 + n2
    BY <1>2, <1>11, <1>12, <1>13
  <2> QED BY <1>5, <2>1
<1>16. After(h, p2, 1, Len(h)) = p3
  <2>1. /\ h \in Seq(Byte) /\ p2 \in Nat /\ Len(h) \in Nat /\ Holds(h, p2, v3)
        /\ Len(h) <= Len(h) /\ p2 + 1 + n3 <= Len(h) /\ p3 = p2 + 1 + n3
    BY <1>2, <1>11, <1>12, <1>13
  <2> QED BY <1>6, <2>1
<1>17. Hello(h) =
         LET extensions == After(h, p3, 2, Len(h))
         IN IF p3 = Bad THEN Malformed
            ELSE IF p3 = Len(h) THEN NoSni
            ELSE IF extensions = Bad THEN Malformed
            ELSE ServerNameIn(FirstOfType0(h, p3 + 2, 2, extensions))
  BY <1>14, <1>15, <1>16 DEF Hello, r
<1>18. p3 # Bad
  BY <1>12 DEF Bad
<1>19. CASE hello.extensions = <<>>
  <2>1. Hello(h) = NoSni
    BY <1>10, <1>12, <1>17, <1>18, <1>19
  <2>2. NameAsked(hello) = <<>>
    BY <1>19 DEF NameAsked
  <2> QED BY <1>11, <1>12, <2>1, <2>2 DEF h
<1>20. CASE hello.extensions # <<>>
  <2> DEFINE end == p3 + 2 + Len(w)
  <2>1. Len(h) = end /\ end \in Nat /\ p3 # Len(h) /\ p3 + 2 \in Nat /\ end = (p3 + 2) + Len(w) /\ end # Bad
    <3>1. Len(w) \in Nat /\ Len(rest) = 2 + Len(w)
      BY <1>8, <1>9, <1>20
    <3>2. p3 \in Nat /\ Len(h) = p3 + Len(rest)
      BY <1>12
    <3> QED BY <3>1, <3>2 DEF Bad
  <2> HIDE DEF end
  <2>2. After(h, p3, 2, Len(h)) = end /\ Holds(h, p3 + 2, w)
    <3>1. /\ h \in Seq(Byte) /\ p3 \in Nat /\ Len(h) \in Nat /\ Holds(h, p3, rest)
          /\ Len(h) <= Len(h) /\ p3 + 2 + Len(w) <= Len(h) /\ end = p3 + 2 + Len(w)
      BY <1>11, <1>12, <1>13, <2>1 DEF end
    <3> QED BY <1>9, <1>20, <3>1
  <2>3. FirstOfType0(h, p3 + 2, 2, end) = Found0(xs, Vector(2, WriteNames(First0(xs)[1])))
    BY <1>8, <1>11, <1>20, <2>1, <2>2
  <2>4. Hello(h) = ServerNameIn(Found0(xs, Vector(2, WriteNames(First0(xs)[1]))))
    BY <1>17, <1>18, <2>1, <2>2, <2>3
  <2>5. NameAsked(hello) = LET names == First0(xs) IN IF names = <<>> THEN <<>> ELSE First0(names[1])
    BY <1>20 DEF NameAsked, xs
  <2>6. CASE First0(xs) = <<>>
    <3>1. ServerNameIn(NoSni) = NoSni
      BY DEF ServerNameIn, NoSni, Result
    <3> QED BY <1>11, <1>12, <2>4, <2>5, <2>6, <3>1 DEF Found0, h
  <2>7. CASE First0(xs) # <<>>
    <3> DEFINE names == First0(xs)[1]
    <3>1. IsNames(names)
      BY <1>8, <1>20, <2>7
    <3>2. ServerNameIn(Item(Vector(2, WriteNames(names)))) = ServerNameExtension(Vector(2, WriteNames(names)))
      BY DEF ServerNameIn, Item, Result
    <3>3. Hello(h) = ServerNameExtension(Vector(2, WriteNames(names)))
      BY <2>4, <2>7, <3>2 DEF Found0
    <3>4. NameAsked(hello) = First0(names)
      BY <2>5, <2>7
    <3> HIDE DEF names
    <3>5. Hello(h) = IF First0(names) = <<>> THEN NoSni ELSE HostName(First0(names)[1])
      BY <3>1, <3>3, ServerNameReadsBack
    <3> QED BY <1>11, <1>12, <3>4, <3>5 DEF h
  <2> QED BY <2>6, <2>7
<1> QED BY <1>19, <1>20

\* Whatever a client means to say, the parser finds the name that it asks for: the first
\* host name of the first extension for server names, and none if there is none.
THEOREM WhatIsWrittenIsUnderstood == \A hello : IsHello(hello) => Understood(hello)
<1> SUFFICES ASSUME NEW hello, IsHello(hello) PROVE Understood(hello)
  OBVIOUS
<1> DEFINE body == WriteBody(hello)
           vector == Vector(3, body)
           message == <<1>> \o vector
           fragment == Vector(2, message)
           data == Write(hello)
           n == Len(body)
<1>1. body \in Seq(Byte) /\ n \in Nat /\ n < 65532
      /\ Hello(body) = IF NameAsked(hello) = <<>> THEN NoSni ELSE HostName(NameAsked(hello)[1])
  BY HelloReadsBack DEF IsHello
<1>2. data = <<22, 3, 1>> \o fragment
  BY DEF Write
<1> HIDE DEF body, n, data
<1>3. n < Limit(3)
  <2>1. Limit(3) = 256 * 65536
    BY DEF Limit
  <2> QED BY <1>1, <2>1
<1>4. /\ vector \in Seq(Byte) /\ Len(vector) = 3 + n
      /\ \A s \in Seq(Byte), pos, end \in Nat :
           Holds(s, pos, vector) /\ end <= Len(s) /\ pos + 3 + n <= end =>
             After(s, pos, 3, end) = pos + 3 + n /\ Holds(s, pos + 3, body)
  <2>1. IsVector(vector, 3, body)
    BY <1>1, <1>3, VectorReadBack DEF n
  <2> QED BY <2>1 DEF IsVector, n
<1> HIDE DEF vector
<1>5. <<1>> \in Seq(Byte) /\ Len(<<1>>) = 1 /\ <<22, 3, 1>> \in Seq(Byte) /\ Len(<<22, 3, 1>>) = 3
  BY DEF Byte
<1>6. message \in Seq(Byte) /\ Len(message) = 1 + (3 + n)
  BY <1>4, <1>5, ConcatLen
<1>7. Holds(message, 0, message)
  BY <1>6, HoldsItself
<1>8. Holds(message, 0, <<1>>) /\ Holds(message, 0 + Len(<<1>>), vector)
  BY <1>4, <1>5, <1>7, HoldsParts
<1>9. message[1] = 1
  <2> HIDE DEF message
  <2> QED BY <1>8 DEF Holds
<1> HIDE DEF message
<1> DEFINE m == Len(message)
<1>10. m = 4 + n /\ m \in Nat /\ m < 65536 /\ Holds(message, 1, vector)
  BY <1>1, <1>5, <1>6, <1>8
<1>11. HandshakeBody(message) = Hello(body)
  <2>1. 1 + 3 + n <= m /\ m <= Len(message) /\ 1 + 3 + n = m /\ m # Bad
    BY <1>1, <1>10 DEF Bad
  <2>2. After(message, 1, 3, m) = m /\ Holds(message, 4, body)
    BY <1>4, <1>6, <1>10, <2>1
  <2>3. SubSeq(message, 4 + 1, 4 + n) = body
    <3>1. SubSeq(message, 4 + 1, 4 + Len(body)) = body
      BY <1>1, <1>6, <2>2, HoldsSlice
    <3> QED BY <3>1 DEF n
  <2>4. SubSeq(message, 5, m) = body
    BY <1>10, <2>3
  <2> QED BY <1>9, <2>1, <2>2, <2>4 DEF HandshakeBody
<1>12. m < Limit(2)
  BY <1>10, Limits
<1>13. /\ fragment \in Seq(Byte) /\ Len(fragment) = 2 + m
  <2>1. IsVector(fragment, 2, message)
    BY <1>6, <1>12, VectorReadBack
  <2> QED BY <2>1 DEF IsVector
<1>14. data \in Seq(Byte) /\ Len(data) = 3 + (2 + m)
  <2> HIDE DEF fragment
  <2> QED BY <1>2, <1>5, <1>13, ConcatLen
<1>15. Holds(data, 0, data)
  BY <1>14, HoldsItself
<1>16. Holds(data, 0, <<22, 3, 1>>) /\ Holds(data, 0 + 3, fragment)
  <2> DEFINE header == <<22, 3, 1>>
  <2>1. header \in Seq(Byte) /\ Len(header) = 3 /\ data = header \o fragment
    BY <1>2, <1>5
  <2> HIDE DEF fragment, header
  <2>2. Holds(data, 0, header) /\ Holds(data, 0 + Len(header), fragment)
    BY <1>13, <1>15, <2>1, HoldsParts
  <2> QED BY <2>1, <2>2 DEF header
<1>17. data[1] = 22
  BY <1>5, <1>16 DEF Holds
<1>18. Number(data, 3, 2) = m /\ Holds(data, 5, message)
  <2>1. Field(2, m) \in Seq(Byte) /\ Len(Field(2, m)) = 2
        /\ \A s, pos : Holds(s, pos, Field(2, m)) => Number(s, pos, 2) = m
    <3>1. IsField(Field(2, m), 2, m)
      BY <1>10, <1>12, FieldNumber
    <3> QED BY <3>1 DEF IsField
  <2>2. fragment = Field(2, m) \o message
    BY VectorIsField
  <2>3. Holds(data, 3, fragment)
    BY <1>16
  <2> HIDE DEF fragment
  <2>4. Holds(data, 3, Field(2, m)) /\ Holds(data, 3 + Len(Field(2, m)), message)
    BY <1>6, <2>1, <2>2, <2>3, HoldsParts
  <2>8. Len(Field(2, m)) = 2
    BY <2>1
  <2>5. 3 + Len(Field(2, m)) = 5
    <3> DEFINE l == Len(Field(2, m))
    <3>1. l = 2
      BY <2>8
    <3> HIDE DEF l
    <3>2. 3 + l = 5
      BY <3>1
    <3> QED BY <3>2 DEF l
  <2> HIDE DEF m
  <2>6. Number(data, 3, 2) = m
    BY <2>1, <2>4
  <2>7. Holds(data, 5, message)
    BY <2>4, <2>5
  <2> QED BY <2>6, <2>7
<1>19. SubSeq(data, 5 + 1, 5 + m) = message
  BY <1>6, <1>14, <1>18, HoldsSlice
<1>20. ~(Len(data) < 5) /\ ~(Len(data) < 5 + m)
  BY <1>10, <1>14
<1>21. ParseClientHello(data) = HandshakeBody(message)
  <2> HIDE DEF m
  <2>1. ParseClientHello(data) = HandshakeBody(SubSeq(data, 6, 5 + m))
    BY <1>17, <1>18, <1>20 DEF ParseClientHello
  <2>2. SubSeq(data, 6, 5 + m) = message
    BY <1>19
  <2> QED BY <2>1, <2>2
<1> QED BY <1>1, <1>11, <1>21 DEF Understood, data

\* Of every hello that a client may mean.
THEOREM HellosAreUnderstood == Spec => []HelloIsUnderstood
<1>1. InputsOK => HelloIsUnderstood
  BY HellosAssumption, WhatIsWrittenIsUnderstood DEF InputsOK, HelloIsUnderstood
<1> QED BY <1>1, InputsInductive, PTL

---------------------------------------------------------------------------
(* Names in labels                                                         *)

\* What labels are made of.
InLabel(X) == X \ {"."}

\* Lists of labels; there is always one.
LabelLists(X) == {ls \in Seq(Seq(InLabel(X))) : Len(ls) > 0}

\* A dot begins a label.
LEMMA NextDot ==
  ASSUME NEW X, NEW ls \in LabelLists(X)
  PROVE  /\ NextLetter(ls, ".") = Append(ls, <<>>)
         /\ NextLetter(ls, ".") \in LabelLists(X)
         /\ Len(ls) \in Nat \ {0} /\ Len(NextLetter(ls, ".")) = Len(ls) + 1
         /\ NextLetter(ls, ".")[Len(ls) + 1] = <<>>
         /\ \A k \in 1 .. Len(ls) : NextLetter(ls, ".")[k] = ls[k]
<1> DEFINE Y == InLabel(X)
           n == Len(ls)
<1>1. ls \in Seq(Seq(Y)) /\ n \in Nat \ {0}
  BY LenProperties DEF LabelLists
<1>2. NextLetter(ls, ".") = Append(ls, <<>>) /\ <<>> \in Seq(Y)
  BY EmptySeq DEF NextLetter
<1>3. /\ Append(ls, <<>>) \in Seq(Seq(Y)) /\ Len(Append(ls, <<>>)) = n + 1
      /\ Append(ls, <<>>)[n + 1] = <<>> /\ \A k \in 1 .. n : Append(ls, <<>>)[k] = ls[k]
  BY <1>1, <1>2, AppendProperties
<1> HIDE DEF n
<1>4. n + 1 > 0
  BY <1>1
<1> QED BY <1>1, <1>2, <1>3, <1>4 DEF LabelLists, n

\* Any other letter goes to the last label.
GoesToLast(c, ls) ==
  /\ Len(NextLetter(ls, c)) = Len(ls)
  /\ NextLetter(ls, c)[Len(ls)] = Append(ls[Len(ls)], c)
  /\ \A k \in 1 .. Len(ls) - 1 : NextLetter(ls, c)[k] = ls[k]

\* A letter that is not a dot changes the last label alone.
LEMMA NextPlain ==
  ASSUME NEW X, NEW ls \in LabelLists(X), NEW c \in InLabel(X)
  PROVE  NextLetter(ls, c) \in LabelLists(X) /\ Len(ls) \in Nat \ {0} /\ GoesToLast(c, ls)
<1> DEFINE Y == InLabel(X)
           n == Len(ls)
           r == NextLetter(ls, c)
<1>1. ls \in Seq(Seq(Y)) /\ n \in Nat \ {0} /\ ls \in [1 .. n -> Seq(Y)]
  BY LenProperties DEF LabelLists
<1>2. c # "."
  BY DEF InLabel
<1>3. r = [ls EXCEPT ![n] = Append(ls[n], c)]
  BY <1>2 DEF NextLetter
<1>4. ls[n] \in Seq(Y) /\ Append(ls[n], c) \in Seq(Y)
  BY <1>1, AppendProperties
<1> HIDE DEF r, n
<1>5. r \in [1 .. n -> Seq(Y)] /\ r[n] = Append(ls[n], c) /\ \A k \in 1 .. n - 1 : r[k] = ls[k]
  BY <1>1, <1>3, <1>4
<1>6. r \in Seq(Seq(Y)) /\ Len(r) = n
  BY <1>1, <1>5, SeqDef, LenProperties
<1>7. GoesToLast(c, ls)
  BY <1>5, <1>6 DEF GoesToLast, r, n
<1>8. r \in LabelLists(X)
  BY <1>1, <1>6 DEF LabelLists
<1> QED BY <1>1, <1>7, <1>8 DEF r, n

\* f[n] are the labels of the first n letters.
Splits(f, s, X) ==
  /\ f \in [0 .. Len(s) -> LabelLists(X)]
  /\ f[0] = <<<<>>>>
  /\ \A n \in 1 .. Len(s) : f[n] = NextLetter(f[n - 1], s[n])

\* The labels of a name are a list of labels, found letter by letter.
LEMMA LabelsSplit ==
  ASSUME NEW X, NEW s \in Seq(X)
  PROVE  /\ Labels(s) \in LabelLists(X)
         /\ \E f : Splits(f, s, X) /\ Labels(s) = f[Len(s)]
<1> DEFINE N == Len(s)
           A == LabelLists(X)
           Unwinds(f) == f = [n \in 0 .. N |-> IF n = 0 THEN <<<<>>>> ELSE NextLetter(f[n - 1], s[n])]
           step == [p \in A \X (1 .. N) |-> NextLetter(p[1], s[p[2]])]
<1>1. N \in Nat /\ \A n \in 1 .. N : s[n] \in X
  BY LenProperties, ElementOfSeq
<1>2. <<<<>>>> \in A
  <2>1. <<>> \in Seq(InLabel(X)) /\ Len(<<<<>>>>) = 1
    BY EmptySeq
  <2>2. <<<<>>>> \in Seq(Seq(InLabel(X)))
    BY <2>1
  <2> QED BY <2>1, <2>2 DEF LabelLists
<1>3. Labels(s) = (CHOOSE f : Unwinds(f))[N]
  BY DEF Labels
<1> HIDE DEF N
<1>4. \A ls \in A, n \in 1 .. N : NextLetter(ls, s[n]) \in A
  <2> TAKE ls \in A, n \in 1 .. N
  <2>1. s[n] = "." \/ s[n] \in InLabel(X)
    BY <1>1 DEF InLabel
  <2> QED BY <2>1, NextDot, NextPlain
<1> HIDE DEF A
<1>5. step \in [A \X (1 .. N) -> A] /\ \A ls \in A, n \in 1 .. N : step[<<ls, n>>] = NextLetter(ls, s[n])
  BY <1>4
<1> HIDE DEF step
<1>6. PICK g : IsLoop(g, A, N, <<<<>>>>, step)
  BY <1>1, <1>2, <1>5, LoopExists
<1>7. g \in [0 .. N -> A] /\ g[0] = <<<<>>>> /\ \A n \in 1 .. N : g[n] = step[<<g[n - 1], n>>]
  BY <1>6 DEF IsLoop
<1>8. \A n \in 1 .. N : g[n] = NextLetter(g[n - 1], s[n])
  <2> TAKE n \in 1 .. N
  <2>1. n - 1 \in 0 .. N
    BY <1>1
  <2> QED BY <2>1, <1>5, <1>7
<1>9. Unwinds(g)
  <2>1. g = [n \in 0 .. N |-> g[n]]
    BY <1>7
  <2>2. \A n \in 0 .. N : g[n] = IF n = 0 THEN <<<<>>>> ELSE NextLetter(g[n - 1], s[n])
    <3> TAKE n \in 0 .. N
    <3>1. n = 0 \/ n \in 1 .. N
      BY <1>1
    <3> QED BY <3>1, <1>7, <1>8
  <2> QED BY <2>1, <2>2
<1> DEFINE f == CHOOSE f : Unwinds(f)
<1>10. Unwinds(f)
  <2> HIDE DEF Unwinds
  <2> QED BY <1>9
<1>11. Labels(s) = f[N]
  BY <1>3
<1> HIDE DEF f
<1>12. \A n \in 0 .. N : f[n] = IF n = 0 THEN <<<<>>>> ELSE NextLetter(f[n - 1], s[n])
  BY <1>10
<1>13. f = [n \in 0 .. N |-> f[n]]
  BY <1>10
<1>14. f[0] = <<<<>>>> /\ \A n \in 1 .. N : f[n] = NextLetter(f[n - 1], s[n])
  <2>1. 0 \in 0 .. N
    BY <1>1
  <2>2. \A n \in 1 .. N : n \in 0 .. N /\ n # 0
    BY <1>1
  <2> QED BY <1>12, <2>1, <2>2
<1> HIDE DEF Unwinds
<1> DEFINE T == {n \in 0 .. N : f[n] \in A}
<1>15. 0 \in T
  BY <1>1, <1>2, <1>14
<1>16. ASSUME NEW n \in 0 .. N - 1, n \in T PROVE n + 1 \in T
  <2>1. n + 1 \in 0 .. N /\ n + 1 \in 1 .. N /\ (n + 1) - 1 = n
    BY <1>1
  <2> QED BY <2>1, <1>4, <1>14, <1>16
<1>17. 0 .. N \subseteq T
  <2> HIDE DEF T
  <2> QED BY <1>1, <1>15, <1>16, UpTo
<1>18. f \in [0 .. N -> A] /\ N \in 0 .. N
  BY <1>1, <1>13, <1>17
<1> QED BY <1>11, <1>14, <1>18 DEF Splits, A, N

\* No letters are one label; and one letter more is one step more.
LEMMA LabelsGrow ==
  ASSUME NEW X, NEW s \in Seq(X), NEW c \in X
  PROVE  Labels(<<>>) = <<<<>>>> /\ Labels(Append(s, c)) = NextLetter(Labels(s), c)
<1> DEFINE n == Len(s)
           t == Append(s, c)
<1>1. Labels(<<>>) = <<<<>>>>
  <2>1. <<>> \in Seq(X) /\ Len(<<>>) = 0
    BY EmptySeq
  <2>2. PICK f : Splits(f, <<>>, X) /\ Labels(<<>>) = f[Len(<<>>)]
    BY <2>1, LabelsSplit
  <2> QED BY <2>1, <2>2 DEF Splits
<1>2. /\ n \in Nat /\ t \in Seq(X) /\ Len(t) = n + 1 /\ t[n + 1] = c
      /\ \A k \in 1 .. n : t[k] = s[k]
  BY LenProperties, AppendProperties
<1>3. PICK f : Splits(f, s, X) /\ Labels(s) = f[n]
  BY LabelsSplit
<1>4. f[0] = <<<<>>>> /\ \A k \in 1 .. n : f[k] = NextLetter(f[k - 1], s[k])
  BY <1>3 DEF Splits
<1> HIDE DEF t, n
<1>5. PICK g : Splits(g, t, X) /\ Labels(t) = g[n + 1]
  <2>1. PICK g : Splits(g, t, X) /\ Labels(t) = g[Len(t)]
    BY <1>2, LabelsSplit
  <2> QED BY <2>1, <1>2
<1>6. g[0] = <<<<>>>> /\ \A k \in 1 .. n + 1 : g[k] = NextLetter(g[k - 1], t[k])
  BY <1>2, <1>5 DEF Splits
<1> DEFINE T == {k \in 0 .. n : g[k] = f[k]}
<1>7. 0 \in T
  <2>1. 0 \in 0 .. n
    BY <1>2
  <2>2. g[0] = f[0]
    BY <1>4, <1>6
  <2> QED BY <2>1, <2>2
<1>8. ASSUME NEW k \in 0 .. n - 1, k \in T PROVE k + 1 \in T
  <2>1. k + 1 \in 1 .. n /\ k + 1 \in 1 .. n + 1 /\ k + 1 \in 0 .. n /\ (k + 1) - 1 = k
    BY <1>2
  <2>2. g[k + 1] = NextLetter(g[k], t[k + 1]) /\ f[k + 1] = NextLetter(f[k], s[k + 1])
        /\ t[k + 1] = s[k + 1] /\ g[k] = f[k]
    BY <2>1, <1>2, <1>4, <1>6, <1>8
  <2> QED BY <2>1, <2>2
<1>9. 0 .. n \subseteq T
  <2> HIDE DEF T
  <2> QED BY <1>2, <1>7, <1>8, UpTo
<1>10. g[n] = f[n]
  BY <1>2, <1>9
<1>11. n + 1 \in 1 .. n + 1 /\ (n + 1) - 1 = n
  BY <1>2
<1>12. g[n + 1] = NextLetter(f[n], c)
  BY <1>2, <1>6, <1>10, <1>11
<1> QED BY <1>1, <1>3, <1>5, <1>12 DEF t, n

\* Letters of which the normalized ones are some too.
Alphabet(X) == {".", "xn", "u8"} \subseteq X /\ \A c \in X : LowerLetter(c) \in X

\* The small letters of labels are letters of labels.
LEMMA LowerLetterIs ==
  ASSUME NEW X, Alphabet(X)
  PROVE  /\ \A c : LowerLetter(c) = "." <=> c = "."
         /\ \A c : LowerLetter(LowerLetter(c)) = LowerLetter(c)
         /\ \A c \in InLabel(X) : LowerLetter(c) \in InLabel(X)
BY DEF Alphabet, InLabel, LowerLetter

\* Small letters, one by one.
LEMMA LowerIs ==
  ASSUME NEW Y, \A c \in Y : LowerLetter(c) \in Y, NEW s \in Seq(Y)
  PROVE  /\ Lower(s) \in Seq(Y) /\ Len(Lower(s)) = Len(s) /\ Len(s) \in Nat
         /\ \A k \in 1 .. Len(s) : Lower(s)[k] = LowerLetter(s[k])
<1> DEFINE n == Len(s)
           r == Lower(s)
<1>1. n \in Nat /\ DOMAIN s = 1 .. n /\ \A k \in 1 .. n : s[k] \in Y
  BY LenProperties, ElementOfSeq
<1>2. r = [k \in 1 .. n |-> LowerLetter(s[k])]
  BY <1>1 DEF Lower
<1> HIDE DEF n, r
<1>3. r \in [1 .. n -> Y] /\ \A k \in 1 .. n : r[k] = LowerLetter(s[k])
  BY <1>1, <1>2
<1>4. r \in Seq(Y) /\ Len(r) = n
  BY <1>1, <1>3, SeqDef, LenProperties
<1> QED BY <1>1, <1>3, <1>4 DEF n, r

\* Each label in small letters.
EachLower(ls) == [k \in DOMAIN ls |-> Lower(ls[k])]

\* Labels in small letters are labels, as many.
LEMMA EachLowerIs ==
  ASSUME NEW X, Alphabet(X), NEW ls \in LabelLists(X)
  PROVE  /\ EachLower(ls) \in LabelLists(X) /\ Len(EachLower(ls)) = Len(ls)
         /\ \A k \in 1 .. Len(ls) : EachLower(ls)[k] = Lower(ls[k]) /\ ls[k] \in Seq(InLabel(X))
<1> DEFINE n == Len(ls)
           r == EachLower(ls)
           Y == InLabel(X)
<1>1. n \in Nat /\ DOMAIN ls = 1 .. n /\ n > 0 /\ \A k \in 1 .. n : ls[k] \in Seq(Y)
  BY LenProperties, ElementOfSeq DEF LabelLists
<1>2. r = [k \in 1 .. n |-> Lower(ls[k])]
  BY <1>1 DEF EachLower
<1>3. \A c \in Y : LowerLetter(c) \in Y
  BY LowerLetterIs
<1> HIDE DEF n, r, Y
<1>4. \A k \in 1 .. n : Lower(ls[k]) \in Seq(Y)
  BY <1>1, <1>3, LowerIs
<1>5. r \in [1 .. n -> Seq(Y)] /\ \A k \in 1 .. n : r[k] = Lower(ls[k])
  BY <1>2, <1>4
<1>6. r \in Seq(Seq(Y)) /\ Len(r) = n
  BY <1>1, <1>5, SeqDef, LenProperties
<1> QED BY <1>1, <1>5, <1>6 DEF n, r, Y, LabelLists

\* One more letter, before or after.
LEMMA LowerAppend ==
  ASSUME NEW Y, \A d \in Y : LowerLetter(d) \in Y, NEW l \in Seq(Y), NEW c \in Y
  PROVE  Lower(Append(l, c)) = Append(Lower(l), LowerLetter(c))
<1> DEFINE n == Len(l)
           p == Append(l, c)
           q == Append(Lower(l), LowerLetter(c))
<1>1. /\ n \in Nat /\ p \in Seq(Y) /\ Len(p) = n + 1 /\ p[n + 1] = c
      /\ \A k \in 1 .. n : p[k] = l[k]
  BY LenProperties, AppendProperties
<1>2. /\ Lower(l) \in Seq(Y) /\ Len(Lower(l)) = n
      /\ \A k \in 1 .. n : Lower(l)[k] = LowerLetter(l[k])
  BY LowerIs
<1>3. q \in Seq(Y) /\ Len(q) = n + 1 /\ q[n + 1] = LowerLetter(c)
      /\ \A k \in 1 .. n : q[k] = LowerLetter(l[k])
  BY <1>2, AppendProperties
<1> HIDE DEF p, q, n
<1>4. /\ Lower(p) \in Seq(Y) /\ Len(Lower(p)) = n + 1
      /\ \A k \in 1 .. n + 1 : Lower(p)[k] = LowerLetter(p[k])
  BY <1>1, LowerIs
<1>5. \A k \in 1 .. n + 1 : Lower(p)[k] = q[k]
  <2> TAKE k \in 1 .. n + 1
  <2>1. k \in 1 .. n \/ k = n + 1
    BY <1>1
  <2> QED BY <2>1, <1>1, <1>3, <1>4
<1>6. Lower(p) = q
  BY <1>3, <1>4, <1>5, SeqEqual
<1> QED BY <1>6 DEF p, q

\* A letter goes to the same label in small letters.
LEMMA NextLower ==
  ASSUME NEW X, Alphabet(X), NEW ls \in LabelLists(X), NEW c \in X
  PROVE  NextLetter(EachLower(ls), LowerLetter(c)) = EachLower(NextLetter(ls, c))
<1> DEFINE n == Len(ls)
           Y == InLabel(X)
           es == EachLower(ls)
           p == NextLetter(es, LowerLetter(c))
           r == NextLetter(ls, c)
           q == EachLower(r)
<1>1. es \in LabelLists(X) /\ Len(es) = n /\ n \in Nat \ {0}
      /\ \A k \in 1 .. n : es[k] = Lower(ls[k]) /\ ls[k] \in Seq(Y)
  BY EachLowerIs, NextDot
<1>2. (\A d \in Y : LowerLetter(d) \in Y) /\ (LowerLetter(c) = "." <=> c = ".")
      /\ (c # "." => c \in Y)
  BY LowerLetterIs DEF InLabel
<1> HIDE DEF es
<1>3. CASE c = "."
  <2>1. /\ r \in LabelLists(X) /\ Len(r) = n + 1 /\ r[n + 1] = <<>>
        /\ \A k \in 1 .. n : r[k] = ls[k]
    BY <1>3, NextDot
  <2>2. /\ p \in LabelLists(X) /\ Len(p) = n + 1 /\ p[n + 1] = <<>>
        /\ \A k \in 1 .. n : p[k] = es[k]
    BY <1>1, <1>2, <1>3, NextDot
  <2> HIDE DEF p, r
  <2>3. q \in LabelLists(X) /\ Len(q) = n + 1 /\ \A k \in 1 .. n + 1 : q[k] = Lower(r[k])
    BY <2>1, EachLowerIs
  <2>4. Lower(<<>>) = <<>>
    BY DEF Lower
  <2> HIDE DEF q, n
  <2>5. \A k \in 1 .. n + 1 : p[k] = q[k]
    <3> TAKE k \in 1 .. n + 1
    <3>1. k \in 1 .. n \/ k = n + 1
      BY <1>1
    <3> QED BY <3>1, <1>1, <2>1, <2>2, <2>3, <2>4
  <2>6. p \in Seq(Seq(Y)) /\ q \in Seq(Seq(Y))
    BY <2>2, <2>3 DEF LabelLists
  <2>7. p = q
    BY <2>2, <2>3, <2>5, <2>6, SeqEqual
  <2> QED BY <2>7 DEF p, q, r, es
<1>4. CASE c # "."
  <2>9. c \in InLabel(X) /\ LowerLetter(c) \in InLabel(X)
    BY <1>2, <1>4
  <2>1. /\ r \in LabelLists(X) /\ Len(r) = n /\ r[n] = Append(ls[n], c)
        /\ \A k \in 1 .. n - 1 : r[k] = ls[k]
    <3>1. r \in LabelLists(X) /\ GoesToLast(c, ls)
      BY <2>9, NextPlain
    <3> QED BY <3>1, Zenon DEF GoesToLast
  <2>2. /\ p \in LabelLists(X) /\ Len(p) = n /\ p[n] = Append(es[n], LowerLetter(c))
        /\ \A k \in 1 .. n - 1 : p[k] = es[k]
    <3> DEFINE d == LowerLetter(c)
    <3>1. d \in InLabel(X) /\ es \in LabelLists(X) /\ Len(es) = n
      BY <1>1, <2>9
    <3> HIDE DEF d, n, Y
    <3>2. NextLetter(es, d) \in LabelLists(X) /\ GoesToLast(d, es)
      BY <3>1, NextPlain
    <3> QED BY <3>1, <3>2, Zenon DEF GoesToLast, d
  <2> HIDE DEF p, r
  <2>3. q \in LabelLists(X) /\ Len(q) = n /\ \A k \in 1 .. n : q[k] = Lower(r[k])
    BY <2>1, EachLowerIs
  <2> HIDE DEF q, n
  <2>4. n \in 1 .. n
    BY <1>1
  <2>5. Lower(Append(ls[n], c)) = Append(Lower(ls[n]), LowerLetter(c))
    <3>1. ls[n] \in Seq(Y) /\ c \in Y
      BY <1>1, <1>2, <1>4, <2>4
    <3> HIDE DEF Y
    <3> QED BY <3>1, <1>2, LowerAppend
  <2>6. \A k \in 1 .. n : p[k] = q[k]
    <3> TAKE k \in 1 .. n
    <3>1. k \in 1 .. n - 1 \/ k = n
      BY <1>1
    <3> QED BY <3>1, <1>1, <2>1, <2>2, <2>3, <2>4, <2>5
  <2>7. p \in Seq(Seq(Y)) /\ q \in Seq(Seq(Y))
    BY <2>2, <2>3 DEF LabelLists
  <2>8. p = q
    BY <2>2, <2>3, <2>6, <2>7, SeqEqual
  <2> QED BY <2>8 DEF p, q, r, es
<1> QED BY <1>3, <1>4

\* The labels of a name in small letters are its labels in small letters.
LEMMA LabelsLower ==
  ASSUME NEW X, Alphabet(X)
  PROVE  \A s \in Seq(X) : Labels(Lower(s)) = EachLower(Labels(s))
<1> DEFINE S == {s \in Seq(X) : Labels(Lower(s)) = EachLower(Labels(s))}
<1>1. (\A d \in X : LowerLetter(d) \in X) /\ "." \in X
  BY DEF Alphabet
<1>2. <<>> \in S
  <2>1. Lower(<<>>) = <<>> /\ <<>> \in Seq(X)
    BY EmptySeq DEF Lower
  <2>2. EachLower(<<<<>>>>) = <<<<>>>>
    BY <2>1 DEF EachLower
  <2>3. Labels(<<>>) = <<<<>>>>
    BY <1>1, <2>1, LabelsGrow
  <2> QED BY <2>1, <2>2, <2>3
<1>3. ASSUME NEW s \in Seq(X), NEW c \in X, s \in S PROVE Append(s, c) \in S
  <2>1. Lower(Append(s, c)) = Append(Lower(s), LowerLetter(c)) /\ Append(s, c) \in Seq(X)
    BY <1>1, LowerAppend, AppendProperties
  <2>2. Lower(s) \in Seq(X) /\ LowerLetter(c) \in X
    BY <1>1, LowerIs
  <2>3. Labels(Append(Lower(s), LowerLetter(c))) = NextLetter(Labels(Lower(s)), LowerLetter(c))
    BY <2>2, LabelsGrow
  <2>4. Labels(Append(s, c)) = NextLetter(Labels(s), c) /\ Labels(s) \in LabelLists(X)
    BY LabelsGrow, LabelsSplit
  <2>5. NextLetter(EachLower(Labels(s)), LowerLetter(c)) = EachLower(NextLetter(Labels(s), c))
    BY <2>4, NextLower
  <2>6. Labels(Lower(s)) = EachLower(Labels(s))
    BY <1>3
  <2>7. Labels(Lower(Append(s, c))) = EachLower(Labels(Append(s, c)))
    BY <2>1, <2>3, <2>4, <2>5, <2>6
  <2> QED BY <2>1, <2>7
<1>4. Seq(X) \subseteq S
  <2> HIDE DEF S
  <2> QED BY <1>2, <1>3, SeqGrows
<1> QED BY <1>4

---------------------------------------------------------------------------
(* Joining what was split                                                *)

\* r is s, then t.
Both(r, s, t) ==
  /\ Len(r) = Len(s) + Len(t)
  /\ \A k \in 1 .. Len(s) : r[k] = s[k]
  /\ \A k \in 1 .. Len(t) : r[Len(s) + k] = t[k]

\* A concatenation is the first sequence, then the second.
LEMMA ConcatIsBoth ==
  ASSUME NEW X, NEW s \in Seq(X), NEW t \in Seq(X)
  PROVE  s \o t \in Seq(X) /\ Len(s) \in Nat /\ Len(t) \in Nat /\ Both(s \o t, s, t)
BY ConcatAt DEF Both

\* Three sequences, one after the other.
Regroups(r, s, t) == (r \o s) \o t = r \o (s \o t)

\* How concatenations are bracketed is no matter.
LEMMA Concatenates ==
  ASSUME NEW X
  PROVE  \A r, s, t \in Seq(X) : r \o s \in Seq(X) /\ Regroups(r, s, t)
<1>1. \A x, y, z \in Seq(X) : (x \o y) \o z = x \o (y \o z)
  BY ConcatAssociative
<1>2. \A x, y \in Seq(X) : x \o y \in Seq(X)
  BY ConcatProperties
<1>3. \A r, s, t \in Seq(X) : Regroups(r, s, t)
  BY <1>1, Zenon DEF Regroups
<1> QED BY <1>2, <1>3, Zenon

\* Letters go to the second of two lists.
Passes(ks, ls, X) == \A c \in X : NextLetter(ks \o ls, c) = ks \o NextLetter(ls, c)

\* With labels before it, a list of labels takes the next letter as it does alone.
LEMMA NextOfBoth ==
  ASSUME NEW X, NEW ks, NEW ls, ks \in LabelLists(X), ls \in LabelLists(X)
  PROVE  Passes(ks, ls, X)
<1> SUFFICES ASSUME NEW c \in X PROVE NextLetter(ks \o ls, c) = ks \o NextLetter(ls, c)
  BY DEF Passes
<1> DEFINE A == Seq(InLabel(X))
           m == Len(ks)
           n == Len(ls)
           ab == ks \o ls
           p == NextLetter(ab, c)
           r == NextLetter(ls, c)
           q == ks \o r
<1>1. ks \in Seq(A) /\ ls \in Seq(A) /\ m \in Nat \ {0} /\ n \in Nat \ {0}
  <2>1. ks \in Seq(A) /\ ls \in Seq(A) /\ m > 0 /\ n > 0
    BY DEF LabelLists
  <2> HIDE DEF A
  <2>2. m \in Nat /\ n \in Nat
    BY <2>1, LenProperties
  <2> QED BY <2>1, <2>2
<1>2. /\ ab \in Seq(A) /\ Len(ab) = m + n
      /\ \A k \in 1 .. m : ab[k] = ks[k]
      /\ \A k \in 1 .. n : ab[m + k] = ls[k]
  <2>1. ks \in Seq(A) /\ ls \in Seq(A)
    BY <1>1
  <2> HIDE DEF A, m, n, ab
  <2>2. ks \o ls \in Seq(A) /\ Both(ks \o ls, ks, ls)
    BY <2>1, ConcatIsBoth
  <2> QED BY <2>2 DEF Both, m, n, ab
<1>3. ab \in LabelLists(X)
  <2> HIDE DEF ab, m, n
  <2>1. m + n > 0
    BY <1>1
  <2> QED BY <1>2, <2>1 DEF LabelLists
<1>4. CASE c = "."
  <2>1. /\ p = Append(ab, <<>>) /\ r = Append(ls, <<>>)
    BY <1>3, <1>4, NextDot
  <2>2. <<>> \in A
    BY EmptySeq
  <2> HIDE DEF A
  <2>3. Append(ab, <<>>) = ab \o <<<<>>>> /\ Append(ls, <<>>) = ls \o <<<<>>>>
    BY <1>1, <1>2, <2>2, AppendIsConcat
  <2>4. <<<<>>>> \in Seq(A)
    BY <2>2
  <2>5. (ks \o ls) \o <<<<>>>> = ks \o (ls \o <<<<>>>>)
    <3> DEFINE e == <<<<>>>>
    <3>1. ks \in Seq(A) /\ ls \in Seq(A) /\ e \in Seq(A)
      BY <1>1, <2>4
    <3> HIDE DEF e, m, n, ab, p, r, q
    <3>2. Regroups(ks, ls, e)
      BY <3>1, Concatenates
    <3> QED BY <3>2, Zenon DEF Regroups, e
  <2> QED BY <1>3, <2>1, <2>3, <2>5
<1>5. CASE c # "."
  <2>0. c \in InLabel(X)
    BY <1>5 DEF InLabel
  <2>1. /\ p \in LabelLists(X) /\ Len(p) = Len(ab) /\ p[Len(ab)] = Append(ab[Len(ab)], c)
        /\ \A k \in 1 .. Len(ab) - 1 : p[k] = ab[k]
    <3> HIDE DEF ab
    <3>1. p \in LabelLists(X) /\ GoesToLast(c, ab)
      BY <2>0, <1>3, NextPlain
    <3> QED BY <3>1, Zenon DEF GoesToLast
  <2>2. /\ r \in LabelLists(X) /\ Len(r) = n /\ r[n] = Append(ls[n], c)
        /\ \A k \in 1 .. n - 1 : r[k] = ls[k]
    <3>1. r \in LabelLists(X) /\ GoesToLast(c, ls)
      BY <2>0, NextPlain
    <3> QED BY <3>1, Zenon DEF GoesToLast
  <2>3. p \in Seq(A) /\ r \in Seq(A)
    BY <2>1, <2>2 DEF LabelLists
  <2> HIDE DEF p, r, ab, A
  <2>4. /\ q \in Seq(A) /\ Len(q) = m + Len(r)
        /\ \A k \in 1 .. m : q[k] = ks[k]
        /\ \A k \in 1 .. Len(r) : q[m + k] = r[k]
    <3>1. ks \in Seq(A) /\ r \in Seq(A)
      BY <1>1, <2>3
    <3> HIDE DEF m, n, q
    <3>2. ks \o r \in Seq(A) /\ Both(ks \o r, ks, r)
      BY <3>1, ConcatIsBoth
    <3> QED BY <3>2 DEF Both, m, q
  <2> HIDE DEF q, m, n
  <2>5. \A k \in 1 .. m + n : p[k] = q[k]
    <3> TAKE k \in 1 .. m + n
    <3>1. CASE k \in 1 .. m
      <4>1. k \in 1 .. (m + n) - 1
        BY <3>1, <1>1
      <4> QED BY <3>1, <4>1, <1>2, <2>1, <2>4
    <3>2. CASE k = m + n
      <4>1. n \in 1 .. n
        BY <1>1
      <4>2. p[k] = Append(ab[m + n], c) /\ ab[m + n] = ls[n]
        BY <3>2, <4>1, <1>2, <2>1
      <4>3. q[k] = r[n]
        BY <3>2, <4>1, <2>2, <2>4
      <4> QED BY <4>2, <4>3, <2>2
    <3>3. CASE k \in m + 1 .. (m + n) - 1
      <4> DEFINE j == k - m
      <4>1. j \in 1 .. n - 1 /\ j \in 1 .. n /\ k = m + j /\ k \in 1 .. (m + n) - 1
        BY <3>3, <1>1
      <4> HIDE DEF j
      <4>2. p[k] = ls[j]
        BY <4>1, <1>2, <2>1
      <4>3. q[k] = ls[j]
        BY <4>1, <2>2, <2>4
      <4> QED BY <4>2, <4>3
    <3>4. k \in 1 .. m \/ k = m + n \/ k \in m + 1 .. (m + n) - 1
      BY <1>1
    <3> QED BY <3>1, <3>2, <3>3, <3>4
  <2>6. p = q
    <3>1. Len(p) = m + n /\ Len(q) = m + n
      BY <1>2, <2>1, <2>2, <2>4
    <3> QED BY <3>1, <2>3, <2>4, <2>5, SeqEqual
  <2> QED BY <1>3, <2>6 DEF p, q, r, ab
<1> QED BY <1>4, <1>5

\* The labels on both sides of a dot.
LEMMA LabelsConcat ==
  ASSUME NEW X, "." \in X, NEW s \in Seq(X)
  PROVE  \A t \in Seq(X) : /\ (s \o <<".">>) \o t \in Seq(X)
                           /\ Labels((s \o <<".">>) \o t) = Labels(s) \o Labels(t)
<1> DEFINE u == s \o <<".">>
           S == {t \in Seq(X) : Labels(u \o t) = Labels(s) \o Labels(t)}
<1>1. u \in Seq(X) /\ u = Append(s, ".")
  <2>1. Append(s, ".") = u /\ Append(s, ".") \in Seq(X)
    BY AppendIsConcat, AppendProperties
  <2> QED BY <2>1
<1>2. Labels(s) \in LabelLists(X)
  BY LabelsSplit
<1>3. Labels(u) = Labels(s) \o <<<<>>>>
  <2>1. Labels(u) = Append(Labels(s), <<>>)
    <3>1. Labels(u) = NextLetter(Labels(s), ".")
      BY <1>1, LabelsGrow
    <3>2. NextLetter(Labels(s), ".") = Append(Labels(s), <<>>)
      BY <1>2, NextDot
    <3> QED BY <3>1, <3>2
  <2>2. Labels(s) \in Seq(Seq(InLabel(X))) /\ <<>> \in Seq(InLabel(X))
    BY <1>2, EmptySeq DEF LabelLists
  <2> DEFINE A == Seq(InLabel(X))
  <2>3. Append(Labels(s), <<>>) = Labels(s) \o <<<<>>>>
    <3>1. Labels(s) \in Seq(A) /\ <<>> \in A
      BY <2>2
    <3> HIDE DEF A
    <3> QED BY <3>1, AppendIsConcat
  <2> QED BY <2>1, <2>3
<1> HIDE DEF u
<1>4. <<>> \in S
  <2>1. u \o <<>> = u /\ <<>> \in Seq(X)
    BY <1>1, ConcatEmptySeq, EmptySeq
  <2>2. Labels(<<>>) = <<<<>>>>
    BY <2>1, LabelsGrow
  <2> QED BY <2>1, <2>2, <1>3
<1>5. ASSUME NEW t \in Seq(X), NEW c \in X, t \in S PROVE Append(t, c) \in S
  <2>1. Append(t, c) \in Seq(X) /\ Append(t, c) = t \o <<c>> /\ u \o t \in Seq(X) /\ <<c>> \in Seq(X)
    BY <1>1, AppendProperties, AppendIsConcat, ConcatProperties
  <2>2. u \o Append(t, c) = Append(u \o t, c)
    <3>1. Append(u \o t, c) = (u \o t) \o <<c>>
      BY <2>1, AppendIsConcat
    <3>2. (u \o t) \o <<c>> = u \o (t \o <<c>>)
      <4> DEFINE e == <<c>>
      <4>1. e \in Seq(X)
        BY <2>1
      <4> HIDE DEF e
      <4>2. Regroups(u, t, e)
        BY <1>1, <4>1, Concatenates
      <4> QED BY <4>2, Zenon DEF Regroups, e
    <3> QED BY <2>1, <3>1, <3>2
  <2>3. Labels(Append(u \o t, c)) = NextLetter(Labels(u \o t), c)
        /\ Labels(Append(t, c)) = NextLetter(Labels(t), c)
    BY <2>1, LabelsGrow
  <2>4. Labels(u \o t) = Labels(s) \o Labels(t) /\ Labels(t) \in LabelLists(X)
    BY <1>5, LabelsSplit
  <2>5. NextLetter(Labels(s) \o Labels(t), c) = Labels(s) \o NextLetter(Labels(t), c)
    <3> DEFINE ks == Labels(s)
               ls == Labels(t)
    <3>1. ks \in LabelLists(X) /\ ls \in LabelLists(X) /\ c \in X
      BY <1>2, <2>4
    <3> HIDE DEF ks, ls
    <3>2. NextLetter(ks \o ls, c) = ks \o NextLetter(ls, c)
      <4>1. Passes(ks, ls, X)
        BY <3>1, NextOfBoth
      <4> QED BY <4>1 DEF Passes
    <3> QED BY <3>2 DEF ks, ls
  <2>6. Labels(u \o Append(t, c)) = Labels(s) \o Labels(Append(t, c))
    BY <2>2, <2>3, <2>4, <2>5
  <2> QED BY <2>1, <2>6
<1>6. Seq(X) \subseteq S
  <2> HIDE DEF S
  <2> QED BY <1>4, <1>5, SeqGrows
<1> QED BY <1>1, <1>6, ConcatProperties DEF u

\* A label is its only label.
LEMMA LabelsOfLabel ==
  ASSUME NEW X
  PROVE  \A l \in Seq(InLabel(X)) : Labels(l) = <<l>>
<1> DEFINE Y == InLabel(X)
           S == {l \in Seq(Y) : Labels(l) = <<l>>}
<1>1. ASSUME NEW l \in Seq(Y), NEW c \in Y, l \in S PROVE Append(l, c) \in S
  <2>1. Append(l, c) \in Seq(Y)
    <3> HIDE DEF Y
    <3> QED BY AppendProperties
  <2>2. Labels(Append(l, c)) = NextLetter(<<l>>, c)
    <3>1. Labels(Append(l, c)) = NextLetter(Labels(l), c)
      <4> HIDE DEF Y, S
      <4> QED BY LabelsGrow
    <3> QED BY <1>1, <3>1
  <2>3. NextLetter(<<l>>, c) = <<Append(l, c)>>
    <3>1. c # "."
      BY DEF InLabel
    <3>2. Len(<<l>>) = 1 /\ <<l>>[1] = l
      OBVIOUS
    <3>3. NextLetter(<<l>>, c) = [<<l>> EXCEPT ![1] = Append(l, c)]
      BY <3>1, <3>2 DEF NextLetter
    <3> HIDE DEF Y, S
    <3>4. [<<l>> EXCEPT ![1] = Append(l, c)] = <<Append(l, c)>>
      OBVIOUS
    <3> QED BY <3>3, <3>4
  <2> QED BY <2>1, <2>2, <2>3
<1>2. <<>> \in S
  <2>1. <<>> \in Seq(Y)
    BY EmptySeq
  <2>2. Labels(<<>>) = <<<<>>>>
    <3> DEFINE Z == {"a"}
    <3>1. <<>> \in Seq(Z) /\ "a" \in Z
      BY EmptySeq
    <3> QED BY <3>1, LabelsGrow
  <2> QED BY <2>1, <2>2
<1>3. Seq(Y) \subseteq S
  <2> HIDE DEF S, Y
  <2> QED BY <1>1, <1>2, SeqGrows
<1> QED BY <1>3

\* What Join concatenates.
Dotted(ls) == [k \in DOMAIN ls |-> <<".">> \o ls[k]]

\* One label more is one sequence more to concatenate.
LEMMA DottedIs ==
  ASSUME NEW X, "." \in X, NEW ls, ls \in Seq(Seq(InLabel(X))), NEW l, l \in Seq(InLabel(X))
  PROVE  /\ l \in Seq(X) /\ <<".">> \o l \in Seq(X)
         /\ Dotted(ls) \in Seq(Seq(X))
         /\ Append(ls, l) \in Seq(Seq(InLabel(X)))
         /\ Dotted(Append(ls, l)) = Append(Dotted(ls), <<".">> \o l)
<1> DEFINE A == Seq(InLabel(X))
           B == Seq(X)
           n == Len(ls)
           ks == Append(ls, l)
<1>1. \A x \in A : x \in B
  <2>1. InLabel(X) \subseteq X
    BY DEF InLabel
  <2> QED BY <2>1, SeqMonotonic
<1>2. \A x \in A : <<".">> \o x \in B
  <2> TAKE x \in A
  <2>1. <<".">> \in B /\ x \in B
    BY <1>1
  <2> QED BY <2>1, ConcatProperties
<1>3. ls \in Seq(A) /\ l \in A
  OBVIOUS
<1> HIDE DEF A, B
<1>4. n \in Nat /\ DOMAIN ls = 1 .. n /\ \A k \in 1 .. n : ls[k] \in A
  BY <1>3, LenProperties, ElementOfSeq
<1>5. ks \in Seq(A) /\ Len(ks) = n + 1 /\ ks[n + 1] = l /\ \A k \in 1 .. n : ks[k] = ls[k]
  BY <1>3, AppendProperties
<1> HIDE DEF n, ks
<1>6. DOMAIN ks = 1 .. n + 1
  BY <1>5, LenProperties
<1>7. /\ Dotted(ls) \in [1 .. n -> B] /\ Dotted(ls) \in Seq(B) /\ Len(Dotted(ls)) = n
      /\ \A k \in 1 .. n : Dotted(ls)[k] = <<".">> \o ls[k]
  <2>1. Dotted(ls) = [k \in 1 .. n |-> <<".">> \o ls[k]]
    BY <1>4 DEF Dotted
  <2>2. Dotted(ls) \in [1 .. n -> B]
    BY <2>1, <1>2, <1>4
  <2>3. \A k \in 1 .. n : Dotted(ls)[k] = <<".">> \o ls[k]
    BY <2>1
  <2>4. Dotted(ls) \in Seq(B) /\ Len(Dotted(ls)) = n
    BY <1>4, <2>2, SeqDef, LenProperties
  <2> QED BY <2>2, <2>3, <2>4
<1> DEFINE d == <<".">> \o l
           r == Append(Dotted(ls), d)
<1>8. d \in B
  BY <1>2, <1>3
<1> HIDE DEF d
<1>9. /\ r \in Seq(B) /\ Len(r) = n + 1 /\ r[n + 1] = d
      /\ \A k \in 1 .. n : r[k] = Dotted(ls)[k]
  BY <1>7, <1>8, AppendProperties
<1> HIDE DEF r
<1>10. Dotted(ks) = r
  <2>1. r = [k \in 1 .. n + 1 |-> r[k]]
    BY <1>9, LenProperties
  <2>2. Dotted(ks) = [k \in 1 .. n + 1 |-> <<".">> \o ks[k]]
    BY <1>6 DEF Dotted
  <2>3. \A k \in 1 .. n + 1 : <<".">> \o ks[k] = r[k]
    <3> TAKE k \in 1 .. n + 1
    <3>1. CASE k \in 1 .. n
      <4>1. r[k] = <<".">> \o ls[k] /\ ks[k] = ls[k]
        BY <3>1, <1>5, <1>7, <1>9
      <4> QED BY <4>1
    <3>2. CASE k = n + 1
      BY <3>2, <1>5, <1>9 DEF d
    <3> QED BY <3>1, <3>2, <1>4
  <2>4. [k \in 1 .. n + 1 |-> <<".">> \o ks[k]] = [k \in 1 .. n + 1 |-> r[k]]
    BY <2>3
  <2> QED BY <2>1, <2>2, <2>4
<1> QED BY <1>1, <1>3, <1>5, <1>7, <1>8, <1>10 DEF A, B, ks, r, d

\* Without its dot.
LEMMA TailOfDot ==
  ASSUME NEW X, "." \in X, NEW s, s \in Seq(X)
  PROVE  Tail(<<".">> \o s) = s
<1> DEFINE d == <<".">>
           r == d \o s
           n == Len(s)
<1>1. d \in Seq(X) /\ Len(d) = 1 /\ n \in Nat
  BY LenProperties
<1> HIDE DEF d
<1>2. r \in Seq(X) /\ Both(r, d, s)
  BY <1>1, ConcatIsBoth
<1>3. Len(r) = n + 1 /\ \A k \in 1 .. n : r[1 + k] = s[k]
  BY <1>1, <1>2 DEF Both
<1> HIDE DEF r, n
<1>4. r # <<>>
  BY <1>1, <1>3, EmptySeq
<1>5. Tail(r) \in Seq(X) /\ Len(Tail(r)) = n /\ \A k \in 1 .. n : Tail(r)[k] = r[k + 1]
  <2>1. Tail(r) \in Seq(X) /\ Len(Tail(r)) = Len(r) - 1
        /\ \A k \in 1 .. Len(Tail(r)) : Tail(r)[k] = r[k + 1]
    BY <1>2, <1>4, HeadTailProperties
  <2>2. Len(r) - 1 = n
    BY <1>1, <1>3
  <2> QED BY <2>1, <2>2
<1>6. \A k \in 1 .. n : Tail(r)[k] = s[k]
  <2> TAKE k \in 1 .. n
  <2>1. 1 + k = k + 1
    OBVIOUS
  <2> QED BY <2>1, <1>3, <1>5
<1>7. Tail(r) = s
  BY <1>5, <1>6, SeqEqual DEF n
<1> QED BY <1>7 DEF r, d

\* Induction over lists of labels.
LEMMA ListsGrow ==
  ASSUME NEW X, NEW S,
         \A l \in Seq(InLabel(X)) : <<l>> \in S,
         \A ls \in LabelLists(X), l \in Seq(InLabel(X)) : ls \in S => Append(ls, l) \in S
  PROVE  LabelLists(X) \subseteq S
<1> DEFINE A == Seq(InLabel(X))
           T == {ls \in Seq(A) : ls = <<>> \/ ls \in S}
<1>1. <<>> \in T
  <2> HIDE DEF A
  <2> QED BY EmptySeq
<1>2. ASSUME NEW ls \in Seq(A), NEW l \in A, ls \in T PROVE Append(ls, l) \in T
  <2>1. Append(ls, l) \in Seq(A)
    <3> HIDE DEF A
    <3> QED BY AppendProperties
  <2>2. CASE ls = <<>>
    <3>1. Append(ls, l) = <<l>>
      BY <2>2
    <3>2. <<l>> \in S
      OBVIOUS
    <3> QED BY <2>1, <3>1, <3>2
  <2>3. CASE ls # <<>>
    <3>1. Len(ls) \in Nat \ {0}
      <4> HIDE DEF A
      <4> QED BY <2>3, EmptySeq
    <3>2. ls \in LabelLists(X) /\ ls \in S
      <4>1. ls \in Seq(Seq(InLabel(X)))
        OBVIOUS
      <4>2. Len(ls) > 0
        BY <3>1
      <4> QED BY <4>1, <4>2, <1>2, <2>3 DEF LabelLists
    <3> QED BY <2>1, <3>2
  <2> QED BY <2>2, <2>3
<1>3. Seq(A) \subseteq T
  <2> HIDE DEF A, T
  <2> QED BY <1>1, <1>2, SeqGrows
<1>4. ASSUME NEW ls \in LabelLists(X) PROVE ls \in S
  <2>1. ls \in Seq(A) /\ Len(ls) > 0
    BY DEF LabelLists
  <2>2. ls # <<>>
    BY <2>1
  <2> QED BY <2>1, <2>2, <1>3
<1> QED BY <1>4

\* Joined, with a dot before.
JoinsTo(ls, X) == Join(ls) \in Seq(X) /\ FlattenSeq(Dotted(ls)) = <<".">> \o Join(ls)

\* One label, joined, is itself.
LEMMA JoinOne ==
  ASSUME NEW X, "." \in X, NEW l, l \in Seq(InLabel(X))
  PROVE  Join(<<l>>) = l /\ JoinsTo(<<l>>, X)
<1> DEFINE d == <<".">> \o l
           A == Seq(InLabel(X))
<1>1. l \in Seq(X) /\ d \in Seq(X)
  <2>1. <<>> \in Seq(A)
    <3> HIDE DEF A
    <3> QED BY EmptySeq
  <2> QED BY <2>1, DottedIs
<1>2. Dotted(<<l>>) = <<d>>
  BY DEF Dotted
<1>3. Join(<<l>>) = Tail(FlattenSeq(Dotted(<<l>>)))
  BY DEF Join, Dotted
<1> HIDE DEF d
<1>4. FlattenSeq(<<d>>) = d
  <2>1. <<>> \in Seq(Seq(X)) /\ FlattenSeq(<<>>) = <<>>
    BY EmptySeq DEF FlattenSeq
  <2>2. Append(<<>>, d) = <<d>>
    OBVIOUS
  <2>3. FlattenSeq(Append(<<>>, d)) = <<>> \o d
    BY <1>1, <2>1, FlattenAppend
  <2>4. <<>> \o d = d
    BY <1>1, ConcatEmptySeq
  <2> QED BY <2>2, <2>3, <2>4
<1>5. Tail(d) = l
  BY <1>1, TailOfDot DEF d
<1> QED BY <1>1, <1>2, <1>3, <1>4, <1>5 DEF JoinsTo, d

\* Joined, with one label more.
JoinsAfter(ls, l) == Join(Append(ls, l)) = (Join(ls) \o <<".">>) \o l

\* One label more is joined after a dot.
LEMMA JoinMore ==
  ASSUME NEW X, "." \in X, NEW ls, ls \in LabelLists(X), NEW l, l \in Seq(InLabel(X)), JoinsTo(ls, X)
  PROVE  JoinsAfter(ls, l) /\ JoinsTo(Append(ls, l), X)
<1> DEFINE d == <<".">>
           dl == d \o l
           J == Join(ls)
           ks == Append(ls, l)
           r == (J \o d) \o l
<1>1. /\ l \in Seq(X) /\ dl \in Seq(X) /\ Dotted(ls) \in Seq(Seq(X))
      /\ Dotted(ks) = Append(Dotted(ls), dl)
  BY DottedIs DEF LabelLists
<1>2. J \in Seq(X) /\ FlattenSeq(Dotted(ls)) = d \o J
  BY DEF JoinsTo
<1>3. Join(ks) = Tail(FlattenSeq(Dotted(ks)))
  BY DEF Join, Dotted
<1>4. d \in Seq(X)
  OBVIOUS
<1> HIDE DEF J, ks
<1>5. FlattenSeq(Append(Dotted(ls), dl)) = FlattenSeq(Dotted(ls)) \o dl
  <2> HIDE DEF dl
  <2> QED BY <1>1, FlattenAppend
<1>6. FlattenSeq(Dotted(ks)) = (d \o J) \o (d \o l)
  BY <1>1, <1>2, <1>5
<1> HIDE DEF d
<1>7. J \o d \in Seq(X) /\ r \in Seq(X)
  <2>1. J \o d \in Seq(X)
    BY <1>2, <1>4, ConcatProperties
  <2> DEFINE Jd == J \o d
  <2>2. Jd \in Seq(X)
    BY <2>1
  <2> HIDE DEF Jd
  <2>3. Jd \o l \in Seq(X)
    BY <1>1, <2>2, ConcatProperties
  <2> QED BY <2>1, <2>3 DEF Jd
<1>8. (d \o J) \o (d \o l) = d \o r
  <2>1. d \in Seq(X) /\ J \in Seq(X) /\ l \in Seq(X) /\ dl \in Seq(X)
    BY <1>1, <1>2, <1>4
  <2> HIDE DEF dl
  <2>2. Regroups(d, J, dl) /\ Regroups(J, d, l)
    BY <2>1, Concatenates
  <2>3. (d \o J) \o dl = d \o (J \o dl)
    BY <2>2, Zenon DEF Regroups
  <2>4. J \o dl = r
    BY <2>2, Zenon DEF Regroups, dl
  <2> QED BY <2>3, <2>4, Zenon DEF dl
<1> HIDE DEF r
<1>9. Tail(d \o r) = r
  BY <1>7, TailOfDot DEF d
<1>10. Join(ks) = r /\ FlattenSeq(Dotted(ks)) = d \o r
  BY <1>3, <1>6, <1>8, <1>9
<1> QED BY <1>7, <1>10 DEF JoinsTo, JoinsAfter, d, ks, r, J

\* What Join returns, of one label more.
LEMMA JoinIs ==
  ASSUME NEW X, "." \in X
  PROVE  \A ls \in LabelLists(X) : JoinsTo(ls, X)
<1> DEFINE S == {ls \in LabelLists(X) : JoinsTo(ls, X)}
<1>1. ASSUME NEW l \in Seq(InLabel(X)) PROVE <<l>> \in S
  <2>1. l \in Seq(InLabel(X))
    OBVIOUS
  <2>2. <<l>> \in Seq(Seq(InLabel(X))) /\ Len(<<l>>) = 1
    OBVIOUS
  <2>3. <<l>> \in LabelLists(X)
    BY <2>2 DEF LabelLists
  <2> QED BY <2>1, <2>3, JoinOne
<1>2. ASSUME NEW ls \in LabelLists(X), NEW l \in Seq(InLabel(X)), ls \in S PROVE Append(ls, l) \in S
  <2>1. JoinsTo(ls, X) /\ ls \in LabelLists(X) /\ l \in Seq(InLabel(X))
    BY <1>2
  <2>2. Append(ls, l) \in LabelLists(X)
    <3>1. ls \in Seq(Seq(InLabel(X))) /\ Len(ls) > 0
      BY <2>1 DEF LabelLists
    <3>2. Append(ls, l) \in Seq(Seq(InLabel(X))) /\ Len(Append(ls, l)) = Len(ls) + 1 /\ Len(ls) \in Nat
      BY <2>1, <3>1, AppendProperties, LenProperties
    <3> QED BY <3>1, <3>2 DEF LabelLists
  <2>3. JoinsTo(Append(ls, l), X)
    BY <2>1, JoinMore
  <2> QED BY <2>2, <2>3
<1>3. LabelLists(X) \subseteq S
  <2> HIDE DEF S
  <2> QED BY <1>1, <1>2, ListsGrow
<1> QED BY <1>3

\* One label is a list, and one label more.
LEMMA ListsOf ==
  ASSUME NEW X, NEW l, l \in Seq(InLabel(X))
  PROVE  /\ <<l>> \in LabelLists(X)
         /\ \A ls \in LabelLists(X) : /\ Append(ls, l) \in LabelLists(X) /\ Append(ls, l) = ls \o <<l>>
                                      /\ <<l>> \o ls \in LabelLists(X)
<1> DEFINE A == Seq(InLabel(X))
<1>1. <<l>> \in Seq(A) /\ Len(<<l>>) = 1 /\ l \in A
  OBVIOUS
<1>2. \A ls \in LabelLists(X) : ls \in Seq(A) /\ Len(ls) > 0
  BY DEF LabelLists
<1>3. \A ls \in Seq(A) : Len(ls) > 0 => ls \in LabelLists(X)
  BY DEF LabelLists
<1>5. <<l>> \in LabelLists(X)
  BY <1>1 DEF LabelLists
<1> HIDE DEF A
<1>4. ASSUME NEW ls \in LabelLists(X)
      PROVE  /\ Append(ls, l) \in LabelLists(X) /\ Append(ls, l) = ls \o <<l>>
             /\ <<l>> \o ls \in LabelLists(X)
  <2>1. ls \in Seq(A) /\ Len(ls) > 0 /\ Len(ls) \in Nat
    BY <1>2, LenProperties
  <2>2. Append(ls, l) \in Seq(A) /\ Len(Append(ls, l)) = Len(ls) + 1 /\ Append(ls, l) = ls \o <<l>>
    BY <1>1, <2>1, AppendProperties, AppendIsConcat
  <2> DEFINE o == <<l>>
             r == o \o ls
  <2>4. o \in Seq(A) /\ Len(o) = 1
    BY <1>1
  <2> HIDE DEF o
  <2>3. r \in Seq(A) /\ Len(r) = Len(o) + Len(ls)
    BY <2>1, <2>4, ConcatProperties
  <2> HIDE DEF r
  <2>5. r \in LabelLists(X) /\ Append(ls, l) \in LabelLists(X)
    <3>1. Len(r) > 0 /\ Len(Append(ls, l)) > 0
      BY <2>1, <2>2, <2>3, <2>4
    <3> QED BY <3>1, <1>3, <2>2, <2>3
  <2> QED BY <2>2, <2>5 DEF r, o
<1> QED BY <1>4, <1>5

\* The labels of joined labels are these labels.
LEMMA LabelsOfJoin ==
  ASSUME NEW X, "." \in X
  PROVE  \A ls \in LabelLists(X) : Labels(Join(ls)) = ls
<1> DEFINE S == {ls \in LabelLists(X) : Labels(Join(ls)) = ls}
<1>1. ASSUME NEW l \in Seq(InLabel(X)) PROVE <<l>> \in S
  <2>1. l \in Seq(InLabel(X))
    OBVIOUS
  <2>2. Join(<<l>>) = l /\ <<l>> \in LabelLists(X)
    BY <2>1, JoinOne, ListsOf
  <2>3. Labels(l) = <<l>>
    BY LabelsOfLabel
  <2> QED BY <2>2, <2>3
<1>2. ASSUME NEW ls \in LabelLists(X), NEW l \in Seq(InLabel(X)), ls \in S PROVE Append(ls, l) \in S
  <2>1. l \in Seq(InLabel(X)) /\ ls \in LabelLists(X)
    OBVIOUS
  <2>2. JoinsTo(ls, X)
    BY JoinIs
  <2>9. JoinsAfter(ls, l)
    BY <2>1, <2>2, JoinMore
  <2>3. Join(Append(ls, l)) = (Join(ls) \o <<".">>) \o l /\ Join(ls) \in Seq(X)
    BY <2>2, <2>9, Zenon DEF JoinsTo, JoinsAfter
  <2>4. l \in Seq(X)
    <3>1. <<>> \in Seq(Seq(InLabel(X)))
      BY EmptySeq
    <3> QED BY <2>1, <3>1, DottedIs
  <2>5. Labels((Join(ls) \o <<".">>) \o l) = Labels(Join(ls)) \o Labels(l)
    BY <2>3, <2>4, LabelsConcat
  <2>6. Labels(Join(ls)) = ls /\ Labels(l) = <<l>>
    BY <1>2, LabelsOfLabel
  <2>7. Append(ls, l) = ls \o <<l>> /\ Append(ls, l) \in LabelLists(X)
    BY <2>1, ListsOf
  <2>8. Labels(Join(Append(ls, l))) = ls \o <<l>>
    BY <2>3, <2>5, <2>6
  <2> QED BY <2>7, <2>8
<1>3. LabelLists(X) \subseteq S
  <2> HIDE DEF S
  <2> QED BY <1>1, <1>2, ListsGrow
<1> QED BY <1>3

\* A label before the others.
LEMMA JoinFront ==
  ASSUME NEW X, "." \in X, NEW l, l \in Seq(InLabel(X))
  PROVE  \A ls \in LabelLists(X) : Join(<<l>> \o ls) = (l \o <<".">>) \o Join(ls)
<1> DEFINE S == {ls \in LabelLists(X) : Join(<<l>> \o ls) = (l \o <<".">>) \o Join(ls)}
           o == <<l>>
           d == l \o <<".">>
<1>1. l \in Seq(X) /\ d \in Seq(X) /\ o \in LabelLists(X) /\ Join(o) = l /\ JoinsTo(o, X)
  <2>1. <<>> \in Seq(Seq(InLabel(X)))
    BY EmptySeq
  <2>2. l \in Seq(X)
    BY <2>1, DottedIs
  <2>3. d \in Seq(X)
    <3>1. <<".">> \in Seq(X)
      OBVIOUS
    <3> QED BY <2>2, <3>1, ConcatProperties
  <2> QED BY <2>2, <2>3, ListsOf, JoinOne
<1>2. ASSUME NEW m \in Seq(InLabel(X)) PROVE <<m>> \in S
  <2>1. m \in Seq(InLabel(X))
    OBVIOUS
  <2>2. <<m>> \in LabelLists(X) /\ Append(o, m) = o \o <<m>> /\ Join(<<m>>) = m
    BY <1>1, <2>1, ListsOf, JoinOne
  <2>4. JoinsAfter(o, m)
    BY <1>1, <2>1, JoinMore
  <2>3. Join(Append(o, m)) = (Join(o) \o <<".">>) \o m
    BY <2>4, Zenon DEF JoinsAfter
  <2> QED BY <1>1, <2>2, <2>3
<1>3. ASSUME NEW ls \in LabelLists(X), NEW m \in Seq(InLabel(X)), ls \in S PROVE Append(ls, m) \in S
  <2> DEFINE J == Join(ls)
             e == <<".">>
  <2>1. m \in Seq(InLabel(X)) /\ ls \in LabelLists(X)
    OBVIOUS
  <2>2. Append(ls, m) \in LabelLists(X) /\ o \o ls \in LabelLists(X)
    BY <1>1, <2>1, ListsOf
  <2>3. Append(o \o ls, m) = o \o Append(ls, m)
    <3> DEFINE A == Seq(InLabel(X))
    <3>1. o \in Seq(A) /\ ls \in Seq(A) /\ o \o ls \in Seq(A) /\ m \in A /\ <<m>> \in Seq(A)
      BY <1>1, <2>1, <2>2 DEF LabelLists
    <3> HIDE DEF A, o, S
    <3>2. Append(o \o ls, m) = (o \o ls) \o <<m>> /\ Append(ls, m) = ls \o <<m>>
      BY <3>1, AppendIsConcat
    <3> DEFINE w == <<m>>
    <3>4. w \in Seq(A)
      BY <3>1
    <3> HIDE DEF w
    <3>3. Regroups(o, ls, w)
      BY <3>1, <3>4, Concatenates
    <3> QED BY <3>2, <3>3, Zenon DEF Regroups, w
  <2>4. JoinsTo(ls, X) /\ JoinsTo(o \o ls, X)
    BY <2>1, <2>2, JoinIs
  <2>5. /\ Join(Append(ls, m)) = (J \o e) \o m
        /\ Join(Append(o \o ls, m)) = (Join(o \o ls) \o e) \o m
    <3> DEFINE ks == o \o ls
    <3>1. ks \in LabelLists(X) /\ JoinsTo(ks, X)
      BY <2>2, <2>4
    <3> HIDE DEF ks
    <3>2. JoinsAfter(ls, m) /\ JoinsAfter(ks, m)
      BY <2>1, <2>4, <3>1, JoinMore
    <3> QED BY <3>2, Zenon DEF JoinsAfter, ks
  <2>6. Join(o \o ls) = d \o J
    BY <1>3
  <2>7. J \in Seq(X) /\ e \in Seq(X) /\ m \in Seq(X)
    <3>1. <<>> \in Seq(Seq(InLabel(X)))
      BY EmptySeq
    <3>2. m \in Seq(X)
      BY <2>1, <3>1, DottedIs
    <3>3. J \in Seq(X)
      BY <2>4 DEF JoinsTo
    <3> QED BY <3>2, <3>3
  <2>8. ((d \o J) \o e) \o m = d \o ((J \o e) \o m)
    <3> DEFINE Je == J \o e
    <3>1. d \in Seq(X)
      BY <1>1
    <3> HIDE DEF J, e, d, S, o
    <3>2. Je \in Seq(X) /\ Regroups(d, J, e)
      BY <2>7, <3>1, Concatenates
    <3> HIDE DEF Je
    <3>3. Regroups(d, Je, m)
      BY <2>7, <3>1, <3>2, Concatenates
    <3> QED BY <3>2, <3>3, Zenon DEF Regroups, Je
  <2>9. Join(o \o Append(ls, m)) = d \o Join(Append(ls, m))
    <3>1. Join(o \o Append(ls, m)) = Join(Append(o \o ls, m))
      BY <2>3
    <3>2. Join(Append(o \o ls, m)) = ((d \o J) \o e) \o m
      BY <2>5, <2>6
    <3> HIDE DEF d, o, J, e
    <3> QED BY <2>5, <2>8, <3>1, <3>2
  <2> QED BY <2>2, <2>9
<1>4. LabelLists(X) \subseteq S
  <2> HIDE DEF S
  <2> QED BY <1>2, <1>3, ListsGrow
<1> QED BY <1>4

---------------------------------------------------------------------------
(* Final dots                                                            *)

\* The letters before the final dots are the first n.
StripsTo(s, n) ==
  /\ n \in 0 .. Len(s)
  /\ n = 0 \/ s[n] # "."
  /\ \A k \in n + 1 .. Len(s) : s[k] = "."

\* A name has letters before its final dots, and they are what StripDots leaves.
LEMMA StripDotsIs ==
  ASSUME NEW X, NEW s \in Seq(X)
  PROVE  /\ \E n : StripsTo(s, n)
         /\ \A n : StripsTo(s, n) => StripDots(s) = SubSeq(s, 1, n)
<1> DEFINE N == Len(s)
           S == {n \in 0 .. N : \A k \in n + 1 .. N : s[k] = "."}
<1>1. N \in Nat
  BY LenProperties
<1> HIDE DEF N
<1>2. N \in S /\ S \subseteq Nat
  BY <1>1
<1>3. PICK n \in S : \A m \in S : n <= m
  <2> HIDE DEF S
  <2> QED BY <1>2, LeastExists
<1>4. n \in 0 .. N /\ \A k \in n + 1 .. N : s[k] = "."
  OBVIOUS
<1>5. n = 0 \/ s[n] # "."
  <2> SUFFICES ASSUME n # 0, s[n] = "." PROVE FALSE
    OBVIOUS
  <2>1. n - 1 \in 0 .. N
    BY <1>1, <1>4
  <2>2. \A k \in (n - 1) + 1 .. N : s[k] = "."
    <3> TAKE k \in (n - 1) + 1 .. N
    <3>1. k = n \/ k \in n + 1 .. N
      BY <1>1, <1>4
    <3> QED BY <3>1, <1>4
  <2>3. n - 1 \in S
    BY <2>1, <2>2
  <2> HIDE DEF S
  <2> QED BY <1>1, <1>3, <1>4, <2>3
<1>6. StripsTo(s, n)
  BY <1>4, <1>5 DEF StripsTo, N
<1>7. ASSUME NEW m, NEW k, StripsTo(s, m), StripsTo(s, k) PROVE m = k
  <2>1. /\ m \in 0 .. N /\ (m = 0 \/ s[m] # ".") /\ \A i \in m + 1 .. N : s[i] = "."
        /\ k \in 0 .. N /\ (k = 0 \/ s[k] # ".") /\ \A i \in k + 1 .. N : s[i] = "."
    BY <1>7 DEF StripsTo, N
  <2> QED BY <1>1, <2>1
<1>8. StripDots(s) = SubSeq(s, 1, CHOOSE i : StripsTo(s, i))
  <2> DEFINE P(i) == /\ i = 0 \/ s[i] # "."
                     /\ \A k \in i + 1 .. Len(s) : s[k] = "."
             C == CHOOSE i \in 0 .. Len(s) : P(i)
  <2>1. StripDots(s) = SubSeq(s, 1, C)
    BY DEF StripDots
  <2>2. C \in 0 .. Len(s) /\ P(C)
    <3>1. n \in 0 .. Len(s) /\ P(n)
      BY <1>6 DEF StripsTo
    <3> HIDE DEF P
    <3> QED BY <3>1
  <2>3. StripsTo(s, C)
    <3> HIDE DEF C
    <3> QED BY <2>2 DEF StripsTo
  <2> HIDE DEF C, P
  <2>4. C = CHOOSE i : StripsTo(s, i)
    BY <1>6, <1>7, <2>3
  <2> QED BY <2>1, <2>4
<1>9. ASSUME NEW m, StripsTo(s, m) PROVE StripDots(s) = SubSeq(s, 1, m)
  <2>1. m = CHOOSE i : StripsTo(s, i)
    BY <1>7, <1>9
  <2> QED BY <1>8, <2>1
<1> QED BY <1>6, <1>9

\* No final dot.
Bare(s) == s = <<>> \/ s[Len(s)] # "."

\* What is left has no final dot, and a name without one is left alone.
LEMMA StripDotsBare ==
  ASSUME NEW X, NEW s \in Seq(X)
  PROVE  /\ StripDots(s) \in Seq(X) /\ Bare(StripDots(s))
         /\ Bare(s) => StripDots(s) = s
         /\ StripDots(s \o <<".">>) = StripDots(s)
<1> DEFINE N == Len(s)
           e == <<".">>
           t == s \o e
<1>1. PICK n : StripsTo(s, n)
  BY StripDotsIs
<1>2. StripDots(s) = SubSeq(s, 1, n) /\ N \in Nat
  BY <1>1, StripDotsIs, LenProperties
<1>3. n \in 0 .. N /\ (n = 0 \/ s[n] # ".") /\ \A i \in n + 1 .. N : s[i] = "."
  BY <1>1 DEF StripsTo
<1>4. /\ SubSeq(s, 1, n) \in Seq(X) /\ Len(SubSeq(s, 1, n)) = n
      /\ \A i \in 1 .. n : SubSeq(s, 1, n)[i] = s[i]
  BY <1>3, FirstOf
<1> HIDE DEF N
<1>5. Bare(StripDots(s))
  <2> DEFINE r == SubSeq(s, 1, n)
  <2>1. r \in Seq(X) /\ Len(r) = n /\ \A i \in 1 .. n : r[i] = s[i]
    BY <1>4
  <2> HIDE DEF r
  <2>2. n = 0 => r = <<>>
    BY <2>1, EmptySeq
  <2>3. n # 0 => r[Len(r)] # "."
    <3> HAVE n # 0
    <3>1. n \in 1 .. n
      BY <1>3
    <3> QED BY <3>1, <2>1, <1>3
  <2>4. Bare(r)
    BY <2>2, <2>3 DEF Bare
  <2> QED BY <2>4, <1>2 DEF r
<1>6. ASSUME Bare(s) PROVE StripDots(s) = s
  <2>1. n = N
    <3>1. CASE s = <<>>
      <4>1. N = 0
        BY <3>1, EmptySeq DEF N
      <4> QED BY <4>1, <1>3
    <3>2. CASE s[N] # "."
      BY <3>2, <1>2, <1>3
    <3> QED BY <1>6, <3>1, <3>2 DEF Bare, N
  <2> QED BY <1>2, <2>1, SubSeqFull DEF N
<1>7. e \in Seq({"."}) /\ Len(e) = 1 /\ e[1] = "."
  OBVIOUS
<1> HIDE DEF e
<1>8. StripDots(t) = StripDots(s)
  <2> DEFINE Z == X \cup {"."}
  <2>1. s \in Seq(Z) /\ e \in Seq(Z)
    BY <1>7, SeqMonotonic
  <2> HIDE DEF Z
  <2>2. t \in Seq(Z) /\ Both(t, s, e)
    BY <2>1, ConcatIsBoth
  <2>3. Len(t) = N + 1 /\ t[N + 1] = "." /\ \A i \in 1 .. N : t[i] = s[i]
    BY <2>2, <1>7 DEF Both, N
  <2> HIDE DEF t
  <2>4. n \in 0 .. N + 1 /\ (n = 0 \/ t[n] # ".") /\ \A i \in n + 1 .. N + 1 : t[i] = "."
    BY <2>3, <1>2, <1>3
  <2>5. StripsTo(t, n)
    BY <2>3, <2>4 DEF StripsTo
  <2>6. StripDots(t) = SubSeq(t, 1, n)
    BY <2>2, <2>5, StripDotsIs
  <2>7. SubSeq(t, 1, n) = SubSeq(s, 1, n)
    <3>1. \A i \in 1 .. n : i \in 1 .. N
      BY <1>2, <1>3
    <3> DEFINE p == SubSeq(t, 1, n)
               q == SubSeq(s, 1, n)
    <3>6. p \in Seq(Z) /\ Len(p) = n /\ \A i \in 1 .. n : p[i] = t[i]
      BY <2>2, <2>3, <2>4, FirstOf
    <3>5. q \in Seq(X) /\ Len(q) = n /\ \A i \in 1 .. n : q[i] = s[i]
      BY <1>4
    <3> HIDE DEF p, q
    <3>7. \A i \in 1 .. n : p[i] = q[i]
      BY <3>1, <3>5, <3>6, <2>3
    <3>8. q \in Seq(Z)
      BY <3>5, SeqMonotonic DEF Z
    <3>9. p = q
      BY <3>5, <3>6, <3>7, <3>8, SeqEqual
    <3> QED BY <3>9 DEF p, q
  <2> QED BY <2>6, <2>7, <1>2
<1> QED BY <1>2, <1>4, <1>5, <1>6, <1>8 DEF t, e

\* Final dots of a name in small letters.
LEMMA StripLower ==
  ASSUME NEW X, Alphabet(X), NEW s \in Seq(X)
  PROVE  Lower(s) \in Seq(X) /\ StripDots(Lower(s)) = Lower(StripDots(s))
<1> DEFINE N == Len(s)
           t == Lower(s)
<1>1. \A d \in X : LowerLetter(d) \in X
  BY DEF Alphabet
<1>2. \A c : LowerLetter(c) = "." <=> c = "."
  BY DEF LowerLetter
<1>3. t \in Seq(X) /\ Len(t) = N /\ N \in Nat /\ \A k \in 1 .. N : t[k] = LowerLetter(s[k])
  BY <1>1, LowerIs
<1>4. PICK n : StripsTo(s, n)
  BY StripDotsIs
<1>5. n \in 0 .. N /\ (n = 0 \/ s[n] # ".") /\ \A i \in n + 1 .. N : s[i] = "."
  BY <1>4 DEF StripsTo
<1> DEFINE p == SubSeq(s, 1, n)
           q == SubSeq(t, 1, n)
<1>6. p \in Seq(X) /\ Len(p) = n /\ \A i \in 1 .. n : p[i] = s[i]
  BY <1>5, FirstOf
<1>7. StripDots(s) = p
  BY <1>4, StripDotsIs
<1> HIDE DEF N, t
<1>8. q \in Seq(X) /\ Len(q) = n /\ \A i \in 1 .. n : q[i] = t[i]
  BY <1>3, <1>5, FirstOf
<1>9. StripsTo(t, n)
  <2>1. n # 0 => n \in 1 .. N
    BY <1>3, <1>5
  <2>2. n = 0 \/ t[n] # "."
    BY <2>1, <1>2, <1>3, <1>5
  <2>3. \A i \in n + 1 .. N : t[i] = "."
    <3> TAKE i \in n + 1 .. N
    <3>1. i \in 1 .. N
      BY <1>3, <1>5
    <3> QED BY <3>1, <1>2, <1>3, <1>5
  <2> QED BY <2>2, <2>3, <1>3, <1>5 DEF StripsTo
<1>10. StripDots(t) = q
  BY <1>3, <1>9, StripDotsIs
<1> HIDE DEF p, q
<1>11. Lower(p) \in Seq(X) /\ Len(Lower(p)) = n /\ \A i \in 1 .. n : Lower(p)[i] = LowerLetter(p[i])
  BY <1>1, <1>6, LowerIs
<1>12. \A i \in 1 .. n : q[i] = Lower(p)[i]
  <2> TAKE i \in 1 .. n
  <2>1. i \in 1 .. N
    BY <1>3, <1>5
  <2> QED BY <2>1, <1>3, <1>6, <1>8, <1>11
<1>13. q = Lower(p)
  BY <1>8, <1>11, <1>12, SeqEqual
<1> QED BY <1>3, <1>7, <1>10, <1>13 DEF t

\* Final dots of a name with a label before it.
LEMMA StripFront ==
  ASSUME NEW X, NEW l, l \in Seq(X), NEW s, s \in Seq(X), StripDots(s) # <<>>
  PROVE  StripDots(l \o s) = l \o StripDots(s)
<1> DEFINE N == Len(s)
           M == Len(l)
           t == l \o s
<1>1. N \in Nat /\ M \in Nat
  BY LenProperties
<1>2. t \in Seq(X) /\ Both(t, l, s)
  BY ConcatIsBoth
<1>3. Len(t) = M + N /\ (\A k \in 1 .. M : t[k] = l[k]) /\ \A k \in 1 .. N : t[M + k] = s[k]
  BY <1>2 DEF Both
<1>4. PICK n : StripsTo(s, n)
  BY StripDotsIs
<1>5. n \in 0 .. N /\ (n = 0 \/ s[n] # ".") /\ \A i \in n + 1 .. N : s[i] = "."
  BY <1>4 DEF StripsTo
<1> DEFINE p == SubSeq(s, 1, n)
           q == SubSeq(t, 1, M + n)
           r == l \o p
<1>6. p \in Seq(X) /\ Len(p) = n /\ \A i \in 1 .. n : p[i] = s[i]
  BY <1>5, FirstOf
<1>7. StripDots(s) = p
  BY <1>4, StripDotsIs
<1>8. n # 0
  BY <1>6, <1>7, EmptySeq
<1> HIDE DEF N, M, t
<1>9. M + n \in 0 .. Len(t)
  BY <1>1, <1>3, <1>5
<1>10. q \in Seq(X) /\ Len(q) = M + n /\ \A i \in 1 .. M + n : q[i] = t[i]
  BY <1>2, <1>9, FirstOf
<1>11. StripsTo(t, M + n)
  <2>1. n \in 1 .. N
    BY <1>1, <1>5, <1>8
  <2>2. t[M + n] # "."
    BY <2>1, <1>3, <1>5
  <2>3. \A i \in M + n + 1 .. Len(t) : t[i] = "."
    <3> TAKE i \in M + n + 1 .. Len(t)
    <3> DEFINE j == i - M
    <3>1. j \in n + 1 .. N /\ j \in 1 .. N /\ i = M + j
      BY <1>1, <1>3, <1>5
    <3> HIDE DEF j
    <3> QED BY <3>1, <1>3, <1>5
  <2>4. \A i \in (M + n) + 1 .. Len(t) : t[i] = "."
    BY <2>3
  <2> QED BY <2>2, <2>4, <1>9 DEF StripsTo
<1>12. StripDots(t) = q
  BY <1>2, <1>11, StripDotsIs
<1> HIDE DEF p, q
<1>13. r \in Seq(X) /\ Both(r, l, p)
  BY <1>6, ConcatIsBoth
<1> HIDE DEF r
<1>14. Len(r) = M + n /\ (\A k \in 1 .. M : r[k] = l[k]) /\ \A k \in 1 .. n : r[M + k] = p[k]
  BY <1>6, <1>13 DEF Both, M
<1>15. \A i \in 1 .. M + n : q[i] = r[i]
  <2> TAKE i \in 1 .. M + n
  <2>1. CASE i \in 1 .. M
    BY <2>1, <1>3, <1>10, <1>14
  <2>2. CASE i \notin 1 .. M
    <3> DEFINE j == i - M
    <3>1. j \in 1 .. n /\ j \in 1 .. N /\ i = M + j
      BY <2>2, <1>1, <1>5
    <3> HIDE DEF j
    <3> QED BY <3>1, <1>3, <1>6, <1>10, <1>14
  <2> QED BY <2>1, <2>2
<1>16. q = r
  BY <1>10, <1>13, <1>14, <1>15, SeqEqual
<1> QED BY <1>7, <1>12, <1>16 DEF t, r

---------------------------------------------------------------------------
(* Labels, normalized                                                    *)

\* Small letters are small letters, and no other letter is a pattern or refused.
LEMMA LowerKeeps ==
  ASSUME NEW s
  PROVE  /\ Lower(Lower(s)) = Lower(s)
         /\ HasGlob(Lower(s)) <=> HasGlob(s)
         /\ "_" \in ToSet(Lower(s)) <=> "_" \in ToSet(s)
<1> DEFINE t == Lower(s)
<1>1. t = [k \in DOMAIN s |-> LowerLetter(s[k])]
  BY DEF Lower
<1>2. Lower(t) = [k \in DOMAIN t |-> LowerLetter(t[k])]
  BY DEF Lower
<1>3. \A c : LowerLetter(LowerLetter(c)) = LowerLetter(c)
  BY DEF LowerLetter
<1> HIDE DEF t
<1>4. DOMAIN t = DOMAIN s /\ \A k \in DOMAIN s : t[k] = LowerLetter(s[k])
  BY <1>1
<1>5. Lower(t) = t
  <2>1. \A k \in DOMAIN s : LowerLetter(t[k]) = LowerLetter(s[k])
    BY <1>3, <1>4
  <2>2. [k \in DOMAIN t |-> LowerLetter(t[k])] = [k \in DOMAIN s |-> LowerLetter(s[k])]
    BY <1>4, <2>1
  <2> QED BY <1>1, <1>2, <2>2
<1>6. \A c : c \in {"*", "?", "_"} => (c \in ToSet(t) <=> c \in ToSet(s))
  <2> TAKE c
  <2> HAVE c \in {"*", "?", "_"}
  <2>1. \A d : LowerLetter(d) = c <=> d = c
    BY DEF LowerLetter
  <2>2. ToSet(t) = {t[k] : k \in DOMAIN s} /\ ToSet(s) = {s[k] : k \in DOMAIN s}
    BY <1>4 DEF ToSet
  <2> QED BY <1>4, <2>1, <2>2
<1>7. HasGlob(t) <=> HasGlob(s)
  BY <1>6 DEF HasGlob, GlobChars
<1> QED BY <1>5, <1>6, <1>7 DEF t

\* A label that IDNA refuses, and the letters that make one a pattern, refused or encoded.
Refused(s) == "_" \in ToSet(s)

Special == {"*", "?", "_", "ue"}

\* Where none of these is, no label is a pattern, refused or encoded.
LEMMA SpecialLetters ==
  /\ {"xn", "u8"} \cap Special = {}
  /\ \A s : (\A k \in DOMAIN s : s[k] \notin Special)
                => ~HasGlob(s) /\ ~Refused(s) /\ "ue" \notin ToSet(s)
  /\ \A s : ~HasGlob(s) /\ ~Refused(s) => \A k \in DOMAIN s : s[k] \in Special => s[k] = "ue"
<1>1. {"xn", "u8"} \cap Special = {}
  BY DEF Special
<1>2. ASSUME NEW s, \A k \in DOMAIN s : s[k] \notin Special
      PROVE  ~HasGlob(s) /\ ~Refused(s) /\ "ue" \notin ToSet(s)
  <2>1. \A c \in ToSet(s) : c \notin Special
    BY <1>2, Zenon DEF ToSet
  <2> QED BY <2>1, Zenon DEF Special, HasGlob, GlobChars, Refused
<1>3. ASSUME NEW s, ~HasGlob(s), ~Refused(s), NEW k \in DOMAIN s, s[k] \in Special
      PROVE  s[k] = "ue"
  <2>1. s[k] \in ToSet(s)
    BY Zenon DEF ToSet
  <2>2. s[k] \notin GlobChars /\ s[k] # "_"
    BY <1>3, <2>1, Zenon DEF HasGlob, Refused
  <2> QED BY <1>3, <2>2, Zenon DEF Special, GlobChars
<1> QED BY <1>1, <1>2, <1>3, Zenon

\* The letters of punycode.
Coded(s) == [k \in DOMAIN s |-> IF s[k] = "ue" THEN "u8" ELSE s[k]]

\* Letters that every normalization leaves alone.
Settled(s) == \A k \in 1 .. Len(s) : s[k] \notin Special /\ LowerLetter(s[k]) = s[k]

\* Punycode is made of letters that are left alone from then on.
LEMMA CodedIs ==
  ASSUME NEW X, Alphabet(X), NEW s, s \in Seq(InLabel(X)), Lower(s) = s, ~HasGlob(s), ~Refused(s)
  PROVE  <<"xn">> \o Coded(s) \in Seq(InLabel(X)) /\ Settled(<<"xn">> \o Coded(s))
         /\ <<"xn">> \o Coded(s) # <<>>
<1> DEFINE Y == InLabel(X)
           n == Len(s)
           w == Coded(s)
           x == <<"xn">>
           r == x \o w
<1>1. n \in Nat /\ DOMAIN s = 1 .. n /\ \A k \in 1 .. n : s[k] \in Y
  <2>1. s \in Seq(Y)
    OBVIOUS
  <2> HIDE DEF Y
  <2> QED BY <2>1, LenProperties, ElementOfSeq
<1>2. {"xn", "u8"} \subseteq Y
  BY DEF Alphabet, InLabel
<1>3. x \in Seq(Y) /\ Len(x) = 1 /\ x[1] = "xn"
  <2> HIDE DEF Y
  <2> QED BY <1>2
<1>4. w = [k \in 1 .. n |-> IF s[k] = "ue" THEN "u8" ELSE s[k]]
  BY <1>1 DEF Coded
<1> HIDE DEF x, n, Y, w
<1>5. w \in [1 .. n -> Y] /\ \A k \in 1 .. n : w[k] = IF s[k] = "ue" THEN "u8" ELSE s[k]
  BY <1>1, <1>2, <1>4
<1>6. w \in Seq(Y) /\ Len(w) = n
  BY <1>1, <1>5, SeqDef, LenProperties
<1>7. r \in Seq(Y) /\ Both(r, x, w)
  BY <1>3, <1>6, ConcatIsBoth
<1> HIDE DEF r
<1>8. Len(r) = 1 + n /\ r[1] = "xn" /\ \A k \in 1 .. n : r[1 + k] = w[k]
  <2>1. 1 \in 1 .. 1
    OBVIOUS
  <2> QED BY <2>1, <1>3, <1>6, <1>7 DEF Both
<1>9. \A k \in 1 .. n : (s[k] \in Special => s[k] = "ue") /\ LowerLetter(s[k]) = s[k]
  <2>1. \A k \in 1 .. n : s[k] \in Special => s[k] = "ue"
    BY <1>1, SpecialLetters
  <2>2. Lower(s) = [k \in 1 .. n |-> LowerLetter(s[k])]
    BY <1>1 DEF Lower
  <2>3. \A k \in 1 .. n : Lower(s)[k] = LowerLetter(s[k])
    BY <2>2
  <2> QED BY <2>1, <2>3
<1>10. \A k \in 1 .. n : w[k] \notin Special /\ LowerLetter(w[k]) = w[k]
  <2> TAKE k \in 1 .. n
  <2>1. LowerLetter("u8") = "u8" /\ "u8" \notin Special
    BY SpecialLetters DEF LowerLetter
  <2> QED BY <2>1, <1>5, <1>9
<1>11. \A k \in 1 .. 1 + n : r[k] \notin Special /\ LowerLetter(r[k]) = r[k]
  <2> TAKE k \in 1 .. 1 + n
  <2>1. CASE k = 1
    BY <2>1, <1>8, SpecialLetters DEF LowerLetter
  <2>2. CASE k # 1
    <3> DEFINE j == k - 1
    <3>1. j \in 1 .. n /\ k = 1 + j
      BY <2>2, <1>1
    <3> HIDE DEF j
    <3>2. r[k] = w[j]
      BY <3>1, <1>8
    <3> QED BY <3>1, <3>2, <1>10
  <2> QED BY <2>1, <2>2
<1>12. r # <<>>
  <2>1. Len(r) # 0
    BY <1>1, <1>8
  <2> QED BY <2>1, <1>7, EmptySeq
<1>13. Settled(r)
  BY <1>8, <1>11 DEF Settled
<1> QED BY <1>7, <1>12, <1>13 DEF r, w, x, Y

\* A label of such letters is normalized to itself.
LEMMA SettledIsNormal ==
  ASSUME NEW Y, NEW s, s \in Seq(Y), Settled(s)
  PROVE  NormalizeLabel(s) = s
<1> DEFINE n == Len(s)
<1>1. n \in Nat /\ DOMAIN s = 1 .. n /\ s \in [1 .. n -> Y]
  BY LenProperties
<1>2. \A k \in 1 .. n : s[k] \notin Special /\ LowerLetter(s[k]) = s[k]
  BY DEF Settled
<1> HIDE DEF n
<1>3. Lower(s) = s
  <2>1. Lower(s) = [k \in 1 .. n |-> LowerLetter(s[k])]
    BY <1>1 DEF Lower
  <2>2. s = [k \in 1 .. n |-> s[k]]
    BY <1>1
  <2>3. [k \in 1 .. n |-> LowerLetter(s[k])] = [k \in 1 .. n |-> s[k]]
    BY <1>2
  <2> QED BY <2>1, <2>2, <2>3
<1>4. ~HasGlob(s) /\ ~Refused(s) /\ "ue" \notin ToSet(s)
  BY <1>1, <1>2, SpecialLetters
<1> QED BY <1>3, <1>4, Zenon DEF NormalizeLabel, Encoded, Refused

\* What a label is normalized to.
LEMMA LabelNormal ==
  ASSUME NEW X, Alphabet(X), NEW l, l \in Seq(InLabel(X))
  PROVE  /\ NormalizeLabel(l) \in Seq(InLabel(X)) /\ Lower(l) \in Seq(InLabel(X))
         /\ l # <<>> => NormalizeLabel(l) # <<>>
         /\ NormalizeLabel(Lower(l)) = NormalizeLabel(l)
         /\ NormalizeLabel(NormalizeLabel(l)) = NormalizeLabel(l)
<1> DEFINE Y == InLabel(X)
           t == Lower(l)
<1>1. t \in Seq(Y) /\ Len(t) = Len(l) /\ (l # <<>> => t # <<>>)
  <2>1. \A d \in Y : LowerLetter(d) \in Y
    BY LowerLetterIs
  <2>5. l \in Seq(Y)
    OBVIOUS
  <2> HIDE DEF Y
  <2>2. Lower(l) \in Seq(Y) /\ Len(Lower(l)) = Len(l)
    BY <2>1, <2>5, LowerIs
  <2> HIDE DEF t
  <2>3. l # <<>> => Len(l) # 0
    BY EmptySeq
  <2>4. t = <<>> => Len(t) = 0
    OBVIOUS
  <2> QED BY <2>2, <2>3, <2>4 DEF t
<1>2. Lower(t) = t /\ (HasGlob(t) <=> HasGlob(l)) /\ (Refused(t) <=> Refused(l))
  BY LowerKeeps, Zenon DEF Refused
<1> HIDE DEF t
<1>3. NormalizeLabel(t) = NormalizeLabel(l)
  BY <1>2, Zenon DEF NormalizeLabel, Encoded, Refused, t
<1>4. CASE HasGlob(l) \/ Refused(l) \/ "ue" \notin ToSet(t)
  <2>1. NormalizeLabel(l) = t
    BY <1>4, Zenon DEF NormalizeLabel, Encoded, Refused, t
  <2> QED BY <2>1, <1>1, <1>3 DEF t
<1>5. CASE ~HasGlob(l) /\ ~Refused(l) /\ "ue" \in ToSet(t)
  <2>1. NormalizeLabel(l) = <<"xn">> \o Coded(t)
    BY <1>5, Zenon DEF NormalizeLabel, Encoded, Coded, Refused, t
  <2>2. <<"xn">> \o Coded(t) \in Seq(Y) /\ Settled(<<"xn">> \o Coded(t)) /\ <<"xn">> \o Coded(t) # <<>>
    BY <1>1, <1>2, <1>5, CodedIs
  <2> DEFINE r == NormalizeLabel(l)
  <2>3. r \in Seq(Y) /\ Settled(r) /\ r # <<>>
    BY <2>1, <2>2
  <2> HIDE DEF r, Y
  <2>4. NormalizeLabel(r) = r
    BY <2>3, SettledIsNormal
  <2> QED BY <2>3, <2>4, <1>1, <1>3 DEF r, Y, t
<1> QED BY <1>4, <1>5

\* A star is a label that is left alone.
LEMMA StarIsNormal == NormalizeLabel(<<"*">>) = <<"*">>
<1>1. "*" \in ToSet(<<"*">>)
  BY DEF ToSet
<1>2. HasGlob(<<"*">>)
  BY <1>1 DEF HasGlob, GlobChars
<1>3. Lower(<<"*">>) = <<"*">>
  BY DEF Lower, LowerLetter
<1> QED BY <1>2, <1>3 DEF NormalizeLabel

\* Each label normalized.
EachNormal(ls) == [k \in DOMAIN ls |-> NormalizeLabel(ls[k])]

\* Normalized labels are labels, as many.
LEMMA EachNormalIs ==
  ASSUME NEW X, Alphabet(X), NEW ls, ls \in LabelLists(X)
  PROVE  /\ EachNormal(ls) \in LabelLists(X) /\ Len(EachNormal(ls)) = Len(ls) /\ Len(ls) \in Nat \ {0}
         /\ \A k \in 1 .. Len(ls) : /\ EachNormal(ls)[k] = NormalizeLabel(ls[k])
                                    /\ ls[k] \in Seq(InLabel(X))
<1> DEFINE n == Len(ls)
           r == EachNormal(ls)
           A == Seq(InLabel(X))
<1>1. n \in Nat /\ DOMAIN ls = 1 .. n /\ n > 0 /\ \A k \in 1 .. n : ls[k] \in A
  <2>1. ls \in Seq(A) /\ n > 0
    BY DEF LabelLists
  <2> HIDE DEF A
  <2> QED BY <2>1, LenProperties, ElementOfSeq
<1>2. r = [k \in 1 .. n |-> NormalizeLabel(ls[k])]
  BY <1>1 DEF EachNormal
<1>3. \A k \in 1 .. n : NormalizeLabel(ls[k]) \in A
  BY <1>1, LabelNormal
<1> HIDE DEF n, r, A
<1>4. r \in [1 .. n -> A] /\ \A k \in 1 .. n : r[k] = NormalizeLabel(ls[k])
  BY <1>2, <1>3
<1>5. r \in Seq(A) /\ Len(r) = n
  BY <1>1, <1>4, SeqDef, LenProperties
<1>6. r \in LabelLists(X)
  BY <1>1, <1>5 DEF LabelLists, A
<1> QED BY <1>1, <1>4, <1>5, <1>6 DEF n, r, A

\* Small letters make no difference, and neither does a second time.
LEMMA EachNormalSame ==
  ASSUME NEW X, Alphabet(X), NEW ls, ls \in LabelLists(X)
  PROVE  /\ EachNormal(EachLower(ls)) = EachNormal(ls)
         /\ EachNormal(EachNormal(ls)) = EachNormal(ls)
<1> DEFINE n == Len(ls)
           A == Seq(InLabel(X))
           p == EachLower(ls)
           q == EachNormal(ls)
<1>1. q \in LabelLists(X) /\ Len(q) = n /\ n \in Nat
      /\ \A k \in 1 .. n : q[k] = NormalizeLabel(ls[k]) /\ ls[k] \in A
  BY EachNormalIs
<1>2. p \in LabelLists(X) /\ Len(p) = n /\ \A k \in 1 .. n : p[k] = Lower(ls[k])
  BY EachLowerIs
<1>3. \A k \in 1 .. n : /\ NormalizeLabel(Lower(ls[k])) = NormalizeLabel(ls[k])
                        /\ NormalizeLabel(NormalizeLabel(ls[k])) = NormalizeLabel(ls[k])
  BY <1>1, LabelNormal
<1> HIDE DEF n, p, q
<1>4. EachNormal(p) \in LabelLists(X) /\ Len(EachNormal(p)) = n
      /\ \A k \in 1 .. n : EachNormal(p)[k] = NormalizeLabel(p[k])
  BY <1>2, EachNormalIs
<1>5. EachNormal(q) \in LabelLists(X) /\ Len(EachNormal(q)) = n
      /\ \A k \in 1 .. n : EachNormal(q)[k] = NormalizeLabel(q[k])
  BY <1>1, EachNormalIs
<1>6. q \in Seq(A) /\ EachNormal(p) \in Seq(A) /\ EachNormal(q) \in Seq(A)
  BY <1>1, <1>4, <1>5 DEF LabelLists
<1> HIDE DEF A
<1>7. EachNormal(p) = q
  <2>1. \A k \in 1 .. n : EachNormal(p)[k] = q[k]
    BY <1>1, <1>2, <1>3, <1>4
  <2> QED BY <2>1, <1>1, <1>4, <1>6, SeqEqual
<1>8. EachNormal(q) = q
  <2>1. \A k \in 1 .. n : EachNormal(q)[k] = q[k]
    BY <1>1, <1>3, <1>5
  <2> QED BY <2>1, <1>1, <1>5, <1>6, SeqEqual
<1> QED BY <1>7, <1>8 DEF p, q

\* With a label before.
NormalAfter(l, ls) == EachNormal(<<l>> \o ls) = <<NormalizeLabel(l)>> \o EachNormal(ls)

\* Labels are normalized one by one, the first of them too.
LEMMA EachNormalFront ==
  ASSUME NEW X, Alphabet(X), NEW l, l \in Seq(InLabel(X)), NEW ls, ls \in LabelLists(X)
  PROVE  NormalAfter(l, ls)
<1> DEFINE n == Len(ls)
           A == Seq(InLabel(X))
           m == NormalizeLabel(l)
           o == <<l>>
           w == <<m>>
           p == o \o ls
           q == EachNormal(ls)
           r == w \o q
           e == EachNormal(p)
<1>1. q \in LabelLists(X) /\ Len(q) = n /\ n \in Nat /\ \A k \in 1 .. n : q[k] = NormalizeLabel(ls[k])
  BY EachNormalIs
<1>2. p \in LabelLists(X)
  BY ListsOf
<1>3. m \in A /\ l \in A
  BY LabelNormal
<1>4. q \in Seq(A) /\ ls \in Seq(A) /\ p \in Seq(A)
  BY <1>1, <1>2 DEF LabelLists
<1> HIDE DEF A, m, p, q, n, e
<1>5. o \in Seq(A) /\ w \in Seq(A) /\ Len(o) = 1 /\ Len(w) = 1 /\ o[1] = l /\ w[1] = m
  BY <1>3
<1> HIDE DEF o, w, r
<1>6. Len(p) = 1 + n /\ p[1] = l /\ \A k \in 1 .. n : p[1 + k] = ls[k]
  <2>1. Both(p, o, ls)
    BY <1>4, <1>5, ConcatIsBoth DEF p
  <2>2. 1 \in 1 .. 1
    OBVIOUS
  <2> QED BY <2>1, <2>2, <1>5 DEF Both, n
<1>7. r \in Seq(A) /\ Len(r) = 1 + n /\ r[1] = m /\ \A k \in 1 .. n : r[1 + k] = q[k]
  <2>1. r \in Seq(A) /\ Both(r, w, q)
    BY <1>4, <1>5, ConcatIsBoth DEF r
  <2>2. 1 \in 1 .. 1
    OBVIOUS
  <2> QED BY <2>1, <2>2, <1>1, <1>5 DEF Both
<1>8. e \in LabelLists(X) /\ Len(e) = 1 + n /\ \A k \in 1 .. 1 + n : e[k] = NormalizeLabel(p[k])
  BY <1>2, <1>6, EachNormalIs DEF e
<1>9. e \in Seq(A)
  BY <1>8 DEF LabelLists, A
<1>10. \A k \in 1 .. 1 + n : e[k] = r[k]
  <2> TAKE k \in 1 .. 1 + n
  <2>1. CASE k = 1
    BY <2>1, <1>6, <1>7, <1>8 DEF m
  <2>2. CASE k # 1
    <3> DEFINE j == k - 1
    <3>1. j \in 1 .. n /\ k = 1 + j
      BY <2>2, <1>1
    <3> HIDE DEF j
    <3>2. e[k] = NormalizeLabel(ls[j]) /\ r[k] = q[j]
      BY <3>1, <1>6, <1>7, <1>8
    <3> QED BY <3>1, <3>2, <1>1
  <2> QED BY <2>1, <2>2
<1>11. e = r
  BY <1>7, <1>8, <1>9, <1>10, SeqEqual
<1> QED BY <1>11 DEF NormalAfter, e, r, p, w, o, q, m

\* A name that does not end with a dot has letters in its last label.
LEMMA LabelsEnd ==
  ASSUME NEW X
  PROVE  \A s \in Seq(X) : s # <<>> /\ Bare(s) => Labels(s)[Len(Labels(s))] # <<>>
<1> DEFINE S == {s \in Seq(X) : s # <<>> /\ Bare(s) => Labels(s)[Len(Labels(s))] # <<>>}
<1>1. <<>> \in S
  BY EmptySeq
<1>2. ASSUME NEW s \in Seq(X), NEW c \in X, s \in S PROVE Append(s, c) \in S
  <2>1. /\ Append(s, c) \in Seq(X) /\ Len(Append(s, c)) = Len(s) + 1
        /\ Append(s, c)[Len(s) + 1] = c
    BY AppendProperties
  <2>2. Labels(s) \in LabelLists(X) /\ Labels(Append(s, c)) = NextLetter(Labels(s), c)
    BY LabelsSplit, LabelsGrow
  <2>3. CASE c = "."
    <3>1. ~Bare(Append(s, c))
      <4>1. Append(s, c) # <<>>
        BY <2>1, LenProperties
      <4> QED BY <4>1, <2>1, <2>3 DEF Bare
    <3> QED BY <3>1, <2>1
  <2>4. CASE c # "."
    <3>1. c \in InLabel(X)
      BY <2>4 DEF InLabel
    <3> DEFINE ls == Labels(s)
               m == NextLetter(ls, c)
    <3>2. /\ Len(ls) \in Nat \ {0} /\ Len(m) = Len(ls) /\ m[Len(ls)] = Append(ls[Len(ls)], c)
          /\ ls \in Seq(Seq(InLabel(X)))
      <4>1. ls \in LabelLists(X)
        BY <2>2
      <4> HIDE DEF ls
      <4>2. ls \in Seq(Seq(InLabel(X)))
        BY <4>1 DEF LabelLists
      <4>3. Len(ls) \in Nat \ {0} /\ GoesToLast(c, ls)
        BY <3>1, <4>1, NextPlain
      <4> QED BY <4>2, <4>3, Zenon DEF GoesToLast
    <3>3. Append(ls[Len(ls)], c) # <<>>
      <4> DEFINE A == Seq(InLabel(X))
                 l == ls[Len(ls)]
      <4>0. ls \in Seq(A)
        BY <3>2
      <4>1. l \in A
        <5> HIDE DEF A, ls
        <5>1. Len(ls) \in 1 .. Len(ls)
          BY <3>2
        <5> QED BY <5>1, <4>0, ElementOfSeq DEF l
      <4> HIDE DEF l, ls
      <4>2. Len(Append(l, c)) = Len(l) + 1 /\ Len(l) \in Nat
        BY <3>1, <4>1, AppendProperties, LenProperties
      <4>3. Append(l, c) # <<>>
        BY <4>2
      <4> QED BY <4>3 DEF l
    <3> HIDE DEF ls, m
    <3>4. m[Len(m)] # <<>>
      BY <3>2, <3>3
    <3>5. Labels(Append(s, c)) = m
      BY <2>2 DEF m, ls
    <3> QED BY <2>1, <3>4, <3>5
  <2> QED BY <2>3, <2>4
<1>3. Seq(X) \subseteq S
  <2> HIDE DEF S
  <2> QED BY <1>1, <1>2, SeqGrows
<1> QED BY <1>3

\* Labels of which the last has letters do not end with a dot.
LEMMA JoinEnds ==
  ASSUME NEW X, "." \in X
  PROVE  \A ls \in LabelLists(X) : ls[Len(ls)] # <<>> => Bare(Join(ls)) /\ Join(ls) # <<>>
<1> DEFINE S == {ls \in LabelLists(X) : ls[Len(ls)] # <<>> => Bare(Join(ls)) /\ Join(ls) # <<>>}
<1>1. ASSUME NEW l, l \in Seq(InLabel(X)), l # <<>>
      PROVE  Len(l) \in Nat \ {0} /\ l[Len(l)] # "." /\ l \in Seq(X)
  <2> DEFINE Y == InLabel(X)
  <2>1. l \in Seq(Y) /\ Y \subseteq X
    BY <1>1 DEF InLabel
  <2>2. \A c \in Y : c # "."
    BY DEF InLabel
  <2> HIDE DEF Y
  <2>3. Len(l) \in Nat \ {0}
    BY <2>1, <1>1, EmptySeq, LenProperties
  <2>4. Len(l) \in 1 .. Len(l)
    BY <2>3
  <2>5. l[Len(l)] \in Y
    BY <2>1, <2>4, ElementOfSeq
  <2> QED BY <2>1, <2>2, <2>3, <2>5, SeqMonotonic
<1>2. ASSUME NEW l \in Seq(InLabel(X)) PROVE <<l>> \in S
  <2>1. l \in Seq(InLabel(X))
    OBVIOUS
  <2>2. <<l>> \in LabelLists(X) /\ Join(<<l>>) = l
    BY <2>1, ListsOf, JoinOne
  <2>3. <<l>>[Len(<<l>>)] = l
    OBVIOUS
  <2>4. l # <<>> => Bare(l)
    BY <1>1, <2>1 DEF Bare
  <2> QED BY <2>2, <2>3, <2>4
<1>3. ASSUME NEW ls \in LabelLists(X), NEW l \in Seq(InLabel(X)), ls \in S PROVE Append(ls, l) \in S
  <2> DEFINE ks == Append(ls, l)
             j == Join(ls)
             d == <<".">>
             u == j \o d
             r == u \o l
             n == Len(l)
  <2>1. l \in Seq(InLabel(X)) /\ ls \in LabelLists(X)
    OBVIOUS
  <2>2. ks \in LabelLists(X)
    BY <2>1, ListsOf
  <2>3. ks[Len(ks)] = l
    <3> DEFINE A == Seq(InLabel(X))
    <3>1. ls \in Seq(A) /\ l \in A
      BY <2>1 DEF LabelLists
    <3> HIDE DEF A
    <3> QED BY <3>1, AppendProperties
  <2>4. JoinsTo(ls, X)
    BY <2>1, JoinIs
  <2>8. JoinsAfter(ls, l)
    BY <2>1, <2>4, JoinMore
  <2>5. Join(ks) = r /\ j \in Seq(X)
    BY <2>4, <2>8, Zenon DEF JoinsTo, JoinsAfter
  <2>6. ASSUME l # <<>> PROVE Bare(r) /\ r # <<>>
    <3>1. n \in Nat \ {0} /\ l[n] # "." /\ l \in Seq(X)
      BY <1>1, <2>1, <2>6
    <3>2. d \in Seq(X)
      OBVIOUS
    <3> HIDE DEF d, j, n
    <3>3. u \in Seq(X)
      BY <2>5, <3>2, ConcatProperties
    <3> HIDE DEF u
    <3>4. r \in Seq(X) /\ Both(r, u, l) /\ Len(u) \in Nat
      BY <3>1, <3>3, ConcatIsBoth
    <3> HIDE DEF r
    <3>5. n \in 1 .. n
      BY <3>1
    <3>6. Len(r) = Len(u) + n /\ r[Len(u) + n] = l[n]
      BY <3>4, <3>5 DEF Both, n
    <3>7. Len(r) # 0
      BY <3>1, <3>4, <3>6
    <3> QED BY <3>1, <3>4, <3>6, <3>7, EmptySeq DEF Bare
  <2> HIDE DEF r, ks
  <2>7. ks[Len(ks)] # <<>> => Bare(Join(ks)) /\ Join(ks) # <<>>
    BY <2>3, <2>5, <2>6
  <2> QED BY <2>2, <2>7 DEF ks
<1>4. LabelLists(X) \subseteq S
  <2> HIDE DEF S
  <2> QED BY <1>2, <1>3, ListsGrow
<1> QED BY <1>4

---------------------------------------------------------------------------
(* Names, normalized                                                     *)

\* A name is normalized label by label.
LEMMA HostLabels ==
  ASSUME NEW X, Alphabet(X), NEW s, s \in Seq(X)
  PROVE  /\ StripDots(s) \in Seq(X) /\ Labels(StripDots(s)) \in LabelLists(X)
         /\ EachNormal(Labels(StripDots(s))) \in LabelLists(X)
         /\ NormalizeHostname(s) = Join(EachNormal(Labels(StripDots(s))))
         /\ NormalizeHostname(s) \in Seq(X)
<1> DEFINE t == StripDots(s)
           ls == Labels(t)
<1>1. t \in Seq(X)
  BY StripDotsBare
<1> HIDE DEF t
<1>2. ls \in LabelLists(X)
  BY <1>1, LabelsSplit
<1> HIDE DEF ls
<1>3. EachNormal(ls) \in LabelLists(X)
  BY <1>2, EachNormalIs
<1>4. NormalizeHostname(s) = Join(EachNormal(ls))
  BY DEF NormalizeHostname, EachNormal, ls, t
<1>5. JoinsTo(EachNormal(ls), X)
  <2>1. "." \in X
    BY DEF Alphabet
  <2> QED BY <2>1, <1>3, JoinIs
<1>6. NormalizeHostname(s) \in Seq(X)
  BY <1>4, <1>5 DEF JoinsTo
<1> QED BY <1>1, <1>2, <1>3, <1>4, <1>6 DEF ls, t

\* Nothing but dots is normalized to the empty name.
LEMMA EmptyIsNormal ==
  ASSUME NEW X, Alphabet(X), NEW s, s \in Seq(X), StripDots(s) = <<>>
  PROVE  NormalizeHostname(s) = <<>>
<1>1. Labels(<<>>) = <<<<>>>>
  <2>1. <<>> \in Seq(X) /\ "." \in X
    BY EmptySeq DEF Alphabet
  <2> QED BY <2>1, LabelsGrow
<1>2. NormalizeLabel(<<>>) = <<>>
  <2>1. Settled(<<>>) /\ <<>> \in Seq(X)
    BY EmptySeq DEF Settled
  <2> QED BY <2>1, SettledIsNormal
<1>3. EachNormal(<<<<>>>>) = <<<<>>>>
  BY <1>2 DEF EachNormal
<1>4. Join(<<<<>>>>) = <<>>
  <2> DEFINE l == <<>>
  <2>1. l \in Seq(InLabel(X)) /\ "." \in X
    BY EmptySeq DEF Alphabet
  <2> HIDE DEF l
  <2>2. Join(<<l>>) = l
    BY <2>1, JoinOne
  <2> QED BY <2>2 DEF l
<1> QED BY <1>1, <1>3, <1>4, HostLabels

\* A name is normalized to the same whatever its capitals and its final dots, and a
\* normalized name to itself.
LEMMA HostNormal ==
  ASSUME NEW X, Alphabet(X), NEW s, s \in Seq(X)
  PROVE  /\ NormalizeHostname(s) \in Seq(X)
         /\ NormalizeHostname(Lower(s)) = NormalizeHostname(s)
         /\ NormalizeHostname(s \o <<".">>) = NormalizeHostname(s)
         /\ NormalizeHostname(NormalizeHostname(s)) = NormalizeHostname(s)
         /\ NormalizeHostname(s) # <<>> => StripDots(s) # <<>>
<1> DEFINE t == StripDots(s)
           ls == Labels(t)
           ms == EachNormal(ls)
           n == NormalizeHostname(s)
<1>1. t \in Seq(X) /\ Bare(t) /\ StripDots(s \o <<".">>) = t
  BY StripDotsBare
<1>2. ls \in LabelLists(X) /\ ms \in LabelLists(X) /\ n = Join(ms) /\ n \in Seq(X)
  BY HostLabels
<1>3. NormalizeHostname(Lower(s)) = n
  <2>1. Lower(s) \in Seq(X) /\ StripDots(Lower(s)) = Lower(t)
    BY StripLower
  <2>2. Labels(Lower(t)) = EachLower(ls)
    BY <1>1, LabelsLower
  <2>3. EachNormal(EachLower(ls)) = ms
    BY <1>2, EachNormalSame
  <2>4. NormalizeHostname(Lower(s)) = Join(EachNormal(Labels(StripDots(Lower(s)))))
    BY <2>1, HostLabels
  <2> HIDE DEF t, ls, ms, n
  <2> QED BY <2>1, <2>2, <2>3, <2>4, <1>2
<1>4. NormalizeHostname(s \o <<".">>) = n
  <2>1. s \o <<".">> \in Seq(X)
    <3>1. <<".">> \in Seq(X)
      BY DEF Alphabet
    <3> QED BY <3>1, ConcatProperties
  <2>2. NormalizeHostname(s \o <<".">>) = Join(EachNormal(Labels(StripDots(s \o <<".">>))))
    BY <2>1, HostLabels
  <2> HIDE DEF t, n
  <2> QED BY <2>2, <1>1, <1>2
<1>5. t = <<>> => n = <<>>
  BY EmptyIsNormal
<1>6. NormalizeHostname(n) = n
  <2>1. CASE t = <<>>
    <3>1. Bare(<<>>) /\ <<>> \in Seq(X)
      BY EmptySeq DEF Bare
    <3>2. StripDots(<<>>) = <<>>
      BY <3>1, StripDotsBare
    <3>3. NormalizeHostname(<<>>) = <<>>
      BY <3>1, <3>2, EmptyIsNormal
    <3> QED BY <2>1, <1>5, <3>3
  <2>2. CASE t # <<>>
    <3>1. ls[Len(ls)] # <<>>
      BY <2>2, <1>1, LabelsEnd
    <3> HIDE DEF ls, n, t
    <3>2. Len(ms) = Len(ls) /\ Len(ls) \in Nat \ {0}
          /\ \A k \in 1 .. Len(ls) : ms[k] = NormalizeLabel(ls[k]) /\ ls[k] \in Seq(InLabel(X))
      BY <1>2, EachNormalIs
    <3>3. Len(ls) \in 1 .. Len(ls)
      BY <3>2
    <3>4. ms[Len(ms)] # <<>>
      <4>1. ls[Len(ls)] \in Seq(InLabel(X)) /\ ms[Len(ms)] = NormalizeLabel(ls[Len(ls)])
        BY <3>2, <3>3
      <4> QED BY <4>1, <3>1, LabelNormal
    <3> HIDE DEF ms
    <3>5. "." \in X
      BY DEF Alphabet
    <3>6. Bare(n)
      BY <1>2, <3>4, <3>5, JoinEnds
    <3>7. StripDots(n) = n
      BY <1>2, <3>6, StripDotsBare
    <3>8. Labels(n) = ms
      BY <1>2, <3>5, LabelsOfJoin
    <3>9. EachNormal(ms) = ms
      BY <1>2, EachNormalSame DEF ms
    <3>10. NormalizeHostname(n) = Join(EachNormal(Labels(StripDots(n))))
      BY <1>2, HostLabels
    <3> QED BY <3>7, <3>8, <3>9, <3>10, <1>2
  <2> QED BY <2>1, <2>2
<1> QED BY <1>2, <1>3, <1>4, <1>5, <1>6

\* A name after a star is normalized like the name alone.
LEMMA StarHost ==
  ASSUME NEW X, Alphabet(X), "*" \in X, NEW s, s \in Seq(X), NormalizeHostname(s) # <<>>
  PROVE  <<"*", ".">> \o s \in Seq(X)
         /\ NormalizeHostname(<<"*", ".">> \o s) = <<"*", ".">> \o NormalizeHostname(s)
<1> DEFINE t == StripDots(s)
           ls == Labels(t)
           ms == EachNormal(ls)
           n == NormalizeHostname(s)
           l == <<"*">>
           d == <<".">>
           x == <<"*", ".">>
           u == x \o s
           w == x \o t
           o == <<l>>
<1>1. t \in Seq(X) /\ ls \in LabelLists(X) /\ ms \in LabelLists(X) /\ n = Join(ms) /\ n \in Seq(X)
  BY HostLabels
<1>2. t # <<>>
  BY HostNormal
<1>3. "." \in X /\ l \in Seq(InLabel(X)) /\ l \in Seq(X) /\ d \in Seq(X) /\ x \in Seq(X) /\ x = l \o d
  BY DEF Alphabet, InLabel
<1>4. u \in Seq(X)
  <2> HIDE DEF x
  <2> QED BY <1>3, ConcatProperties
<1>5. StripDots(u) = w
  <2> HIDE DEF x, w, u, t
  <2>2. x \in Seq(X)
    BY <1>3
  <2>3. StripDots(s) # <<>>
    BY <1>2 DEF t
  <2>1. StripDots(x \o s) = x \o StripDots(s)
    BY <2>2, <2>3, StripFront
  <2> QED BY <2>1 DEF u, w, t
<1> HIDE DEF t, ls, ms, n, u, w, x, d
<1>6. Labels(w) = o \o ls
  <2>1. Labels((l \o d) \o t) = Labels(l) \o Labels(t)
    BY <1>1, <1>3, LabelsConcat DEF d
  <2>2. Labels(l) = <<l>>
    BY <1>3, LabelsOfLabel
  <2> QED BY <2>1, <2>2, <1>3 DEF w, ls
<1>7. EachNormal(o \o ls) = o \o ms
  <2> HIDE DEF l
  <2>1. EachNormal(<<l>> \o ls) = <<NormalizeLabel(l)>> \o EachNormal(ls)
    <3>1. l \in Seq(InLabel(X)) /\ ls \in LabelLists(X)
      BY <1>1, <1>3
    <3>2. NormalAfter(l, ls)
      BY <3>1, EachNormalFront
    <3> QED BY <3>2 DEF NormalAfter
  <2>2. NormalizeLabel(l) = l
    BY StarIsNormal DEF l
  <2> QED BY <2>1, <2>2 DEF ms
<1>8. Join(o \o ms) = (l \o d) \o Join(ms)
  <2> HIDE DEF l
  <2> QED BY <1>1, <1>3, JoinFront DEF d
<1>9. NormalizeHostname(u) = Join(EachNormal(Labels(StripDots(u))))
  BY <1>4, HostLabels
<1>10. NormalizeHostname(u) = x \o n
  <2> HIDE DEF o, l
  <2> QED BY <1>1, <1>3, <1>5, <1>6, <1>7, <1>8, <1>9
<1> QED BY <1>4, <1>10 DEF u, x, n

\* Letters, with those that the module names; and of them those that are no pattern.
Text(X) == X \cup {".", "xn", "u8", "a", "ue", "A", "*"}

Letters(X) == Text(X) \ GlobChars

\* Both are closed under normalization, and a name has no pattern if its letters have none.
LEMMA LettersIs ==
  ASSUME NEW X
  PROVE  /\ Alphabet(Text(X)) /\ Alphabet(Letters(X)) /\ "*" \in Text(X) /\ "." \in Letters(X)
         /\ \A s \in Seq(Text(X)) : ~HasGlob(s) <=> s \in Seq(Letters(X))
         /\ Seq(Letters(X)) \subseteq Seq(Text(X)) /\ Seq(X) \subseteq Seq(Text(X))
<1> DEFINE S == Text(X)
           L == Letters(X)
<1>6. {".", "xn", "u8", "a", "ue", "*"} \subseteq S /\ X \subseteq S
  BY DEF Text
<1>7. /\ "." \notin GlobChars /\ "xn" \notin GlobChars /\ "u8" \notin GlobChars
      /\ "a" \notin GlobChars /\ "ue" \notin GlobChars
  BY Zenon DEF GlobChars
<1>8. \A c : LowerLetter(c) \in {"a", "ue", c}
  BY Zenon DEF LowerLetter
<1>9. \A c : c \in L <=> c \in S /\ c \notin GlobChars
  BY DEF Letters
<1> HIDE DEF S, L
<1>1. \A c \in S : LowerLetter(c) \in S
  BY <1>6, <1>8
<1>2. \A c \in L : LowerLetter(c) \in L
  <2> TAKE c \in L
  <2>1. LowerLetter(c) = "a" \/ LowerLetter(c) = "ue" \/ LowerLetter(c) = c
    BY <1>8
  <2> QED BY <2>1, <1>6, <1>7, <1>9
<1>3. {".", "xn", "u8"} \subseteq L /\ L \subseteq S
  BY <1>6, <1>7, <1>9
<1>4. Alphabet(S) /\ Alphabet(L)
  BY <1>1, <1>2, <1>3, <1>6 DEF Alphabet
<1>5. ASSUME NEW s, s \in Seq(S) PROVE ~HasGlob(s) <=> s \in Seq(L)
  <2> DEFINE n == Len(s)
  <2>1. n \in Nat /\ DOMAIN s = 1 .. n /\ s \in [1 .. n -> S]
    BY <1>5, LenProperties
  <2> HIDE DEF n
  <2>2. HasGlob(s) <=> \E k \in 1 .. n : s[k] \in GlobChars
    BY <2>1, Zenon DEF HasGlob, ToSet
  <2>3. ASSUME ~HasGlob(s) PROVE s \in Seq(L)
    <3>1. \A k \in 1 .. n : s[k] \in L
      BY <2>1, <2>2, <2>3, <1>9
    <3>2. s \in [1 .. n -> L]
      BY <2>1, <3>1
    <3> QED BY <2>1, <3>2, SeqDef
  <2>4. ASSUME s \in Seq(L) PROVE ~HasGlob(s)
    <3>1. \A k \in 1 .. n : s[k] \in L
      BY <2>4, ElementOfSeq DEF n
    <3> QED BY <2>2, <3>1, <1>9
  <2> QED BY <2>3, <2>4
<1>10. Seq(L) \subseteq Seq(S) /\ Seq(X) \subseteq Seq(S)
  BY <1>3, <1>6, SeqMonotonic
<1> QED BY <1>3, <1>4, <1>5, <1>6, <1>10 DEF S, L

---------------------------------------------------------------------------
(* Patterns                                                                *)

\* What the letters up to the ends, and one more, may match.
PastLetter(ends, c, s) ==
  IF c = "*" THEN {l \in 0 .. Len(s) : \E k \in ends : k <= l}
  ELSE {l \in 1 .. Len(s) : l - 1 \in ends /\ c \in {"?", s[l]}}

\* f[n] is what the first n letters of the pattern may match.
MatchesUpTo(f, pattern, s) ==
  /\ f \in [0 .. Len(pattern) -> SUBSET (0 .. Len(s))]
  /\ f[0] = {0}
  /\ \A n \in 1 .. Len(pattern) : f[n] = PastLetter(f[n - 1], pattern[n], s)

\* fnmatch finds, letter by letter of the pattern, what may be matched up to there.
LEMMA GlobRuns ==
  ASSUME NEW X, NEW pattern \in Seq(X), NEW s \in Seq(X)
  PROVE  \E f : MatchesUpTo(f, pattern, s) /\ (Glob(pattern, s) <=> Len(s) \in f[Len(pattern)])
<1> DEFINE N == Len(pattern)
           M == Len(s)
           A == SUBSET (0 .. M)
           Past(ends, c) ==
             IF c = "*" THEN {l \in 0 .. Len(s) : \E k \in ends : k <= l}
             ELSE {l \in 1 .. Len(s) : l - 1 \in ends /\ c \in {"?", s[l]}}
           Unwinds(f) == f = [n \in 0 .. N |-> IF n = 0 THEN {0} ELSE Past(f[n - 1], pattern[n])]
           step == [p \in A \X (1 .. N) |-> Past(p[1], pattern[p[2]])]
<1>1. N \in Nat /\ M \in Nat
  BY LenProperties
<1>2. {0} \in A
  BY <1>1
<1>3. Glob(pattern, s) <=> M \in (CHOOSE f : Unwinds(f))[N]
  BY DEF Glob
<1>19. \A ends, c : Past(ends, c) = PastLetter(ends, c, s)
  BY DEF PastLetter
<1>4. \A c : \A ends \in A : Past(ends, c) \in A
  <2> TAKE c
  <2> TAKE ends \in A
  <2>1. 1 .. M \subseteq 0 .. M
    BY <1>1
  <2>2. CASE c = "*"
    BY <2>2
  <2>3. CASE c # "*"
    BY <2>1, <2>3
  <2> QED BY <2>2, <2>3
<1> HIDE DEF N, A, Past
<1>5. step \in [A \X (1 .. N) -> A]
      /\ \A e \in A, n \in 1 .. N : step[<<e, n>>] = Past(e, pattern[n])
  BY <1>4
<1> HIDE DEF step
<1>6. PICK g : IsLoop(g, A, N, {0}, step)
  BY <1>1, <1>2, <1>5, LoopExists
<1>7. g \in [0 .. N -> A] /\ g[0] = {0} /\ \A n \in 1 .. N : g[n] = step[<<g[n - 1], n>>]
  BY <1>6 DEF IsLoop
<1>8. \A n \in 1 .. N : g[n] = Past(g[n - 1], pattern[n])
  <2> TAKE n \in 1 .. N
  <2>1. n - 1 \in 0 .. N
    BY <1>1
  <2> QED BY <2>1, <1>5, <1>7
<1>9. Unwinds(g)
  <2>1. g = [n \in 0 .. N |-> g[n]]
    BY <1>7
  <2>2. \A n \in 0 .. N : g[n] = IF n = 0 THEN {0} ELSE Past(g[n - 1], pattern[n])
    <3> TAKE n \in 0 .. N
    <3>1. n = 0 \/ n \in 1 .. N
      BY <1>1
    <3> QED BY <3>1, <1>7, <1>8
  <2> QED BY <2>1, <2>2
<1> DEFINE f == CHOOSE f : Unwinds(f)
<1>10. Unwinds(f)
  <2> HIDE DEF Unwinds
  <2> QED BY <1>9
<1>11. Glob(pattern, s) <=> M \in f[N]
  BY <1>3
<1> HIDE DEF f
<1>12. \A n \in 0 .. N : f[n] = IF n = 0 THEN {0} ELSE Past(f[n - 1], pattern[n])
  BY <1>10
<1>13. f = [n \in 0 .. N |-> f[n]]
  BY <1>10
<1>14. f[0] = {0} /\ \A n \in 1 .. N : f[n] = Past(f[n - 1], pattern[n])
  <2>1. 0 \in 0 .. N
    BY <1>1
  <2>2. \A n \in 1 .. N : n \in 0 .. N /\ n # 0
    BY <1>1
  <2> QED BY <1>12, <2>1, <2>2
<1> HIDE DEF Unwinds
<1> DEFINE T == {n \in 0 .. N : f[n] \in A}
<1>15. 0 \in T
  <2>1. f[0] \in A /\ 0 \in 0 .. N
    BY <1>1, <1>2, <1>14
  <2> QED BY <2>1
<1>16. ASSUME NEW n \in 0 .. N - 1, n \in T PROVE n + 1 \in T
  <2>1. n + 1 \in 0 .. N /\ n + 1 \in 1 .. N /\ (n + 1) - 1 = n
    BY <1>1
  <2> QED BY <2>1, <1>4, <1>14, <1>16
<1>17. 0 .. N \subseteq T
  <2> HIDE DEF T
  <2> QED BY <1>1, <1>15, <1>16, UpTo
<1>18. f \in [0 .. N -> A]
  BY <1>13, <1>17
<1>20. MatchesUpTo(f, pattern, s)
  BY <1>14, <1>18, <1>19 DEF MatchesUpTo, N, A
<1> QED BY <1>11, <1>20 DEF N

\* The last letters of s are q.
EndsWith(s, q) == Len(q) <= Len(s) /\ \A j \in 1 .. Len(q) : s[(Len(s) - Len(q)) + j] = q[j]

\* A star before letters matches what ends with them.
LEMMA StarGlob ==
  ASSUME NEW X, NEW q, q \in Seq(Letters(X)), NEW s, s \in Seq(Text(X))
  PROVE  Glob(<<"*">> \o q, s) <=> EndsWith(s, q)
<1> DEFINE S == Text(X)
           m == Len(q)
           n == Len(s)
           x == <<"*">>
           p == x \o q
<1>1. q \in Seq(S) /\ x \in Seq(S) /\ Len(x) = 1 /\ x[1] = "*"
  <2>1. q \in Seq(S) /\ "*" \in S
    BY LettersIs
  <2> HIDE DEF S
  <2> QED BY <2>1
<1>2. \A k \in 1 .. m : q[k] \notin GlobChars
  <2>1. \A k \in 1 .. m : q[k] \in Letters(X)
    BY ElementOfSeq
  <2> QED BY <2>1 DEF Letters
<1>3. m \in Nat /\ n \in Nat
  BY LenProperties
<1>0. s \in Seq(S)
  OBVIOUS
<1> HIDE DEF x, S, p
<1>4. p \in Seq(S) /\ Both(p, x, q)
  BY <1>1, ConcatIsBoth DEF p
<1> HIDE DEF m, n
<1>5. Len(p) = 1 + m /\ p[1] = "*" /\ \A k \in 1 .. m : p[1 + k] = q[k]
  <2>1. 1 \in 1 .. 1
    OBVIOUS
  <2> QED BY <2>1, <1>1, <1>4 DEF Both, m
<1>6. PICK f : MatchesUpTo(f, p, s) /\ (Glob(p, s) <=> n \in f[1 + m])
  <2>1. \E f : MatchesUpTo(f, p, s) /\ (Glob(p, s) <=> Len(s) \in f[Len(p)])
    BY <1>0, <1>4, GlobRuns
  <2> QED BY <2>1, <1>5 DEF n
<1>7. f[0] = {0} /\ \A i \in 1 .. 1 + m : f[i] = PastLetter(f[i - 1], p[i], s)
  BY <1>5, <1>6 DEF MatchesUpTo
<1> DEFINE Ends(k) == {l \in 0 .. n : k <= l /\ \A j \in 1 .. k : s[(l - k) + j] = q[j]}
           T == {k \in 0 .. m : f[1 + k] = Ends(k)}
<1>8. 0 \in T
  <2>1. 1 \in 1 .. 1 + m /\ 1 - 1 = 0 /\ 0 \in 0 .. m /\ 1 + 0 = 1
    BY <1>3
  <2>2. f[1] = PastLetter({0}, "*", s)
    BY <2>1, <1>5, <1>7
  <2>3. PastLetter({0}, "*", s) = {l \in 0 .. n : 0 <= l}
    BY DEF PastLetter, n
  <2>4. {l \in 0 .. n : 0 <= l} = Ends(0)
    BY <1>3
  <2> QED BY <2>1, <2>2, <2>3, <2>4
<1>9. ASSUME NEW k \in 0 .. m - 1, k \in T PROVE k + 1 \in T
  <2> DEFINE c == q[k + 1]
  <2>1. k + 1 \in 1 .. m /\ k + 1 \in 0 .. m /\ 1 + (k + 1) \in 1 .. 1 + m /\ (1 + (k + 1)) - 1 = 1 + k
        /\ k \in Nat
    BY <1>3
  <2>2. f[1 + (k + 1)] = PastLetter(f[1 + k], c, s)
    BY <2>1, <1>5, <1>7
  <2>3. f[1 + k] = Ends(k)
    BY <1>9
  <2>4. c \notin GlobChars
    BY <2>1, <1>2
  <2> HIDE DEF Ends
  <2>5. PastLetter(Ends(k), c, s) = {l \in 1 .. n : l - 1 \in Ends(k) /\ s[l] = c}
    <3>1. c # "*" /\ c # "?"
      BY <2>4, Zenon DEF GlobChars
    <3> HIDE DEF c
    <3>2. PastLetter(Ends(k), c, s) = {l \in 1 .. n : l - 1 \in Ends(k) /\ c \in {"?", s[l]}}
      BY <3>1, Zenon DEF PastLetter, n
    <3>3. \A l : c \in {"?", s[l]} <=> s[l] = c
      BY <3>1, Zenon
    <3> QED BY <3>2, <3>3, Zenon
  <2>6. \A l : l \in 1 .. n /\ l - 1 \in Ends(k) /\ s[l] = c <=> l \in Ends(k + 1)
    <3> TAKE l
    <3>1. ASSUME l \in 1 .. n, l - 1 \in Ends(k), s[l] = c PROVE l \in Ends(k + 1)
      <4>1. k <= l - 1 /\ \A j \in 1 .. k : s[((l - 1) - k) + j] = q[j]
        BY <3>1 DEF Ends
      <4>2. ASSUME NEW j \in 1 .. k + 1 PROVE s[(l - (k + 1)) + j] = q[j]
        <5>1. CASE j \in 1 .. k
          <6>1. (l - (k + 1)) + j = ((l - 1) - k) + j
            BY <5>1, <2>1, <3>1
          <6> QED BY <6>1, <5>1, <4>1
        <5>2. CASE j = k + 1
          <6>1. (l - (k + 1)) + j = l
            BY <5>2, <2>1, <3>1
          <6> QED BY <6>1, <5>2, <3>1
        <5> QED BY <5>1, <5>2, <2>1
      <4>3. l \in 0 .. n /\ k + 1 <= l
        BY <3>1, <4>1, <2>1, <1>3
      <4> QED BY <4>2, <4>3 DEF Ends
    <3>2. ASSUME l \in Ends(k + 1) PROVE l \in 1 .. n /\ l - 1 \in Ends(k) /\ s[l] = c
      <4>1. l \in 0 .. n /\ k + 1 <= l /\ \A j \in 1 .. k + 1 : s[(l - (k + 1)) + j] = q[j]
        BY <3>2 DEF Ends
      <4>2. l \in 1 .. n /\ l - 1 \in 0 .. n /\ k <= l - 1
        BY <4>1, <2>1, <1>3
      <4>3. s[l] = c
        <5>1. k + 1 \in 1 .. k + 1 /\ (l - (k + 1)) + (k + 1) = l
          BY <4>2, <2>1
        <5>2. s[(l - (k + 1)) + (k + 1)] = q[k + 1]
          BY <4>1, <5>1
        <5> QED BY <5>1, <5>2
      <4>4. ASSUME NEW j \in 1 .. k PROVE s[((l - 1) - k) + j] = q[j]
        <5>1. ((l - 1) - k) + j = (l - (k + 1)) + j /\ j \in 1 .. k + 1
          BY <4>2, <2>1
        <5> QED BY <5>1, <4>1
      <4> QED BY <4>2, <4>3, <4>4 DEF Ends
    <3> QED BY <3>1, <3>2
  <2>7. {l \in 1 .. n : l - 1 \in Ends(k) /\ s[l] = c} = Ends(k + 1)
    BY <2>6
  <2> QED BY <2>1, <2>2, <2>3, <2>5, <2>7
<1>10. 0 .. m \subseteq T
  <2> HIDE DEF T
  <2> QED BY <1>3, <1>8, <1>9, UpTo
<1>11. f[1 + m] = Ends(m)
  BY <1>3, <1>10
<1>12. n \in Ends(m) <=> EndsWith(s, q)
  <2>1. n \in 0 .. n
    BY <1>3
  <2>2. n \in Ends(m) <=> m <= n /\ \A j \in 1 .. m : s[(n - m) + j] = q[j]
    BY <2>1, Zenon
  <2> QED BY <2>2, Zenon DEF EndsWith, m, n
<1> QED BY <1>6, <1>11, <1>12 DEF p, x

\* A suffix, letter by letter.
LEMMA SuffixIs ==
  ASSUME NEW X, NEW q, q \in Seq(X), NEW s, s \in Seq(X)
  PROVE  IsSuffix(q, s) <=> EndsWith(s, q)
<1> DEFINE m == Len(q)
           n == Len(s)
           a == Reverse(q)
           b == Reverse(s)
<1>1. m \in Nat /\ n \in Nat
  BY LenProperties
<1>2. (\A i \in 1 .. m : q[i] \in X) /\ \A i \in 1 .. n : s[i] \in X
  BY ElementOfSeq
<1>3. a = [i \in 1 .. m |-> q[(m - i) + 1]] /\ b = [i \in 1 .. n |-> s[(n - i) + 1]]
  BY DEF Reverse
<1>12. IsSuffix(q, s) <=> Len(a) <= Len(b) /\ SubSeq(a, 1, Len(a)) = SubSeq(b, 1, Len(a))
  BY DEF IsSuffix, IsPrefix
<1> HIDE DEF m, n, a, b
<1>4. (\A i \in 1 .. m : (m - i) + 1 \in 1 .. m) /\ \A i \in 1 .. n : (n - i) + 1 \in 1 .. n
  BY <1>1
<1>5. a \in [1 .. m -> X] /\ b \in [1 .. n -> X]
  BY <1>2, <1>3, <1>4
<1>6. a \in Seq(X) /\ Len(a) = m /\ \A i \in 1 .. m : a[i] = q[(m - i) + 1]
  BY <1>1, <1>3, <1>5, SeqDef, LenProperties
<1>7. b \in Seq(X) /\ Len(b) = n /\ \A i \in 1 .. n : b[i] = s[(n - i) + 1]
  BY <1>1, <1>3, <1>5, SeqDef, LenProperties
<1>8. CASE m <= n
  <2> DEFINE u == SubSeq(b, 1, m)
  <2>1. m \in 0 .. n
    BY <1>1, <1>8
  <2>2. u \in Seq(X) /\ Len(u) = m /\ \A i \in 1 .. m : u[i] = b[i]
    BY <1>7, <2>1, FirstOf
  <2>3. SubSeq(a, 1, m) = a
    BY <1>6, SubSeqFull
  <2> HIDE DEF u
  <2>4. a = u <=> \A i \in 1 .. m : a[i] = u[i]
    BY <1>6, <2>2, SeqEqual
  <2>5. (\A i \in 1 .. m : a[i] = u[i]) <=> \A j \in 1 .. m : s[(n - m) + j] = q[j]
    <3>1. ASSUME \A i \in 1 .. m : a[i] = u[i], NEW j \in 1 .. m PROVE s[(n - m) + j] = q[j]
      <4> DEFINE i == (m - j) + 1
      <4>1. i \in 1 .. m /\ i \in 1 .. n /\ (m - i) + 1 = j /\ (n - i) + 1 = (n - m) + j
        BY <1>1, <1>8
      <4> HIDE DEF i
      <4>2. a[i] = q[j] /\ b[i] = s[(n - m) + j] /\ a[i] = u[i] /\ u[i] = b[i]
        BY <4>1, <3>1, <1>6, <1>7, <2>2
      <4> QED BY <4>2
    <3>2. ASSUME \A j \in 1 .. m : s[(n - m) + j] = q[j], NEW i \in 1 .. m PROVE a[i] = u[i]
      <4> DEFINE j == (m - i) + 1
      <4>1. j \in 1 .. m /\ i \in 1 .. n /\ (n - i) + 1 = (n - m) + j
        BY <1>1, <1>8
      <4>2. a[i] = q[j]
        BY <1>6
      <4> HIDE DEF j
      <4>3. b[i] = s[(n - m) + j] /\ u[i] = b[i] /\ s[(n - m) + j] = q[j]
        BY <4>1, <3>2, <1>7, <2>2
      <4> QED BY <4>2, <4>3
    <3> QED BY <3>1, <3>2
  <2> QED BY <1>6, <1>7, <1>8, <1>12, <2>3, <2>4, <2>5 DEF EndsWith, u, m, n
<1>9. CASE ~(m <= n)
  BY <1>6, <1>7, <1>9, <1>12 DEF EndsWith, m, n
<1> QED BY <1>8, <1>9

---------------------------------------------------------------------------
(* Targets                                                               *)

\* One target, and no regular expression.
OnlyTarget(t) == [targets |-> <<t>>, regexes |-> <<>>]

\* What a host is matched by when there is one target.
LEMMA OneTarget ==
  ASSUME NEW t, NEW h
  PROVE  InScope(OnlyTarget(t), h)
           <=> \/ HasGlob(NormalizeHostname(t)) /\ Glob(NormalizeHostname(t), NormalizeHostname(h))
               \/ ~HasGlob(NormalizeHostname(t)) /\ InDomain(NormalizeHostname(h), NormalizeHostname(t))
<1> DEFINE scope == OnlyTarget(t)
           name == NormalizeHostname(h)
           norm == NormalizeHostname(t)
           targets == [k \in DOMAIN scope.targets |-> NormalizeHostname(scope.targets[k])]
           plain == {k \in DOMAIN targets : ~HasGlob(targets[k]) /\ InDomain(name, targets[k])}
           globs == {k \in DOMAIN targets : HasGlob(targets[k]) /\ Glob(targets[k], name)}
           regexes == {k \in DOMAIN scope.regexes : IsPrefix(scope.regexes[k], name)}
<1>1. MatchedBy(scope, h) =
        IF plain # {} THEN FirstAt(targets, plain)
        ELSE IF globs # {} THEN FirstAt(scope.targets, globs)
        ELSE IF regexes # {} THEN FirstAt(scope.regexes, regexes)
        ELSE <<>>
  BY DEF MatchedBy
<1>2. DOMAIN scope.targets = {1} /\ scope.targets[1] = t /\ DOMAIN scope.regexes = {}
  <2>1. scope.targets = <<t>> /\ scope.regexes = <<>>
    BY DEF OnlyTarget
  <2>2. DOMAIN <<t>> = {1} /\ <<t>>[1] = t /\ DOMAIN <<>> = {}
    OBVIOUS
  <2> HIDE DEF scope
  <2> QED BY <2>1, <2>2
<1> HIDE DEF scope
<1>3. DOMAIN targets = {1} /\ targets[1] = norm
  BY <1>2
<1> HIDE DEF targets, name, norm
<1>4. /\ plain # {} <=> ~HasGlob(norm) /\ InDomain(name, norm)
      /\ globs # {} <=> HasGlob(norm) /\ Glob(norm, name)
      /\ regexes = {}
  BY <1>2, <1>3
<1>5. \A list, places : FirstAt(list, places) # <<>>
  BY DEF FirstAt
<1> HIDE DEF plain, globs, regexes
<1>6. MatchedBy(scope, h) # <<>> <=> plain # {} \/ globs # {}
  BY <1>1, <1>4, <1>5, Zenon
<1> QED BY <1>4, <1>6 DEF InScope, scope, name, norm

\* Capitals for one letter.
Capital(s) == [k \in DOMAIN s |-> IF s[k] = "a" THEN "A" ELSE s[k]]

\* The ways to write a name are normalized to the same.
LEMMA SpellingsAreSame ==
  ASSUME NEW X, NEW s, s \in Seq(Text(X))
  PROVE  \A t \in {s, s \o <<".">>, NormalizeHostname(s), Capital(s)} :
           NormalizeHostname(t) = NormalizeHostname(s)
<1> DEFINE S == Text(X)
           c == Capital(s)
           n == Len(s)
<1>1. Alphabet(S) /\ "A" \in S /\ s \in Seq(S)
  BY LettersIs DEF Text
<1> HIDE DEF S
<1>2. /\ NormalizeHostname(s \o <<".">>) = NormalizeHostname(s)
      /\ NormalizeHostname(NormalizeHostname(s)) = NormalizeHostname(s)
      /\ NormalizeHostname(Lower(s)) = NormalizeHostname(s)
  BY <1>1, HostNormal
<1>3. n \in Nat /\ DOMAIN s = 1 .. n /\ \A k \in 1 .. n : s[k] \in S
  BY <1>1, LenProperties, ElementOfSeq
<1> HIDE DEF n
<1>4. c = [k \in 1 .. n |-> IF s[k] = "a" THEN "A" ELSE s[k]]
  BY <1>3 DEF Capital
<1> HIDE DEF c
<1>5. c \in [1 .. n -> S] /\ DOMAIN c = 1 .. n
      /\ \A k \in 1 .. n : c[k] = IF s[k] = "a" THEN "A" ELSE s[k]
  BY <1>1, <1>3, <1>4
<1>6. c \in Seq(S)
  BY <1>3, <1>5, SeqDef
<1>7. Lower(c) = Lower(s)
  <2>1. LowerLetter("A") = "a" /\ LowerLetter("a") = "a"
    BY DEF LowerLetter
  <2>2. \A k \in 1 .. n : LowerLetter(c[k]) = LowerLetter(s[k])
    BY <1>5, <2>1
  <2>3. Lower(c) = [k \in 1 .. n |-> LowerLetter(c[k])] /\ Lower(s) = [k \in 1 .. n |-> LowerLetter(s[k])]
    BY <1>3, <1>5 DEF Lower
  <2>4. [k \in 1 .. n |-> LowerLetter(c[k])] = [k \in 1 .. n |-> LowerLetter(s[k])]
    BY <2>2
  <2> QED BY <2>3, <2>4
<1>8. NormalizeHostname(Lower(c)) = NormalizeHostname(c)
  BY <1>1, <1>6, HostNormal
<1>9. NormalizeHostname(c) = NormalizeHostname(s)
  BY <1>2, <1>7, <1>8
<1> QED BY <1>2, <1>9, Zenon DEF c

\* A star and a dot before a target match its subdomains.
LEMMA StarTarget ==
  ASSUME NEW X, NEW t, t \in Seq(Text(X)), ~HasGlob(t), NormalizeHostname(t) # <<>>,
         NEW h, h \in Seq(Text(X))
  PROVE  /\ InScope(OnlyTarget(t), h)
              <=> \/ NormalizeHostname(h) = NormalizeHostname(t)
                  \/ IsSuffix(<<".">> \o NormalizeHostname(t), NormalizeHostname(h))
         /\ InScope(OnlyTarget(<<"*", ".">> \o t), h)
              <=> IsSuffix(<<".">> \o NormalizeHostname(t), NormalizeHostname(h))
<1> DEFINE S == Text(X)
           L == Letters(X)
           n == NormalizeHostname(t)
           name == NormalizeHostname(h)
           q == <<".">> \o n
           x == <<"*", ".">>
           p == x \o n
           r == NormalizeHostname(x \o t)
<1>1. Alphabet(S) /\ Alphabet(L) /\ "*" \in S /\ "." \in L /\ "." \in S /\ t \in Seq(L)
      /\ \A s \in Seq(S) : ~HasGlob(s) <=> s \in Seq(L)
  BY LettersIs DEF Text
<1>2. n \in Seq(L) /\ n \in Seq(S) /\ name \in Seq(S)
  BY <1>1, HostNormal
<1>3. ~HasGlob(n)
  BY <1>1, <1>2
<1>4. r = p
  BY <1>1, StarHost
<1>5. q \in Seq(L) /\ q \in Seq(S) /\ p = <<"*">> \o q
  <2> DEFINE d == <<".">>
             w == <<"*">>
  <2>1. d \in Seq(L) /\ d \in Seq(S) /\ w \in Seq(S) /\ x = w \o d
    <3> HIDE DEF L, S
    <3> QED BY <1>1
  <2> HIDE DEF d, w, x, L, S, n
  <2>2. d \o n \in Seq(L) /\ d \o n \in Seq(S)
    BY <1>2, <2>1, ConcatProperties
  <2>3. (w \o d) \o n = w \o (d \o n)
    <3>1. w \in Seq(S) /\ d \in Seq(S) /\ n \in Seq(S)
      BY <1>2, <2>1
    <3>2. Regroups(w, d, n)
      BY <3>1, Concatenates
    <3> QED BY <3>2, Zenon DEF Regroups
  <2>4. x \o n = w \o (d \o n)
    BY <2>1, <2>3
  <2> QED BY <2>2, <2>4 DEF d, w, x
<1>6. HasGlob(p)
  <2> DEFINE w == <<"*">>
  <2>1. w \in Seq(S) /\ Len(w) = 1 /\ w[1] = "*"
    <3> HIDE DEF S
    <3> QED BY <1>1
  <2> HIDE DEF w, q, S, p
  <2>2. Both(w \o q, w, q) /\ w \o q \in Seq(S) /\ Len(q) \in Nat
    BY <1>5, <2>1, ConcatIsBoth
  <2> DEFINE v == w \o q
  <2>3. v \in Seq(S) /\ Both(v, w, q)
    BY <2>2
  <2> HIDE DEF v
  <2>4. 1 \in 1 .. Len(v) /\ v[1] = "*"
    <3>1. 1 \in 1 .. 1
      OBVIOUS
    <3> QED BY <3>1, <2>1, <2>2, <2>3 DEF Both
  <2>5. 1 \in DOMAIN v
    BY <2>3, <2>4, LenProperties
  <2>6. "*" \in ToSet(v)
    BY <2>4, <2>5, Zenon DEF ToSet
  <2>7. HasGlob(v)
    BY <2>6, Zenon DEF HasGlob, GlobChars
  <2> QED BY <2>7, <1>5 DEF v, w
<1>7. Glob(p, name) <=> EndsWith(name, q)
  <2> HIDE DEF q, p, name
  <2>1. Glob(<<"*">> \o q, name) <=> EndsWith(name, q)
    BY <1>2, <1>5, StarGlob
  <2> QED BY <2>1, <1>5
<1>8. IsSuffix(q, name) <=> EndsWith(name, q)
  <2> HIDE DEF q, name, S
  <2> QED BY <1>2, <1>5, SuffixIs
<1>9. InScope(OnlyTarget(t), h) <=> InDomain(name, n)
  BY <1>3, OneTarget
<1>10. InDomain(name, n) <=> name = n \/ IsSuffix(q, name)
  BY DEF InDomain
<1>11. InScope(OnlyTarget(x \o t), h) <=> Glob(p, name)
  <2>1. InScope(OnlyTarget(x \o t), h) <=> \/ HasGlob(r) /\ Glob(r, name)
                                           \/ ~HasGlob(r) /\ InDomain(name, r)
    BY OneTarget
  <2> HIDE DEF p, r, name
  <2> QED BY <2>1, <1>4, <1>6
<1> QED BY <1>7, <1>8, <1>9, <1>10, <1>11, Zenon

\* Whatever the target and the host, and whatever their letters, a target means itself
\* and its subdomains, and how the two are written is no matter (ScopeMatcher.match).
THEOREM ScopeByLabels ==
  ASSUME NEW X
  PROVE  \A target, host \in Seq(X) : ScopeIsByLabels(target, host)
<1> SUFFICES ASSUME NEW target \in Seq(X), NEW host \in Seq(X)
             PROVE  ScopeIsByLabels(target, host)
  OBVIOUS
<1> DEFINE same(a, b) == NormalizeHostname(a) = NormalizeHostname(b)
           spellings(s) == {s, s \o <<".">>, NormalizeHostname(s), Capital(s)}
           ways(s) == {s, s \o <<".">>, NormalizeHostname(s),
                       [k \in DOMAIN s |-> IF s[k] = "a" THEN "A" ELSE s[k]]}
<1>1. target \in Seq(Text(X)) /\ host \in Seq(Text(X))
  BY LettersIs
<1>2. ASSUME ~HasGlob(target), NormalizeHostname(target) # <<>>
      PROVE  InScope(OnlyTarget(target), host)
               <=> same(host, target) \/ InScope(OnlyTarget(<<"*", ".">> \o target), host)
  BY <1>1, <1>2, StarTarget
<1>3. ASSUME NEW t \in spellings(target), NEW h \in spellings(host)
      PROVE  InScope(OnlyTarget(t), h) <=> InScope(OnlyTarget(target), host)
  <2>1. NormalizeHostname(t) = NormalizeHostname(target) /\ NormalizeHostname(h) = NormalizeHostname(host)
    BY <1>1, SpellingsAreSame
  <2> HIDE DEF spellings
  <2> QED BY <2>1, OneTarget
<1>4. \A s : ways(s) = spellings(s)
  BY DEF Capital
<1>5. ASSUME NEW t \in ways(target), NEW h \in ways(host)
      PROVE  InScope(OnlyTarget(t), h) <=> InScope(OnlyTarget(target), host)
  <2> HIDE DEF ways, spellings
  <2> QED BY <1>3, <1>4
<1> QED BY <1>2, <1>5, Zenon DEF ScopeIsByLabels, OnlyTarget

\* A target is matched by labels, whatever was typed (the scope of a session).
THEOREM TargetsAllMatchByLabels == Spec => []TargetsMatchByLabels
<1>1. InputsOK => TargetsMatchByLabels
  BY ScopeByLabels, HostsAssumption DEF InputsOK, TargetsMatchByLabels
<1> QED BY <1>1, InputsInductive, PTL
================================================================================
