--------------------------------- MODULE Har ---------------------------------
(***************************************************************************)
(* capture/har.py: an entry as the handlers build it and as a line of the  *)
(* buffer or raw.har stores it.  A header name stands for all its          *)
(* spellings; a body is known by its bytes and what the program can tell   *)
(* of them: whether they are UTF-8, their number, the object they are as   *)
(* JSON and the marks (credentials, error pages) found in them.            *)
(***************************************************************************)
EXTENDS Integers, SequencesExt

\* A value that may be missing is a sequence of at most one value.
None == <<>>

Body(bytes, size, json, marks) ==
  [bytes |-> bytes, utf8 |-> TRUE, size |-> size, json |-> json, marks |-> marks]

NoBody == Body(<<>>, 0, None, {})

\* Names with their values.
Pairs == STRING \X STRING

IsBody(b) ==
  /\ b = [bytes |-> b.bytes, utf8 |-> b.utf8, size |-> b.size, json |-> b.json, marks |-> b.marks]
  /\ b.bytes \in Seq(STRING) /\ b.utf8 \in BOOLEAN /\ b.size \in Nat
  /\ b.json \in Seq(Seq(Pairs))

\* What the handlers build: a body of no bytes is NoBody.
IsEntry(e) ==
  /\ e = [at |-> e.at, time |-> e.time, method |-> e.method, url |-> e.url, sent |-> e.sent,
          reqBody |-> e.reqBody, status |-> e.status, got |-> e.got, body |-> e.body]
  /\ e.at \in Int /\ e.url.query \in Seq(Pairs)
  /\ IsBody(e.reqBody) /\ (e.reqBody.size = 0 => e.reqBody = NoBody)
  /\ IsBody(e.body)

\* An entry with nothing in it that the analysis would look at.
PlainEntry ==
  [at |-> 0, time |-> 1, method |-> "GET", url |-> [host |-> "h", path |-> "/", query |-> <<>>],
   sent |-> <<>>, reqBody |-> NoBody, status |-> 200, got |-> <<>>, body |-> NoBody]

\* The value of the first header of that name.
HeaderValue(headers, name) ==
  LET found == {k \in DOMAIN headers : headers[k][1] = name}
  IN IF found = {} THEN None
     ELSE <<headers[CHOOSE k \in found : \A j \in found : k <= j][2]>>

ContentType(headers) == HeaderValue(headers, "content-type")

Cookies(headers) == SelectSeq(headers, LAMBDA h : h[1] = "set-cookie")

---------------------------------------------------------------------------
(* To JSON and back                                                        *)

Base64(bytes) == <<"base64">> \o bytes

\* Mutant of EncodeBody: what is not UTF-8 is decoded with replacement characters.
EncodeBodyLossily(body) ==
  [text |-> IF body.utf8 THEN body.bytes ELSE <<"replaced">>, encoding |-> None, body |-> body]

\* Bytes that are UTF-8 are stored as that text, others as base64.  The third
\* field is no part of the file: it is what is known of the bytes besides.
EncodeBody(body) ==
  IF body.utf8 THEN [text |-> body.bytes, encoding |-> None, body |-> body]
  ELSE [text |-> Base64(body.bytes), encoding |-> <<"base64">>, body |-> body]

DecodeBody(data) ==
  IF data = None THEN NoBody
  ELSE LET d == Head(data)
       IN [d.body EXCEPT !.bytes = IF d.encoding = <<"base64">> THEN Tail(d.text) ELSE d.text]

ToHar(e) ==
  [startedDateTime |-> e.at,
   time |-> e.time,
   request |-> [method |-> e.method, url |-> e.url, headers |-> e.sent,
                postData |-> IF e.reqBody.size > 0 THEN <<EncodeBody(e.reqBody)>> ELSE None],
   response |-> [status |-> e.status, headers |-> e.got, content |-> <<EncodeBody(e.body)>>,
                 redirectURL |-> HeaderValue(e.got, "location")]]

ParseHar(d) ==
  [at |-> d.startedDateTime,
   time |-> d.time,
   method |-> d.request.method,
   url |-> d.request.url,
   sent |-> d.request.headers,
   reqBody |-> DecodeBody(d.request.postData),
   status |-> d.response.status,
   got |-> d.response.headers,
   body |-> DecodeBody(d.response.content)]

---------------------------------------------------------------------------
\* What is read back from the buffer is what was recorded, so that bodies of
\* every kind reach raw.har and the analysis unchanged.
RoundTrips(es) == \A i \in DOMAIN es : ParseHar(ToHar(es[i])) = es[i]
=============================================================================
