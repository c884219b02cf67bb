------------------------------- MODULE MCInputs -------------------------------
(***************************************************************************)
(* Inputs for TLC: the entries that captures are made of, the names and    *)
(* patterns to match, and what clients send.  An entry's time counts from  *)
(* the one recorded before it.                                             *)
(***************************************************************************)
EXTENDS Inputs

CONSTANTS MaxPages, MaxPolls, MaxSignals   \* how long captures get

---------------------------------------------------------------------------
(* Entries                                                                 *)

Url(path) == [PlainEntry.url EXCEPT !.path = path]
To(path) == <<"location", [Url(path) EXCEPT !.host = ""]>>
From(path) == <<"referer", Url(path)>>
Navigating == <<"sec-fetch-mode", "navigate">>
Css == <<<<"content-type", "text/css">>>>
JsonType == <<"content-type", "application/json">>

Later(gap, entry) == [entry EXCEPT !.at = gap]

Redirect(path, to) ==
  [PlainEntry EXCEPT !.url = Url(path), !.sent = <<Navigating>>, !.status = 302, !.got = <<To(to)>>]

Page(path) ==
  [PlainEntry EXCEPT !.url = Url(path), !.got = <<<<"content-type", "text/html">>>>,
                     !.body = Body(<<"html">>, 1, None, {})]

Asset(page) ==
  [PlainEntry EXCEPT !.url = Url("/a.css"), !.sent = <<From(page)>>, !.got = Css,
                     !.body = [Body(<<"binary">>, 1, None, {}) EXCEPT !.utf8 = FALSE]]

Api(body) ==
  [PlainEntry EXCEPT !.url = Url("/api"), !.sent = <<From("/a")>>, !.got = <<JsonType>>,
                     !.body = body]

Json(value) == Body(<<value>>, 1, <<<<<<"v", value>>>>>>, {})
Leaking(value) == [Json(value) EXCEPT !.marks = {"jwt"}]
\* The same JSON in other bytes, in which the secret shows.
Unescaped(value) == [Leaking(value) EXCEPT !.bytes = <<"unescaped">>]

WithQuery(entry, query) == [entry EXCEPT !.url.query = query]
WithJson(entry, members) ==
  [entry EXCEPT !.sent = @ \o <<JsonType>>, !.reqBody = Body(<<"request">>, 2, <<members>>, {}),
                !.method = "POST"]

\* Pages with redirects between them, their assets, and an entry that began before
\* the one recorded last.
PageEntries ==
  {Later(1, Redirect("/a", "/b")), Later(1, Redirect("/b", "/a")), Later(1, Page("/b")),
   Later(3, Page("/a")), Later(0, Asset("/b")), Later(3, Asset("/b")), Later(-1, Asset("/a")),
   Later(2, Api(Json("1")))}

\* One endpoint that is called again and again: in time, late, with another answer,
\* with the same answer written otherwise, with another query, and recorded out of
\* order.
PollEntries ==
  {Later(5, Api(Json("1"))), Later(7, Api(Json("1"))), Later(5, Api(Leaking("2"))),
   Later(5, Api(Unescaped("1"))),
   Later(-5, WithQuery(Api(Json("1")), <<<<"job", "j">>>>)), Later(0, Asset("/a"))}

\* Parameters, cookies and slow answers.
SignalEntries ==
  LET slow == [Api(Leaking("2")) EXCEPT !.time = 9, !.body.size = 20]
      cookie == <<"set-cookie", [name |-> "sid", words |-> {"secure"}]>>
      tracked == <<<<"server", "s">>, cookie, <<"x-frame-options", "deny">>>>
      members == <<<<"id", "7">>, <<"page", "1">>>>
  IN {WithQuery(Page("/b"), <<<<"id", "7">>, <<"job", "j">>>>),
      WithQuery(Asset("/b"), <<<<"id", "7">>>>),
      WithJson(Api(Json("1")), members),
      [slow EXCEPT !.got = @ \o tracked, !.body.bytes = <<"slow">>, !.body.marks = {"jwt", "trace"}],
      [Asset("/b") EXCEPT !.got = @ \o tracked, !.time = 9,
                          !.body.bytes = <<"marked">>, !.body.marks = {"jwt", "trace"}]}

---------------------------------------------------------------------------
(* Names and hellos                                                        *)

Letters == {"a", "A", ".", "ue", "_", "*"}
TargetsAndPatterns ==
  UNION {[1 .. n -> Letters] : n \in 0 .. 1}
    \cup {<<"a", "ue">>, <<"A", ".", "a">>, <<".", "a">>, <<"a", ".", ".">>, <<"*", ".", "a">>,
          <<"a", "*">>, <<"_", "ue">>, <<"a", "?">>}

Ascii == [b \in 0 .. 127 |-> CASE b = 97 -> "a" [] b = 46 -> "." [] b = 65 -> "A" [] OTHER -> "_"]

Names == <<97, 46, 65>>

SomeHellos ==
  LET Of(session, extensions) ==
        [session |-> session, ciphers |-> <<1, 2>>, methods |-> <<0>>, extensions |-> extensions]
  IN {Of(<<>>, <<>>),
      Of(<<7>>, <<<<>>>>),
      Of(<<>>, <<<<<<0, <<<<0, Names>>>>>>>>>>),
      Of(<<>>, <<<<<<5, <<>>>>, <<0, <<<<1, <<9>>>>, <<0, <<97>>>>>>>>>>>>),
      Of(<<>>, <<<<<<0, <<>>>>, <<0, <<<<0, <<97>>>>>>>>>>>>),
      Of(<<>>, <<<<<<0, <<<<0, <<200>>>>>>>>>>>>)}

\* A client's hello and what it sends next; or the same with one byte altered.
SomeStreams ==
  LET Sent(h) == Write(h) \o <<22, 3>>
  IN {Sent(h) : h \in SomeHellos}
       \cup UNION {{[Sent(h) EXCEPT ![k] = b] : k \in DOMAIN Write(h), b \in {0, 2, 255}} :
                     h \in SomeHellos}

---------------------------------------------------------------------------
DebugSignatures == <<"debug", "trace">>

PagesAndPolls ==
  {[entries |-> PageEntries, longest |-> MaxPages], [entries |-> PollEntries, longest |-> MaxPolls]}

SignalsOnly == {[entries |-> SignalEntries, longest |-> MaxSignals]}

AllKinds == PagesAndPolls \cup SignalsOnly
===============================================================================
