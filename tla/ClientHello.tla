------------------------------ MODULE ClientHello ------------------------------
(***************************************************************************)
(* proxy/sni.py, and what proxy/listener.py does with the first bytes of a *)
(* CONNECT: reads them until the ClientHello is whole, finds the server's  *)
(* name in it, and intercepts or relays.  Bytes are numbers, and positions *)
(* count from 0 as they do in the code.                                    *)
(***************************************************************************)
EXTENDS Scope

CONSTANTS
  RandomLen,   \* _RANDOM_LEN
  Letter       \* [bytes below 128 -> letters]: ASCII, as far as it is used

Bad == -1

Result(outcome, sni, needed) == [outcome |-> outcome, sni |-> sni, needed |-> needed]
Incomplete(needed) == Result("incomplete", <<>>, needed)
Malformed == Result("malformed", <<>>, 0)
NoSni == Result("no_sni", <<>>, 0)
Item(bytes) == Result("item", bytes, 0)   \* no outcome of the parser: a step of it

\* int.from_bytes of the `width' bytes at pos, big-endian.
Number(s, pos, width) ==
  CASE width = 1 -> s[pos + 1]
    [] width = 2 -> 256 * s[pos + 1] + s[pos + 2]
    [] width = 3 -> 65536 * s[pos + 1] + 256 * s[pos + 2] + s[pos + 3]

\* Where the vector at pos, whose length is a number of `width' bytes, ends; Bad
\* if that is after `end', or if there is no pos.
After(s, pos, width, end) ==
  IF pos = Bad \/ pos + width > end THEN Bad
  ELSE LET next == pos + width + Number(s, pos, width) IN IF next <= end THEN next ELSE Bad

\* Both loops: items from pos up to end, each a type and a vector; the first of type 0
\* is taken, and what comes after it is not looked at.
FirstOfType0(s, start, width, end) ==
  LET from[pos \in start .. end] ==
        LET next == After(s, pos + width, 2, end) IN
        IF pos = end THEN NoSni
        ELSE IF next = Bad THEN Malformed
        ELSE IF Number(s, pos, width) = 0 THEN Item(SubSeq(s, pos + width + 3, next))
        ELSE from[next]
  IN from[start]

HostName(bytes) ==
  IF \E k \in DOMAIN bytes : bytes[k] > 127 THEN Malformed
  ELSE Result("found", [k \in DOMAIN bytes |-> Letter[bytes[k]]], 0)

\* The name of the first entry that is a host name.
HostNameIn(item) == IF item.outcome = "item" THEN HostName(item.sni) ELSE item

\* Mutant of ServerNameExtension: a name's type is read as wide as an extension's.
ServerNameExtensionWide(ext) ==
  LET end == After(ext, 0, 2, Len(ext))
  IN IF end = Bad THEN Malformed ELSE HostNameIn(FirstOfType0(ext, 2, 2, end))

ServerNameExtension(ext) ==
  LET end == After(ext, 0, 2, Len(ext))
  IN IF end = Bad THEN Malformed ELSE HostNameIn(FirstOfType0(ext, 2, 1, end))

\* What the first extension that is for server names says.
ServerNameIn(item) == IF item.outcome = "item" THEN ServerNameExtension(item.sni) ELSE item

\* client_version and random, then session id, cipher suites and compression
\* methods, then the extensions, which may be missing altogether.
Hello(hello) ==
  LET session == After(hello, 2 + RandomLen, 1, Len(hello))
      ciphers == After(hello, session, 2, Len(hello))
      methods == After(hello, ciphers, 1, Len(hello))
      extensions == After(hello, methods, 2, Len(hello))
  IN IF methods = Bad THEN Malformed
     ELSE IF methods = Len(hello) THEN NoSni
     ELSE IF extensions = Bad THEN Malformed
     ELSE ServerNameIn(FirstOfType0(hello, methods + 2, 2, extensions))

HandshakeBody(body) ==
  LET end == After(body, 1, 3, Len(body))
  IN IF end = Bad \/ body[1] # 1 THEN Malformed ELSE Hello(SubSeq(body, 5, end))

\* Mutant of ParseClientHello: whatever has arrived is taken for the record.
ParseWholeBuffer(data) ==
  IF Len(data) < 5 THEN Incomplete(5)
  ELSE IF data[1] # 22 THEN Malformed
  ELSE IF Len(data) < 5 + Number(data, 3, 2) THEN Incomplete(5 + Number(data, 3, 2))
  ELSE HandshakeBody(SubSeq(data, 6, Len(data)))

ParseClientHello(data) ==
  IF Len(data) < 5 THEN Incomplete(5)
  ELSE IF data[1] # 22 THEN Malformed
  ELSE IF Len(data) < 5 + Number(data, 3, 2) THEN Incomplete(5 + Number(data, 3, 2))
  ELSE HandshakeBody(SubSeq(data, 6, 5 + Number(data, 3, 2)))

\* _process_connection after each chunk, for the host that CONNECT named: a client
\* that names no server is in scope only if everything is.
Route(scope, targetAll, host, data) ==
  LET result == ParseClientHello(data) IN
  CASE result.outcome = "incomplete" -> <<"wait">>
    [] result.outcome = "malformed" -> <<"drop">>
    [] OTHER ->
       IF result.outcome = "found" /\ (targetAll \/ InScope(scope, result.sni))
         THEN <<"intercept", result.sni>>
       ELSE IF targetAll THEN <<"intercept", host>>
       ELSE <<"relay">>

---------------------------------------------------------------------------
(* What a client writes: the reference that the parser is held to          *)

Vector(width, bytes) ==
  LET n == Len(bytes)
  IN CASE width = 1 -> <<n>> \o bytes
       [] width = 2 -> <<n \div 256, n % 256>> \o bytes
       [] width = 3 -> <<n \div 65536, (n \div 256) % 256, n % 256>> \o bytes

\* What is written of a list of pairs <<type, contents>>: the contents of a name are
\* bytes, those of an extension names if it is for server names, and bytes otherwise.
WriteName(name) == <<name[1]>> \o Vector(2, name[2])
WriteNames(names) == FlattenSeq([k \in DOMAIN names |-> WriteName(names[k])])
WriteExtension(x) ==
  LET contents == IF x[1] = 0 THEN Vector(2, WriteNames(x[2])) ELSE x[2]
  IN <<x[1] \div 256, x[1] % 256>> \o Vector(2, contents)
WriteExtensions(xs) == FlattenSeq([k \in DOMAIN xs |-> WriteExtension(xs[k])])

\* A hello is [session, ciphers, methods, extensions]; extensions is a sequence of at
\* most one sequence of such pairs.
WriteBody(hello) ==
  [k \in 1 .. 2 + RandomLen |-> 3]
    \o Vector(1, hello.session) \o Vector(2, hello.ciphers) \o Vector(1, hello.methods)
    \o (IF hello.extensions = <<>> THEN <<>> ELSE Vector(2, WriteExtensions(hello.extensions[1])))

Write(hello) == <<22, 3, 1>> \o Vector(2, <<1>> \o Vector(3, WriteBody(hello)))

\* Every length fits its field.
IsBytes(b, limit) == b \in Seq(0 .. 255) /\ Len(b) < limit

IsName(name) == name[1] \in 0 .. 255 /\ IsBytes(name[2], 65536)

IsNames(names) ==
  /\ Len(names) \in Nat /\ DOMAIN names = 1 .. Len(names)
  /\ \A k \in DOMAIN names : IsName(names[k])
  /\ Len(WriteNames(names)) < 65534

IsExtension(x) ==
  /\ x[1] \in Nat /\ x[1] < 65536
  /\ x[1] = 0 => IsNames(x[2])
  /\ x[1] # 0 => IsBytes(x[2], 65536)

IsExtensions(xs) ==
  /\ Len(xs) \in Nat /\ DOMAIN xs = 1 .. Len(xs)
  /\ \A k \in DOMAIN xs : IsExtension(xs[k])
  /\ Len(WriteExtensions(xs)) < 65536

IsHello(hello) ==
  /\ IsBytes(hello.session, 256) /\ IsBytes(hello.ciphers, 65536) /\ IsBytes(hello.methods, 256)
  /\ hello.extensions # <<>> => IsExtensions(hello.extensions[1])
  /\ Len(WriteBody(hello)) < 65532

\* The contents of the first of a list of pairs <<type, contents>> that has type 0.
First0(pairs) ==
  LET at == {k \in DOMAIN pairs : pairs[k][1] = 0}
  IN IF at = {} THEN <<>> ELSE <<pairs[Min(at)][2]>>

\* The first host name in the first extension that is for server names.
NameAsked(hello) ==
  LET names == IF hello.extensions = <<>> THEN <<>> ELSE First0(hello.extensions[1])
  IN IF names = <<>> THEN <<>> ELSE First0(names[1])

---------------------------------------------------------------------------
(* Properties                                                              *)

\* A stream, cut anywhere, is decided upon as soon as, and not before, its first
\* record is whole, and in one way only: neither the chunks in which it arrives nor
\* what the client sends after it make a difference.
DecidedOnce(stream, n, RouteOf(_)) ==
  LET Cut(k) == SubSeq(stream, 1, k)
      result == ParseClientHello(Cut(n))
  IN IF result.outcome = "incomplete"
     THEN /\ result.needed > n
          /\ \A k \in n .. result.needed - 1 : k <= Len(stream) => RouteOf(Cut(k)) = <<"wait">>
     ELSE /\ RouteOf(Cut(n)) # <<"wait">>
          /\ \A k \in n .. Len(stream) : RouteOf(Cut(k)) = RouteOf(Cut(n))

\* What a client wrote is understood: the name it asks for, if it is ASCII, is the
\* name that is found.
Understood(hello) ==
  LET asked == NameAsked(hello)
  IN ParseClientHello(Write(hello)) =
       IF asked = <<>> THEN NoSni ELSE HostName(asked[1])
================================================================================
