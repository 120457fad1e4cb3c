--------------------------- MODULE HandshakeProofs ---------------------------
(* Whatever the client says and in whatever pieces it arrives and leaves: the *)
(* positions stay within the arrays, two answers never mix, nobody requests   *)
(* anything without having authenticated, and the handshake implements        *)
(* Negotiation. The parsers see one byte at a time: what each of them has     *)
(* made of the first k bytes of a message is stated below (HelloAt, AuthAt,   *)
(* RequestAt), and proved to be kept by a turn of its loop.                   *)
EXTENDS Handshake, Induction, SequenceTheorems

-----------------------------------------------------------------------------
(* The parsers after the first k bytes of the message m *)

HelloParsers ==
    [of : {"hello"}, at : {"VERSION", "NMETHODS", "METHODS", "DONE", "ERROR"},
     engine : [state : {"HELLO_VERSION", "HELLO_NMETHODS", "HELLO_METHODS", "HELLO_ERROR"},
               type : {"none", "ERROR", "NMETHODS", "METHOD"}],
     remaining : Int, method : Byte]

\* The method that the first k bytes choose.
Choice(m, k) ==
    LET offered == {m[i] : i \in 3 .. k} IN
    IF USERPASS \in offered THEN USERPASS
    ELSE IF NOAUTH \in offered THEN NOAUTH ELSE UNACCEPTABLE

HelloAt(p, m, k) ==
    /\ p \in HelloParsers
    /\ p.at = "VERSION" => k = 0 /\ p.engine = ParserInit("HELLO_VERSION")
    /\ p.at = "NMETHODS" =>
         k = 1 /\ m[1] = 5 /\ p.engine = [state |-> "HELLO_NMETHODS", type |-> "none"]
    /\ p.at \in {"VERSION", "NMETHODS"} => p.method = UNACCEPTABLE
    /\ p.at = "METHODS" =>
         /\ p.engine.state = "HELLO_METHODS" /\ p.engine.type \in {"NMETHODS", "METHOD"}
         /\ m[1] = 5 /\ k >= 2 /\ p.remaining = 2 + m[2] - k /\ p.remaining > 0
    /\ p.at = "DONE" => m[1] = 5 /\ m[2] # 0 /\ k >= 2 /\ k = 2 + m[2]
    /\ p.at \in {"METHODS", "DONE"} => p.method = Choice(m, k)
    /\ p.at = "ERROR" => (k = 1 /\ m[1] # 5) \/ (k = 2 /\ m[1] = 5 /\ m[2] = 0)

AuthParsers ==
    [of : {"auth"}, at : {"VERSION", "ULEN", "UNAME", "PLEN", "PASSWD", "DONE", "ERROR"},
     username_len : Byte, password_len : Byte, username : Seq(Byte), password : Seq(Byte),
     authorized : BOOLEAN]

\* s is what follows the first b bytes of m, as far as it goes.
Copied(s, m, b) == \A i \in 1 .. Len(s) : s[i] = m[b + i]

AuthAt(p, m, k) ==
    /\ p \in AuthParsers
    /\ p.at = "VERSION" => k = 0
    /\ p.at = "ULEN" => k = 1
    /\ p.at \in {"VERSION", "ULEN"} => p.username_len = 0
    /\ p.at \in {"VERSION", "ULEN", "UNAME", "PLEN"} => p.password_len = 0
    /\ Len(p.username) <= p.username_len /\ Len(p.password) <= p.password_len
    /\ p.at \notin {"VERSION", "ERROR"} => m[1] = 1
    /\ p.at \in {"UNAME", "PLEN", "PASSWD", "DONE"} =>
         /\ p.username_len = m[2] /\ m[2] > 0
         /\ Copied(p.username, m, 2)
    /\ p.at = "UNAME" => k = 2 + Len(p.username) /\ Len(p.username) < m[2]
    /\ p.at \in {"PLEN", "PASSWD", "DONE"} => Len(p.username) = m[2]
    /\ p.at = "PLEN" => k = 2 + m[2]
    /\ p.at \in {"PASSWD", "DONE"} =>
         /\ p.password_len = m[3 + m[2]] /\ p.password_len > 0
         /\ Copied(p.password, m, 3 + m[2])
         /\ k = 3 + m[2] + Len(p.password)
    /\ p.at = "PASSWD" => Len(p.password) < p.password_len
    /\ p.at = "DONE" => Len(p.password) = p.password_len
    /\ p.at = "ERROR" =>
         \/ k = 1 /\ m[1] # 1
         \/ k = 2 /\ m[2] = 0
         \/ m[2] \in Byte /\ k = 3 + m[2] /\ m[3 + m[2]] = 0

\* Not 0 .. 65535, of which a backend would enumerate the elements.
PortNumbers == {z \in Nat : z <= 65535}

RequestParsers ==
    [of : {"request"},
     at : {"VERSION", "CMD", "RSV", "ATYP", "DST_ADDR", "DST_PORT", "DONE", "ERROR"},
     cmd : Byte, atyp : Byte, addr : Seq(Byte), domain_len : Byte, port : PortNumbers,
     port_pos : 0 .. 2, reply : Byte, answer : Byte]

\* The bytes before the address, and those of it, if its type is known.
Before(p) == IF p.atyp = DOMAIN_NAME THEN 5 ELSE 4
Extent(p) == IF p.atyp = IPV4 THEN 4 ELSE IF p.atyp = IPV6 THEN 16 ELSE p.domain_len
Known == {IPV4, DOMAIN_NAME, IPV6}

RequestAt(p, m, k) ==
    /\ p \in RequestParsers
    /\ p.at = "VERSION" => k = 0
    /\ p.at = "CMD" => k = 1
    /\ p.at = "RSV" => k = 2
    /\ p.at = "ATYP" => k = 3
    /\ p.at \in {"VERSION", "CMD", "RSV", "ATYP"} =>
         p.atyp = 0 /\ p.domain_len = 0 /\ p.addr = <<>> /\ p.port = 0 /\ p.port_pos = 0
    /\ p.at \in {"VERSION", "CMD"} => p.reply = 1
    /\ p.at \notin {"VERSION", "ERROR"} => m[1] = 5
    /\ p.at \in {"RSV", "ATYP", "DST_ADDR", "DST_PORT", "DONE"} => p.cmd = m[2]
    /\ p.at \in {"ATYP", "DST_ADDR", "DST_PORT", "DONE"} => k >= 3 /\ m[3] = 0
    /\ p.at \in {"DST_ADDR", "DST_PORT", "DONE"} =>
         /\ k >= 4 /\ p.atyp = m[4]
         /\ p.atyp # DOMAIN_NAME => p.domain_len = 0
         /\ p.atyp = DOMAIN_NAME /\ k >= 5 => p.domain_len = m[5] /\ m[5] # 0
         /\ p.atyp = DOMAIN_NAME /\ k = 4 => p.domain_len = 0
         /\ Copied(p.addr, m, Before(p))
    /\ p.at = "DST_ADDR" =>
         /\ p.atyp \in Known /\ p.port = 0 /\ p.port_pos = 0
         /\ \/ p.atyp = DOMAIN_NAME /\ k = 4 /\ p.addr = <<>>
            \/ k = Before(p) + Len(p.addr) /\ Len(p.addr) < Extent(p)
    /\ p.at = "DST_PORT" =>
         /\ p.atyp \in Known /\ Len(p.addr) = Extent(p) /\ Len(p.addr) > 0
         /\ \/ p.port_pos = 0 /\ p.port = 0 /\ k = Before(p) + Len(p.addr)
            \/ p.port_pos = 1 /\ p.port = m[k] /\ k = Before(p) + Len(p.addr) + 1
    /\ p.at = "DONE" =>
         \/ p.atyp \notin Known /\ k = 4 /\ p.addr = <<>> /\ p.port = 0
         \/ /\ p.atyp \in Known /\ Len(p.addr) = Extent(p) /\ Len(p.addr) > 0
            /\ k = Before(p) + Len(p.addr) + 2
            /\ p.port = 256 * m[k - 1] + m[k]
    /\ p.at = "ERROR" =>
         /\ p.reply = 1 /\ p.addr = <<>>
         /\ \/ k = 1 /\ m[1] # 5
            \/ k = 3 /\ m[1] = 5 /\ m[3] # 0
            \/ k = 5 /\ m[1] = 5 /\ m[3] = 0 /\ m[4] = DOMAIN_NAME /\ m[5] = 0
    /\ Len(p.addr) <= 255 /\ (p.atyp \in {IPV4, IPV6} => Len(p.addr) <= 16)

-----------------------------------------------------------------------------
(* The invariant: the positions, and what is known in each state *)

\* How many of the bytes that have arrived a parser has had.
Fed == received - Len(read_buffer.held)

\* The stream from the byte after b on.
Rest(b) == SubSeq(stream, b + 1, Len(stream))

PositionsOK ==
    /\ stream \in Streams /\ received \in 0 .. Len(stream)
    /\ read_buffer \in [start : Nat, held : Seq(Byte)]
    /\ read_buffer.start + Len(read_buffer.held) <= Capacity
    /\ read_buffer.start + Len(read_buffer.held) <= received
    /\ Copied(read_buffer.held, stream, Fed)

SentOK == wire \in Seq(Int) /\ write_buffer \in Seq(Int)

HelloEnd == HelloLength(stream)
AuthMessage == Rest(HelloEnd)
AuthEnd == HelloEnd + AuthLength(AuthMessage)
Granted == <<Name(AuthMessage), Password(AuthMessage)>> \in Users

\* The methods have been heard, and the name and the password.
Greeted == HelloWhole(stream) /\ HelloEnd <= Fed
Named == Greeted /\ MethodChosen(stream) = USERPASS /\ AuthWhole(AuthMessage) /\ AuthEnd <= Fed

\* The client may request something ...
Admitted ==
    \/ Greeted /\ MethodChosen(stream) = NOAUTH /\ username = DASH
    \/ Named /\ Granted /\ username = Text(Name(AuthMessage))
RequestBegin == IF MethodChosen(stream) = USERPASS THEN AuthEnd ELSE HelloEnd

\* ... and has been told so.
Welcome == IF MethodChosen(stream) = USERPASS THEN <<5, USERPASS, 1, 0>> ELSE <<5, NOAUTH>>
Welcomed == Len(wire) >= Len(Welcome) /\ \A i \in 1 .. Len(Welcome) : wire[i] = Welcome[i]

Unlogged ==
    /\ requested_destination = [address |-> <<>>, port |-> 0]
    /\ request_logged = FALSE /\ entries = <<>>

InHelloRead ==
    /\ HelloAt(client, stream, Fed) /\ ~Over(client)
    /\ wire = <<>> /\ write_buffer = <<>> /\ username = DASH /\ Unlogged
InHelloWrite ==
    /\ Greeted /\ Fed = HelloEnd
    /\ client \in HelloParsers /\ client.method = MethodChosen(stream)
    /\ wire \o write_buffer = <<5, client.method>> /\ write_buffer # <<>>
    /\ username = DASH /\ Unlogged
InAuthRead ==
    /\ Greeted /\ MethodChosen(stream) = USERPASS
    /\ AuthAt(client, AuthMessage, Fed - HelloEnd) /\ ~Over(client)
    /\ wire = <<5, USERPASS>> /\ write_buffer = <<>> /\ username = DASH /\ Unlogged
InAuthWrite ==
    /\ Named /\ Fed = AuthEnd
    /\ client \in AuthParsers
    /\ Len(client.username) <= client.username_len
    /\ Len(client.password) <= client.password_len
    /\ client.authorized = TRUE <=> Granted
    /\ username = IF Granted THEN Text(Name(AuthMessage)) ELSE DASH
    /\ wire \o write_buffer = <<5, USERPASS, 1, IF Granted THEN 0 ELSE 1>>
    /\ write_buffer # <<>> /\ Unlogged
InRequestRead ==
    /\ Admitted /\ wire = Welcome /\ write_buffer = <<>> /\ Unlogged
    /\ RequestAt(client, Rest(RequestBegin), Fed - RequestBegin) /\ ~Over(client)
RequestOK(p) ==
    /\ p \in RequestParsers /\ Len(p.addr) <= 255
    /\ p.atyp \in {IPV4, IPV6} => Len(p.addr) <= 16
InOrigin ==
    /\ Admitted /\ RequestOK(client) /\ wire = Welcome /\ write_buffer = <<>>
    /\ request_logged = FALSE /\ entries = <<>>
InRequestWrite == Admitted /\ RequestOK(client) /\ Welcomed /\ write_buffer # <<>>
InCopy == Admitted /\ RequestOK(client) /\ Welcomed

States == {"HELLO_READ", "HELLO_WRITE", "AUTH_READ", "AUTH_WRITE", "REQUEST_READ",
           "RESOLVING", "CONNECTING", "REQUEST_WRITE", "COPY", "CLOSED"}

StateOK ==
    /\ state \in States /\ hung \in BOOLEAN /\ request_logged \in BOOLEAN
    /\ state = "HELLO_READ" => InHelloRead
    /\ state = "HELLO_WRITE" => InHelloWrite
    /\ state = "AUTH_READ" => InAuthRead
    /\ state = "AUTH_WRITE" => InAuthWrite
    /\ state = "REQUEST_READ" => InRequestRead
    /\ state \in {"RESOLVING", "CONNECTING"} => InOrigin
    /\ state = "REQUEST_WRITE" => InRequestWrite
    /\ state = "COPY" => InCopy

IInv == PositionsOK /\ SentOK /\ StateOK

-----------------------------------------------------------------------------
(* The loop of the parsers *)

\* What holds at first and is kept by a turn that takes a byte holds in the
\* end; at is a set of pairs, of a number of bytes and a parser.
LEMMA Consumed ==
    ASSUME NEW p, NEW bytes \in Seq(Byte), NEW Q, NEW at \in SUBSET (Nat \X Q),
           <<0, p>> \in at,
           \A k \in 0 .. Len(bytes) - 1 : \A q \in Q :
               <<k, q>> \in at /\ ~Over(q) => <<k + 1, Feed(q, bytes[k + 1])>> \in at
    PROVE  LET t == Consume(p, bytes) IN
           /\ t.used \in 0 .. Len(bytes)
           /\ <<t.used, t.parser>> \in at
           /\ Over(t.parser) \/ t.used = Len(bytes)
<1> DEFINE n == Len(bytes)
           S == {t \in [parser : Q, used : 0 .. n] : <<t.used, t.parser>> \in at}
           start == [parser |-> p, used |-> 0]
           Goes(t, k) == IF Over(t.parser) \/ t.used # k - 1 THEN t ELSE Turn(t, bytes[k])
           step == [k \in 1 .. n |-> [t \in S |-> Goes(t, k)]]
           Recursive(f) == f = [k \in 0 .. n |->
                                  IF k = 0 THEN start
                                  ELSE CHOOSE t \in {Turn(u, bytes[k]) : u \in {f[k - 1]}} : TRUE]
           after == CHOOSE f : Recursive(f)
<1>1. n \in Nat /\ \A k \in 1 .. n : bytes[k] \in Byte
  OBVIOUS
<1>2. start \in S
  BY <1>1
<1>3. \A u, c : (CHOOSE t \in {Turn(v, c) : v \in {u}} : TRUE) = Turn(u, c)
  <2> TAKE u, c
  <2>1. {Turn(v, c) : v \in {u}} = {Turn(u, c)}
    OBVIOUS
  <2>2. \A x : (CHOOSE t \in {x} : TRUE) = x
    OBVIOUS
  <2> QED BY <2>1, <2>2
<1>4. ASSUME NEW k \in 1 .. n, NEW t \in S PROVE Goes(t, k) \in S
  <2>1. CASE Over(t.parser) \/ t.used # k - 1
    BY <2>1
  <2>2. CASE ~Over(t.parser) /\ t.used = k - 1
    <3>1. Goes(t, k) = [parser |-> Feed(t.parser, bytes[k]), used |-> k]
      BY <1>1, <2>2 DEF Turn
    <3>2. <<k - 1, t.parser>> \in at /\ t.parser \in Q /\ k - 1 \in 0 .. n - 1
      BY <1>1, <2>2
    <3>3. <<k, Feed(t.parser, bytes[k])>> \in at
      BY <1>1, <2>2, <3>2
    <3>4. Feed(t.parser, bytes[k]) \in Q
      BY <3>3
    <3> QED BY <1>1, <3>1, <3>3, <3>4
  <2> QED BY <2>1, <2>2
<1>5. \A k \in 1 .. n : \A t \in S : step[k][t] = Goes(t, k) /\ step[k][t] \in S
  BY <1>1, <1>4
<1>6. PICK f \in [0 .. n -> S] : Follows(f, n, start, step)
  <2>1. step \in [1 .. n -> [S -> S]]
    BY <1>5 DEF step
  <2> HIDE DEF S, n, step, start
  <2> QED BY <1>1, <1>2, <2>1, Recursion
<1> HIDE DEF S, step
<1>7. \A k \in 0 .. n : k # 0 => f[k - 1] \in S /\ k \in 1 .. n
  BY <1>1
<1>8. \A k \in 0 .. n : f[k] = IF k = 0 THEN start ELSE Goes(f[k - 1], k)
  BY <1>5, <1>6, <1>7 DEF Follows
<1>9. \A k \in 1 .. n : Turn(f[k - 1], bytes[k]) = Goes(f[k - 1], k)
                         /\ (Over(f[k].parser) \/ f[k].used = k)
  <2> DEFINE R == {k \in 0 .. n : Over(f[k].parser) \/ f[k].used = k}
  <2>1. 0 \in R
    BY <1>1, <1>8
  <2>2. ASSUME NEW k \in 1 .. n, k - 1 \in R
        PROVE  k \in R /\ Turn(f[k - 1], bytes[k]) = Goes(f[k - 1], k)
    <3>1. f[k] = Goes(f[k - 1], k) /\ k \in 0 .. n
      BY <1>1, <1>8
    <3>2. CASE Over(f[k - 1].parser)
      BY <3>1, <3>2 DEF Turn
    <3>3. CASE ~Over(f[k - 1].parser)
      <4>1. f[k - 1].used = k - 1
        BY <2>2, <3>3
      <4>2. f[k] = Turn(f[k - 1], bytes[k])
        BY <3>1, <3>3, <4>1
      <4>3. f[k].used = k
        BY <1>1, <3>3, <4>1, <4>2 DEF Turn
      <4> QED BY <3>1, <4>2, <4>3
    <3> QED BY <3>2, <3>3
  <2>3. 0 .. n \subseteq R
    <3> HIDE DEF R, n
    <3> QED BY <1>1, <2>1, <2>2, UpTo
  <2>4. \A k \in 1 .. n : k - 1 \in R /\ k \in R
    BY <1>1, <2>3
  <2> QED BY <2>2, <2>4
<1>10. \E g : Recursive(g)
  <2>1. \A k \in 0 .. n : f[k] = IF k = 0 THEN start ELSE Turn(f[k - 1], bytes[k])
    <3> HIDE DEF start
    <3> QED BY <1>1, <1>8, <1>9
  <2>2. Recursive(f)
    <3> HIDE DEF start
    <3> QED BY <1>3, <2>1
  <2> HIDE DEF Recursive
  <2> QED BY <2>2
<1>11. Recursive(after)
  <2> HIDE DEF Recursive
  <2> QED BY <1>10
<1>12. Consume(p, bytes) = after[n]
  BY DEF Consume
<1>13. \A k \in 0 .. n : after[k] = IF k = 0 THEN start ELSE Turn(after[k - 1], bytes[k])
  <2> HIDE DEF after, start
  <2> SUFFICES ASSUME NEW k \in 0 .. n
               PROVE  after[k] = IF k = 0 THEN start ELSE Turn(after[k - 1], bytes[k])
    OBVIOUS
  <2> DEFINE right == [j \in 0 .. n |->
                         IF j = 0 THEN start
                         ELSE CHOOSE t \in {Turn(u, bytes[j]) : u \in {after[j - 1]}} : TRUE]
  <2>1. right[k] = IF k = 0 THEN start ELSE Turn(after[k - 1], bytes[k])
    BY <1>3
  <2>2. after = right
    BY <1>11
  <2> HIDE DEF right
  <2> QED BY <2>1, <2>2
<1> HIDE DEF after, Recursive
<1>14. after[n] = f[n]
  <2> DEFINE R == {k \in 0 .. n : after[k] = f[k]}
  <2>1. 0 \in R
    BY <1>1, <1>8, <1>13
  <2>2. ASSUME NEW k \in 1 .. n, k - 1 \in R PROVE k \in R
    <3>1. k \in 0 .. n /\ k # 0 /\ after[k - 1] = f[k - 1]
      BY <1>1, <2>2
    <3>2. after[k] = Turn(f[k - 1], bytes[k])
      BY <1>13, <3>1
    <3>3. f[k] = Turn(f[k - 1], bytes[k])
      BY <1>8, <1>9, <3>1
    <3> QED BY <3>1, <3>2, <3>3
  <2>3. 0 .. n \subseteq R
    <3> HIDE DEF R, n
    <3> QED BY <1>1, <2>1, <2>2, UpTo
  <2> QED BY <1>1, <2>3
<1>15. f[n] \in S /\ (Over(f[n].parser) \/ f[n].used = n)
  <2>1. n = 0 => f[n] = start
    BY <1>1, <1>8
  <2> QED BY <1>1, <1>6, <1>9, <2>1
<1> QED BY <1>12, <1>14, <1>15 DEF S

-----------------------------------------------------------------------------
(* A turn of each parser *)

LEMMA Bytes ==
    ASSUME NEW c \in Byte
    PROVE  c \in Nat /\ c >= 0 /\ c <= 255
BY DEF Byte

LEMMA HelloBegins ==
    ASSUME NEW m
    PROVE  HelloAt(HelloInit, m, 0)
BY DEF HelloAt, HelloInit, HelloParsers, ParserInit, Byte, UNACCEPTABLE

\* The engine of hello.c.
LEMMA HelloEngine ==
    ASSUME NEW c \in Byte, NEW e
    PROVE  /\ e = ParserInit("HELLO_VERSION") => ParserFeed(HelloStates, e, c) =
                IF c = 5 THEN [state |-> "HELLO_NMETHODS", type |-> "none"]
                ELSE [state |-> "HELLO_ERROR", type |-> "ERROR"]
           /\ e.state = "HELLO_NMETHODS" => ParserFeed(HelloStates, e, c) =
                [state |-> "HELLO_METHODS", type |-> "NMETHODS"]
           /\ e.state = "HELLO_METHODS" => ParserFeed(HelloStates, e, c) =
                [state |-> "HELLO_METHODS", type |-> "METHOD"]
<1>1. HelloStates.HELLO_VERSION = <<[when |-> 5, dest |-> "HELLO_NMETHODS", type |-> "same"],
                          [when |-> ANY, dest |-> "HELLO_ERROR", type |-> "ERROR"]>>
      /\ HelloStates.HELLO_NMETHODS = <<[when |-> ANY, dest |-> "HELLO_METHODS", type |-> "NMETHODS"]>>
      /\ HelloStates.HELLO_METHODS = <<[when |-> ANY, dest |-> "HELLO_METHODS", type |-> "METHOD"]>>
  BY DEF HelloStates
<1>2. c # ANY
  BY DEF Byte, ANY
<1>3. ASSUME NEW type, type # "same",
             HelloStates[e.state] = <<[when |-> ANY, dest |-> "HELLO_METHODS", type |-> type]>>
      PROVE  ParserFeed(HelloStates, e, c) = [state |-> "HELLO_METHODS", type |-> type]
  <2> DEFINE table == HelloStates[e.state]
             fits == {i \in DOMAIN table : table[i].when \in {c, ANY}}
             chosen == CHOOSE i \in fits : \A j \in fits : i <= j
             t == table[chosen]
  <2>1. ParserFeed(HelloStates, e, c) = IF fits = {} THEN e
          ELSE [state |-> t.dest, type |-> IF t.type = "same" THEN e.type ELSE t.type]
    BY DEF ParserFeed
  <2>2. fits = {1}
    BY <1>3
  <2>3. chosen = 1
    BY <2>2
  <2>4. t = [when |-> ANY, dest |-> "HELLO_METHODS", type |-> type]
    BY <1>3, <2>3
  <2> HIDE DEF t, fits
  <2> QED BY <1>3, <2>1, <2>2, <2>4
<1>4. ASSUME e = ParserInit("HELLO_VERSION")
      PROVE  ParserFeed(HelloStates, e, c) =
                IF c = 5 THEN [state |-> "HELLO_NMETHODS", type |-> "none"]
                ELSE [state |-> "HELLO_ERROR", type |-> "ERROR"]
  <2> DEFINE table == HelloStates[e.state]
             fits == {i \in DOMAIN table : table[i].when \in {c, ANY}}
             chosen == CHOOSE i \in fits : \A j \in fits : i <= j
             t == table[chosen]
  <2>1. ParserFeed(HelloStates, e, c) = IF fits = {} THEN e
          ELSE [state |-> t.dest, type |-> IF t.type = "same" THEN e.type ELSE t.type]
    BY DEF ParserFeed
  <2>2. e.state = "HELLO_VERSION" /\ e.type = "none"
    BY <1>4 DEF ParserInit
  <2>3. table = <<[when |-> 5, dest |-> "HELLO_NMETHODS", type |-> "same"],
                          [when |-> ANY, dest |-> "HELLO_ERROR", type |-> "ERROR"]>>
    BY <1>1, <2>2
  <2>4. fits = IF c = 5 THEN {1, 2} ELSE {2}
    BY <1>2, <2>3 DEF Byte, ANY
  <2>5. CASE c = 5
    <3>1. fits = {1, 2}
      BY <2>4, <2>5
    <3>2. \A i \in fits : (\A j \in fits : i <= j) <=> i = 1
      BY <3>1
    <3>3. chosen = 1
      <4> HIDE DEF fits
      <4> QED BY <3>1, <3>2
    <3>4. t = [when |-> 5, dest |-> "HELLO_NMETHODS", type |-> "same"]
      BY <2>3, <3>3
    <3> HIDE DEF t, fits
    <3> QED BY <2>1, <2>2, <2>5, <3>1, <3>4
  <2>6. CASE c # 5
    <3>1. fits = {2}
      BY <2>4, <2>6
    <3>2. chosen = 2
      BY <3>1
    <3>3. t = [when |-> ANY, dest |-> "HELLO_ERROR", type |-> "ERROR"]
      BY <2>3, <3>2
    <3> HIDE DEF t, fits
    <3> QED BY <2>1, <2>6, <3>1, <3>3
  <2> QED BY <2>5, <2>6
<1>5. e.state = "HELLO_NMETHODS" =>
        HelloStates[e.state] = <<[when |-> ANY, dest |-> "HELLO_METHODS", type |-> "NMETHODS"]>>
  BY <1>1
<1>6. e.state = "HELLO_METHODS" =>
        HelloStates[e.state] = <<[when |-> ANY, dest |-> "HELLO_METHODS", type |-> "METHOD"]>>
  BY <1>1
<1>7. "NMETHODS" # "same" /\ "METHOD" # "same"
  OBVIOUS
<1> QED BY <1>3, <1>4, <1>5, <1>6, <1>7

\* One more method.
LEMMA Chooses ==
    ASSUME NEW m, NEW k \in Nat, k >= 2
    PROVE  /\ Choice(m, k + 1) = on_hello_method(Choice(m, k), m[k + 1])
           /\ Choice(m, 2) = UNACCEPTABLE
           /\ Choice(m, k) \in Byte
<1> DEFINE Off(j) == {m[i] : i \in 3 .. j}
<1>1. Off(k + 1) = Off(k) \cup {m[k + 1]}
  <2>1. 3 .. k + 1 = (3 .. k) \cup {k + 1}
    OBVIOUS
  <2> QED BY <2>1
<1>2. Off(2) = {}
  OBVIOUS
<1>3. \A j : Choice(m, j) = IF USERPASS \in Off(j) THEN USERPASS
                            ELSE IF NOAUTH \in Off(j) THEN NOAUTH ELSE UNACCEPTABLE
  BY DEF Choice
<1> HIDE DEF Off
<1> QED BY <1>1, <1>2, <1>3 DEF on_hello_method, USERPASS, NOAUTH, UNACCEPTABLE, Byte

LEMMA HelloTurn ==
    ASSUME NEW m \in Seq(Byte), NEW k \in 0 .. Len(m) - 1, NEW p, HelloAt(p, m, k), ~Over(p)
    PROVE  HelloAt(Feed(p, m[k + 1]), m, k + 1)
<1> DEFINE c == m[k + 1]
           engine == ParserFeed(HelloStates, p.engine, c)
           q == HelloFeed(p, c)
<1>1. c \in Byte /\ k \in Nat /\ p \in HelloParsers
  BY DEF HelloAt
<1>2. Feed(p, c) = q
  BY <1>1 DEF Feed, HelloParsers
<1>3. p.at \in {"VERSION", "NMETHODS", "METHODS"}
  BY <1>1 DEF Over, HelloParsers
<1>4. c = m[k + 1]
  OBVIOUS
<1> HIDE DEF engine, c
<1>5. CASE p.at = "VERSION"
  <2>1. k = 0 /\ p.method = UNACCEPTABLE /\ c = m[1]
        /\ engine = IF c = 5 THEN [state |-> "HELLO_NMETHODS", type |-> "none"]
                    ELSE [state |-> "HELLO_ERROR", type |-> "ERROR"]
    BY <1>1, <1>4, <1>5, HelloEngine DEF HelloAt, engine
  <2> DEFINE at == IF c = 5 THEN "NMETHODS" ELSE "ERROR"
  <2>2. q = [[p EXCEPT !.engine = engine] EXCEPT !.at = at]
    <3>1. CASE c = 5
      BY <1>1, <1>5, <2>1, <3>1 DEF HelloFeed, HelloParsers, engine
    <3>2. CASE c # 5
      BY <1>1, <1>5, <2>1, <3>2 DEF HelloFeed, HelloParsers, engine
    <3> QED BY <3>1, <3>2
  <2> HIDE DEF q
  <2>3. q \in HelloParsers /\ q.at = at /\ q.method = UNACCEPTABLE /\ q.engine = engine
    BY <1>1, <2>1, <2>2 DEF HelloParsers
  <2>4. HelloAt(q, m, 1)
    BY <1>1, <2>1, <2>3 DEF HelloAt
  <2> QED BY <1>2, <1>4, <2>1, <2>4
<1>6. CASE p.at = "NMETHODS"
  <2>1. k = 1 /\ m[1] = 5 /\ p.method = UNACCEPTABLE /\ p.engine.state = "HELLO_NMETHODS"
    BY <1>6 DEF HelloAt
  <2>2. engine = [state |-> "HELLO_METHODS", type |-> "NMETHODS"]
    BY <1>1, <2>1, HelloEngine DEF engine
  <2> DEFINE at == IF c = 0 THEN "ERROR" ELSE "METHODS"
  <2>3. q = [[p EXCEPT !.engine = engine] EXCEPT !.remaining = c, !.at = at]
    BY <1>1, <2>2 DEF HelloFeed, engine
  <2>4. Choice(m, 2) = UNACCEPTABLE
    BY Chooses
  <2> HIDE DEF q
  <2>5. q \in HelloParsers /\ q.at = at /\ q.method = UNACCEPTABLE /\ q.engine = engine
        /\ q.remaining = c
    <3>1. at \in {"ERROR", "METHODS"} /\ c \in Int
      BY <1>1 DEF Byte
    <3> HIDE DEF at
    <3> QED BY <1>1, <2>1, <2>2, <2>3, <3>1 DEF HelloParsers
  <2>6. HelloAt(q, m, 2)
    <3>1. CASE c = 0
      BY <1>1, <1>4, <2>1, <2>5, <3>1 DEF HelloAt
    <3>2. CASE c # 0
      <4>1. q.at = "METHODS" /\ q.remaining = m[2]
        BY <1>4, <2>1, <2>5, <3>2
      <4>2. m[2] \in Int /\ m[2] > 0
        <5>1. c = m[2] /\ m[2] \in Nat
          BY <1>1, <1>4, <2>1, Bytes
        <5> QED BY <3>2, <5>1
      <4>3. q.remaining > 0 /\ q.remaining = 2 + m[2] - 2
        BY <4>1, <4>2
      <4>4. q.engine.state = "HELLO_METHODS" /\ q.engine.type = "NMETHODS"
            /\ q.method = Choice(m, 2)
        BY <2>2, <2>4, <2>5
      <4> QED BY <2>1, <2>5, <4>1, <4>3, <4>4 DEF HelloAt
    <3> QED BY <3>1, <3>2
  <2> QED BY <1>2, <1>4, <2>1, <2>6
<1>7. CASE p.at = "METHODS"
  <2>1. /\ m[1] = 5 /\ k >= 2 /\ p.remaining = 2 + m[2] - k /\ p.remaining > 0
        /\ p.engine.state = "HELLO_METHODS" /\ p.method = Choice(m, k)
    BY <1>7 DEF HelloAt
  <2>2. engine = [state |-> "HELLO_METHODS", type |-> "METHOD"]
    BY <1>1, <2>1, HelloEngine DEF engine
  <2> DEFINE at == IF p.remaining = 1 THEN "DONE" ELSE "METHODS"
             method == Choice(m, k + 1)
  <2>3. Choice(m, k + 1) = on_hello_method(p.method, c) /\ Choice(m, k + 1) \in Byte
    BY <1>1, <1>4, <2>1, Chooses
  <2>4. m[2] \in Nat /\ p.remaining \in Int
    <3>1. m[2] \in Byte
      BY <1>1, <2>1
    <3> QED BY <1>1, <3>1, Bytes DEF HelloParsers
  <2>5. q = [[p EXCEPT !.engine = engine] EXCEPT !.method = method,
                      !.remaining = p.remaining - 1, !.at = at]
    <3>1. q = [[p EXCEPT !.engine = engine] EXCEPT !.method = on_hello_method(@, c),
                      !.remaining = @ - 1, !.at = IF p.remaining = 1 THEN "DONE" ELSE @]
      BY <2>2 DEF HelloFeed, engine
    <3> QED BY <1>1, <1>7, <2>3, <3>1 DEF HelloParsers
  <2> HIDE DEF q, method
  <2>6. q \in HelloParsers /\ q.at = at /\ q.method = method /\ q.engine = engine
        /\ q.remaining = p.remaining - 1
    <3>1. method \in Byte /\ at \in {"DONE", "METHODS"} /\ p.remaining - 1 \in Int
      BY <2>3, <2>4 DEF method
    <3> HIDE DEF at
    <3> QED BY <1>1, <2>2, <2>5, <3>1 DEF HelloParsers
  <2>7. HelloAt(q, m, k + 1)
    <3>1. q.engine.state = "HELLO_METHODS" /\ q.engine.type = "METHOD"
          /\ q.method = Choice(m, k + 1)
      BY <2>2, <2>6 DEF method
    <3>2. CASE p.remaining = 1
      <4>1. q.at = "DONE"
        BY <2>6, <3>2
      <4>2. m[2] # 0 /\ k + 1 >= 2 /\ k + 1 = 2 + m[2]
        BY <1>1, <2>1, <2>4, <3>2
      <4> QED BY <2>1, <2>6, <3>1, <4>1, <4>2 DEF HelloAt
    <3>3. CASE p.remaining # 1
      <4>1. q.at = "METHODS" /\ q.remaining = p.remaining - 1
        BY <2>6, <3>3
      <4>2. q.remaining = 2 + m[2] - (k + 1) /\ q.remaining > 0 /\ k + 1 >= 2
        BY <1>1, <2>1, <2>4, <3>3, <4>1
      <4> QED BY <2>1, <2>6, <3>1, <4>1, <4>2 DEF HelloAt
    <3> QED BY <3>2, <3>3
  <2> QED BY <1>2, <1>4, <2>7
<1> QED BY <1>3, <1>5, <1>6, <1>7

LEMMA CopiedMore ==
    ASSUME NEW m, NEW s \in Seq(Byte), NEW b \in Nat, Copied(s, m, b),
           NEW c \in Byte, c = m[b + Len(s) + 1]
    PROVE  /\ Append(s, c) \in Seq(Byte) /\ Len(Append(s, c)) = Len(s) + 1
           /\ Copied(Append(s, c), m, b)
<1>1. Append(s, c) \in Seq(Byte) /\ Len(Append(s, c)) = Len(s) + 1 /\ Len(s) \in Nat
  OBVIOUS
<1>2. ASSUME NEW i \in 1 .. Len(s) + 1 PROVE Append(s, c)[i] = m[b + i]
  <2>1. CASE i \in 1 .. Len(s)
    BY <2>1 DEF Copied
  <2>2. CASE i = Len(s) + 1
    <3>1. Append(s, c)[i] = c /\ b + i = b + Len(s) + 1
      BY <1>1, <2>2
    <3> QED BY <3>1
  <2> QED BY <1>1, <2>1, <2>2
<1> QED BY <1>1, <1>2 DEF Copied

LEMMA AuthBegins ==
    ASSUME NEW m
    PROVE  AuthAt(AuthInit, m, 0)
<1>1. 0 \in Byte /\ <<>> \in Seq(Byte) /\ Len(<<>>) = 0
  BY DEF Byte
<1> QED BY <1>1 DEF AuthAt, AuthInit, AuthParsers, Copied

LEMMA AuthTurn ==
    ASSUME NEW m \in Seq(Byte), NEW k \in 0 .. Len(m) - 1, NEW p, AuthAt(p, m, k), ~Over(p)
    PROVE  AuthAt(Feed(p, m[k + 1]), m, k + 1)
<1> DEFINE c == m[k + 1]
           q == AuthFeed(p, c)
<1>1. c \in Byte /\ k \in Nat /\ p \in AuthParsers /\ c \in Nat /\ c >= 0
  <2>1. c \in Byte /\ k \in Nat /\ p \in AuthParsers
    BY DEF AuthAt
  <2> HIDE DEF c
  <2> QED BY <2>1, Bytes
<1>2. Feed(p, c) = q
  BY <1>1 DEF Feed, AuthParsers
<1>3. p.at \in {"VERSION", "ULEN", "UNAME", "PLEN", "PASSWD"}
  BY <1>1 DEF Over, AuthParsers
<1>4. /\ p.username \in Seq(Byte) /\ Len(p.username) \in Nat
      /\ p.password \in Seq(Byte) /\ Len(p.password) \in Nat
      /\ p.username_len \in Byte /\ p.password_len \in Byte
      /\ p.username_len \in Nat /\ p.password_len \in Nat
  <2>1. p.username_len \in Byte /\ p.password_len \in Byte
        /\ p.username \in Seq(Byte) /\ p.password \in Seq(Byte)
    BY <1>1 DEF AuthParsers
  <2> QED BY <2>1, Bytes
<1>5. Len(p.username) <= p.username_len /\ Len(p.password) <= p.password_len
  BY DEF AuthAt
<1>6. c = m[k + 1]
  OBVIOUS
<1> HIDE DEF c
<1>7. CASE p.at = "VERSION"
  <2>1. k = 0 /\ p.username_len = 0 /\ p.password_len = 0 /\ c = m[1]
    BY <1>1, <1>6, <1>7 DEF AuthAt
  <2>2. q = [p EXCEPT !.at = IF c = 1 THEN "ULEN" ELSE "ERROR"]
    BY <1>7 DEF AuthFeed
  <2>3. CASE c = 1
    <3>1. q \in AuthParsers /\ q.at = "ULEN" /\ q.username_len = 0 /\ q.password_len = 0
          /\ q.username = p.username /\ q.password = p.password
      BY <1>1, <2>1, <2>2, <2>3 DEF AuthParsers
    <3> HIDE DEF q
    <3>2. AuthAt(q, m, 1)
      BY <1>5, <2>1, <2>3, <3>1 DEF AuthAt
    <3> QED BY <1>2, <1>6, <2>1, <3>2
  <2>4. CASE c # 1
    <3>1. q \in AuthParsers /\ q.at = "ERROR" /\ q.username_len = 0 /\ q.password_len = 0
          /\ q.username = p.username /\ q.password = p.password
      BY <1>1, <2>1, <2>2, <2>4 DEF AuthParsers
    <3> HIDE DEF q
    <3>2. AuthAt(q, m, 1)
      BY <1>5, <2>1, <2>4, <3>1 DEF AuthAt
    <3> QED BY <1>2, <1>6, <2>1, <3>2
  <2> QED BY <2>3, <2>4
<1>8. CASE p.at = "ULEN"
  <2>1. k = 1 /\ p.username_len = 0 /\ p.password_len = 0 /\ c = m[2] /\ m[1] = 1
    BY <1>1, <1>6, <1>8 DEF AuthAt
  <2>2. Len(p.username) = 0 /\ Len(p.password) = 0
    BY <1>4, <1>5, <2>1
  <2>3. q = [p EXCEPT !.username_len = c, !.at = IF c = 0 THEN "ERROR" ELSE "UNAME"]
    BY <1>8 DEF AuthFeed
  <2>4. CASE c = 0
    <3>1. q \in AuthParsers /\ q.at = "ERROR" /\ q.username_len = c /\ q.password_len = 0
          /\ q.username = p.username /\ q.password = p.password
      BY <1>1, <2>1, <2>3, <2>4 DEF AuthParsers
    <3> HIDE DEF q
    <3>2. AuthAt(q, m, 2)
      BY <1>5, <2>1, <2>2, <2>4, <3>1 DEF AuthAt
    <3> QED BY <1>2, <1>6, <2>1, <3>2
  <2>5. CASE c # 0
    <3>1. q \in AuthParsers /\ q.at = "UNAME" /\ q.username_len = c /\ q.password_len = 0
          /\ q.username = p.username /\ q.password = p.password
      BY <1>1, <2>1, <2>3, <2>5 DEF AuthParsers
    <3> HIDE DEF q
    <3>2. c > 0 /\ 2 = 2 + Len(q.username) /\ Len(q.username) < m[2] /\ Len(q.username) <= c
          /\ Copied(q.username, m, 2)
      BY <1>1, <2>1, <2>2, <2>5, <3>1 DEF Copied
    <3>3. AuthAt(q, m, 2)
      BY <1>5, <2>1, <2>2, <3>1, <3>2 DEF AuthAt
    <3> QED BY <1>2, <1>6, <2>1, <3>3
  <2> QED BY <2>4, <2>5
<1>9. CASE p.at = "UNAME"
  <2>1. /\ k = 2 + Len(p.username) /\ p.password_len = 0 /\ m[1] = 1 /\ p.username_len = m[2]
        /\ m[2] > 0 /\ Len(p.username) < m[2] /\ Copied(p.username, m, 2)
    BY <1>9 DEF AuthAt
  <2> DEFINE name == Append(p.username, c)
  <2>2. name \in Seq(Byte) /\ Len(name) = Len(p.username) + 1 /\ Copied(name, m, 2)
    <3>1. k + 1 = 2 + Len(p.username) + 1
      BY <1>4, <2>1
    <3> QED BY <1>1, <1>4, <1>6, <2>1, <3>1, CopiedMore
  <2> DEFINE at == IF Len(p.username) + 1 = p.username_len THEN "PLEN" ELSE "UNAME"
  <2>3. q = [p EXCEPT !.username = name, !.at = at]
    BY <1>1, <1>9 DEF AuthFeed, AuthParsers
  <2> HIDE DEF name
  <2>4. q \in AuthParsers /\ q.at = at /\ q.username_len = m[2] /\ q.password_len = 0
        /\ q.username = name /\ q.password = p.password
    BY <1>1, <2>1, <2>2, <2>3 DEF AuthParsers
  <2> HIDE DEF q
  <2>5. Len(q.username) <= m[2] /\ k + 1 = 2 + Len(q.username) /\ m[2] \in Nat
    BY <1>4, <2>1, <2>2, <2>4
  <2>6. q.at = "UNAME" => Len(q.username) < m[2]
    BY <1>4, <2>1, <2>2, <2>4, <2>5
  <2>7. q.at = "PLEN" => Len(q.username) = m[2]
    BY <1>4, <2>1, <2>2, <2>4, <2>5
  <2>8. q.at \in {"UNAME", "PLEN"}
    BY <2>4
  <2>9. AuthAt(q, m, k + 1)
    <3> HIDE DEF at
    <3>1. Len(q.password) <= q.password_len
      BY <1>5, <2>1, <2>4
    <3> QED BY <2>1, <2>2, <2>4, <2>5, <2>6, <2>7, <2>8, <3>1 DEF AuthAt
  <2> QED BY <1>2, <1>6, <2>9
<1>10. CASE p.at = "PLEN"
  <2>1. /\ k = 2 + m[2] /\ p.password_len = 0 /\ m[1] = 1 /\ p.username_len = m[2]
        /\ m[2] > 0 /\ Len(p.username) = m[2] /\ Copied(p.username, m, 2)
    BY <1>10 DEF AuthAt
  <2>2. m[2] \in Nat /\ m[2] \in Byte /\ k + 1 = 3 + m[2] /\ c = m[3 + m[2]]
    <3>1. m[2] \in Nat /\ m[2] \in Byte
      BY <1>4, <2>1
    <3>2. k + 1 = 3 + m[2]
      BY <2>1, <3>1
    <3> QED BY <1>6, <3>1, <3>2
  <2>3. q = [p EXCEPT !.password_len = c, !.at = IF c = 0 THEN "ERROR" ELSE "PASSWD"]
    BY <1>10 DEF AuthFeed
  <2>4. Len(p.password) = 0
    BY <1>4, <1>5, <2>1
  <2>5. CASE c = 0
    <3>1. q \in AuthParsers /\ q.at = "ERROR" /\ q.username_len = m[2] /\ q.password_len = 0
          /\ q.username = p.username /\ q.password = p.password
      BY <1>1, <2>1, <2>3, <2>5 DEF AuthParsers
    <3> HIDE DEF q
    <3>2. AuthAt(q, m, k + 1)
      BY <1>5, <2>1, <2>2, <2>5, <3>1 DEF AuthAt
    <3> QED BY <1>2, <1>6, <3>2
  <2>6. CASE c # 0
    <3>1. q \in AuthParsers /\ q.at = "PASSWD" /\ q.username_len = m[2] /\ q.password_len = c
          /\ q.username = p.username /\ q.password = p.password
      BY <1>1, <2>1, <2>3, <2>6 DEF AuthParsers
    <3> HIDE DEF q
    <3>2. c > 0 /\ k + 1 = 3 + m[2] + Len(q.password) /\ Len(q.password) < c
          /\ Len(q.password) <= c /\ Copied(q.password, m, 3 + m[2])
      BY <1>1, <2>2, <2>4, <2>6, <3>1 DEF Copied
    <3>3. AuthAt(q, m, k + 1)
      BY <1>5, <2>1, <2>2, <3>1, <3>2 DEF AuthAt
    <3> QED BY <1>2, <1>6, <3>3
  <2> QED BY <2>5, <2>6
<1>11. CASE p.at = "PASSWD"
  <2>1. /\ k = 3 + m[2] + Len(p.password) /\ m[1] = 1 /\ p.username_len = m[2]
        /\ m[2] > 0 /\ Len(p.username) = m[2] /\ Copied(p.username, m, 2)
        /\ p.password_len = m[3 + m[2]] /\ p.password_len > 0
        /\ Copied(p.password, m, 3 + m[2]) /\ Len(p.password) < p.password_len
    BY <1>11 DEF AuthAt
  <2>2. m[2] \in Nat
    BY <1>4, <2>1
  <2> DEFINE word == Append(p.password, c)
  <2>3. word \in Seq(Byte) /\ Len(word) = Len(p.password) + 1 /\ Copied(word, m, 3 + m[2])
    <3>1. k + 1 = (3 + m[2]) + Len(p.password) + 1 /\ 3 + m[2] \in Nat
      BY <1>4, <2>1, <2>2
    <3>2. c = m[(3 + m[2]) + Len(p.password) + 1]
      BY <1>6, <3>1
    <3>3. Copied(p.password, m, 3 + m[2])
      BY <2>1
    <3> QED BY <1>1, <1>4, <3>1, <3>2, <3>3, CopiedMore
  <2> DEFINE at == IF Len(p.password) + 1 = p.password_len THEN "DONE" ELSE "PASSWD"
  <2>4. q = [p EXCEPT !.password = word, !.at = at]
    BY <1>1, <1>11 DEF AuthFeed, AuthParsers
  <2> HIDE DEF word
  <2>5. q \in AuthParsers /\ q.at = at /\ q.username_len = m[2]
        /\ q.password_len = p.password_len
        /\ q.username = p.username /\ q.password = word
    BY <1>1, <2>1, <2>3, <2>4 DEF AuthParsers
  <2> HIDE DEF q
  <2>6. Len(q.password) <= q.password_len /\ k + 1 = 3 + m[2] + Len(q.password)
    <3>1. Len(q.password) = Len(p.password) + 1 /\ q.password_len = p.password_len
      BY <2>3, <2>5
    <3>2. Len(p.password) < p.password_len
      BY <2>1
    <3>3. Len(q.password) <= q.password_len
      BY <1>4, <3>1, <3>2
    <3>4. k = 3 + m[2] + Len(p.password)
      BY <2>1
    <3>5. k + 1 = 3 + m[2] + Len(q.password)
      <4>1. \A x, y \in Nat : k = 3 + x + y => k + 1 = 3 + x + (y + 1)
        BY <1>1
      <4>2. k + 1 = 3 + m[2] + (Len(p.password) + 1)
        BY <1>4, <2>2, <3>4, <4>1
      <4> QED BY <3>1, <4>2
    <3> QED BY <3>3, <3>5
  <2>7. /\ q.at = "PASSWD" => Len(q.password) < q.password_len
        /\ q.at = "DONE" => Len(q.password) = q.password_len
    <3>1. Len(q.password) = Len(p.password) + 1 /\ q.password_len = p.password_len
      BY <2>3, <2>5
    <3>2. q.at = IF Len(q.password) = q.password_len THEN "DONE" ELSE "PASSWD"
      BY <2>5, <3>1
    <3>3. Len(q.password) \in Nat /\ q.password_len \in Nat
      BY <1>4, <3>1
    <3> QED BY <2>6, <3>2, <3>3
  <2>8. q.at \in {"PASSWD", "DONE"}
    BY <2>5
  <2>9. AuthAt(q, m, k + 1)
    <3> HIDE DEF at
    <3>1. Len(q.username) <= q.username_len
      BY <1>5, <2>1, <2>5
    <3> QED BY <2>1, <2>3, <2>5, <2>6, <2>7, <2>8, <3>1 DEF AuthAt
  <2> QED BY <1>2, <1>6, <2>9
<1> QED BY <1>3, <1>7, <1>8, <1>9, <1>10, <1>11

LEMMA RequestBegins ==
    ASSUME NEW m
    PROVE  RequestAt(RequestInit, m, 0)
<1>1. 0 \in Byte /\ 1 \in Byte /\ <<>> \in Seq(Byte) /\ Len(<<>>) = 0 /\ 0 \in PortNumbers
  BY DEF Byte, PortNumbers
<1> QED BY <1>1 DEF RequestAt, RequestInit, RequestParsers

LEMMA Ports ==
    ASSUME NEW x \in Byte, NEW y \in Byte
    PROVE  /\ (256 * x + y) % 65536 = 256 * x + y /\ 256 * x + y \in PortNumbers
           /\ (256 * 0 + y) % 65536 = y /\ y \in PortNumbers
<1>1. x \in Nat /\ y \in Nat /\ x <= 255 /\ y <= 255
  BY Bytes
<1>2. 256 * x + y \in PortNumbers /\ y \in PortNumbers
  BY <1>1 DEF PortNumbers
<1>3. \A z \in Nat : z <= 65535 => z % 65536 = z
  OBVIOUS
<1>4. 256 * 0 + y = y
  BY <1>1
<1>5. \A z \in PortNumbers : z % 65536 = z
  BY <1>3 DEF PortNumbers
<1> QED BY <1>2, <1>4, <1>5

LEMMA RequestTurn ==
    ASSUME NEW m \in Seq(Byte), NEW k \in 0 .. Len(m) - 1, NEW p
    PROVE  RequestAt(p, m, k) /\ ~Over(p) => RequestAt(Feed(p, m[k + 1]), m, k + 1)
<1>0. SUFFICES ASSUME RequestAt(p, m, k), ~Over(p)
               PROVE  RequestAt(Feed(p, m[k + 1]), m, k + 1)
  OBVIOUS
<1> DEFINE c == m[k + 1]
           q == RequestFeed(p, c)
<1>1. c \in Byte /\ k \in Nat /\ p \in RequestParsers /\ c \in Nat /\ c >= 0 /\ c <= 255
  <2>1. c \in Byte /\ k \in Nat /\ p \in RequestParsers
    BY <1>0 DEF RequestAt
  <2> HIDE DEF c
  <2> QED BY <2>1, Bytes
<1>2. Feed(p, c) = q
  BY <1>1 DEF Feed, RequestParsers
<1>3. p.at \in {"VERSION", "CMD", "RSV", "ATYP", "DST_ADDR", "DST_PORT"}
  BY <1>0, <1>1 DEF Over, RequestParsers
<1>4. p.addr \in Seq(Byte) /\ Len(p.addr) \in Nat
  BY <1>1 DEF RequestParsers
<1>5. Len(p.addr) <= 255 /\ (p.atyp \in {IPV4, IPV6} => Len(p.addr) <= 16)
  BY <1>0 DEF RequestAt
<1>6. c = m[k + 1]
  OBVIOUS
<1>7. 1 \in Byte /\ 7 \in Byte /\ 8 \in Byte
  BY DEF Byte
<1> HIDE DEF c
<1>8. CASE p.at \in {"VERSION", "CMD", "RSV", "ATYP"}
  <2>1. /\ p.atyp = 0 /\ p.domain_len = 0 /\ p.addr = <<>> /\ p.port = 0 /\ p.port_pos = 0
        /\ p.at = "VERSION" => k = 0 /\ k + 1 = 1 /\ p.reply = 1
        /\ p.at = "CMD" => k = 1 /\ k + 1 = 2 /\ p.reply = 1 /\ m[1] = 5
        /\ p.at = "RSV" => k = 2 /\ k + 1 = 3 /\ m[1] = 5 /\ p.cmd = m[2]
        /\ p.at = "ATYP" => k = 3 /\ k + 1 = 4 /\ m[1] = 5 /\ p.cmd = m[2] /\ m[3] = 0
    BY <1>0, <1>8 DEF RequestAt
  <2>2. Len(<<>>) = 0 /\ Copied(<<>>, m, 4) /\ Copied(<<>>, m, 5)
    BY DEF Copied
  <2>3. CASE p.at = "VERSION"
    <3>1. q = [p EXCEPT !.at = IF c = 5 THEN "CMD" ELSE "ERROR"]
      BY <2>3 DEF RequestFeed
    <3>2. /\ q \in RequestParsers /\ q.at = IF c = 5 THEN "CMD" ELSE "ERROR"
          /\ q.atyp = 0 /\ q.domain_len = 0 /\ q.addr = <<>> /\ q.port = 0 /\ q.port_pos = 0
          /\ q.reply = 1
      BY <1>1, <2>1, <2>3, <3>1 DEF RequestParsers
    <3> HIDE DEF q
    <3>3. c = m[1]
      BY <1>6, <2>1, <2>3
    <3>4. RequestAt(q, m, 1)
      BY <2>2, <3>2, <3>3 DEF RequestAt, IPV4, IPV6
    <3> QED BY <1>2, <1>6, <2>1, <2>3, <3>4
  <2>4. CASE p.at = "CMD"
    <3>1. q = [p EXCEPT !.cmd = c, !.reply = IF c \in 1 .. 3 THEN @ ELSE 7, !.at = "RSV"]
      BY <2>4 DEF RequestFeed
    <3>2. /\ q \in RequestParsers /\ q.at = "RSV" /\ q.cmd = c
          /\ q.atyp = 0 /\ q.domain_len = 0 /\ q.addr = <<>> /\ q.port = 0 /\ q.port_pos = 0
      BY <1>1, <1>7, <2>1, <2>4, <3>1 DEF RequestParsers
    <3> HIDE DEF q
    <3>3. c = m[2]
      BY <1>6, <2>1, <2>4
    <3>4. RequestAt(q, m, 2)
      BY <2>1, <2>2, <2>4, <3>2, <3>3 DEF RequestAt, IPV4, IPV6
    <3> QED BY <1>2, <1>6, <2>1, <2>4, <3>4
  <2>5. CASE p.at = "RSV"
    <3>1. q = IF c = 0 THEN [p EXCEPT !.at = "ATYP"]
              ELSE [p EXCEPT !.at = "ERROR", !.reply = 1]
      BY <2>5 DEF RequestFeed
    <3>2. /\ q \in RequestParsers /\ q.at = IF c = 0 THEN "ATYP" ELSE "ERROR"
          /\ q.cmd = m[2] /\ (c # 0 => q.reply = 1)
          /\ q.atyp = 0 /\ q.domain_len = 0 /\ q.addr = <<>> /\ q.port = 0 /\ q.port_pos = 0
      BY <1>1, <1>7, <2>1, <2>5, <3>1 DEF RequestParsers
    <3> HIDE DEF q
    <3>3. c = m[3]
      BY <1>6, <2>1, <2>5
    <3>4. RequestAt(q, m, 3)
      BY <2>1, <2>2, <2>5, <3>2, <3>3 DEF RequestAt, IPV4, IPV6
    <3> QED BY <1>2, <1>6, <2>1, <2>5, <3>4
  <2>6. CASE p.at = "ATYP"
    <3>1. q = IF c \in Known THEN [p EXCEPT !.atyp = c, !.at = "DST_ADDR"]
              ELSE [p EXCEPT !.atyp = c, !.at = "DONE", !.reply = 8]
      BY <2>6 DEF RequestFeed, Known
    <3>2. /\ q \in RequestParsers /\ q.at = IF c \in Known THEN "DST_ADDR" ELSE "DONE"
          /\ q.cmd = m[2]
          /\ q.atyp = c /\ q.domain_len = 0 /\ q.addr = <<>> /\ q.port = 0 /\ q.port_pos = 0
      <4>1. CASE c \in Known
        BY <1>1, <1>7, <2>1, <2>6, <3>1, <4>1 DEF RequestParsers
      <4>2. CASE c \notin Known
        <5>1. q = [p EXCEPT !.atyp = c, !.at = "DONE", !.reply = 8]
          BY <3>1, <4>2
        <5>2. 8 \in Byte
          BY <1>7
        <5> HIDE DEF q
        <5>3. q \in RequestParsers
          BY <1>1, <5>1, <5>2 DEF RequestParsers
        <5>4. /\ q.at = "DONE" /\ q.atyp = c /\ q.cmd = p.cmd /\ q.addr = p.addr
              /\ q.domain_len = p.domain_len /\ q.port = p.port /\ q.port_pos = p.port_pos
          BY <1>1, <5>1 DEF RequestParsers
        <5> QED BY <2>1, <2>6, <4>2, <5>3, <5>4
      <4> QED BY <4>1, <4>2
    <3> HIDE DEF q
    <3>3. c = m[4]
      BY <1>6, <2>1, <2>6
    <3>4. Copied(q.addr, m, Before(q)) /\ Len(q.addr) = 0
      BY <2>2, <3>2 DEF Before
    <3>5. RequestAt(q, m, 4)
      <4>1. CASE c \in Known
        <5>1. \/ q.atyp = DOMAIN_NAME /\ q.addr = <<>>
              \/ 4 = Before(q) + Len(q.addr) /\ Len(q.addr) < Extent(q)
          BY <3>2, <3>4, <4>1 DEF Known, Before, Extent, IPV4, IPV6, DOMAIN_NAME
        <5> QED BY <2>1, <2>2, <2>6, <3>2, <3>3, <3>4, <4>1, <5>1 DEF RequestAt
      <4>2. CASE c \notin Known
        BY <2>1, <2>2, <2>6, <3>2, <3>3, <3>4, <4>2 DEF RequestAt
      <4> QED BY <4>1, <4>2
    <3> QED BY <1>2, <1>6, <2>1, <2>6, <3>5
  <2> QED BY <1>8, <2>3, <2>4, <2>5, <2>6
<1>9. CASE p.at = "DST_ADDR"
  <2>1. /\ m[1] = 5 /\ p.cmd = m[2] /\ m[3] = 0 /\ k >= 4 /\ p.atyp = m[4] /\ p.atyp \in Known
        /\ p.port = 0 /\ p.port_pos = 0 /\ Copied(p.addr, m, Before(p))
        /\ p.atyp # DOMAIN_NAME => p.domain_len = 0
        /\ p.atyp = DOMAIN_NAME /\ k >= 5 => p.domain_len = m[5] /\ m[5] # 0
        /\ p.atyp = DOMAIN_NAME /\ k = 4 => p.domain_len = 0
        /\ \/ p.atyp = DOMAIN_NAME /\ k = 4 /\ p.addr = <<>>
           \/ k = Before(p) + Len(p.addr) /\ Len(p.addr) < Extent(p)
    BY <1>0, <1>9 DEF RequestAt
  <2>2. p.domain_len \in Nat /\ p.domain_len <= 255
    <3>1. p.domain_len \in Byte
      BY <1>1 DEF RequestParsers
    <3> QED BY <3>1, Bytes
  <2>3. CASE p.atyp = DOMAIN_NAME /\ p.domain_len = 0
    <3>1. q = IF c = 0 THEN [p EXCEPT !.at = "ERROR", !.reply = 1]
              ELSE [p EXCEPT !.domain_len = c]
      BY <1>9, <2>3 DEF RequestFeed
    <3>2. k = 4 /\ p.addr = <<>> /\ c = m[5] /\ k + 1 = 5
      <4>1. k = 4
        BY <1>1, <2>1, <2>3
      <4>2. Len(p.addr) = 0
        BY <1>4, <2>1, <2>3, <4>1 DEF Before, Extent, IPV4, IPV6, DOMAIN_NAME
      <4> QED BY <1>4, <1>6, <4>1, <4>2
    <3>3. /\ q \in RequestParsers /\ q.at = IF c = 0 THEN "ERROR" ELSE "DST_ADDR"
          /\ q.cmd = m[2] /\ (c = 0 => q.reply = 1)
          /\ (c # 0 => q.domain_len = c)
          /\ q.atyp = DOMAIN_NAME /\ q.addr = <<>> /\ q.port = 0 /\ q.port_pos = 0
      <4>1. /\ p.cmd = m[2] /\ p.port = 0 /\ p.port_pos = 0 /\ p.atyp = DOMAIN_NAME
            /\ p.addr = <<>>
        BY <2>1, <2>3, <3>2
      <4>2. CASE c = 0
        <5>1. q = [p EXCEPT !.at = "ERROR", !.reply = 1]
          BY <3>1, <4>2
        <5> QED BY <1>1, <1>7, <4>1, <4>2, <5>1 DEF RequestParsers
      <4>3. CASE c # 0
        <5>1. q = [p EXCEPT !.domain_len = c]
          BY <3>1, <4>3
        <5> QED BY <1>1, <1>9, <4>1, <4>3, <5>1 DEF RequestParsers
      <4> QED BY <4>2, <4>3
    <3> HIDE DEF q
    <3>4. Len(q.addr) = 0 /\ Copied(q.addr, m, Before(q)) /\ 5 = Before(q) + Len(q.addr)
          /\ Extent(q) = q.domain_len
      BY <3>3 DEF Copied, Before, Extent, IPV4, IPV6, DOMAIN_NAME
    <3>5. RequestAt(q, m, 5)
      <4>1. CASE c = 0
        BY <2>1, <2>3, <3>2, <3>3, <3>4, <4>1 DEF RequestAt, IPV4, IPV6, DOMAIN_NAME
      <4>2. CASE c # 0
        <5>1. Len(q.addr) < Extent(q)
          BY <1>1, <3>3, <3>4, <4>2
        <5> QED BY <2>1, <2>3, <3>2, <3>3, <3>4, <4>2, <5>1 DEF RequestAt, Known
      <4> QED BY <4>1, <4>2
    <3> QED BY <1>2, <1>6, <3>2, <3>5
  <2>4. CASE ~(p.atyp = DOMAIN_NAME /\ p.domain_len = 0)
    <3> DEFINE more == Append(p.addr, c)
               at == IF Len(p.addr) + 1 = Extent(p) THEN "DST_PORT" ELSE "DST_ADDR"
    <3>1. k = Before(p) + Len(p.addr) /\ Len(p.addr) < Extent(p)
      BY <2>1, <2>4
    <3>2. Before(p) \in Nat /\ Extent(p) \in Nat /\ Extent(p) <= 255
          /\ (p.atyp \in {IPV4, IPV6} => Extent(p) <= 16)
      BY <2>2 DEF Before, Extent, IPV4, IPV6, DOMAIN_NAME
    <3>3. more \in Seq(Byte) /\ Len(more) = Len(p.addr) + 1 /\ Copied(more, m, Before(p))
      <4>1. k + 1 = Before(p) + Len(p.addr) + 1
        BY <3>1
      <4>2. c = m[Before(p) + Len(p.addr) + 1]
        BY <1>6, <4>1
      <4>3. Copied(p.addr, m, Before(p))
        BY <2>1
      <4> QED BY <1>1, <1>4, <3>2, <4>2, <4>3, CopiedMore
    <3>4. address_length(p) = Extent(p)
      BY <2>1 DEF address_length, Extent, Known, IPV4, IPV6, DOMAIN_NAME
    <3>5. q = [p EXCEPT !.addr = more, !.at = at]
      <4>1. q = [p EXCEPT !.addr = Append(@, c),
                     !.at = IF Len(p.addr) + 1 = address_length(p) THEN "DST_PORT" ELSE @]
        BY <1>9, <2>4 DEF RequestFeed
      <4> QED BY <1>1, <1>9, <3>4, <4>1 DEF RequestParsers
    <3> HIDE DEF more
    <3>6. /\ q \in RequestParsers /\ q.at = at /\ q.cmd = m[2] /\ q.atyp = p.atyp
          /\ q.domain_len = p.domain_len /\ q.addr = more /\ q.port = 0 /\ q.port_pos = 0
      BY <1>1, <2>1, <3>3, <3>5 DEF RequestParsers
    <3> HIDE DEF q
    <3>7. Before(q) = Before(p) /\ Extent(q) = Extent(p)
      BY <3>6 DEF Before, Extent
    <3>8. k + 1 = Before(q) + Len(q.addr) /\ Len(q.addr) > 0 /\ Len(q.addr) <= Extent(q)
      <4>1. Len(q.addr) = Len(p.addr) + 1
        BY <3>3, <3>6
      <4>2. Len(q.addr) <= Extent(q)
        BY <1>4, <3>1, <3>2, <3>7, <4>1
      <4>3. k + 1 = Before(q) + Len(q.addr)
        BY <1>4, <3>1, <3>2, <3>7, <4>1
      <4> QED BY <1>4, <4>1, <4>2, <4>3
    <3>9. q.at = "DST_PORT" => Len(q.addr) = Extent(q)
      BY <3>3, <3>6, <3>7
    <3>10. q.at = "DST_ADDR" => Len(q.addr) < Extent(q)
      <4>1. Len(q.addr) = Len(p.addr) + 1 /\ Extent(q) = Extent(p)
        BY <3>3, <3>6, <3>7
      <4> QED BY <1>4, <3>1, <3>2, <3>6, <4>1
    <3>11. q.at \in {"DST_ADDR", "DST_PORT"}
      BY <3>6
    <3>12. k + 1 >= 4 /\ k + 1 # 4 /\ k + 1 >= 3
           /\ (p.atyp = DOMAIN_NAME => p.domain_len = m[5] /\ m[5] # 0)
      <4>1. k >= 4 /\ k + 1 >= 4 /\ k + 1 # 4 /\ k + 1 >= 3
        BY <1>1, <2>1
      <4>2. p.atyp = DOMAIN_NAME => k >= 5
        BY <1>1, <1>4, <3>1 DEF Before
      <4> QED BY <2>1, <4>1, <4>2
    <3>13. Len(q.addr) <= 255 /\ (q.atyp \in {IPV4, IPV6} => Len(q.addr) <= 16)
      BY <1>4, <3>2, <3>3, <3>6, <3>7, <3>8
    <3> HIDE DEF at
    <3>14. Copied(q.addr, m, Before(q))
      BY <3>3, <3>6, <3>7
    <3>15. RequestAt(q, m, k + 1)
      BY <2>1, <3>6, <3>8, <3>9, <3>10, <3>11, <3>12, <3>13, <3>14 DEF RequestAt
    <3> QED BY <1>2, <1>6, <3>15
  <2> QED BY <2>3, <2>4
<1>10. CASE p.at = "DST_PORT"
  <2>1. /\ m[1] = 5 /\ p.cmd = m[2] /\ m[3] = 0 /\ k >= 4 /\ p.atyp = m[4] /\ p.atyp \in Known
        /\ Copied(p.addr, m, Before(p)) /\ Len(p.addr) = Extent(p) /\ Len(p.addr) > 0
        /\ p.atyp # DOMAIN_NAME => p.domain_len = 0
        /\ p.atyp = DOMAIN_NAME /\ k >= 5 => p.domain_len = m[5] /\ m[5] # 0
        /\ \/ p.port_pos = 0 /\ p.port = 0 /\ k = Before(p) + Len(p.addr)
           \/ p.port_pos = 1 /\ p.port = m[k] /\ k = Before(p) + Len(p.addr) + 1
    BY <1>0, <1>10 DEF RequestAt
  <2> DEFINE at == IF p.port_pos = 1 THEN "DONE" ELSE "DST_PORT"
             high == m[k]
             port == IF p.port_pos = 0 THEN c ELSE 256 * high + c
             sum == (256 * p.port + c) % 65536
  <2>2. Before(p) \in Nat /\ Before(p) >= 4
    BY DEF Before
  <2>3. sum = port /\ port \in PortNumbers
    <3>1. CASE p.port_pos = 0
      <4>1. p.port = 0
        BY <2>1, <3>1
      <4> QED BY <1>1, <3>1, <4>1, Ports
    <3>2. CASE p.port_pos # 0
      <4>1. p.port = m[k] /\ k \in 1 .. Len(m)
        BY <2>1, <3>2
      <4>2. high \in Byte /\ p.port = high
        BY <4>1
      <4> HIDE DEF high
      <4>3. (256 * high + c) % 65536 = 256 * high + c /\ 256 * high + c \in PortNumbers
        BY <1>1, <4>2, Ports
      <4> QED BY <3>2, <4>2, <4>3
    <3> QED BY <3>1, <3>2
  <2>4. q = [p EXCEPT !.port = port, !.port_pos = p.port_pos + 1, !.at = at]
    <3>1. q = [p EXCEPT !.port = (256 * @ + c) % 65536, !.port_pos = @ + 1,
                        !.at = IF p.port_pos = 1 THEN "DONE" ELSE @]
      BY <1>10 DEF RequestFeed
    <3>2. q = [p EXCEPT !.port = sum, !.port_pos = p.port_pos + 1,
                        !.at = IF p.port_pos = 1 THEN "DONE" ELSE p.at]
      BY <3>1
    <3> HIDE DEF port, sum, q
    <3> QED BY <1>10, <2>3, <3>2
  <2>5. p.port_pos \in {0, 1}
    BY <2>1
  <2> HIDE DEF port, sum, high
  <2>6. /\ q \in RequestParsers /\ q.at = at /\ q.cmd = m[2] /\ q.atyp = p.atyp
        /\ q.domain_len = p.domain_len /\ q.addr = p.addr /\ q.port = port
        /\ q.port_pos = p.port_pos + 1
    <3>1. p.port_pos + 1 \in 0 .. 2 /\ at \in {"DONE", "DST_PORT"}
      BY <2>5
    <3> HIDE DEF at
    <3> QED BY <1>1, <2>1, <2>3, <2>4, <3>1 DEF RequestParsers
  <2> HIDE DEF q
  <2>7. Before(q) = Before(p) /\ Extent(q) = Extent(p)
    BY <2>6 DEF Before, Extent
  <2>8. k + 1 >= 4 /\ k + 1 # 4 /\ k + 1 >= 3 /\ k + 1 >= 5
        /\ (p.atyp = DOMAIN_NAME => p.domain_len = m[5] /\ m[5] # 0)
    BY <1>1, <1>4, <2>1 DEF Before
  <2>9. CASE p.port_pos = 0
    <3>1. q.at = "DST_PORT" /\ q.port_pos = 1 /\ q.port = m[k + 1]
      BY <1>6, <2>6, <2>9 DEF port
    <3>2. k + 1 = Before(q) + Len(q.addr) + 1
      BY <1>4, <2>1, <2>2, <2>6, <2>7, <2>9
    <3>3. RequestAt(q, m, k + 1)
      BY <1>5, <2>1, <2>6, <2>7, <2>8, <3>1, <3>2 DEF RequestAt
    <3> QED BY <1>2, <1>6, <3>3
  <2>10. CASE p.port_pos = 1
    <3>1. q.at = "DONE" /\ q.port_pos = 2 /\ q.port = 256 * m[(k + 1) - 1] + m[k + 1]
      <4>1. (k + 1) - 1 = k
        BY <1>1
      <4> QED BY <1>6, <2>6, <2>10, <4>1 DEF port, high
    <3>2. k + 1 = Before(q) + Len(q.addr) + 2
      BY <1>4, <2>1, <2>2, <2>6, <2>7, <2>10
    <3>3. RequestAt(q, m, k + 1)
      BY <1>5, <2>1, <2>6, <2>7, <2>8, <3>1, <3>2 DEF RequestAt
    <3> QED BY <1>2, <1>6, <3>3
  <2> QED BY <2>5, <2>9, <2>10
<1> QED BY <1>3, <1>8, <1>9, <1>10

-----------------------------------------------------------------------------
(* What the parsers have found when they are over; and that they have looked  *)
(* at the first k bytes only. Same says that two messages begin with the same *)
(* k bytes.                                                                   *)

Same(m, other, k) == \A i \in 1 .. k : other[i] = m[i]

LEMMA ElementOf ==
    ASSUME NEW m \in Seq(Byte), NEW i \in Int, i >= 1, i <= Len(m)
    PROVE  m[i] \in Byte /\ m[i] \in Nat
<1>1. m[i] \in Byte
  OBVIOUS
<1> QED BY <1>1, Bytes

LEMMA HelloFound ==
    ASSUME NEW m \in Seq(Byte), NEW k \in 0 .. Len(m), NEW p, HelloAt(p, m, k)
    PROVE  /\ p.at = "DONE" => /\ HelloWhole(m) /\ HelloLength(m) = k
                               /\ p.method = MethodChosen(m)
           /\ p.at = "ERROR" => HelloBad(m)
<1>1. k \in Nat /\ Len(m) \in Nat /\ k <= Len(m)
  OBVIOUS
<1>2. ASSUME p.at = "DONE"
      PROVE  HelloWhole(m) /\ HelloLength(m) = k /\ p.method = MethodChosen(m)
  <2>1. m[1] = 5 /\ m[2] # 0 /\ k >= 2 /\ k = 2 + m[2] /\ p.method = Choice(m, k)
    BY <1>2 DEF HelloAt
  <2>2. HelloLength(m) = k
    BY <2>1 DEF HelloLength
  <2>3. Len(m) >= 2
    BY <1>1, <2>1
  <2>4. HelloWhole(m)
    BY <1>1, <2>1, <2>2, <2>3 DEF HelloWhole, HelloBad
  <2>5. p.method = MethodChosen(m)
    BY <2>1, <2>2 DEF MethodChosen, Offered, Choice
  <2> QED BY <2>2, <2>4, <2>5
<1>3. ASSUME p.at = "ERROR" PROVE HelloBad(m)
  <2>1. (k = 1 /\ m[1] # 5) \/ (k = 2 /\ m[1] = 5 /\ m[2] = 0)
    BY <1>3 DEF HelloAt
  <2> QED BY <1>1, <2>1 DEF HelloBad
<1> QED BY <1>2, <1>3

LEMMA HelloSame ==
    ASSUME NEW m, NEW k \in Nat, NEW p, HelloAt(p, m, k), NEW other, Same(m, other, k)
    PROVE  HelloAt(p, other, k)
<1>1. k >= 1 => other[1] = m[1]
  BY DEF Same
<1>2. k >= 2 => other[2] = m[2]
  BY DEF Same
<1>3. {m[i] : i \in 3 .. k} = {other[i] : i \in 3 .. k}
  <2>1. \A i \in 3 .. k : other[i] = m[i]
    BY DEF Same
  <2> QED BY <2>1
<1>4. Choice(other, k) = Choice(m, k)
  BY <1>3 DEF Choice
<1> QED BY <1>1, <1>2, <1>4 DEF HelloAt

LEMMA AuthFound ==
    ASSUME NEW m \in Seq(Byte), NEW k \in 0 .. Len(m), NEW p, AuthAt(p, m, k)
    PROVE  /\ p.at = "DONE" => /\ AuthWhole(m) /\ AuthLength(m) = k
                               /\ p.username = Name(m) /\ p.password = Password(m)
           /\ p.at = "ERROR" => AuthBad(m)
<1>1. k \in Nat /\ Len(m) \in Nat /\ k <= Len(m) /\ p \in AuthParsers
  BY DEF AuthAt
<1>2. ASSUME p.at = "DONE"
      PROVE  /\ AuthWhole(m) /\ AuthLength(m) = k
             /\ p.username = Name(m) /\ p.password = Password(m)
  <2>1. /\ m[1] = 1 /\ p.username_len = m[2] /\ m[2] > 0 /\ Copied(p.username, m, 2)
        /\ Len(p.username) = m[2] /\ p.password_len = m[3 + m[2]] /\ p.password_len > 0
        /\ Copied(p.password, m, 3 + m[2]) /\ k = 3 + m[2] + Len(p.password)
        /\ Len(p.password) = p.password_len
    BY <1>2 DEF AuthAt
  <2> DEFINE u == m[2]
             w == m[3 + u]
  <2>2. u \in Nat /\ w \in Nat /\ u > 0 /\ w > 0 /\ k = 3 + u + w
    <3>1. p.username_len \in Nat /\ p.password_len \in Nat
      BY <1>1, Bytes DEF AuthParsers
    <3> QED BY <2>1, <3>1
  <2>3. AuthLength(m) = k
    BY <2>2 DEF AuthLength
  <2>4. AuthWhole(m)
    <3>1. m[1] = 1 /\ u # 0 /\ w # 0
      BY <2>1, <2>2
    <3>2. ~AuthBad(m)
      BY <3>1 DEF AuthBad
    <3> HIDE DEF u, w
    <3>3. Len(m) >= 2 /\ Len(m) >= 3 + u /\ Len(m) >= k
      BY <1>1, <2>2
    <3> QED BY <2>3, <3>2, <3>3 DEF AuthWhole, AuthKnown, u
  <2>5. p.username = Name(m)
    <3>1. p.username \in Seq(Byte) /\ Len(p.username) = u /\ Copied(p.username, m, 2)
      BY <1>1, <2>1 DEF AuthParsers
    <3>2. Name(m) = SubSeq(m, 3, 2 + u)
      BY DEF Name
    <3> HIDE DEF u, w
    <3>3. u + 2 <= Len(m)
      BY <1>1, <2>2
    <3>4. Name(m) \in Seq(Byte) /\ Len(Name(m)) = u /\ \A i \in 1 .. u : Name(m)[i] = m[2 + i]
      BY <2>2, <3>2, <3>3
    <3> QED BY <3>1, <3>4 DEF Copied
  <2>6. p.password = Password(m)
    <3>1. p.password \in Seq(Byte) /\ Len(p.password) = w /\ Copied(p.password, m, 3 + u)
      BY <1>1, <2>1 DEF AuthParsers
    <3>2. Password(m) = SubSeq(m, 4 + u, k)
      BY <2>3 DEF Password
    <3> HIDE DEF u, w
    <3>3. Password(m) \in Seq(Byte) /\ Len(Password(m)) = w
          /\ \A i \in 1 .. w : Password(m)[i] = m[3 + u + i]
      BY <1>1, <2>2, <3>2
    <3> QED BY <3>1, <3>3 DEF Copied
  <2> QED BY <2>3, <2>4, <2>5, <2>6
<1>3. ASSUME p.at = "ERROR" PROVE AuthBad(m)
  <2>1. \/ k = 1 /\ m[1] # 1
        \/ k = 2 /\ m[2] = 0
        \/ m[2] \in Byte /\ k = 3 + m[2] /\ m[3 + m[2]] = 0
    BY <1>3 DEF AuthAt
  <2>2. CASE m[2] \in Byte /\ k = 3 + m[2] /\ m[3 + m[2]] = 0
    <3>1. m[2] \in Nat
      BY <2>2, Bytes
    <3>2. Len(m) >= 2 /\ Len(m) >= 3 + m[2]
      BY <1>1, <2>2, <3>1
    <3> QED BY <2>2, <3>2 DEF AuthBad, AuthKnown
  <2> QED BY <1>1, <2>1, <2>2 DEF AuthBad
<1> QED BY <1>2, <1>3

LEMMA CopiedSame ==
    ASSUME NEW m, NEW k \in Nat, NEW other, Same(m, other, k),
           NEW s \in Seq(Byte), NEW b \in Nat, Copied(s, m, b), b + Len(s) <= k
    PROVE  Copied(s, other, b)
<1>1. ASSUME NEW i \in 1 .. Len(s) PROVE b + i \in 1 .. k
  OBVIOUS
<1> QED BY <1>1 DEF Copied, Same

LEMMA AuthSame ==
    ASSUME NEW m, NEW k \in Nat, NEW p, NEW other, Same(m, other, k)
    PROVE  AuthAt(p, m, k) => AuthAt(p, other, k)
<1>0. SUFFICES ASSUME AuthAt(p, m, k) PROVE AuthAt(p, other, k)
  OBVIOUS
<1>1. \A i \in 1 .. k : other[i] = m[i]
  BY DEF Same
<1>2. /\ p \in AuthParsers /\ p.username \in Seq(Byte) /\ p.password \in Seq(Byte)
      /\ Len(p.username) \in Nat /\ Len(p.password) \in Nat
      /\ p.username_len \in Nat /\ p.password_len \in Nat
  <2>1. p \in AuthParsers
    BY <1>0 DEF AuthAt
  <2>2. p.username_len \in Byte /\ p.password_len \in Byte
        /\ p.username \in Seq(Byte) /\ p.password \in Seq(Byte)
    BY <2>1 DEF AuthParsers
  <2> QED BY <2>1, <2>2, Bytes
<1>3. CASE p.at \in {"VERSION", "ULEN"}
  BY <1>0, <1>1, <1>3 DEF AuthAt
<1>4. CASE p.at = "ERROR"
  <2>1. \/ k = 1 /\ m[1] # 1
        \/ k = 2 /\ m[2] = 0
        \/ m[2] \in Byte /\ k = 3 + m[2] /\ m[3 + m[2]] = 0
    BY <1>0, <1>4 DEF AuthAt
  <2>2. \/ k = 1 /\ other[1] # 1
        \/ k = 2 /\ other[2] = 0
        \/ other[2] \in Byte /\ k = 3 + other[2] /\ other[3 + other[2]] = 0
    <3>1. CASE m[2] \in Byte /\ k = 3 + m[2] /\ m[3 + m[2]] = 0
      <4>1. m[2] \in Nat
        BY <3>1, Bytes
      <4>2. other[2] = m[2] /\ other[k] = m[k]
        BY <1>1, <3>1, <4>1
      <4> QED BY <3>1, <4>2
    <3> QED BY <1>1, <2>1, <3>1
  <2>3. Len(p.username) <= p.username_len /\ Len(p.password) <= p.password_len
    BY <1>0 DEF AuthAt
  <2> QED BY <1>2, <1>4, <2>2, <2>3 DEF AuthAt
<1>5. CASE p.at \in {"UNAME", "PLEN", "PASSWD", "DONE"}
  <2>1. /\ m[1] = 1 /\ p.username_len = m[2] /\ m[2] > 0 /\ Copied(p.username, m, 2)
        /\ Len(p.username) <= p.username_len /\ Len(p.password) <= p.password_len
        /\ p.at \in {"UNAME", "PLEN"} => p.password_len = 0
        /\ p.at = "UNAME" => k = 2 + Len(p.username) /\ Len(p.username) < m[2]
        /\ p.at \in {"PLEN", "PASSWD", "DONE"} => Len(p.username) = m[2]
        /\ p.at = "PLEN" => k = 2 + m[2]
        /\ p.at \in {"PASSWD", "DONE"} =>
             /\ p.password_len = m[3 + m[2]] /\ p.password_len > 0
             /\ Copied(p.password, m, 3 + m[2])
             /\ k = 3 + m[2] + Len(p.password)
        /\ p.at = "PASSWD" => Len(p.password) < p.password_len
        /\ p.at = "DONE" => Len(p.password) = p.password_len
    BY <1>0, <1>5 DEF AuthAt
  <2> DEFINE u == m[2]
  <2>2. u \in Nat /\ 2 + Len(p.username) <= k
    <3>1. u \in Nat
      BY <1>2, <2>1
    <3>2. CASE p.at = "UNAME"
      BY <1>1, <1>2, <2>1, <3>2
    <3>3. CASE p.at = "PLEN"
      BY <1>1, <1>2, <2>1, <3>3
    <3>4. CASE p.at \in {"PASSWD", "DONE"}
      <4>1. k = 3 + u + Len(p.password) /\ Len(p.username) = u
        BY <2>1, <3>4
      <4>2. Len(p.password) \in Nat
        BY <1>2
      <4>3. \A x, y \in Nat : 2 + x <= 3 + x + y
        OBVIOUS
      <4>4. 2 + u <= 3 + u + Len(p.password)
        BY <3>1, <4>2, <4>3
      <4> HIDE DEF u
      <4> QED BY <3>1, <4>1, <4>4
    <3> QED BY <1>5, <3>1, <3>2, <3>3, <3>4
  <2>3. other[1] = m[1] /\ other[2] = u
    BY <1>1, <1>2, <2>2
  <2>4. Copied(p.username, other, 2)
    BY <1>2, <2>1, <2>2, CopiedSame
  <2>5. p.at \in {"PASSWD", "DONE"} => other[3 + u] = m[3 + u] /\ Copied(p.password, other, 3 + u)
    <3>1. SUFFICES ASSUME p.at \in {"PASSWD", "DONE"}
                   PROVE  other[3 + u] = m[3 + u] /\ Copied(p.password, other, 3 + u)
      OBVIOUS
    <3>2. k = 3 + u + Len(p.password) /\ Copied(p.password, m, 3 + u)
      BY <2>1, <3>1
    <3> HIDE DEF u
    <3>3. 3 + u \in Nat /\ 3 + u \in 1 .. k /\ (3 + u) + Len(p.password) <= k
      <4>1. \A x, y \in Nat : 3 + x \in Nat /\ 3 + x \in 1 .. (3 + x + y) /\ (3 + x) + y <= 3 + x + y
        OBVIOUS
      <4> QED BY <1>2, <2>2, <3>2, <4>1
    <3>4. Copied(p.password, other, 3 + u)
      BY <1>2, <3>2, <3>3, CopiedSame
    <3> QED BY <1>1, <3>3, <3>4
  <2> QED BY <1>2, <1>5, <2>1, <2>3, <2>4, <2>5 DEF AuthAt
<1> QED BY <1>2, <1>3, <1>4, <1>5 DEF AuthParsers

LEMMA RequestFound ==
    ASSUME NEW m \in Seq(Byte), NEW k \in 0 .. Len(m), NEW p
    PROVE  RequestAt(p, m, k) =>
             /\ p.at = "DONE" =>
                  /\ RequestWhole(m) /\ RequestLength(m) = k /\ p.cmd = m[2] /\ p.atyp = m[4]
                  /\ p.addr = Address(m) /\ p.port = Port(m)
             /\ p.at = "ERROR" =>
                  RequestErrors(m) # {} /\ FirstError(m) = k /\ p.reply = 1
<1>0. SUFFICES ASSUME RequestAt(p, m, k)
      PROVE  /\ p.at = "DONE" =>
                  /\ RequestWhole(m) /\ RequestLength(m) = k /\ p.cmd = m[2] /\ p.atyp = m[4]
                  /\ p.addr = Address(m) /\ p.port = Port(m)
             /\ p.at = "ERROR" =>
                  RequestErrors(m) # {} /\ FirstError(m) = k /\ p.reply = 1
  OBVIOUS
<1>1. k \in Nat /\ Len(m) \in Nat /\ k <= Len(m) /\ p \in RequestParsers
  BY <1>0 DEF RequestAt
<1>2. ASSUME p.at = "DONE"
      PROVE  /\ RequestWhole(m) /\ RequestLength(m) = k /\ p.cmd = m[2] /\ p.atyp = m[4]
             /\ p.addr = Address(m) /\ p.port = Port(m)
  <2>1. /\ m[1] = 5 /\ p.cmd = m[2] /\ m[3] = 0 /\ k >= 4 /\ p.atyp = m[4]
        /\ p.atyp # DOMAIN_NAME => p.domain_len = 0
        /\ p.atyp = DOMAIN_NAME /\ k >= 5 => p.domain_len = m[5] /\ m[5] # 0
        /\ Copied(p.addr, m, Before(p))
        /\ \/ p.atyp \notin Known /\ k = 4 /\ p.addr = <<>> /\ p.port = 0
           \/ /\ p.atyp \in Known /\ Len(p.addr) = Extent(p) /\ Len(p.addr) > 0
              /\ k = Before(p) + Len(p.addr) + 2
              /\ p.port = 256 * m[k - 1] + m[k]
    BY <1>0, <1>2 DEF RequestAt
  <2>2. AddressKnown(m) <=> p.atyp \in Known
    BY <2>1 DEF AddressKnown, Known
  <2>3. CASE p.atyp \notin Known
    <3>1. p.addr = <<>> /\ p.port = 0 /\ k = 4 /\ ~AddressKnown(m)
      BY <2>1, <2>2, <2>3
    <3>2. m[4] # IPV4 /\ m[4] # IPV6 /\ m[4] # DOMAIN_NAME
      BY <2>1, <2>3 DEF Known
    <3>3. RequestLength(m) = 4
      BY <3>1, <3>2 DEF RequestLength
    <3>4. Address(m) = <<>> /\ Port(m) = 0
      BY <3>1 DEF Address, Port
    <3>5. RequestErrors(m) = {}
      BY <2>1, <3>2 DEF RequestErrors
    <3>6. RequestWhole(m)
      BY <1>1, <2>1, <3>1, <3>2, <3>3, <3>5 DEF RequestWhole, RequestKnown
    <3> QED BY <2>1, <3>1, <3>3, <3>4, <3>6
  <2>4. CASE p.atyp \in Known
    <3>1. /\ AddressKnown(m) /\ Len(p.addr) = Extent(p) /\ Len(p.addr) > 0
          /\ k = Before(p) + Len(p.addr) + 2 /\ p.port = 256 * m[k - 1] + m[k]
      BY <2>1, <2>2, <2>4
    <3>2. p.addr \in Seq(Byte) /\ Len(p.addr) \in Nat
      <4>1. p.addr \in Seq(Byte)
        BY <1>1 DEF RequestParsers
      <4> QED BY <4>1
    <3>3. p.atyp = DOMAIN_NAME => k >= 5 /\ p.domain_len = m[5] /\ m[5] # 0
      <4>1. p.atyp = DOMAIN_NAME => k >= 5
        BY <3>1, <3>2 DEF Before
      <4> QED BY <2>1, <4>1
    <3> DEFINE e == Len(p.addr)
               b == Before(p)
    <3>4. RequestLength(m) = b + e + 2
      <4>1. CASE p.atyp = DOMAIN_NAME
        <5>1. e = m[5] /\ b = 5 /\ m[4] = DOMAIN_NAME
          BY <2>1, <3>1, <3>3, <4>1 DEF Extent, Before, IPV4, IPV6, DOMAIN_NAME
        <5>2. RequestLength(m) = 7 + m[5]
          BY <3>1, <5>1 DEF RequestLength, IPV4, IPV6, DOMAIN_NAME
        <5> HIDE DEF e, b
        <5>3. m[5] \in Nat
          BY <3>2, <5>1 DEF e
        <5> QED BY <5>1, <5>2, <5>3
      <4>2. CASE p.atyp = IPV4
        <5>1. e = 4 /\ b = 4 /\ m[4] = IPV4
          BY <2>1, <3>1, <4>2 DEF Extent, Before, IPV4, IPV6, DOMAIN_NAME
        <5>2. RequestLength(m) = 10
          BY <3>1, <5>1 DEF RequestLength, IPV4, IPV6, DOMAIN_NAME
        <5> QED BY <5>1, <5>2
      <4>3. CASE p.atyp = IPV6
        <5>1. e = 16 /\ b = 4 /\ m[4] = IPV6
          BY <2>1, <3>1, <4>3 DEF Extent, Before, IPV4, IPV6, DOMAIN_NAME
        <5>2. RequestLength(m) = 22
          BY <3>1, <5>1 DEF RequestLength, IPV4, IPV6, DOMAIN_NAME
        <5> QED BY <5>1, <5>2
      <4> QED BY <2>4, <4>1, <4>2, <4>3 DEF Known
    <3>5. b \in {4, 5} /\ k = b + e + 2 /\ e \in Nat
      BY <3>1, <3>2 DEF Before
    <3>6. RequestLength(m) = k
      BY <3>4, <3>5
    <3>7. p.addr = Address(m)
      <4>1. Address(m) = SubSeq(m, b + 1, k - 2)
        <5>1. m[4] = p.atyp
          BY <2>1, <3>1
        <5>2. b = IF m[4] = DOMAIN_NAME THEN 5 ELSE 4
          BY <5>1 DEF Before
        <5>3. AddressKnown(m)
          BY <2>4, <5>1 DEF AddressKnown, Known
        <5> HIDE DEF e
        <5>4. Address(m) = SubSeq(m, IF m[4] = DOMAIN_NAME THEN 6 ELSE 5, k - 2)
          BY <3>6, <5>3 DEF Address
        <5>5. (IF m[4] = DOMAIN_NAME THEN 6 ELSE 5) = b + 1
          BY <5>2
        <5> QED BY <5>4, <5>5
      <4>2. Copied(p.addr, m, b)
        BY <2>1
      <4> HIDE DEF b, e
      <4>3. Address(m) \in Seq(Byte) /\ Len(Address(m)) = e
            /\ \A i \in 1 .. e : Address(m)[i] = m[b + i]
        <5>1. k - 2 = b + e /\ b \in Nat /\ b + e <= Len(m)
          BY <1>1, <3>5
        <5>2. Address(m) = SubSeq(m, b + 1, b + e)
          BY <4>1, <5>1
        <5> QED BY <3>5, <5>1, <5>2
      <4> QED BY <3>2, <4>2, <4>3 DEF Copied, e
    <3>8. p.port = Port(m)
      BY <3>1, <3>6 DEF Port
    <3>9. RequestErrors(m) = {}
      BY <2>1, <3>3 DEF RequestErrors
    <3>10. RequestKnown(m)
      BY <1>1, <2>1, <3>3 DEF RequestKnown
    <3> QED BY <1>1, <2>1, <3>6, <3>7, <3>8, <3>9, <3>10 DEF RequestWhole
  <2> QED BY <2>3, <2>4
<1>3. ASSUME p.at = "ERROR"
      PROVE  RequestErrors(m) # {} /\ FirstError(m) = k /\ p.reply = 1
  <2>1. /\ p.reply = 1
        /\ \/ k = 1 /\ m[1] # 5
           \/ k = 3 /\ m[1] = 5 /\ m[3] # 0
           \/ k = 5 /\ m[1] = 5 /\ m[3] = 0 /\ m[4] = DOMAIN_NAME /\ m[5] = 0
    BY <1>0, <1>3 DEF RequestAt
  <2>2. k \in RequestErrors(m)
    BY <1>1, <2>1 DEF RequestErrors
  <2>3. \A j \in RequestErrors(m) : k <= j
    BY <1>1, <2>1 DEF RequestErrors
  <2>4. \A j \in RequestErrors(m) : (\A i \in RequestErrors(m) : j <= i) => j = k
    <3>1. \A j \in RequestErrors(m) : j \in Nat
      BY DEF RequestErrors
    <3> QED BY <1>1, <2>2, <2>3, <3>1
  <2>5. FirstError(m) = k
    BY <2>2, <2>3, <2>4 DEF FirstError
  <2> QED BY <2>1, <2>2, <2>5
<1> QED BY <1>2, <1>3

LEMMA RequestSame ==
    ASSUME NEW m, NEW k \in Nat, NEW p, NEW other, Same(m, other, k)
    PROVE  RequestAt(p, m, k) => RequestAt(p, other, k)
<1>0. SUFFICES ASSUME RequestAt(p, m, k) PROVE RequestAt(p, other, k)
  OBVIOUS
<1>1. /\ k >= 1 => other[1] = m[1]
      /\ k >= 2 => other[2] = m[2]
      /\ k >= 3 => other[3] = m[3]
      /\ k >= 4 => other[4] = m[4]
      /\ k >= 5 => other[5] = m[5]
      /\ k >= 5 => other[k - 1] = m[k - 1]
      /\ k >= 5 => other[k] = m[k]
  BY DEF Same
<1>2. p \in RequestParsers /\ p.addr \in Seq(Byte) /\ Len(p.addr) \in Nat
  <2>1. p \in RequestParsers
    BY <1>0 DEF RequestAt
  <2>2. p.addr \in Seq(Byte)
    BY <2>1 DEF RequestParsers
  <2> QED BY <2>1, <2>2
<1>3. CASE p.at \in {"VERSION", "CMD", "RSV", "ATYP", "ERROR"}
  BY <1>0, <1>1, <1>3 DEF RequestAt
<1>4. CASE p.at \in {"DST_ADDR", "DST_PORT", "DONE"}
  <2>1. Copied(p.addr, m, Before(p)) /\ k >= 4
        /\ (p.addr = <<>> \/ Before(p) + Len(p.addr) <= k)
    <3>1. /\ Copied(p.addr, m, Before(p)) /\ k >= 4
          /\ p.at = "DST_ADDR" =>
               p.addr = <<>> \/ k = Before(p) + Len(p.addr)
          /\ p.at = "DST_PORT" =>
               k = Before(p) + Len(p.addr) \/ k = Before(p) + Len(p.addr) + 1
          /\ p.at = "DONE" => p.addr = <<>> \/ k = Before(p) + Len(p.addr) + 2
      BY <1>0, <1>4 DEF RequestAt
    <3>2. Before(p) \in Nat
      BY DEF Before
    <3> QED BY <1>2, <1>4, <3>1, <3>2
  <2>2. Copied(p.addr, other, Before(p))
    <3>1. CASE p.addr = <<>>
      BY <3>1 DEF Copied
    <3>2. CASE Before(p) + Len(p.addr) <= k
      <4>1. Before(p) \in Nat
        BY DEF Before
      <4> QED BY <1>2, <2>1, <3>2, <4>1, CopiedSame
    <3> QED BY <2>1, <3>1, <3>2
  <2>3. Before(p) \in Nat /\ Before(p) >= 4
    BY DEF Before
  <2>4. \A x, y \in Nat : x >= 4 /\ y > 0 => x + y >= 5 /\ x + y + 1 >= 5 /\ x + y + 2 >= 5
    OBVIOUS
  <2>5. CASE p.at = "DST_ADDR"
    BY <1>0, <1>1, <2>1, <2>2, <2>5 DEF RequestAt
  <2>6. CASE p.at = "DST_PORT"
    <3>1. k >= 5
      <4>1. Len(p.addr) > 0 /\ (k = Before(p) + Len(p.addr) \/ k = Before(p) + Len(p.addr) + 1)
        BY <1>0, <2>6 DEF RequestAt
      <4> QED BY <1>2, <2>3, <2>4, <4>1
    <3> QED BY <1>0, <1>1, <2>1, <2>2, <2>6, <3>1 DEF RequestAt
  <2>7. CASE p.at = "DONE"
    <3>1. p.atyp \in Known => k >= 5
      <4>1. p.atyp \in Known => Len(p.addr) > 0 /\ k = Before(p) + Len(p.addr) + 2
        BY <1>0, <2>7 DEF RequestAt
      <4> QED BY <1>2, <2>3, <2>4, <4>1
    <3> QED BY <1>0, <1>1, <2>1, <2>2, <2>7, <3>1 DEF RequestAt
  <2> QED BY <1>4, <2>5, <2>6, <2>7
<1> QED BY <1>2, <1>3, <1>4 DEF RequestParsers

-----------------------------------------------------------------------------
(* Receiving *)

\* Pieces of sequences.
LEMMA Slice ==
    ASSUME NEW S, NEW s \in Seq(S), NEW a \in Nat, NEW b \in Nat, a <= b, b <= Len(s)
    PROVE  /\ SubSeq(s, a + 1, b) \in Seq(S) /\ Len(SubSeq(s, a + 1, b)) = b - a
           /\ \A i \in 1 .. b - a : SubSeq(s, a + 1, b)[i] = s[a + i]
<1>1. Len(s) \in Nat /\ \A i \in 1 .. Len(s) : s[i] \in S
  OBVIOUS
<1>2. \A i \in a + 1 .. b : s[i] \in S
  BY <1>1
<1>3. a + 1 \in Int /\ b \in Int /\ b - (a + 1) + 1 = b - a
  OBVIOUS
<1>4. /\ SubSeq(s, a + 1, b) \in Seq(S)
      /\ Len(SubSeq(s, a + 1, b)) = IF a + 1 <= b THEN b - (a + 1) + 1 ELSE 0
      /\ \A i \in 1 .. b - (a + 1) + 1 : SubSeq(s, a + 1, b)[i] = s[a + 1 + i - 1]
  BY <1>2, <1>3, SubSeqProperties
<1>5. \A i \in 1 .. b - a : a + 1 + i - 1 = a + i
  OBVIOUS
<1> QED BY <1>3, <1>4, <1>5

LEMMA Joined ==
    ASSUME NEW m \in Seq(Byte), NEW s \in Seq(Byte), NEW b \in Nat, Copied(s, m, b),
           NEW n \in Nat, b + Len(s) + n <= Len(m)
    PROVE  LET t == s \o SubSeq(m, b + Len(s) + 1, b + Len(s) + n) IN
           t \in Seq(Byte) /\ Len(t) = Len(s) + n /\ Copied(t, m, b)
<1> DEFINE e == b + Len(s)
           piece == SubSeq(m, e + 1, e + n)
           t == s \o piece
<1>0. e = b + Len(s)
  OBVIOUS
<1>1. Len(s) \in Nat /\ e \in Nat /\ e + n \in Nat /\ e + n <= Len(m) /\ e <= e + n /\ e + n - e = n
  OBVIOUS
<1> HIDE DEF e
<1>2. piece \in Seq(Byte) /\ Len(piece) = n /\ \A i \in 1 .. n : piece[i] = m[e + i]
  BY <1>1, Slice
<1> HIDE DEF piece
<1>3. /\ t \in Seq(Byte) /\ Len(t) = Len(s) + n
      /\ \A i \in 1 .. Len(s) + n : t[i] = IF i <= Len(s) THEN s[i] ELSE piece[i - Len(s)]
  BY <1>2, ConcatProperties
<1> HIDE DEF t
<1>4. ASSUME NEW i \in 1 .. Len(s) + n PROVE t[i] = m[b + i]
  <2>1. CASE i <= Len(s)
    <3>1. i \in 1 .. Len(s)
      BY <1>1, <2>1
    <3> QED BY <1>3, <2>1, <3>1 DEF Copied
  <2>2. CASE ~(i <= Len(s))
    <3>1. i - Len(s) \in 1 .. n /\ e + (i - Len(s)) = b + i
      BY <1>0, <1>1, <2>2
    <3> QED BY <1>2, <1>3, <2>2, <3>1
  <2> QED BY <2>1, <2>2
<1>5. t \in Seq(Byte) /\ Len(t) = Len(s) + n /\ Copied(t, m, b)
  BY <1>3, <1>4 DEF Copied
<1> QED BY <1>5 DEF t, piece, e

LEMMA LeftOver ==
    ASSUME NEW m, NEW s \in Seq(Byte), NEW b \in Nat, Copied(s, m, b),
           NEW used \in Nat, used <= Len(s)
    PROVE  LET left == SubSeq(s, used + 1, Len(s)) IN
           left \in Seq(Byte) /\ Len(left) = Len(s) - used /\ Copied(left, m, b + used)
<1> DEFINE left == SubSeq(s, used + 1, Len(s))
<1>1. Len(s) \in Nat
  OBVIOUS
<1>2. /\ left \in Seq(Byte) /\ Len(left) = Len(s) - used
      /\ \A i \in 1 .. Len(s) - used : left[i] = s[used + i]
  BY <1>1, Slice
<1> HIDE DEF left
<1>3. ASSUME NEW i \in 1 .. Len(s) - used PROVE left[i] = m[(b + used) + i]
  <2>1. used + i \in 1 .. Len(s) /\ b + (used + i) = (b + used) + i
    BY <1>1
  <2> QED BY <1>2, <2>1 DEF Copied
<1>4. left \in Seq(Byte) /\ Len(left) = Len(s) - used /\ Copied(left, m, b + used)
  BY <1>2, <1>3 DEF Copied
<1> QED BY <1>4 DEF left

\* What the parser is run on when n more bytes have arrived.
Arrived(n) == read_buffer.held \o SubSeq(stream, received + 1, received + n)

LEMMA Positions ==
    ASSUME PositionsOK
    PROVE  /\ stream \in Seq(Byte) /\ Len(stream) \in Nat
           /\ received \in Nat /\ received <= Len(stream)
           /\ read_buffer.held \in Seq(Byte) /\ Len(read_buffer.held) \in Nat
           /\ read_buffer.start \in Nat
           /\ Fed \in Nat /\ Fed + Len(read_buffer.held) = received /\ Fed <= Len(stream)
<1>1. stream \in Seq(Byte) /\ Len(stream) \in Nat
  BY HandshakeAssumption DEF PositionsOK
<1>2. /\ read_buffer.held \in Seq(Byte) /\ Len(read_buffer.held) \in Nat
      /\ read_buffer.start \in Nat
  BY DEF PositionsOK
<1> QED BY <1>1, <1>2 DEF PositionsOK, Fed

LEMMA RestIs ==
    ASSUME PositionsOK, NEW b \in Nat, b <= Len(stream)
    PROVE  /\ Rest(b) \in Seq(Byte) /\ Len(Rest(b)) = Len(stream) - b
           /\ \A i \in 1 .. Len(stream) - b : Rest(b)[i] = stream[b + i]
<1>1. stream \in Seq(Byte) /\ Len(stream) \in Nat
  BY Positions
<1> QED BY <1>1, Slice DEF Rest

LEMMA ArrivedIs ==
    ASSUME PositionsOK, NEW n \in Receivable
    PROVE  /\ n \in Nat /\ n >= 1 /\ n <= Room /\ received + n <= Len(stream)
           /\ Arrived(n) \in Seq(Byte) /\ Len(Arrived(n)) = Len(read_buffer.held) + n
           /\ Copied(Arrived(n), stream, Fed)
<1>1. /\ stream \in Seq(Byte) /\ Len(stream) \in Nat
      /\ received \in Nat /\ received <= Len(stream)
      /\ read_buffer.held \in Seq(Byte) /\ Len(read_buffer.held) \in Nat
      /\ read_buffer.start \in Nat
      /\ Fed \in Nat /\ Fed + Len(read_buffer.held) = received
  BY Positions
<1>2. Room \in Int
  BY <1>1, HandshakeAssumption DEF Room
<1>3. n \in Nat /\ n >= 1 /\ n <= Room /\ received + n <= Len(stream)
  BY <1>1, <1>2 DEF Receivable, Smaller
<1>4. Copied(read_buffer.held, stream, Fed)
  BY DEF PositionsOK
<1> DEFINE s == read_buffer.held
           b == Fed
<1>5. s \in Seq(Byte) /\ stream \in Seq(Byte) /\ b \in Nat /\ n \in Nat
      /\ b + Len(s) = received /\ b + Len(s) + n <= Len(stream) /\ Copied(s, stream, b)
  BY <1>1, <1>3, <1>4
<1>6. Arrived(n) = s \o SubSeq(stream, b + Len(s) + 1, b + Len(s) + n)
  BY <1>5 DEF Arrived
<1> HIDE DEF s, b
<1>7. LET t == s \o SubSeq(stream, b + Len(s) + 1, b + Len(s) + n) IN
      t \in Seq(Byte) /\ Len(t) = Len(s) + n /\ Copied(t, stream, b)
  BY <1>5, Joined
<1>8. Arrived(n) \in Seq(Byte) /\ Len(Arrived(n)) = Len(s) + n /\ Copied(Arrived(n), stream, b)
  BY <1>6, <1>7
<1> QED BY <1>3, <1>8 DEF s, b

LEMMA Receives ==
    ASSUME PositionsOK, NEW n \in Receivable, NEW parsed,
           parsed.used \in 0 .. Len(Arrived(n)), Recv(n, parsed), stream' = stream
    PROVE  /\ PositionsOK' /\ received' \in received + 1 .. Len(stream)
           /\ Fed' = Fed + parsed.used /\ Fed' \in 0 .. Len(stream) /\ Fed <= Fed'
           /\ Fed' <= received'
<1> DEFINE used == parsed.used
           bytes == Arrived(n)
           left == SubSeq(bytes, used + 1, Len(bytes))
           begin == read_buffer.start
           held == Len(read_buffer.held)
           all == Len(bytes)
<1>1. /\ n \in Nat /\ n >= 1 /\ n <= Room /\ received + n <= Len(stream)
      /\ bytes \in Seq(Byte) /\ all = held + n /\ Copied(bytes, stream, Fed)
  BY ArrivedIs
<1>2. /\ stream \in Seq(Byte) /\ Len(stream) \in Nat
      /\ received \in Nat /\ received <= Len(stream)
      /\ held \in Nat /\ begin \in Nat
      /\ Fed \in Nat /\ Fed + held = received
  BY Positions
<1>3. /\ received' = received + n
      /\ read_buffer' = IF used = all THEN [start |-> 0, held |-> <<>>]
                        ELSE [start |-> begin + used, held |-> left]
  BY DEF Recv, Arrived
<1>4. used \in Nat /\ used <= all /\ all \in Nat
  BY <1>1
<1>5. left \in Seq(Byte) /\ Len(left) = all - used /\ Copied(left, stream, Fed + used)
  BY <1>1, <1>2, <1>4, LeftOver
<1>6. begin + held <= received /\ begin + all <= Capacity /\ Capacity \in Nat \ {0}
  <2>1. n <= Capacity - begin - held
    BY <1>1 DEF Room
  <2>2. begin + held <= received
    BY DEF PositionsOK
  <2> HIDE DEF begin, held, all
  <2> QED BY <1>1, <1>2, <2>1, <2>2, HandshakeAssumption
<1>7. stream' \in Streams /\ stream' = stream /\ received' \in 0 .. Len(stream)
  BY <1>1, <1>2, <1>3 DEF PositionsOK
<1> HIDE DEF used, bytes, begin, held, all, left
<1>8. /\ Fed + used \in 0 .. Len(stream) /\ Fed <= Fed + used
      /\ Fed + used <= received' /\ received' \in received + 1 .. Len(stream)
  BY <1>1, <1>2, <1>3, <1>4
<1>9. CASE used = all
  <2>1. read_buffer'.start = 0 /\ read_buffer'.held = <<>> /\ Len(read_buffer'.held) = 0
        /\ read_buffer' \in [start : Nat, held : Seq(Byte)]
    BY <1>3, <1>9
  <2>2. Fed' = received'
    <3>1. Fed' = received' - Len(read_buffer'.held)
      BY DEF Fed
    <3>2. received' \in Nat
      BY <1>1, <1>2, <1>3
    <3>3. Fed' = received' - 0
      BY <2>1, <3>1
    <3>4. \A r \in Nat : r - 0 = r
      OBVIOUS
    <3> QED BY <3>2, <3>3, <3>4
  <2>3. Fed' = Fed + used
    <3>1. Fed' = (Fed + held) + n /\ used = held + n
      BY <1>1, <1>2, <1>3, <1>9, <2>2
    <3>2. \A f, h, m \in Nat : (f + h) + m = f + (h + m)
      OBVIOUS
    <3>3. Fed \in Nat /\ held \in Nat /\ n \in Nat
      BY <1>1, <1>2
    <3> QED BY <3>1, <3>2, <3>3
  <2>4. Copied(read_buffer'.held, stream', Fed')
    BY <2>1 DEF Copied
  <2>5. /\ read_buffer'.start + Len(read_buffer'.held) <= Capacity
        /\ read_buffer'.start + Len(read_buffer'.held) <= received'
    BY <1>1, <1>2, <1>3, <1>6, <2>1
  <2> QED BY <1>7, <1>8, <2>1, <2>3, <2>4, <2>5 DEF PositionsOK, used
<1>10. CASE used # all
  <2>1. /\ read_buffer'.start = begin + used /\ read_buffer'.held = left
        /\ read_buffer' \in [start : Nat, held : Seq(Byte)]
    BY <1>2, <1>3, <1>4, <1>5, <1>10
  <2>2. Fed' = received' - Len(left)
    BY <2>1 DEF Fed
  <2>3. Fed' = Fed + used
    <3>1. Fed' = ((Fed + held) + n) - ((held + n) - used)
      BY <1>1, <1>2, <1>3, <1>5, <2>2
    <3>2. \A f, h, m, u \in Nat : ((f + h) + m) - ((h + m) - u) = f + u
      OBVIOUS
    <3>3. Fed \in Nat /\ held \in Nat /\ n \in Nat /\ used \in Nat
      BY <1>1, <1>2, <1>4
    <3> QED BY <3>1, <3>2, <3>3
  <2>4. Copied(read_buffer'.held, stream', Fed')
    BY <1>5, <1>7, <2>1, <2>3
  <2>5. /\ read_buffer'.start + Len(read_buffer'.held) <= Capacity
        /\ read_buffer'.start + Len(read_buffer'.held) <= received'
    <3>1. read_buffer'.start + Len(read_buffer'.held) = (begin + used) + (all - used)
      BY <1>5, <2>1
    <3> QED BY <1>1, <1>2, <1>3, <1>4, <1>6, <3>1
  <2> QED BY <1>7, <1>8, <2>1, <2>3, <2>4, <2>5 DEF PositionsOK, used
<1> QED BY <1>9, <1>10

\* The k-th byte that the parser is run on, in the message that it reads.
LEMMA Continues ==
    ASSUME PositionsOK, NEW n \in Receivable, NEW b \in Nat, b <= Fed,
           NEW k \in 0 .. Len(Arrived(n)) - 1
    PROVE  /\ Fed - b \in Nat /\ Fed - b + k \in 0 .. Len(Rest(b)) - 1
           /\ Rest(b)[Fed - b + k + 1] = Arrived(n)[k + 1]
<1> DEFINE all == Len(Arrived(n))
           held == Len(read_buffer.held)
           size == Len(stream)
<1>1. /\ n \in Nat /\ received + n <= size /\ all = held + n
      /\ Copied(Arrived(n), stream, Fed)
  BY ArrivedIs
<1>2. /\ received \in Nat /\ held \in Nat /\ size \in Nat /\ Fed \in Nat
      /\ Fed + held = received /\ b <= size
  BY Positions
<1>3. Len(Rest(b)) = size - b /\ \A i \in 1 .. size - b : Rest(b)[i] = stream[b + i]
  BY <1>2, RestIs
<1>4. k + 1 \in 1 .. Len(Arrived(n)) /\ k + 1 <= all /\ k \in Nat
  BY <1>1, <1>2
<1> HIDE DEF all, held, size
<1>5. /\ Fed - b \in Nat /\ Fed - b + k \in 0 .. size - b - 1
      /\ Fed - b + k + 1 \in 1 .. size - b /\ b + (Fed - b + k + 1) = Fed + (k + 1)
  BY <1>1, <1>2, <1>4
<1>6. Arrived(n)[k + 1] = stream[Fed + (k + 1)]
  BY <1>1, <1>4 DEF Copied
<1> QED BY <1>3, <1>5, <1>6

LEMMA RestOfAll ==
    ASSUME PositionsOK
    PROVE  Rest(0) = stream
BY Positions DEF Rest

LEMMA HelloParses ==
    ASSUME NEW n \in Receivable
    PROVE  PositionsOK /\ HelloAt(client, stream, Fed) =>
             /\ Parsed(n).used \in 0 .. Len(Arrived(n))
             /\ HelloAt(Parsed(n).parser, stream, Fed + Parsed(n).used)
<1>0. SUFFICES ASSUME PositionsOK, HelloAt(client, stream, Fed)
               PROVE  /\ Parsed(n).used \in 0 .. Len(Arrived(n))
                      /\ HelloAt(Parsed(n).parser, stream, Fed + Parsed(n).used)
  OBVIOUS
<1> DEFINE at == {x \in Nat \X HelloParsers : HelloAt(x[2], stream, Fed + x[1])}
<1>1. Fed \in Nat /\ Fed + 0 = Fed /\ Fed - 0 = Fed /\ stream \in Seq(Byte)
  BY <1>0, Positions
<1>2. Arrived(n) \in Seq(Byte)
  BY <1>0, ArrivedIs
<1>3. Rest(0) = stream
  BY <1>0, RestOfAll
<1>4. \A q : <<0, q>>[1] = 0 /\ <<0, q>>[2] = q
  OBVIOUS
<1>5. client \in HelloParsers
  BY <1>0 DEF HelloAt
<1>6. <<0, client>> \in at /\ at \in SUBSET (Nat \X HelloParsers)
  BY <1>0, <1>1, <1>4, <1>5
<1>7. ASSUME NEW k \in 0 .. Len(Arrived(n)) - 1, NEW q \in HelloParsers,
             <<k, q>> \in at, ~Over(q)
      PROVE  <<k + 1, Feed(q, Arrived(n)[k + 1])>> \in at
  <2> DEFINE j == Fed + k
             r == Feed(q, Arrived(n)[k + 1])
  <2>1. k \in Nat /\ k + 1 \in Nat /\ Fed + (k + 1) = j + 1
    BY <1>1
  <2>2. j \in 0 .. Len(stream) - 1 /\ stream[j + 1] = Arrived(n)[k + 1]
    BY <1>0, <1>1, <1>3, Continues
  <2>3. HelloAt(q, stream, j)
    BY <1>7
  <2> HIDE DEF j
  <2>4. HelloAt(Feed(q, stream[j + 1]), stream, j + 1)
    BY <1>1, <1>7, <2>2, <2>3, HelloTurn
  <2>5. HelloAt(r, stream, Fed + (k + 1))
    BY <2>1, <2>2, <2>4
  <2>6. r \in HelloParsers
    BY <2>5 DEF HelloAt
  <2> HIDE DEF r
  <2>7. <<k + 1, r>> \in at
    BY <2>1, <2>5, <2>6
  <2> QED BY <2>7 DEF r
<1> HIDE DEF at
<1> DEFINE t == Consume(client, Arrived(n))
<1>8. t.used \in 0 .. Len(Arrived(n)) /\ <<t.used, t.parser>> \in at
  BY <1>2, <1>6, <1>7, Consumed
<1>9. Parsed(n) = t
  BY DEF Parsed, Arrived
<1> QED BY <1>8, <1>9 DEF at

LEMMA AuthParses ==
    ASSUME NEW n \in Receivable, NEW b \in Nat
    PROVE  PositionsOK /\ b <= Fed /\ AuthAt(client, Rest(b), Fed - b) =>
             /\ Parsed(n).used \in 0 .. Len(Arrived(n))
             /\ AuthAt(Parsed(n).parser, Rest(b), Fed - b + Parsed(n).used)
<1>0. SUFFICES ASSUME PositionsOK, b <= Fed, AuthAt(client, Rest(b), Fed - b)
               PROVE  /\ Parsed(n).used \in 0 .. Len(Arrived(n))
                      /\ AuthAt(Parsed(n).parser, Rest(b), Fed - b + Parsed(n).used)
  OBVIOUS
<1> DEFINE from == Fed - b
           at == {x \in Nat \X AuthParsers : AuthAt(x[2], Rest(b), from + x[1])}
<1>1. Fed \in Nat /\ from \in Nat /\ from + 0 = from /\ b <= Len(stream)
  BY <1>0, Positions
<1>2. Rest(b) \in Seq(Byte)
  BY <1>0, <1>1, RestIs
<1>3. Arrived(n) \in Seq(Byte)
  BY <1>0, ArrivedIs
<1>4. \A q : <<0, q>>[1] = 0 /\ <<0, q>>[2] = q
  OBVIOUS
<1>5. client \in AuthParsers /\ AuthAt(client, Rest(b), from)
  BY <1>0 DEF AuthAt
<1>6. ASSUME NEW k \in 0 .. Len(Arrived(n)) - 1
      PROVE from + k \in 0 .. Len(Rest(b)) - 1 /\ Rest(b)[from + k + 1] = Arrived(n)[k + 1]
  BY <1>0, Continues
<1> HIDE DEF from
<1>7. <<0, client>> \in at /\ at \in SUBSET (Nat \X AuthParsers)
  BY <1>1, <1>4, <1>5
<1>8. ASSUME NEW k \in 0 .. Len(Arrived(n)) - 1, NEW q \in AuthParsers,
             <<k, q>> \in at, ~Over(q)
      PROVE  <<k + 1, Feed(q, Arrived(n)[k + 1])>> \in at
  <2> DEFINE j == from + k
             r == Feed(q, Arrived(n)[k + 1])
  <2>1. k \in Nat /\ k + 1 \in Nat /\ from + (k + 1) = j + 1
    BY <1>1
  <2>2. j \in 0 .. Len(Rest(b)) - 1 /\ Rest(b)[j + 1] = Arrived(n)[k + 1]
    BY <1>6
  <2>3. AuthAt(q, Rest(b), j)
    BY <1>8
  <2> HIDE DEF j
  <2>4. AuthAt(Feed(q, Rest(b)[j + 1]), Rest(b), j + 1)
    BY <1>2, <1>8, <2>2, <2>3, AuthTurn
  <2>5. AuthAt(r, Rest(b), from + (k + 1))
    BY <2>1, <2>2, <2>4
  <2>6. r \in AuthParsers
    BY <2>5 DEF AuthAt
  <2> HIDE DEF r
  <2>7. <<k + 1, r>> \in at
    BY <2>1, <2>5, <2>6
  <2> QED BY <2>7 DEF r
<1> HIDE DEF at
<1> DEFINE t == Consume(client, Arrived(n))
<1>9. t.used \in 0 .. Len(Arrived(n)) /\ <<t.used, t.parser>> \in at
  BY <1>3, <1>7, <1>8, Consumed
<1>10. Parsed(n) = t
  BY DEF Parsed, Arrived
<1> QED BY <1>9, <1>10 DEF at, from

LEMMA RequestParses ==
    ASSUME NEW n \in Receivable, NEW b \in Nat
    PROVE  PositionsOK /\ b <= Fed /\ RequestAt(client, Rest(b), Fed - b) =>
             /\ Parsed(n).used \in 0 .. Len(Arrived(n))
             /\ RequestAt(Parsed(n).parser, Rest(b), Fed - b + Parsed(n).used)
<1>0. SUFFICES ASSUME PositionsOK, b <= Fed, RequestAt(client, Rest(b), Fed - b)
               PROVE  /\ Parsed(n).used \in 0 .. Len(Arrived(n))
                      /\ RequestAt(Parsed(n).parser, Rest(b), Fed - b + Parsed(n).used)
  OBVIOUS
<1> DEFINE from == Fed - b
           at == {x \in Nat \X RequestParsers : RequestAt(x[2], Rest(b), from + x[1])}
<1>1. Fed \in Nat /\ from \in Nat /\ from + 0 = from /\ b <= Len(stream)
  BY <1>0, Positions
<1>2. Rest(b) \in Seq(Byte)
  BY <1>0, <1>1, RestIs
<1>3. Arrived(n) \in Seq(Byte)
  BY <1>0, ArrivedIs
<1>4. \A q : <<0, q>>[1] = 0 /\ <<0, q>>[2] = q
  OBVIOUS
<1>5. client \in RequestParsers /\ RequestAt(client, Rest(b), from)
  BY <1>0 DEF RequestAt
<1>6. ASSUME NEW k \in 0 .. Len(Arrived(n)) - 1
      PROVE from + k \in 0 .. Len(Rest(b)) - 1 /\ Rest(b)[from + k + 1] = Arrived(n)[k + 1]
  BY <1>0, Continues
<1> HIDE DEF from
<1>7. <<0, client>> \in at /\ at \in SUBSET (Nat \X RequestParsers)
  BY <1>1, <1>4, <1>5
<1>8. ASSUME NEW k \in 0 .. Len(Arrived(n)) - 1, NEW q \in RequestParsers,
             <<k, q>> \in at, ~Over(q)
      PROVE  <<k + 1, Feed(q, Arrived(n)[k + 1])>> \in at
  <2> DEFINE j == from + k
             r == Feed(q, Arrived(n)[k + 1])
  <2>1. k \in Nat /\ k + 1 \in Nat /\ from + (k + 1) = j + 1
    BY <1>1
  <2>2. j \in 0 .. Len(Rest(b)) - 1 /\ Rest(b)[j + 1] = Arrived(n)[k + 1]
    BY <1>6
  <2>3. RequestAt(q, Rest(b), j)
    BY <1>8
  <2> HIDE DEF j
  <2>4. RequestAt(Feed(q, Rest(b)[j + 1]), Rest(b), j + 1)
    BY <1>2, <1>8, <2>2, <2>3, RequestTurn
  <2>5. RequestAt(r, Rest(b), from + (k + 1))
    BY <2>1, <2>2, <2>4
  <2>6. r \in RequestParsers
    BY <2>5 DEF RequestAt
  <2> HIDE DEF r
  <2>7. <<k + 1, r>> \in at
    BY <2>1, <2>5, <2>6
  <2> QED BY <2>7 DEF r
<1> HIDE DEF at
<1> DEFINE t == Consume(client, Arrived(n))
<1>9. t.used \in 0 .. Len(Arrived(n)) /\ <<t.used, t.parser>> \in at
  BY <1>3, <1>7, <1>8, Consumed
<1>10. Parsed(n) = t
  BY DEF Parsed, Arrived
<1> QED BY <1>9, <1>10 DEF at, from

-----------------------------------------------------------------------------
(* Sending *)

\* When n bytes of b are sent after w, w becomes v and b becomes c ...
Cut(w, b, n, v, c) == v = w \o SubSeq(b, 1, n) /\ c = SubSeq(b, n + 1, Len(b))

\* ... which are as much together, and more has been sent.
CutOK(w, b, n, v, c) ==
    /\ v \in Seq(Int) /\ c \in Seq(Int) /\ v \o c = w \o b
    /\ n < Len(b) => c # <<>>
    /\ ~(n < Len(b)) => v = w \o b /\ c = <<>>
    /\ Len(w) <= Len(v) /\ \A i \in 1 .. Len(w) : v[i] = w[i]
    /\ Len(v) \in Len(w) + 1 .. Len(w \o b)
    /\ v = SubSeq(w \o b, 1, Len(v))

LEMMA Sent ==
    ASSUME NEW w \in Seq(Int), NEW b \in Seq(Int), NEW n \in 1 .. Len(b), NEW v, NEW c
    PROVE  Cut(w, b, n, v, c) => CutOK(w, b, n, v, c)
<1>0. SUFFICES ASSUME v = w \o SubSeq(b, 1, n), c = SubSeq(b, n + 1, Len(b))
               PROVE  CutOK(w, b, n, v, c)
  BY DEF Cut
<1> DEFINE lw == Len(w)
           lb == Len(b)
           piece == SubSeq(b, 1, n)
           all == w \o b
<1>1. lw \in Nat /\ lb \in Nat /\ n \in Nat /\ n >= 1 /\ n <= lb
  OBVIOUS
<1>2. /\ piece \in Seq(Int) /\ Len(piece) = n /\ \A i \in 1 .. n : piece[i] = b[i]
  <2>1. /\ SubSeq(b, 0 + 1, n) \in Seq(Int) /\ Len(SubSeq(b, 0 + 1, n)) = n - 0
        /\ \A i \in 1 .. n - 0 : SubSeq(b, 0 + 1, n)[i] = b[0 + i]
    <3>1. 0 \in Nat /\ 0 <= n
      BY <1>1
    <3> QED BY <1>1, <3>1, Slice
  <2>2. 0 + 1 = 1 /\ n - 0 = n /\ \A i \in 1 .. n : 0 + i = i
    BY <1>1
  <2> QED BY <2>1, <2>2
<1>3. /\ c \in Seq(Int) /\ Len(c) = lb - n /\ \A i \in 1 .. lb - n : c[i] = b[n + i]
  BY <1>0, <1>1, Slice
<1>4. /\ v \in Seq(Int) /\ Len(v) = lw + n
      /\ \A i \in 1 .. lw + n : v[i] = IF i <= lw THEN w[i] ELSE piece[i - lw]
  <2>1. v = w \o piece
    BY <1>0
  <2> HIDE DEF piece, lw
  <2>2. /\ w \o piece \in Seq(Int) /\ Len(w \o piece) = Len(w) + Len(piece)
        /\ \A i \in 1 .. Len(w) + Len(piece) :
             (w \o piece)[i] = IF i <= Len(w) THEN w[i] ELSE piece[i - Len(w)]
    BY <1>2, ConcatProperties
  <2> QED BY <1>2, <2>1, <2>2 DEF lw
<1>5. /\ all \in Seq(Int) /\ Len(all) = lw + lb
      /\ \A i \in 1 .. lw + lb : all[i] = IF i <= lw THEN w[i] ELSE b[i - lw]
  BY ConcatProperties
<1> HIDE DEF all, piece, lw, lb
<1>6. lw <= Len(v) /\ \A i \in 1 .. lw : v[i] = w[i]
  BY <1>1, <1>4
<1>7. Len(v) \in lw + 1 .. Len(all)
  BY <1>1, <1>4, <1>5
<1>8. \A i \in 1 .. lw + n : v[i] = all[i]
  <2> TAKE i \in 1 .. lw + n
  <2>1. i \in 1 .. lw + lb
    BY <1>1, <1>4
  <2>2. CASE i <= lw
    BY <1>4, <1>5, <2>1, <2>2
  <2>3. CASE ~(i <= lw)
    <3>1. i - lw \in 1 .. n
      BY <1>1, <2>1, <2>3
    <3> QED BY <1>2, <1>4, <1>5, <2>1, <2>3, <3>1
  <2> QED BY <2>2, <2>3
<1>9. v = SubSeq(all, 1, Len(v))
  <2> DEFINE l == lw + n
             first == SubSeq(all, 0 + 1, l)
  <2>1. l \in Nat /\ 0 \in Nat /\ 0 <= l /\ l <= Len(all)
    BY <1>1, <1>5
  <2> HIDE DEF l
  <2>2. /\ first \in Seq(Int) /\ Len(first) = l - 0
        /\ \A i \in 1 .. l - 0 : first[i] = all[0 + i]
    <3>1. all \in Seq(Int)
      BY <1>5
    <3> HIDE DEF first
    <3> QED BY <2>1, <3>1, Slice DEF first
  <2>3. l - 0 = l /\ \A i \in 1 .. l : 0 + i = i
    BY <2>1
  <2>4. first = SubSeq(all, 1, l)
    OBVIOUS
  <2> HIDE DEF first
  <2>5. Len(first) = l /\ \A i \in 1 .. l : first[i] = all[i]
    BY <2>2, <2>3
  <2>6. Len(v) = Len(first) /\ \A i \in 1 .. Len(v) : v[i] = first[i]
    BY <1>4, <1>8, <2>5 DEF l
  <2>7. first = v
    BY <1>4, <2>2, <2>6, SeqEqual
  <2> QED BY <1>4, <2>4, <2>7 DEF l
<1>10. v \o c = all
  <2> DEFINE t == v \o c
             lv == Len(v)
             lc == Len(c)
  <2>1. lv = lw + n /\ lc = lb - n
    BY <1>3, <1>4
  <2>2. /\ t \in Seq(Int) /\ Len(t) = lv + lc
        /\ \A i \in 1 .. lv + lc : t[i] = IF i <= lv THEN v[i] ELSE c[i - lv]
    BY <1>3, <1>4, ConcatProperties
  <2> HIDE DEF t, lv, lc
  <2>3. lv + lc = lw + lb
    BY <1>1, <2>1
  <2>4. ASSUME NEW i \in 1 .. lw + lb PROVE t[i] = all[i]
    <3>1. CASE i <= lv
      <4>1. i \in 1 .. lw + n
        BY <1>1, <2>1, <3>1
      <4> QED BY <1>8, <2>2, <2>3, <3>1, <4>1
    <3>2. CASE ~(i <= lv)
      <4>1. i - lv \in 1 .. lb - n /\ n + (i - lv) = i - lw /\ ~(i <= lw)
        BY <1>1, <2>1, <3>2
      <4>2. t[i] = c[i - lv]
        BY <2>2, <2>3, <3>2
      <4>3. c[i - lv] = b[i - lw]
        BY <1>3, <4>1
      <4> QED BY <1>5, <4>1, <4>2, <4>3
    <3> QED BY <3>1, <3>2
  <2>5. Len(t) = Len(all) /\ \A i \in 1 .. Len(t) : t[i] = all[i]
    BY <1>5, <2>2, <2>3, <2>4
  <2>6. t = all
    BY <1>5, <2>2, <2>5, SeqEqual
  <2> QED BY <2>6 DEF t
<1>11. n < lb => c # <<>>
  <2> SUFFICES ASSUME n < lb, c = <<>> PROVE FALSE
    OBVIOUS
  <2>1. Len(c) = 0
    OBVIOUS
  <2> QED BY <1>1, <1>3, <2>1
<1>12. ~(n < lb) => v = all /\ c = <<>>
  <2> SUFFICES ASSUME ~(n < lb) PROVE v = all /\ c = <<>>
    OBVIOUS
  <2>1. lb - n = 0
    BY <1>1
  <2>2. c = <<>>
    BY <1>3, <2>1
  <2>3. v \o <<>> = v
    BY <1>4, ConcatEmptySeq
  <2> QED BY <1>10, <2>2, <2>3
<1> QED BY <1>3, <1>4, <1>6, <1>7, <1>9, <1>10, <1>11, <1>12 DEF all, lw, lb, CutOK

-----------------------------------------------------------------------------
(* What has been heard remains heard *)

LEMMA Methods ==
    ASSUME NEW m
    PROVE  /\ MethodChosen(m) \in {USERPASS, NOAUTH, UNACCEPTABLE}
           /\ USERPASS \in Int /\ NOAUTH \in Int /\ UNACCEPTABLE \in Int
           /\ USERPASS # NOAUTH /\ USERPASS # UNACCEPTABLE /\ NOAUTH # UNACCEPTABLE
BY DEF MethodChosen, USERPASS, NOAUTH, UNACCEPTABLE

LEMMA GreetedIs ==
    PositionsOK /\ Greeted =>
      /\ HelloEnd \in Nat /\ HelloEnd <= Fed /\ HelloEnd <= Len(stream)
      /\ AuthMessage \in Seq(Byte) /\ Len(AuthMessage) = Len(stream) - HelloEnd
<1> SUFFICES ASSUME PositionsOK, Greeted
             PROVE  /\ HelloEnd \in Nat /\ HelloEnd <= Fed /\ HelloEnd <= Len(stream)
                    /\ AuthMessage \in Seq(Byte) /\ Len(AuthMessage) = Len(stream) - HelloEnd
  OBVIOUS
<1>1. stream \in Seq(Byte) /\ Fed \in Nat /\ Fed <= Len(stream) /\ Len(stream) \in Nat
  BY Positions
<1>2. Len(stream) >= 2 /\ HelloEnd <= Fed
  BY DEF Greeted, HelloWhole
<1>3. stream[2] \in Nat
  BY <1>1, <1>2, ElementOf
<1>4. HelloEnd \in Nat
  BY <1>3 DEF HelloEnd, HelloLength
<1>5. HelloEnd <= Len(stream)
  BY <1>1, <1>2, <1>4
<1>6. Rest(HelloEnd) \in Seq(Byte) /\ Len(Rest(HelloEnd)) = Len(stream) - HelloEnd
  BY <1>4, <1>5, RestIs
<1> QED BY <1>2, <1>4, <1>5, <1>6 DEF AuthMessage

LEMMA NamedIs ==
    PositionsOK /\ Named => AuthEnd \in Nat /\ HelloEnd <= AuthEnd /\ AuthEnd <= Fed
<1> SUFFICES ASSUME PositionsOK, Named
             PROVE  AuthEnd \in Nat /\ HelloEnd <= AuthEnd /\ AuthEnd <= Fed
  OBVIOUS
<1> DEFINE m == AuthMessage
           l == Len(m)
<1>1. HelloEnd \in Nat /\ m \in Seq(Byte) /\ l \in Nat
  BY GreetedIs DEF Named
<1>2. AuthWhole(m) /\ AuthEnd <= Fed
  BY DEF Named
<1>3. l >= 2 /\ l >= 3 + m[2]
  BY <1>2 DEF AuthWhole, AuthKnown
<1>4. m[2] \in Nat
  BY <1>1, <1>3, ElementOf
<1>5. m[3 + m[2]] \in Nat
  <2>1. 3 + m[2] \in Int /\ 3 + m[2] >= 1
    BY <1>4
  <2> QED BY <1>1, <1>3, <2>1, ElementOf
<1>6. AuthLength(m) \in Nat
  BY <1>4, <1>5 DEF AuthLength
<1> HIDE DEF m, l
<1>7. AuthEnd = HelloEnd + AuthLength(m)
  BY DEF AuthEnd, m
<1> HIDE DEF HelloEnd
<1> QED BY <1>1, <1>2, <1>6, <1>7

LEMMA PhasesKept ==
    ASSUME stream' = stream
    PROVE  /\ HelloEnd' = HelloEnd /\ AuthMessage' = AuthMessage /\ AuthEnd' = AuthEnd
           /\ Granted' <=> Granted
           /\ RequestBegin' = RequestBegin /\ Welcome' = Welcome
           /\ \A b : Rest(b)' = Rest(b)
<1>1. \A b : Rest(b)' = Rest(b)
  BY DEF Rest
<1>2. HelloEnd' = HelloEnd
  BY DEF HelloEnd
<1>3. AuthMessage' = AuthMessage
  BY <1>1, <1>2 DEF AuthMessage
<1>4. AuthEnd' = AuthEnd
  BY <1>2, <1>3 DEF AuthEnd
<1>5. Granted' <=> Granted
  BY <1>3 DEF Granted
<1>6. RequestBegin' = RequestBegin /\ Welcome' = Welcome
  BY <1>2, <1>4 DEF RequestBegin, Welcome
<1> QED BY <1>1, <1>2, <1>3, <1>4, <1>5, <1>6

LEMMA HeardKept ==
    ASSUME PositionsOK, PositionsOK', stream' = stream, Fed <= Fed'
    PROVE  /\ Greeted => Greeted'
           /\ Named => Named'
           /\ Admitted /\ username' = username => Admitted'
<1>1. Fed \in Nat /\ Fed' \in Int
  BY Positions DEF PositionsOK, Fed
<1>2. Greeted => Greeted'
  <2> SUFFICES ASSUME Greeted PROVE Greeted'
    OBVIOUS
  <2>1. HelloEnd \in Nat /\ HelloEnd <= Fed
    BY GreetedIs
  <2>2. HelloEnd <= Fed'
    BY <1>1, <2>1
  <2> QED BY <2>2, PhasesKept DEF Greeted
<1>3. Named => Named'
  <2> SUFFICES ASSUME Named PROVE Named'
    OBVIOUS
  <2>1. AuthEnd \in Nat /\ AuthEnd <= Fed
    BY NamedIs
  <2>2. AuthEnd <= Fed'
    BY <1>1, <2>1
  <2>3. /\ Greeted' /\ MethodChosen(stream') = USERPASS
        /\ AuthWhole(AuthMessage') /\ AuthEnd' <= Fed'
    BY <1>2, <2>2, PhasesKept DEF Named
  <2> QED BY <2>3 DEF Named
<1>4. Admitted /\ username' = username => Admitted'
  <2> SUFFICES ASSUME Admitted, username' = username PROVE Admitted'
    OBVIOUS
  <2>1. CASE Greeted /\ MethodChosen(stream) = NOAUTH /\ username = DASH
    BY <1>2, <2>1 DEF Admitted
  <2>2. CASE Named /\ Granted /\ username = Text(Name(AuthMessage))
    <3>1. Named' /\ Granted' /\ username' = Text(Name(AuthMessage'))
      BY <1>3, <2>2, PhasesKept
    <3> QED BY <3>1 DEF Admitted
  <2> QED BY <2>1, <2>2 DEF Admitted
<1> QED BY <1>2, <1>3, <1>4

\* The request begins where what was heard before it ends.
LEMMA AdmittedIs ==
    PositionsOK /\ Admitted =>
      /\ RequestBegin \in Nat /\ RequestBegin <= Fed
      /\ MethodChosen(stream) # UNACCEPTABLE
      /\ MethodChosen(stream) = USERPASS => RequestBegin = AuthEnd
      /\ MethodChosen(stream) # USERPASS => RequestBegin = HelloEnd
<1> SUFFICES ASSUME PositionsOK, Admitted
             PROVE  /\ RequestBegin \in Nat /\ RequestBegin <= Fed
                    /\ MethodChosen(stream) # UNACCEPTABLE
                    /\ MethodChosen(stream) = USERPASS => RequestBegin = AuthEnd
                    /\ MethodChosen(stream) # USERPASS => RequestBegin = HelloEnd
  OBVIOUS
<1>1. CASE Greeted /\ MethodChosen(stream) = NOAUTH
  BY <1>1, GreetedIs, Methods DEF RequestBegin
<1>2. CASE Named
  BY <1>2, NamedIs, Methods DEF RequestBegin, Named
<1> QED BY <1>1, <1>2 DEF Admitted

-----------------------------------------------------------------------------
(* Every action keeps the invariant *)

LEMMA Unmoved ==
    ASSUME UNCHANGED <<stream, received, read_buffer>>
    PROVE  Fed' = Fed /\ (PositionsOK => PositionsOK')
BY DEF Fed, PositionsOK, Copied

LEMMA Start == Init => IInv
<1> SUFFICES ASSUME Init PROVE IInv
  OBVIOUS
<1>1. PositionsOK
  <2>1. stream \in Seq(Byte) /\ Len(stream) \in Nat /\ stream \in Streams
    BY HandshakeAssumption DEF Init
  <2>2. <<>> \in Seq(Byte) /\ Len(<<>>) = 0
    OBVIOUS
  <2>3. read_buffer \in [start : Nat, held : Seq(Byte)]
        /\ read_buffer.start = 0 /\ read_buffer.held = <<>> /\ received = 0
    BY <2>2 DEF Init
  <2> QED BY <2>1, <2>2, <2>3, HandshakeAssumption DEF PositionsOK, Copied
<1>2. SentOK
  BY DEF Init, SentOK
<1>3. Fed = 0
  <2>1. received = 0 /\ read_buffer.held = <<>> /\ Len(<<>>) = 0
    BY DEF Init
  <2>2. Fed = 0 - 0
    BY <2>1 DEF Fed
  <2> QED BY <2>2
<1>4. HelloAt(client, stream, Fed) /\ ~Over(client)
  BY <1>3, HelloBegins DEF Init, HelloInit, Over
<1>5. InHelloRead
  BY <1>4 DEF Init, InHelloRead, Unlogged
<1>6. StateOK
  BY <1>5 DEF Init, StateOK, States
<1> QED BY <1>1, <1>2, <1>6 DEF IInv

\* What the three handlers that read have in common.
Advanced ==
    /\ PositionsOK' /\ received' \in received + 1 .. Len(stream)
    /\ Fed' \in 0 .. Len(stream) /\ Fed <= Fed' /\ Fed' <= received'
    /\ stream' = stream /\ hung' = hung /\ wire' = wire

\* hello_read makes p of its parser.
HelloReadAs(p) ==
    /\ Advanced /\ UNCHANGED <<username, requested_destination, request_logged, entries>>
    /\ HelloAt(p, stream, Fed')
    /\ \/ ~Over(p) /\ ParseMore(p)
       \/ p.at = "ERROR" /\ ParseError(p)
       \/ p.at = "DONE" /\ client' = p /\ hello_marshall(p.method) /\ state' = "HELLO_WRITE"

LEMMA HelloReads == PositionsOK /\ InHelloRead /\ HelloRead => \E p : HelloReadAs(p)
<1> SUFFICES ASSUME PositionsOK, InHelloRead, HelloRead PROVE \E p : HelloReadAs(p)
  OBVIOUS
<1>1. PICK n \in Receivable : LET p == Parsed(n).parser IN
        /\ Recv(n, Parsed(n))
        /\ \/ ~Over(p) /\ ParseMore(p)
           \/ p.at = "ERROR" /\ ParseError(p)
           \/ p.at = "DONE" /\ client' = p /\ hello_marshall(p.method) /\ state' = "HELLO_WRITE"
  BY DEF HelloRead
<1> DEFINE p == Parsed(n).parser
           used == Parsed(n).used
<1>2. used \in 0 .. Len(Arrived(n)) /\ HelloAt(p, stream, Fed + used)
  BY HelloParses DEF InHelloRead
<1>3. stream' = stream /\ hung' = hung /\ wire' = wire
      /\ UNCHANGED <<username, requested_destination, request_logged, entries>>
  BY DEF HelloRead, peer, log
<1>4. Advanced /\ Fed' = Fed + used
  BY <1>1, <1>2, <1>3, Receives DEF Advanced
<1>5. HelloReadAs(p)
  BY <1>1, <1>2, <1>3, <1>4 DEF HelloReadAs
<1> QED BY <1>5

LEMMA HelloReadKeeps == IInv /\ HelloRead => IInv'
<1> SUFFICES ASSUME IInv, HelloRead PROVE IInv'
  OBVIOUS
<1>1. PositionsOK /\ SentOK /\ InHelloRead /\ hung \in BOOLEAN /\ request_logged \in BOOLEAN
  BY DEF IInv, StateOK, HelloRead
<1>2. PICK p : HelloReadAs(p)
  BY <1>1, HelloReads
<1>3. /\ PositionsOK' /\ Fed' \in 0 .. Len(stream) /\ stream \in Seq(Byte)
      /\ stream' = stream /\ hung' = hung /\ wire' = wire
      /\ UNCHANGED <<username, requested_destination, request_logged, entries>>
  BY <1>1, <1>2, Positions DEF HelloReadAs, Advanced
<1>9. HelloAt(p, stream, Fed')
  BY <1>2 DEF HelloReadAs
<1>4. wire = <<>> /\ write_buffer = <<>> /\ username = DASH /\ Unlogged
  BY <1>1 DEF InHelloRead
<1>5. Unlogged'
  BY <1>3, <1>4 DEF Unlogged
<1>6. CASE ~Over(p) /\ ParseMore(p)
  <2>1. client' = p /\ state' = "HELLO_READ" /\ write_buffer' = write_buffer
    BY <1>6 DEF ParseMore, HelloRead
  <2>2. InHelloRead'
    BY <1>9, <1>3, <1>4, <1>5, <1>6, <2>1 DEF InHelloRead
  <2>3. SentOK'
    BY <1>1, <1>3, <2>1 DEF SentOK
  <2> QED BY <1>1, <1>3, <2>1, <2>2, <2>3 DEF IInv, StateOK, States
<1>7. CASE p.at = "ERROR" /\ ParseError(p)
  <2>1. state' = "CLOSED" /\ write_buffer' = write_buffer
    BY <1>7 DEF ParseError
  <2>2. SentOK'
    BY <1>1, <1>3, <2>1 DEF SentOK
  <2> QED BY <1>1, <1>3, <2>1, <2>2 DEF IInv, StateOK, States
<1>8. CASE p.at = "DONE" /\ client' = p /\ hello_marshall(p.method) /\ state' = "HELLO_WRITE"
  <2>1. HelloWhole(stream) /\ HelloLength(stream) = Fed' /\ p.method = MethodChosen(stream)
    BY <1>9, <1>3, <1>8, HelloFound
  <2>2. p \in HelloParsers /\ p.method \in Int
    BY <1>9, <2>1, Methods DEF HelloAt
  <2>3. write_buffer' = <<5, p.method>>
    BY <1>4, <1>8 DEF hello_marshall
  <2>4. wire' \o write_buffer' = <<5, p.method>> /\ write_buffer' # <<>>
    BY <1>3, <1>4, <2>2, <2>3
  <2>5. Greeted' /\ Fed' = HelloEnd'
    <3>1. Fed' \in Nat
      BY <1>3
    <3> QED BY <1>3, <2>1, <3>1 DEF Greeted, HelloEnd
  <2>6. InHelloWrite'
    BY <1>3, <1>4, <1>5, <1>8, <2>1, <2>2, <2>4, <2>5 DEF InHelloWrite
  <2>7. SentOK'
    BY <1>3, <1>4, <2>2, <2>3 DEF SentOK
  <2> QED BY <1>1, <1>3, <1>8, <2>6, <2>7 DEF IInv, StateOK, States
<1> QED BY <1>2, <1>6, <1>7, <1>8 DEF HelloReadAs

\* Two answers of two bytes each.
LEMMA Pairs ==
    ASSUME NEW a \in Int, NEW b \in Int, NEW c \in Int, NEW d \in Int
    PROVE  <<a, b>> \o <<c, d>> = <<a, b, c, d>>
<1> DEFINE s == <<a, b>>
           t == <<c, d>>
           u == <<a, b, c, d>>
           v == s \o t
<1>1. /\ s \in Seq(Int) /\ Len(s) = 2 /\ s[1] = a /\ s[2] = b
      /\ t \in Seq(Int) /\ Len(t) = 2 /\ t[1] = c /\ t[2] = d
  OBVIOUS
<1>2. u \in Seq(Int) /\ Len(u) = 4 /\ u[1] = a /\ u[2] = b /\ u[3] = c /\ u[4] = d
  OBVIOUS
<1> HIDE DEF s, t, u
<1>3. /\ v \in Seq(Int) /\ Len(v) = Len(s) + Len(t)
      /\ \A i \in 1 .. Len(s) + Len(t) : v[i] = IF i <= Len(s) THEN s[i] ELSE t[i - Len(s)]
  BY <1>1, ConcatProperties
<1> HIDE DEF v
<1>4. Len(v) = 4 /\ \A i \in 1 .. 4 : v[i] = IF i <= 2 THEN s[i] ELSE t[i - 2]
  BY <1>1, <1>3
<1>5. v[1] = a /\ v[2] = b /\ v[3] = c /\ v[4] = d
  BY <1>1, <1>4
<1>6. \A i \in 1 .. Len(v) : v[i] = u[i]
  BY <1>2, <1>4, <1>5
<1>7. v = u
  BY <1>2, <1>3, <1>4, <1>6, SeqEqual
<1> QED BY <1>7 DEF s, t, u, v

\* auth_read makes p of its parser.
AuthReadAs(p) ==
    /\ Advanced /\ UNCHANGED <<requested_destination, request_logged, entries>>
    /\ AuthAt(p, AuthMessage, Fed' - HelloEnd)
    /\ LET granted == <<p.username, p.password>> \in Users IN
       \/ ~Over(p) /\ ParseMore(p) /\ UNCHANGED username
       \/ p.at = "ERROR" /\ ParseError(p) /\ UNCHANGED username
       \/ /\ p.at = "DONE"
          /\ client' = [p EXCEPT !.authorized = granted]
          /\ username' = IF granted THEN Text(p.username) ELSE username
          /\ auth_marshall(IF granted THEN 0 ELSE 1)
          /\ state' = "AUTH_WRITE"

LEMMA AuthReads == PositionsOK /\ InAuthRead /\ AuthRead => \E p : AuthReadAs(p)
<1> SUFFICES ASSUME PositionsOK, InAuthRead, AuthRead PROVE \E p : AuthReadAs(p)
  OBVIOUS
<1>1. PICK n \in Receivable :
        LET p == Parsed(n).parser
            granted == <<p.username, p.password>> \in Users
        IN  /\ Recv(n, Parsed(n))
            /\ \/ ~Over(p) /\ ParseMore(p) /\ UNCHANGED username
               \/ p.at = "ERROR" /\ ParseError(p) /\ UNCHANGED username
               \/ /\ p.at = "DONE"
                  /\ client' = [p EXCEPT !.authorized = granted]
                  /\ username' = IF granted THEN Text(p.username) ELSE username
                  /\ auth_marshall(IF granted THEN 0 ELSE 1)
                  /\ state' = "AUTH_WRITE"
  BY DEF AuthRead
<1> DEFINE p == Parsed(n).parser
           used == Parsed(n).used
<1>2. HelloEnd \in Nat /\ HelloEnd <= Fed /\ AuthMessage = Rest(HelloEnd)
  BY GreetedIs DEF InAuthRead, AuthMessage
<1>3. used \in 0 .. Len(Arrived(n)) /\ AuthAt(p, AuthMessage, Fed - HelloEnd + used)
  BY <1>2, AuthParses DEF InAuthRead
<1>4. stream' = stream /\ hung' = hung /\ wire' = wire
      /\ UNCHANGED <<requested_destination, request_logged, entries>>
  BY DEF AuthRead, peer
<1>5. Advanced /\ Fed' = Fed + used
  BY <1>1, <1>3, <1>4, Receives DEF Advanced
<1>6. Fed - HelloEnd + used = Fed' - HelloEnd
  <2>1. used \in Nat /\ Fed \in Nat
    BY <1>3, Positions
  <2> QED BY <1>2, <1>5, <2>1
<1>7. AuthReadAs(p)
  BY <1>1, <1>3, <1>4, <1>5, <1>6 DEF AuthReadAs
<1> QED BY <1>7

LEMMA AuthReadKeeps == IInv /\ AuthRead => IInv'
<1> SUFFICES ASSUME IInv, AuthRead PROVE IInv'
  OBVIOUS
<1>1. PositionsOK /\ SentOK /\ InAuthRead /\ hung \in BOOLEAN /\ request_logged \in BOOLEAN
  BY DEF IInv, StateOK, AuthRead
<1>2. PICK p : AuthReadAs(p)
  BY <1>1, AuthReads
<1>3. /\ PositionsOK' /\ Fed' \in 0 .. Len(stream) /\ Fed <= Fed'
      /\ stream' = stream /\ hung' = hung /\ wire' = wire
      /\ UNCHANGED <<requested_destination, request_logged, entries>>
      /\ AuthAt(p, AuthMessage, Fed' - HelloEnd)
  BY <1>2 DEF AuthReadAs, Advanced
<1>4. /\ Greeted /\ MethodChosen(stream) = USERPASS
      /\ wire = <<5, USERPASS>> /\ write_buffer = <<>> /\ username = DASH /\ Unlogged
  BY <1>1 DEF InAuthRead
<1>5. Unlogged' /\ Greeted' /\ HelloEnd' = HelloEnd /\ AuthMessage' = AuthMessage
  BY <1>1, <1>3, <1>4, HeardKept, PhasesKept DEF Unlogged
<1>6. CASE ~Over(p) /\ ParseMore(p) /\ UNCHANGED username
  <2>1. client' = p /\ state' = "AUTH_READ" /\ write_buffer' = write_buffer
    BY <1>6 DEF ParseMore, AuthRead
  <2>2. InAuthRead'
    BY <1>3, <1>4, <1>5, <1>6, <2>1 DEF InAuthRead
  <2>3. SentOK'
    BY <1>1, <1>3, <2>1 DEF SentOK
  <2> QED BY <1>1, <1>3, <2>1, <2>2, <2>3 DEF IInv, StateOK, States
<1>7. CASE p.at = "ERROR" /\ ParseError(p)
  <2>1. state' = "CLOSED" /\ write_buffer' = write_buffer
    BY <1>7 DEF ParseError
  <2>2. SentOK'
    BY <1>1, <1>3, <2>1 DEF SentOK
  <2> QED BY <1>1, <1>3, <2>1, <2>2 DEF IInv, StateOK, States
<1> DEFINE granted == <<p.username, p.password>> \in Users
<1>8. CASE /\ p.at = "DONE"
           /\ client' = [p EXCEPT !.authorized = granted]
           /\ username' = IF granted THEN Text(p.username) ELSE username
           /\ auth_marshall(IF granted THEN 0 ELSE 1)
           /\ state' = "AUTH_WRITE"
  <2> DEFINE k == Fed' - HelloEnd
             status == IF granted THEN 0 ELSE 1
  <2>1. /\ HelloEnd \in Nat /\ AuthMessage \in Seq(Byte)
        /\ k \in 0 .. Len(AuthMessage) /\ Fed' = HelloEnd + k
    <3>1. /\ HelloEnd \in Nat /\ HelloEnd <= Fed /\ AuthMessage \in Seq(Byte)
          /\ Len(AuthMessage) = Len(stream) - HelloEnd /\ Len(stream) \in Nat
          /\ Fed \in Nat /\ Fed' \in Nat /\ Fed' <= Len(stream)
      BY <1>1, <1>3, <1>4, GreetedIs, Positions
    <3>2. \A a, f, g, l \in Nat :
            a <= f /\ f <= g /\ g <= l => g - a \in 0 .. l - a /\ g = a + (g - a)
      OBVIOUS
    <3>3. k \in 0 .. Len(stream) - HelloEnd /\ Fed' = HelloEnd + k
      BY <1>3, <3>1, <3>2
    <3> QED BY <3>1, <3>3
  <2> HIDE DEF k
  <2>2. /\ AuthWhole(AuthMessage) /\ AuthLength(AuthMessage) = k
        /\ p.username = Name(AuthMessage) /\ p.password = Password(AuthMessage)
    <3>1. AuthAt(p, AuthMessage, k)
      BY <1>3 DEF k
    <3> QED BY <1>8, <2>1, <3>1, AuthFound
  <2>3. AuthEnd' = Fed' /\ AuthEnd' <= Fed' /\ Named'
    <3>1. AuthEnd' = Fed'
      BY <1>5, <2>1, <2>2 DEF AuthEnd
    <3>2. Fed' \in Nat
      BY <1>3
    <3>3. AuthEnd' <= Fed'
      BY <3>1, <3>2
    <3> QED BY <1>3, <1>4, <1>5, <2>2, <3>1, <3>3 DEF Named
  <2>4. (granted <=> Granted) /\ (Granted' <=> Granted)
    BY <1>3, <2>2, PhasesKept DEF Granted
  <2>5. p \in AuthParsers /\ Len(p.username) <= p.username_len
        /\ Len(p.password) <= p.password_len
    BY <1>3 DEF AuthAt
  <2>6. /\ client' \in AuthParsers /\ client'.username = p.username
        /\ client'.password = p.password /\ client'.username_len = p.username_len
        /\ client'.password_len = p.password_len /\ client'.authorized = granted
    <3>1. \A b \in BOOLEAN : LET q == [p EXCEPT !.authorized = b] IN
            /\ q \in AuthParsers /\ q.username = p.username
            /\ q.password = p.password /\ q.username_len = p.username_len
            /\ q.password_len = p.password_len /\ q.authorized = b
      BY <2>5 DEF AuthParsers
    <3>2. granted \in BOOLEAN
      OBVIOUS
    <3> HIDE DEF granted
    <3> QED BY <1>8, <3>1, <3>2
  <2> HIDE DEF granted
  <2>7. client'.authorized = TRUE <=> Granted'
    <3>1. granted \in BOOLEAN
      BY DEF granted
    <3> QED BY <2>4, <2>6, <3>1
  <2>8. username' = IF Granted' THEN Text(Name(AuthMessage')) ELSE DASH
    BY <1>4, <1>5, <1>8, <2>2, <2>4
  <2>9. status \in Int /\ status = IF Granted' THEN 0 ELSE 1
    BY <2>4
  <2> HIDE DEF status
  <2>10. write_buffer' = <<1, status>>
    BY <1>4, <1>8, <2>9 DEF auth_marshall, status
  <2>11. wire' \o write_buffer' = <<5, USERPASS, 1, status>> /\ write_buffer' # <<>>
    <3>1. <<5, USERPASS>> \o <<1, status>> = <<5, USERPASS, 1, status>>
      BY <2>9, Methods, Pairs
    <3>2. wire' = <<5, USERPASS>> /\ write_buffer' = <<1, status>>
      BY <1>3, <1>4, <2>10
    <3> QED BY <3>1, <3>2
  <2>12. Len(client'.username) <= client'.username_len
         /\ Len(client'.password) <= client'.password_len
    BY <2>5, <2>6
  <2>13. InAuthWrite'
    BY <1>5, <1>8, <2>3, <2>6, <2>7, <2>8, <2>9, <2>11, <2>12 DEF InAuthWrite
  <2>14. SentOK'
    BY <1>3, <1>4, <2>9, <2>10, Methods DEF SentOK
  <2> QED BY <1>1, <1>3, <1>8, <2>13, <2>14 DEF IInv, StateOK, States
<1> QED BY <1>2, <1>6, <1>7, <1>8 DEF AuthReadAs

LEMMA Marshalled ==
    ASSUME SentOK, wire' = wire, NEW reply \in Int, NEW type \in Int,
           request_marshall(reply, type)
    PROVE  SentOK' /\ write_buffer' # <<>>
<1> DEFINE answer == <<5, reply, 0, type, BOUND>>
<1>1. answer \in Seq(Int) /\ Len(answer) = 5
  BY DEF BOUND
<1>2. write_buffer \in Seq(Int) /\ write_buffer' = write_buffer \o answer
  BY DEF SentOK, request_marshall
<1> HIDE DEF answer
<1>3. write_buffer' \in Seq(Int) /\ Len(write_buffer') = Len(write_buffer) + 5
      /\ Len(write_buffer) \in Nat
  <2>1. write_buffer \o answer \in Seq(Int)
        /\ Len(write_buffer \o answer) = Len(write_buffer) + Len(answer)
    BY <1>1, <1>2, ConcatProperties
  <2>2. Len(write_buffer) \in Nat
    BY <1>2
  <2> QED BY <1>1, <1>2, <2>1, <2>2
<1>4. write_buffer' # <<>>
  <2> SUFFICES ASSUME write_buffer' = <<>> PROVE FALSE
    OBVIOUS
  <2>1. Len(write_buffer') = 0
    OBVIOUS
  <2> QED BY <1>3, <2>1
<1> QED BY <1>3, <1>4 DEF SentOK

LEMMA AnswerKept ==
    ASSUME NEW p, RequestOK(p), NEW reply \in Byte
    PROVE  RequestOK([p EXCEPT !.answer = reply])
BY DEF RequestOK, RequestParsers

\* The numbers that requests are answered with.
LEMMA Numbers ==
    /\ {0, 7, 8} \subseteq Byte /\ ConnectFailures \subseteq Byte /\ 1 \in Byte
    /\ IPV4 \in Int /\ IPV6 \in Int
BY DEF Byte, ConnectFailures, IPV4, IPV6

\* An answer is ready to be sent.
Ready ==
    /\ SentOK' /\ write_buffer' # <<>> /\ RequestOK(client')
    /\ state' = "REQUEST_WRITE" /\ request_logged' \in BOOLEAN

LEMMA Refuses ==
    ASSUME SentOK, wire' = wire, NEW p, RequestOK(p), NEW reply \in Byte, NEW to, NEW logged,
           SetReply(p, reply, to, logged)
    PROVE  Ready
<1>1. reply \in Int /\ IPV4 \in Int
  BY Bytes, Numbers
<1>2. request_marshall(reply, IPV4) /\ client' = [p EXCEPT !.answer = reply]
      /\ state' = "REQUEST_WRITE" /\ request_logged' = TRUE
  BY DEF SetReply
<1>3. SentOK' /\ write_buffer' # <<>>
  BY <1>1, <1>2, Marshalled
<1> QED BY <1>2, <1>3, AnswerKept DEF Ready

LEMMA Succeeds ==
    ASSUME SentOK, wire' = wire, NEW p, RequestOK(p), NEW to,
           NEW logged \in BOOLEAN, NEW calls \in BOOLEAN, Succeed(p, to, logged, calls)
    PROVE  Ready
<1>1. PICK type \in {IPV4, IPV6} : request_marshall(0, type)
  BY DEF Succeed
<1>2. client' = [p EXCEPT !.answer = 0] /\ state' = "REQUEST_WRITE"
      /\ request_logged' \in BOOLEAN
  BY DEF Succeed
<1>3. 0 \in Int /\ type \in Int /\ 0 \in Byte
  BY Numbers
<1>4. SentOK' /\ write_buffer' # <<>>
  BY <1>1, <1>3, Marshalled
<1> QED BY <1>2, <1>3, <1>4, AnswerKept DEF Ready

LEMMA Written ==
    ASSUME PositionsOK', hung' \in BOOLEAN, Admitted', wire' = Welcome, stream' = stream, Ready
    PROVE  IInv'
<1>1. wire' = Welcome'
  BY PhasesKept
<1>2. Welcomed'
  <2>1. Len(Welcome') \in Nat
    BY DEF Welcome
  <2> QED BY <1>1, <2>1 DEF Welcomed
<1>3. InRequestWrite'
  BY <1>2 DEF InRequestWrite, Ready
<1> QED BY <1>3 DEF IInv, StateOK, States, Ready

LEMMA Waits ==
    ASSUME SentOK, PositionsOK', hung' \in BOOLEAN, Admitted', wire = Welcome, wire' = wire,
           stream' = stream, write_buffer = <<>>, entries = <<>>,
           NEW p, RequestOK(p), NEW for \in {"RESOLVING", "CONNECTING"},
           NEW logged, logged = FALSE, Wait(p, for, logged)
    PROVE  IInv'
<1>1. /\ client' = p /\ state' = for /\ request_logged' = FALSE
      /\ entries' = <<>> /\ write_buffer' = <<>> /\ wire' = Welcome'
  BY PhasesKept DEF Wait
<1>2. InOrigin' /\ SentOK'
  BY <1>1 DEF InOrigin, SentOK
<1> QED BY <1>1, <1>2 DEF IInv, StateOK, States

\* resolving and connecting
LEMMA OriginKeeps == IInv /\ (Resolving \/ Connecting) => IInv'
<1> SUFFICES ASSUME IInv, Resolving \/ Connecting PROVE IInv'
  OBVIOUS
<1>1. PositionsOK /\ SentOK /\ InOrigin /\ hung \in BOOLEAN
  BY DEF IInv, StateOK, Resolving, Connecting
<1>2. UNCHANGED <<stream, hung, received, read_buffer, username, requested_destination, wire>>
  BY DEF Resolving, Connecting, peer
<1>3. Fed' = Fed /\ PositionsOK' /\ hung' \in BOOLEAN /\ stream' = stream /\ wire' = wire
  BY <1>1, <1>2, Unmoved
<1>4. Fed <= Fed'
  <2>1. Fed \in Nat
    BY <1>1, Positions
  <2> QED BY <1>3, <2>1
<1>5. /\ Admitted /\ RequestOK(client) /\ wire = Welcome /\ write_buffer = <<>>
      /\ request_logged = FALSE /\ entries = <<>>
  BY <1>1 DEF InOrigin
<1>6. Admitted'
  BY <1>1, <1>2, <1>3, <1>4, <1>5, HeardKept
<1>7. ASSUME NEW r \in ConnectFailures, SetReply(client, r, requested_destination, request_logged)
      PROVE  IInv'
  <2>1. r \in Byte
    BY Numbers
  <2>2. Ready
    BY <1>1, <1>3, <1>5, <1>7, <2>1, Refuses
  <2> QED BY <1>3, <1>5, <1>6, <2>2, Written
<1>8. ASSUME NEW calls \in BOOLEAN,
             Succeed(client, requested_destination, request_logged, calls)
      PROVE  IInv'
  <2>1. request_logged \in BOOLEAN
    BY <1>5
  <2>2. Ready
    BY <1>1, <1>3, <1>5, <1>8, <2>1, Succeeds
  <2> QED BY <1>3, <1>5, <1>6, <2>2, Written
<1>9. ASSUME Wait(client, "CONNECTING", request_logged) PROVE IInv'
  BY <1>1, <1>3, <1>5, <1>6, <1>9, Waits
<1> QED BY <1>7, <1>8, <1>9 DEF Resolving, Connecting

\* request_read makes p of its parser.
RequestReadAs(p) ==
    /\ Advanced /\ UNCHANGED username
    /\ RequestAt(p, Rest(RequestBegin), Fed' - RequestBegin)
    /\ \/ /\ ~Over(p) /\ ParseMore(p)
          /\ UNCHANGED <<requested_destination, request_logged, entries>>
       \/ /\ p.at = "ERROR"
          /\ SetReply(p, p.reply, requested_destination, request_logged)
          /\ UNCHANGED requested_destination
       \/ p.at = "DONE" /\ request_process(p)

LEMMA RequestReads == PositionsOK /\ InRequestRead /\ RequestRead => \E p : RequestReadAs(p)
<1> SUFFICES ASSUME PositionsOK, InRequestRead, RequestRead PROVE \E p : RequestReadAs(p)
  OBVIOUS
<1>1. PICK n \in Receivable : LET p == Parsed(n).parser IN
        /\ Recv(n, Parsed(n))
        /\ \/ /\ ~Over(p) /\ ParseMore(p)
              /\ UNCHANGED <<requested_destination, request_logged, entries>>
           \/ /\ p.at = "ERROR"
              /\ SetReply(p, p.reply, requested_destination, request_logged)
              /\ UNCHANGED requested_destination
           \/ p.at = "DONE" /\ request_process(p)
  BY DEF RequestRead
<1> DEFINE p == Parsed(n).parser
           used == Parsed(n).used
           b == RequestBegin
<1>2. b \in Nat /\ b <= Fed /\ RequestAt(client, Rest(b), Fed - b)
  BY AdmittedIs DEF InRequestRead
<1>3. used \in 0 .. Len(Arrived(n)) /\ RequestAt(p, Rest(b), Fed - b + used)
  <2> HIDE DEF b
  <2> QED BY <1>2, RequestParses
<1>4. stream' = stream /\ hung' = hung /\ wire' = wire /\ username' = username
  BY DEF RequestRead, peer
<1>5. Advanced /\ Fed' = Fed + used
  BY <1>1, <1>3, <1>4, Receives DEF Advanced
<1>6. Fed - b + used = Fed' - b
  <2>1. used \in Nat /\ Fed \in Nat
    BY <1>3, Positions
  <2> HIDE DEF b
  <2> QED BY <1>2, <1>5, <2>1
<1>7. RequestReadAs(p)
  BY <1>1, <1>3, <1>4, <1>5, <1>6 DEF RequestReadAs
<1> QED BY <1>7

LEMMA RequestReadKeeps == IInv /\ RequestRead => IInv'
<1> SUFFICES ASSUME IInv, RequestRead PROVE IInv'
  OBVIOUS
<1>1. PositionsOK /\ SentOK /\ InRequestRead /\ hung \in BOOLEAN /\ request_logged \in BOOLEAN
  BY DEF IInv, StateOK, RequestRead
<1>2. PICK p : RequestReadAs(p)
  BY <1>1, RequestReads
<1>3. /\ PositionsOK' /\ Fed' \in 0 .. Len(stream) /\ Fed <= Fed'
      /\ stream' = stream /\ hung' \in BOOLEAN /\ wire' = wire /\ username' = username
      /\ RequestAt(p, Rest(RequestBegin), Fed' - RequestBegin)
  BY <1>1, <1>2 DEF RequestReadAs, Advanced
<1>4. /\ Admitted /\ wire = Welcome /\ write_buffer = <<>> /\ Unlogged
      /\ request_logged = FALSE /\ entries = <<>>
  BY <1>1 DEF InRequestRead, Unlogged
<1>5. Admitted'
  BY <1>1, <1>3, <1>4, HeardKept
<1>6. RequestOK(p)
  BY <1>3 DEF RequestAt, RequestOK
<1>7. ASSUME ~Over(p), ParseMore(p),
             UNCHANGED <<requested_destination, request_logged, entries>>
      PROVE  IInv'
  <2>1. client' = p /\ state' = "REQUEST_READ" /\ write_buffer' = write_buffer
    BY <1>7 DEF ParseMore, RequestRead
  <2>2. InRequestRead'
    <3>1. Unlogged' /\ RequestBegin' = RequestBegin /\ Welcome' = Welcome
          /\ Rest(RequestBegin)' = Rest(RequestBegin)
      BY <1>3, <1>4, <1>7, PhasesKept DEF Unlogged, Rest
    <3> HIDE DEF RequestBegin
    <3>2. RequestAt(client', Rest(RequestBegin)', Fed' - RequestBegin')
      BY <1>3, <2>1, <3>1
    <3> QED BY <1>3, <1>4, <1>5, <1>7, <2>1, <3>1, <3>2 DEF InRequestRead
  <2>3. SentOK'
    BY <1>1, <1>3, <2>1 DEF SentOK
  <2> QED BY <1>1, <1>3, <1>7, <2>1, <2>2, <2>3 DEF IInv, StateOK, States
<1>8. ASSUME NEW reply \in Byte, NEW to, NEW logged, SetReply(p, reply, to, logged)
      PROVE  IInv'
  <2>1. Ready
    BY <1>1, <1>3, <1>6, <1>8, Refuses
  <2> QED BY <1>3, <1>4, <1>5, <2>1, Written
<1>9. ASSUME NEW to, Succeed(p, to, FALSE, TRUE) PROVE IInv'
  <2>1. Ready
    BY <1>1, <1>3, <1>6, <1>9, Succeeds
  <2> QED BY <1>3, <1>4, <1>5, <2>1, Written
<1>10. ASSUME NEW for \in {"RESOLVING", "CONNECTING"}, Wait(p, for, FALSE) PROVE IInv'
  BY <1>1, <1>3, <1>4, <1>5, <1>6, <1>10, Waits
<1>11. CASE p.at = "ERROR" /\ SetReply(p, p.reply, requested_destination, request_logged)
  <2>1. p.reply \in Byte
    BY <1>6 DEF RequestOK, RequestParsers
  <2> QED BY <1>8, <1>11, <2>1
<1>12. CASE request_process(p)
  <2>1. 7 \in Byte /\ 8 \in Byte /\ 1 \in Byte /\ ConnectFailures \subseteq Byte
    BY Numbers
  <2> QED BY <1>8, <1>9, <1>10, <1>12, <2>1 DEF request_process
<1> QED BY <1>2, <1>7, <1>11, <1>12 DEF RequestReadAs

-----------------------------------------------------------------------------
(* The handlers that write *)

\* SendThen: a part is sent, or all of it, and the state is left.
LEMMA Sends ==
    ASSUME IInv, NEW next, NEW arrival, SendThen(next, arrival)
    PROVE  /\ PositionsOK' /\ Fed' = Fed /\ SentOK' /\ wire' \o write_buffer' = wire \o write_buffer
           /\ UNCHANGED <<stream, received, read_buffer, hung, username,
                          requested_destination, request_logged, entries>>
           /\ Len(wire) <= Len(wire') /\ \A i \in 1 .. Len(wire) : wire'[i] = wire[i]
           /\ Len(wire') \in Len(wire) + 1 .. Len(wire \o write_buffer)
           /\ wire' = SubSeq(wire \o write_buffer, 1, Len(wire'))
           /\ \/ /\ state' = state /\ client' = client /\ write_buffer' # <<>>
                 /\ wire' # wire \o write_buffer
              \/ /\ state' = next /\ client' = arrival /\ write_buffer' = <<>>
                 /\ wire' = wire \o write_buffer
<1>1. PICK n \in 1 .. Len(write_buffer) :
        /\ Send(n)
        /\ IF n < Len(write_buffer) THEN UNCHANGED <<state, client>>
           ELSE state' = next /\ client' = arrival
  BY DEF SendThen
<1> DEFINE all == wire \o write_buffer
<1>2. /\ wire' = wire \o SubSeq(write_buffer, 1, n)
      /\ write_buffer' = SubSeq(write_buffer, n + 1, Len(write_buffer))
      /\ UNCHANGED <<stream, received, read_buffer, hung, username,
                     requested_destination, request_logged, entries>>
  BY <1>1 DEF Send, peer, log
<1>3. PositionsOK /\ wire \in Seq(Int) /\ write_buffer \in Seq(Int)
  BY DEF IInv, SentOK
<1>4. /\ wire' \in Seq(Int) /\ write_buffer' \in Seq(Int) /\ wire' \o write_buffer' = all
      /\ n < Len(write_buffer) => write_buffer' # <<>>
      /\ ~(n < Len(write_buffer)) => wire' = all /\ write_buffer' = <<>>
      /\ Len(wire) <= Len(wire') /\ \A i \in 1 .. Len(wire) : wire'[i] = wire[i]
      /\ Len(wire') \in Len(wire) + 1 .. Len(all)
      /\ wire' = SubSeq(all, 1, Len(wire'))
  <2>1. Cut(wire, write_buffer, n, wire', write_buffer')
    BY <1>2 DEF Cut
  <2>2. CutOK(wire, write_buffer, n, wire', write_buffer')
    BY <1>3, <2>1, Sent
  <2> QED BY <2>2 DEF CutOK
<1> HIDE DEF all
<1>5. PositionsOK' /\ Fed' = Fed /\ SentOK'
  BY <1>2, <1>3, <1>4, Unmoved DEF SentOK
<1>6. write_buffer' # <<>> => wire' # all
  <2>1. wire' \o write_buffer' = wire' <=> write_buffer' = <<>>
    BY <1>4, ConcatEqualIffEmpty
  <2> QED BY <1>4, <2>1
<1>7. CASE n < Len(write_buffer)
  BY <1>1, <1>2, <1>4, <1>5, <1>6, <1>7 DEF all
<1>8. CASE ~(n < Len(write_buffer))
  BY <1>1, <1>2, <1>4, <1>5, <1>8 DEF all
<1> QED BY <1>7, <1>8

LEMMA HelloWriteKeeps == IInv /\ HelloWrite => IInv'
<1> SUFFICES ASSUME IInv, HelloWrite PROVE IInv'
  OBVIOUS
<1>1. PositionsOK /\ InHelloWrite /\ hung \in BOOLEAN /\ request_logged \in BOOLEAN
      /\ state = "HELLO_WRITE"
  BY DEF IInv, StateOK, HelloWrite
<1>2. ASSUME NEW next, NEW arrival, SendThen(next, arrival),
             \/ next = "CLOSED"
             \/ next = "AUTH_READ" /\ arrival = AuthInit /\ client.method = USERPASS
             \/ next = "REQUEST_READ" /\ arrival = RequestInit /\ client.method = NOAUTH
      PROVE  IInv'
  <2>1. /\ PositionsOK' /\ Fed' = Fed /\ SentOK' /\ wire' \o write_buffer' = wire \o write_buffer
        /\ stream' = stream /\ hung' = hung /\ username' = username
        /\ UNCHANGED <<requested_destination, request_logged, entries>>
        /\ \/ state' = state /\ client' = client /\ write_buffer' # <<>>
           \/ /\ state' = next /\ client' = arrival /\ write_buffer' = <<>>
              /\ wire' = wire \o write_buffer
    BY <1>2, Sends
  <2>2. Greeted /\ Fed = HelloEnd /\ client \in HelloParsers
        /\ client.method = MethodChosen(stream)
        /\ wire \o write_buffer = <<5, client.method>> /\ username = DASH /\ Unlogged
    BY <1>1 DEF InHelloWrite
  <2>3. /\ Fed \in Nat /\ Fed <= Fed' /\ Fed' - HelloEnd = 0
    <3>1. Fed \in Nat
      BY <1>1, Positions
    <3>2. \A f \in Nat : f <= f /\ f - f = 0
      OBVIOUS
    <3> QED BY <2>1, <2>2, <3>1, <3>2
  <2>4. Greeted' /\ HelloEnd' = HelloEnd /\ AuthMessage' = AuthMessage /\ Unlogged'
    BY <1>1, <2>1, <2>2, <2>3, HeardKept, PhasesKept DEF Unlogged
  <2>5. CASE state' = state /\ client' = client /\ write_buffer' # <<>>
    <3>1. InHelloWrite'
      BY <2>1, <2>2, <2>4, <2>5 DEF InHelloWrite
    <3> QED BY <1>1, <2>1, <2>5, <3>1 DEF IInv, StateOK, States
  <2>6. CASE next = "CLOSED" /\ state' = next
    BY <1>1, <2>1, <2>6 DEF IInv, StateOK, States
  <2>7. CASE /\ next = "AUTH_READ" /\ arrival = AuthInit /\ client.method = USERPASS
             /\ state' = next /\ client' = arrival /\ write_buffer' = <<>>
             /\ wire' = wire \o write_buffer
    <3>1. AuthAt(client', AuthMessage', Fed' - HelloEnd') /\ ~Over(client')
      <4>1. AuthAt(AuthInit, AuthMessage, 0)
        BY AuthBegins
      <4>2. ~Over(AuthInit)
        BY DEF Over, AuthInit
      <4> QED BY <2>3, <2>4, <2>7, <4>1, <4>2
    <3>2. InAuthRead'
      BY <2>1, <2>2, <2>4, <2>7, <3>1 DEF InAuthRead
    <3> QED BY <1>1, <2>1, <2>7, <3>2 DEF IInv, StateOK, States
  <2>8. CASE /\ next = "REQUEST_READ" /\ arrival = RequestInit /\ client.method = NOAUTH
             /\ state' = next /\ client' = arrival /\ write_buffer' = <<>>
             /\ wire' = wire \o write_buffer
    <3>1. MethodChosen(stream') = NOAUTH /\ NOAUTH # USERPASS
      BY <2>1, <2>2, <2>8, Methods
    <3>2. RequestBegin' = HelloEnd /\ wire' = Welcome'
      BY <2>1, <2>2, <2>4, <2>8, <3>1 DEF RequestBegin, Welcome
    <3>3. RequestAt(client', Rest(RequestBegin)', Fed' - RequestBegin') /\ ~Over(client')
      <4>1. RequestAt(RequestInit, Rest(RequestBegin)', 0)
        BY RequestBegins
      <4>2. ~Over(RequestInit)
        BY DEF Over, RequestInit
      <4> QED BY <2>3, <2>8, <3>2, <4>1, <4>2
    <3>4. Admitted'
      BY <2>1, <2>2, <2>4, <3>1 DEF Admitted
    <3>5. InRequestRead'
      BY <2>4, <2>8, <3>2, <3>3, <3>4 DEF InRequestRead
    <3> QED BY <1>1, <2>1, <2>8, <3>5 DEF IInv, StateOK, States
  <2> QED BY <1>2, <2>1, <2>5, <2>6, <2>7, <2>8
<1> QED BY <1>2 DEF HelloWrite

LEMMA AuthWriteKeeps == IInv /\ AuthWrite => IInv'
<1> SUFFICES ASSUME IInv, AuthWrite PROVE IInv'
  OBVIOUS
<1>1. PositionsOK /\ InAuthWrite /\ hung \in BOOLEAN /\ request_logged \in BOOLEAN
      /\ state = "AUTH_WRITE"
  BY DEF IInv, StateOK, AuthWrite
<1>2. ASSUME NEW next, NEW arrival, SendThen(next, arrival),
             \/ next = "CLOSED"
             \/ next = "REQUEST_READ" /\ arrival = RequestInit /\ client.authorized = TRUE
      PROVE  IInv'
  <2>1. /\ PositionsOK' /\ Fed' = Fed /\ SentOK' /\ wire' \o write_buffer' = wire \o write_buffer
        /\ stream' = stream /\ hung' = hung /\ username' = username
        /\ UNCHANGED <<requested_destination, request_logged, entries>>
        /\ \/ state' = state /\ client' = client /\ write_buffer' # <<>>
           \/ /\ state' = next /\ client' = arrival /\ write_buffer' = <<>>
              /\ wire' = wire \o write_buffer
    BY <1>2, Sends
  <2>2. /\ Named /\ Fed = AuthEnd /\ client \in AuthParsers
        /\ Len(client.username) <= client.username_len
        /\ Len(client.password) <= client.password_len
        /\ (client.authorized = TRUE <=> Granted)
        /\ username = (IF Granted THEN Text(Name(AuthMessage)) ELSE DASH)
        /\ wire \o write_buffer = <<5, USERPASS, 1, IF Granted THEN 0 ELSE 1>> /\ Unlogged
    BY <1>1 DEF InAuthWrite
  <2>3. Fed \in Nat /\ Fed <= Fed' /\ Fed' - AuthEnd = 0
    <3>1. Fed \in Nat
      BY <1>1, Positions
    <3>2. \A f \in Nat : f <= f /\ f - f = 0
      OBVIOUS
    <3> QED BY <2>1, <2>2, <3>1, <3>2
  <2>4. /\ Named' /\ AuthEnd' = AuthEnd /\ AuthMessage' = AuthMessage
        /\ (Granted' <=> Granted) /\ Unlogged'
    BY <1>1, <2>1, <2>2, <2>3, HeardKept, PhasesKept DEF Unlogged
  <2>5. CASE state' = state /\ client' = client /\ write_buffer' # <<>>
    <3>1. InAuthWrite'
      BY <2>1, <2>2, <2>4, <2>5 DEF InAuthWrite
    <3> QED BY <1>1, <2>1, <2>5, <3>1 DEF IInv, StateOK, States
  <2>6. CASE next = "CLOSED" /\ state' = next
    BY <1>1, <2>1, <2>6 DEF IInv, StateOK, States
  <2>7. CASE /\ next = "REQUEST_READ" /\ arrival = RequestInit /\ client.authorized = TRUE
             /\ state' = next /\ client' = arrival /\ write_buffer' = <<>>
             /\ wire' = wire \o write_buffer
    <3>1. Granted /\ MethodChosen(stream') = USERPASS
      BY <2>1, <2>2, <2>7 DEF Named
    <3>2. RequestBegin' = AuthEnd /\ wire' = Welcome'
      BY <2>1, <2>2, <2>4, <2>7, <3>1 DEF RequestBegin, Welcome
    <3>3. RequestAt(client', Rest(RequestBegin)', Fed' - RequestBegin') /\ ~Over(client')
      <4>1. RequestAt(RequestInit, Rest(RequestBegin)', 0)
        BY RequestBegins
      <4>2. ~Over(RequestInit)
        BY DEF Over, RequestInit
      <4> QED BY <2>3, <2>7, <3>2, <4>1, <4>2
    <3>4. Admitted'
      BY <2>1, <2>2, <2>4, <3>1 DEF Admitted
    <3>5. InRequestRead'
      BY <2>4, <2>7, <3>2, <3>3, <3>4 DEF InRequestRead
    <3> QED BY <1>1, <2>1, <2>7, <3>5 DEF IInv, StateOK, States
  <2> QED BY <1>2, <2>1, <2>5, <2>6, <2>7
<1>3. client.authorized \in BOOLEAN
  BY <1>1 DEF InAuthWrite, AuthParsers
<1> QED BY <1>2, <1>3 DEF AuthWrite

LEMMA RequestWriteKeeps == IInv /\ RequestWrite => IInv'
<1> SUFFICES ASSUME IInv, RequestWrite PROVE IInv'
  OBVIOUS
<1>1. PositionsOK /\ InRequestWrite /\ hung \in BOOLEAN /\ request_logged \in BOOLEAN
      /\ state = "REQUEST_WRITE"
  BY DEF IInv, StateOK, RequestWrite
<1>2. PICK next \in {"COPY", "CLOSED"} : SendThen(next, client)
  BY DEF RequestWrite
<1>3. /\ PositionsOK' /\ Fed' = Fed /\ SentOK'
      /\ stream' = stream /\ hung' = hung /\ username' = username
      /\ UNCHANGED <<requested_destination, request_logged, entries>>
      /\ Len(wire) <= Len(wire') /\ \A i \in 1 .. Len(wire) : wire'[i] = wire[i]
      /\ client' = client
      /\ \/ state' = state /\ write_buffer' # <<>>
         \/ state' = next
  BY <1>2, Sends
<1>4. Admitted /\ RequestOK(client) /\ Welcomed
  BY <1>1 DEF InRequestWrite
<1>5. Admitted'
  <2>1. Fed \in Nat /\ \A f \in Nat : f <= f
    BY <1>1, Positions
  <2>2. Fed <= Fed'
    BY <1>3, <2>1
  <2> QED BY <1>1, <1>3, <1>4, <2>2, HeardKept
<1>6. Welcomed'
  <2> DEFINE l == Len(Welcome)
  <2>1. l \in Nat /\ Len(wire) \in Nat /\ Len(wire') \in Nat
    BY <1>3 DEF Welcome, IInv, SentOK
  <2>2. Welcome' = Welcome /\ l <= Len(wire) /\ \A i \in 1 .. l : wire[i] = Welcome[i]
    BY <1>3, <1>4, <2>1, PhasesKept DEF Welcomed
  <2> HIDE DEF l
  <2>3. l <= Len(wire') /\ \A i \in 1 .. l : i \in 1 .. Len(wire)
    BY <1>3, <2>1, <2>2
  <2>4. \A i \in 1 .. l : wire'[i] = Welcome[i]
    BY <1>3, <2>2, <2>3
  <2>5. Len(Welcome') = l /\ Len(wire') >= l /\ \A i \in 1 .. l : wire'[i] = Welcome'[i]
    BY <2>1, <2>2, <2>3, <2>4 DEF l
  <2> QED BY <2>5 DEF Welcomed
<1>7. RequestOK(client')
  BY <1>3, <1>4
<1>8. CASE state' = state /\ write_buffer' # <<>>
  <2>1. InRequestWrite'
    BY <1>5, <1>6, <1>7, <1>8 DEF InRequestWrite
  <2> QED BY <1>1, <1>3, <1>8, <2>1 DEF IInv, StateOK, States
<1>9. CASE state' = next
  <2>1. InCopy'
    BY <1>5, <1>6, <1>7 DEF InCopy
  <2> QED BY <1>1, <1>3, <1>9, <2>1 DEF IInv, StateOK, States
<1> QED BY <1>3, <1>8, <1>9

-----------------------------------------------------------------------------
(* The other actions, and the theorems about the invariant *)

\* read or send fails.
LEMMA EndKeeps == IInv /\ (ReadEnd \/ WriteEnd) => IInv'
<1> SUFFICES ASSUME IInv, ReadEnd \/ WriteEnd PROVE IInv'
  OBVIOUS
<1>1. state' = "CLOSED"
      /\ UNCHANGED <<stream, received, read_buffer, hung, write_buffer, wire, request_logged>>
  BY DEF ReadEnd, WriteEnd, peer, log
<1>2. PositionsOK' /\ SentOK'
  BY <1>1, Unmoved DEF IInv, SentOK
<1> QED BY <1>1, <1>2 DEF IInv, StateOK, States

\* Nothing in the invariant but its type depends on hung.
LEMMA StutterKeeps ==
    ASSUME IInv, UNCHANGED <<stream, received, state, read_buffer, write_buffer, client, log, wire>>,
           hung' \in BOOLEAN
    PROVE  IInv'
<1>1. UNCHANGED <<stream, received, state, read_buffer, write_buffer, client, wire,
                  username, requested_destination, request_logged, entries>>
  BY DEF log
<1>2. PositionsOK' /\ SentOK' /\ Fed' = Fed /\ Fed <= Fed'
  <2>1. Fed \in Nat /\ \A f \in Nat : f <= f
    BY Positions DEF IInv
  <2> QED BY <1>1, <2>1, Unmoved DEF IInv, SentOK
<1>3. /\ HelloEnd' = HelloEnd /\ AuthMessage' = AuthMessage /\ AuthEnd' = AuthEnd
      /\ (Granted' <=> Granted) /\ RequestBegin' = RequestBegin /\ Welcome' = Welcome
      /\ (Greeted => Greeted') /\ (Named => Named') /\ (Admitted => Admitted')
      /\ Rest(RequestBegin)' = Rest(RequestBegin)
  BY <1>1, <1>2, HeardKept, PhasesKept DEF IInv, Rest
<1>4. Unlogged => Unlogged'
  BY <1>1 DEF Unlogged
<1>5. InHelloRead => InHelloRead'
  BY <1>1, <1>2, <1>4 DEF InHelloRead
<1>6. InHelloWrite => InHelloWrite'
  BY <1>1, <1>2, <1>3, <1>4 DEF InHelloWrite
<1>7. InAuthRead => InAuthRead'
  BY <1>1, <1>2, <1>3, <1>4 DEF InAuthRead
<1>8. InAuthWrite => InAuthWrite'
  BY <1>1, <1>2, <1>3, <1>4 DEF InAuthWrite
<1>9. InRequestRead => InRequestRead'
  BY <1>1, <1>2, <1>3, <1>4 DEF InRequestRead
<1>10. Welcomed => Welcomed'
  BY <1>1, <1>3 DEF Welcomed
<1>11. /\ InOrigin => InOrigin'
       /\ InRequestWrite => InRequestWrite'
       /\ InCopy => InCopy'
  BY <1>1, <1>3, <1>10 DEF InOrigin, InRequestWrite, InCopy
<1> QED BY <1>1, <1>2, <1>5, <1>6, <1>7, <1>8, <1>9, <1>11 DEF IInv, StateOK

LEMMA NextKeeps == IInv /\ [Next]_vars => IInv'
<1> SUFFICES ASSUME IInv, [Next]_vars PROVE IInv'
  OBVIOUS
<1>1. CASE HangUp
  BY <1>1, StutterKeeps DEF HangUp
<1>2. CASE UNCHANGED vars
  BY <1>2, StutterKeeps DEF vars, peer, IInv, StateOK
<1> QED BY <1>1, <1>2, HelloReadKeeps, AuthReadKeeps, RequestReadKeeps, OriginKeeps,
           HelloWriteKeeps, AuthWriteKeeps, RequestWriteKeeps, EndKeeps DEF Next, Handlers

LEMMA Inductive == Spec => []IInv
BY Start, NextKeeps, PTL DEF Spec

\* In a state in which a request is read or answered.
LEMMA Requesting ==
    IInv /\ state \in {"REQUEST_READ", "RESOLVING", "CONNECTING", "REQUEST_WRITE", "COPY"} =>
        Admitted /\ RequestOK(client) /\ Welcomed
<1> SUFFICES ASSUME IInv,
                    state \in {"REQUEST_READ", "RESOLVING", "CONNECTING", "REQUEST_WRITE", "COPY"}
             PROVE  Admitted /\ RequestOK(client) /\ Welcomed
  OBVIOUS
<1>1. wire = Welcome => Welcomed
  <2>1. Len(Welcome) \in Nat
    BY DEF Welcome
  <2> QED BY <2>1 DEF Welcomed
<1>2. CASE state = "REQUEST_READ"
  <2>1. InRequestRead
    BY <1>2 DEF IInv, StateOK
  <2>2. RequestAt(client, Rest(RequestBegin), Fed - RequestBegin)
    BY <2>1 DEF InRequestRead
  <2>3. RequestOK(client)
    BY <2>2 DEF RequestAt, RequestOK
  <2> QED BY <1>1, <2>1, <2>3 DEF InRequestRead
<1>3. CASE state \in {"RESOLVING", "CONNECTING"}
  BY <1>1, <1>3 DEF IInv, StateOK, InOrigin
<1>4. CASE state = "REQUEST_WRITE"
  BY <1>4 DEF IInv, StateOK, InRequestWrite
<1>5. CASE state = "COPY"
  BY <1>5 DEF IInv, StateOK, InCopy
<1> QED BY <1>2, <1>3, <1>4, <1>5

LEMMA IInvTypeOK == IInv => TypeOK
<1> SUFFICES ASSUME IInv PROVE TypeOK
  OBVIOUS
<1>1. /\ stream \in Streams /\ received \in 0 .. Len(stream)
      /\ hung \in BOOLEAN /\ request_logged \in BOOLEAN
  BY DEF IInv, PositionsOK, StateOK
<1>2. read_buffer.start + Len(read_buffer.held) \in 0 .. Capacity
  <2> DEFINE s == read_buffer.start
             l == Len(read_buffer.held)
  <2>1. s \in Nat /\ l \in Nat /\ s + l <= Capacity /\ Capacity \in Nat
    BY Positions, HandshakeAssumption DEF IInv, PositionsOK
  <2> HIDE DEF s, l
  <2>2. s + l \in 0 .. Capacity
    BY <2>1
  <2> QED BY <2>2 DEF s, l
<1>3. state \in {"HELLO_READ", "HELLO_WRITE"} => client.of = "hello"
  <2>1. state \in {"HELLO_READ", "HELLO_WRITE"} => client \in HelloParsers
    BY DEF IInv, StateOK, InHelloRead, InHelloWrite, HelloAt
  <2> QED BY <2>1 DEF HelloParsers
<1>4. state \in {"AUTH_READ", "AUTH_WRITE"} =>
        /\ client.of = "auth"
        /\ Len(client.username) <= client.username_len
        /\ Len(client.password) <= client.password_len
  <2>1. state \in {"AUTH_READ", "AUTH_WRITE"} =>
          /\ client \in AuthParsers
          /\ Len(client.username) <= client.username_len
          /\ Len(client.password) <= client.password_len
    BY DEF IInv, StateOK, InAuthRead, InAuthWrite, AuthAt
  <2>2. client \in AuthParsers => client.of = "auth"
    BY DEF AuthParsers
  <2> QED BY <2>1, <2>2
<1>5. ASSUME state \in {"REQUEST_READ", "RESOLVING", "CONNECTING", "REQUEST_WRITE", "COPY"}
      PROVE  /\ client.of = "request"
             /\ Len(client.addr) <= 255
             /\ client.atyp \in {IPV4, IPV6} => Len(client.addr) <= 16
             /\ client.port \in Nat /\ client.port <= 65535 /\ client.port_pos <= 2
  <2>1. RequestOK(client)
    BY <1>5, Requesting
  <2>2. client.of = "request" /\ client.port \in PortNumbers /\ client.port_pos <= 2
    BY <2>1 DEF RequestOK, RequestParsers
  <2>3. client.port \in Nat /\ client.port <= 65535
    BY <2>2 DEF PortNumbers
  <2> QED BY <2>1, <2>2, <2>3 DEF RequestOK
<1> QED BY <1>1, <1>2, <1>3, <1>4, <1>5 DEF TypeOK

LEMMA IInvSeparate == IInv => AnswersSeparate
BY DEF IInv, StateOK, AnswersSeparate, Reading, InHelloRead, InAuthRead, InRequestRead

LEMMA IInvAuthenticated == IInv => Authenticated
<1> SUFFICES ASSUME IInv,
                    state \in {"REQUEST_READ", "RESOLVING", "CONNECTING", "REQUEST_WRITE", "COPY"}
             PROVE  IF USERPASS \in Offered(stream)
                    THEN /\ <<client.of, username>> \in
                              {<<"request", Text(user[1])>> : user \in Users}
                         /\ SubSeq(wire, 3, 4) = <<1, 0>>
                    ELSE username = DASH /\ NOAUTH \in Offered(stream)
  BY DEF Authenticated
<1>1. Admitted /\ RequestOK(client) /\ Welcomed /\ wire \in Seq(Int)
  BY Requesting DEF IInv, SentOK
<1>2. client.of = "request"
  BY <1>1 DEF RequestOK, RequestParsers
<1>3. CASE USERPASS \in Offered(stream)
  <2>1. MethodChosen(stream) = USERPASS
    BY <1>3 DEF MethodChosen
  <2>2. Granted /\ username = Text(Name(AuthMessage))
    BY <1>1, <2>1, Methods DEF Admitted
  <2>3. <<client.of, username>> \in {<<"request", Text(user[1])>> : user \in Users}
    <3> DEFINE user == <<Name(AuthMessage), Password(AuthMessage)>>
    <3>1. user \in Users /\ user[1] = Name(AuthMessage)
      BY <2>2 DEF Granted
    <3> HIDE DEF user
    <3>2. <<client.of, username>> = <<"request", Text(user[1])>>
      BY <1>2, <2>2, <3>1
    <3> QED BY <3>1, <3>2
  <2>4. SubSeq(wire, 3, 4) = <<1, 0>>
    <3>1. Welcome = <<5, USERPASS, 1, 0>>
      BY <2>1 DEF Welcome
    <3>2. /\ Len(Welcome) = 4 /\ Welcome[3] = 1 /\ Welcome[4] = 0
      BY <3>1
    <3>3. Len(wire) >= 4 /\ wire[3] = 1 /\ wire[4] = 0 /\ Len(wire) \in Nat
      BY <1>1, <3>2 DEF Welcomed
    <3> DEFINE part == SubSeq(wire, 2 + 1, 4)
    <3>4. 2 \in Nat /\ 4 \in Nat /\ 2 <= 4 /\ 4 <= Len(wire)
      BY <3>3
    <3>5. /\ part \in Seq(Int) /\ Len(part) = 4 - 2
          /\ \A i \in 1 .. 4 - 2 : part[i] = wire[2 + i]
      BY <1>1, <3>4, Slice
    <3>6. part = SubSeq(wire, 3, 4)
      OBVIOUS
    <3> HIDE DEF part
    <3>7. Len(part) = 2 /\ part[1] = 1 /\ part[2] = 0
      BY <3>3, <3>5
    <3>8. part = <<1, 0>>
      BY <3>5, <3>7
    <3> QED BY <3>6, <3>8
  <2> QED BY <1>3, <2>3, <2>4
<1>4. CASE USERPASS \notin Offered(stream)
  <2>1. MethodChosen(stream) # USERPASS
    BY <1>4, Methods DEF MethodChosen
  <2>2. MethodChosen(stream) = NOAUTH /\ username = DASH
    BY <1>1, <2>1 DEF Admitted, Named
  <2>3. NOAUTH \in Offered(stream)
    BY <1>4, <2>2, Methods DEF MethodChosen
  <2> QED BY <1>4, <2>2, <2>3
<1> QED BY <1>3, <1>4

\* TypeOK: whatever the client says and in whatever pieces, the positions stay
\* within raw_buff_a and the parsers write only within their arrays
\* (hello_consume, auth_consume, request_consume).
THEOREM HandshakeTypeCorrect == Spec => []TypeOK
BY Inductive, IInvTypeOK, PTL

\* AnswersSeparate: no answer is put together while a part of another waits.
THEOREM AnswersAreSeparate == Spec => []AnswersSeparate
BY Inductive, IInvSeparate, PTL

\* Authenticated: no request is read before the name and the password that the
\* client was asked for have been found in the user store.
THEOREM OnlyAuthenticated == Spec => []Authenticated
BY Inductive, IInvAuthenticated, PTL

-----------------------------------------------------------------------------
(* The handshake implements Negotiation *)

\* Negotiation reads messages as Messages says.
LEMMA SameHello ==
    ASSUME NEW m
    PROVE  /\ N!HelloBad(m) <=> HelloBad(m)
           /\ N!HelloWhole(m) <=> HelloWhole(m)
           /\ N!HelloLength(m) = HelloLength(m)
           /\ N!MethodChosen(m) = MethodChosen(m)
           /\ N!USERPASS = USERPASS /\ N!NOAUTH = NOAUTH /\ N!UNACCEPTABLE = UNACCEPTABLE
<1>1. /\ N!HelloBad(m) <=> HelloBad(m)
      /\ N!HelloLength(m) = HelloLength(m)
  BY DEF N!HelloBad, HelloBad, N!HelloLength, HelloLength
<1>2. N!HelloWhole(m) <=> HelloWhole(m)
  BY <1>1 DEF N!HelloWhole, HelloWhole
<1>3. N!USERPASS = USERPASS /\ N!NOAUTH = NOAUTH /\ N!UNACCEPTABLE = UNACCEPTABLE
  BY DEF N!USERPASS, USERPASS, N!NOAUTH, NOAUTH, N!UNACCEPTABLE, UNACCEPTABLE
<1>4. N!Offered(m) = Offered(m)
  BY <1>1 DEF N!Offered, Offered
<1>5. N!MethodChosen(m) = MethodChosen(m)
  BY <1>3, <1>4 DEF N!MethodChosen, MethodChosen
<1> QED BY <1>1, <1>2, <1>3, <1>5

LEMMA SameAuth ==
    ASSUME NEW m
    PROVE  /\ N!AuthBad(m) <=> AuthBad(m)
           /\ N!AuthWhole(m) <=> AuthWhole(m)
           /\ N!AuthLength(m) = AuthLength(m)
           /\ N!Name(m) = Name(m) /\ N!Password(m) = Password(m)
<1>1. (N!AuthKnown(m) <=> AuthKnown(m)) /\ N!AuthLength(m) = AuthLength(m)
  BY DEF N!AuthKnown, AuthKnown, N!AuthLength, AuthLength
<1>2. N!AuthBad(m) <=> AuthBad(m)
  BY <1>1 DEF N!AuthBad, AuthBad
<1>3. N!AuthWhole(m) <=> AuthWhole(m)
  BY <1>1, <1>2 DEF N!AuthWhole, AuthWhole
<1>4. N!Name(m) = Name(m) /\ N!Password(m) = Password(m)
  BY <1>1 DEF N!Name, Name, N!Password, Password
<1> QED BY <1>1, <1>2, <1>3, <1>4

LEMMA SameText ==
    N!DASH = DASH /\ \A s : N!Text(s) = Text(s)
BY DEF N!DASH, DASH, N!Text, Text

LEMMA SameCodes ==
    /\ N!IPV4 = IPV4 /\ N!IPV6 = IPV6 /\ N!DOMAIN_NAME = DOMAIN_NAME
    /\ N!CONNECT = CONNECT /\ N!BOUND = BOUND /\ N!ConnectFailures = ConnectFailures
BY DEF N!IPV4, IPV4, N!IPV6, IPV6, N!DOMAIN_NAME, DOMAIN_NAME, N!CONNECT, CONNECT,
       N!BOUND, BOUND, N!ConnectFailures, ConnectFailures

LEMMA SameRequest ==
    ASSUME NEW m
    PROVE  /\ N!RequestErrors(m) = RequestErrors(m) /\ N!FirstError(m) = FirstError(m)
           /\ N!RequestWhole(m) <=> RequestWhole(m)
           /\ N!RequestLength(m) = RequestLength(m)
           /\ N!AddressKnown(m) <=> AddressKnown(m)
           /\ N!Address(m) = Address(m) /\ N!Port(m) = Port(m)
<1>1. N!RequestErrors(m) = RequestErrors(m)
  BY SameCodes DEF N!RequestErrors, RequestErrors
<1>2. N!FirstError(m) = FirstError(m)
  BY <1>1 DEF N!FirstError, FirstError
<1>3. N!AddressKnown(m) <=> AddressKnown(m)
  BY SameCodes DEF N!AddressKnown, AddressKnown
<1>4. N!RequestKnown(m) <=> RequestKnown(m)
  BY SameCodes DEF N!RequestKnown, RequestKnown
<1>5. N!RequestLength(m) = RequestLength(m)
  BY <1>3, SameCodes DEF N!RequestLength, RequestLength
<1>6. N!RequestWhole(m) <=> RequestWhole(m)
  BY <1>1, <1>4, <1>5 DEF N!RequestWhole, RequestWhole
<1>7. N!Address(m) = Address(m) /\ N!Port(m) = Port(m)
  BY <1>3, <1>5, SameCodes DEF N!Address, Address, N!Port, Port
<1> QED BY <1>1, <1>2, <1>3, <1>5, <1>6, <1>7

\* Where the message that is being read begins, and what is said by now.
HeardOK ==
    /\ state = "HELLO_READ" => Heard = 0
    /\ state = "AUTH_READ" => Heard = HelloEnd
    /\ state = "REQUEST_READ" => Heard = RequestBegin
    /\ state \notin Reading => Heard = Fed
    /\ Heard \in Nat /\ Heard <= Fed
    /\ state \in Reading => Said = wire

LEMMA HeardIs == IInv => HeardOK
<1> SUFFICES ASSUME IInv PROVE HeardOK
  OBVIOUS
<1>1. PositionsOK /\ SentOK /\ StateOK /\ Fed \in Nat
  BY Positions DEF IInv
<1>2. state \notin Reading => Heard = Fed
  BY DEF Heard, Fed
<1>3. state = "HELLO_READ" => Heard = 0
  BY DEF Heard, Begun, Reading
<1>4. state = "AUTH_READ" => Heard = HelloEnd /\ HelloEnd \in Nat /\ HelloEnd <= Fed
  <2> SUFFICES ASSUME state = "AUTH_READ"
               PROVE  Heard = HelloEnd /\ HelloEnd \in Nat /\ HelloEnd <= Fed
    OBVIOUS
  <2>1. Heard = HelloEnd
    BY DEF Heard, Begun, Reading, HelloEnd
  <2>2. Greeted
    BY <1>1 DEF StateOK, InAuthRead
  <2> QED BY <1>1, <2>1, <2>2, GreetedIs
<1>5. state = "REQUEST_READ" =>
        Heard = RequestBegin /\ RequestBegin \in Nat /\ RequestBegin <= Fed
  <2> SUFFICES ASSUME state = "REQUEST_READ"
               PROVE  Heard = RequestBegin /\ RequestBegin \in Nat /\ RequestBegin <= Fed
    OBVIOUS
  <2>1. Admitted /\ wire = Welcome
    BY <1>1 DEF StateOK, InRequestRead
  <2>2. RequestBegin \in Nat /\ RequestBegin <= Fed
    BY <1>1, <2>1, AdmittedIs
  <2>3. Heard = HelloEnd + IF Len(wire) = 2 THEN 0 ELSE AuthLength(AuthMessage)
    BY DEF Heard, Begun, Reading, HelloEnd, AuthMessage, Rest
  <2>4. CASE MethodChosen(stream) = USERPASS
    <3>1. Len(wire) # 2
      BY <2>1, <2>4 DEF Welcome
    <3>2. Heard = AuthEnd
      BY <2>3, <3>1 DEF AuthEnd
    <3> QED BY <2>2, <2>4, <3>2 DEF RequestBegin
  <2>5. CASE MethodChosen(stream) # USERPASS
    <3>1. Len(wire) = 2
      BY <2>1, <2>5 DEF Welcome
    <3>2. Greeted
      BY <2>1, <2>5 DEF Admitted, Named
    <3>3. HelloEnd \in Nat
      BY <1>1, <3>2, GreetedIs
    <3>4. \A h \in Nat : h + 0 = h
      OBVIOUS
    <3>5. Heard = HelloEnd
      BY <2>3, <3>1, <3>3, <3>4
    <3> QED BY <2>2, <2>5, <3>5 DEF RequestBegin
  <2> QED BY <2>4, <2>5
<1>6. state \in Reading => Said = wire
  <2>1. state \in Reading => write_buffer = <<>>
    BY IInvSeparate DEF AnswersSeparate
  <2>2. wire \o <<>> = wire
    BY <1>1, ConcatEmptySeq DEF SentOK
  <2> QED BY <2>1, <2>2 DEF Said
<1>7. Heard \in Nat /\ Heard <= Fed
  <2>1. \A f \in Nat : 0 \in Nat /\ 0 <= f /\ f <= f
    OBVIOUS
  <2> QED BY <1>1, <1>2, <1>3, <1>4, <1>5, <2>1 DEF Reading
<1> QED BY <1>2, <1>3, <1>4, <1>5, <1>6, <1>7 DEF HeardOK

\* What has arrived of the message that begins after b bytes.
LEMMA MessageIs ==
    ASSUME PositionsOK, NEW b \in Nat, NEW r \in Nat, b <= r, r <= Len(stream)
    PROVE  LET m == SubSeq(stream, b + 1, r) IN
           m \in Seq(Byte) /\ Len(m) = r - b /\ Same(Rest(b), m, r - b)
<1> DEFINE m == SubSeq(stream, b + 1, r)
<1>1. stream \in Seq(Byte) /\ Len(stream) \in Nat
  BY Positions
<1>2. m \in Seq(Byte) /\ Len(m) = r - b /\ \A i \in 1 .. r - b : m[i] = stream[b + i]
  BY <1>1, Slice
<1>3. b <= Len(stream) /\ \A i \in 1 .. r - b : i \in 1 .. Len(stream) - b
  BY <1>1
<1>4. \A i \in 1 .. Len(stream) - b : Rest(b)[i] = stream[b + i]
  BY <1>3, RestIs
<1> HIDE DEF m
<1>5. Same(Rest(b), m, r - b)
  BY <1>2, <1>3, <1>4 DEF Same
<1> QED BY <1>2, <1>5 DEF m

\* At a step that reads: the message as Negotiation sees it, and the k bytes of
\* it that the parser has had.
LEMMA Reads ==
    ASSUME PositionsOK, HeardOK, Advanced
    PROVE  /\ N!Arrives /\ N!Message \in Seq(Byte)
           /\ Fed' - Heard \in 0 .. Len(N!Message) /\ Heard + (Fed' - Heard) = Fed'
           /\ Same(Rest(Heard), N!Message, Fed' - Heard)
           /\ Fed' \in Heard .. received'
<1>1. /\ Heard \in Nat /\ Fed \in Nat /\ Heard <= Fed /\ Fed <= Fed' /\ Fed' \in Nat
      /\ Fed' <= received' /\ received \in Nat /\ Len(stream) \in Nat
      /\ received' \in received + 1 .. Len(stream)
  BY Positions DEF HeardOK, Advanced
<1>2. received' \in Nat /\ received' <= Len(stream) /\ Heard <= received'
  BY <1>1
<1> DEFINE m == SubSeq(stream, Heard + 1, received')
           b == Heard
           r == received'
           f == Fed'
<1>3. m \in Seq(Byte) /\ Len(m) = r - b /\ Same(Rest(b), m, r - b)
  BY <1>1, <1>2, MessageIs
<1>4. N!Message = m
  BY DEF N!Message
<1>5. b \in Nat /\ f \in Nat /\ r \in Nat /\ b <= f /\ f <= r
  BY <1>1, <1>2
<1> HIDE DEF m, b, r, f
<1>6. f - b \in 0 .. r - b /\ b + (f - b) = f /\ f \in b .. r
      /\ \A i \in 1 .. f - b : i \in 1 .. r - b
  BY <1>5
<1>7. Same(Rest(b), m, f - b)
  BY <1>3, <1>6 DEF Same
<1>8. N!Arrives
  BY <1>1 DEF N!Arrives
<1> QED BY <1>3, <1>4, <1>6, <1>7, <1>8 DEF b, r, f

\* A parser that is not over: more of the message has arrived.
LEMMA ArrivalStep ==
    ASSUME IInv, IInv', Advanced, NEW p, ParseMore(p), state \in Reading,
           UNCHANGED <<username, requested_destination, request_logged, entries>>
    PROVE  N!Arrival
<1>1. HeardOK /\ HeardOK'
  BY HeardIs, PTL
<1>2. state' = state /\ write_buffer' = write_buffer /\ wire' = wire /\ stream' = stream
      /\ hung' = hung /\ received' \in received + 1 .. Len(stream)
  BY DEF ParseMore, Advanced
<1>3. Heard' = Heard
  BY <1>1, <1>2, PhasesKept DEF HeardOK, Reading
<1>4. Said' = Said
  BY <1>2 DEF Said
<1>5. Comes' = Comes
  BY <1>2 DEF Comes, Reading
<1> QED BY <1>2, <1>3, <1>4, <1>5 DEF N!Arrival

LEMMA HelloReadSteps == IInv /\ IInv' /\ HelloRead => N!Next
<1> SUFFICES ASSUME IInv, IInv', HelloRead PROVE N!Next
  OBVIOUS
<1>1. PositionsOK /\ SentOK /\ InHelloRead /\ state = "HELLO_READ"
  BY DEF IInv, StateOK, HelloRead
<1>2. PICK p : HelloReadAs(p)
  BY <1>1, HelloReads
<1>3. /\ Advanced /\ UNCHANGED <<username, requested_destination, request_logged, entries>>
      /\ HelloAt(p, stream, Fed')
      /\ stream' = stream /\ hung' = hung /\ wire' = wire
  BY <1>2 DEF HelloReadAs, Advanced
<1>4. HeardOK /\ HeardOK'
  BY HeardIs, PTL
<1> DEFINE m == N!Message
           k == Fed' - Heard
<1>5. Heard = 0 /\ Said = wire /\ Comes = "hello"
  BY <1>1, <1>4 DEF HeardOK, Reading, Comes
<1>6. /\ N!Arrives /\ m \in Seq(Byte) /\ k \in 0 .. Len(m) /\ Heard + k = Fed'
      /\ Same(Rest(Heard), m, k) /\ Fed' \in Heard .. received'
  BY <1>1, <1>3, <1>4, Reads
<1> HIDE DEF m, k
<1>7. HelloAt(p, m, k)
  <2>1. Rest(Heard) = stream /\ k \in Nat /\ Fed' = k
    <3>1. k \in Nat /\ 0 + k = k
      BY <1>6
    <3> QED BY <1>1, <1>5, <1>6, <3>1, RestOfAll
  <2> QED BY <1>3, <1>6, <2>1, HelloSame
<1>8. CASE ~Over(p) /\ ParseMore(p)
  <2>1. N!Arrival
    BY <1>1, <1>3, <1>8, ArrivalStep DEF Reading
  <2> QED BY <2>1 DEF N!Next
<1>9. CASE p.at = "ERROR" /\ ParseError(p)
  <2>1. state' = "CLOSED" /\ write_buffer' = write_buffer
    BY <1>9 DEF ParseError
  <2>2. N!HelloBad(m)
    BY <1>6, <1>7, <1>9, HelloFound, SameHello
  <2>3. Heard' = Fed' /\ Said' = Said /\ Comes' = "closed"
    BY <1>3, <1>4, <2>1 DEF HeardOK, Reading, Said, Comes
  <2>4. N!Close
    BY <1>3, <1>5, <1>6, <2>2, <2>3 DEF N!Close, m
  <2> QED BY <2>4 DEF N!Next
<1>10. CASE p.at = "DONE" /\ client' = p /\ hello_marshall(p.method) /\ state' = "HELLO_WRITE"
  <2>1. HelloWhole(m) /\ HelloLength(m) = k /\ p.method = MethodChosen(m)
    BY <1>6, <1>7, <1>10, HelloFound
  <2>2. N!HelloWhole(m) /\ N!HelloLength(m) = k /\ N!MethodChosen(m) = p.method
    BY <2>1, SameHello
  <2>3. Heard' = Heard + N!HelloLength(m)
    BY <1>4, <1>6, <1>10, <2>2 DEF HeardOK, Reading
  <2>4. Said' = Said \o <<5, N!MethodChosen(m)>>
    <3>1. <<5, p.method>> \in Seq(Int)
      BY <2>1, Methods
    <3>2. write_buffer = <<>> /\ write_buffer' = write_buffer \o <<5, p.method>>
      BY <1>1, <1>10 DEF InHelloRead, hello_marshall
    <3>3. write_buffer' = <<5, p.method>>
      BY <3>1, <3>2, ConcatEmptySeq
    <3> QED BY <1>3, <1>5, <2>2, <3>3 DEF Said
  <2>5. Comes' = CASE N!MethodChosen(m) = N!USERPASS -> "auth"
                   [] N!MethodChosen(m) = N!NOAUTH -> "request"
                   [] N!MethodChosen(m) = N!UNACCEPTABLE -> "last"
    <3>1. Comes' = IF p.method = USERPASS THEN "auth"
                   ELSE IF p.method = NOAUTH THEN "request" ELSE "last"
      BY <1>10 DEF Comes
    <3>2. p.method \in {USERPASS, NOAUTH, UNACCEPTABLE}
      BY <2>1, Methods
    <3> QED BY <2>2, <3>1, <3>2, Methods, SameHello
  <2>6. N!Ready("hello")
    BY <1>5, <1>6 DEF N!Ready
  <2>7. N!HearHello
    BY <1>3, <2>2, <2>3, <2>4, <2>5, <2>6 DEF N!HearHello, m
  <2> QED BY <2>7 DEF N!Next
<1> QED BY <1>2, <1>8, <1>9, <1>10 DEF HelloReadAs

LEMMA AuthReadSteps == IInv /\ IInv' /\ AuthRead => N!Next
<1> SUFFICES ASSUME IInv, IInv', AuthRead PROVE N!Next
  OBVIOUS
<1>1. PositionsOK /\ SentOK /\ InAuthRead /\ state = "AUTH_READ"
  BY DEF IInv, StateOK, AuthRead
<1>2. PICK p : AuthReadAs(p)
  BY <1>1, AuthReads
<1>3. /\ Advanced /\ UNCHANGED <<requested_destination, request_logged, entries>>
      /\ AuthAt(p, AuthMessage, Fed' - HelloEnd)
      /\ stream' = stream /\ hung' = hung /\ wire' = wire
  BY <1>2 DEF AuthReadAs, Advanced
<1>4. HeardOK /\ HeardOK'
  BY HeardIs, PTL
<1> DEFINE m == N!Message
           k == Fed' - Heard
           granted == <<p.username, p.password>> \in Users
<1>5. Heard = HelloEnd /\ Said = wire /\ Comes = "auth"
  BY <1>1, <1>4 DEF HeardOK, Reading, Comes
<1>6. /\ N!Arrives /\ m \in Seq(Byte) /\ k \in 0 .. Len(m) /\ Heard + k = Fed'
      /\ Same(Rest(Heard), m, k) /\ Fed' \in Heard .. received'
  BY <1>1, <1>3, <1>4, Reads
<1>7. AuthAt(p, Rest(Heard), k)
  BY <1>3, <1>5 DEF AuthMessage
<1> HIDE DEF m, k
<1>8. AuthAt(p, m, k)
  <2>1. k \in Nat
    BY <1>6
  <2> QED BY <1>6, <1>7, <2>1, AuthSame
<1>9. CASE ~Over(p) /\ ParseMore(p) /\ UNCHANGED username
  <2>1. N!Arrival
    BY <1>1, <1>3, <1>9, ArrivalStep DEF Reading
  <2> QED BY <2>1 DEF N!Next
<1>10. CASE p.at = "ERROR" /\ ParseError(p) /\ UNCHANGED username
  <2>1. state' = "CLOSED" /\ write_buffer' = write_buffer
    BY <1>10 DEF ParseError
  <2>2. N!AuthBad(m)
    BY <1>6, <1>8, <1>10, AuthFound, SameAuth
  <2>3. Heard' = Fed' /\ Said' = Said /\ Comes' = "closed"
    BY <1>3, <1>4, <2>1 DEF HeardOK, Reading, Said, Comes
  <2>4. N!Close
    BY <1>3, <1>5, <1>6, <1>10, <2>2, <2>3 DEF N!Close, m
  <2> QED BY <2>4 DEF N!Next
<1>11. CASE /\ p.at = "DONE"
            /\ client' = [p EXCEPT !.authorized = granted]
            /\ username' = IF granted THEN Text(p.username) ELSE username
            /\ auth_marshall(IF granted THEN 0 ELSE 1)
            /\ state' = "AUTH_WRITE"
  <2>1. /\ AuthWhole(m) /\ AuthLength(m) = k /\ p.username = Name(m) /\ p.password = Password(m)
    BY <1>6, <1>8, <1>11, AuthFound
  <2>2. /\ N!AuthWhole(m) /\ N!AuthLength(m) = k
        /\ N!Name(m) = p.username /\ N!Password(m) = p.password
        /\ N!Text(N!Name(m)) = Text(p.username)
    BY <2>1, SameAuth, SameText
  <2>3. Heard' = Heard + N!AuthLength(m)
    BY <1>4, <1>6, <1>11, <2>2 DEF HeardOK, Reading
  <2> DEFINE status == IF granted THEN 0 ELSE 1
  <2>4. Said' = Said \o <<1, status>>
    <3>1. <<1, status>> \in Seq(Int)
      OBVIOUS
    <3> HIDE DEF status
    <3>2. write_buffer = <<>> /\ write_buffer' = write_buffer \o <<1, status>>
      BY <1>1, <1>11 DEF InAuthRead, auth_marshall, status
    <3>3. write_buffer' = <<1, status>>
      BY <3>1, <3>2, ConcatEmptySeq
    <3> QED BY <1>3, <1>5, <3>3 DEF Said
  <2>5. Comes' = IF granted THEN "request" ELSE "last"
    <3>1. client'.authorized = granted
      <4>1. p \in AuthParsers
        BY <1>8 DEF AuthAt
      <4>2. \A b : [p EXCEPT !.authorized = b].authorized = b
        BY <4>1 DEF AuthParsers
      <4> HIDE DEF granted
      <4> QED BY <1>11, <4>2
    <3>2. Comes' = IF client'.authorized THEN "request" ELSE "last"
      BY <1>11 DEF Comes
    <3> HIDE DEF granted
    <3> QED BY <3>1, <3>2
  <2>6. N!Ready("auth")
    BY <1>5, <1>6 DEF N!Ready
  <2>7. <<N!Name(m), N!Password(m)>> \in Users <=> granted
    BY <2>2
  <2> HIDE DEF granted
  <2>8. IF <<N!Name(m), N!Password(m)>> \in Users
        THEN /\ Said' = Said \o <<1, 0>> /\ Comes' = "request"
             /\ username' = N!Text(N!Name(m))
        ELSE /\ Said' = Said \o <<1, 1>> /\ Comes' = "last"
             /\ UNCHANGED username
    BY <1>11, <2>2, <2>4, <2>5, <2>7
  <2>9. N!HearAuth
    BY <1>3, <2>2, <2>3, <2>6, <2>8 DEF N!HearAuth, m
  <2> QED BY <2>9 DEF N!Next
<1> QED BY <1>2, <1>9, <1>10, <1>11 DEF AuthReadAs

\* What Negotiation calls Refuse and Grant; the destination may be new.
LEMMA RefuseStep ==
    ASSUME SentOK, write_buffer = <<>>, wire' = wire, NEW p, RequestOK(p),
           NEW reply \in Byte, reply # 0, NEW to, requested_destination' = to,
           SetReply(p, reply, to, FALSE)
    PROVE  N!Refuse(reply) /\ state' = "REQUEST_WRITE"
<1>1. /\ client' = [p EXCEPT !.answer = reply]
      /\ entries' = Append(entries, [who |-> username, to |-> to, reply |-> reply])
      /\ write_buffer' = write_buffer \o <<5, reply, 0, IPV4, BOUND>>
      /\ state' = "REQUEST_WRITE"
  BY DEF SetReply, access_log_add, request_marshall
<1>2. write_buffer' = <<5, reply, 0, IPV4, BOUND>>
  <2>1. <<5, reply, 0, IPV4, BOUND>> \in Seq(Int)
    BY Bytes DEF IPV4, BOUND
  <2> QED BY <1>1, <2>1, ConcatEmptySeq
<1>3. Said' = Said \o <<5, reply, 0, N!IPV4, N!BOUND>>
  <2>1. wire \o <<>> = wire
    BY ConcatEmptySeq DEF SentOK
  <2> QED BY <1>2, <2>1, SameCodes DEF Said
<1>4. Comes' = "last"
  <2>1. client'.answer = reply
    BY <1>1 DEF RequestOK, RequestParsers
  <2> QED BY <1>1, <2>1 DEF Comes
<1>5. entries' = Append(entries, [who |-> username, to |-> requested_destination',
                                  reply |-> reply])
  BY <1>1
<1> QED BY <1>1, <1>3, <1>4, <1>5 DEF N!Refuse

LEMMA GrantStep ==
    ASSUME SentOK, write_buffer = <<>>, wire' = wire, NEW p, RequestOK(p),
           NEW calls \in BOOLEAN, NEW to, requested_destination' = to,
           Succeed(p, to, FALSE, calls)
    PROVE  N!Grant(calls) /\ state' = "REQUEST_WRITE"
<1>1. PICK type \in {IPV4, IPV6} : request_marshall(0, type)
  BY DEF Succeed
<1>2. client' = [p EXCEPT !.answer = 0] /\ state' = "REQUEST_WRITE"
  BY DEF Succeed
<1>3. entries' = IF calls THEN Append(entries, [who |-> username, to |-> to, reply |-> 0])
                 ELSE entries
  BY DEF Succeed, access_log_add
<1>4. write_buffer' = <<5, 0, 0, type, BOUND>>
  <2>1. <<5, 0, 0, type, BOUND>> \in Seq(Int)
    BY DEF IPV4, IPV6, BOUND
  <2> QED BY <1>1, <2>1, ConcatEmptySeq DEF request_marshall
<1>5. Said' = Said \o <<5, 0, 0, type, N!BOUND>>
  <2>1. wire \o <<>> = wire
    BY ConcatEmptySeq DEF SentOK
  <2> QED BY <1>4, <2>1, SameCodes DEF Said
<1>6. type \in {N!IPV4, N!IPV6}
  BY SameCodes
<1>7. Comes' = "granted"
  <2>1. client'.answer = 0
    BY <1>2 DEF RequestOK, RequestParsers
  <2> QED BY <1>2, <2>1 DEF Comes
<1>8. \E t \in {N!IPV4, N!IPV6} : Said' = Said \o <<5, 0, 0, t, N!BOUND>>
  BY <1>5, <1>6
<1> QED BY <1>2, <1>3, <1>7, <1>8 DEF N!Grant

LEMMA Failures ==
    /\ 7 \in Byte /\ 7 # 0 /\ 8 \in Byte /\ 8 # 0 /\ 1 \in Byte /\ 1 \in ConnectFailures
    /\ \A r \in ConnectFailures : r \in Byte /\ r # 0
BY DEF Byte, ConnectFailures

\* resolving and connecting
LEMMA OriginSteps == IInv /\ IInv' /\ (Resolving \/ Connecting) => N!Next \/ UNCHANGED N!promised
<1> SUFFICES ASSUME IInv, IInv', Resolving \/ Connecting
             PROVE  N!Next \/ UNCHANGED N!promised
  OBVIOUS
<1>1. /\ SentOK /\ InOrigin /\ state \in {"RESOLVING", "CONNECTING"}
  BY DEF IInv, StateOK, Resolving, Connecting
<1>2. UNCHANGED <<stream, hung, received, read_buffer, username, requested_destination, wire>>
  BY DEF Resolving, Connecting, peer
<1>3. RequestOK(client) /\ write_buffer = <<>> /\ request_logged = FALSE
  BY <1>1 DEF InOrigin
<1>4. HeardOK /\ HeardOK' /\ Fed' = Fed
  <2>1. HeardOK /\ HeardOK'
    BY HeardIs, PTL
  <2> QED BY <1>2, <2>1, Unmoved
<1>5. Comes = "origin" /\ (state' \notin Reading => Heard' = Heard)
  BY <1>1, <1>4 DEF Comes, HeardOK, Reading
<1>6. ASSUME NEW r \in ConnectFailures, SetReply(client, r, requested_destination, request_logged)
      PROVE  N!OriginAnswers
  <2>1. N!Refuse(r) /\ state' = "REQUEST_WRITE"
    BY <1>1, <1>2, <1>3, <1>6, RefuseStep, Failures
  <2> QED BY <1>2, <1>5, <2>1, SameCodes DEF N!OriginAnswers, Reading
<1>7. ASSUME NEW calls \in BOOLEAN,
             Succeed(client, requested_destination, request_logged, calls)
      PROVE  N!OriginAnswers
  <2>1. N!Grant(calls) /\ state' = "REQUEST_WRITE"
    BY <1>1, <1>2, <1>3, <1>7, GrantStep
  <2> QED BY <1>2, <1>5, <2>1 DEF N!OriginAnswers, Reading
<1>8. ASSUME Wait(client, "CONNECTING", request_logged) PROVE UNCHANGED N!promised
  <2>1. state' = "CONNECTING" /\ entries' = entries /\ write_buffer' = write_buffer
    BY <1>8 DEF Wait
  <2>2. Comes' = Comes /\ Said' = Said
    BY <1>1, <1>2, <2>1 DEF Comes, Said
  <2> QED BY <1>2, <1>5, <2>1, <2>2 DEF N!promised, Reading
<1> QED BY <1>6, <1>7, <1>8 DEF Resolving, Connecting, N!Next

LEMMA RequestReadSteps == IInv /\ IInv' /\ RequestRead => N!Next
<1> SUFFICES ASSUME IInv, IInv', RequestRead PROVE N!Next
  OBVIOUS
<1>1. PositionsOK /\ SentOK /\ InRequestRead /\ state = "REQUEST_READ"
  BY DEF IInv, StateOK, RequestRead
<1>2. PICK p : RequestReadAs(p)
  BY <1>1, RequestReads
<1>3. /\ Advanced /\ username' = username
      /\ RequestAt(p, Rest(RequestBegin), Fed' - RequestBegin)
      /\ stream' = stream /\ hung' = hung /\ wire' = wire
  BY <1>2 DEF RequestReadAs, Advanced
<1>4. HeardOK /\ HeardOK'
  BY HeardIs, PTL
<1> DEFINE m == N!Message
           k == Fed' - Heard
<1>5. Heard = RequestBegin /\ Said = wire /\ Comes = "request"
  BY <1>1, <1>4 DEF HeardOK, Reading, Comes
<1>6. /\ N!Arrives /\ m \in Seq(Byte) /\ k \in 0 .. Len(m) /\ Heard + k = Fed'
      /\ Same(Rest(Heard), m, k) /\ Fed' \in Heard .. received'
  BY <1>1, <1>3, <1>4, Reads
<1>7. RequestAt(p, Rest(Heard), k)
  <2> HIDE DEF RequestBegin
  <2> QED BY <1>3, <1>5
<1> HIDE DEF m, k
<1>8. RequestAt(p, m, k) /\ RequestOK(p)
  <2>1. k \in Nat
    BY <1>6
  <2>2. RequestOK(p)
    BY <1>7 DEF RequestAt, RequestOK
  <2> QED BY <1>6, <1>7, <2>1, <2>2, RequestSame
<1>9. write_buffer = <<>> /\ request_logged = FALSE
  BY <1>1 DEF InRequestRead, Unlogged
<1>10. N!Ready("request")
  BY <1>5, <1>6 DEF N!Ready
<1>11. ASSUME state' \notin Reading PROVE Heard' = Heard + k
  BY <1>4, <1>6, <1>11 DEF HeardOK
<1>12. CASE /\ ~Over(p) /\ ParseMore(p)
            /\ UNCHANGED <<requested_destination, request_logged, entries>>
  <2>1. N!Arrival
    BY <1>1, <1>3, <1>12, ArrivalStep DEF Reading
  <2> QED BY <2>1 DEF N!Next
<1>13. CASE /\ p.at = "ERROR"
            /\ SetReply(p, p.reply, requested_destination, request_logged)
            /\ UNCHANGED requested_destination
  <2>1. RequestErrors(m) # {} /\ FirstError(m) = k /\ p.reply = 1
    BY <1>6, <1>8, <1>13, RequestFound
  <2>2. N!Refuse(1) /\ state' = "REQUEST_WRITE"
    BY <1>1, <1>3, <1>8, <1>9, <1>13, <2>1, RefuseStep, Failures
  <2>3. N!RequestErrors(m) # {} /\ Heard' = Heard + N!FirstError(m)
    BY <1>11, <2>1, <2>2, SameRequest DEF Reading
  <2>4. N!HearBadRequest
    BY <1>3, <1>10, <1>13, <2>2, <2>3 DEF N!HearBadRequest, m
  <2> QED BY <2>4 DEF N!Next
<1>14. CASE p.at = "DONE" /\ request_process(p)
  <2>1. /\ RequestWhole(m) /\ RequestLength(m) = k /\ p.cmd = m[2] /\ p.atyp = m[4]
        /\ p.addr = Address(m) /\ p.port = Port(m)
    BY <1>6, <1>8, <1>14, RequestFound
  <2>2. N!RequestWhole(m) /\ N!RequestLength(m) = k
    BY <2>1, SameRequest
  <2> DEFINE to == Destination(p)
  <2>3. requested_destination' = to
    BY <1>14 DEF request_process
  <2>4. to = [address |-> CASE ~N!AddressKnown(m) -> N!DASH
                            [] m[4] = N!DOMAIN_NAME -> N!Text(N!Address(m))
                            [] m[4] \in {N!IPV4, N!IPV6} -> N!Address(m),
              port |-> N!Port(m)]
    <3>1. /\ N!Address(m) = p.addr /\ N!Port(m) = p.port /\ N!DASH = DASH
          /\ N!Text(p.addr) = Text(p.addr) /\ (N!AddressKnown(m) <=> AddressKnown(m))
          /\ N!DOMAIN_NAME = DOMAIN_NAME /\ N!IPV4 = IPV4 /\ N!IPV6 = IPV6
      BY <2>1, SameRequest, SameText, SameCodes
    <3>2. IPV4 # DOMAIN_NAME /\ IPV6 # DOMAIN_NAME
      BY DEF IPV4, IPV6, DOMAIN_NAME
    <3>3. AddressKnown(m) <=> p.atyp \in {IPV4, DOMAIN_NAME, IPV6}
      BY <2>1 DEF AddressKnown
    <3>4. CASE p.atyp = DOMAIN_NAME
      BY <2>1, <3>1, <3>2, <3>3, <3>4 DEF Destination
    <3>5. CASE p.atyp \in {IPV4, IPV6}
      BY <2>1, <3>1, <3>2, <3>3, <3>5 DEF Destination
    <3>6. CASE p.atyp \notin {DOMAIN_NAME, IPV4, IPV6}
      BY <2>1, <3>1, <3>2, <3>3, <3>6 DEF Destination
    <3> QED BY <3>4, <3>5, <3>6
  <2> HIDE DEF to
  <2> DEFINE Outcome == IF m[2] # N!CONNECT THEN N!Refuse(7)
                         ELSE IF ~N!AddressKnown(m) THEN N!Refuse(8)
                         ELSE \/ Comes' = "origin" /\ UNCHANGED <<Said, entries>>
                              \/ N!Grant(TRUE)
                              \/ \E reply \in N!ConnectFailures : N!Refuse(reply)
  <2>5. (m[2] = N!CONNECT <=> p.cmd = CONNECT)
        /\ (N!AddressKnown(m) <=> p.atyp \in {IPV4, DOMAIN_NAME, IPV6})
        /\ N!ConnectFailures = ConnectFailures
    BY <2>1, SameRequest, SameCodes DEF AddressKnown
  <2>6. ASSUME NEW reply \in Byte, reply # 0, SetReply(p, reply, to, FALSE)
        PROVE  N!Refuse(reply) /\ state' \notin Reading
    <3>1. N!Refuse(reply) /\ state' = "REQUEST_WRITE"
      BY <1>1, <1>3, <1>8, <1>9, <2>3, <2>6, RefuseStep
    <3> QED BY <3>1 DEF Reading
  <2>7. ASSUME Succeed(p, to, FALSE, TRUE)
        PROVE  N!Grant(TRUE) /\ state' \notin Reading
    <3>1. N!Grant(TRUE) /\ state' = "REQUEST_WRITE"
      BY <1>1, <1>3, <1>8, <1>9, <2>3, <2>7, GrantStep
    <3> QED BY <3>1 DEF Reading
  <2>8. ASSUME NEW for \in {"RESOLVING", "CONNECTING"}, Wait(p, for, FALSE)
        PROVE  Comes' = "origin" /\ UNCHANGED <<Said, entries>> /\ state' \notin Reading
    <3>1. state' = for /\ entries' = entries /\ write_buffer' = write_buffer
      BY <2>8 DEF Wait
    <3> QED BY <1>3, <3>1 DEF Comes, Said, Reading
  <2>9. Outcome /\ state' \notin Reading
    <3>1. CASE p.cmd # CONNECT /\ SetReply(p, 7, to, FALSE)
      <4>1. N!Refuse(7) /\ state' \notin Reading
        BY <2>6, <3>1, Failures
      <4> QED BY <2>5, <3>1, <4>1
    <3>2. CASE /\ p.cmd = CONNECT /\ p.atyp = DOMAIN_NAME
               /\ SetReply(p, 1, to, FALSE) \/ Wait(p, "RESOLVING", FALSE)
      <4>1. CASE SetReply(p, 1, to, FALSE)
        <5>1. N!Refuse(1) /\ state' \notin Reading
          BY <2>6, <4>1, Failures
        <5> QED BY <2>5, <3>2, <5>1, Failures
      <4>2. CASE Wait(p, "RESOLVING", FALSE)
        BY <2>5, <2>8, <3>2, <4>2
      <4> QED BY <3>2, <4>1, <4>2
    <3>3. CASE /\ p.cmd = CONNECT /\ p.atyp \notin {IPV4, IPV6, DOMAIN_NAME}
               /\ SetReply(p, 8, to, FALSE)
      <4>1. N!Refuse(8) /\ state' \notin Reading
        BY <2>6, <3>3, Failures
      <4> QED BY <2>5, <3>3, <4>1
    <3>4. CASE /\ p.cmd = CONNECT /\ p.atyp \in {IPV4, IPV6}
               /\ \/ \E r \in ConnectFailures : SetReply(p, r, to, FALSE)
                  \/ Wait(p, "CONNECTING", FALSE)
                  \/ Succeed(p, to, FALSE, TRUE)
      <4>1. ASSUME NEW r \in ConnectFailures, SetReply(p, r, to, FALSE)
            PROVE  Outcome /\ state' \notin Reading
        <5>1. N!Refuse(r) /\ state' \notin Reading
          BY <2>6, <4>1, Failures
        <5> QED BY <2>5, <3>4, <5>1
      <4>2. CASE Wait(p, "CONNECTING", FALSE)
        BY <2>5, <2>8, <3>4, <4>2
      <4>3. CASE Succeed(p, to, FALSE, TRUE)
        BY <2>5, <2>7, <3>4, <4>3
      <4> QED BY <3>4, <4>1, <4>2, <4>3
    <3> HIDE DEF Outcome
    <3> QED BY <1>14, <3>1, <3>2, <3>3, <3>4 DEF request_process, to
  <2>10. Heard' = Heard + N!RequestLength(m)
    BY <1>11, <2>2, <2>9
  <2>11. N!HearRequest
    BY <1>3, <1>10, <2>2, <2>3, <2>4, <2>9, <2>10 DEF N!HearRequest, m
  <2> QED BY <2>11 DEF N!Next
<1> QED BY <1>2, <1>12, <1>13, <1>14 DEF RequestReadAs

\* What comes when an answer has been sent.
After(comes) ==
    CASE comes = "last" -> "closed" [] comes = "granted" -> "relay" [] OTHER -> comes

LEMMA Afterwards ==
    /\ After("last") = "closed" /\ After("granted") = "relay"
    /\ After("auth") = "auth" /\ After("request") = "request"
<1> QED BY DEF After

\* What comes in a state an answer leads to.
LEMMA ComesNext ==
    /\ state' = "CLOSED" => Comes' = "closed"
    /\ state' = "AUTH_READ" => Comes' = "auth"
    /\ state' = "REQUEST_READ" => Comes' = "request"
    /\ state' = "COPY" => Comes' = "relay"
<1>1. state' = "CLOSED" => Comes' = "closed"
  BY DEF Comes
<1>2. state' = "AUTH_READ" => Comes' = "auth"
  BY DEF Comes
<1>3. state' = "REQUEST_READ" => Comes' = "request"
  BY DEF Comes
<1>4. state' = "COPY" => Comes' = "relay"
  BY DEF Comes
<1> QED BY <1>1, <1>2, <1>3, <1>4

LEMMA DeliverStep ==
    ASSUME IInv, NEW next, NEW arrival, SendThen(next, arrival), Heard' = Heard,
           state' = next /\ client' = arrival => Comes' = After(Comes)
    PROVE  N!Deliver
<1>1. /\ UNCHANGED <<stream, received, hung, username, requested_destination, entries>>
      /\ wire' \o write_buffer' = wire \o write_buffer
      /\ Len(wire') \in Len(wire) + 1 .. Len(Said) /\ wire' = SubSeq(Said, 1, Len(wire'))
      /\ \/ state' = state /\ client' = client /\ wire' # Said
         \/ state' = next /\ client' = arrival /\ wire' = Said
  BY Sends DEF Said
<1>2. Said' = Said
  BY <1>1 DEF Said
<1>3. \E n \in Len(wire) + 1 .. Len(Said) : wire' = SubSeq(Said, 1, n)
  BY <1>1
<1>4. Comes' = CASE Comes = "last" /\ wire' = Said -> "closed"
                 [] Comes = "granted" /\ wire' = Said -> "relay"
                 [] OTHER -> Comes
  <2>1. CASE state' = state /\ client' = client /\ wire' # Said
    <3>1. Comes' = Comes
      BY <2>1 DEF Comes
    <3> QED BY <2>1, <3>1
  <2>2. CASE state' = next /\ client' = arrival /\ wire' = Said
    BY <2>2 DEF After
  <2> QED BY <1>1, <2>1, <2>2
<1> QED BY <1>1, <1>2, <1>3, <1>4 DEF N!Deliver

LEMMA HelloWriteSteps == IInv /\ IInv' /\ HelloWrite => N!Next
<1> SUFFICES ASSUME IInv, IInv', HelloWrite PROVE N!Deliver
  BY DEF N!Next
<1>1. InHelloWrite /\ state = "HELLO_WRITE"
  BY DEF IInv, StateOK, HelloWrite
<1>2. Greeted /\ Fed = HelloEnd /\ client.method = MethodChosen(stream)
  BY <1>1 DEF InHelloWrite
<1>3. HeardOK /\ HeardOK'
  BY HeardIs, PTL
<1>4. ASSUME NEW next \in {"CLOSED", "AUTH_READ", "REQUEST_READ"}, NEW arrival,
             SendThen(next, arrival), next = "REQUEST_READ" => client.method = NOAUTH
      PROVE  Heard' = Heard
  <2>1. stream' = stream /\ Fed' = Fed /\ (state' = state \/ state' = next)
    BY <1>4, Sends
  <2>2. Heard = Fed
    BY <1>1, <1>3 DEF HeardOK, Reading
  <2>3. CASE state' \in {"HELLO_WRITE", "CLOSED"}
    BY <1>3, <2>1, <2>2, <2>3 DEF HeardOK, Reading
  <2>4. CASE state' = "AUTH_READ"
    BY <1>2, <1>3, <2>1, <2>2, <2>4, PhasesKept DEF HeardOK
  <2>5. CASE state' = "REQUEST_READ"
    <3>1. client.method = NOAUTH
      BY <1>1, <1>4, <2>1, <2>5
    <3>2. RequestBegin = HelloEnd
      BY <1>2, <3>1, Methods DEF RequestBegin
    <3> QED BY <1>2, <1>3, <2>1, <2>2, <2>5, <3>2, PhasesKept DEF HeardOK
  <2> QED BY <1>1, <1>4, <2>1, <2>3, <2>4, <2>5
<1>5. Comes = IF client.method = USERPASS THEN "auth"
              ELSE IF client.method = NOAUTH THEN "request" ELSE "last"
  BY <1>1 DEF Comes
<1>6. CASE client.method = UNACCEPTABLE /\ SendThen("CLOSED", client)
  <2>1. state' = "CLOSED" => Comes' = After(Comes)
    BY <1>5, <1>6, Methods, Afterwards, ComesNext
  <2> QED BY <1>4, <1>6, <2>1, DeliverStep
<1>7. CASE client.method = USERPASS /\ SendThen("AUTH_READ", AuthInit)
  <2>1. state' = "AUTH_READ" => Comes' = After(Comes)
    BY <1>5, <1>7, Afterwards, ComesNext
  <2> QED BY <1>4, <1>7, <2>1, DeliverStep
<1>8. CASE client.method = NOAUTH /\ SendThen("REQUEST_READ", RequestInit)
  <2>1. state' = "REQUEST_READ" => Comes' = After(Comes)
    BY <1>5, <1>8, Methods, Afterwards, ComesNext
  <2> QED BY <1>4, <1>8, <2>1, DeliverStep
<1> QED BY <1>6, <1>7, <1>8 DEF HelloWrite

LEMMA AuthWriteSteps == IInv /\ IInv' /\ AuthWrite => N!Next
<1> SUFFICES ASSUME IInv, IInv', AuthWrite PROVE N!Deliver
  BY DEF N!Next
<1>1. InAuthWrite /\ state = "AUTH_WRITE"
  BY DEF IInv, StateOK, AuthWrite
<1>2. Named /\ Fed = AuthEnd /\ MethodChosen(stream) = USERPASS
  BY <1>1 DEF InAuthWrite, Named
<1>3. HeardOK /\ HeardOK'
  BY HeardIs, PTL
<1>4. ASSUME NEW next \in {"CLOSED", "REQUEST_READ"}, NEW arrival, SendThen(next, arrival)
      PROVE  Heard' = Heard
  <2>1. stream' = stream /\ Fed' = Fed /\ (state' = state \/ state' = next)
    BY <1>4, Sends
  <2>2. Heard = Fed
    BY <1>1, <1>3 DEF HeardOK, Reading
  <2>3. CASE state' \in {"AUTH_WRITE", "CLOSED"}
    BY <1>3, <2>1, <2>2, <2>3 DEF HeardOK, Reading
  <2>4. CASE state' = "REQUEST_READ"
    <3>1. RequestBegin = AuthEnd
      BY <1>2 DEF RequestBegin
    <3> QED BY <1>2, <1>3, <2>1, <2>2, <2>4, <3>1, PhasesKept DEF HeardOK
  <2> QED BY <1>1, <1>4, <2>1, <2>3, <2>4
<1>5. Comes = IF client.authorized THEN "request" ELSE "last"
  BY <1>1 DEF Comes
<1>6. CASE ~client.authorized /\ SendThen("CLOSED", client)
  <2>1. state' = "CLOSED" => Comes' = After(Comes)
    BY <1>5, <1>6, Afterwards, ComesNext
  <2> QED BY <1>4, <1>6, <2>1, DeliverStep
<1>7. CASE client.authorized /\ SendThen("REQUEST_READ", RequestInit)
  <2>1. state' = "REQUEST_READ" => Comes' = After(Comes)
    BY <1>5, <1>7, Afterwards, ComesNext
  <2> QED BY <1>4, <1>7, <2>1, DeliverStep
<1> QED BY <1>6, <1>7 DEF AuthWrite

LEMMA RequestWriteSteps == IInv /\ IInv' /\ RequestWrite => N!Next
<1> SUFFICES ASSUME IInv, IInv', RequestWrite PROVE N!Deliver
  BY DEF N!Next
<1> DEFINE next == IF client.answer = 0 THEN "COPY" ELSE "CLOSED"
<1>1. SendThen(next, client) /\ state = "REQUEST_WRITE"
  BY DEF RequestWrite
<1>2. HeardOK /\ HeardOK'
  BY HeardIs, PTL
<1>3. Comes = IF client.answer = 0 THEN "granted" ELSE "last"
  BY <1>1 DEF Comes
<1>4. state' = next => Comes' = After(Comes)
  BY <1>3, Afterwards, ComesNext
<1>5. next \in {"COPY", "CLOSED"}
  OBVIOUS
<1> HIDE DEF next
<1>6. Fed' = Fed /\ (state' = state \/ state' = next)
  BY <1>1, Sends
<1>7. Heard' = Heard
  BY <1>1, <1>2, <1>5, <1>6 DEF HeardOK, Reading
<1> QED BY <1>1, <1>4, <1>7, DeliverStep

\* recv or send fails.
LEMMA EndSteps == IInv /\ IInv' /\ (ReadEnd \/ WriteEnd) => N!Next
<1> SUFFICES ASSUME IInv, IInv', ReadEnd \/ WriteEnd PROVE N!Close
  BY DEF N!Next
<1>1. HeardOK /\ HeardOK'
  BY HeardIs, PTL
<1>2. /\ state' = "CLOSED" /\ state \notin {"RESOLVING", "CONNECTING", "COPY"}
      /\ state \in Reading \cup {"HELLO_WRITE", "AUTH_WRITE", "REQUEST_WRITE"}
      /\ UNCHANGED <<stream, hung, received, read_buffer, write_buffer, wire, username,
                     requested_destination, request_logged, entries>>
      /\ hung \/ Room = 0
  BY DEF ReadEnd, WriteEnd, peer, log, Reading
<1>3. Fed' = Fed
  BY <1>2, Unmoved
<1>4. /\ received \in Nat /\ received <= Len(stream) /\ Len(stream) \in Nat
      /\ Fed \in Nat /\ Fed <= received
  <2>1. /\ received \in Nat /\ received <= Len(stream) /\ Len(stream) \in Nat
        /\ Fed \in Nat /\ Fed + Len(read_buffer.held) = received
        /\ Len(read_buffer.held) \in Nat
    BY Positions DEF IInv
  <2> QED BY <2>1
<1>5. Room = 0 => received >= Capacity
  <2> DEFINE s == read_buffer.start
             l == Len(read_buffer.held)
  <2>1. s \in Nat /\ l \in Nat /\ s + l <= received /\ Capacity \in Nat
        /\ Room = Capacity - s - l
    BY Positions, HandshakeAssumption DEF IInv, PositionsOK, Room
  <2> HIDE DEF s, l, Room
  <2> QED BY <1>4, <2>1
<1>6. N!Arrives
  BY <1>2, <1>4 DEF N!Arrives
<1>7. Comes' = "closed" /\ Comes \notin {"origin", "relay"} /\ Said' = Said
  BY <1>2 DEF Comes, Said, Reading
<1>8. Heard' = Fed /\ Heard' \in Heard .. received'
  <2>1. Heard \in Nat /\ Heard <= Fed /\ Heard' = Fed
    BY <1>1, <1>2, <1>3 DEF HeardOK, Reading
  <2> QED BY <1>2, <1>4, <2>1
<1> QED BY <1>2, <1>5, <1>6, <1>7, <1>8 DEF N!Close

LEMMA HangUpSteps == HangUp => N!Next
<1> SUFFICES ASSUME HangUp PROVE N!HangUp
  BY DEF N!Next
<1>1. hung' = TRUE /\ UNCHANGED <<stream, received, state, read_buffer, write_buffer, client,
        wire, username, requested_destination, request_logged, entries>>
  BY DEF HangUp, log
<1>2. Heard' = Heard /\ Said' = Said /\ Comes' = Comes
  BY <1>1 DEF Heard, Begun, Said, Comes
<1> QED BY <1>1, <1>2 DEF N!HangUp

LEMMA Starts == Init => N!Init
<1> SUFFICES ASSUME Init PROVE N!Init
  OBVIOUS
<1>1. Heard = 0 /\ Comes = "hello"
  BY DEF Init, Heard, Begun, Reading, Comes
<1>2. Said = <<>>
  BY ConcatEmptySeq, EmptySeq DEF Init, Said
<1> QED BY <1>1, <1>2, SameText DEF Init, N!Init, N!Nowhere

LEMMA Steps == IInv /\ IInv' /\ [Next]_vars => [N!Next]_(N!promised)
<1> SUFFICES ASSUME IInv, IInv', [Next]_vars PROVE N!Next \/ UNCHANGED N!promised
  OBVIOUS
<1>1. CASE UNCHANGED vars
  <2>1. UNCHANGED <<stream, hung, received, state, read_buffer, write_buffer, client,
        wire, username, requested_destination, request_logged, entries>>
    BY <1>1 DEF vars, peer, log
  <2>2. Heard' = Heard /\ Said' = Said /\ Comes' = Comes
    BY <2>1 DEF Heard, Begun, Said, Comes
  <2> QED BY <2>1, <2>2 DEF N!promised
<1> QED BY <1>1, HelloReadSteps, AuthReadSteps, RequestReadSteps, OriginSteps, HelloWriteSteps,
           AuthWriteSteps, RequestWriteSteps, EndSteps, HangUpSteps DEF Next, Handlers

\* ImplementsNegotiation: in whatever pieces the client's bytes arrive and the
\* answers leave, the messages are read each once and whole, and answered in
\* order, and the relay begins at the byte that follows the request.
THEOREM HandshakeImplementsNegotiation == Spec => ImplementsNegotiation
<1>1. Spec => []IInv
  BY Inductive
<1>2. Init => N!Init
  BY Starts
<1>3. IInv /\ IInv' /\ [Next]_vars => [N!Next]_(N!promised)
  BY Steps
<1> QED BY <1>1, <1>2, <1>3, PTL DEF Spec, ImplementsNegotiation, N!Spec
=============================================================================
