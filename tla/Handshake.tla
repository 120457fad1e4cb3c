------------------------------ MODULE Handshake ------------------------------
(* The negotiation of one SOCKSv5 connection, byte by byte: the parsers of    *)
(* src/src/socks5 and the engine of src/src/shared/parser.c, and the handlers *)
(* of src/src/server/socks5nio.c that run them from HELLO_READ until the      *)
(* relay. Only the client's descriptor is here: Socks5 has the other parts of *)
(* a connection, with the outcomes of this module left open.                  *)
(*                                                                            *)
(* An action Recv... receives any number of the client's bytes, an action     *)
(* Send... sends any number of the answer's. An address and port that an      *)
(* answer tells the client are one symbol, BOUND. An array that is filled   *)
(* through a position is a sequence.                                          *)
(*                                                                            *)
(* A definition whose name has the form Name_Fault is Name with a plausible   *)
(* programming error, against which the properties are tried; nothing in the  *)
(* specification uses it.                                                     *)
EXTENDS Messages

CONSTANTS
    Streams,   \* what clients say: sequences of bytes
    Users,     \* the pairs of a name and a password that the user store has
    Capacity   \* BUFFER_SIZE, the size of raw_buff_a

Byte == 0 .. 255

ASSUME HandshakeAssumption ==
    /\ Capacity \in Nat \ {0}
    /\ Streams \subseteq Seq(Byte)

VARIABLES
    stream,       \* what this client says ...
    received,     \* ... how much of it recv has returned ...
    hung,         \* ... and whether it has hung up
    state,        \* of the state machine; CLOSED stands for DONE and ERROR
    read_buffer,  \* its read position and what it holds
    write_buffer, \* what it holds: it starts anew whenever it is empty
    client,       \* the union: hello_st, auth_st or request_st with its parser
    username, requested_destination, request_logged,
    wire,         \* history: what the client has been sent
    entries       \* history: what access_log_add was given

peer == <<stream, hung>>
log == <<username, requested_destination, request_logged, entries>>
vars == <<peer, received, state, read_buffer, write_buffer, client, log, wire>>
-----------------------------------------------------------------------------
(* parser.c: an automaton is a table of transitions, of which the first that  *)
(* matches is taken. The event it returns is reused: its type stays what it   *)
(* was when an action does not set it.                                        *)

ANY == 512

ParserInit(start) == [state |-> start, type |-> "none"]

ParserFeed(table, p, c) ==
    LET fits == {i \in DOMAIN table[p.state] : table[p.state][i].when \in {c, ANY}} IN
    IF fits = {} THEN p
    ELSE LET t == table[p.state][CHOOSE i \in fits : \A j \in fits : i <= j] IN
         [state |-> t.dest, type |-> IF t.type = "same" THEN p.type ELSE t.type]

\* The tables of hello.c.
HelloStates ==
    [HELLO_VERSION  |-> <<[when |-> 5, dest |-> "HELLO_NMETHODS", type |-> "same"],
                          [when |-> ANY, dest |-> "HELLO_ERROR", type |-> "ERROR"]>>,
     HELLO_NMETHODS |-> <<[when |-> ANY, dest |-> "HELLO_METHODS", type |-> "NMETHODS"]>>,
     HELLO_METHODS  |-> <<[when |-> ANY, dest |-> "HELLO_METHODS", type |-> "METHOD"]>>,
     HELLO_ERROR    |-> <<>>]
-----------------------------------------------------------------------------
(* The parsers: what a byte c makes of one. They are over at DONE and ERROR.  *)

\* hello_read_init, hello_parser_init
HelloInit ==
    [of |-> "hello", at |-> "VERSION", engine |-> ParserInit("HELLO_VERSION"),
     remaining |-> 0, method |-> UNACCEPTABLE]

on_hello_method_LastWins(selected, method) ==
    IF method \in {USERPASS, NOAUTH} THEN method ELSE selected

on_hello_method(selected, method) ==
    IF method = USERPASS \/ (method = NOAUTH /\ selected = UNACCEPTABLE)
    THEN method ELSE selected

\* One turn of the loop of hello_consume.
HelloFeed(p, c) ==
    LET engine == ParserFeed(HelloStates, p.engine, c)
        q == [p EXCEPT !.engine = engine]
    IN  CASE engine.type = "ERROR" -> [q EXCEPT !.at = "ERROR"]
          [] engine.type = "NMETHODS" ->
               [q EXCEPT !.remaining = c, !.at = IF c = 0 THEN "ERROR" ELSE "METHODS"]
          [] engine.type = "METHOD" ->
               [q EXCEPT !.method = on_hello_method(@, c), !.remaining = @ - 1,
                         !.at = IF p.remaining = 1 THEN "DONE" ELSE @]
          [] engine.type = "none" ->
               [q EXCEPT !.at = IF @ = "VERSION" THEN "NMETHODS" ELSE @]

\* auth_read_init, auth_parser_init
AuthInit ==
    [of |-> "auth", at |-> "VERSION", username_len |-> 0, password_len |-> 0,
     username |-> <<>>, password |-> <<>>, authorized |-> FALSE]

AuthFeed_OneTooMany(p, c) ==
    CASE p.at = "VERSION" -> [p EXCEPT !.at = IF c = 1 THEN "ULEN" ELSE "ERROR"]
      [] p.at = "ULEN" ->
           [p EXCEPT !.username_len = c, !.at = IF c = 0 THEN "ERROR" ELSE "UNAME"]
      [] p.at = "UNAME" ->
           [p EXCEPT !.username = Append(@, c),
                     !.at = IF Len(p.username) + 1 = p.username_len THEN "PLEN" ELSE @]
      [] p.at = "PLEN" ->
           [p EXCEPT !.password_len = c, !.at = IF c = 0 THEN "ERROR" ELSE "PASSWD"]
      [] p.at = "PASSWD" ->
           [p EXCEPT !.password = Append(@, c),
                     !.at = IF Len(p.password) = p.password_len THEN "DONE" ELSE @]

\* One turn of the loop of auth_consume.
AuthFeed(p, c) ==
    CASE p.at = "VERSION" -> [p EXCEPT !.at = IF c = 1 THEN "ULEN" ELSE "ERROR"]
      [] p.at = "ULEN" ->
           [p EXCEPT !.username_len = c, !.at = IF c = 0 THEN "ERROR" ELSE "UNAME"]
      [] p.at = "UNAME" ->
           [p EXCEPT !.username = Append(@, c),
                     !.at = IF Len(p.username) + 1 = p.username_len THEN "PLEN" ELSE @]
      [] p.at = "PLEN" ->
           [p EXCEPT !.password_len = c, !.at = IF c = 0 THEN "ERROR" ELSE "PASSWD"]
      [] p.at = "PASSWD" ->
           [p EXCEPT !.password = Append(@, c),
                     !.at = IF Len(p.password) + 1 = p.password_len THEN "DONE" ELSE @]

\* request_read_init, request_parser_init; `answer' is the reply of request_st,
\* `reply' the parser's.
RequestInit ==
    [of |-> "request", at |-> "VERSION", cmd |-> 0, atyp |-> 0, addr |-> <<>>,
     domain_len |-> 0, port |-> 0, port_pos |-> 0, reply |-> 1, answer |-> 1]

address_length(p) ==
    CASE p.atyp = IPV4 -> 4 [] p.atyp = IPV6 -> 16 [] p.atyp = DOMAIN_NAME -> p.domain_len

\* One turn of the loop of request_consume. A domain_len of 0 says that the
\* length of the name is still to come.
RequestFeed(p, c) ==
    CASE p.at = "VERSION" -> [p EXCEPT !.at = IF c = 5 THEN "CMD" ELSE "ERROR"]
      [] p.at = "CMD" ->
           [p EXCEPT !.cmd = c, !.reply = IF c \in 1 .. 3 THEN @ ELSE 7, !.at = "RSV"]
      [] p.at = "RSV" ->
           IF c = 0 THEN [p EXCEPT !.at = "ATYP"]
           ELSE [p EXCEPT !.at = "ERROR", !.reply = 1]
      [] p.at = "ATYP" ->
           IF c \in {IPV4, IPV6, DOMAIN_NAME} THEN [p EXCEPT !.atyp = c, !.at = "DST_ADDR"]
           ELSE [p EXCEPT !.atyp = c, !.at = "DONE", !.reply = 8]
      [] p.at = "DST_ADDR" /\ p.atyp = DOMAIN_NAME /\ p.domain_len = 0 ->
           IF c = 0 THEN [p EXCEPT !.at = "ERROR", !.reply = 1]
           ELSE [p EXCEPT !.domain_len = c]
      [] p.at = "DST_ADDR" /\ ~(p.atyp = DOMAIN_NAME /\ p.domain_len = 0) ->
           [p EXCEPT !.addr = Append(@, c),
                     !.at = IF Len(p.addr) + 1 = address_length(p) THEN "DST_PORT" ELSE @]
      [] p.at = "DST_PORT" ->
           [p EXCEPT !.port = (256 * @ + c) % 65536, !.port_pos = @ + 1,
                     !.at = IF p.port_pos = 1 THEN "DONE" ELSE @]

Feed(p, c) ==
    CASE p.of = "hello" -> HelloFeed(p, c)
      [] p.of = "auth" -> AuthFeed(p, c)
      [] p.of = "request" -> RequestFeed(p, c)

Over(p) == p.at \in {"DONE", "ERROR"}

Turn(t, c) ==
    IF Over(t.parser) THEN t ELSE [parser |-> Feed(t.parser, c), used |-> t.used + 1]

Consume_WhateverIsThere(p, bytes) ==
    LET after[k \in 0 .. Len(bytes)] ==
            IF k = 0 THEN [parser |-> p, used |-> 0]
            ELSE CHOOSE t \in {Turn(u, bytes[k]) : u \in {after[k - 1]}} : TRUE
    IN  [after[Len(bytes)] EXCEPT !.used = Len(bytes)]

\* The loop of the three: it leaves what follows the message in the buffer.
\* (The singleton has TLC evaluate each turn once.)
Consume(p, bytes) ==
    LET after[k \in 0 .. Len(bytes)] ==  \* k turns
            IF k = 0 THEN [parser |-> p, used |-> 0]
            ELSE CHOOSE t \in {Turn(u, bytes[k]) : u \in {after[k - 1]}} : TRUE
    IN  after[Len(bytes)]
-----------------------------------------------------------------------------
(* Receiving, parsing and answering *)

Init ==
    /\ stream \in Streams
    /\ received = 0 /\ hung = FALSE
    /\ state = "HELLO_READ"
    /\ read_buffer = [start |-> 0, held |-> <<>>]
    /\ write_buffer = <<>>
    /\ client = HelloInit
    /\ username = DASH
    /\ requested_destination = [address |-> <<>>, port |-> 0]
    /\ request_logged = FALSE
    /\ wire = <<>> /\ entries = <<>>

Smaller(i, j) == IF i <= j THEN i ELSE j

Room_WholeArray == Capacity - Len(read_buffer.held)

\* The count that buffer_write_ptr gives.
Room == Capacity - read_buffer.start - Len(read_buffer.held)

\* recv returns n bytes, and the parser is run on all that the buffer holds,
\* which makes `parsed' of it. A buffer that it empties starts anew.
Recv(n, parsed) ==
    LET bytes == read_buffer.held \o SubSeq(stream, received + 1, received + n)
        used == parsed.used
    IN  /\ received' = received + n
        /\ read_buffer' = IF used = Len(bytes) THEN [start |-> 0, held |-> <<>>]
                          ELSE [start |-> read_buffer.start + used,
                                held |-> SubSeq(bytes, used + 1, Len(bytes))]

Parsed(n) ==
    Consume(client, read_buffer.held \o SubSeq(stream, received + 1, received + n))

Receivable == 1 .. Smaller(Room, Len(stream) - received)

\* What a handler does when its parser is not over, or has met an error.
ParseMore(p) ==
    /\ client' = p
    /\ UNCHANGED <<state, write_buffer>>

ParseError(p) ==
    /\ client' = p
    /\ state' = "CLOSED"
    /\ UNCHANGED write_buffer

hello_marshall(method) == write_buffer' = write_buffer \o <<5, method>>
auth_marshall(status) == write_buffer' = write_buffer \o <<1, status>>
request_marshall(reply, type) == write_buffer' = write_buffer \o <<5, reply, 0, type, BOUND>>

\* hello_read and hello_process
HelloRead ==
    /\ state = "HELLO_READ"
    /\ \E n \in Receivable :
         LET parsed == Parsed(n)
             p == parsed.parser
         IN
         /\ Recv(n, parsed)
         /\ \/ ~Over(p) /\ ParseMore(p)
            \/ p.at = "ERROR" /\ ParseError(p)
            \/ /\ p.at = "DONE"
               /\ client' = p
               /\ hello_marshall(p.method)
               /\ state' = "HELLO_WRITE"
    /\ UNCHANGED <<peer, log, wire>>

\* auth_read and auth_process
AuthRead ==
    /\ state = "AUTH_READ"
    /\ \E n \in Receivable :
         LET parsed == Parsed(n)
             p == parsed.parser
             granted == <<p.username, p.password>> \in Users
         IN
         /\ Recv(n, parsed)
         /\ \/ ~Over(p) /\ ParseMore(p) /\ UNCHANGED username
            \/ p.at = "ERROR" /\ ParseError(p) /\ UNCHANGED username
            \/ /\ p.at = "DONE"
               /\ client' = [p EXCEPT !.authorized = granted]
               /\ username' = IF granted THEN Text(p.username) ELSE username
               /\ auth_marshall(IF granted THEN 0 ELSE 1)
               /\ state' = "AUTH_WRITE"
    /\ UNCHANGED <<peer, requested_destination, request_logged, entries, wire>>
-----------------------------------------------------------------------------
(* The request. p is its parser; destination and logged are what the handler  *)
(* has made of requested_destination and request_logged by now.               *)

ConnectFailures == {1, 3, 4, 5}  \* request_reply_for_connect_error

access_log_add(destination, reply) ==
    entries' = Append(entries, [who |-> username, to |-> destination, reply |-> reply])

\* request_set_reply, with a failure
SetReply(p, reply, destination, logged) ==
    /\ client' = [p EXCEPT !.answer = reply]
    /\ IF logged THEN UNCHANGED entries ELSE access_log_add(destination, reply)
    /\ request_logged' = TRUE
    /\ request_marshall(reply, IPV4)
    /\ state' = "REQUEST_WRITE"

\* The origin is connected; `calls': request_log_success is called. The client
\* is told the address that request_marshall_origin_bind finds.
Succeed(p, destination, logged, calls) ==
    /\ client' = [p EXCEPT !.answer = 0]
    /\ IF calls /\ ~logged THEN access_log_add(destination, 0) ELSE UNCHANGED entries
    /\ request_logged' = (logged \/ calls)
    /\ \E type \in {IPV4, IPV6} : request_marshall(0, type)
    /\ state' = "REQUEST_WRITE"

Wait(p, for, logged) ==
    /\ client' = p
    /\ state' = for
    /\ request_logged' = logged
    /\ UNCHANGED <<entries, write_buffer>>

Destination(p) ==
    [address |-> CASE p.atyp = DOMAIN_NAME -> Text(p.addr)
                   [] p.atyp \in {IPV4, IPV6} -> p.addr
                   [] p.atyp \notin {DOMAIN_NAME, IPV4, IPV6} -> DASH,
     port |-> p.port]

request_process_TypeFirst(p) ==
    /\ requested_destination' = Destination(p)
    /\ \/ /\ p.cmd # CONNECT /\ p.atyp \in {IPV4, IPV6, DOMAIN_NAME}
          /\ SetReply(p, 7, Destination(p), FALSE)
       \/ /\ p.cmd = CONNECT /\ p.atyp = DOMAIN_NAME
          /\ SetReply(p, 1, Destination(p), FALSE) \/ Wait(p, "RESOLVING", FALSE)
       \/ /\ p.atyp \notin {IPV4, IPV6, DOMAIN_NAME}
          /\ SetReply(p, 8, Destination(p), FALSE)
       \/ /\ p.cmd = CONNECT /\ p.atyp \in {IPV4, IPV6}
          /\ \/ \E r \in ConnectFailures : SetReply(p, r, Destination(p), FALSE)
             \/ Wait(p, "CONNECTING", FALSE)
             \/ Succeed(p, Destination(p), FALSE, TRUE)

\* request_process, with request_remember_destination; the thread of a
\* resolution may not start, a connect() may fail, wait or succeed.
request_process(p) ==
    /\ requested_destination' = Destination(p)
    /\ \/ /\ p.cmd # CONNECT
          /\ SetReply(p, 7, Destination(p), FALSE)
       \/ /\ p.cmd = CONNECT /\ p.atyp = DOMAIN_NAME
          /\ SetReply(p, 1, Destination(p), FALSE) \/ Wait(p, "RESOLVING", FALSE)
       \/ /\ p.cmd = CONNECT /\ p.atyp \notin {IPV4, IPV6, DOMAIN_NAME}
          /\ SetReply(p, 8, Destination(p), FALSE)
       \/ /\ p.cmd = CONNECT /\ p.atyp \in {IPV4, IPV6}
          /\ \/ \E r \in ConnectFailures : SetReply(p, r, Destination(p), FALSE)
             \/ Wait(p, "CONNECTING", FALSE)
             \/ Succeed(p, Destination(p), FALSE, TRUE)

\* request_read
RequestRead ==
    /\ state = "REQUEST_READ"
    /\ \E n \in Receivable :
         LET parsed == Parsed(n)
             p == parsed.parser
         IN
         /\ Recv(n, parsed)
         /\ \/ /\ ~Over(p) /\ ParseMore(p)
               /\ UNCHANGED <<requested_destination, request_logged, entries>>
            \/ /\ p.at = "ERROR"
               /\ SetReply(p, p.reply, requested_destination, request_logged)
               /\ UNCHANGED requested_destination
            \/ p.at = "DONE" /\ request_process(p)
    /\ UNCHANGED <<peer, username, wire>>

\* resolving: the name cannot be resolved, or as `connecting' with the first
\* address.
Resolving ==
    /\ state = "RESOLVING"
    /\ \/ \E r \in ConnectFailures : SetReply(client, r, requested_destination, request_logged)
       \/ Wait(client, "CONNECTING", request_logged)
       \/ Succeed(client, requested_destination, request_logged, TRUE)
    /\ UNCHANGED <<peer, received, read_buffer, username, requested_destination, wire>>

\* connecting: the origin answers. When it fails, another address may be tried,
\* which if it succeeds at once is not logged.
Connecting ==
    /\ state = "CONNECTING"
    /\ \/ \E r \in ConnectFailures : SetReply(client, r, requested_destination, request_logged)
       \/ \E calls \in BOOLEAN : Succeed(client, requested_destination, request_logged, calls)
    /\ UNCHANGED <<peer, received, read_buffer, username, requested_destination, wire>>
-----------------------------------------------------------------------------
(* Sending *)

\* send takes n bytes.
Send(n) ==
    /\ wire' = wire \o SubSeq(write_buffer, 1, n)
    /\ write_buffer' = SubSeq(write_buffer, n + 1, Len(write_buffer))
    /\ UNCHANGED <<peer, received, read_buffer, log>>

\* A handler moves on to state `next' once all is sent.
SendThen_Anyway(next, arrival) ==
    \E n \in 1 .. Len(write_buffer) :
        /\ Send(n)
        /\ state' = next /\ client' = arrival

SendThen(next, arrival) ==
    \E n \in 1 .. Len(write_buffer) :
        /\ Send(n)
        /\ IF n < Len(write_buffer) THEN UNCHANGED <<state, client>>
           ELSE state' = next /\ client' = arrival

\* hello_write, and the init function of the state that follows
HelloWrite ==
    /\ state = "HELLO_WRITE"
    /\ \/ client.method = UNACCEPTABLE /\ SendThen("CLOSED", client)
       \/ client.method = USERPASS /\ SendThen("AUTH_READ", AuthInit)
       \/ client.method = NOAUTH /\ SendThen("REQUEST_READ", RequestInit)

\* auth_write
AuthWrite ==
    /\ state = "AUTH_WRITE"
    /\ \/ ~client.authorized /\ SendThen("CLOSED", client)
       \/ client.authorized /\ SendThen("REQUEST_READ", RequestInit)

\* request_write. The origin has a descriptor if the answer is a success.
RequestWrite ==
    /\ state = "REQUEST_WRITE"
    /\ SendThen(IF client.answer = 0 THEN "COPY" ELSE "CLOSED", client)

\* recv returns 0 or an error: the client has hung up, or (what comes first)
\* there is no room to receive anything.
ReadEnd ==
    /\ state \in {"HELLO_READ", "AUTH_READ", "REQUEST_READ"}
    /\ hung \/ Room = 0
    /\ state' = "CLOSED"
    /\ UNCHANGED <<peer, received, read_buffer, write_buffer, client, log, wire>>

\* send fails.
WriteEnd ==
    /\ state \in {"HELLO_WRITE", "AUTH_WRITE", "REQUEST_WRITE"}
    /\ hung
    /\ state' = "CLOSED"
    /\ UNCHANGED <<peer, received, read_buffer, write_buffer, client, log, wire>>

\* The client's part.
HangUp ==
    /\ ~hung
    /\ hung' = TRUE
    /\ UNCHANGED <<stream, received, state, read_buffer, write_buffer, client, log, wire>>

Handlers ==
    \/ HelloRead \/ AuthRead \/ RequestRead \/ ReadEnd
    \/ HelloWrite \/ AuthWrite \/ RequestWrite \/ WriteEnd
    \/ Resolving \/ Connecting

Next == Handlers \/ HangUp

\* The main loop serves a descriptor that is ready, a client that has more to
\* say says it, and a resolution and a connect() come to an end.
Spec == Init /\ [][Next]_vars /\ WF_vars(Handlers)
-----------------------------------------------------------------------------
(* Properties *)

Reading == {"HELLO_READ", "AUTH_READ", "REQUEST_READ"}

\* The types: in particular the positions stay within raw_buff_a, the fields
\* within the parsers' arrays, and the union is the one of the state.
TypeOK ==
    /\ stream \in Streams
    /\ received \in 0 .. Len(stream)
    /\ hung \in BOOLEAN /\ request_logged \in BOOLEAN
    /\ read_buffer.start + Len(read_buffer.held) \in 0 .. Capacity
    /\ state \in {"HELLO_READ", "HELLO_WRITE"} => client.of = "hello"
    /\ state \in {"AUTH_READ", "AUTH_WRITE"} =>
         /\ client.of = "auth"
         /\ Len(client.username) <= client.username_len
         /\ Len(client.password) <= client.password_len
    /\ state \in {"REQUEST_READ", "RESOLVING", "CONNECTING", "REQUEST_WRITE", "COPY"} =>
         /\ client.of = "request"
         /\ Len(client.addr) <= 255
         /\ client.atyp \in {IPV4, IPV6} => Len(client.addr) <= 16
         /\ client.port \in Nat /\ client.port <= 65535 /\ client.port_pos <= 2

\* While a message is read nothing of the last answer is left: an answer always
\* has room, and two of them never mix (the marshall functions are told neither
\* where to start nor whether they fit).
AnswersSeparate == state \in Reading => write_buffer = <<>>

\* However the bytes arrive, nobody gets as far as a request without a name and
\* a password that the user store has, unless it did not offer to give them
\* (on_hello_method, auth_process, hello_write, auth_write).
Authenticated ==
    state \in {"REQUEST_READ", "RESOLVING", "CONNECTING", "REQUEST_WRITE", "COPY"} =>
        IF USERPASS \in Offered(stream)
        THEN /\ <<client.of, username>> \in {<<"request", Text(user[1])>> : user \in Users}
             /\ SubSeq(wire, 3, 4) = <<1, 0>>
        ELSE username = DASH /\ NOAUTH \in Offered(stream)

\* How much of the stream the messages before the one being read take.
Begun ==
    CASE state = "HELLO_READ" -> 0
      [] state = "AUTH_READ" -> HelloLength(stream)
      [] state = "REQUEST_READ" ->
           HelloLength(stream)
             + IF Len(wire) = 2 THEN 0
               ELSE AuthLength(SubSeq(stream, HelloLength(stream) + 1, Len(stream)))

\* What Negotiation calls heard, said and turn.
Heard == IF state \in Reading THEN Begun ELSE received - Len(read_buffer.held)
Said == wire \o write_buffer
Comes ==
    CASE state = "HELLO_READ" -> "hello"
      [] state = "HELLO_WRITE" -> IF client.method = USERPASS THEN "auth"
                                  ELSE IF client.method = NOAUTH THEN "request" ELSE "last"
      [] state = "AUTH_READ" -> "auth"
      [] state = "AUTH_WRITE" -> IF client.authorized THEN "request" ELSE "last"
      [] state = "REQUEST_READ" -> "request"
      [] state \in {"RESOLVING", "CONNECTING"} -> "origin"
      [] state = "REQUEST_WRITE" -> IF client.answer = 0 THEN "granted" ELSE "last"
      [] state = "COPY" -> "relay"
      [] state = "CLOSED" -> "closed"

\* The handshake implements Negotiation: whatever pieces the bytes arrive in,
\* they are read as the same messages, each once, given the same answers, and
\* leave the same entries in the access log; and what follows the request is
\* what the relay has in its buffer.
N == INSTANCE Negotiation WITH
        heard <- Heard, said <- Said, destination <- requested_destination, turn <- Comes

ImplementsNegotiation == N!Spec

\* The message that is being read is there to be received, whole or bad.
Complete ==
    LET m == SubSeq(stream, Begun + 1, Len(stream)) IN
    \/ state = "HELLO_READ" /\ (HelloWhole(m) \/ HelloBad(m))
    \/ state = "AUTH_READ" /\ (AuthWhole(m) \/ AuthBad(m))
    \/ state = "REQUEST_READ" /\ (RequestWhole(m) \/ RequestErrors(m) # {})

\* Every complete message is answered, or ends the connection, provided that
\* part of it is still to arrive: parsing starts with a recv. (A message that
\* has arrived whole, ahead of the answer to the one before it, stays in
\* read_buffer until the client says more.)
Answered ==
    \A at \in Reading :
        state = at /\ Complete /\ received < Len(stream) ~> state # at
=============================================================================
