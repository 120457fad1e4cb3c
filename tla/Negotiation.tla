---------------------------- MODULE Negotiation ----------------------------
(* What the negotiation of a SOCKSv5 connection promises its client: its      *)
(* bytes are read as one message after the other, each once and whole, and    *)
(* each answered; the answers reach it in order and complete, the next        *)
(* message being read only after that; and the relay takes over at the byte   *)
(* that follows the request. In what pieces bytes arrive and leave does not   *)
(* show. Abstract: Handshake implements it.                                   *)
EXTENDS Messages

CONSTANTS Users, Capacity

VARIABLES
    stream,       \* all that the client says
    hung,         \* the client has hung up
    received,     \* how much of it has arrived
    heard,        \* how much of it has been read as messages
    turn,         \* what comes next
    wire,         \* what the client has been told
    said,         \* the answers
    username,     \* who the client is
    destination,  \* what it has asked for: an address and a port
    entries       \* the access log's entries about it

promised == <<stream, hung, received, heard, turn, wire, said, username,
              destination, entries>>

Nowhere == [address |-> <<>>, port |-> 0]
ConnectFailures == {1, 3, 4, 5}

Init ==
    /\ hung = FALSE /\ received = 0 /\ heard = 0
    /\ turn = "hello" /\ wire = <<>> /\ said = <<>>
    /\ username = DASH /\ destination = Nowhere /\ entries = <<>>

\* More may have arrived when a message is read.
Arrives == received' \in received .. Len(stream)
Message == SubSeq(stream, heard + 1, received')
Ready(t) == turn = t /\ wire = said /\ Arrives

Arrival ==
    /\ received' \in received + 1 .. Len(stream)
    /\ UNCHANGED <<stream, hung, heard, turn, wire, said, username, destination, entries>>

HangUp ==
    /\ hung' = TRUE
    /\ UNCHANGED <<stream, received, heard, turn, wire, said, username, destination, entries>>

HearHello ==
    /\ Ready("hello") /\ HelloWhole(Message)
    /\ heard' = heard + HelloLength(Message)
    /\ said' = said \o <<5, MethodChosen(Message)>>
    /\ turn' = CASE MethodChosen(Message) = USERPASS -> "auth"
                 [] MethodChosen(Message) = NOAUTH -> "request"
                 [] MethodChosen(Message) = UNACCEPTABLE -> "last"
    /\ UNCHANGED <<stream, hung, wire, username, destination, entries>>

HearAuth ==
    /\ Ready("auth") /\ AuthWhole(Message)
    /\ heard' = heard + AuthLength(Message)
    /\ IF <<Name(Message), Password(Message)>> \in Users
       THEN /\ said' = said \o <<1, 0>> /\ turn' = "request"
            /\ username' = Text(Name(Message))
       ELSE /\ said' = said \o <<1, 1>> /\ turn' = "last"
            /\ UNCHANGED username
    /\ UNCHANGED <<stream, hung, wire, destination, entries>>

\* A failure is logged, for the destination asked for if it could be read.
Refuse(reply) ==
    /\ said' = said \o <<5, reply, 0, IPV4, BOUND>>
    /\ turn' = "last"
    /\ entries' = Append(entries, [who |-> username, to |-> destination', reply |-> reply])

\* A success is logged, except (`log' is FALSE) after a second attempt.
Grant(log) ==
    /\ \E type \in {IPV4, IPV6} : said' = said \o <<5, 0, 0, type, BOUND>>
    /\ turn' = "granted"
    /\ entries' = IF log THEN Append(entries, [who |-> username, to |-> destination', reply |-> 0])
                  ELSE entries

HearRequest ==
    /\ Ready("request") /\ RequestWhole(Message)
    /\ heard' = heard + RequestLength(Message)
    /\ destination' = [address |-> CASE ~AddressKnown(Message) -> DASH
                                     [] Message[4] = DOMAIN_NAME -> Text(Address(Message))
                                     [] Message[4] \in {IPV4, IPV6} -> Address(Message),
                       port |-> Port(Message)]
    /\ IF Message[2] # CONNECT THEN Refuse(7)
       ELSE IF ~AddressKnown(Message) THEN Refuse(8)
       ELSE \/ turn' = "origin" /\ UNCHANGED <<said, entries>>
            \/ Grant(TRUE)
            \/ \E reply \in ConnectFailures : Refuse(reply)
    /\ UNCHANGED <<stream, hung, wire, username>>

HearBadRequest ==
    /\ Ready("request") /\ RequestErrors(Message) # {}
    /\ heard' = heard + FirstError(Message)
    /\ UNCHANGED destination
    /\ Refuse(1)
    /\ UNCHANGED <<stream, hung, wire, username>>

OriginAnswers ==
    /\ turn = "origin"
    /\ UNCHANGED destination
    /\ \/ \E log \in BOOLEAN : Grant(log)
       \/ \E reply \in ConnectFailures : Refuse(reply)
    /\ UNCHANGED <<stream, hung, received, heard, wire, username>>

\* Answers are delivered from their beginning; the last one ends the
\* connection, a grant starts the relay.
Deliver ==
    /\ \E n \in Len(wire) + 1 .. Len(said) : wire' = SubSeq(said, 1, n)
    /\ turn' = CASE turn = "last" /\ wire' = said -> "closed"
                 [] turn = "granted" /\ wire' = said -> "relay"
                 [] OTHER -> turn
    /\ UNCHANGED <<stream, hung, received, heard, said, username, destination, entries>>

\* The connection ends without an answer only if the client has hung up, has
\* said something that is no message, or has said more than it can be held.
Close ==
    /\ Arrives
    /\ \/ hung
       \/ turn = "hello" /\ HelloBad(Message)
       \/ turn = "auth" /\ AuthBad(Message)
       \/ received >= Capacity
    /\ turn \notin {"origin", "relay"}
    /\ turn' = "closed"
    /\ heard' \in heard .. received'
    /\ UNCHANGED <<stream, hung, wire, said, username, destination, entries>>

Next ==
    \/ Arrival \/ HangUp
    \/ HearHello \/ HearAuth \/ HearRequest \/ HearBadRequest
    \/ OriginAnswers \/ Deliver \/ Close

Spec == Init /\ [][Next]_promised
=============================================================================
