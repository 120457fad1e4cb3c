----------------------------- MODULE MCHandshake -----------------------------
\* Clients for Handshake: conversations put together from good and bad messages,
\* and every short sequence of some bytes.
EXTENDS Handshake

Hellos == {<<5, 1, 0>>, <<5, 1, 2>>, <<5, 2, 0, 2>>, <<5, 3, 2, 0, 9>>, <<5, 1, 9>>}
Auths == {<<1, 1, 7, 1, 9>>, <<1, 2, 7, 0, 2, 9, 9>>, <<1, 1, 7, 1, 8>>, <<1, 2, 7, 7, 1, 9>>,
          <<1, 1, 7, 0>>}
Requests == {<<5, 1, 0, 1, 1, 2, 3, 4, 0, 80>>,
             <<5, 1, 0, 4, 1, 2, 3, 4, 5, 6, 7, 8, 9, 1, 2, 3, 4, 5, 6, 7, 31, 255>>,
             <<5, 1, 0, 3, 2, 8, 0, 1, 0>>, <<5, 1, 0, 3, 0, 5>>,
             <<5, 2, 0, 1, 1, 2, 3, 4, 0, 80>>, <<5, 9, 0, 6, 5>>, <<5, 1, 0, 6, 5>>,
             <<5, 9, 1, 1, 5>>, <<4, 1, 0>>}
Payloads == {<<>>, <<6, 6>>}
Bytes == {0, 1, 2, 5}

MCStreams ==
    {h \o <<5, 1, 0, 1, 1, 2, 3, 4, 0, 80>> \o p : h \in Hellos, p \in Payloads}
    \cup {<<5, 1, 0>> \o r \o p : r \in Requests, p \in Payloads}
    \cup {<<5, 2, 0, 2>> \o a \o r : a \in Auths, r \in Requests \cup {<<>>}}
    \cup UNION {[1 .. n -> Bytes] : n \in 0 .. 5}
MCUsers == {<<<<7>>, <<9>>>>, <<<<7, 0>>, <<9, 9>>>>}
=============================================================================
