------------------------------ MODULE Messages ------------------------------
(* What a SOCKSv5 client says (RFC 1928 and 1929), read as whole messages: m  *)
(* is what is known of the client's bytes from the first byte of a message    *)
(* on. A message is bad as soon as one of its bytes says so, and whole once   *)
(* its last byte is there. This is the reference that the parsers of          *)
(* src/src/socks5, which see one byte at a time, are held against.            *)
EXTENDS Integers, Sequences

NOAUTH == 0
USERPASS == 2
UNACCEPTABLE == 255

DASH == <<45>>  \* the text "-", for what is not known
BOUND == -1     \* stands for an address and a port that the client is told

\* A C string ends at its first zero.
Text(bytes) ==
    LET zeros == {k \in 1 .. Len(bytes) : bytes[k] = 0} IN
    IF zeros = {} THEN bytes
    ELSE SubSeq(bytes, 1, (CHOOSE k \in zeros : \A j \in zeros : k <= j) - 1)

HelloBad(m) ==
    \/ Len(m) >= 1 /\ m[1] # 5
    \/ Len(m) >= 2 /\ m[2] = 0
HelloLength(m) == 2 + m[2]
HelloWhole(m) == ~HelloBad(m) /\ Len(m) >= 2 /\ Len(m) >= HelloLength(m)

Offered(m) == {m[k] : k \in 3 .. HelloLength(m)}
MethodChosen(m) ==
    IF USERPASS \in Offered(m) THEN USERPASS
    ELSE IF NOAUTH \in Offered(m) THEN NOAUTH ELSE UNACCEPTABLE

\* The password's length follows the name.
AuthKnown(m) == Len(m) >= 2 /\ Len(m) >= 3 + m[2]
AuthBad(m) ==
    \/ Len(m) >= 1 /\ m[1] # 1
    \/ Len(m) >= 2 /\ m[2] = 0
    \/ AuthKnown(m) /\ m[3 + m[2]] = 0
AuthLength(m) == 3 + m[2] + m[3 + m[2]]
AuthWhole(m) == ~AuthBad(m) /\ AuthKnown(m) /\ Len(m) >= AuthLength(m)
Name(m) == SubSeq(m, 3, 2 + m[2])
Password(m) == SubSeq(m, 4 + m[2], AuthLength(m))

IPV4 == 1
DOMAIN_NAME == 3
IPV6 == 4
CONNECT == 1

\* Where a request is bad.
RequestErrors(m) ==
    {k \in {1, 3, 5} :
        /\ k <= Len(m)
        /\ \/ k = 1 /\ m[1] # 5
           \/ k = 3 /\ m[3] # 0
           \/ k = 5 /\ m[4] = DOMAIN_NAME /\ m[5] = 0}
FirstError(m) == CHOOSE k \in RequestErrors(m) : \A j \in RequestErrors(m) : k <= j

\* An address of an unknown type ends the request: its length is not known.
RequestKnown(m) == Len(m) >= 4 /\ (m[4] = DOMAIN_NAME => Len(m) >= 5)
AddressKnown(m) == m[4] \in {IPV4, DOMAIN_NAME, IPV6}
RequestLength(m) ==
    CASE m[4] = IPV4 -> 10
      [] m[4] = IPV6 -> 22
      [] m[4] = DOMAIN_NAME -> 7 + m[5]
      [] ~AddressKnown(m) -> 4
RequestWhole(m) ==
    RequestErrors(m) = {} /\ RequestKnown(m) /\ Len(m) >= RequestLength(m)
Address(m) ==
    IF ~AddressKnown(m) THEN <<>>
    ELSE SubSeq(m, IF m[4] = DOMAIN_NAME THEN 6 ELSE 5, RequestLength(m) - 2)
Port(m) ==
    IF ~AddressKnown(m) THEN 0
    ELSE 256 * m[RequestLength(m) - 1] + m[RequestLength(m)]
=============================================================================
