------------------------------ MODULE Lifetime ------------------------------
(* What the reference count and the pool of src/src/server/socks5nio.c promise *)
(* about a struct socks5, without a counter and without a pool: it is in use   *)
(* exactly as long as somebody uses it.                                        *)
CONSTANT Object

User == {"client", "origin", "resolver"}

VARIABLES
    users,  \* users[o]: who may still reach o
    inUse   \* the objects that cannot be handed out
vars == <<users, inUse>>

Init ==
    /\ users = [o \in Object |-> {}]
    /\ inUse = {}

\* The object is in use from the first user to the last.
Becomes(o, us) ==
    /\ users' = [users EXCEPT ![o] = us]
    /\ inUse' = IF us = {} THEN inUse \ {o} ELSE inUse \cup {o}

\* Only an object out of use starts a connection.
Start(o) == o \notin inUse /\ Becomes(o, {"client"})

\* The connection, while it has its client, opens an origin or a thread.
Borrow(o, u) ==
    /\ "client" \in users[o] /\ u \in {"origin", "resolver"} \ users[o]
    /\ Becomes(o, users[o] \cup {u})

\* An origin is given up, a connection ends, a thread ends.
GiveUpOrigin(o) == "origin" \in users[o] /\ Becomes(o, users[o] \ {"origin"})
End(o) == "client" \in users[o] /\ Becomes(o, users[o] \ {"client", "origin"})
Return(o) == "resolver" \in users[o] /\ Becomes(o, users[o] \ {"resolver"})

Next ==
    \E o \in Object :
        \/ Start(o) \/ \E u \in User : Borrow(o, u)
        \/ GiveUpOrigin(o) \/ End(o) \/ Return(o)

Spec == Init /\ [][Next]_vars
=============================================================================
