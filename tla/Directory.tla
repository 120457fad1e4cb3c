------------------------------ MODULE Directory ------------------------------
(* What src/src/server/user_store.c promises its callers, without an array: a *)
(* password for each of at most MaxUsers users.                               *)
EXTENDS Integers, FiniteSets

CONSTANTS Field, Valid, MaxUsers, NoPassword

VARIABLES
    password,  \* password[u], NoPassword when u is not a user
    call       \* the last call and its answer

vars == <<password, call>>

Known == {u \in Valid : password[u] # NoPassword}

Init ==
    /\ password = [u \in Valid |-> NoPassword]
    /\ call = [op |-> "none"]

Validate(u, p) ==
    /\ call' = [op |-> "validate", user |-> u, password |-> p,
                answer |-> u \in Known /\ p \in Valid /\ password[u] = p]
    /\ UNCHANGED password

Add(u, p) ==
    LET accepted == /\ u \in Valid \ Known /\ p \in Valid
                    /\ Cardinality(Known) < MaxUsers
    IN
    /\ call' = [op |-> "add", user |-> u, password |-> p, answer |-> accepted]
    /\ password' = IF accepted THEN [password EXCEPT ![u] = p] ELSE password

Remove(u) ==
    /\ call' = [op |-> "remove", user |-> u, answer |-> u \in Known]
    /\ password' = IF u \in Known THEN [password EXCEPT ![u] = NoPassword] ELSE password

\* Every user once, in some order.
List ==
    /\ \E l \in [1 .. Cardinality(Known) -> Known] :
         /\ \A i, j \in DOMAIN l : l[i] = l[j] => i = j
         /\ call' = [op |-> "list", answer |-> l]
    /\ UNCHANGED password

Next ==
    \/ \E u, p \in Field : Validate(u, p) \/ Add(u, p)
    \/ \E u \in Field : Remove(u)
    \/ List

Spec == Init /\ [][Next]_vars
=============================================================================
