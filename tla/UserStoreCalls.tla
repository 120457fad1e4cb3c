---------------------------- MODULE UserStoreCalls ----------------------------
(* The user store of src/src/server/user_store.c under any sequence of calls: *)
(* those of the monitor's commands (ADD-USER, DEL-USER, LIST-USERS), of the   *)
(* options that main adds, and of auth_read (validate). All come from the     *)
(* main thread, one at a time.                                                *)
EXTENDS UserStore

CONSTANT NoPassword

ASSUME CallsAssumption == NoPassword \notin Field

VARIABLES
    users,
    call  \* history: the last call and its answer

vars == <<users, call>>

Init ==
    /\ users = [i \in Slots |-> NoUser]
    /\ call = [op |-> "none"]

Validate(u, p) ==
    /\ call' = [op |-> "validate", user |-> u, password |-> p,
                answer |-> user_store_validate(users, u, p)]
    /\ UNCHANGED users

Add(u, p) ==
    /\ call' = [op |-> "add", user |-> u, password |-> p,
                answer |-> user_store_add(users, u, p)]
    /\ users' = Added(users, u, p)

Remove(u) ==
    /\ call' = [op |-> "remove", user |-> u, answer |-> user_store_remove(users, u)]
    /\ users' = Removed(users, u)

List ==
    /\ call' = [op |-> "list", answer |-> Listing(users)]
    /\ UNCHANGED users

Next ==
    \/ \E u, p \in Field : Validate(u, p) \/ Add(u, p)
    \/ \E u \in Field : Remove(u)
    \/ List

Spec == Init /\ [][Next]_vars
-----------------------------------------------------------------------------
(* Properties *)

\* The entries in use hold fields of a legal length (valid_field).
TypeOK == users \in Stores

\* No user is in the array twice, so that a removed user is gone and a listing
\* has no repetition (user_store_add's find_user).
NamesUnique ==
    \A i, j \in Used(users) : users[i].username = users[j].username => i = j

\* The password of each user: the mapping to Directory.
Passwords ==
    [u \in Valid |-> IF Found(users, u) = {} THEN NoPassword
                     ELSE users[Min(Found(users, u))].password]

\* The array with its holes answers every call as a Directory would: what is
\* added can log in until it is removed, the capacity is usable to the last
\* entry, and a listing has every user once.
D == INSTANCE Directory WITH password <- Passwords

ImplementsDirectory == D!Spec
=============================================================================
