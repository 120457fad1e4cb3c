------------------------------ MODULE UserStore ------------------------------
(* The functions of src/src/server/user_store.c on the array of users. A      *)
(* username or a password is a member of Field; Valid are those that          *)
(* valid_field accepts.                                                       *)
(*                                                                            *)
(* A definition whose name has the form name_Fault is name with a plausible   *)
(* programming error, against which the properties are tried; nothing in the  *)
(* specifications uses it.                                                    *)
EXTENDS Integers, FiniteSets, FiniteSetsExt

CONSTANTS
    Field,     \* what callers pass as a username or a password
    Valid,     \* the fields of 1 .. USER_STORE_MAX_FIELD bytes
    MaxUsers,  \* USER_STORE_MAX_USERS
    NoUser     \* an entry that is not used: remove clears it as a whole

ASSUME UserStoreAssumption ==
    /\ Valid \subseteq Field
    /\ MaxUsers \in Nat
    /\ NoUser \notin [username : Field, password : Field]

Slots   == 0 .. MaxUsers - 1
Entries == [username : Valid, password : Valid]
Stores  == [Slots -> Entries \cup {NoUser}]

Used(users) == {i \in Slots : users[i] # NoUser}

\* find_user returns the first of these.
Found(users, u) == {i \in Used(users) : users[i].username = u}

user_store_validate(users, u, p) ==
    /\ u \in Valid /\ p \in Valid
    /\ Found(users, u) # {}
    /\ users[Min(Found(users, u))].password = p

user_store_add_Twice(users, u, p) ==
    u \in Valid /\ p \in Valid /\ Used(users) # Slots

user_store_add_Any(users, u, p) == Found(users, u) = {} /\ Used(users) # Slots

\* What user_store_add and user_store_remove answer, and leave in the array.
user_store_add(users, u, p) ==
    u \in Valid /\ p \in Valid /\ Found(users, u) = {} /\ Used(users) # Slots

Added(users, u, p) ==
    IF user_store_add(users, u, p)
    THEN [users EXCEPT ![Min(Slots \ Used(users))] = [username |-> u, password |-> p]]
    ELSE users

user_store_remove(users, u) == u \in Valid /\ Found(users, u) # {}

Removed(users, u) ==
    IF user_store_remove(users, u)
    THEN [users EXCEPT ![Min(Found(users, u))] = NoUser]
    ELSE users

user_store_count(users) == Cardinality(Used(users))

user_store_get_username_BySlot(users, k) ==
    users[IF k \in Used(users) THEN k ELSE Min(Used(users))].username

\* The k-th user, from 0, in the order of the array.
user_store_get_username(users, k) ==
    users[CHOOSE i \in Used(users) : Cardinality({j \in Used(users) : j < i}) = k].username

\* The loop of LIST-USERS over the two.
Listing(users) ==
    [k \in 1 .. user_store_count(users) |-> user_store_get_username(users, k - 1)]
=============================================================================
