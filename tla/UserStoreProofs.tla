--------------------------- MODULE UserStoreProofs ---------------------------
(* The array of users keeps its types, never holds a user twice, and answers  *)
(* every call as a Directory does, for any capacity and any set of fields.    *)
EXTENDS UserStoreCalls, Induction, FiniteSetTheorems, FunctionTheorems

USE UserStoreAssumption DEF UserStoreAssumption

-----------------------------------------------------------------------------
(* Types, and that users are unique. Which free entry user_store_add takes,   *)
(* and which of the entries found user_store_remove clears, does not matter.  *)

LEMMA AddKeepsUsers ==
    ASSUME TypeOK, NamesUnique, NEW u \in Field, NEW p \in Field, Add(u, p)
    PROVE  TypeOK' /\ NamesUnique'
<1> DEFINE new == [username |-> u, password |-> p]
           place == Min(Slots \ Used(users))
<1>1. CASE user_store_add(users, u, p)
  <2>1. users' = [users EXCEPT ![place] = new] /\ new \in Entries
    BY <1>1 DEF Add, Added, user_store_add, Entries
  <2> HIDE DEF place
  <2>2. \A i \in Slots : users'[i] = IF i = place THEN new ELSE users[i]
    BY <2>1 DEF TypeOK, Stores
  <2>3. TypeOK'
    BY <2>1 DEF TypeOK, Stores
  <2>4. \A i \in Used(users) : users[i].username # u
    BY <1>1 DEF user_store_add, Found
  <2>5. ASSUME NEW i \in Used(users)', NEW j \in Used(users)',
               users'[i].username = users'[j].username
        PROVE  i = j
    <3>1. i \in Slots /\ j \in Slots /\ users'[i] # NoUser /\ users'[j] # NoUser
      BY DEF Used
    <3>2. CASE i = place \/ j = place
      BY <2>2, <2>4, <2>5, <3>1, <3>2 DEF Used
    <3>3. CASE i # place /\ j # place
      BY <2>2, <2>5, <3>1, <3>3 DEF Used, NamesUnique
    <3> QED
      BY <3>2, <3>3
  <2> QED
    BY <2>3, <2>5 DEF NamesUnique
<1>2. CASE ~user_store_add(users, u, p)
  BY <1>2 DEF Add, Added, TypeOK, NamesUnique, Used
<1> QED
  BY <1>1, <1>2

LEMMA RemoveKeepsUsers ==
    ASSUME TypeOK, NamesUnique, NEW u \in Field, Remove(u)
    PROVE  TypeOK' /\ NamesUnique'
<1> DEFINE place == Min(Found(users, u))
<1>1. CASE user_store_remove(users, u)
  <2>1. users' = [users EXCEPT ![place] = NoUser]
    BY <1>1 DEF Remove, Removed
  <2> HIDE DEF place
  <2>2. TypeOK'
    BY <2>1 DEF TypeOK, Stores
  <2>3. \A i \in Used(users)' : i \in Used(users) /\ users'[i] = users[i]
    BY <2>1 DEF TypeOK, Stores, Used
  <2> QED
    BY <2>2, <2>3 DEF NamesUnique
<1>2. CASE ~user_store_remove(users, u)
  BY <1>2 DEF Remove, Removed, TypeOK, NamesUnique, Used
<1> QED
  BY <1>1, <1>2

LEMMA StoreInductive == Spec => [](TypeOK /\ NamesUnique)
<1>1. Init => TypeOK /\ NamesUnique
  BY DEF Init, TypeOK, Stores, NamesUnique, Used
<1>2. TypeOK /\ NamesUnique /\ [Next]_vars => (TypeOK /\ NamesUnique)'
  <2> SUFFICES ASSUME TypeOK, NamesUnique, [Next]_vars
               PROVE  TypeOK' /\ NamesUnique'
    OBVIOUS
  <2>1. ASSUME NEW u \in Field, NEW p \in Field, Validate(u, p)
        PROVE  TypeOK' /\ NamesUnique'
    BY <2>1 DEF Validate, TypeOK, NamesUnique, Used
  <2>2. ASSUME NEW u \in Field, NEW p \in Field, Add(u, p)
        PROVE  TypeOK' /\ NamesUnique'
    BY <2>2, AddKeepsUsers
  <2>3. ASSUME NEW u \in Field, Remove(u)
        PROVE  TypeOK' /\ NamesUnique'
    BY <2>3, RemoveKeepsUsers
  <2>4. CASE List
    BY <2>4 DEF List, TypeOK, NamesUnique, Used
  <2>5. CASE UNCHANGED vars
    BY <2>5 DEF vars, TypeOK, NamesUnique, Used
  <2> QED
    BY <2>1, <2>2, <2>3, <2>4, <2>5 DEF Next
<1> QED
  BY <1>1, <1>2, PTL DEF Spec

\* The entries in use hold legal fields, for every capacity (valid_field).
THEOREM StoreTypeCorrect == Spec => []TypeOK
BY StoreInductive, PTL

\* No user is in the array twice, for every capacity and any sequence of calls
\* (user_store_add).
THEOREM UsersAreUnique == Spec => []NamesUnique
BY StoreInductive, PTL

-----------------------------------------------------------------------------
(* An array without repetitions as a map *)

Unique(store) ==
    \A i, j \in Used(store) : store[i].username = store[j].username => i = j

Pass(store) ==
    [u \in Valid |-> IF Found(store, u) = {} THEN NoPassword
                     ELSE store[Min(Found(store, u))].password]

LEMMA UsedEntries ==
    ASSUME NEW store \in Stores, NEW i \in Used(store)
    PROVE  /\ i \in Slots /\ i \in Nat
           /\ store[i].username \in Valid /\ store[i].password \in Valid
           /\ i \in Found(store, store[i].username)
<1>1. i \in Slots /\ i \in Nat /\ store[i] \in Entries
  BY DEF Used, Stores, Slots
<1> QED BY <1>1 DEF Entries, Found

\* What is found is found in one place.
LEMMA FoundOnce ==
    ASSUME NEW store \in Stores, Unique(store), NEW u, NEW i \in Found(store, u)
    PROVE  Found(store, u) = {i} /\ Min(Found(store, u)) = i
<1>1. i \in Used(store) /\ store[i].username = u
  BY DEF Found
<1>2. Found(store, u) = {i}
  BY <1>1 DEF Found, Unique
<1>3. i \in Nat
  BY <1>1, UsedEntries
<1>4. Min({i}) = i
  BY <1>3 DEF Min
<1> QED BY <1>2, <1>4

LEMMA PassOf ==
    ASSUME NEW store \in Stores, Unique(store), NEW u \in Valid
    PROVE  /\ Pass(store)[u] = NoPassword <=> Found(store, u) = {}
           /\ \A i \in Found(store, u) : Pass(store)[u] = store[i].password
<1>1. CASE Found(store, u) = {}
  BY <1>1 DEF Pass
<1>2. ASSUME NEW i \in Found(store, u)
      PROVE  Pass(store)[u] = store[i].password /\ Pass(store)[u] # NoPassword
  <2>1. Pass(store)[u] = store[i].password
    BY FoundOnce DEF Pass
  <2>2. i \in Used(store)
    BY DEF Found
  <2>3. store[i].password \in Field
    BY <2>2, UsedEntries
  <2> QED BY <2>1, <2>3, CallsAssumption
<1> QED BY <1>1, <1>2

\* Where a user is put: the lowest free entry.
LEMMA FreeSlot ==
    ASSUME NEW store \in Stores, Used(store) # Slots
    PROVE  Min(Slots \ Used(store)) \in Slots \ Used(store)
<1> DEFINE free == Slots \ Used(store)
<1>1. free \in SUBSET Nat /\ free # {}
  BY DEF Used, Slots
<1>2. \E x \in free : \A y \in free : x <= y
  <2> HIDE DEF free
  <2> QED BY <1>1, Least
<1>3. Min(free) \in free
  <2> HIDE DEF free
  <2> QED BY <1>2 DEF Min
<1> QED BY <1>3

LEMMA AddedMaps ==
    ASSUME NEW store \in Stores, Unique(store), NEW u \in Field, NEW p \in Field,
           user_store_add(store, u, p)
    PROVE  Pass(Added(store, u, p)) = [Pass(store) EXCEPT ![u] = p]
<1> DEFINE place == Min(Slots \ Used(store))
           new == [store EXCEPT ![place] = [username |-> u, password |-> p]]
<1>1. place \in Slots /\ place \notin Used(store)
  BY FreeSlot DEF user_store_add
<1>2. Added(store, u, p) = new
  BY DEF Added
<1> HIDE DEF place
<1>3. u \in Valid /\ p \in Valid /\ Found(store, u) = {}
      /\ [username |-> u, password |-> p] # NoUser
  BY DEF user_store_add
<1>4. /\ new[place].username = u /\ new[place].password = p /\ new[place] # NoUser
      /\ \A i \in Slots : i # place => new[i] = store[i]
  BY <1>1, <1>3 DEF Stores
<1> HIDE DEF new
<1>5. Used(new) = Used(store) \cup {place}
  BY <1>1, <1>4 DEF Used
<1>6. Found(new, u) = {place}
  BY <1>1, <1>3, <1>4, <1>5 DEF Found, Used
<1>7. \A v \in Valid : v # u => Found(new, v) = Found(store, v)
  BY <1>1, <1>4, <1>5 DEF Found, Used
<1>8. Min({place}) = place
  <2> place \in Nat
    BY <1>1 DEF Slots
  <2> QED BY DEF Min
<1>9. ASSUME NEW v \in Valid
      PROVE  Pass(new)[v] = IF v = u THEN p ELSE Pass(store)[v]
  <2>1. CASE v = u
    BY <1>4, <1>6, <1>8, <2>1 DEF Pass
  <2>2. CASE v # u
    <3>1. Found(new, v) = Found(store, v)
      BY <1>7, <2>2
    <3>2. ASSUME NEW i \in Found(store, v) PROVE new[i] = store[i] /\ Min(Found(store, v)) = i
      <4>1. i # place /\ i \in Slots
        BY <1>1 DEF Found, Used
      <4> QED BY <1>4, <4>1, FoundOnce
    <3> QED BY <2>2, <3>1, <3>2 DEF Pass
  <2> QED BY <2>1, <2>2
<1> QED BY <1>2, <1>9 DEF Pass

LEMMA RemovedMaps ==
    ASSUME NEW store \in Stores, Unique(store), NEW u \in Field, user_store_remove(store, u)
    PROVE  Pass(Removed(store, u)) = [Pass(store) EXCEPT ![u] = NoPassword]
<1>1. PICK place \in Found(store, u) : TRUE
  BY DEF user_store_remove
<1> DEFINE new == [store EXCEPT ![place] = NoUser]
<1>2. Removed(store, u) = new
  BY FoundOnce DEF Removed
<1>3. place \in Slots /\ place \in Used(store) /\ store[place].username = u /\ u \in Valid
  BY DEF Found, Used, user_store_remove
<1>4. new[place] = NoUser /\ \A i \in Slots : i # place => new[i] = store[i]
  BY <1>3 DEF Stores
<1> HIDE DEF new
<1>5. Used(new) = Used(store) \ {place}
  BY <1>3, <1>4 DEF Used
<1>6. Found(new, u) = {}
  <2>1. Found(store, u) = {place}
    BY FoundOnce
  <2> QED BY <1>4, <1>5, <2>1 DEF Found, Used
<1>7. \A v \in Valid : v # u => Found(new, v) = Found(store, v)
  BY <1>3, <1>4, <1>5 DEF Found, Used
<1>8. ASSUME NEW v \in Valid
      PROVE  Pass(new)[v] = IF v = u THEN NoPassword ELSE Pass(store)[v]
  <2>1. CASE v = u
    BY <1>6, <2>1 DEF Pass
  <2>2. CASE v # u
    <3>1. Found(new, v) = Found(store, v)
      BY <1>7, <2>2
    <3>2. ASSUME NEW i \in Found(store, v) PROVE new[i] = store[i] /\ Min(Found(store, v)) = i
      <4>1. i # place /\ i \in Slots
        BY <1>3, <2>2 DEF Found, Used
      <4> QED BY <1>4, <4>1, FoundOnce
    <3> QED BY <2>2, <3>1, <3>2 DEF Pass
  <2> QED BY <2>1, <2>2
<1> QED BY <1>2, <1>8 DEF Pass

-----------------------------------------------------------------------------
(* How many users there are, and the list of them *)

KnownIn(store) == {u \in Valid : Pass(store)[u] # NoPassword}

\* There are as many users as entries in use, and the array is full when the
\* map is.
LEMMA Counts ==
    ASSUME NEW store \in Stores, Unique(store)
    PROVE  /\ IsFiniteSet(Used(store)) /\ Cardinality(Used(store)) \in Nat
           /\ Cardinality(KnownIn(store)) = Cardinality(Used(store))
           /\ Used(store) # Slots <=> Cardinality(KnownIn(store)) < MaxUsers
<1>1. IsFiniteSet(Slots) /\ Cardinality(Slots) = MaxUsers
  <2>1. 0 \in Int /\ MaxUsers - 1 \in Int
    OBVIOUS
  <2> QED BY <2>1, FS_Interval DEF Slots
<1>2. Used(store) \in SUBSET Slots
  BY DEF Used
<1>3. /\ IsFiniteSet(Used(store)) /\ Cardinality(Used(store)) <= MaxUsers
      /\ Cardinality(Used(store)) = MaxUsers => Used(store) = Slots
  BY <1>1, <1>2, FS_Subset
<1>4. Cardinality(Used(store)) \in Nat
  BY <1>3, FS_CardinalityType
<1> DEFINE f == [i \in Used(store) |-> store[i].username]
<1>5. f \in Bijection(Used(store), KnownIn(store))
  <2>1. ASSUME NEW i \in Used(store) PROVE f[i] \in KnownIn(store)
    <3>1. store[i].username \in Valid /\ i \in Found(store, store[i].username)
      BY UsedEntries
    <3>2. Pass(store)[store[i].username] # NoPassword
      BY <3>1, PassOf
    <3> QED BY <3>1, <3>2 DEF KnownIn
  <2>2. \A i, j \in Used(store) : f[i] = f[j] => i = j
    BY DEF Unique
  <2>3. ASSUME NEW u \in KnownIn(store) PROVE \E i \in Used(store) : f[i] = u
    <3>1. u \in Valid /\ Found(store, u) # {}
      BY PassOf DEF KnownIn
    <3> QED BY <3>1 DEF Found
  <2> QED BY <2>1, <2>2, <2>3 DEF Bijection, Injection, Surjection, IsInjective
<1>6. Cardinality(KnownIn(store)) = Cardinality(Used(store))
  <2>1. ExistsBijection(Used(store), KnownIn(store))
    BY <1>5 DEF ExistsBijection
  <2> QED BY <1>3, <2>1, FS_Bijection
<1> QED BY <1>1, <1>3, <1>4, <1>6

Rank(store, i) == Cardinality({j \in Used(store) : j < i})

\* The loop of LIST-USERS finds a user for every number up to the count.
LEMMA Ranked ==
    ASSUME NEW store \in Stores, Unique(store), NEW k \in 0 .. user_store_count(store) - 1
    PROVE  \E i \in Used(store) : Rank(store, i) = k
<1> DEFINE used == Used(store)
           n == Cardinality(used)
           P == {m \in 0 .. n - 1 : \E i \in used : Rank(store, i) = m}
<1>1. IsFiniteSet(used) /\ n \in Nat /\ used \in SUBSET Nat
  BY Counts DEF Used, Slots
<1>2. n - 1 \in Nat /\ k \in 0 .. n - 1
  BY <1>1 DEF user_store_count
<1>3. 0 \in P
  <2>1. used # {}
    BY <1>1, <1>2, FS_EmptySet
  <2>2. PICK i \in used : \A j \in used : i <= j
    <3> HIDE DEF used
    <3> QED BY <1>1, <2>1, Least
  <2>3. {j \in used : j < i} = {}
    <3>1. \A j \in used : ~(j < i)
      BY <1>1, <2>2
    <3> QED BY <3>1
  <2>4. Rank(store, i) = 0
    BY <2>3, FS_EmptySet DEF Rank
  <2> QED BY <1>2, <2>4
<1>4. ASSUME NEW m \in 1 .. n - 1, m - 1 \in P
      PROVE  m \in P
  <2>1. PICK i \in used : Rank(store, i) = m - 1
    BY <1>4
  <2> DEFINE below == {j \in used : j < i}
             rest == used \ (below \cup {i})
  <2>2. IsFiniteSet(below) /\ Cardinality(below) = m - 1 /\ i \notin below
    <3>1. below \in SUBSET used
      OBVIOUS
    <3>2. IsFiniteSet(below)
      BY <1>1, <3>1, FS_Subset
    <3>3. i \in Nat
      BY <1>1
    <3> QED BY <2>1, <3>2, <3>3 DEF Rank
  <2>3. IsFiniteSet(below \cup {i}) /\ Cardinality(below \cup {i}) = m
    <3>1. /\ IsFiniteSet(below \cup {i})
          /\ Cardinality(below \cup {i}) = Cardinality(below) + 1
      <4> HIDE DEF below
      <4> QED BY <2>2, FS_AddElement
    <3> QED BY <1>1, <2>2, <3>1
  <2>4. rest # {}
    <3>1. m < n
      BY <1>1
    <3>2. below \cup {i} # used
      BY <1>1, <2>3, <3>1
    <3> QED BY <3>2
  <2>5. PICK x \in rest : \A y \in rest : x <= y
    <3>1. rest \in SUBSET Nat
      BY <1>1
    <3> HIDE DEF rest
    <3> QED BY <2>4, <3>1, Least
  <2>6. {j \in used : j < x} = below \cup {i}
    <3>1. i \in Nat /\ x \in Nat /\ x \in used /\ i < x
      <4>1. x \in used /\ x # i /\ ~(x < i)
        BY <2>5
      <4> QED BY <1>1, <4>1
    <3>2. ASSUME NEW j \in used, j < x PROVE j \in below \cup {i}
      <4>1. j \in Nat /\ ~(x <= j)
        BY <1>1, <3>1, <3>2
      <4>2. j \notin rest
        BY <2>5, <4>1
      <4> QED BY <4>2
    <3>3. ASSUME NEW j \in below \cup {i} PROVE j \in used /\ j < x
      <4>1. j \in Nat /\ j \in used /\ j <= i
        BY <1>1, <3>1
      <4> QED BY <3>1, <4>1
    <3> QED BY <3>2, <3>3
  <2>7. Rank(store, x) = m /\ x \in used
    BY <2>3, <2>5, <2>6 DEF Rank
  <2> QED BY <1>2, <2>7
<1>5. 0 .. n - 1 \subseteq P
  <2> HIDE DEF P, n
  <2> QED BY <1>2, <1>3, <1>4, UpTo
<1> QED BY <1>2, <1>5

\* LIST-USERS names every user once.
LEMMA ListingLists ==
    ASSUME NEW store \in Stores, Unique(store)
    PROVE  /\ Listing(store) \in [1 .. Cardinality(KnownIn(store)) -> KnownIn(store)]
           /\ \A i, j \in DOMAIN Listing(store) : Listing(store)[i] = Listing(store)[j] => i = j
<1> DEFINE n == Cardinality(KnownIn(store))
           at(k) == CHOOSE i \in Used(store) : Rank(store, i) = k
<1>1. n = user_store_count(store) /\ n \in Nat
  BY Counts DEF user_store_count
<1>2. ASSUME NEW k \in 1 .. n
      PROVE  at(k - 1) \in Used(store) /\ Rank(store, at(k - 1)) = k - 1
  <2>1. k - 1 \in 0 .. user_store_count(store) - 1
    BY <1>1
  <2>2. \E i \in Used(store) : Rank(store, i) = k - 1
    BY <2>1, Ranked
  <2> QED BY <2>2
<1>3. Listing(store) = [k \in 1 .. n |-> store[at(k - 1)].username]
  BY <1>1 DEF Listing, user_store_get_username, Rank
<1> HIDE DEF at
<1>4. ASSUME NEW k \in 1 .. n
      PROVE  store[at(k - 1)].username \in KnownIn(store)
  <2>1. /\ store[at(k - 1)].username \in Valid
        /\ at(k - 1) \in Found(store, store[at(k - 1)].username)
    BY <1>2, UsedEntries
  <2> QED BY <2>1, PassOf DEF KnownIn
<1>5. ASSUME NEW i \in 1 .. n, NEW j \in 1 .. n,
             store[at(i - 1)].username = store[at(j - 1)].username
      PROVE  i = j
  <2>1. at(i - 1) = at(j - 1)
    BY <1>2, <1>5 DEF Unique
  <2>2. i - 1 = j - 1
    BY <1>2, <2>1
  <2> QED BY <1>1, <2>2
<1>6. Listing(store) \in [1 .. n -> KnownIn(store)]
  BY <1>3, <1>4
<1>7. DOMAIN Listing(store) = 1 .. n
  BY <1>3
<1>8. \A i, j \in 1 .. n : Listing(store)[i] = Listing(store)[j] => i = j
  BY <1>3, <1>5
<1> QED BY <1>6, <1>7, <1>8

-----------------------------------------------------------------------------
(* The refinement *)

LEMMA PasswordsArePass == Passwords = Pass(users)
BY DEF Passwords, Pass

LEMMA SameCardinality == \A S : D!Cardinality(S) = Cardinality(S)
BY DEF Cardinality, D!Cardinality

LEMMA DirectoryInit == Init => D!Init
<1> SUFFICES ASSUME Init PROVE D!Init
  OBVIOUS
<1>1. \A u \in Valid : Found(users, u) = {}
  BY DEF Init, Found, Used
<1> QED BY <1>1 DEF Init, D!Init, Passwords

LEMMA DirectoryNext ==
    ASSUME TypeOK, NamesUnique, Next
    PROVE  D!Next
<1>1. users \in Stores /\ Unique(users)
  BY DEF TypeOK, NamesUnique, Unique
<1>2. Passwords = Pass(users) /\ Passwords' = Pass(users')
  BY DEF Passwords, Pass
<1>3. D!Known = KnownIn(users)
  BY <1>2 DEF D!Known, KnownIn
<1>4. \A u \in Valid : u \in D!Known <=> Found(users, u) # {}
  BY <1>1, <1>3, PassOf DEF KnownIn
<1>5. ASSUME NEW u \in Field, NEW p \in Field, Validate(u, p)
      PROVE  D!Validate(u, p)
  <2>1. user_store_validate(users, u, p) <=> u \in D!Known /\ p \in Valid /\ Passwords[u] = p
    <3>1. D!Known \subseteq Valid
      BY DEF D!Known
    <3> QED BY <1>4, <3>1 DEF user_store_validate, Passwords
  <2>2. user_store_validate(users, u, p)
            = (u \in D!Known /\ p \in Valid /\ Passwords[u] = p)
    BY <2>1 DEF user_store_validate
  <2>3. users' = users /\ Passwords' = Passwords
    BY <1>2, <1>5 DEF Validate
  <2> QED BY <1>5, <2>2, <2>3, Zenon DEF Validate, D!Validate
<1>6. ASSUME NEW u \in Field, NEW p \in Field, Add(u, p)
      PROVE  D!Add(u, p)
  <2> DEFINE accepted == /\ u \in Valid \ D!Known /\ p \in Valid
                         /\ Cardinality(D!Known) < MaxUsers
  <2>1. user_store_add(users, u, p) <=> accepted
    BY <1>1, <1>3, <1>4, Counts DEF user_store_add
  <2>2. Passwords' = IF accepted THEN [Passwords EXCEPT ![u] = p] ELSE Passwords
    <3>1. CASE user_store_add(users, u, p)
      BY <1>1, <1>2, <1>6, <2>1, <3>1, AddedMaps DEF Add
    <3>2. CASE ~user_store_add(users, u, p)
      BY <1>2, <1>6, <2>1, <3>2 DEF Add, Added
    <3> QED BY <3>1, <3>2
  <2>3. user_store_add(users, u, p) = accepted
    BY <2>1 DEF user_store_add
  <2>4. call' = [op |-> "add", user |-> u, password |-> p, answer |-> accepted]
    BY <1>6, <2>3, Zenon DEF Add
  <2> QED BY <2>2, <2>4, SameCardinality, Zenon DEF D!Add
<1>7. ASSUME NEW u \in Field, Remove(u)
      PROVE  D!Remove(u)
  <2>1. user_store_remove(users, u) <=> u \in D!Known
    BY <1>4 DEF user_store_remove, D!Known
  <2>2. Passwords' = IF u \in D!Known THEN [Passwords EXCEPT ![u] = NoPassword] ELSE Passwords
    <3>1. CASE user_store_remove(users, u)
      BY <1>1, <1>2, <1>7, <2>1, <3>1, RemovedMaps DEF Remove
    <3>2. CASE ~user_store_remove(users, u)
      BY <1>2, <1>7, <2>1, <3>2 DEF Remove, Removed
    <3> QED BY <3>1, <3>2
  <2>3. user_store_remove(users, u) = (u \in D!Known)
    BY <2>1 DEF user_store_remove
  <2> QED BY <1>7, <2>2, <2>3, Zenon DEF Remove, D!Remove
<1>8. ASSUME List PROVE D!List
  <2>1. /\ Listing(users) \in [1 .. Cardinality(D!Known) -> D!Known]
        /\ \A i, j \in DOMAIN Listing(users) : Listing(users)[i] = Listing(users)[j] => i = j
    BY <1>1, <1>3, ListingLists
  <2>2. users' = users /\ Passwords' = Passwords /\ call' = [op |-> "list", answer |-> Listing(users)]
    BY <1>2, <1>8 DEF List
  <2> QED BY <2>1, <2>2, SameCardinality, Zenon DEF D!List
<1> QED BY <1>5, <1>6, <1>7, <1>8 DEF Next, D!Next

\* Whatever is added and removed, and wherever the holes are, every call is
\* answered as by a map of at most MaxUsers users (user_store.c).
THEOREM StoreImplementsDirectory == Spec => ImplementsDirectory
<1>1. Init => D!Init
  BY DirectoryInit
<1>2. TypeOK /\ NamesUnique /\ [Next]_vars => [D!Next]_(D!vars)
  <2> SUFFICES ASSUME TypeOK, NamesUnique, [Next]_vars PROVE [D!Next]_(D!vars)
    OBVIOUS
  <2>1. CASE Next
    BY <2>1, DirectoryNext
  <2>2. CASE UNCHANGED vars
    BY <2>2 DEF vars, D!vars, Passwords
  <2> QED BY <2>1, <2>2
<1> QED BY <1>1, <1>2, StoreInductive, PTL DEF Spec, D!Spec, ImplementsDirectory
=============================================================================
