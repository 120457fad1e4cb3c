------------------------------- MODULE Memory -------------------------------
(* The memory that the main thread and the resolver threads share without a   *)
(* lock (src/src/server/socks5nio.c, src/src/server/metrics.c): the reference *)
(* count of each struct socks5, the pool, which is a list along `next', its   *)
(* size, and the metric concurrent_connections; and the functions that use    *)
(* it, socks5_new, socks5_destroy and the increments of references, access by *)
(* access. A step loads or stores one shared variable, as the code is         *)
(* compiled (Makefile.inc asks for no optimisation), but for these: the step  *)
(* of `pool->next' loads both pointers, the one that stores pool also clears  *)
(* next of the struct it has taken off, and socks5_new's test of pool is one  *)
(* with `ret = pool'.                                                         *)
(*                                                                            *)
(* A definition whose name has the form Name_Fault is Name with a plausible   *)
(* programming error, against which the properties are tried; nothing in the  *)
(* specification uses it.                                                     *)
EXTENDS Integers, FiniteSets

CONSTANTS
    Struct,      \* the memory blocks that can hold a struct socks5
    NoStruct,    \* NULL
    Main,        \* the main thread
    MaxPool,     \* max_pool, 50 in the code
    MaxUnsigned  \* UINT_MAX

\* More structs than UINT_MAX would not fit into the memory.
ASSUME MemoryAssumption ==
    /\ NoStruct \notin Struct /\ Main \notin Struct
    /\ IsFiniteSet(Struct)
    /\ MaxUnsigned \in Nat /\ MaxUnsigned >= 8
    /\ Cardinality(Struct) <= MaxUnsigned
    /\ MaxPool \in 0 .. MaxUnsigned

VARIABLES
    (* shared *)
    allocated,   \* the blocks malloc has handed out
    references, next,          \* fields of struct socks5
    pool, pool_size,
    concurrent,  \* the metric concurrent_connections
    (* the threads; the resolver thread of a struct goes by its struct *)
    pc,          \* what each does next
    reg,         \* the number each has loaded
    (* main *)
    cur,         \* the struct it calls for
    top,         \* the pointer it has loaded
    then         \* the call it makes after this one, or "idle"

shared    == <<allocated, references, next, pool, pool_size, concurrent>>
registers == <<reg, top>>
calls     == <<pc, cur, then>>

Unsigned == 0 .. MaxUnsigned
Inc(x) == IF x = MaxUnsigned THEN 0 ELSE x + 1
Dec(x) == IF x = 0 THEN MaxUnsigned ELSE x - 1

Thread == Struct \cup {Main}
Subject(p) == IF p = Main THEN cur ELSE p

\* The structs on the list that starts at h: those in each set that holds h
\* and, with a struct, the one after it.
Reach(after, h) ==
    {s \in Struct : \A R \in SUBSET Struct :
        /\ h # NoStruct => h \in R
        /\ \A r \in R : after[r] # NoStruct => after[r] \in R
        => s \in R}
Pooled == Reach(next, pool)

MemoryInit ==
    /\ allocated = {}
    /\ references = [s \in Struct |-> 1]
    /\ next = [s \in Struct |-> NoStruct]
    /\ pool = NoStruct
    /\ pool_size = 0
    /\ concurrent = 0
    /\ pc = [p \in Thread |-> IF p = Main THEN "idle" ELSE "none"]
    /\ reg = [p \in Thread |-> 0]
    /\ cur = NoStruct
    /\ top = NoStruct
    /\ then = "idle"
-----------------------------------------------------------------------------
(* Control *)

At(p, step) == pc[p] = step

Goto(p, step) ==
    /\ pc' = [pc EXCEPT ![p] = step]
    /\ UNCHANGED <<cur, then>>

Load(p, x, step) ==
    /\ reg' = [reg EXCEPT ![p] = x]
    /\ Goto(p, step)
    /\ UNCHANGED <<shared, top>>

\* The register has been stored.
Used(p) == reg' = [reg EXCEPT ![p] = 0] /\ UNCHANGED top

\* Main makes the call `first' for s, and then `second'.
Calls(s, first, second) ==
    /\ pc' = [pc EXCEPT ![Main] = first]
    /\ then' = second
    /\ cur' = IF first = "idle" THEN NoStruct ELSE s

\* A call is over: a thread ends, and main makes its next call.
Return(p) ==
    IF p = Main THEN Calls(cur, then, "idle") ELSE Goto(p, "none")
-----------------------------------------------------------------------------
(* socks5_destroy *)

Destroy_OneTooEarly(p) ==
    /\ At(p, "destroy")
    /\ Goto(p, IF references[Subject(p)] <= 2 THEN "closed" ELSE "drop")
    /\ UNCHANGED <<shared, registers>>

Destroy_StillCounted(p) ==
    /\ At(p, "destroy")
    /\ Goto(p, IF references[Subject(p)] = 1 THEN "room" ELSE "drop")
    /\ UNCHANGED <<shared, registers>>

\* references == 1?
Destroy(p) ==
    /\ At(p, "destroy")
    /\ Goto(p, IF references[Subject(p)] = 1 THEN "closed" ELSE "drop")
    /\ UNCHANGED <<shared, registers>>

\* references -= 1
Drop(p) == At(p, "drop") /\ Load(p, references[Subject(p)], "drop_store")

DropStore_Forgotten(p) ==
    /\ At(p, "drop_store")
    /\ Used(p) /\ Return(p)
    /\ UNCHANGED shared

DropStore(p) ==
    /\ At(p, "drop_store")
    /\ references' = [references EXCEPT ![Subject(p)] = Dec(reg[p])]
    /\ Used(p) /\ Return(p)
    /\ UNCHANGED <<allocated, next, pool, pool_size, concurrent>>

\* metrics_register_closed_connection: concurrent_connections > 0?
Closed(p) ==
    /\ At(p, "closed")
    /\ Goto(p, IF concurrent > 0 THEN "closed_load" ELSE "room")
    /\ UNCHANGED <<shared, registers>>

\* concurrent_connections--
ClosedLoad(p) == At(p, "closed_load") /\ Load(p, concurrent, "closed_store")

ClosedStore(p) ==
    /\ At(p, "closed_store")
    /\ concurrent' = Dec(reg[p])
    /\ Used(p) /\ Goto(p, "room")
    /\ UNCHANGED <<allocated, references, next, pool, pool_size>>

Room_OneTooMany(p) ==
    /\ At(p, "room")
    /\ \/ /\ pool_size <= MaxPool
          /\ Goto(p, "link")
          /\ UNCHANGED allocated
       \/ /\ ~(pool_size <= MaxPool)
          /\ Return(p)
          /\ allocated' = allocated \ {Subject(p)}
    /\ UNCHANGED <<references, next, pool, pool_size, concurrent, registers>>

\* pool_size < max_pool? If not, the struct is freed.
Room(p) ==
    /\ At(p, "room")
    /\ \/ /\ pool_size < MaxPool
          /\ Goto(p, "link")
          /\ UNCHANGED allocated
       \/ /\ pool_size >= MaxPool
          /\ Return(p)
          /\ allocated' = allocated \ {Subject(p)}
    /\ UNCHANGED <<references, next, pool, pool_size, concurrent, registers>>

\* s->next = pool
Link(p) ==
    /\ At(p, "link")
    /\ next' = [next EXCEPT ![Subject(p)] = pool]
    /\ Goto(p, "push")
    /\ UNCHANGED <<allocated, references, pool, pool_size, concurrent, registers>>

\* pool = s
Push(p) ==
    /\ At(p, "push")
    /\ pool' = Subject(p)
    /\ Goto(p, "grow")
    /\ UNCHANGED <<allocated, references, next, pool_size, concurrent, registers>>

\* pool_size++
Grow(p) == At(p, "grow") /\ Load(p, pool_size, "grow_store")

GrowStore(p) ==
    /\ At(p, "grow_store")
    /\ pool_size' = Inc(reg[p])
    /\ Used(p) /\ Return(p)
    /\ UNCHANGED <<allocated, references, next, pool, concurrent>>

DestroyStep(p) ==
    \/ Destroy(p) \/ Drop(p) \/ DropStore(p)
    \/ Closed(p) \/ ClosedLoad(p) \/ ClosedStore(p)
    \/ Room(p) \/ Link(p) \/ Push(p) \/ Grow(p) \/ GrowStore(p)
-----------------------------------------------------------------------------
(* socks5_new, up to the metric *)

New_UncheckedPool ==
    /\ At(Main, "new")
    /\ pc' = [pc EXCEPT ![Main] = "unlink"] /\ cur' = pool
    /\ UNCHANGED <<shared, registers, then>>

\* The head of the pool, or if there is none a new block, or no memory.
New ==
    /\ At(Main, "new")
    /\ \/ /\ pool = NoStruct
          /\ \E s \in Struct \ allocated :
               /\ allocated' = allocated \cup {s}
               /\ pc' = [pc EXCEPT ![Main] = "opened"] /\ cur' = s
       \/ /\ pool = NoStruct
          /\ pc' = [pc EXCEPT ![Main] = "idle"]
          /\ UNCHANGED <<allocated, cur>>
       \/ /\ pool # NoStruct
          /\ pc' = [pc EXCEPT ![Main] = "unlink"] /\ cur' = pool
          /\ UNCHANGED allocated
    /\ UNCHANGED <<references, next, pool, pool_size, concurrent, registers, then>>

\* pool = pool->next
Unlink ==
    /\ At(Main, "unlink")
    /\ top' = next[pool]
    /\ Goto(Main, "unlink_store")
    /\ UNCHANGED <<shared, reg>>

UnlinkStore ==
    /\ At(Main, "unlink_store")
    /\ pool' = top /\ top' = NoStruct
    /\ next' = [next EXCEPT ![cur] = NoStruct]
    /\ Goto(Main, "shrink")
    /\ UNCHANGED <<allocated, references, pool_size, concurrent, reg>>

\* pool_size--
Shrink == At(Main, "shrink") /\ Load(Main, pool_size, "shrink_store")

ShrinkStore ==
    /\ At(Main, "shrink_store")
    /\ pool_size' = Dec(reg[Main])
    /\ Used(Main) /\ Goto(Main, "opened")
    /\ UNCHANGED <<allocated, references, next, pool, concurrent>>

\* metrics_register_new_connection: concurrent_connections++
Opened == At(Main, "opened") /\ Load(Main, concurrent, "opened_store")

OpenedStore ==
    /\ At(Main, "opened_store")
    /\ concurrent' = Inc(reg[Main])
    /\ Used(Main) /\ Goto(Main, "register")
    /\ UNCHANGED <<allocated, references, next, pool, pool_size>>

NewStep ==
    \/ New \/ Unlink \/ UnlinkStore \/ Shrink \/ ShrinkStore
    \/ Opened \/ OpenedStore
-----------------------------------------------------------------------------
(* references++, by main. After "try" it is taken back (references--): the    *)
(* selector has refused the descriptor.                                       *)

Take ==
    \/ At(Main, "take") /\ Load(Main, references[cur], "take_store")
    \/ At(Main, "try") /\ Load(Main, references[cur], "try_store")

TakeStore ==
    /\ \/ At(Main, "take_store") /\ Return(Main)
       \/ At(Main, "try_store") /\ Goto(Main, "drop")
    /\ references' = [references EXCEPT ![cur] = Inc(reg[Main])]
    /\ Used(Main)
    /\ UNCHANGED <<allocated, next, pool, pool_size, concurrent>>
-----------------------------------------------------------------------------
(* The sections that would have to exclude each other: from the first access  *)
(* to the last of an update.                                                  *)

InReferences(p) == pc[p] \in {"drop", "drop_store", "take_store", "try_store"}
InMetric(p) == pc[p] \in {"closed_load", "closed_store", "opened_store"}
InPool(p) == pc[p] \in {"link", "push", "grow", "grow_store",
                        "unlink", "unlink_store", "shrink", "shrink_store"}

Overlap ==
    \E p, q \in Thread : p # q /\
        \/ InReferences(p) /\ InReferences(q) /\ Subject(p) = Subject(q)
        \/ InMetric(p) /\ InMetric(q)
        \/ InPool(p) /\ InPool(q)

DestroySteps == {"destroy", "drop", "drop_store", "closed", "closed_load",
                 "closed_store", "room", "link", "push", "grow", "grow_store"}
Steps == {"none", "lookup", "notify"} \cup DestroySteps
MainSteps == {"idle", "new", "unlink", "unlink_store", "shrink", "shrink_store",
              "opened", "opened_store", "register", "take", "take_store", "try",
              "try_store", "pthread_create"} \cup DestroySteps

SharedTypeOK ==
    /\ allocated \subseteq Struct
    /\ references \in [Struct -> Unsigned]
    /\ next \in [Struct -> Struct \cup {NoStruct}]
    /\ pool \in Struct \cup {NoStruct}
    /\ pool_size \in Unsigned
    /\ concurrent \in Unsigned
    /\ reg \in [Thread -> Unsigned]
    /\ top \in Struct \cup {NoStruct}

CallTypeOK ==
    /\ pc \in [Thread -> Steps \cup MainSteps]
    /\ pc[Main] \in MainSteps /\ \A s \in Struct : pc[s] \in Steps
    /\ cur \in Struct \cup {NoStruct}
    /\ then \in {"idle", "destroy", "take", "try", "pthread_create"}
    /\ cur = NoStruct <=> pc[Main] \in {"idle", "new"}
    /\ cur = NoStruct => then = "idle"

\* The pool is never taken from when it is empty (socks5_new).
MemoryTypeOK ==
    SharedTypeOK /\ CallTypeOK /\ (pc[Main] = "unlink" => pool # NoStruct)
=============================================================================
