------------------------------- MODULE Socks5 -------------------------------
(* The life of the SOCKSv5 connections of src/src/server/socks5nio.c: the     *)
(* state machine of each connection, the selector's table of registered file  *)
(* descriptors that drives it, the detached thread that resolves a name for   *)
(* it, and the shutdown loop of src/src/server/main.c. The reference count,   *)
(* the pool and the metric, which these threads share, are those of Memory.   *)
(*                                                                            *)
(* A definition whose name has the form Name_Fault is Name with a plausible   *)
(* programming error, against which the properties are tried; nothing in the  *)
(* specification uses it.                                                     *)
(*                                                                            *)
(* The main thread runs one handler at a time. What a handler does to its     *)
(* connection and to the selector's table no other thread looks at, and is    *)
(* one action; the calls by which it then uses the shared memory are made     *)
(* step by step, and the threads' steps come in between. Nothing keeps these  *)
(* from overlapping. `raced' records the first time that the sections of      *)
(* Memory do, after which little can be promised: most properties say what    *)
(* holds until then, and what happens then is refuted at the end.             *)
(*                                                                            *)
(* Bytes, parsers and replies are abstracted to their outcomes; the bytes of  *)
(* the COPY state are the subject of CopyRelay.                               *)
EXTENDS Memory

CONSTANTS
    FD,          \* the descriptors that clients and origins can be given
    NoFd,        \* the code's -1
    MaxAddrs,    \* bound: the longest list getaddrinfo returns
    Requests     \* what clients ask for, a subset of {"ip", "domain"}

ASSUME ConstantsAssumption ==
    /\ NoFd \notin FD
    /\ MaxAddrs \in Nat
    /\ Requests \subseteq {"ip", "domain"}

VARIABLES
    (* struct item of the selector, by descriptor *)
    owner,       \* owner[f]: item->data, NoStruct when the item is not used
    interest,    \* interest[f]: item->interest, a subset of {"R", "W"}
    jobs,        \* the descriptors queued in resolution_jobs
    (* struct socks5, by memory block *)
    stm,         \* the state of the state machine
    client_fd, origin_fd,
    resolution,  \* -1: origin_resolution is NULL; n: a list is held, with n
                 \* addresses from origin_resolution_current to its end
    answer,      \* what the union `client' holds: the method of hello_st,
                 \* auth_st's verdict, the reply of request_st
    logged,      \* request_logged
    entries,     \* history: access_log_add calls made for this connection
    (* resolver threads, by the struct they work for *)
    rfd,         \* args->client_fd
    unheard,     \* history: the structs whose notification was lost
    (* main *)
    listening, running,
    raced        \* history: two sections that share memory have overlapped

items    == <<owner, interest>>
links    == <<client_fd, origin_fd>>
request  == <<resolution, answer, logged, entries>>
resolver == <<rfd, unheard>>
server   == <<listening, running>>
memory   == <<shared, registers>>
vars == <<memory, calls, items, jobs, stm, links, request, resolver, server, raced>>

States == {"HELLO_READ", "HELLO_WRITE", "AUTH_READ", "AUTH_WRITE",
           "REQUEST_READ", "RESOLVING", "CONNECTING", "REQUEST_WRITE", "COPY",
           "DONE"}  \* DONE stands for DONE and ERROR: the same code ends both
Methods  == {"noauth", "userpass", "unacceptable"}
Verdicts == {"granted", "denied"}
Replies  == {"SUCCEEDED", "FAILURE"}  \* FAILURE: every reply but SUCCEEDED
Ops      == {"R", "W"}

FreeFds == {f \in FD : owner[f] = NoStruct}

Init ==
    /\ MemoryInit
    /\ owner = [f \in FD |-> NoStruct]
    /\ interest = [f \in FD |-> {}]
    /\ jobs = {}
    /\ stm = [s \in Struct |-> "DONE"]
    /\ client_fd = [s \in Struct |-> NoFd]
    /\ origin_fd = [s \in Struct |-> NoFd]
    /\ resolution = [s \in Struct |-> -1]
    /\ answer = [s \in Struct |-> "unacceptable"]
    /\ logged = [s \in Struct |-> FALSE]
    /\ entries = [s \in Struct |-> 0]
    /\ rfd = [s \in Struct |-> NoFd]
    /\ unheard = {}
    /\ listening = TRUE
    /\ running = TRUE
    /\ raced = FALSE
-----------------------------------------------------------------------------
\* Every step keeps an account of the sections that have overlapped.
Record == raced' = (raced \/ Overlap')

\* Main is back in its loop and not inside a handler.
Ready == running /\ At(Main, "idle")

\* socksv5_done: client_fd and origin_fd are unregistered and closed; for each
\* selector_unregister_fd calls socksv5_close, and that socks5_destroy.
Done(s) ==
    LET fds == {client_fd[s], origin_fd[s]} IN
    /\ stm' = [stm EXCEPT ![s] = "DONE"]
    /\ owner' = [f \in FD |-> IF f \in fds THEN NoStruct ELSE owner[f]]
    /\ interest' = [f \in FD |-> IF f \in fds THEN {} ELSE interest[f]]
    /\ Calls(s, "destroy", IF origin_fd[s] = NoFd THEN "idle" ELSE "destroy")
    /\ UNCHANGED links
-----------------------------------------------------------------------------
(* socksv5_passive_accept *)

\* accept() has a connection; socks5_new is called.
Incoming ==
    /\ Ready /\ listening /\ FreeFds # {}
    /\ Calls(NoStruct, "new", "idle")
    /\ UNCHANGED <<memory, items, jobs, stm, links, request, resolver, server>>
    /\ Record

\* socks5_new clears the struct and fills it in for the socket f.
Cleared(f) ==
    /\ running /\ At(Main, "register")
    /\ references' = [references EXCEPT ![cur] = 1]
    /\ next' = [next EXCEPT ![cur] = NoStruct]
    /\ stm' = [stm EXCEPT ![cur] = "HELLO_READ"]
    /\ client_fd' = [client_fd EXCEPT ![cur] = f]
    /\ origin_fd' = [origin_fd EXCEPT ![cur] = NoFd]
    /\ resolution' = [resolution EXCEPT ![cur] = -1]
    /\ answer' = [answer EXCEPT ![cur] = "unacceptable"]
    /\ logged' = [logged EXCEPT ![cur] = FALSE]
    /\ entries' = [entries EXCEPT ![cur] = 0]
    /\ unheard' = unheard \ {cur}
    /\ UNCHANGED <<allocated, pool, pool_size, concurrent, registers, jobs, rfd,
                   server>>

Accept(f) ==
    /\ f \in FreeFds /\ Cleared(f)
    /\ owner' = [owner EXCEPT ![f] = cur]
    /\ interest' = [interest EXCEPT ![f] = {"R"}]
    /\ Calls(cur, "idle", "idle")
    /\ Record

\* selector_register refuses the descriptor: the socket is closed and the new
\* struct destroyed.
AcceptRefused(f) ==
    /\ f \in FreeFds /\ Cleared(f)
    /\ Calls(cur, "destroy", "idle")
    /\ UNCHANGED items
    /\ Record
-----------------------------------------------------------------------------
(* The handlers. handle_iteration calls one for a descriptor that is          *)
(* registered and whose interest holds the event; a handler that meets        *)
(* EAGAIN or an incomplete message returns its own state and changes nothing  *)
(* that is modelled here, which is a stuttering step.                         *)

Event(f, op) == Ready /\ owner[f] # NoStruct /\ op \in interest[f]

\* A handler moves on to state st, with `a' in the union and interest i in the
\* client's descriptor.
Proceed(s, st, a, i) ==
    /\ stm' = [stm EXCEPT ![s] = st]
    /\ answer' = [answer EXCEPT ![s] = a]
    /\ interest' = [interest EXCEPT ![client_fd[s]] = i]
    /\ UNCHANGED <<calls, owner, links>>

\* hello_read: the methods are parsed and one is chosen, or ERROR.
HelloRead(f) ==
    LET s == owner[f] IN
    /\ Event(f, "R") /\ stm[s] = "HELLO_READ"
    /\ \/ \E m \in Methods : Proceed(s, "HELLO_WRITE", m, {"W"})
       \/ Done(s) /\ UNCHANGED answer
    /\ UNCHANGED <<memory, jobs, resolution, logged, entries, resolver, server>>
    /\ Record

\* hello_write: the choice is sent; no acceptable method ends the connection.
HelloWrite(f) ==
    LET s == owner[f] IN
    /\ Event(f, "W") /\ stm[s] = "HELLO_WRITE"
    /\ \/ answer[s] = "userpass" /\ Proceed(s, "AUTH_READ", "denied", {"R"})
       \/ answer[s] = "noauth" /\ Proceed(s, "REQUEST_READ", "FAILURE", {"R"})
       \/ Done(s) /\ UNCHANGED answer
    /\ UNCHANGED <<memory, jobs, resolution, logged, entries, resolver, server>>
    /\ Record

\* auth_read: the user store's verdict on the credentials, or ERROR.
AuthRead(f) ==
    LET s == owner[f] IN
    /\ Event(f, "R") /\ stm[s] = "AUTH_READ"
    /\ \/ \E v \in Verdicts : Proceed(s, "AUTH_WRITE", v, {"W"})
       \/ Done(s) /\ UNCHANGED answer
    /\ UNCHANGED <<memory, jobs, resolution, logged, entries, resolver, server>>
    /\ Record

\* auth_write: the verdict is sent; only `granted' goes on.
AuthWrite(f) ==
    LET s == owner[f] IN
    /\ Event(f, "W") /\ stm[s] = "AUTH_WRITE"
    /\ \/ answer[s] = "granted" /\ Proceed(s, "REQUEST_READ", "FAILURE", {"R"})
       \/ Done(s) /\ UNCHANGED answer
    /\ UNCHANGED <<memory, jobs, resolution, logged, entries, resolver, server>>
    /\ Record
-----------------------------------------------------------------------------
(* Connecting to the origin. `gone' is the set of descriptors the handler has *)
(* already unregistered and closed.                                           *)

\* Unregistering them calls socks5_destroy, before the handler's own call.
AfterClosing(s, gone, call) ==
    IF gone = {} THEN Calls(s, call, "idle") ELSE Calls(s, "destroy", call)

Answer_FailureUnlogged(s, reply, log) ==
    /\ stm' = [stm EXCEPT ![s] = "REQUEST_WRITE"]
    /\ answer' = [answer EXCEPT ![s] = reply]
    /\ logged' = [logged EXCEPT ![s] = @ \/ log]
    /\ entries' = [entries EXCEPT ![s] = IF log /\ reply = "SUCCEEDED" THEN @ + 1 ELSE @]

\* The reply is chosen; `log': with access_log_add, unless already logged.
Answer(s, reply, log) ==
    /\ stm' = [stm EXCEPT ![s] = "REQUEST_WRITE"]
    /\ answer' = [answer EXCEPT ![s] = reply]
    /\ logged' = [logged EXCEPT ![s] = @ \/ log]
    /\ entries' = [entries EXCEPT ![s] = IF log /\ ~logged[s] THEN @ + 1 ELSE @]

Reject_KeepsOrigin(s, gone, call) ==
    /\ Answer(s, "FAILURE", TRUE)
    /\ owner' = [f \in FD |-> IF f \in gone THEN NoStruct ELSE owner[f]]
    /\ interest' = [f \in FD |-> IF f = client_fd[s] THEN {"W"}
                                 ELSE IF f = origin_fd[s] THEN {}
                                 ELSE interest[f]]
    /\ AfterClosing(s, gone, call)
    /\ UNCHANGED origin_fd

\* request_set_reply with a failure: the client's descriptor waits to be
\* written. The origin was never there, or is closed and forgotten, or
\* (getsockopt failed) stays registered with OP_NOOP.
Reject(s, gone, call) ==
    /\ Answer(s, "FAILURE", TRUE)
    /\ owner' = [f \in FD |-> IF f \in gone THEN NoStruct ELSE owner[f]]
    /\ interest' = [f \in FD |-> IF f = client_fd[s] THEN {"W"}
                                 ELSE IF f = origin_fd[s] THEN {}
                                 ELSE interest[f]]
    /\ origin_fd' = [origin_fd EXCEPT ![s] = IF @ \in gone THEN NoFd ELSE @]
    /\ AfterClosing(s, gone, call)

\* request_connect_sockaddr has failed for each address: no socket, connect()
\* fails, or the selector refuses the descriptor, for which references has
\* gone up and is taken back. Bound: the last at most once in a handler.
NoConnect(s, gone) == \E call \in {"idle", "try"} : Reject(s, gone, call)

Connect_NotCounted(s, o, oi, ci, gone) ==
    /\ o \in FreeFds \cup gone
    /\ owner' = [f \in FD |-> IF f = o THEN s
                              ELSE IF f \in gone THEN NoStruct ELSE owner[f]]
    /\ interest' = [f \in FD |-> IF f = client_fd[s] THEN ci
                                 ELSE IF f = o THEN oi
                                 ELSE IF f \in gone THEN {} ELSE interest[f]]
    /\ origin_fd' = [origin_fd EXCEPT ![s] = o]
    /\ AfterClosing(s, gone, "idle")

\* request_connect_sockaddr succeeds with the new socket o, registered with
\* interest oi and counted; the client's descriptor is left with interest ci.
Connect(s, o, oi, ci, gone) ==
    /\ o \in FreeFds \cup gone
    /\ owner' = [f \in FD |-> IF f = o THEN s
                              ELSE IF f \in gone THEN NoStruct ELSE owner[f]]
    /\ interest' = [f \in FD |-> IF f = client_fd[s] THEN ci
                                 ELSE IF f = o THEN oi
                                 ELSE IF f \in gone THEN {} ELSE interest[f]]
    /\ origin_fd' = [origin_fd EXCEPT ![s] = o]
    /\ AfterClosing(s, gone, "take")

ConnectStarts_ClientStillRead(s, o, gone) ==
    /\ Connect(s, o, {"W"}, {"R"}, gone)
    /\ stm' = [stm EXCEPT ![s] = "CONNECTING"]
    /\ UNCHANGED <<answer, logged, entries>>

\* connect() said EINPROGRESS: the origin is watched for writing.
ConnectStarts(s, o, gone) ==
    /\ Connect(s, o, {"W"}, {}, gone)
    /\ stm' = [stm EXCEPT ![s] = "CONNECTING"]
    /\ UNCHANGED <<answer, logged, entries>>

\* connect() succeeded at once. `log': the caller calls request_log_success.
ConnectsAtOnce(s, o, gone, log) ==
    /\ Connect(s, o, {}, {"W"}, gone)
    /\ Answer(s, "SUCCEEDED", log)

\* request_read: the request is refused (its syntax, its command or its address
\* type, or no memory for the thread), the connection to an address fails,
\* starts or succeeds, a name is taken to a thread, or ERROR.
RequestRead(f) ==
    LET s == owner[f] IN
    /\ Event(f, "R") /\ stm[s] = "REQUEST_READ"
    /\ \/ Reject(s, {}, "idle") /\ UNCHANGED client_fd
       \/ /\ "ip" \in Requests
          /\ \/ NoConnect(s, {})
             \/ \E o \in FD : \/ ConnectStarts(s, o, {})
                              \/ ConnectsAtOnce(s, o, {}, TRUE)
          /\ UNCHANGED client_fd
       \/ /\ "domain" \in Requests
          /\ Calls(s, "take", "pthread_create")
          /\ UNCHANGED <<items, stm, links, answer, logged, entries>>
       \/ Done(s) /\ UNCHANGED <<answer, logged, entries>>
    /\ UNCHANGED <<memory, jobs, resolution, resolver, server>>
    /\ Record

\* request_start_resolution, once references has gone up: the thread is created
\* and the client's descriptor waits for nothing; or it is not, its reference
\* is taken back and the request refused.
PthreadCreate ==
    /\ running /\ At(Main, "pthread_create")
    /\ \/ /\ At(cur, "none")
          /\ pc' = [pc EXCEPT ![Main] = "idle", ![cur] = "lookup"]
          /\ cur' = NoStruct /\ then' = "idle"
          /\ rfd' = [rfd EXCEPT ![cur] = client_fd[cur]]
          /\ stm' = [stm EXCEPT ![cur] = "RESOLVING"]
          /\ interest' = [interest EXCEPT ![client_fd[cur]] = {}]
          /\ UNCHANGED <<owner, links, answer, logged, entries>>
       \/ Reject(cur, {}, "drop") /\ UNCHANGED <<client_fd, rfd>>
    /\ UNCHANGED <<memory, jobs, resolution, unheard, server>>
    /\ Record

\* request_connect_next_resolution: addresses are tried in order until one can
\* be connected, or starts to; it fails when there is none left. The reply is
\* then request_set_reply's.
ConnectNext(s, gone, log) ==
    \/ /\ resolution' = [resolution EXCEPT ![s] = IF @ > 0 THEN 0 ELSE @]
       /\ IF resolution[s] > 0 THEN NoConnect(s, gone) ELSE Reject(s, gone, "idle")
    \/ \E left \in 0 .. resolution[s] - 1, o \in FD :
         /\ resolution' = [resolution EXCEPT ![s] = left]
         /\ \/ ConnectStarts(s, o, gone)
            \/ ConnectsAtOnce(s, o, gone, log)

Resolving_JobKept(f) ==
    LET s == owner[f] IN
    /\ Ready /\ f \in jobs
    /\ s # NoStruct /\ stm[s] = "RESOLVING"
    /\ ConnectNext(s, {}, TRUE)
    /\ UNCHANGED <<memory, jobs, client_fd, resolver, server>>
    /\ Record

\* handle_block_notifications takes the job off the list and, if its
\* descriptor is registered, calls resolving for its owner.
Resolving(f) ==
    LET s == owner[f] IN
    /\ Ready /\ f \in jobs
    /\ jobs' = jobs \ {f}
    /\ \/ /\ s = NoStruct
          /\ UNCHANGED <<calls, items, stm, links, request>>
       \/ /\ s # NoStruct /\ stm[s] = "RESOLVING"
          /\ ConnectNext(s, {}, TRUE)
          /\ UNCHANGED client_fd
    /\ UNCHANGED <<memory, resolver, server>>
    /\ Record

\* connecting: the origin's descriptor is writable.
Connecting(f) ==
    LET s == owner[f] IN
    /\ Event(f, "W") /\ stm[s] = "CONNECTING" /\ f = origin_fd[s]
    /\ \/ \* SO_ERROR cannot be read
          /\ Reject(s, {}, "idle")
          /\ UNCHANGED resolution
       \/ \* SO_ERROR is set: the origin is unregistered and closed, and the
          \* next address is tried
          ConnectNext(s, {f}, FALSE)
       \/ \* connected
          /\ Answer(s, "SUCCEEDED", TRUE)
          /\ interest' = [interest EXCEPT ![f] = {}, ![client_fd[s]] = {"W"}]
          /\ UNCHANGED <<calls, owner, origin_fd, resolution>>
    /\ UNCHANGED <<memory, client_fd, jobs, resolver, server>>
    /\ Record
-----------------------------------------------------------------------------
(* The reply and the relay *)

\* copy_update_interests: each side is read while there is room for what it
\* says, and written while there is something to tell it. What the two buffers
\* hold (rb from the client, wb for it) is left open.
CopyInterests(s) ==
    LET Wants(in, out) == {op \in Ops : \/ op = "R" /\ in # "full"
                                        \/ op = "W" /\ out # "empty"}
        Level == {"empty", "some", "full"}
    IN  {[interest EXCEPT ![client_fd[s]] = Wants(rb, wb),
                          ![origin_fd[s]] = Wants(wb, rb)] : rb, wb \in Level}

\* request_write: once the reply is sent, a success starts the relay (copy_init
\* sets the interests) and a failure ends the connection.
RequestWrite(f) ==
    LET s == owner[f] IN
    /\ Event(f, "W") /\ stm[s] = "REQUEST_WRITE"
    /\ \/ /\ answer[s] = "SUCCEEDED" /\ origin_fd[s] # NoFd
          /\ stm' = [stm EXCEPT ![s] = "COPY"]
          /\ interest' \in CopyInterests(s)
          /\ UNCHANGED <<calls, owner, links>>
       \/ Done(s)
    /\ UNCHANGED <<memory, jobs, request, resolver, server>>
    /\ Record

\* copy_read and copy_write: the interests follow the buffers; end of file or
\* an error on either side ends the connection.
Copy(f, op) ==
    LET s == owner[f] IN
    /\ Event(f, op) /\ stm[s] = "COPY"
    /\ \/ /\ interest' \in CopyInterests(s)
          /\ UNCHANGED <<calls, owner, stm, links>>
       \/ Done(s)
    /\ UNCHANGED <<memory, jobs, request, resolver, server>>
    /\ Record
-----------------------------------------------------------------------------
(* resolver_thread *)

Lookup_FailsInSilence(s) ==
    /\ running /\ At(s, "lookup")
    /\ \E n \in {-1} \cup 1 .. MaxAddrs :
         /\ resolution' = [resolution EXCEPT ![s] = n]
         /\ Goto(s, IF n = -1 THEN "destroy" ELSE "notify")
    /\ UNCHANGED <<memory, items, jobs, stm, links, answer, logged, entries,
                   resolver, server>>
    /\ Record

\* getaddrinfo fails, or returns a list that is not empty.
Lookup(s) ==
    /\ running /\ At(s, "lookup")
    /\ Goto(s, "notify")
    /\ \E n \in {-1} \cup 1 .. MaxAddrs : resolution' = [resolution EXCEPT ![s] = n]
    /\ UNCHANGED <<memory, items, jobs, stm, links, answer, logged, entries,
                   resolver, server>>
    /\ Record

\* selector_notify_block queues the job under its lock, or has no memory for
\* it, and nobody looks at its result. socks5_destroy is next.
Notify(s) ==
    /\ running /\ At(s, "notify")
    /\ Goto(s, "destroy")
    /\ \/ jobs' = jobs \cup {rfd[s]} /\ UNCHANGED unheard
       \/ unheard' = unheard \cup {s} /\ UNCHANGED jobs
    /\ UNCHANGED <<memory, items, stm, links, request, rfd, server>>
    /\ Record
-----------------------------------------------------------------------------
(* main *)

\* SIGTERM or SIGINT: the passive sockets are unregistered.
Shutdown ==
    /\ Ready /\ listening
    /\ listening' = FALSE
    /\ UNCHANGED <<memory, calls, items, jobs, stm, links, request, resolver,
                   running>>
    /\ Record

Exit_WithoutWaiting ==
    /\ Ready /\ ~listening
    /\ running' = FALSE
    /\ UNCHANGED <<memory, calls, items, jobs, stm, links, request, resolver,
                   listening>>
    /\ Record

\* The loop ends once the metric says that there is no connection.
Exit ==
    /\ Ready /\ ~listening /\ concurrent = 0
    /\ running' = FALSE
    /\ UNCHANGED <<memory, calls, items, jobs, stm, links, request, resolver,
                   listening>>
    /\ Record

\* pselect times out and the loop goes round; or the process is gone.
Idle == UNCHANGED vars
-----------------------------------------------------------------------------
Handler(f) ==
    \/ HelloRead(f) \/ HelloWrite(f) \/ AuthRead(f) \/ AuthWrite(f)
    \/ RequestRead(f) \/ Resolving(f) \/ Connecting(f) \/ RequestWrite(f)
    \/ \E op \in Ops : Copy(f, op)

\* A step of p inside socks5_destroy, or inside another call of main's.
SharedStep(p) ==
    /\ running
    /\ \/ DestroyStep(p)
       \/ p = Main /\ (NewStep \/ Take \/ TakeStore)
    /\ UNCHANGED <<items, jobs, stm, links, request, resolver, server>>
    /\ Record

ResolverThread(s) == Lookup(s) \/ Notify(s) \/ SharedStep(s)

MainCall ==
    \/ \E f \in FD : Accept(f) \/ AcceptRefused(f)
    \/ PthreadCreate
    \/ SharedStep(Main)

Next ==
    \/ Incoming \/ MainCall
    \/ \E f \in FD : Handler(f)
    \/ \E s \in Struct : ResolverThread(s)
    \/ Shutdown \/ Exit \/ Idle

Spec == Init /\ [][Next]_vars

\* getaddrinfo returns, threads run, and the loop, to which main returns again
\* and again, serves its notifications.
ThreadFairness ==
    /\ \A s \in Struct : WF_vars(ResolverThread(s))
    /\ WF_vars(MainCall)
    /\ \A f \in FD : SF_vars(Resolving(f))

\* The peers' part: a connect() is answered or times out, and no connection is
\* kept open for ever by both its ends.
Ends(s) == \E f \in FD : owner[f] = s /\ Handler(f) /\ stm'[s] = "DONE"
PeerFairness ==
    /\ \A f \in FD : SF_vars(Connecting(f))
    /\ \A s \in Struct : SF_vars(Ends(s))

FairSpec == Spec /\ ThreadFairness /\ PeerFairness /\ SF_vars(Exit)
-----------------------------------------------------------------------------
(* Properties *)

ConnectionTypeOK ==
    /\ owner \in [FD -> Struct \cup {NoStruct}]
    /\ interest \in [FD -> SUBSET Ops]
    /\ jobs \subseteq FD \cup {NoFd}
    /\ stm \in [Struct -> States]
    /\ client_fd \in [Struct -> FD \cup {NoFd}]
    /\ origin_fd \in [Struct -> FD \cup {NoFd}]
    /\ resolution \in [Struct -> -1 .. MaxAddrs]
    /\ answer \in [Struct -> Methods \cup Verdicts \cup Replies]
    /\ logged \in [Struct -> BOOLEAN]
    /\ entries \in [Struct -> Nat]
    /\ rfd \in [Struct -> FD \cup {NoFd}]
    /\ unheard \subseteq Struct
    /\ listening \in BOOLEAN
    /\ running \in BOOLEAN
    /\ raced \in BOOLEAN
TypeOK == MemoryTypeOK /\ ConnectionTypeOK

(* Who uses a struct *)

Live(s) == s \in allocated /\ s \notin Pooled
ClientOpen(s) == client_fd[s] # NoFd /\ owner[client_fd[s]] = s
OriginOpen(s) == origin_fd[s] # NoFd /\ owner[origin_fd[s]] = s

\* socks5_destroy, up to the assignment that makes the pool own the struct.
Destroying == {"destroy", "drop", "drop_store", "closed", "closed_load",
               "closed_store", "room", "link", "push"}
Resolver(s) == pc[s] \in {"lookup", "notify"} \cup Destroying

\* Main has it from socks5_new and no client has it yet.
Fresh(s) ==
    cur = s /\ pc[Main] \in {"shrink", "shrink_store", "opened", "opened_store",
                            "register"}

Count(p) == IF p THEN 1 ELSE 0

\* The references main has still to give up, and to take.
Owes(s) ==
    IF cur # s THEN 0
    ELSE Count(pc[Main] \in Destroying \cup {"pthread_create"}) + Count(then = "destroy")
Due(s) ==
    Count(cur = s /\ \/ then = "take"
                     \/ then = "idle" /\ pc[Main] \in {"take", "take_store"})

Holders(s) ==
    Count(ClientOpen(s)) + Count(OriginOpen(s)) + Count(Resolver(s)) + Owes(s)

\* references is the number of those who will still use the struct: the two
\* descriptors registered with it, its resolver thread, and main for each
\* socks5_destroy it is about to make; so that the struct reaches the pool when
\* the last of them lets go, never before and never twice.
Exact(s) == Live(s) /\ ~Fresh(s) => references[s] + Due(s) = Holders(s)
RefsExact == ~raced => \A s \in Struct : Exact(s)

\* A struct that is in the pool, or freed, is out of use: no descriptor leads
\* to it, and neither a thread nor main holds it (socks5_destroy, socks5_new).
Unused(s) == Holders(s) = 0 /\ ~Fresh(s)
FreeIsUnused == ~raced => \A s \in Struct : ~Live(s) => Unused(s)

\* The pool is a list that ends, of blocks that are allocated: no struct is on
\* it twice, so that it is never handed out to two connections, nor after it
\* has been freed.
ListEnds == \A s \in Pooled : s \notin Reach(next, next[s])
PoolDistinct == ~raced => ListEnds /\ Pooled \subseteq allocated

\* pool_size is the length of that list, but for the update that is under way,
\* and the list never grows longer than max_pool.
SizeIsLength ==
    pool_size + Count(\E p \in Thread : pc[p] \in {"grow", "grow_store"})
        = Cardinality(Pooled) + Count(pc[Main] \in {"shrink", "shrink_store"})
PoolBounded == ~raced => SizeIsLength /\ Cardinality(Pooled) <= MaxPool

\* What a connection calls its descriptors is what the selector has for it:
\* socksv5_done never meets the abort() on selector_unregister_fd, never closes
\* the descriptor of another connection, and leaves none behind.
Owned(f) ==
    owner[f] # NoStruct =>
        LET s == owner[f] IN
        /\ stm[s] # "DONE" /\ f \in {client_fd[s], origin_fd[s]}
        /\ ClientOpen(s)
        /\ origin_fd[s] # NoFd => OriginOpen(s) /\ origin_fd[s] # client_fd[s]
DescriptorsOwned == ~raced => \A f \in FD : Owned(f)

\* An event is delivered only to a state that has a handler for it, else the
\* stm aborts, and, since the handlers write to the descriptor of the event, a
\* message for the client is never written to the origin (client_statbl).
Handled(f) ==
    interest[f] # {} =>
        LET s == owner[f] IN
        /\ s # NoStruct
        /\ \/ /\ stm[s] \in {"HELLO_READ", "AUTH_READ", "REQUEST_READ"}
              /\ f = client_fd[s] /\ interest[f] = {"R"}
           \/ /\ stm[s] \in {"HELLO_WRITE", "AUTH_WRITE", "REQUEST_WRITE"}
              /\ f = client_fd[s] /\ interest[f] = {"W"}
           \/ /\ stm[s] = "CONNECTING"
              /\ f = origin_fd[s] /\ interest[f] = {"W"}
           \/ stm[s] = "COPY"
InterestsHandled == ~raced => \A f \in FD : Handled(f)

\* The notification carries a descriptor number, not the connection: whoever
\* has that descriptor when it is served must be the connection that asked,
\* still RESOLVING (stm_handler_block aborts in any other state). Nothing can
\* close that descriptor in the meantime, nor touch the fields the thread
\* writes (handle_block_notifications, resolver_thread).
JobOwned(f) ==
    f \in FD /\ owner[f] # NoStruct /\ stm[owner[f]] = "RESOLVING"
             /\ f = client_fd[owner[f]]
Asking(s) ==
    pc[s] \in {"lookup", "notify"} =>
        /\ stm[s] = "RESOLVING" /\ ClientOpen(s)
        /\ rfd[s] = client_fd[s] /\ rfd[s] \notin jobs
JobsReachTheirOwner ==
    ~raced => (\A f \in jobs : JobOwned(f)) /\ \A s \in Struct : Asking(s)

\* A connection that is RESOLVING will be woken: its thread has still to
\* notify, or the notification is queued; or it was lost for want of memory.
Pending(s) ==
    ClientOpen(s) /\ stm[s] = "RESOLVING" =>
        pc[s] \in {"lookup", "notify"} \/ client_fd[s] \in jobs \/ s \in unheard
ResolutionPending == ~raced => \A s \in Struct : Pending(s)

\* concurrent_connections is the number of structs in use that main has counted
\* and nobody has discounted.
Counted(s) ==
    /\ Live(s)
    /\ ~(cur = s /\ pc[Main] \in {"shrink", "shrink_store", "opened", "opened_store"})
    /\ \A p \in Thread : Subject(p) = s => pc[p] \notin {"room", "link", "push"}
MetricIsCount == concurrent = Cardinality({s \in Struct : Counted(s)})
MetricExact == ~raced => MetricIsCount

\* A failure is in the access log before it is reported, and no connection is
\* there twice (request_set_reply, request_log_success).
LogExact ==
    \A s \in Struct :
        /\ entries[s] <= 1
        /\ stm[s] = "REQUEST_WRITE" /\ answer[s] = "FAILURE" => entries[s] = 1

\* When main leaves its loop no descriptor leads to a struct any more, and a
\* thread that is left is past the metric: it is about to put its struct into
\* the pool, or to end.
ExitQuiescent ==
    ~raced /\ ~running =>
        /\ \A f \in FD : owner[f] = NoStruct
        /\ jobs = {}
        /\ \A s \in Struct : pc[s] \in {"none", "room", "link", "push", "grow", "grow_store"}

\* The reference count and the pool implement Lifetime as long as no two of the
\* sections overlap: a struct is handed out again only after the last of its
\* users (main and the client, the origin, the resolver) has let go of it, and
\* is so as soon as it has.
UsersOf(s) ==
    {u \in {"client", "origin", "resolver"} :
        \/ u = "client" /\ (ClientOpen(s) \/ Fresh(s) \/ Owes(s) > 0)
        \/ u = "origin" /\ OriginOpen(s)
        \/ u = "resolver" /\ Resolver(s)}

L == INSTANCE Lifetime WITH
         Object <- Struct,
         users <- [s \in Struct |-> UsersOf(s)],
         inUse <- {s \in Struct : Live(s)}

ImplementsLifetime == L!Init /\ [][L!Next \/ raced']_(L!vars)

\* A resolution is answered, unless its notification is lost.
ResolutionEnds ==
    \A s \in Struct :
        stm[s] = "RESOLVING" ~> stm[s] # "RESOLVING" \/ raced \/ s \in unheard

\* A shutdown completes once the connections have ended by themselves, unless
\* sections overlap or a connection waits for a notification that was lost.
ShutdownCompletes == ~listening ~> ~running \/ raced \/ unheard # {}

(* What the repository says of this code, and what it does not keep: the runs *)
(* on these end in a counterexample.                                          *)

\* No struct is ever on the list of the pool twice.
PushedOnce == ListEnds

\* A struct in the pool is not in use, so that socks5_new hands it to nobody
\* who shares it with another connection.
PooledIsUnused == \A s \in Pooled : Unused(s)

\* Every connection relayed or about to be is in the access log.
SuccessLogged ==
    \A s \in Struct : stm[s] \in {"REQUEST_WRITE", "COPY"} => entries[s] = 1
=============================================================================
