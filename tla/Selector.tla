------------------------------- MODULE Selector -------------------------------
(* The selector (src/src/shared/selector.c) below the main loop of            *)
(* src/src/server/main.c and the handlers of src/src/server/socks5nio.c: the  *)
(* table of items with its fd_sets and max_fd, what pselect reports, the walk *)
(* over the table while handlers change it, the numbers the kernel gives, and *)
(* the notifications of resolver threads with the signal that wakes pselect.  *)
(* What handlers do to the selector is here; the rest of them is in Socks5.   *)
(*                                                                            *)
(* A definition whose name has the form Name_Fault is Name with a plausible   *)
(* programming error, against which the properties are tried; nothing in the  *)
(* specification uses it.                                                     *)
EXTENDS Integers, Sequences, FiniteSets

CONSTANTS
    MaxSize,        \* ITEMS_MAX_SIZE
    Data,           \* the structs that descriptors are registered with
    Server,         \* stands for the data of the passive socket
    CopyInterests,  \* the interests <<of the client, of the origin>> in COPY
    MaxThreads      \* bound on the resolver threads at a time

Powers == {2 ^ k : k \in 0 .. MaxSize}
LeastAbove(n, p) == p > n /\ \A q \in Powers : q > n => p <= q

ASSUME SelectorAssumption ==
    /\ MaxSize \in Nat \ {0}
    /\ Server \notin Data
    /\ CopyInterests \subseteq (SUBSET {"r", "w"}) \X (SUBSET {"r", "w"})
    /\ Powers \subseteq Nat
    /\ \E p \in Powers : LeastAbove(MaxSize, p)

VARIABLES
    sel,              \* struct fdselector: fds, max_fd, master_r, master_w
    slave_r, slave_w, \* its other two sets
    resolution_jobs,  \* its list
    open,             \* the numbers of open descriptors
    stage,            \* of a connection: "none", "client", "resolving", ...
    thread,           \* its resolver: "none", "running", or "queued" its job
    lookup,           \* the descriptor that getaddrinfo has open in that thread
    alarm,            \* SIGALRM is pending for the main thread
    pc, at, n,        \* the main thread, in the walk the next place and the last item
    requested, listening,
    told,             \* history, in the walk: the reports to registrations that are still there
    opened            \* history: sockets opened in the walk, up to 2

table == <<sel, open, stage, told, opened>>
resolver == <<thread, lookup>>
vars == <<table, slave_r, slave_w, resolution_jobs, resolver, alarm, pc, at, n,
          requested, listening>>
-----------------------------------------------------------------------------
(* The table. fds is the array; an item is NoItem as item_init leaves it.     *)

NoItem == [interest |-> {}, data |-> Server, role |-> "none"]  \* FD_UNUSED
Roles == {"passive", "client", "origin"}
Items == [interest : SUBSET {"r", "w"}, data : Data \cup {Server}, role : Roles]
Numbers == 0 .. MaxSize - 1
Tables ==
    [fds : [0 .. MaxSize -> Items \cup {NoItem}], max_fd : Numbers,
     master_r : SUBSET Numbers, master_w : SUBSET Numbers, outside : {FALSE}]
Used(s, fd) == fd \in DOMAIN s.fds /\ s.fds[fd] # NoItem

\* The least power of two above size, or the most there may be; and one more.
next_capacity(size) ==
    LET tmp == CHOOSE p \in Powers : LeastAbove(size, p) IN
    1 + IF tmp > MaxSize THEN MaxSize ELSE tmp

\* The table has size elements, if there may be as many, the new ones unused.
ensure_capacity(s, size) ==
    IF size < Cardinality(DOMAIN s.fds) \/ size > MaxSize THEN s
    ELSE [s EXCEPT !.fds = [fd \in 0 .. next_capacity(size) - 1 |->
                               IF fd \in DOMAIN s.fds THEN s.fds[fd] ELSE NoItem]]

Initial_Few == 1
Initial == MaxSize  \* 1024, which is FD_SETSIZE

selector_new ==
    ensure_capacity([fds |-> <<>>, max_fd |-> 0, master_r |-> {}, master_w |-> {},
                     outside |-> FALSE], Initial)

items_update_fdset_for_fd(s, fd) ==
    [s EXCEPT !.master_r = IF "r" \in s.fds[fd].interest THEN @ \cup {fd} ELSE @ \ {fd},
              !.master_w = IF "w" \in s.fds[fd].interest THEN @ \cup {fd} ELSE @ \ {fd}]

\* Succeeds unless the number is illegal: nobody registers one that is in use.
Registrable(fd) == fd < MaxSize

\* An element outside the table is written if there is none for the number
\* (`outside'); the table grows only if the number is larger than its size.
selector_register(s, fd, interest, data, role) ==
    LET grown == IF fd > Cardinality(DOMAIN s.fds) THEN ensure_capacity(s, fd) ELSE s IN
    IF fd \notin DOMAIN grown.fds THEN [grown EXCEPT !.outside = TRUE]
    ELSE items_update_fdset_for_fd(
           [grown EXCEPT !.fds[fd] = [interest |-> interest, data |-> data, role |-> role],
                         !.max_fd = IF fd > @ THEN fd ELSE @], fd)

items_max_fd(s) ==
    LET used == {fd \in 0 .. s.max_fd : Used(s, fd)} IN
    IF used = {} THEN 0 ELSE CHOOSE fd \in used : \A other \in used : other <= fd

selector_unregister_fd_ClearsFirst(s, fd) ==
    LET cleared == [s EXCEPT !.fds[fd] = NoItem] IN
    [cleared EXCEPT !.max_fd = items_max_fd(cleared)]

\* handle_close is part of what the handlers below do.
selector_unregister_fd(s, fd) ==
    LET cleared == [items_update_fdset_for_fd([s EXCEPT !.fds[fd].interest = {}], fd)
                       EXCEPT !.fds[fd] = NoItem]
    IN  [cleared EXCEPT !.max_fd = items_max_fd(cleared)]

selector_set_interest(s, fd, interest) ==
    items_update_fdset_for_fd([s EXCEPT !.fds[fd].interest = interest], fd)
-----------------------------------------------------------------------------
(* What handlers do. A connection has the client's descriptor and, from       *)
(* CONNECTING on, the origin's.                                               *)

Of(s, d, role) == {fd \in DOMAIN s.fds : s.fds[fd].data = d /\ s.fds[fd].role = role}
Client(d) == CHOOSE fd \in Of(sel, d, "client") : TRUE
Origin(d) == CHOOSE fd \in Of(sel, d, "origin") : TRUE

\* socket() and accept() give the lowest number there is, of a table that the
\* resolver threads use as well.
Lowest(numbers) ==
    LET taken == numbers \cup UNION {lookup[d] : d \in Data} IN
    CHOOSE fd \in 0 .. MaxSize : fd \notin taken /\ \A low \in 0 .. fd - 1 : low \in taken

\* The histories, after some descriptors were closed and some opened.
Account(closed, more) ==
    /\ told' = {report \in told : report[1] \notin closed}
    /\ opened' = IF pc # "walk" THEN 0 ELSE IF opened + more > 2 THEN 2 ELSE opened + more

\* The struct of a connection is free once no thread has a reference to it.
Free(d) == stage[d] = "none" /\ thread[d] = "none"

\* socksv5_passive_accept. There may be nobody to accept, or no memory; a
\* number that cannot be registered is closed again.
Accept ==
    \/ \E d \in Data :
         LET fd == Lowest(open) IN
         /\ Free(d) /\ Registrable(fd)
         /\ sel' = selector_register(sel, fd, {"r"}, d, "client")
         /\ open' = open \cup {fd}
         /\ stage' = [stage EXCEPT ![d] = "client"]
         /\ Account({}, 1)
         /\ UNCHANGED thread
    \/ UNCHANGED <<table, thread>>

\* request_connect_sockaddr, on as many addresses as there are: none can be
\* connected to (or its socket not registered), and the client is told; one
\* is waited for; or one is connected at once.
Connect(s, numbers, closed, d) ==
    LET fd == Lowest(numbers)
        Tell(t, interest) == selector_set_interest(t, Client(d), interest)
        With(interest) == selector_register(s, fd, interest, d, "origin")
    IN  \/ /\ sel' = Tell(s, {"w"}) /\ open' = numbers
           /\ stage' = [stage EXCEPT ![d] = "client"]
           /\ Account(closed, 0)
        \/ /\ Registrable(fd)
           /\ sel' = Tell(With({"w"}), {}) /\ open' = numbers \cup {fd}
           /\ stage' = [stage EXCEPT ![d] = "connecting"]
           /\ Account(closed, 1)
        \/ /\ Registrable(fd)
           /\ sel' = Tell(With({}), {"w"}) /\ open' = numbers \cup {fd}
           /\ stage' = [stage EXCEPT ![d] = "relay"]
           /\ Account(closed, 1)

End_ForgetsOrigin(d) ==
    LET fds == Of(sel, d, "client") \cup Of(sel, d, "origin") IN
    /\ sel' = selector_unregister_fd(sel, Client(d))
    /\ open' = open \ fds
    /\ stage' = [stage EXCEPT ![d] = "none"]
    /\ Account(fds, 0)

\* socksv5_done
End(d) ==
    LET fds == Of(sel, d, "client") \cup Of(sel, d, "origin")
        first == selector_unregister_fd(sel, Client(d))
    IN  /\ sel' = IF Of(sel, d, "origin") = {} THEN first
                  ELSE selector_unregister_fd(first, Origin(d))
        /\ open' = open \ fds
        /\ stage' = [stage EXCEPT ![d] = "none"]
        /\ Account(fds, 0)

\* A handler that leaves the descriptors as they are but for their interests.
Negotiate(d, interest) ==
    /\ stage[d] = "client"
    /\ sel' = selector_set_interest(sel, Client(d), interest)
    /\ UNCHANGED <<open, stage>>
    /\ Account({}, 0)

Relay(d) ==
    /\ stage[d] = "relay"
    /\ \E interests \in CopyInterests :
         sel' = selector_set_interest(
                  selector_set_interest(sel, Client(d), interests[1]), Origin(d), interests[2])
    /\ UNCHANGED <<open, stage>>
    /\ Account({}, 0)

\* request_start_resolution
Resolve(d) ==
    /\ stage[d] = "client" /\ thread[d] = "none"
    /\ Cardinality({e \in Data : thread[e] # "none"}) < MaxThreads
    /\ sel' = selector_set_interest(sel, Client(d), {})
    /\ stage' = [stage EXCEPT ![d] = "resolving"]
    /\ thread' = [thread EXCEPT ![d] = "running"]
    /\ UNCHANGED open
    /\ Account({}, 0)

\* The handlers of a connection: handle_read of the client's descriptor, ...
OnRead(d) ==
    \/ Resolve(d)
    \/ /\ \/ \E interest \in {{"r"}, {"w"}} : Negotiate(d, interest)
          \/ stage[d] = "client" /\ Connect(sel, open, {}, d)
          \/ Relay(d)
          \/ End(d)
       /\ UNCHANGED thread

\* ... handle_write, and handle_read of the origin's. `connecting' may have to
\* give up the socket it waited for.
OnOther(d) ==
    /\ \/ \E interest \in {{"r"}, {"w"}} : Negotiate(d, interest)
       \/ Relay(d)
       \/ stage[d] \in {"client", "relay"} /\ End(d)
       \/ /\ stage[d] = "connecting"
          /\ sel' = selector_set_interest(
                      selector_set_interest(sel, Origin(d), {}), Client(d), {"w"})
          /\ stage' = [stage EXCEPT ![d] = "relay"]
          /\ UNCHANGED open
          /\ Account({}, 0)
       \/ /\ stage[d] = "connecting"
          /\ Connect(selector_unregister_fd(sel, Origin(d)), open \ {Origin(d)}, {Origin(d)}, d)
    /\ UNCHANGED thread
-----------------------------------------------------------------------------
(* The main loop and selector_select *)

Init ==
    /\ sel = selector_register(selector_new, 0, {"r"}, Server, "passive")
    /\ open = {0}
    /\ slave_r = {} /\ slave_w = {} /\ resolution_jobs = <<>>
    /\ stage = [d \in Data |-> "none"]
    /\ thread = [d \in Data |-> "none"] /\ lookup = [d \in Data |-> {}]
    /\ alarm = FALSE
    /\ pc = "top" /\ at = 0 /\ n = 0
    /\ requested = FALSE /\ listening = TRUE
    /\ told = {} /\ opened = 0

\* The loop begins: a requested shutdown stops listening; the loop ends when
\* no connection is left, and selector_destroy forgets the jobs.
Top ==
    /\ pc = "top"
    /\ IF requested /\ listening
       THEN /\ sel' = selector_unregister_fd(sel, 0)
            /\ Account({0}, 0)
       ELSE UNCHANGED <<sel, told, opened>>
    /\ listening' = (listening /\ ~requested)
    /\ IF ~listening' /\ \A d \in Data : Free(d)
       THEN pc' = "done" /\ resolution_jobs' = <<>> /\ UNCHANGED <<slave_r, slave_w>>
       ELSE pc' = "select" /\ slave_r' = sel'.master_r /\ slave_w' = sel'.master_w
            /\ UNCHANGED resolution_jobs
    /\ UNCHANGED <<open, stage, resolver, alarm, at, n, requested>>

\* pselect reports some descriptors, or none at the time limit, and
\* handle_iteration begins.
Reported ==
    /\ pc = "select"
    /\ slave_r' \in SUBSET slave_r /\ slave_w' \in SUBSET slave_w
    /\ told' = (slave_r' \X {"r"}) \cup (slave_w' \X {"w"})
    /\ opened' = 0
    /\ pc' = "walk" /\ at' = 0 /\ n' = sel.max_fd
    /\ UNCHANGED <<sel, open, stage, resolution_jobs, resolver, alarm, requested, listening>>

Interrupted_Iterates ==
    /\ pc = "select" /\ alarm
    /\ alarm' = FALSE
    /\ pc' = "walk" /\ at' = 0 /\ n' = sel.max_fd
    /\ UNCHANGED <<table, slave_r, slave_w, resolution_jobs, resolver, requested, listening>>

\* A signal interrupts it: the iteration is left out.
Interrupted ==
    /\ pc = "select" /\ alarm
    /\ alarm' = FALSE
    /\ slave_r' = {} /\ slave_w' = {}
    /\ pc' = "notify"
    /\ UNCHANGED <<table, resolution_jobs, resolver, at, n, requested, listening>>

\* The places of the walk: for each item its reading, then its writing.
Place(event) == 2 * event[1] + IF event[2] = "r" THEN 0 ELSE 1

\* The events that the walk would deliver from here on, as things are.
Deliverable ==
    {event \in (slave_r \X {"r"}) \cup (slave_w \X {"w"}) :
        /\ event[1] <= n /\ Place(event) >= at
        /\ Used(sel, event[1]) /\ event[2] \in sel.fds[event[1]].interest}
Delivered(event) ==
    /\ pc = "walk" /\ event \in Deliverable
    /\ \A other \in Deliverable : Place(event) <= Place(other)

\* handle_iteration gets to the next item that has an event for its handler ...
Visit ==
    /\ \E event \in Deliverable :
         LET item == sel.fds[event[1]] IN
         /\ Delivered(event)
         /\ at' = Place(event) + 1
         /\ \/ item.role = "passive" /\ Accept
            \/ item.role = "client" /\ event[2] = "r" /\ OnRead(item.data)
            \/ item.role = "client" /\ event[2] = "w" /\ OnOther(item.data)
            \/ item.role = "origin" /\ OnOther(item.data)
    /\ UNCHANGED <<slave_r, slave_w, resolution_jobs, lookup, alarm, pc, n, requested, listening>>

\* ... until none is left. What pselect reported is not looked at again.
WalkEnds ==
    /\ pc = "walk" /\ Deliverable = {}
    /\ pc' = "notify"
    /\ slave_r' = {} /\ slave_w' = {} /\ at' = 0 /\ n' = 0
    /\ told' = {} /\ opened' = 0
    /\ UNCHANGED <<sel, open, stage, resolution_jobs, resolver, alarm, requested, listening>>

\* handle_block_notifications, with `resolving', one job after the other; the
\* mutex keeps others out until the list is empty.
Notification ==
    /\ pc = "notify" /\ resolution_jobs # <<>>
    /\ LET item == sel.fds[Head(resolution_jobs)] IN
       \/ /\ item # NoItem /\ stage[item.data] = "resolving"
          /\ Connect(sel, open, {}, item.data)
       \/ /\ item = NoItem
          /\ UNCHANGED table
    /\ resolution_jobs' = Tail(resolution_jobs)
    /\ pc' = IF resolution_jobs' = <<>> THEN "top" ELSE "notify"
    /\ UNCHANGED <<slave_r, slave_w, resolver, alarm, at, n, requested, listening>>

NoNotification ==
    /\ pc = "notify" /\ resolution_jobs = <<>>
    /\ pc' = "top"
    /\ UNCHANGED <<table, slave_r, slave_w, resolution_jobs, resolver, alarm, at, n, requested,
                   listening>>
-----------------------------------------------------------------------------
(* The other threads, and signals *)

\* getaddrinfo opens a socket, or closes it.
Lookup(d) ==
    /\ thread[d] = "running"
    /\ \/ /\ lookup[d] = {} /\ Lowest(open) < MaxSize
          /\ lookup' = [lookup EXCEPT ![d] = {Lowest(open)}]
          /\ Account({}, 1)
       \/ /\ lookup[d] # {}
          /\ lookup' = [lookup EXCEPT ![d] = {}]
          /\ UNCHANGED <<told, opened>>
    /\ UNCHANGED <<sel, open, stage, slave_r, slave_w, resolution_jobs, thread, alarm, pc, at, n,
                   requested, listening>>

\* selector_notify_block puts a job at the head of the list, unless there is no
\* memory for it. In the walk over the list the mutex is taken.
Push(d) ==
    /\ thread[d] = "running" /\ lookup[d] = {}
    /\ \/ /\ ~(pc = "notify" /\ resolution_jobs # <<>>)
          /\ resolution_jobs' = <<Client(d)>> \o resolution_jobs
          /\ thread' = [thread EXCEPT ![d] = "queued"]
       \/ /\ thread' = [thread EXCEPT ![d] = "none"]
          /\ UNCHANGED resolution_jobs
    /\ UNCHANGED <<table, slave_r, slave_w, lookup, alarm, pc, at, n, requested, listening>>

Kill_NotBlocked(d) ==
    /\ thread[d] = "queued"
    /\ alarm' = (alarm \/ pc = "select")
    /\ thread' = [thread EXCEPT ![d] = "none"]
    /\ UNCHANGED <<table, slave_r, slave_w, resolution_jobs, lookup, pc, at, n, requested,
                   listening>>

\* pthread_kill. The signal is blocked but for the time in pselect, so that it
\* stays pending; then the thread gives up its reference.
Kill(d) ==
    /\ thread[d] = "queued"
    /\ alarm' = TRUE
    /\ thread' = [thread EXCEPT ![d] = "none"]
    /\ UNCHANGED <<table, slave_r, slave_w, resolution_jobs, lookup, pc, at, n, requested,
                   listening>>

\* SIGTERM, which is not blocked, interrupts pselect if the main thread takes it.
Sigterm ==
    /\ ~requested
    /\ requested' = TRUE
    /\ \/ UNCHANGED <<pc, slave_r, slave_w>>
       \/ pc = "select" /\ pc' = "notify" /\ slave_r' = {} /\ slave_w' = {}
    /\ UNCHANGED <<table, resolution_jobs, resolver, alarm, at, n, listening>>

Next ==
    \/ Top \/ Reported \/ Interrupted \/ Visit \/ WalkEnds \/ Notification \/ NoNotification
    \/ \E d \in Data : Lookup(d) \/ Push(d) \/ Kill(d)
    \/ Sigterm

Spec == Init /\ [][Next]_vars
-----------------------------------------------------------------------------
(* Properties *)

\* The types; and the table, which never has to grow, has an element for every
\* number that is registered (selector_new, selector_register).
TypeOK ==
    /\ sel \in Tables
    /\ slave_r \subseteq Numbers /\ slave_w \subseteq Numbers /\ open \subseteq Numbers
    /\ resolution_jobs \in Seq(Numbers)
    /\ stage \in [Data -> {"none", "client", "resolving", "connecting", "relay"}]
    /\ thread \in [Data -> {"none", "running", "queued"}]
    /\ lookup \in [Data -> SUBSET Numbers]
    /\ pc \in {"top", "select", "walk", "notify", "done"}
    /\ at \in Nat /\ n \in Numbers
    /\ alarm \in BOOLEAN /\ requested \in BOOLEAN /\ listening \in BOOLEAN
    /\ told \subseteq Numbers \X {"r", "w"}
    /\ opened \in 0 .. 2

\* What pselect is told, the two sets and the highest number, is what the
\* table says, after whatever sequence of registrations, changes of interest
\* and unregistrations, of whatever numbers.
Mirrored(s) ==
    /\ s.master_r = {fd \in DOMAIN s.fds : "r" \in s.fds[fd].interest}
    /\ s.master_w = {fd \in DOMAIN s.fds : "w" \in s.fds[fd].interest}
    /\ \A fd \in DOMAIN s.fds : Used(s, fd) => fd <= s.max_fd
    /\ s.max_fd = 0 \/ Used(s, s.max_fd)
TableMirrored == Mirrored(sel)

\* pselect never meets a closed descriptor, with which it would fail (EBADF)
\* and the server end: every number in the table is open, and, but for the
\* passive socket of a server that is shutting down, every open one in the table.
TableOpen ==
    LET used == {fd \in DOMAIN sel.fds : Used(sel, fd)} IN
    used \subseteq open /\ open \subseteq used \cup {0}

\* A handler gets an event only if pselect has reported it for the
\* registration that it is handed to, though handlers close and open
\* descriptors while the walk goes on. The exception is a number that is
\* taken again in the same round. As the lowest is taken first, and the walk
\* has passed the one that the connection was ended on, this needs at least
\* two sockets opened in the round, by a handler or by a resolver thread.
EventsReported ==
    \A event \in Deliverable : Delivered(event) => event \in told \/ opened = 2

\* No wake-up is lost: while the main thread is in pselect and a notification
\* is in the list, its signal is pending or its thread about to send it.
NoLostWakeup ==
    pc = "select" /\ resolution_jobs # <<>> =>
        alarm \/ \E d \in Data : thread[d] = "queued"
=============================================================================
