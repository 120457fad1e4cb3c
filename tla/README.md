# A formal model of ProtoSocks

TLA+ modules, TLC configurations and TLAPS proofs for the SOCKSv5 proxy in
`src/src/server`, `src/src/shared` and `src/src/socks5`. Paths in this file are
relative to the repository root `src/`, as in `src/server/socks5nio.c`.

## 1. The system

One process, one thread that runs everything, and one short-lived thread per
name to resolve.

| Part | State it keeps | Operations | Hard behaviour |
|---|---|---|---|
| SOCKSv5 connections, `src/server/socks5nio.c` | a `struct socks5` per connection (state machine, two descriptors, `references`, address list, two buffers), a pool of at most 50 of them | accept; one handler per state (`hello_read` ... `copy_write`); `resolver_thread`; `socks5_destroy` | a struct is shared by two registered descriptors and a thread; retries over several addresses; ends in any state |
| COPY relay, same file | the two buffers, the interests of the two descriptors | `copy_init`, `copy_read`, `copy_write` | partial sends and receives, full buffers, end of file with bytes in flight |
| selector, `src/shared/selector.c` | table of items by descriptor, `max_fd`, two pairs of `fd_set`s, list of finished blocking jobs (under a mutex) | register, unregister, set interest, select, notify | handlers change the table while it is being walked; descriptors are reused; notifications carry a number; a signal may come before the sleep it should end |
| state machine, `src/shared/stm.c` | current state | read/write/block event, jump with departure and arrival | aborts the process on an event without a handler |
| buffers, `src/shared/buffer.c` | array, read and write positions | advance, compact, reset | wrap by compaction, boundary cases |
| parsers, `src/socks5/{hello,auth,request}.c`, `src/shared/parser.c` | position in a message, in a union that the states share | `*_consume`, `*_marshall` | messages split over any number of reads, or several in one read; answers that leave in pieces |
| user store, `src/server/user_store.c` | array of 10 entries | validate, add, remove, count, get by index | holes left by removals; duplicates |
| access log, `src/server/access_log.c` | ring of 32 entries | add, copy | wrap-around |
| metrics, `src/server/metrics.c` | three counters | new, closed, bytes | changed by threads too |
| monitor, `src/server/monitor.c` | one `struct monitor_client` per administrator: two buffers, line, `authenticated`, `close_after_write` | accept, read (parse lines, run commands), write | answers that do not fit, closing while bytes are still coming |
| main loop, `src/server/main.c` | `shutdown_requested`, `listening` | set-up, loop, graceful shutdown | waits for connections to end by themselves |
| client, `src/client` | none that outlives a command | interactive commands | sequential, blocking |

They interact by calls in one thread (selector -> handler -> buffers, user
store, access log, metrics), by callbacks (`handle_close` runs
`socks5_destroy`), and in one place by shared memory between threads:
`resolver_thread` writes `origin_resolution*`, queues a notification under the
selector's mutex, and calls `socks5_destroy` with no lock at all. So main and
the threads share, unprotected, the reference counts, the pool with its size, and
the metric `concurrent_connections`.

What makes each part correct:

- connections: `references` is the number of users of the struct; a struct that
  is pooled or freed is used by nobody, and pooled once; a descriptor of a
  connection is registered for it and no descriptor outlives it; no event
  reaches a state that has no handler for it; a notification reaches the
  connection that asked for it; every attempt is logged at most once, every
  failure before it is reported; the metric counts the connections; a shutdown
  ends, and not while a descriptor or a notification is left (each of these,
  but for the log, only until two updates of the shared memory overlap: section 6);
- relay: each direction is a FIFO channel, and neither stalls nor spins;
- buffers: compaction and partial use keep the contents, within the array;
- selector: what `pselect` is told is what the table says; every number in the
  table is open; an event goes to the registration it was reported for; no
  notification sleeps with the main thread;
- negotiation: the client's bytes are read as one message after the other, each
  once, however they are cut, and the answers arrive in order and whole; nobody
  gets past a login that was asked for;
- user store: a map from names to passwords of bounded size, whatever the holes;
- access log: the last 32 entries in order;
- monitor: buffers and line in bounds, answers get sent, only a session that has
  authenticated changes the users.

## 2. Modules

| Module | Models | Uses |
|---|---|---|
| `Memory` | what main and the resolver threads share without a lock, and `socks5_new`, `socks5_destroy`, `references++`, access by access | |
| `Socks5` | `socks5nio.c` without the bytes, the selector's table and notifications, the shutdown loop | `Memory`, `Lifetime` |
| `Lifetime` | abstract: a shared object and its users | |
| `Handshake` | `hello.c`, `auth.c`, `request.c`, `parser.c` and the handlers of `socks5nio.c` that run them, byte by byte | `Messages`, `Negotiation` |
| `Negotiation` | abstract: whole messages and their answers | `Messages` |
| `Messages` | the messages of RFC 1928 and 1929 as a whole, the reference for the parsers | |
| `Selector` | `selector.c`, the main loop, and what handlers do to the selector | |
| `CopyRelay` | COPY of `socks5nio.c`, one connection, byte by byte | `Buffer`, `Channel` |
| `Buffer` | `buffer.c` as operators on a record | |
| `Channel` | abstract: one direction of the relay | |
| `UserStore` | `user_store.c` as operators on an array | |
| `UserStoreCalls` | any sequence of calls of it | `UserStore`, `Directory` |
| `Directory` | abstract: a bounded map | |
| `AccessLog` | `access_log.c` | `RecentLog` |
| `RecentLog` | abstract: the last entries | |
| `Monitor` | `monitor.c`, several sessions on one user store | `UserStore` |
| `MC*` | constants and symmetry for TLC | |
| `*Proofs` | theorems and proofs | the module named (`CopyRelayProofs`: also `Buffer`) |
| `Induction` | lemmas on induction over the naturals, for the proofs | |

Definitions carry the names of the functions they model. `Name_Fault` beside a
definition `Name` is `Name` with a plausible programming error; the
specifications never use it. Each property of a passing run is tried against
one of these and has to fail.

### Memory

`references` and `next` are fields of `struct socks5`, indexed by its memory
block; `allocated` is the allocator, `pool` and `pool_size` the two variables of
`socks5nio.c`, and `concurrent` the metric. The list of the pool is what can be
reached along `next` (`Pooled`, `Reach`), so that a broken list is represented as
it is, loops included.

A step loads or stores one shared variable, as the code is compiled (without
optimisation): `x++` is a load into `reg` and a store from it. `Destroy`, `Drop`,
`DropStore` are the test and the two halves of `references -= 1`; `Closed`,
`ClosedLoad`, `ClosedStore` are `metrics_register_closed_connection`; `Room`,
`Link`, `Push`, `Grow`, `GrowStore` the rest of `socks5_destroy`. `New` ...
`OpenedStore` are `socks5_new` up to the metric, `Take` and `TakeStore` the
increments. Three pairs of accesses are one step each (the head of the module
names them). `pc[p]` is where p, main or a thread, is; a thread goes by the struct
it works for. Main makes its calls for the struct `cur`, and `then` is the call
it makes after this one.

`Overlap` says that two threads are, at the same time, inside an update of the same
reference count, of the metric, or of the pool: from the first access of the
update to the last. Nothing in the code prevents it.

### Socks5

What a handler does to its connection and to the selector's table only main
looks at, and it is one action; the calls by which the handler then uses the
shared memory follow step by step (`Calls`, `Return`), with steps of the threads
in between, and main takes no other handler before they are over (`Ready`).
`owner` and `interest` are the selector's `struct item`, `jobs` its
`resolution_jobs` (as a set: a descriptor is queued once, which
`JobsReachTheirOwner` checks, and `handle_block_notifications` treats them
alike, in any order). `stm`, `client_fd`, `origin_fd`, `resolution`, `answer` and
`logged` are fields of `struct socks5`; they keep their values after the block has
been released, as memory does. `rfd` is the argument of a thread. `entries`,
`unheard` (the structs whose notification found no memory) and `raced` (an
`Overlap` has happened) are histories.

The actions are named after the functions: `Incoming` is `socksv5_passive_accept`
up to `socks5_new`, `Accept` and `AcceptRefused` its two ends; `HelloRead` ...
`RequestWrite` the handlers of the states, each with the jumps it may make; `Copy`
both handlers of COPY; `Done` is `socksv5_done` with the `socks5_destroy` calls
that `selector_unregister_fd` makes; `PthreadCreate` is what
`request_start_resolution` does after `references++`, both ways; `ConnectNext` is
the loop over the remaining addresses, in which any number fail at once; `Lookup`
and `Notify` are the thread before its `socks5_destroy`. `SharedStep` is a step of
`Memory`, of a thread (`ResolverThread`) or of main (`MainCall`). A handler that
meets EAGAIN, or not yet a whole message, is a stuttering step. `Idle` stands for
it and for a `pselect` that times out; with it no state is a deadlock, so that
what must not get stuck is asked for as liveness. After `Exit` nothing moves: what
main frees after its loop is not modelled, and what a thread may still be doing by
then is what `ExitQuiescent` is about.

Most properties have the form `~raced => ...`: they hold in every behaviour of
the code up to the first overlap. What becomes of them afterwards is not left
open: two runs end in a counterexample for the code as it is (section 6). `TypeOK`
and `LogExact` hold whatever happens.

Abstracted: bytes, parsers and the text of replies (nondeterministic outcomes);
what the buffers hold in COPY (any level, hence any interests that
`copy_update_interests` can set: `CopyRelay` has the bytes); the reasons of a
failure (one `FAILURE`); DONE and ERROR (one state: the same code ends both); in
one handler the selector refuses a new descriptor at most once (`NoConnect`).

### Handshake, Negotiation and Messages

`Handshake` is one connection from HELLO_READ to COPY, with the bytes. The
parsers are functions of their state and a byte: `HelloFeed` (which runs
`parser_feed`, `ParserFeed`, on the tables of `hello.c`), `AuthFeed`,
`RequestFeed`; `Consume` is the loop of the three. `client` is the union, so that
a state that reads another state's struct shows. An array that is filled through
a position (`username`, `addr`) is a sequence, whose length is the position.
`read_buffer` is a position and the bytes from there: the negotiation never
compacts it, and `Room` is what `buffer_write_ptr` gives. `write_buffer` is
the bytes that are still to be sent. `wire` and `entries` are histories.

`HelloRead`, `AuthRead`, `RequestRead` receive any number of bytes there is room
for, run the parser on all that the buffer holds, and go on as the handlers do;
`SendThen` sends any number. `ReadEnd` has both ways in which `recv` returns 0:
the client has hung up, or there is no room. `Resolving` and `Connecting`
are in `Socks5` with their descriptors and here with their answers.

`Messages` says, for the bytes of a message known so far, whether they are bad,
whole, and what they say, without a parser; `Negotiation` says what the client is
promised in terms of it. `Handshake` implements it: the mapping gives how much of
the stream has been read as messages (`Heard`), what has been answered (`Said`), and
what comes next (`Comes`). What it leaves out is how bytes are cut.

### Selector

The other view of the selector: `Socks5` lets any watched event be delivered at
any time, `Selector` has the numbers and says which are. `sel` is `struct
fdselector` (`fds`, `max_fd`, `master_r`, `master_w`), and each of its functions
an operator on it; `outside` is set if `selector_register` would write outside
`fds`. `open` is the process's descriptors (the kernel gives the lowest free
one), `stage` how far a connection is as far as descriptors go, `thread` its
resolver thread, `lookup` a socket that `getaddrinfo` holds.

`Top` is the beginning of the loop of `main.c`, up to the copies of the sets;
`Reported` is `pselect`, with any subset of the sets; `Visit` is one call of a
handler by `handle_iteration`, for the next place in the walk whose item is
used, was reported, and is interested, as they are then; `Notification` one turn
of `handle_block_notifications`, under its mutex, which keeps `Push` out. `Kill`
is `pthread_kill` of the signal that is blocked outside `pselect`, `Interrupted`
its return with EINTR; `Sigterm` may be taken by any thread. The handlers of a connection (`Accept`,
`Connect`, `Negotiate`, `Resolve`, `Relay`, `End`) do to the selector what those of `socks5nio.c`
do, in any order that their states allow. A monitor's session is, for the
selector, a connection without an origin.

`told` keeps which reports of this round are for a registration that is still
there, `opened` how many sockets the round has opened.

### CopyRelay and Buffer

One connection in COPY. `buf["client"]` is `read_buffer` (what the client said),
`buf["origin"]` is `write_buffer`. `Receive` is `copy_read` with the `copy_try_write`
that follows, `Send` is `copy_write`, `ReceiveEnd` an end of file or an error;
`recv` and `send` take any number of bytes that they could. `Arrive` and
`ShutDown` are the peers. The bytes of a side are numbered, so that a loss, a
repetition and a swap each show. `Init` allows bytes that the client sent ahead
of the reply. A `Buffer` is the array with its offsets; only `Filled` (data that
`recv` stores, then `buffer_write_adv`) has no function of its own.

### UserStore, UserStoreCalls

The array of `struct user_entry`; `NoUser` is `used == false`, as `memset` leaves
it. Each function is an operator with the array as argument. `UserStoreCalls`
records the last call and its answer in `call`, which is what `Directory`
prescribes: the refinement is about answers, not only about contents.

### AccessLog

The three static variables; `access_log_copy` is the refinement mapping to
`RecentLog`, which says that it is always the last entries, oldest first.

### Monitor

`session[s]` is a `struct monitor_client`, `interest[s]` the selector's part of
it. A symbol stands for a run of bytes: a command with its arguments, an end of
line, or a byte of no command. `Consume` is the loop of `monitor_read`: `Turns` is
one `Take` after the other, one for each symbol, from the fields in `Loop`; then
what is left stays in the buffer. `Run` is
`monitor_process_command`, `Say` is `monitor_write_str`, counting lines.
`Read`/`ReadEnd` and `Write`/`WriteEnd` are the two handlers.

## 3. Runs

The longest takes about three minutes with two workers.

| Run | Bounds | Shows |
|---|---|---|
| `socks5` | 2 structs, 3 descriptors, lists of up to 2 addresses, pool of 1 | the state properties of `Socks5` until two updates overlap, types and log beyond; the count and the pool implement `Lifetime` |
| `socks5_live` | 1 struct, 3 descriptors, 2 addresses | resolutions are answered, a shutdown ends, unless updates overlap or a notification is lost |
| `handshake` | a buffer of 24 bytes; 5 HELLOs, 5 AUTHs, 9 requests, good and bad, with and without bytes after them, and every sequence of up to 5 of 4 bytes | the refinement of `Negotiation`, authority, separate answers; complete messages are answered |
| `selector` | 5 descriptors, 3 connections, 1 resolver thread at a time | sets, `max_fd` and table agree, numbers in it are open, events are for their registration, no lost wake-up |
| `copy_relay` | buffers of 2, streams of 3, 1 byte left over | FIFO in both directions, interests, bounds; what is sent arrives, or the connection ends |
| `user_store` | 3 entries, 4 legal names and one that is not | every call is answered as by a map |
| `access_log` | ring of 4, 3 entries | the last entries, in order |
| `monitor` | 1 session, every command, 2 symbols at a time | bounds, interests, farewell, authority |

and the runs that find a disagreement (section 6).

Why the bounds are enough. Two structs and a pool of one reach every case of the
pool (empty, taken from, pushed to, full so that a struct is freed) and
let two connections exchange structs and descriptors; with three descriptors one
has both of its and the other waits for the one it needs. Two addresses make the
fallback fail and succeed, at once or later. Longer pools are left to the proofs, which
have any `max_pool`, and to the two violation runs, whose pools have room for two.
`MaxUnsigned`, UINT_MAX, is 8: a counter that
passed below 0 would show, and none gets near 8. A relay stream longer than the buffer makes it wrap and fill. Three entries are
the fewest in which a hole lies between users and in which a listing by
position differs from one by number; four names leave one to be refused when the
array is full. The conversations of `handshake` have every branch of the three parsers and
their handlers at least once, among them names with a zero in them, fields of
the smallest length, requests that are bad in two ways, and three complete
messages sent at once; the buffer is as long as the longest message and shorter
than the longest conversation, so that it fills up. Cutting takes care of
itself: any number of bytes can arrive at each step. A `selector` of five numbers holds the passive
socket and two connections with both their descriptors, or three with a socket
that `getaddrinfo` has open; it takes three connections to close a descriptor in the
walk and see its number taken again ahead of the walk. One pair of interests
stands for all that COPY sets, and one thread at a time is enough for a job to be
queued at each point of the loop (the proofs have any number). A ring is followed until it has gone round more than once. A line
limit of one symbol makes a second one too long; the answer buffer holds each
answer by itself but not two of the long ones, as 16384 bytes hold the longest
ACCESS-LOG (32 lines of at most 401 bytes) but not two of them. One session is
opened and closed any number of times; sessions share nothing but the user
store, so that a second one would only change what the store holds in between.

`NotRaced` is a constraint of the passing runs of `Socks5`: TLC does not go on from a
state in which two updates have overlapped, where the properties that say `~raced`
say nothing. A state that violates it is still checked, and `TypeOK` and `LogExact`,
which do say something beyond, are proved without it. The violation runs have no
constraint. `View` leaves out the fields of a struct whose connection is over:
`socks5_new` clears them before anyone looks at them.

Symmetry: structs and descriptors in `Socks5`, connections in `Selector` and names
in `UserStoreCalls` are only compared. It is not used where liveness is checked.

Fairness. `ThreadFairness`: `getaddrinfo` has a time limit, threads are
scheduled, main finishes the call it is in, and `pselect` returns every 10 s and at
once when a notification interrupts it, so that a queued notification is served.
`PeerFairness`: `connect()` is answered or times out in the kernel,
and a connection is not kept open for ever by both its ends. The code has no
timeout of its own, and its shutdown loop waits for connections to end by
themselves, so that `ShutdownCompletes` holds only under this; and even so only
if no notification is lost and no two updates overlap, which its formula excepts. In `Handshake`
(`WF_vars(Handlers)`), the main loop serves a descriptor that is ready and a client
that has more to say says it, unless it hangs up. In `CopyRelay`, a
side that can be read is read, and a side that is written reads in turn (its
kernel does); nothing is asked of what the peers send.

## 4. Proofs

For every value of the constants, checked by TLAPS:

| Module | Theorem | Says |
|---|---|---|
| `Socks5Proofs` | `TypeCorrect`, `LogIsExact` | `TypeOK`, `LogExact`, overlapping updates included |
| | `CountsAreExact` | `RefsExact` |
| | `NoUseAfterFree`, `NoDoubleFree`, `PoolStaysBounded` | `FreeIsUnused`, `PoolDistinct`, `PoolBounded` |
| | `UnregisteringNeverAborts` | `DescriptorsOwned` |
| | `EventsNeverAbort`, `NotificationsNeverAbort` | `InterestsHandled`, `JobsReachTheirOwner` |
| | `ResolutionsArePending` | `ResolutionPending` |
| | `MetricIsExact`, `ExitIsQuiescent` | `MetricExact`, `ExitQuiescent` |
| | `RefsImplementLifetime` | the refinement of `Lifetime` |
| | `AddressesNeverRace` | without requests for names no two updates overlap, and the condition `~raced` falls away from all of the above |
| `HandshakeProofs` | `HandshakeTypeCorrect`, `AnswersAreSeparate` | `TypeOK`, `AnswersSeparate` |
| | `OnlyAuthenticated` | `Authenticated` |
| | `HandshakeImplementsNegotiation` | the refinement of `Negotiation` |
| `SelectorProofs` | `SelectorTypeCorrect` | `TypeOK` |
| | `SelectorMirrors`, `SelectorTableOpen` | `TableMirrored`, `TableOpen` |
| | `WakeupNeverLost` | `NoLostWakeup` |
| | `OnlyReportedEvents` | `EventsReported` |
| `CopyRelayProofs` | `CompactKeepsContents`, `FilledAppends`, `ReadAdvDrops` | what the operations of `Buffer` do to the contents |
| | `RelayTypeCorrect`, `RelayNeverStalls`, `RelayImplementsChannels` | `TypeOK`, `InterestsFollowBuffers`, the refinement of `Channel` |
| `MonitorProofs` | `MonitorTypeCorrect`, `AnswersAreWatched` | `TypeOK`, `OutputWatched` |
| | `FarewellsArePending`, `OnlyAuthorisedChange` | `FarewellPending`, `StoreChangesAuthorised` |
| `AccessLogProofs` | `LogTypeCorrect`, `LogIsRecent` | `TypeOK`, the refinement of `RecentLog` |
| `UserStoreProofs` | `StoreTypeCorrect`, `UsersAreUnique` | `TypeOK`, `NamesUnique` |
| | `StoreImplementsDirectory` | the refinement of `Directory` |

Assumptions are those on the constants (`MemoryAssumption`, `ConstantsAssumption` and
their likes; that of `Handshake` says that a client's stream is a sequence of
bytes, as `recv` stores them in `uint8_t`). Nothing is assumed of the threads: the theorems of
`Socks5Proofs` are about every behaviour of `Spec`, in which they run between any two
accesses of main's, and lost notifications are part of it. What they say is what
holds until the first overlap (`raced`). So each way in which one of these properties
can fail begins with two updates of a reference count, of the metric or of the pool
at the same time, and a lock around each of these updates, the test before it included, with nothing
else changed, would make them hold for ever. `AddressesNeverRace` has the case
where they do as the code stands.

`Socks5Proofs`. `LogExact` needs `LogInv`: the number of entries is 1 or 0 as
`request_logged` is set or not, which every way of choosing a reply keeps.

None of the other properties is inductive: that a `socks5_destroy` is the last
depends on the count, that the count is right on which descriptors are
registered, and this on which states have an origin or a thread; and in the
middle of a call each depends on what has been tested or loaded before. `IInv` is
`TypeOK` and, unless sections have overlapped, `Safe`. `Safe` has the properties
together with `Stage` (no origin and no thread before the request has been read,
no origin while resolving), `Errand` (which calls main still has to make, and what they
need), `References` (the count in each part of a struct's life), `Section` (what a thread has
tested and loaded in a section still holds, since nobody else is in it) and
`Unlinking` (the same for the pop). `References` counts main among the holders: each
`socks5_destroy` it still has to make is one (`Owes`), each `references++` one to
come (`Due`).

The pool is a set of structs closed under `next`, so that the lemmas on lists are about
`Reach`: `ReachUnfold` takes the head off, `ReachSame` says that a change of `next` outside
the list leaves it alone, and with them `PoolPush` and `PoolPop` give the list after
`pool = s` and `pool = pool->next`. The steps of `socks5_destroy` are done for any
thread, one lemma per part of `Safe` (`DestroyPool`, `DestroyReferences`, `DestroySections`,
`DestroyMetric`); those of `socks5_new` and of the increments have a lemma each. For
the handlers there is one lemma per kind of step (`MoveSafe`, `DoneSafe`,
`ConnectSafe`, `RejectSafe`, `NameSafe`, ...). `NextSound` goes through all actions.
That the metric is a number of structs, and `pool_size` another, is by counting the
finite sets before and after.

`Lives` says that each step changes the users of one struct at most, in one of the
ways that `Lifetime` has actions for; it is proved along with `Safe` (`Sound`). Since a struct is
live exactly as long as it has a user (`InUse`), the second half of `Lifetime`'s
`Becomes` follows from the first. `ExitIsQuiescent` rests on the metric: when it
is 0 no struct that has been counted is in use, hence no descriptor leads to one
(`NothingLeft`). `AddressesNeverRace` is by `NoThreads`: without names no thread is ever
created.

`CopyRelayProofs`. `RInv` adds to the types and the interests `Accounted`: what
was taken from a side is what was delivered and what its buffer holds. With the
three theorems on `Buffer` a handler moves bytes only from the end of one
sequence to the end of the next, which is a step of `Channel`.

`SelectorProofs`. `IInv` is `TypeOK` with `Good`, which says of the table and the
open descriptors what `TableMirrored` and `TableOpen` say and whose each
descriptor is, with what each stage of a connection has registered, and with the fact
that a queued job names the client's descriptor of a connection that is
resolving. `RegisterMirrors`, `UnregisterMirrors` and `InterestMirrors` are about the
operators on any table; `Owed` is what a handler owes after its step, and there is one
lemma per handler and one per action. That `max_fd` is right after a removal
needs that the passed-over numbers are unused, and that nothing is lost when a
number is taken again needs both halves of `TableOpen` at once. `NoLostWakeup` follows
from `Woken`, by itself: the signal stays pending until `pselect` takes it.
`EventsReported` needs `Round`, about the reports whose registration has ended in
the walk (`Lost`). While nothing has been opened their numbers are free, and so is
one that the walk has passed: the descriptor that the event was for. The first
that is opened gets a number no higher than this, which the walk therefore has
passed too. For this `connecting`, which closes one socket and opens another in one
call, must have no second event for the one it closed: `IInv` says that it watches
for the end of `connect()` only.

`AccessLogProofs`. `TypeOK`, which says which elements have been written, is
inductive; `Copied` rids the copy of `%`, and `AddIsAdd` compares it element by
element before and after.

`UserStoreProofs`. `TypeOK` and `NamesUnique` are inductive together, whichever
free entry is taken. With them the array is a map: the entry found for a name is the
only one, so that adding, removing and validating do what `Directory` does to
`Passwords`. A listing is by the number of the user among the entries in use; that
each user in use has one number, and each number up to the count one user
(`Ranked`), is proved by `Induction` over the entries.

`HandshakeProofs`. `IInv` says in each state what has been read and answered so
far. Its core is what a parser knows after k bytes of a message, in terms of the
message: `HelloAt`, `AuthAt`, `RequestAt` (which state it is in, what it has copied,
and that the message has not been seen to be bad). `HelloTurn`, `AuthTurn` and
`RequestTurn` show that one byte keeps it; `Consumed` carries it, by `Recursion` of
`Induction`, to the loop of `Consume`, and so to any piece that arrives. When the
parser is over, `HelloFound` and its likes turn it into what `Messages` says of the
whole message. Since a handler may look at more than the message (and at less than
the stream), `HelloSame`, `AuthSame` and `RequestSame` show that nothing `Messages`
says depends on the bytes after it. The rest is that the answer being sent is the
one for what was read: with nothing left of it while a message is read,
`AnswersSeparate` follows, and with what the stream says of names and methods
`Authenticated`. For the refinement there is one lemma per handler: each is one
action of `Negotiation`, or none.

`MonitorProofs`. `IInv` has one thing more than the three invariants: an empty answer
buffer is written from its beginning. Then an answer that finds no room finds
something that waits (`SayWorks`), which is why a farewell that is dropped still
closes the session. A turn of the loop keeps `Working`, which bounds the line and the
buffer, and says that the users change only if the session is authenticated by
then; `TurnsWork` carries it through the loop.

`Induction`. The library's theorems on induction take a predicate as an operator,
which none of the backends can instantiate. Here it is a set of naturals: `UpTo` is
induction, and `Recursion` says what a function defined by recursion up to n is,
both from the least element of a set (`Least`).

Model-checked only: all liveness (`ResolutionEnds`, `ShutdownCompletes`,
`EverythingRelayed`, `Answered`), which is out of the prover's reach; and the
counterexamples of section 6.

## 5. Not modelled

- `parser_utils.c`: for the tests only. Of `parser.c`, character classes, second
  actions and `parser_reset`: the tables of `hello.c` do not use them.
- Failures that cannot happen here: `*_marshall` into a full buffer
  (`AnswersSeparate`), `selector_set_interest` and `selector_unregister_fd` on a
  number that is not registered (`DescriptorsOwned`), errors of `pselect` other than EINTR
  (`TableOpen` for EBADF).
- Allocation failures other than the refusals above: `parser_init` in
  `hello_parser_init` is not tested for one.
- `memset` of a pooled struct, which loses its address list (a leak without
  effect on any other state).
- What becomes of the struct and of the threads' memory when main cleans up beside a
  thread (`main.c:272-288`): `Exit` ends the model, and `ExitQuiescent` says which
  threads may be left.
- The set-up of `main.c` (an early `goto finally` passes over the
  initialisation of `server`, which is then closed), and the second signal, which
  ends the process.
- `args.c`, `netutils.c`, `shared.c`, the client: sequential, without state that
  outlives a call. The client's side of the monitor protocol is any input.
- `historic_connections` and `bytes_transferred`, which only grow and which only
  the monitor reads; the text of log entries and answers; addresses and ports
  that an answer tells the client (one symbol, `BOUND`).

## 6. Where code and documents disagree

| Run | Property | What it shows |
|---|---|---|
| `socks5_double_push` | `PushedOnce` | the thread's `references -= 1` overwrites main's `references++` for the origin (`socks5nio.c:849`, `:235`); at the end of the connection both `socks5_destroy` of `socksv5_done` find 1, and the struct is pushed twice: the pool is a loop |
| `socks5_pool_race` | `PooledIsUnused` | a thread that is the last holder pushes its struct while main pops: it has `next = pool` (`:223`), main takes the head (`:283-284`), the thread stores `pool` (`:224`); the struct main hands out is still on the list |
| `socks5_log` | `SuccessLogged` | a fallback that connects at once is not logged (`socks5nio.c:1097`) |
| `monitor_farewell` | `NothingAfterFarewell` | commands are run after a wrong token or a line that is too long, until the answer has been sent (`monitor.c:99`) |

More follow from the models, or from reading the code for them, without a run
of their own:

- The metric is unprotected too: a thread that is the last holder decrements it
  (`metrics.c:25`) while main increments it for a new connection (`:18`), and the
  decrement is lost. It stays too high, and a shutdown never ends. `doc/Informe.md:275`
  says that the metrics need no mutex, as only the main thread writes them.
- The last holder, a thread, lowers the metric (`socks5nio.c:218`) before it pushes its
  struct (`:223-225`) and frees its arguments (`:738`). Main may find 0 in between, leave
  its loop (`main.c:241`), and run `selector_destroy` and `socksv5_pool_destroy` beside it.
  No overlap is needed for this, which is why `ExitQuiescent` allows such a thread.
- `pool_size` is a `size_t` beside the list, with sections of its own: an overlap of
  `pool_size++` and `pool_size--` lets the two drift apart, and the pool then keeps
  more or fewer structs than `max_pool`.
- `selector_notify_block` returns an error when it has no memory, and nobody looks at it
  (`socks5nio.c:736`): the connection stays in RESOLVING, and a shutdown waits for it.
  This is `unheard`, which `ResolutionPending`, `ResolutionEnds` and
  `ShutdownCompletes` except.
- `monitor_write_str` drops what does not fit, so that the answers to commands sent
  together can lose their end (`monitor.c:63`), although the comment at
  `monitor.c:20` gives the buffer its size so that this does not happen.
- `copy_read` counts bytes when it receives them, and at an end of file what is still
  buffered is dropped (`socks5nio.c:1291`): `bytes_transferred` can exceed what was
  relayed, which `doc/protocolo-monitoreo.md:191` says it is.
- A message that has arrived whole ahead of the answer to the one before it is not
  looked at until the client says more (`socks5nio.c:542`): hence the condition
  `received < Len(stream)` in `Answered`. A client that sends its whole negotiation
  at once, and waits, waits for ever.
- Readiness is not checked again in the walk (`selector.c:525`). If a connection ends and
  others' new sockets take its two numbers in the same round, the second can be
  handed an event of the old one: hence `opened = 2` in `EventsReported`. Then
  `connecting` reads SO_ERROR 0 of a `connect()` that is still in progress and reports a success.

## 7. Plan

Done: the core (`Socks5`, `CopyRelay`, `Buffer`), the small services (`UserStore`,
`AccessLog`, `Monitor`), the negotiation (`Handshake`) and the selector with its main
loop (`Selector`). What is left, in this order:

1. `Socks5`'s events as an abstraction of `Selector`'s (a refinement between the two
   views of the selector, which now only meet in what handlers do).
2. `Monitor` over `Selector`'s numbers, with sessions and connections in one table.
