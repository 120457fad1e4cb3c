---------------------------- MODULE Socks5Proofs ----------------------------
(* Theorems about Socks5, for every set of structs and descriptors, every     *)
(* bound on the pool and on the lists of addresses, and with the threads'     *)
(* accesses to the shared memory interleaved in every order.                  *)
(*                                                                            *)
(* The types and the access log hold whatever the threads do to one another.  *)
(* The rest holds in every behaviour until the first time two sections of     *)
(* Memory overlap, which the code does not prevent: the reference counts, the *)
(* pool, the metric, the selector's table, the notifications and the exit     *)
(* stay consistent, and a struct is in use exactly as long as Lifetime says.  *)
(* When no client asks for a name there is one thread, no two sections        *)
(* overlap, and the condition falls away.                                     *)
(*                                                                            *)
(* The proof: each step keeps Safe, provided no two sections overlap after    *)
(* it, and changes the users of one struct at most (Sound). Safe adds to the  *)
(* properties what each thread knows inside each section (what it tested or   *)
(* loaded still holds) and which calls main has still to make.                *)
EXTENDS Socks5, FiniteSetTheorems, TLAPS

-----------------------------------------------------------------------------
(* Type correctness *)

LEMMA Names == Main \notin Struct /\ NoStruct \notin Struct /\ Main \in Thread
BY MemoryAssumption DEF Thread

LEMMA UnsignedType ==
    ASSUME NEW x \in Unsigned
    PROVE  /\ Inc(x) \in Unsigned /\ Dec(x) \in Unsigned /\ x \in Nat
BY MemoryAssumption DEF Inc, Dec, Unsigned

LEMMA ZeroType == 0 \in Unsigned
BY MemoryAssumption DEF Unsigned

\* Inside socks5_destroy a thread has a struct.
LEMMA SubjectType ==
    ASSUME CallTypeOK, NEW p \in Thread, pc[p] \in DestroySteps
    PROVE  Subject(p) \in Struct
BY Names DEF CallTypeOK, Subject, Thread, DestroySteps

\* A thread or main moves on inside socks5_destroy ...
LEMMA GotoType ==
    ASSUME CallTypeOK, NEW p \in Thread, NEW step \in DestroySteps,
           pc[p] \in DestroySteps, Goto(p, step)
    PROVE  CallTypeOK' /\ (pc'[Main] = "unlink" => pc[Main] = "unlink")
<1> USE Names
<1>1. pc' \in [Thread -> Steps \cup MainSteps] /\ cur' = cur /\ then' = then
  BY DEF Goto, CallTypeOK, Steps, MainSteps
<1>2. \A q \in Thread : pc'[q] = IF q = p THEN step ELSE pc[q]
  BY DEF Goto, CallTypeOK
<1>3. CASE p = Main
  <2>1. pc'[Main] = step /\ \A s \in Struct : pc'[s] = pc[s]
    BY <1>2, <1>3 DEF Thread
  <2>2. step \in MainSteps /\ step \notin {"idle", "new", "unlink"}
    BY DEF MainSteps, DestroySteps
  <2>3. cur # NoStruct
    BY <1>3 DEF CallTypeOK, DestroySteps
  <2> QED BY <1>1, <2>1, <2>2, <2>3 DEF CallTypeOK
<1>4. CASE p \in Struct
  <2>1. pc'[Main] = pc[Main] /\ \A s \in Struct : pc'[s] = pc[s] \/ pc'[s] = step
    BY <1>2, <1>4 DEF Thread
  <2>2. step \in Steps
    BY DEF Steps
  <2> QED BY <1>1, <2>1, <2>2 DEF CallTypeOK
<1> QED BY <1>3, <1>4 DEF Thread

\* ... main goes on to a call ...
LEMMA CallsType ==
    ASSUME CallTypeOK, NEW s \in Struct, NEW first \in MainSteps \ {"new", "unlink"},
           NEW second \in {"idle", "destroy", "take", "try", "pthread_create"},
           first = "idle" => second = "idle", Calls(s, first, second)
    PROVE  CallTypeOK' /\ pc'[Main] # "unlink"
<1> USE Names
<1>1. pc' \in [Thread -> Steps \cup MainSteps]
  BY DEF Calls, CallTypeOK
<1>2. pc'[Main] = first /\ \A t \in Struct : pc'[t] = pc[t]
  BY DEF Calls, CallTypeOK, Thread
<1> QED BY <1>1, <1>2 DEF CallTypeOK, Calls

\* ... or the call is over.
LEMMA ReturnType ==
    ASSUME CallTypeOK, NEW p \in Thread, Return(p),
           pc[p] \in DestroySteps \/ (p = Main /\ cur # NoStruct)
    PROVE  CallTypeOK' /\ (pc'[Main] = "unlink" => pc[Main] = "unlink")
<1> USE Names
<1>1. CASE p = Main
  <2>1. cur \in Struct
    BY <1>1 DEF CallTypeOK, DestroySteps
  <2>2. then \in MainSteps \ {"new", "unlink"}
    BY DEF CallTypeOK, MainSteps, DestroySteps
  <2>3. Calls(cur, then, "idle")
    BY <1>1 DEF Return
  <2> QED BY <2>1, <2>2, <2>3, CallsType
<1>2. CASE p \in Struct
  <2>1. /\ \A q \in Thread : pc'[q] = IF q = p THEN "none" ELSE pc[q]
        /\ pc' \in [Thread -> Steps \cup MainSteps]
        /\ cur' = cur /\ then' = then
    BY <1>2 DEF Return, Goto, CallTypeOK, Steps
  <2>2. "none" \in Steps
    BY DEF Steps
  <2> QED BY <1>2, <2>1, <2>2 DEF CallTypeOK, Thread
<1> QED BY <1>1, <1>2 DEF Thread

\* Each step of socks5_destroy.
LEMMA DestroyType ==
    ASSUME MemoryTypeOK, NEW p \in Thread, DestroyStep(p)
    PROVE  MemoryTypeOK'
<1> DEFINE s == Subject(p)
<1> USE DEF shared, registers
<1>1. pc[p] \in DestroySteps /\ CallTypeOK /\ SharedTypeOK
  BY DEF DestroyStep, Destroy, Drop, DropStore, Closed, ClosedLoad, ClosedStore,
         Room, Link, Push, Grow, GrowStore, At, DestroySteps, MemoryTypeOK
<1>2. s \in Struct
  BY <1>1, SubjectType
<1>3. CallTypeOK' /\ (pc'[Main] = "unlink" => pc[Main] = "unlink")
  <2>1. CASE Return(p)
    BY <2>1, <1>1, ReturnType
  <2>2. ASSUME NEW step \in DestroySteps, Goto(p, step)
        PROVE  CallTypeOK' /\ (pc'[Main] = "unlink" => pc[Main] = "unlink")
    BY <2>2, <1>1, GotoType
  <2>3. Return(p) \/ \E step \in DestroySteps : Goto(p, step)
    BY DEF DestroyStep, Destroy, Drop, DropStore, Closed, ClosedLoad, ClosedStore,
           Room, Link, Push, Grow, GrowStore, Load, DestroySteps
  <2> QED BY <2>1, <2>2, <2>3
<1>4. SharedTypeOK'
  <2> HIDE DEF s
  <2> USE <1>1, <1>2
  <2>1. references[s] \in Unsigned /\ reg[p] \in Unsigned
    BY DEF SharedTypeOK
  <2>2. CASE Destroy(p) \/ Closed(p)
    BY <2>2 DEF Destroy, Closed, SharedTypeOK
  <2>3. CASE Drop(p) \/ ClosedLoad(p) \/ Grow(p)
    BY <2>1, <2>3 DEF Drop, ClosedLoad, Grow, Load, SharedTypeOK, s
  <2>4. CASE DropStore(p)
    BY <2>1, <2>4, UnsignedType, ZeroType DEF DropStore, Used, SharedTypeOK, s
  <2>5. CASE ClosedStore(p)
    BY <2>1, <2>5, UnsignedType, ZeroType DEF ClosedStore, Used, SharedTypeOK
  <2>6. CASE Room(p)
    BY <2>6 DEF Room, SharedTypeOK
  <2>7. CASE Link(p)
    BY <2>7 DEF Link, SharedTypeOK, s
  <2>8. CASE Push(p)
    BY <2>8 DEF Push, SharedTypeOK, s
  <2>9. CASE GrowStore(p)
    BY <2>1, <2>9, UnsignedType, ZeroType DEF GrowStore, Used, SharedTypeOK
  <2> QED BY <2>2, <2>3, <2>4, <2>5, <2>6, <2>7, <2>8, <2>9 DEF DestroyStep
<1>5. pool # NoStruct => pool' # NoStruct
  BY <1>2, Names DEF DestroyStep, Destroy, Drop, DropStore, Closed, ClosedLoad,
         ClosedStore, Room, Link, Push, Grow, GrowStore, Load
<1> QED BY <1>3, <1>4, <1>5 DEF MemoryTypeOK

\* Each step of socks5_new.
LEMMA NewType ==
    ASSUME MemoryTypeOK, NewStep
    PROVE  MemoryTypeOK'
<1> USE DEF shared, registers
<1> USE Names
<1>1. CallTypeOK /\ SharedTypeOK
  BY DEF MemoryTypeOK
<1>2. /\ pc \in [Thread -> Steps \cup MainSteps] /\ pc[Main] \in MainSteps
      /\ \A s \in Struct : pc[s] \in Steps
  BY <1>1 DEF CallTypeOK
<1>3. CASE New
  <2>1. PICK step \in {"opened", "idle", "unlink"} : pc' = [pc EXCEPT ![Main] = step]
    BY <1>3 DEF New
  <2>2. /\ step = "idle" => cur' = cur
        /\ step # "idle" => cur' \in Struct
        /\ step = "unlink" => pool # NoStruct
        /\ pool' = pool /\ then' = then /\ then = "idle" /\ cur = NoStruct
    BY <1>1, <1>2, <1>3, <2>1 DEF New, At, CallTypeOK, SharedTypeOK
  <2>3. /\ pc' \in [Thread -> Steps \cup MainSteps] /\ pc'[Main] = step
        /\ \A s \in Struct : pc'[s] = pc[s]
    BY <1>2, <2>1 DEF Thread, MainSteps
  <2>4. CallTypeOK' /\ (pc'[Main] = "unlink" => pool' # NoStruct)
    BY <1>2, <2>2, <2>3 DEF CallTypeOK, MainSteps
  <2>5. SharedTypeOK'
    BY <1>1, <1>3 DEF New, SharedTypeOK
  <2> QED BY <2>4, <2>5 DEF MemoryTypeOK
<1>4. CASE Unlink \/ UnlinkStore \/ Shrink \/ ShrinkStore \/ Opened \/ OpenedStore
  <2>1. PICK step \in {"unlink_store", "shrink", "shrink_store", "opened",
                       "opened_store", "register"} : Goto(Main, step)
    BY <1>4 DEF Unlink, UnlinkStore, Shrink, ShrinkStore, Opened, OpenedStore, Load
  <2>2. cur \in Struct
    BY <1>1, <1>4 DEF Unlink, UnlinkStore, Shrink, ShrinkStore, Opened, OpenedStore,
                      At, CallTypeOK
  <2>3. /\ pc' \in [Thread -> Steps \cup MainSteps] /\ pc'[Main] = step
        /\ \A s \in Struct : pc'[s] = pc[s]
    BY <1>2, <2>1 DEF Thread, MainSteps, Goto
  <2>4. CallTypeOK' /\ pc'[Main] # "unlink"
    BY <1>1, <1>2, <2>1, <2>2, <2>3 DEF CallTypeOK, MainSteps, Goto
  <2>5. reg[Main] \in Unsigned
    BY <1>1 DEF SharedTypeOK
  <2>6. SharedTypeOK'
    <3>1. CASE Unlink
      <4>1. pool \in Struct
        BY <1>1, <3>1 DEF Unlink, At, MemoryTypeOK, SharedTypeOK
      <4> QED BY <1>1, <3>1, <4>1 DEF Unlink, SharedTypeOK
    <3>2. CASE UnlinkStore
      BY <1>1, <3>2 DEF UnlinkStore, SharedTypeOK
    <3>3. CASE Shrink \/ Opened
      BY <1>1, <3>3 DEF Shrink, Opened, Load, SharedTypeOK
    <3>4. CASE ShrinkStore
      BY <1>1, <2>5, <3>4, UnsignedType, ZeroType DEF ShrinkStore, Used, SharedTypeOK
    <3>5. CASE OpenedStore
      BY <1>1, <2>5, <3>5, UnsignedType, ZeroType DEF OpenedStore, Used, SharedTypeOK
    <3> QED BY <1>4, <3>1, <3>2, <3>3, <3>4, <3>5
  <2> QED BY <2>4, <2>6 DEF MemoryTypeOK
<1> QED BY <1>3, <1>4 DEF NewStep

\* Each step of an increment of references.
LEMMA TakeType ==
    ASSUME MemoryTypeOK, Take \/ TakeStore
    PROVE  MemoryTypeOK'
<1> USE DEF shared, registers
<1> USE Names
<1>1. CallTypeOK /\ SharedTypeOK
  BY DEF MemoryTypeOK
<1>2. cur \in Struct /\ pc[Main] \in {"take", "try", "take_store", "try_store"}
  BY <1>1 DEF Take, TakeStore, At, CallTypeOK
<1>3. CallTypeOK' /\ pc'[Main] # "unlink"
  <2>1. CASE Return(Main)
    BY <1>1, <1>2, <2>1, ReturnType
  <2>2. ASSUME NEW step \in {"take_store", "try_store", "drop"}, Goto(Main, step)
        PROVE  CallTypeOK' /\ pc'[Main] # "unlink"
    <3>1. /\ pc' \in [Thread -> Steps \cup MainSteps] /\ pc'[Main] = step
          /\ \A s \in Struct : pc'[s] = pc[s]
          /\ step \in MainSteps
      BY <1>1, <2>2 DEF CallTypeOK, Thread, MainSteps, DestroySteps, Goto
    <3> QED BY <1>1, <1>2, <2>2, <3>1 DEF CallTypeOK, Goto
  <2> QED BY <2>1, <2>2 DEF Take, TakeStore, Load
<1>4. SharedTypeOK' /\ pool' = pool
  <2>1. reg[Main] \in Unsigned /\ references[cur] \in Unsigned
    BY <1>1, <1>2 DEF SharedTypeOK
  <2>2. CASE Take
    BY <1>1, <2>1, <2>2 DEF Take, Load, SharedTypeOK
  <2>3. CASE TakeStore
    BY <1>1, <2>1, <2>3, UnsignedType, ZeroType DEF TakeStore, Used, SharedTypeOK
  <2> QED BY <2>2, <2>3
<1> QED BY <1>3, <1>4 DEF MemoryTypeOK

\* What a handler leaves main to do for s.
CallMade(s) ==
    \E first \in {"idle", "destroy", "take", "try", "drop"},
       second \in {"idle", "destroy", "take", "try", "pthread_create"} :
        (first = "idle" => second = "idle") /\ Calls(s, first, second)

LEMMA CallMadeType ==
    ASSUME MemoryTypeOK, NEW s \in Struct, UNCHANGED memory,
           UNCHANGED calls \/ CallMade(s)
    PROVE  MemoryTypeOK'
<1> USE DEF memory, shared, registers, calls
<1>1. CASE UNCHANGED calls
  BY <1>1 DEF MemoryTypeOK, CallTypeOK, SharedTypeOK
<1>2. CASE CallMade(s)
  <2>1. PICK first \in {"idle", "destroy", "take", "try", "drop"},
             second \in {"idle", "destroy", "take", "try", "pthread_create"} :
               (first = "idle" => second = "idle") /\ Calls(s, first, second)
    BY <1>2 DEF CallMade
  <2>2. first \in MainSteps \ {"new", "unlink"} /\ CallTypeOK
    BY DEF MainSteps, DestroySteps, MemoryTypeOK
  <2>3. CallTypeOK' /\ pc'[Main] # "unlink"
    BY <2>1, <2>2, CallsType
  <2> QED BY <2>3 DEF MemoryTypeOK, SharedTypeOK
<1> QED BY <1>1, <1>2

\* The steps that end a connection.
LEMMA DoneType ==
    ASSUME NEW s \in Struct, ConnectionTypeOK, Done(s)
    PROVE  /\ stm' \in [Struct -> States]
           /\ owner' \in [FD -> Struct \cup {NoStruct}]
           /\ interest' \in [FD -> SUBSET Ops]
           /\ UNCHANGED links
           /\ CallMade(s)
<1>1. /\ stm' \in [Struct -> States]
      /\ owner' \in [FD -> Struct \cup {NoStruct}]
      /\ interest' \in [FD -> SUBSET Ops]
      /\ UNCHANGED links
  BY DEF Done, ConnectionTypeOK, States
<1>2. CallMade(s)
  BY DEF Done, CallMade
<1> QED BY <1>1, <1>2

LEMMA ProceedType ==
    ASSUME NEW s \in Struct, NEW st \in States, NEW i \in SUBSET Ops,
           NEW a \in Methods \cup Verdicts \cup Replies,
           ConnectionTypeOK, Proceed(s, st, a, i)
    PROVE  /\ stm' \in [Struct -> States]
           /\ answer' \in [Struct -> Methods \cup Verdicts \cup Replies]
           /\ interest' \in [FD -> SUBSET Ops]
           /\ UNCHANGED <<calls, owner, links>>
BY DEF Proceed, ConnectionTypeOK

LEMMA AnswerType ==
    ASSUME NEW s \in Struct, NEW reply \in Replies, NEW log \in BOOLEAN,
           ConnectionTypeOK, Answer(s, reply, log)
    PROVE  /\ stm' \in [Struct -> States]
           /\ answer' \in [Struct -> Methods \cup Verdicts \cup Replies]
           /\ logged' \in [Struct -> BOOLEAN]
           /\ entries' \in [Struct -> Nat]
BY DEF Answer, ConnectionTypeOK, States

LEMMA RejectType ==
    ASSUME NEW s \in Struct, NEW gone \in SUBSET FD, ConnectionTypeOK,
           NEW call \in {"idle", "try", "drop"}, Reject(s, gone, call),
           call = "drop" => gone = {}
    PROVE  /\ stm' \in [Struct -> States]
           /\ answer' \in [Struct -> Methods \cup Verdicts \cup Replies]
           /\ logged' \in [Struct -> BOOLEAN]
           /\ entries' \in [Struct -> Nat]
           /\ owner' \in [FD -> Struct \cup {NoStruct}]
           /\ interest' \in [FD -> SUBSET Ops]
           /\ origin_fd' \in [Struct -> FD \cup {NoFd}]
           /\ CallMade(s)
<1>1. Answer(s, "FAILURE", TRUE) /\ "FAILURE" \in Replies
  BY DEF Reject, Replies
<1>2. /\ owner' \in [FD -> Struct \cup {NoStruct}]
      /\ interest' \in [FD -> SUBSET Ops]
      /\ origin_fd' \in [Struct -> FD \cup {NoFd}]
  BY DEF Reject, ConnectionTypeOK, Ops
<1>3. CallMade(s)
  BY DEF Reject, AfterClosing, CallMade
<1> QED BY <1>1, <1>2, <1>3, AnswerType

LEMMA ConnectType ==
    ASSUME NEW s \in Struct, NEW o \in FD, NEW oi \in SUBSET Ops,
           NEW ci \in SUBSET Ops, NEW gone \in SUBSET FD,
           ConnectionTypeOK, Connect(s, o, oi, ci, gone)
    PROVE  /\ owner' \in [FD -> Struct \cup {NoStruct}]
           /\ interest' \in [FD -> SUBSET Ops]
           /\ origin_fd' \in [Struct -> FD \cup {NoFd}]
           /\ CallMade(s)
<1>1. owner' \in [FD -> Struct \cup {NoStruct}]
  BY DEF Connect, ConnectionTypeOK
<1>2. interest' \in [FD -> SUBSET Ops]
  BY DEF Connect, ConnectionTypeOK
<1>3. origin_fd' \in [Struct -> FD \cup {NoFd}]
  BY DEF Connect, ConnectionTypeOK
<1>4. CallMade(s)
  BY DEF Connect, AfterClosing, CallMade
<1> QED BY <1>1, <1>2, <1>3, <1>4

\* A connection that starts, or is there at once.
LEMMA ConnectsType ==
    ASSUME NEW s \in Struct, NEW o \in FD, NEW gone \in SUBSET FD, NEW log \in BOOLEAN,
           ConnectionTypeOK, ConnectStarts(s, o, gone) \/ ConnectsAtOnce(s, o, gone, log)
    PROVE  /\ stm' \in [Struct -> States]
           /\ answer' \in [Struct -> Methods \cup Verdicts \cup Replies]
           /\ logged' \in [Struct -> BOOLEAN]
           /\ entries' \in [Struct -> Nat]
           /\ owner' \in [FD -> Struct \cup {NoStruct}]
           /\ interest' \in [FD -> SUBSET Ops]
           /\ origin_fd' \in [Struct -> FD \cup {NoFd}]
           /\ CallMade(s)
<1>1. CASE ConnectStarts(s, o, gone)
  <2>1. stm' \in [Struct -> States] /\ UNCHANGED <<answer, logged, entries>>
    BY <1>1 DEF ConnectStarts, ConnectionTypeOK, States
  <2>2. Connect(s, o, {"W"}, {}, gone)
    BY <1>1 DEF ConnectStarts
  <2> QED BY <2>1, <2>2, ConnectType DEF Ops, ConnectionTypeOK
<1>2. CASE ConnectsAtOnce(s, o, gone, log)
  <2>1. Answer(s, "SUCCEEDED", log) /\ "SUCCEEDED" \in Replies
    BY <1>2 DEF ConnectsAtOnce, Replies
  <2>2. Connect(s, o, {}, {"W"}, gone)
    BY <1>2 DEF ConnectsAtOnce
  <2> QED BY <2>1, <2>2, ConnectType, AnswerType DEF Ops
<1> QED BY <1>1, <1>2

\* Connecting, whatever comes of it, keeps the types.
LEMMA ConnectNextType ==
    ASSUME NEW s \in Struct, NEW gone \in SUBSET FD, NEW log \in BOOLEAN,
           ConnectionTypeOK, ConnectNext(s, gone, log)
    PROVE  /\ stm' \in [Struct -> States]
           /\ answer' \in [Struct -> Methods \cup Verdicts \cup Replies]
           /\ logged' \in [Struct -> BOOLEAN]
           /\ entries' \in [Struct -> Nat]
           /\ owner' \in [FD -> Struct \cup {NoStruct}]
           /\ interest' \in [FD -> SUBSET Ops]
           /\ origin_fd' \in [Struct -> FD \cup {NoFd}]
           /\ CallMade(s)
           /\ resolution' \in [Struct -> -1 .. MaxAddrs]
<1>1. ASSUME resolution' = [resolution EXCEPT ![s] = IF @ > 0 THEN 0 ELSE @]
      PROVE  resolution' \in [Struct -> -1 .. MaxAddrs]
  BY <1>1, ConstantsAssumption DEF ConnectionTypeOK
<1>2. ASSUME NEW left \in 0 .. resolution[s] - 1,
             resolution' = [resolution EXCEPT ![s] = left]
      PROVE  resolution' \in [Struct -> -1 .. MaxAddrs]
  BY <1>2, ConstantsAssumption DEF ConnectionTypeOK
<1>3. resolution' \in [Struct -> -1 .. MaxAddrs]
  BY <1>1, <1>2 DEF ConnectNext
<1>4. CASE \E call \in {"idle", "try"} : Reject(s, gone, call)
  BY <1>3, <1>4, RejectType
<1>5. CASE \E o \in FD : ConnectStarts(s, o, gone) \/ ConnectsAtOnce(s, o, gone, log)
  BY <1>3, <1>5, ConnectsType
<1>6. \/ \E call \in {"idle", "try"} : Reject(s, gone, call)
      \/ \E o \in FD : ConnectStarts(s, o, gone) \/ ConnectsAtOnce(s, o, gone, log)
  BY DEF ConnectNext, NoConnect
<1> QED BY <1>4, <1>5, <1>6

LEMMA CopyInterestsType ==
    ASSUME NEW s \in Struct, ConnectionTypeOK, NEW i \in CopyInterests(s)
    PROVE  i \in [FD -> SUBSET Ops]
<1> DEFINE Wants(in, out) == {op \in Ops : \/ op = "R" /\ in # "full"
                                           \/ op = "W" /\ out # "empty"}
<1>1. PICK rb \in {"empty", "some", "full"}, wb \in {"empty", "some", "full"} :
        i = [interest EXCEPT ![client_fd[s]] = Wants(rb, wb),
                             ![origin_fd[s]] = Wants(wb, rb)]
  BY DEF CopyInterests
<1>2. Wants(rb, wb) \in SUBSET Ops /\ Wants(wb, rb) \in SUBSET Ops
  OBVIOUS
<1> HIDE DEF Wants
<1> QED BY <1>1, <1>2 DEF ConnectionTypeOK

\* An event is delivered for a struct.
LEMMA EventOwner ==
    ASSUME NEW f \in FD, NEW op, ConnectionTypeOK, Event(f, op)
    PROVE  owner[f] \in Struct
BY DEF Event, ConnectionTypeOK

LEMMA OverlapType == Overlap \in BOOLEAN
BY DEF Overlap

LEMMA HandlerType ==
    ASSUME TypeOK, NEW f \in FD, Handler(f)
    PROVE  TypeOK'
<1> USE DEF items, links, request, resolver, server, TypeOK
<1> DEFINE s == owner[f]
<1>0. raced' \in BOOLEAN
  BY OverlapType DEF Handler, HelloRead, HelloWrite, AuthRead, AuthWrite, RequestRead,
     Resolving, Connecting, RequestWrite, Copy, Record
<1>1. ASSUME s \in Struct, Done(s), UNCHANGED <<memory, jobs, request, resolver, server>>
      PROVE  TypeOK'
  <2>1. MemoryTypeOK'
    BY <1>1, DoneType, CallMadeType
  <2>2. ConnectionTypeOK'
    BY <1>0, <1>1, DoneType DEF ConnectionTypeOK
  <2> QED BY <2>1, <2>2
<1>2. ASSUME s \in Struct, NEW st \in States, NEW i \in SUBSET Ops,
             NEW a \in Methods \cup Verdicts \cup Replies, Proceed(s, st, a, i),
             UNCHANGED <<memory, jobs, resolution, logged, entries, resolver, server>>
      PROVE  TypeOK'
  <2>1. MemoryTypeOK'
    BY <1>2, ProceedType, CallMadeType
  <2>2. ConnectionTypeOK'
    BY <1>0, <1>2, ProceedType DEF ConnectionTypeOK
  <2> QED BY <2>1, <2>2
<1>3. CASE HelloRead(f) \/ HelloWrite(f) \/ AuthRead(f) \/ AuthWrite(f)
  <2>1. /\ s \in Struct
        /\ UNCHANGED <<memory, jobs, resolution, logged, entries, resolver, server>>
    BY <1>3, EventOwner DEF HelloRead, HelloWrite, AuthRead, AuthWrite
  <2>2. \/ Done(s) /\ UNCHANGED answer
        \/ \E st \in States, a \in Methods \cup Verdicts \cup Replies,
             i \in SUBSET Ops : Proceed(s, st, a, i)
    BY <1>3 DEF HelloRead, HelloWrite, AuthRead, AuthWrite, States, Methods,
                Verdicts, Replies, Ops
  <2> QED BY <1>1, <1>2, <2>1, <2>2
<1>4. CASE RequestRead(f)
  <2>1. s \in Struct /\ UNCHANGED <<memory, jobs, resolution, resolver, server>>
    BY <1>4, EventOwner DEF RequestRead
  <2>2. CASE Done(s) /\ UNCHANGED <<answer, logged, entries>>
    BY <1>1, <2>1, <2>2
  <2>3. CASE /\ Calls(s, "take", "pthread_create")
             /\ UNCHANGED <<items, stm, links, answer, logged, entries>>
    <3>1. CallMade(s)
      BY <2>3 DEF CallMade
    <3>2. MemoryTypeOK'
      BY <2>1, <3>1, CallMadeType
    <3> QED BY <1>0, <2>1, <2>3, <3>2 DEF ConnectionTypeOK
  <2>4. CASE \E call \in {"idle", "try"} : Reject(s, {}, call) /\ UNCHANGED client_fd
    <3>1. MemoryTypeOK'
      BY <2>1, <2>4, RejectType, CallMadeType
    <3>2. ConnectionTypeOK'
      BY <1>0, <2>1, <2>4, RejectType DEF ConnectionTypeOK
    <3> QED BY <3>1, <3>2
  <2>5. CASE \E o \in FD : /\ ConnectStarts(s, o, {}) \/ ConnectsAtOnce(s, o, {}, TRUE)
                           /\ UNCHANGED client_fd
    <3>1. MemoryTypeOK'
      BY <2>1, <2>5, ConnectsType, CallMadeType
    <3>2. ConnectionTypeOK'
      BY <1>0, <2>1, <2>5, ConnectsType DEF ConnectionTypeOK
    <3> QED BY <3>1, <3>2
  <2> QED BY <1>4, <2>2, <2>3, <2>4, <2>5 DEF RequestRead, NoConnect
<1>5. ASSUME s \in Struct, NEW gone \in SUBSET FD, NEW log \in BOOLEAN,
             ConnectNext(s, gone, log),
             UNCHANGED <<memory, client_fd, resolver, server>>, jobs' \subseteq jobs
      PROVE  TypeOK'
  <2>1. MemoryTypeOK'
    BY <1>5, ConnectNextType, CallMadeType
  <2>2. /\ stm' \in [Struct -> States]
        /\ answer' \in [Struct -> Methods \cup Verdicts \cup Replies]
        /\ logged' \in [Struct -> BOOLEAN]
        /\ entries' \in [Struct -> Nat]
        /\ owner' \in [FD -> Struct \cup {NoStruct}]
        /\ interest' \in [FD -> SUBSET Ops]
        /\ origin_fd' \in [Struct -> FD \cup {NoFd}]
        /\ resolution' \in [Struct -> -1 .. MaxAddrs]
    BY <1>5, ConnectNextType
  <2>3. ConnectionTypeOK'
    BY <1>0, <1>5, <2>2 DEF ConnectionTypeOK
  <2> QED BY <2>1, <2>3
<1>6. CASE Resolving(f)
  <2>1. CASE s = NoStruct
    BY <1>0, <1>6, <2>1, Names DEF Resolving, ConnectionTypeOK, MemoryTypeOK, memory,
       calls, shared, registers, SharedTypeOK, CallTypeOK
  <2>2. CASE s # NoStruct
    <3>1. s \in Struct
      BY <2>2 DEF ConnectionTypeOK
    <3> QED BY <1>5, <1>6, <2>2, <3>1 DEF Resolving
  <2> QED BY <2>1, <2>2
<1>7. CASE Connecting(f)
  <2>1. s \in Struct /\ UNCHANGED <<memory, client_fd, jobs, resolver, server>>
    BY <1>7, EventOwner DEF Connecting
  <2>2. CASE Reject(s, {}, "idle") /\ UNCHANGED resolution
    <3>1. MemoryTypeOK'
      BY <2>1, <2>2, RejectType, CallMadeType
    <3>2. ConnectionTypeOK'
      BY <1>0, <2>1, <2>2, RejectType DEF ConnectionTypeOK
    <3> QED BY <3>1, <3>2
  <2>3. CASE ConnectNext(s, {f}, FALSE)
    BY <1>5, <2>1, <2>3
  <2>4. CASE /\ Answer(s, "SUCCEEDED", TRUE)
             /\ interest' = [interest EXCEPT ![f] = {}, ![client_fd[s]] = {"W"}]
             /\ UNCHANGED <<calls, owner, origin_fd, resolution>>
    <3>1. MemoryTypeOK'
      BY <2>1, <2>4, CallMadeType
    <3>2. interest' \in [FD -> SUBSET Ops] /\ "SUCCEEDED" \in Replies
      BY <2>4 DEF ConnectionTypeOK, Ops, Replies
    <3>3. ConnectionTypeOK'
      BY <1>0, <2>1, <2>4, <3>2, AnswerType DEF ConnectionTypeOK
    <3> QED BY <3>1, <3>3
  <2> QED BY <1>7, <2>2, <2>3, <2>4 DEF Connecting
<1>8. CASE RequestWrite(f) \/ \E op \in Ops : Copy(f, op)
  <2>1. s \in Struct /\ UNCHANGED <<memory, jobs, request, resolver, server>>
    BY <1>8, EventOwner DEF RequestWrite, Copy
  <2>2. CASE Done(s)
    BY <1>1, <2>1, <2>2
  <2>3. CASE /\ stm' = stm \/ stm' = [stm EXCEPT ![s] = "COPY"]
             /\ interest' \in CopyInterests(s)
             /\ UNCHANGED <<calls, owner, links>>
    <3>1. interest' \in [FD -> SUBSET Ops] /\ stm' \in [Struct -> States]
      BY <2>1, <2>3, CopyInterestsType DEF ConnectionTypeOK, States
    <3>2. MemoryTypeOK'
      BY <2>1, <2>3, CallMadeType
    <3>3. ConnectionTypeOK'
      BY <1>0, <2>1, <2>3, <3>1 DEF ConnectionTypeOK
    <3> QED BY <3>2, <3>3
  <2> QED BY <1>8, <2>2, <2>3 DEF RequestWrite, Copy
<1> QED BY <1>3, <1>4, <1>6, <1>7, <1>8 DEF Handler

LEMMA NextType == TypeOK /\ [Next]_vars => TypeOK'
<1> USE DEF items, links, request, resolver, server, TypeOK, memory, shared, registers
<1> SUFFICES ASSUME TypeOK, [Next]_vars PROVE TypeOK'
  OBVIOUS
<1> USE Names
<1>1. CASE UNCHANGED vars
  BY <1>1 DEF vars, calls, MemoryTypeOK, SharedTypeOK, CallTypeOK, ConnectionTypeOK
<1>2. CASE Shutdown \/ Exit
  BY <1>2, OverlapType DEF Shutdown, Exit, Record, calls, MemoryTypeOK, SharedTypeOK,
     CallTypeOK, ConnectionTypeOK
<1>3. CASE Incoming
  <2>1. Calls(NoStruct, "new", "idle") /\ At(Main, "idle")
    BY <1>3 DEF Incoming, Ready
  <2>2. /\ pc' \in [Thread -> Steps \cup MainSteps] /\ pc'[Main] = "new"
        /\ \A s \in Struct : pc'[s] = pc[s]
    BY <2>1 DEF Calls, MemoryTypeOK, CallTypeOK, Thread, MainSteps
  <2>3. MemoryTypeOK'
    BY <1>3, <2>1, <2>2 DEF Incoming, Calls, MemoryTypeOK, SharedTypeOK, CallTypeOK,
       MainSteps
  <2>4. ConnectionTypeOK'
    BY <1>3, OverlapType DEF Incoming, Record, ConnectionTypeOK
  <2> QED BY <2>3, <2>4
<1>4. ASSUME NEW f \in FD, Accept(f) \/ AcceptRefused(f)
      PROVE  TypeOK'
  <2>1. Cleared(f) /\ cur \in Struct
    BY <1>4 DEF Accept, AcceptRefused, Cleared, At, MemoryTypeOK, CallTypeOK
  <2>2. CallTypeOK' /\ pc'[Main] # "unlink"
    <3>1. Calls(cur, "idle", "idle") \/ Calls(cur, "destroy", "idle")
      BY <1>4 DEF Accept, AcceptRefused
    <3>2. {"idle", "destroy"} \subseteq MainSteps \ {"new", "unlink"}
      BY DEF MainSteps, DestroySteps
    <3> QED BY <2>1, <3>1, <3>2, CallsType DEF MemoryTypeOK
  <2>3. 1 \in Unsigned
    BY MemoryAssumption DEF Unsigned
  <2>4. SharedTypeOK'
    BY <2>1, <2>3 DEF Cleared, SharedTypeOK, MemoryTypeOK
  <2>5. /\ owner' \in [FD -> Struct \cup {NoStruct}]
        /\ interest' \in [FD -> SUBSET Ops]
        /\ raced' \in BOOLEAN
    <3>1. CASE Accept(f)
      BY <2>1, <3>1, OverlapType DEF Accept, Record, ConnectionTypeOK, Ops
    <3>2. CASE AcceptRefused(f)
      BY <3>2, OverlapType DEF AcceptRefused, Record, ConnectionTypeOK
    <3> QED BY <1>4, <3>1, <3>2
  <2>6. /\ stm' \in [Struct -> States]
        /\ client_fd' \in [Struct -> FD \cup {NoFd}]
        /\ origin_fd' \in [Struct -> FD \cup {NoFd}]
        /\ answer' \in [Struct -> Methods \cup Verdicts \cup Replies]
        /\ logged' \in [Struct -> BOOLEAN]
        /\ entries' \in [Struct -> Nat]
        /\ unheard' \subseteq Struct
    BY <2>1 DEF Cleared, ConnectionTypeOK, States, Methods
  <2>7. resolution' \in [Struct -> -1 .. MaxAddrs]
    BY <2>1, ConstantsAssumption DEF Cleared, ConnectionTypeOK
  <2>8. ConnectionTypeOK'
    BY <2>1, <2>5, <2>6, <2>7 DEF Cleared, ConnectionTypeOK
  <2> QED BY <2>2, <2>4, <2>8 DEF MemoryTypeOK
<1>5. CASE PthreadCreate
  <2>1. cur \in Struct /\ raced' \in BOOLEAN
    BY <1>5, OverlapType DEF PthreadCreate, At, MemoryTypeOK, CallTypeOK, Record
  <2>2. CASE Reject(cur, {}, "drop") /\ UNCHANGED <<client_fd, rfd>>
    <3>1. MemoryTypeOK'
      BY <1>5, <2>1, <2>2, RejectType, CallMadeType DEF PthreadCreate
    <3>2. ConnectionTypeOK'
      BY <1>5, <2>1, <2>2, RejectType DEF PthreadCreate, ConnectionTypeOK
    <3> QED BY <3>1, <3>2
  <2>3. CASE ~(Reject(cur, {}, "drop") /\ UNCHANGED <<client_fd, rfd>>)
    <3>1. /\ At(Main, "pthread_create") /\ UNCHANGED memory
          /\ pc' = [pc EXCEPT ![Main] = "idle", ![cur] = "lookup"]
          /\ cur' = NoStruct /\ then' = "idle"
      BY <1>5, <2>3 DEF PthreadCreate
    <3>2. /\ pc' \in [Thread -> Steps \cup MainSteps] /\ pc'[Main] = "idle"
          /\ \A s \in Struct : pc'[s] \in {pc[s], "lookup"}
      BY <2>1, <3>1 DEF MemoryTypeOK, CallTypeOK, Thread, MainSteps, Steps
    <3>4. MemoryTypeOK'
      BY <3>1, <3>2 DEF MemoryTypeOK, CallTypeOK, SharedTypeOK, MainSteps, Steps
    <3>5. ConnectionTypeOK'
      BY <1>5, <2>1, <2>3 DEF PthreadCreate, ConnectionTypeOK, States
    <3> QED BY <3>4, <3>5
  <2> QED BY <2>2, <2>3
<1>6. ASSUME NEW p \in Thread, SharedStep(p)
      PROVE  TypeOK'
  <2>1. MemoryTypeOK'
    BY <1>6, DestroyType, NewType, TakeType DEF SharedStep
  <2>2. ConnectionTypeOK'
    BY <1>6, OverlapType DEF SharedStep, Record, ConnectionTypeOK
  <2> QED BY <2>1, <2>2
<1>7. ASSUME NEW s \in Struct, Lookup(s) \/ Notify(s)
      PROVE  TypeOK'
  <2>1. PICK step \in {"notify", "destroy"} : Goto(s, step)
    BY <1>7 DEF Lookup, Notify
  <2>2. /\ pc' \in [Thread -> Steps \cup MainSteps] /\ pc'[Main] = pc[Main]
        /\ \A t \in Struct : pc'[t] \in {pc[t], step}
    BY <2>1 DEF Goto, MemoryTypeOK, CallTypeOK, Thread, Steps, DestroySteps
  <2>3. UNCHANGED memory
    BY <1>7 DEF Lookup, Notify
  <2>4. MemoryTypeOK'
    BY <2>1, <2>2, <2>3 DEF Goto, MemoryTypeOK, SharedTypeOK, CallTypeOK, Steps,
       DestroySteps
  <2>5. ConnectionTypeOK'
    BY <1>7, OverlapType, ConstantsAssumption DEF Lookup, Notify, Record, ConnectionTypeOK
  <2> QED BY <2>4, <2>5
<1> QED BY <1>1, <1>2, <1>3, <1>4, <1>5, <1>6, <1>7, HandlerType
        DEF Next, MainCall, ResolverThread, Idle, Thread

LEMMA InitType == Init => TypeOK
<1> SUFFICES ASSUME Init PROVE TypeOK
  OBVIOUS
<1> USE Names DEF Init, TypeOK, MemoryInit
<1>1. SharedTypeOK
  <2>1. {0, 1} \subseteq Unsigned
    BY MemoryAssumption DEF Unsigned
  <2> QED BY <2>1 DEF SharedTypeOK
<1>2. CallTypeOK /\ pc[Main] # "unlink"
  BY DEF CallTypeOK, Thread, Steps, MainSteps
<1>3. ConnectionTypeOK
  <2>1. resolution \in [Struct -> -1 .. MaxAddrs]
    <3>1. -1 \in -1 .. MaxAddrs
      BY ConstantsAssumption
    <3> QED BY <3>1
  <2>2. /\ owner \in [FD -> Struct \cup {NoStruct}] /\ interest \in [FD -> SUBSET Ops]
        /\ stm \in [Struct -> States]
        /\ answer \in [Struct -> Methods \cup Verdicts \cup Replies]
        /\ entries \in [Struct -> Nat]
    BY DEF States, Methods
  <2> QED BY <2>1, <2>2 DEF ConnectionTypeOK
<1> QED BY <1>1, <1>2, <1>3 DEF MemoryTypeOK

\* Every variable keeps its type, whatever the threads do to one another; and
\* socks5_new never takes from the pool when it is empty.
THEOREM TypeCorrect == Spec => []TypeOK
BY InitType, NextType, PTL DEF Spec
-----------------------------------------------------------------------------
(* The access log *)

\* request_logged says whether the connection is in the log, and it is when a
\* failure waits to be reported.
LogAt(s) ==
    /\ entries[s] = Count(logged[s])
    /\ stm[s] = "REQUEST_WRITE" /\ answer[s] = "FAILURE" => logged[s]
LogInv == \A s \in Struct : LogAt(s)

\* A struct that is given a state other than REQUEST_WRITE, or none, and whose
\* entries stay.
LEMMA LogKept ==
    ASSUME ConnectionTypeOK, LogInv, NEW s \in Struct, UNCHANGED <<logged, entries>>,
           \A t \in Struct : t # s => stm'[t] = stm[t] /\ answer'[t] = answer[t],
           stm'[s] # "REQUEST_WRITE" \/ (stm'[s] = stm[s] /\ answer'[s] = answer[s])
    PROVE  LogInv'
BY DEF LogInv, LogAt, Count

\* A reply is chosen, a failure with its entry in the log.
LEMMA LogAnswered ==
    ASSUME ConnectionTypeOK, LogInv, NEW s \in Struct, NEW reply, NEW log \in BOOLEAN,
           Answer(s, reply, log), reply = "FAILURE" => log
    PROVE  LogInv'
<1>1. \A t \in Struct : t # s => /\ stm'[t] = stm[t] /\ answer'[t] = answer[t]
                                  /\ logged'[t] = logged[t] /\ entries'[t] = entries[t]
  BY DEF Answer, ConnectionTypeOK
<1>2. /\ answer'[s] = reply
      /\ logged'[s] = (logged[s] \/ log)
      /\ entries'[s] = IF log /\ ~logged[s] THEN entries[s] + 1 ELSE entries[s]
  BY DEF Answer, ConnectionTypeOK
<1>3. entries[s] = Count(logged[s]) /\ logged[s] \in BOOLEAN
  BY DEF LogInv, LogAt, ConnectionTypeOK
<1>4. LogAt(s)'
  <2>1. CASE log
    <3>1. logged'[s] = TRUE
      BY <1>2, <2>1
    <3>2. entries'[s] = 1
      <4>1. CASE logged[s] = TRUE
        BY <1>2, <1>3, <4>1 DEF Count
      <4>2. CASE logged[s] = FALSE
        BY <1>2, <1>3, <2>1, <4>2 DEF Count
      <4> QED BY <1>3, <4>1, <4>2
    <3> QED BY <3>1, <3>2 DEF LogAt, Count
  <2>2. CASE ~log
    BY <1>2, <1>3, <2>2 DEF LogAt, Count
  <2> QED BY <2>1, <2>2
<1>5. \A t \in Struct : t # s => LogAt(t)'
  BY <1>1 DEF LogInv, LogAt, Count
<1> QED BY <1>4, <1>5 DEF LogInv

LEMMA LogConnects ==
    ASSUME ConnectionTypeOK, LogInv, NEW s \in Struct, NEW gone, NEW o \in FD,
           NEW log \in BOOLEAN,
           ConnectStarts(s, o, gone) \/ ConnectsAtOnce(s, o, gone, log)
    PROVE  LogInv'
<1>1. CASE ConnectStarts(s, o, gone)
  BY <1>1, LogKept DEF ConnectStarts, ConnectionTypeOK
<1>2. CASE ConnectsAtOnce(s, o, gone, log)
  BY <1>2, LogAnswered DEF ConnectsAtOnce
<1> QED BY <1>1, <1>2

LEMMA LogConnectNext ==
    ASSUME ConnectionTypeOK, LogInv, NEW s \in Struct, NEW gone,
           NEW log \in BOOLEAN, ConnectNext(s, gone, log)
    PROVE  LogInv'
<1>1. ASSUME NEW call, Reject(s, gone, call) PROVE LogInv'
  BY <1>1, LogAnswered DEF Reject
<1> QED BY <1>1, LogConnects DEF ConnectNext, NoConnect

LEMMA LogHandler ==
    ASSUME ConnectionTypeOK, LogInv, NEW f \in FD, Handler(f)
    PROVE  LogInv'
<1> DEFINE s == owner[f]
<1>1. ASSUME s \in Struct, Done(s), UNCHANGED <<answer, logged, entries>> PROVE LogInv'
  BY <1>1, LogKept DEF Done, ConnectionTypeOK
<1>2. ASSUME s \in Struct, NEW st \in States \ {"REQUEST_WRITE"}, NEW a, NEW i,
             Proceed(s, st, a, i), UNCHANGED <<logged, entries>>
      PROVE  LogInv'
  BY <1>2, LogKept DEF Proceed, ConnectionTypeOK
<1>3. CASE HelloRead(f) \/ HelloWrite(f) \/ AuthRead(f) \/ AuthWrite(f)
  <2>1. s \in Struct /\ UNCHANGED <<logged, entries>>
    BY <1>3, EventOwner DEF HelloRead, HelloWrite, AuthRead, AuthWrite
  <2>2. \/ Done(s) /\ UNCHANGED answer
        \/ \E st \in States \ {"REQUEST_WRITE"}, a \in Methods \cup Verdicts \cup Replies,
             i \in SUBSET Ops : Proceed(s, st, a, i)
    BY <1>3 DEF HelloRead, HelloWrite, AuthRead, AuthWrite, States, Methods,
                Verdicts, Replies, Ops
  <2> QED BY <1>1, <1>2, <2>1, <2>2
<1>4. CASE RequestRead(f)
  <2>1. s \in Struct
    BY <1>4, EventOwner DEF RequestRead
  <2>2. ASSUME NEW call, Reject(s, {}, call) PROVE LogInv'
    BY <2>1, <2>2, LogAnswered DEF Reject
  <2>3. ASSUME NEW o \in FD, ConnectStarts(s, o, {}) \/ ConnectsAtOnce(s, o, {}, TRUE)
        PROVE  LogInv'
    BY <2>1, <2>3, LogConnects
  <2>4. CASE UNCHANGED <<stm, answer, logged, entries>>
    BY <2>1, <2>4, LogKept
  <2>5. CASE Done(s) /\ UNCHANGED <<answer, logged, entries>>
    BY <1>1, <2>1, <2>5
  <2> QED BY <1>4, <2>2, <2>3, <2>4, <2>5 DEF RequestRead, NoConnect
<1>5. CASE Resolving(f)
  <2>1. CASE s = NoStruct
    BY <1>5, <2>1, Names DEF Resolving, request, LogInv, LogAt, Count
  <2>2. CASE s # NoStruct
    BY <1>5, <2>2, LogConnectNext DEF Resolving, ConnectionTypeOK
  <2> QED BY <2>1, <2>2
<1>6. CASE Connecting(f)
  <2>1. s \in Struct
    BY <1>6, EventOwner DEF Connecting
  <2>2. CASE Reject(s, {}, "idle") \/ Answer(s, "SUCCEEDED", TRUE)
    BY <2>1, <2>2, LogAnswered DEF Reject
  <2>3. CASE ConnectNext(s, {f}, FALSE)
    BY <2>1, <2>3, LogConnectNext
  <2> QED BY <1>6, <2>2, <2>3 DEF Connecting
<1>7. CASE RequestWrite(f) \/ \E op \in Ops : Copy(f, op)
  <2>1. s \in Struct /\ UNCHANGED <<answer, logged, entries>>
    BY <1>7, EventOwner DEF RequestWrite, Copy, request
  <2>2. CASE Done(s)
    BY <1>1, <2>1, <2>2
  <2>3. CASE stm' = stm \/ stm' = [stm EXCEPT ![s] = "COPY"]
    BY <2>1, <2>3, LogKept DEF ConnectionTypeOK
  <2> QED BY <1>7, <2>2, <2>3 DEF RequestWrite, Copy
<1> QED BY <1>3, <1>4, <1>5, <1>6, <1>7 DEF Handler

LEMMA LogNext == TypeOK /\ LogInv /\ [Next]_vars => LogInv'
<1> SUFFICES ASSUME TypeOK, LogInv, [Next]_vars PROVE LogInv'
  OBVIOUS
<1> USE DEF TypeOK
<1>1. ASSUME NEW f \in FD, Accept(f) \/ AcceptRefused(f)
      PROVE  LogInv'
  <2>1. Cleared(f) /\ cur \in Struct
    BY <1>1 DEF Accept, AcceptRefused, Cleared, At, MemoryTypeOK, CallTypeOK
  <2>2. \A t \in Struct :
          IF t = cur THEN stm'[t] = "HELLO_READ" /\ logged'[t] = FALSE /\ entries'[t] = 0
          ELSE /\ stm'[t] = stm[t] /\ answer'[t] = answer[t]
               /\ logged'[t] = logged[t] /\ entries'[t] = entries[t]
    BY <2>1 DEF Cleared, ConnectionTypeOK
  <2> QED BY <2>2 DEF LogInv, LogAt, Count
<1>2. CASE PthreadCreate
  <2>1. cur \in Struct
    BY <1>2 DEF PthreadCreate, At, MemoryTypeOK, CallTypeOK
  <2>2. CASE Reject(cur, {}, "drop")
    BY <2>1, <2>2, LogAnswered DEF Reject
  <2>3. CASE stm' = [stm EXCEPT ![cur] = "RESOLVING"] /\ UNCHANGED <<answer, logged, entries>>
    BY <2>1, <2>3, LogKept DEF ConnectionTypeOK
  <2> QED BY <1>2, <2>2, <2>3 DEF PthreadCreate
<1>3. CASE UNCHANGED <<stm, answer, logged, entries>>
  BY <1>3 DEF LogInv, LogAt, Count
<1>4. ASSUME NEW p \in Thread, SharedStep(p) \/ Lookup(p) \/ Notify(p)
      PROVE  UNCHANGED <<stm, answer, logged, entries>>
  BY <1>4 DEF SharedStep, Lookup, Notify, request
<1>5. CASE Incoming \/ Shutdown \/ Exit \/ Idle \/ UNCHANGED vars
  BY <1>3, <1>5 DEF Incoming, Shutdown, Exit, Idle, vars, request
<1> QED BY <1>1, <1>2, <1>3, <1>4, <1>5, LogHandler
        DEF Next, MainCall, ResolverThread, Thread

\* Whatever the threads do to one another, a failure is in the access log
\* before it is reported, and no connection is there twice
\* (request_set_reply, request_log_success).
THEOREM LogIsExact == Spec => []LogExact
<1>1. Init => LogInv
  BY DEF Init, LogInv, LogAt, Count
<1>2. LogInv => LogExact
  BY DEF LogInv, LogAt, LogExact, Count
<1> QED BY TypeCorrect, <1>1, <1>2, LogNext, PTL DEF Spec
-----------------------------------------------------------------------------
(* The invariant that the steps preserve as long as no two sections overlap   *)

\* Which call main has still to make after the one it is in, and what it needs:
\* the descriptors of the connection it works for.
Taking == {"take", "take_store", "try", "try_store"}
Errand ==
    /\ \/ then = "idle"
       \/ then \in {"destroy", "take", "try"} /\ pc[Main] \in Destroying
       \/ then = "pthread_create" /\ pc[Main] \in {"take", "take_store"}
    /\ pc[Main] \in Taking \cup {"pthread_create"} \/ then \in {"take", "try"} =>
         ClientOpen(cur)
    /\ then = "take" \/ (pc[Main] \in {"take", "take_store"} /\ then = "idle") =>
         OriginOpen(cur)
    /\ "pthread_create" \in {pc[Main], then} => stm[cur] = "REQUEST_READ"

\* A connection that has not been answered has no origin, and one that has not
\* asked has no thread.
Negotiating == {"HELLO_READ", "HELLO_WRITE", "AUTH_READ", "AUTH_WRITE", "REQUEST_READ"}
Stage(s) ==
    ClientOpen(s) =>
        /\ stm[s] \in Negotiating \cup {"RESOLVING"} => origin_fd[s] = NoFd
        /\ stm[s] \in Negotiating => ~Resolver(s)

Connections ==
    /\ \A f \in FD : Owned(f) /\ Handled(f)
    /\ \A f \in jobs : JobOwned(f)
    /\ \A s \in Struct : Asking(s) /\ Pending(s) /\ Stage(s)

\* The reference count of a struct, in each part of its life.
References(s) ==
    /\ Exact(s)
    /\ ~Live(s) => Unused(s)
    /\ Live(s) /\ ~Fresh(s) => references[s] >= 1
    /\ Fresh(s) => ~ClientOpen(s) /\ ~OriginOpen(s) /\ ~Resolver(s)

\* What a thread knows inside each section: what it has tested, and what it
\* has loaded, still holds.
LastCall == {"closed", "closed_load", "closed_store", "room", "link", "push"}
Section(p) ==
    /\ pc[p] \in {"drop", "drop_store"} => references[Subject(p)] >= 2
    /\ pc[p] \in {"drop_store", "take_store", "try_store"} =>
         reg[p] = references[Subject(p)]
    /\ pc[p] \in LastCall => references[Subject(p)] = 1
    /\ pc[p] \in {"closed_store", "opened_store"} => reg[p] = concurrent
    /\ pc[p] \in {"link", "push"} => pool_size < MaxPool
    /\ pc[p] = "push" => next[Subject(p)] = pool
    /\ pc[p] \in {"grow_store", "shrink_store"} => reg[p] = pool_size

\* Main between two accesses to the pool.
Unlinking ==
    /\ pc[Main] \in {"unlink", "unlink_store"} => cur = pool
    /\ pc[Main] = "unlink_store" => top = next[cur]

PoolIsList ==
    /\ ListEnds /\ Pooled \subseteq allocated
    /\ SizeIsLength /\ Cardinality(Pooled) <= MaxPool

Stopped ==
    /\ \A f \in FD : owner[f] = NoStruct
    /\ jobs = {}
    /\ \A s \in Struct : pc[s] \in {"none", "room", "link", "push", "grow", "grow_store"}

Safe ==
    /\ ~Overlap /\ Errand /\ Connections
    /\ \A s \in Struct : References(s)
    /\ \A p \in Thread : Section(p)
    /\ Unlinking /\ PoolIsList /\ MetricIsCount
    /\ running \/ Stopped
IInv == TypeOK /\ (~raced => Safe)
-----------------------------------------------------------------------------
(* Lists *)

Links == [Struct -> Struct \cup {NoStruct}]

LEMMA ReachHead ==
    ASSUME NEW a, NEW h \in Struct
    PROVE  h \in Reach(a, h)
BY Names DEF Reach

LEMMA ReachStruct ==
    ASSUME NEW a, NEW h
    PROVE  Reach(a, h) \subseteq Struct
BY DEF Reach

LEMMA ReachClosed ==
    ASSUME NEW a \in Links, NEW h, NEW r \in Reach(a, h), a[r] # NoStruct
    PROVE  a[r] \in Reach(a, h)
<1>1. r \in Struct /\ a[r] \in Struct
  BY ReachStruct DEF Links
<1> QED BY <1>1 DEF Reach

LEMMA ReachLeast ==
    ASSUME NEW a, NEW h, NEW R \in SUBSET Struct, h # NoStruct => h \in R,
           \A r \in R : a[r] # NoStruct => a[r] \in R
    PROVE  Reach(a, h) \subseteq R
BY DEF Reach

LEMMA ReachNone ==
    ASSUME NEW a
    PROVE  Reach(a, NoStruct) = {}
<1>1. Reach(a, NoStruct) \subseteq {}
  <2> DEFINE R == {}
  <2>1. R \in SUBSET Struct /\ \A r \in R : a[r] # NoStruct => a[r] \in R
    OBVIOUS
  <2> HIDE DEF R
  <2>2. Reach(a, NoStruct) \subseteq R
    BY <2>1, ReachLeast
  <2> QED BY <2>2 DEF R
<1> QED BY <1>1

\* What is reached from a reached struct is reached.
LEMMA ReachTrans ==
    ASSUME NEW a \in Links, NEW h, NEW r \in Reach(a, h) \cup {NoStruct}
    PROVE  Reach(a, r) \subseteq Reach(a, h)
<1>1. Reach(a, h) \subseteq Struct /\ (r # NoStruct => r \in Reach(a, h))
  BY ReachStruct
<1>2. \A q \in Reach(a, h) : a[q] # NoStruct => a[q] \in Reach(a, h)
  BY ReachClosed
<1> QED BY <1>1, <1>2, ReachLeast

\* A list is its head and the rest.
LEMMA ReachUnfold ==
    ASSUME NEW a \in Links, NEW h \in Struct
    PROVE  Reach(a, h) = {h} \cup Reach(a, a[h])
<1> DEFINE R == {h} \cup Reach(a, a[h])
<1>1. a[h] \in Struct \cup {NoStruct}
  BY DEF Links
<1>2. Reach(a, h) \subseteq R
  <2>1. R \subseteq Struct /\ h \in R
    BY ReachStruct
  <2>2. ASSUME NEW r \in R, a[r] # NoStruct PROVE a[r] \in R
    <3>1. CASE r = h
      BY <1>1, <2>2, <3>1, ReachHead
    <3>2. CASE r \in Reach(a, a[h])
      BY <2>2, <3>2, ReachClosed
    <3> QED BY <3>1, <3>2
  <2> HIDE DEF R
  <2> QED BY <2>1, <2>2, ReachLeast
<1>3. h \in Reach(a, h)
  BY ReachHead
<1>4. a[h] \in Reach(a, h) \cup {NoStruct}
  BY <1>3, ReachClosed
<1>5. Reach(a, a[h]) \subseteq Reach(a, h)
  BY <1>4, ReachTrans
<1> QED BY <1>2, <1>3, <1>5

\* A list does not change with links that are not on it.
LEMMA ReachSame ==
    ASSUME NEW a \in Links, NEW b \in Links, NEW h \in Struct \cup {NoStruct},
           \A r \in Reach(a, h) : b[r] = a[r]
    PROVE  Reach(b, h) = Reach(a, h)
<1>1. Reach(b, h) \subseteq Reach(a, h)
  <2>1. Reach(a, h) \subseteq Struct
    BY ReachStruct
  <2>2. \A r \in Reach(a, h) : b[r] # NoStruct => b[r] \in Reach(a, h)
    BY ReachClosed
  <2>3. h # NoStruct => h \in Reach(a, h)
    BY ReachHead
  <2> QED BY <2>1, <2>2, <2>3, ReachLeast
<1>2. Reach(a, h) \subseteq Reach(a, h) \cap Reach(b, h)
  <2> DEFINE R == Reach(a, h) \cap Reach(b, h)
  <2>1. R \subseteq Struct
    BY ReachStruct
  <2>2. ASSUME NEW r \in R, a[r] # NoStruct PROVE a[r] \in R
    <3>1. b[r] = a[r]
      OBVIOUS
    <3>2. a[r] \in Reach(a, h)
      BY <2>2, ReachClosed
    <3>3. b[r] \in Reach(b, h)
      BY <2>2, <3>1, ReachClosed
    <3> QED BY <3>1, <3>2, <3>3
  <2>3. h # NoStruct => h \in R
    BY ReachHead
  <2> HIDE DEF R
  <2>4. Reach(a, h) \subseteq R
    BY <2>1, <2>2, <2>3, ReachLeast
  <2> QED BY <2>4 DEF R
<1> QED BY <1>1, <1>2

\* Links of structs that are not in the pool can change.
LEMMA PoolFrame ==
    ASSUME SharedTypeOK, SharedTypeOK', ListEnds, pool' = pool,
           \A s \in Pooled : next'[s] = next[s]
    PROVE  Pooled' = Pooled /\ ListEnds'
<1>1. next \in Links /\ next' \in Links /\ pool \in Struct \cup {NoStruct}
  BY DEF SharedTypeOK, Links
<1>2. Pooled' = Pooled
  <2>1. \A r \in Reach(next, pool) : next'[r] = next[r]
    BY DEF Pooled
  <2>2. Reach(next', pool) = Reach(next, pool)
    BY <1>1, <2>1, ReachSame
  <2> QED BY <2>2 DEF Pooled
<1>3. ASSUME NEW s \in Pooled PROVE s \notin Reach(next', next'[s])
  <2>1. next[s] \in Struct \cup {NoStruct} /\ s \in Struct
    BY <1>1, ReachStruct DEF Pooled, Links
  <2>2. next[s] \in Pooled \cup {NoStruct}
    BY <1>1, ReachClosed DEF Pooled
  <2>3. Reach(next, next[s]) \subseteq Pooled
    BY <1>1, <2>2, ReachTrans DEF Pooled
  <2>4. \A r \in Reach(next, next[s]) : next'[r] = next[r]
    BY <2>3
  <2>5. Reach(next', next[s]) = Reach(next, next[s])
    BY <1>1, <2>1, <2>4, ReachSame
  <2>6. next'[s] = next[s] /\ s \notin Reach(next, next[s])
    BY DEF ListEnds
  <2> QED BY <2>5, <2>6
<1> QED BY <1>2, <1>3 DEF ListEnds

\* pool = s, once s->next = pool.
LEMMA PoolPush ==
    ASSUME SharedTypeOK, ListEnds, NEW s \in Struct, s \notin Pooled,
           next[s] = pool, pool' = s, next' = next
    PROVE  Pooled' = Pooled \cup {s} /\ ListEnds'
<1>1. next \in Links
  BY DEF SharedTypeOK, Links
<1>2. Pooled' = Pooled \cup {s}
  BY <1>1, ReachUnfold DEF Pooled
<1>3. ASSUME NEW t \in Pooled' PROVE t \notin Reach(next, next[t])
  BY <1>2 DEF ListEnds, Pooled
<1> QED BY <1>2, <1>3 DEF ListEnds

\* pool = pool->next; the struct's own link is cleared.
LEMMA PoolPop ==
    ASSUME SharedTypeOK, SharedTypeOK', ListEnds, pool \in Struct,
           pool' = next[pool], \A s \in Struct : s # pool => next'[s] = next[s]
    PROVE  Pooled' = Pooled \ {pool} /\ pool \in Pooled /\ ListEnds'
<1>1. next \in Links /\ next' \in Links /\ next[pool] \in Struct \cup {NoStruct}
  BY DEF SharedTypeOK, Links
<1> DEFINE Rest == Reach(next, next[pool])
<1>2. Pooled = {pool} \cup Rest /\ pool \in Pooled
  BY <1>1, ReachUnfold DEF Pooled
<1>3. pool \notin Rest /\ Rest \subseteq Struct
  BY <1>2, ReachStruct DEF ListEnds
<1>4. \A r \in Rest : next'[r] = next[r]
  BY <1>3
<1>5. Pooled' = Rest
  BY <1>1, <1>4, ReachSame DEF Pooled
<1>6. ASSUME NEW s \in Rest PROVE s \notin Reach(next', next'[s])
  <2>1. next'[s] = next[s] /\ s \in Pooled
    BY <1>2, <1>4
  <2>2. next[s] \in Rest \cup {NoStruct}
    BY <1>1, ReachClosed
  <2>3. Reach(next, next[s]) \subseteq Rest
    BY <1>1, <2>2, ReachTrans
  <2>4. \A r \in Reach(next, next[s]) : next'[r] = next[r]
    BY <1>4, <2>3
  <2>5. next[s] \in Struct \cup {NoStruct}
    BY <1>3, <2>2
  <2>6. Reach(next', next[s]) = Reach(next, next[s])
    BY <1>1, <2>4, <2>5, ReachSame
  <2> QED BY <2>1, <2>6 DEF ListEnds
<1> HIDE DEF Rest
<1> QED BY <1>2, <1>3, <1>5, <1>6 DEF ListEnds
-----------------------------------------------------------------------------
(* The reference counts: who uses a struct, step by step *)

\* For t the step changes nothing.
Same(t) ==
    /\ ClientOpen(t)' <=> ClientOpen(t)
    /\ OriginOpen(t)' <=> OriginOpen(t)
    /\ Resolver(t)' <=> Resolver(t)
    /\ Owes(t)' = Owes(t)
    /\ Due(t)' = Due(t)
    /\ Fresh(t)' <=> Fresh(t)

LEMMA SameReferences ==
    ASSUME NEW t \in Struct, References(t), Same(t), Live(t)' <=> Live(t),
           references'[t] = references[t]
    PROVE  References(t)'
<1>1. Holders(t)' = Holders(t)
  BY DEF Same, Holders, Count
<1> QED BY <1>1 DEF Same, References, Exact, Unused

LEMMA OwesType ==
    ASSUME NEW t
    PROVE  Owes(t) \in 0 .. 2 /\ Due(t) \in 0 .. 1 /\ Holders(t) \in 0 .. 5
<1>1. Owes(t) \in 0 .. 2 /\ Due(t) \in 0 .. 1
  BY DEF Owes, Due, Count
<1> QED BY <1>1 DEF Holders, Count

LEMMA UnusedFlags ==
    ASSUME NEW t, Holders(t) = 0
    PROVE  ~ClientOpen(t) /\ ~OriginOpen(t) /\ ~Resolver(t) /\ Owes(t) = 0
<1> DEFINE c == Count(ClientOpen(t))
           o == Count(OriginOpen(t))
           r == Count(Resolver(t))
           w == Owes(t)
<1>1. c \in 0 .. 1 /\ o \in 0 .. 1 /\ r \in 0 .. 1 /\ w \in 0 .. 2
  BY OwesType DEF Count
<1>2. c + o + r + w = 0
  BY DEF Holders
<1>3. /\ c = 0 => ~ClientOpen(t)
      /\ o = 0 => ~OriginOpen(t)
      /\ r = 0 => ~Resolver(t)
  BY DEF Count
<1>4. w = Owes(t)
  OBVIOUS
<1> HIDE DEF c, o, r, w
<1>5. c = 0 /\ o = 0 /\ r = 0 /\ w = 0
  BY <1>1, <1>2
<1> QED BY <1>3, <1>4, <1>5

\* A thread in socks5_destroy, before the assignment to pool, has a struct that
\* is in use.
LEMMA Holding ==
    ASSUME TypeOK, Safe, NEW p \in Thread, pc[p] \in Destroying
    PROVE  LET s == Subject(p) IN
           /\ s \in Struct /\ Live(s) /\ ~Fresh(s)
           /\ references[s] \in Nat /\ references[s] >= 1
           /\ references[s] + Due(s) = Holders(s)
<1> DEFINE s == Subject(p)
<1>1. s \in Struct
  BY SubjectType DEF TypeOK, MemoryTypeOK, Destroying, DestroySteps
<1>2. Holders(s) >= 1
  <2>1. CASE p = Main
    <3>1. Owes(s) >= 1
      BY <2>1 DEF Owes, Subject, Count
    <3> QED BY <3>1, OwesType DEF Holders, Count
  <2>2. CASE p # Main
    <3>1. Resolver(s)
      BY <2>2 DEF Resolver, Subject
    <3> QED BY <3>1, OwesType DEF Holders, Count
  <2> QED BY <2>1, <2>2
<1>3. Live(s)
  BY <1>1, <1>2 DEF Safe, References, Unused
<1>4. ~Fresh(s)
  <2>1. CASE p = Main
    BY <2>1 DEF Fresh, Destroying
  <2>2. CASE p # Main
    BY <1>1, <2>2 DEF Resolver, Subject, Safe, References
  <2> QED BY <2>1, <2>2
<1>5. references[s] \in Nat
  BY <1>1, UnsignedType DEF TypeOK, MemoryTypeOK, SharedTypeOK
<1> HIDE DEF s
<1>6. references[s] >= 1 /\ references[s] + Due(s) = Holders(s)
  BY <1>1, <1>3, <1>4 DEF Safe, References, Exact
<1> QED BY <1>1, <1>3, <1>4, <1>5, <1>6 DEF s

\* One that has found references to be 1 is the only one that uses it.
LEMMA LastHolder ==
    ASSUME TypeOK, Safe, NEW p \in Thread, pc[p] \in Destroying,
           references[Subject(p)] = 1
    PROVE  LET s == Subject(p) IN
           /\ ~ClientOpen(s) /\ ~OriginOpen(s) /\ Due(s) = 0 /\ Holders(s) = 1
           /\ p = Main => then = "idle" /\ ~Resolver(s)
           /\ p # Main => /\ Owes(s) = 0
                          /\ cur = s => pc[Main] \notin Destroying \cup Taking
<1> DEFINE s == Subject(p)
<1>1. s \in Struct /\ 1 + Due(s) = Holders(s)
  BY Holding
<1>2. p = Main => cur = s /\ pc[Main] \in Destroying /\ Owes(s) = 1 + Count(then = "destroy")
  BY DEF Subject, Owes, Count
<1>3. p # Main => Resolver(s)
  BY DEF Subject, Resolver
<1>4. Owes(s) \in 0 .. 2 /\ Due(s) \in 0 .. 1
  BY OwesType
<1>5. Due(s) = 1 => ClientOpen(s) /\ OriginOpen(s)
  BY DEF Due, Count, Safe, Errand, Taking
<1> HIDE DEF s
<1>6. Due(s) = 0
  BY <1>1, <1>2, <1>3, <1>4, <1>5 DEF Holders, Count
<1>7. ~ClientOpen(s) /\ ~OriginOpen(s) /\ Holders(s) = 1
  BY <1>1, <1>2, <1>3, <1>4, <1>6 DEF Holders, Count
<1>8. ASSUME p = Main PROVE then = "idle" /\ ~Resolver(s)
  <2>1. Owes(s) = 1 /\ ~Resolver(s)
    BY <1>2, <1>4, <1>7, <1>8 DEF Holders, Count
  <2>2. then # "destroy"
    BY <1>2, <1>8, <2>1 DEF Count
  <2>3. then \notin {"take", "try"}
    BY <1>2, <1>7, <1>8 DEF Safe, Errand
  <2>4. then # "pthread_create"
    BY <1>2, <1>8 DEF Safe, Errand, Destroying
  <2> QED BY <2>1, <2>2, <2>3, <2>4 DEF Safe, Errand
<1>9. ASSUME p # Main
      PROVE  Owes(s) = 0 /\ (cur = s => pc[Main] \notin Destroying \cup Taking)
  <2>1. Owes(s) = 0
    BY <1>3, <1>4, <1>7, <1>9 DEF Holders, Count
  <2>2. cur = s => pc[Main] \notin Destroying
    BY <2>1 DEF Owes, Count
  <2>3. cur = s => pc[Main] \notin Taking
    BY <1>7 DEF Safe, Errand
  <2> QED BY <2>1, <2>2, <2>3
<1> QED BY <1>6, <1>7, <1>8, <1>9 DEF s

\* The steps main takes between socks5_new and the client's registration.
FreshSteps == {"shrink", "shrink_store", "opened", "opened_store", "register"}

\* A move between two steps of the same kind.
LEMMA MoveSame ==
    ASSUME CallTypeOK, NEW p \in Thread, NEW step, Goto(p, step),
           UNCHANGED <<owner, links>>,
           \A K \in {Destroying, {"take", "take_store"}, FreshSteps, {"lookup", "notify"},
                     {"pthread_create"}} : pc[p] \in K <=> step \in K
    PROVE  \A t \in Struct : Same(t)
<1> USE Names DEF links
<1>1. /\ \A q \in Thread : pc'[q] = IF q = p THEN step ELSE pc[q]
      /\ cur' = cur /\ then' = then
  BY DEF Goto, CallTypeOK
<1> SUFFICES ASSUME NEW t \in Struct PROVE Same(t)
  OBVIOUS
<1>2. (ClientOpen(t)' <=> ClientOpen(t)) /\ (OriginOpen(t)' <=> OriginOpen(t))
  BY DEF ClientOpen, OriginOpen
<1>3. /\ pc[p] \in Destroying <=> step \in Destroying
      /\ pc[p] \in {"take", "take_store"} <=> step \in {"take", "take_store"}
      /\ pc[p] \in FreshSteps <=> step \in FreshSteps
      /\ pc[p] \in {"lookup", "notify"} <=> step \in {"lookup", "notify"}
      /\ pc[p] = "pthread_create" <=> step = "pthread_create"
  OBVIOUS
<1>4. /\ pc'[Main] \in Destroying <=> pc[Main] \in Destroying
      /\ pc'[Main] \in {"take", "take_store"} <=> pc[Main] \in {"take", "take_store"}
      /\ pc'[Main] \in FreshSteps <=> pc[Main] \in FreshSteps
      /\ pc'[Main] = "pthread_create" <=> pc[Main] = "pthread_create"
      /\ pc'[t] \in Destroying <=> pc[t] \in Destroying
      /\ pc'[t] \in {"lookup", "notify"} <=> pc[t] \in {"lookup", "notify"}
  BY <1>1, <1>3 DEF Thread
<1>5. Resolver(t)' <=> Resolver(t)
  BY <1>4 DEF Resolver
<1>6. Owes(t)' = Owes(t)
  BY <1>1, <1>4 DEF Owes, Count
<1>7. Due(t)' = Due(t)
  BY <1>1, <1>4 DEF Due, Count
<1>8. Fresh(t)' <=> Fresh(t)
  BY <1>1, <1>4 DEF Fresh, FreshSteps
<1> QED BY <1>2, <1>5, <1>6, <1>7, <1>8 DEF Same

\* What a call of socks5_destroy leaves: its subject has one user less.
LEMMA ReturnSame ==
    ASSUME TypeOK, Safe, NEW p \in Thread, NEW s \in Struct, Subject(p) = s,
           pc[p] \in Destroying, Return(p), UNCHANGED <<owner, links, stm>>
    PROVE  /\ \A t \in Struct : t # s => Same(t)
           /\ ClientOpen(s)' <=> ClientOpen(s)
           /\ OriginOpen(s)' <=> OriginOpen(s)
           /\ Resolver(s)' => Resolver(s)
           /\ ~Fresh(s)' /\ Due(s)' = Due(s) /\ Holders(s)' = Holders(s) - 1
           /\ Errand'
<1> USE Names DEF links
<1>1. \A t \in Struct : (ClientOpen(t)' <=> ClientOpen(t)) /\ (OriginOpen(t)' <=> OriginOpen(t))
  BY DEF ClientOpen, OriginOpen
<1>2. CallTypeOK
  BY DEF TypeOK, MemoryTypeOK
<1>3. CASE p = Main
  <2>1. /\ pc'[Main] = then /\ \A t \in Struct : pc'[t] = pc[t]
        /\ then' = "idle" /\ cur' = IF then = "idle" THEN NoStruct ELSE cur
        /\ s = cur
    BY <1>2, <1>3 DEF Return, Calls, CallTypeOK, Thread, Subject
  <2>2. then \in {"idle", "destroy", "take", "try"}
    BY <1>3 DEF Safe, Errand, Destroying
  <2>3. \A t \in Struct : Resolver(t)' <=> Resolver(t)
    BY <2>1 DEF Resolver
  <2>4. \A t \in Struct : t # s => Owes(t)' = 0 /\ Owes(t) = 0 /\ Due(t)' = 0 /\ Due(t) = 0
    BY <2>1 DEF Owes, Due, Count
  <2>5. \A t \in Struct : ~Fresh(t)' /\ ~Fresh(t)
    BY <1>3, <2>1, <2>2 DEF Fresh, Destroying
  <2>6. Due(s)' = Due(s)
    BY <1>2, <1>3, <2>1, <2>2 DEF Due, Count, Destroying
  <2>7. Owes(s)' = Owes(s) - 1
    BY <1>2, <1>3, <2>1, <2>2 DEF Owes, Count, Destroying
  <2>8. Owes(s) \in 0 .. 2
    BY OwesType
  <2>9. Holders(s)' = Holders(s) - 1
    BY <1>1, <1>2, <2>3, <2>7, <2>8 DEF Holders, Count
  <2>10. Errand'
    BY <1>1, <1>2, <1>3, <2>1, <2>2 DEF Safe, Errand, Destroying, Taking
  <2> QED BY <1>1, <2>3, <2>4, <2>5, <2>6, <2>9, <2>10 DEF Same
<1>4. CASE p # Main
  <2>1. /\ pc'[Main] = pc[Main]
        /\ \A t \in Struct : pc'[t] = IF t = s THEN "none" ELSE pc[t]
        /\ then' = then /\ cur' = cur /\ s = p
    BY <1>2, <1>4 DEF Return, Goto, CallTypeOK, Thread, Subject
  <2>2. \A t \in Struct : Resolver(t)' <=> Resolver(t) /\ t # s
    BY <2>1 DEF Resolver, Destroying
  <2>3. Resolver(s)
    BY <2>1 DEF Resolver
  <2>4. \A t \in Struct : Owes(t)' = Owes(t) /\ Due(t)' = Due(t) /\ (Fresh(t)' <=> Fresh(t))
    BY <2>1 DEF Owes, Due, Fresh, Count
  <2>5. ~Fresh(s)
    BY Holding
  <2>6. Owes(s) \in 0 .. 2
    BY OwesType
  <2>7. Holders(s)' = Holders(s) - 1
    BY <1>1, <1>2, <2>2, <2>3, <2>4, <2>6 DEF Holders, Count
  <2>8. Errand'
    BY <1>1, <1>2, <2>1 DEF Safe, Errand, CallTypeOK, ClientOpen, OriginOpen
  <2> QED BY <1>1, <1>2, <2>2, <2>4, <2>5, <2>7, <2>8 DEF Same
<1> QED BY <1>3, <1>4
-----------------------------------------------------------------------------
(* The pool, in socks5_destroy *)

Growing == {"grow", "grow_store"}
Shrinking == {"shrink", "shrink_store"}

LEMMA PooledFinite == IsFiniteSet(Pooled) /\ Cardinality(Pooled) \in Nat
<1>1. Pooled \subseteq Struct /\ IsFiniteSet(Struct)
  BY ReachStruct, MemoryAssumption DEF Pooled
<1> QED BY <1>1, FS_Subset, FS_CardinalityType

\* No other thread is in the section in which p is.
LEMMA Alone ==
    ASSUME ~Overlap, NEW p \in Thread, NEW q \in Thread, p # q
    PROVE  /\ InPool(p) => ~InPool(q)
           /\ InMetric(p) => ~InMetric(q)
           /\ Subject(p) = Subject(q) /\ InReferences(p) => ~InReferences(q)
BY DEF Overlap

\* Where a thread goes when its call is over.
LEMMA ReturnMoves ==
    ASSUME CallTypeOK, NEW p \in Thread, Return(p)
    PROVE  /\ \A q \in Thread : q # p => pc'[q] = pc[q]
           /\ pc'[p] \in {"none", "idle", "destroy", "take", "try", "pthread_create"}
BY DEF Return, Calls, Goto, CallTypeOK, Thread

LEMMA DestroyMoves ==
    ASSUME CallTypeOK, NEW p \in Thread, DestroyStep(p)
    PROVE  /\ pc[p] \in DestroySteps
           /\ \A q \in Thread : q # p => pc'[q] = pc[q]
           /\ pc'[p] \notin Shrinking
           /\ pc'[p] \in Growing <=> pc[p] \in {"push", "grow"}
<1>1. pc[p] \in DestroySteps
  BY DEF DestroyStep, Destroy, Drop, DropStore, Closed, ClosedLoad, ClosedStore,
         Room, Link, Push, Grow, GrowStore, At, DestroySteps
<1>2. CASE Return(p) /\ pc[p] \notin {"push", "grow"}
  BY <1>1, <1>2, ReturnMoves DEF Growing, Shrinking
<1>3. CASE ~(Return(p) /\ pc[p] \notin {"push", "grow"})
  <2>1. PICK step : Goto(p, step) /\ step \in DestroySteps
                    /\ (step \in Growing <=> pc[p] \in {"push", "grow"})
    BY <1>3 DEF DestroyStep, Destroy, Drop, DropStore, Closed, ClosedLoad, ClosedStore,
         Room, Link, Push, Grow, GrowStore, At, DestroySteps, Load, Growing
  <2>2. \A q \in Thread : pc'[q] = IF q = p THEN step ELSE pc[q]
    BY <2>1 DEF Goto, CallTypeOK
  <2> QED BY <1>1, <2>1, <2>2 DEF DestroySteps, Shrinking
<1> QED BY <1>2, <1>3

LEMMA SizeKept ==
    ASSUME SizeIsLength, Pooled' = Pooled, pool_size' = pool_size,
           \A q \in Thread : pc'[q] \in Growing <=> pc[q] \in Growing,
           pc'[Main] \in Shrinking <=> pc[Main] \in Shrinking
    PROVE  SizeIsLength'
BY DEF SizeIsLength, Growing, Shrinking, Count

LEMMA DestroyPool ==
    ASSUME TypeOK, TypeOK', Safe, NEW p \in Thread, NEW s \in Struct,
           Subject(p) = s, DestroyStep(p)
    PROVE  /\ PoolIsList'
           /\ \A t \in Struct :
                Live(t)' <=> /\ Live(t)
                             /\ t = s => /\ pc[p] # "push"
                                         /\ pc[p] = "room" => pool_size < MaxPool
<1> USE Names DEF shared
<1>1. /\ CallTypeOK /\ SharedTypeOK /\ SharedTypeOK'
      /\ ListEnds /\ Pooled \subseteq allocated /\ SizeIsLength
      /\ Cardinality(Pooled) <= MaxPool /\ ~Overlap
  BY DEF TypeOK, MemoryTypeOK, Safe, PoolIsList
<1>2. /\ pc[p] \in DestroySteps
      /\ \A q \in Thread : q # p => pc'[q] = pc[q]
      /\ pc'[p] \notin Shrinking
      /\ pc'[p] \in Growing <=> pc[p] \in {"push", "grow"}
  BY <1>1, DestroyMoves
<1>3. pc'[Main] \in Shrinking <=> pc[Main] \in Shrinking
  BY <1>2 DEF DestroySteps, Shrinking
<1>4. pc[p] \in Destroying => Live(s)
  BY Holding
<1>5. CASE pc[p] \notin {"push", "grow_store"}
  <2>1. /\ pool' = pool /\ pool_size' = pool_size
        /\ next' = next \/ next' = [next EXCEPT ![s] = pool]
        /\ next' # next => pc[p] = "link"
        /\ allocated' = IF pc[p] = "room" /\ pool_size >= MaxPool THEN allocated \ {s}
                        ELSE allocated
    <3>1. CASE Room(p)
      <4>1. pool_size >= MaxPool <=> ~(pool_size < MaxPool)
        BY <1>1, MemoryAssumption DEF SharedTypeOK, Unsigned
      <4> QED BY <3>1, <4>1 DEF Room, At
    <3>2. CASE ~Room(p)
      <4>1. pc[p] # "room"
        BY <3>2 DEF DestroyStep, Destroy, Drop, DropStore, Closed, ClosedLoad,
           ClosedStore, Link, Push, Grow, GrowStore, At
      <4>2. /\ pool' = pool /\ pool_size' = pool_size /\ allocated' = allocated
            /\ next' = next \/ (next' = [next EXCEPT ![s] = pool] /\ pc[p] = "link")
        BY <1>5, <3>2 DEF DestroyStep, Destroy, Drop, DropStore, Closed, ClosedLoad,
           ClosedStore, Link, Push, Grow, GrowStore, At, Load
      <4> QED BY <4>1, <4>2
    <3> QED BY <3>1, <3>2
  <2>2. \A r \in Pooled : next'[r] = next[r]
    <3>1. next' # next => s \notin Pooled
      BY <1>4, <2>1 DEF Live, Destroying
    <3>2. Pooled \subseteq Struct
      BY ReachStruct DEF Pooled
    <3> QED BY <1>1, <2>1, <3>1, <3>2 DEF SharedTypeOK
  <2>3. Pooled' = Pooled /\ ListEnds'
    BY <1>1, <2>1, <2>2, PoolFrame
  <2>4. \A q \in Thread : pc'[q] \in Growing <=> pc[q] \in Growing
    BY <1>2, <1>5 DEF Growing
  <2>5. SizeIsLength'
    BY <1>1, <1>3, <2>1, <2>3, <2>4, SizeKept
  <2>6. pc[p] = "room" => s \notin Pooled /\ s \in allocated
    BY <1>4 DEF Live, Destroying
  <2>7. Pooled' \subseteq allocated' /\ Cardinality(Pooled') <= MaxPool
    BY <1>1, <2>1, <2>3, <2>6
  <2>8. pool_size >= MaxPool <=> ~(pool_size < MaxPool)
    BY <1>1, MemoryAssumption DEF SharedTypeOK, Unsigned
  <2> QED BY <1>5, <2>1, <2>3, <2>5, <2>6, <2>7, <2>8 DEF PoolIsList, Live
<1>6. CASE pc[p] = "push"
  <2>1. pool' = s /\ UNCHANGED <<allocated, references, next, pool_size>>
    BY <1>6 DEF DestroyStep, Destroy, Drop, DropStore, Closed, ClosedLoad,
       ClosedStore, Room, Link, Push, Grow, GrowStore, At
  <2>2. next[s] = pool /\ pool_size < MaxPool
    BY <1>6 DEF Safe, Section
  <2>3. s \notin Pooled /\ s \in allocated
    BY <1>4, <1>6 DEF Live, Destroying
  <2>4. Pooled' = Pooled \cup {s} /\ ListEnds'
    BY <1>1, <2>1, <2>2, <2>3, PoolPush
  <2>5. Cardinality(Pooled') = Cardinality(Pooled) + 1
    BY <2>3, <2>4, PooledFinite, FS_AddElement
  <2>6. ~\E q \in Thread : pc[q] \in Growing \cup Shrinking
    BY <1>1, <1>6, Alone DEF InPool, Growing, Shrinking
  <2>7. pool_size = Cardinality(Pooled)
    BY <1>1, <2>6, PooledFinite DEF SizeIsLength, Growing, Shrinking, Count,
       SharedTypeOK, Unsigned
  <2>8. pc'[p] \in Growing /\ pc'[Main] \notin Shrinking
    BY <1>2, <1>3, <1>6, <2>6
  <2>9. SizeIsLength'
    BY <2>1, <2>5, <2>7, <2>8, PooledFinite DEF SizeIsLength, Growing, Shrinking, Count
  <2>10. Cardinality(Pooled') <= MaxPool
    BY <2>2, <2>5, <2>7, PooledFinite, MemoryAssumption
  <2>11. Pooled' \subseteq allocated'
    BY <1>1, <2>1, <2>3, <2>4
  <2> QED BY <1>6, <2>1, <2>4, <2>9, <2>10, <2>11 DEF PoolIsList, Live
<1>7. CASE pc[p] = "grow_store"
  <2>1. pool_size' = Inc(reg[p]) /\ UNCHANGED <<allocated, references, next, pool>>
    BY <1>7 DEF DestroyStep, Destroy, Drop, DropStore, Closed, ClosedLoad,
       ClosedStore, Room, Link, Push, Grow, GrowStore, At
  <2>2. Pooled' = Pooled /\ ListEnds'
    BY <1>1, <2>1, PoolFrame
  <2>3. reg[p] = pool_size
    BY <1>7 DEF Safe, Section
  <2>4. pc[Main] \notin Shrinking /\ \A q \in Thread : q # p => pc[q] \notin Growing
    <3>1. p = Main => pc[Main] \notin Shrinking
      BY <1>7 DEF Shrinking
    <3>2. InPool(p)
      BY <1>7 DEF InPool
    <3>3. \A q \in Thread : q # p => pc[q] \notin Growing /\ pc[q] \notin Shrinking
      BY <1>1, <3>2, Alone DEF InPool, Growing, Shrinking
    <3> QED BY <3>1, <3>3
  <2>5. pool_size + 1 = Cardinality(Pooled)
    <3>1. \E q \in Thread : pc[q] \in Growing
      BY <1>7 DEF Growing
    <3> QED BY <1>1, <2>4, <3>1, PooledFinite DEF SizeIsLength, Growing, Shrinking, Count,
       SharedTypeOK, Unsigned
  <2>6. Inc(reg[p]) = pool_size + 1
    BY <1>1, <2>3, <2>5, PooledFinite, MemoryAssumption DEF Inc, SharedTypeOK, Unsigned
  <2>7. ~\E q \in Thread : pc'[q] \in Growing
    BY <1>2, <1>7, <2>4
  <2>8. SizeIsLength'
    BY <1>3, <2>1, <2>2, <2>4, <2>5, <2>6, <2>7, PooledFinite
       DEF SizeIsLength, Growing, Shrinking, Count
  <2> QED BY <1>1, <1>7, <2>1, <2>2, <2>8 DEF PoolIsList, Live
<1> QED BY <1>5, <1>6, <1>7
-----------------------------------------------------------------------------
(* The reference counts, in socks5_destroy *)

LEMMA ErrandMove ==
    ASSUME CallTypeOK, Errand, NEW p \in Thread, NEW step, Goto(p, step),
           UNCHANGED <<owner, links, stm>>,
           p = Main => \/ pc[Main] \in Destroying /\ step \in Destroying
                       \/ then = "idle" /\ step \notin Taking \cup {"pthread_create"}
    PROVE  Errand'
<1> USE Names DEF links
<1>1. /\ \A q \in Thread : pc'[q] = IF q = p THEN step ELSE pc[q]
      /\ cur' = cur /\ then' = then
  BY DEF Goto, CallTypeOK
<1>2. (ClientOpen(cur) => ClientOpen(cur)') /\ (OriginOpen(cur) => OriginOpen(cur)')
  BY <1>1 DEF ClientOpen, OriginOpen
<1>3. CASE p = Main
  BY <1>1, <1>2, <1>3 DEF Errand, Destroying, Taking
<1>4. CASE p # Main
  BY <1>1, <1>2, <1>4 DEF Errand
<1> QED BY <1>3, <1>4

\* pool = s: the struct is no longer used.
LEMMA PushSame ==
    ASSUME TypeOK, Safe, NEW p \in Thread, NEW s \in Struct, Subject(p) = s,
           pc[p] = "push", Goto(p, "grow"), UNCHANGED <<owner, links>>
    PROVE  /\ \A t \in Struct : t # s => Same(t)
           /\ Holders(s)' = 0 /\ ~Fresh(s)'
<1> USE Names DEF links
<1>1. /\ \A q \in Thread : pc'[q] = IF q = p THEN "grow" ELSE pc[q]
      /\ cur' = cur /\ then' = then
  BY DEF Goto, CallTypeOK, TypeOK, MemoryTypeOK
<1>2. pc[p] \in Destroying /\ references[Subject(p)] = 1
  BY DEF Destroying, Safe, Section, LastCall
<1>3. /\ ~ClientOpen(s) /\ ~OriginOpen(s) /\ Holders(s) = 1
      /\ p = Main => then = "idle" /\ ~Resolver(s)
      /\ p # Main => Owes(s) = 0
  BY <1>2, LastHolder
<1>4. ~Fresh(s)
  BY <1>2, Holding
<1>5. \A t \in Struct : (ClientOpen(t)' <=> ClientOpen(t)) /\ (OriginOpen(t)' <=> OriginOpen(t))
  BY DEF ClientOpen, OriginOpen
<1>6. CASE p = Main
  <2>1. pc'[Main] = "grow" /\ \A t \in Struct : pc'[t] = pc[t]
    BY <1>1, <1>6 DEF Thread
  <2>2. s = cur
    BY <1>6 DEF Subject
  <2>3. \A t \in Struct : Resolver(t)' <=> Resolver(t)
    BY <2>1 DEF Resolver
  <2>4. \A t \in Struct : t # s => Owes(t)' = 0 /\ Owes(t) = 0 /\ Due(t)' = 0 /\ Due(t) = 0
    BY <1>1, <2>2 DEF Owes, Due, Count
  <2>5. \A t \in Struct : ~Fresh(t)' /\ ~Fresh(t)
    BY <1>6, <2>1 DEF Fresh
  <2>6. Owes(s)' = 0
    BY <1>1, <1>3, <1>6, <2>1 DEF Owes, Count, Destroying
  <2>7. Holders(s)' = 0
    BY <1>3, <1>5, <1>6, <2>3, <2>6 DEF Holders, Count
  <2> QED BY <1>5, <2>3, <2>4, <2>5, <2>7 DEF Same
<1>7. CASE p # Main
  <2>1. /\ pc'[Main] = pc[Main] /\ s = p
        /\ \A t \in Struct : pc'[t] = IF t = s THEN "grow" ELSE pc[t]
    BY <1>1, <1>7 DEF Thread, Subject
  <2>2. \A t \in Struct : Resolver(t)' <=> Resolver(t) /\ t # s
    BY <2>1 DEF Resolver, Destroying
  <2>3. \A t \in Struct : Owes(t)' = Owes(t) /\ Due(t)' = Due(t) /\ (Fresh(t)' <=> Fresh(t))
    BY <1>1, <2>1 DEF Owes, Due, Fresh, Count
  <2>4. Holders(s)' = 0
    BY <1>3, <1>5, <1>7, <2>2, <2>3 DEF Holders, Count
  <2> QED BY <1>4, <1>5, <2>2, <2>3, <2>4 DEF Same
<1> QED BY <1>6, <1>7

\* After pool_size++ nothing is left to do.
LEMMA GrownSame ==
    ASSUME TypeOK, Safe, NEW p \in Thread, pc[p] = "grow_store", Return(p),
           UNCHANGED <<owner, links, stm>>
    PROVE  Errand' /\ \A t \in Struct : Same(t)
<1> USE Names DEF links
<1>1. CallTypeOK /\ Errand
  BY DEF TypeOK, MemoryTypeOK, Safe
<1>2. CASE p = Main
  <2>1. then = "idle"
    BY <1>1, <1>2 DEF Errand, Destroying
  <2>2. /\ pc'[Main] = "idle" /\ \A t \in Struct : pc'[t] = pc[t]
        /\ then' = "idle" /\ cur' = NoStruct
    BY <1>1, <1>2, <2>1 DEF Return, Calls, CallTypeOK, Thread
  <2>3. \A t \in Struct :
          /\ ClientOpen(t)' <=> ClientOpen(t)
          /\ OriginOpen(t)' <=> OriginOpen(t)
          /\ Resolver(t)' <=> Resolver(t)
    BY <2>2 DEF ClientOpen, OriginOpen, Resolver
  <2>4. \A t \in Struct : Owes(t)' = Owes(t) /\ Due(t)' = Due(t)
    BY <1>2, <2>1, <2>2 DEF Owes, Due, Count, Destroying
  <2>5. \A t \in Struct : ~Fresh(t)' /\ ~Fresh(t)
    BY <1>2, <2>2 DEF Fresh
  <2>6. Errand'
    BY <2>2 DEF Errand, Taking
  <2> QED BY <2>3, <2>4, <2>5, <2>6 DEF Same
<1>3. CASE p # Main
  <2>1. Goto(p, "none")
    BY <1>3 DEF Return
  <2>2. \A K \in {Destroying, {"take", "take_store"}, FreshSteps, {"lookup", "notify"},
                  {"pthread_create"}} : pc[p] \in K <=> "none" \in K
    BY DEF Destroying, FreshSteps
  <2>3. \A t \in Struct : Same(t)
    BY <1>1, <2>1, <2>2, MoveSame
  <2> QED BY <1>1, <1>3, <2>1, <2>3, ErrandMove
<1> QED BY <1>2, <1>3

LEMMA DestroyReferences ==
    ASSUME TypeOK, TypeOK', Safe, NEW p \in Thread, NEW s \in Struct,
           Subject(p) = s, DestroyStep(p), UNCHANGED <<owner, links, stm>>
    PROVE  Errand' /\ \A t \in Struct : References(t)'
<1> USE Names
<1>1. /\ CallTypeOK /\ SharedTypeOK /\ SharedTypeOK' /\ Errand
      /\ \A t \in Struct : References(t)
  BY DEF TypeOK, MemoryTypeOK, Safe
<1>2. /\ \A t \in Struct :
           Live(t)' <=> /\ Live(t)
                        /\ t = s => /\ pc[p] # "push"
                                    /\ pc[p] = "room" => pool_size < MaxPool
  BY DestroyPool
<1>3. ASSUME NEW step, Goto(p, step), pc[p] \in Destroying, step \in Destroying,
             references' = references, pc[p] # "push",
             pc[p] = "room" => pool_size < MaxPool
      PROVE  Errand' /\ \A t \in Struct : References(t)'
  <2>1. \A K \in {Destroying, {"take", "take_store"}, FreshSteps, {"lookup", "notify"},
                  {"pthread_create"}} : pc[p] \in K <=> step \in K
    BY <1>3 DEF Destroying, FreshSteps
  <2>2. \A t \in Struct : Same(t)
    BY <1>1, <1>3, <2>1, MoveSame
  <2>3. Errand'
    BY <1>1, <1>3, ErrandMove
  <2> QED BY <1>1, <1>2, <1>3, <2>2, <2>3, SameReferences
<1>4. CASE Destroy(p) \/ Drop(p) \/ Closed(p) \/ ClosedLoad(p) \/ ClosedStore(p) \/ Link(p)
  <2>1. \E step \in Destroying : Goto(p, step)
    BY <1>4 DEF Destroy, Drop, Closed, ClosedLoad, ClosedStore, Link, Load, Destroying
  <2>2. pc[p] \in Destroying \ {"push", "room"} /\ references' = references
    BY <1>4 DEF Destroy, Drop, Closed, ClosedLoad, ClosedStore, Link, Load, Destroying, At,
                shared
  <2> QED BY <1>3, <2>1, <2>2
<1>5. CASE DropStore(p)
  <2>1. pc[p] = "drop_store" /\ Return(p) /\ pc[p] \in Destroying
    BY <1>5 DEF DropStore, At, Destroying
  <2>2. /\ \A t \in Struct : t # s => Same(t)
        /\ ~Fresh(s)' /\ Due(s)' = Due(s) /\ Holders(s)' = Holders(s) - 1
        /\ Errand'
    BY <2>1, ReturnSame
  <2>3. /\ reg[p] = references[s] /\ references[s] >= 2
        /\ references[s] \in Nat /\ references[s] + Due(s) = Holders(s) /\ Live(s)
    BY <2>1, Holding DEF Safe, Section
  <2>4. \A t \in Struct : references'[t] = IF t = s THEN references[s] - 1 ELSE references[t]
    BY <1>1, <1>5, <2>3 DEF DropStore, Dec, SharedTypeOK
  <2>5. \A t \in Struct : Live(t)' <=> Live(t)
    BY <1>2, <2>1
  <2>6. Due(s) \in 0 .. 1 /\ Holders(s) \in 0 .. 5
    BY OwesType
  <2>7. References(s)'
    BY <2>2, <2>3, <2>4, <2>5, <2>6 DEF References, Exact
  <2> QED BY <1>1, <2>2, <2>4, <2>5, <2>7, SameReferences
<1>6. CASE Room(p)
  <2>1. pc[p] = "room" /\ pc[p] \in Destroying /\ references' = references
    BY <1>6 DEF Room, At, Destroying
  <2>2. CASE pool_size < MaxPool
    <3>1. Goto(p, "link")
      <4>1. ~(pool_size >= MaxPool)
        BY <1>1, <2>2, MemoryAssumption DEF SharedTypeOK, Unsigned
      <4> QED BY <1>6, <4>1 DEF Room
    <3> QED BY <1>3, <2>1, <2>2, <3>1 DEF Destroying
  <2>3. CASE ~(pool_size < MaxPool)
    <3>1. Return(p)
      BY <1>6, <2>3 DEF Room
    <3>2. /\ \A t \in Struct : t # s => Same(t)
          /\ ~Fresh(s)' /\ Holders(s)' = Holders(s) - 1
          /\ Errand'
      BY <2>1, <3>1, ReturnSame
    <3>3. Holders(s) = 1
      BY <2>1, LastHolder DEF Safe, Section, LastCall
    <3>4. \A t \in Struct : Live(t)' <=> Live(t) /\ t # s
      BY <1>2, <2>1, <2>3
    <3>5. References(s)'
      BY <3>2, <3>3, <3>4 DEF References, Exact, Unused
    <3> QED BY <1>1, <2>1, <3>2, <3>4, <3>5, SameReferences
  <2> QED BY <2>2, <2>3
<1>7. CASE Push(p)
  <2>1. pc[p] = "push" /\ Goto(p, "grow") /\ references' = references
    BY <1>7 DEF Push, At
  <2>2. /\ \A t \in Struct : t # s => Same(t)
        /\ Holders(s)' = 0 /\ ~Fresh(s)'
    BY <2>1, PushSame
  <2>3. \A t \in Struct : Live(t)' <=> Live(t) /\ t # s
    BY <1>2, <2>1
  <2>4. References(s)'
    BY <2>2, <2>3 DEF References, Exact, Unused
  <2>5. p = Main => then = "idle"
    BY <2>1, LastHolder DEF Safe, Section, LastCall, Destroying
  <2>6. Errand'
    BY <1>1, <2>1, <2>5, ErrandMove DEF Taking
  <2> QED BY <1>1, <2>1, <2>2, <2>3, <2>4, <2>6, SameReferences
<1>8. CASE Grow(p)
  <2>1. pc[p] = "grow" /\ Goto(p, "grow_store") /\ references' = references
    BY <1>8 DEF Grow, At, Load, shared
  <2>2. \A K \in {Destroying, {"take", "take_store"}, FreshSteps, {"lookup", "notify"},
                  {"pthread_create"}} : pc[p] \in K <=> "grow_store" \in K
    BY <2>1 DEF Destroying, FreshSteps
  <2>3. \A t \in Struct : Same(t)
    BY <1>1, <2>1, <2>2, MoveSame
  <2>4. p = Main => then = "idle"
    BY <1>1, <2>1 DEF Errand, Destroying
  <2>5. Errand'
    BY <1>1, <2>1, <2>4, ErrandMove DEF Taking
  <2> QED BY <1>1, <1>2, <2>1, <2>3, <2>5, SameReferences
<1>9. CASE GrowStore(p)
  <2>1. pc[p] = "grow_store" /\ Return(p) /\ references' = references
    BY <1>9 DEF GrowStore, At
  <2>2. Errand' /\ \A t \in Struct : Same(t)
    BY <2>1, GrownSame
  <2> QED BY <1>1, <1>2, <2>1, <2>2, SameReferences
<1> QED BY <1>4, <1>5, <1>6, <1>7, <1>8, <1>9 DEF DestroyStep
-----------------------------------------------------------------------------
(* The sections and the metric, in socks5_destroy *)

\* Another thread keeps what it knows.
LEMMA DestroyOthers ==
    ASSUME TypeOK, Safe, NEW p \in Thread, NEW s \in Struct, Subject(p) = s,
           DestroyStep(p), NEW q \in Thread, q # p
    PROVE  Section(q)'
<1> USE Names DEF shared, registers
<1>1. CallTypeOK /\ SharedTypeOK /\ ~Overlap /\ Section(q) /\ Section(p)
  BY DEF TypeOK, MemoryTypeOK, Safe
<1>2. pc'[q] = pc[q]
  BY <1>1, DestroyMoves
<1>3. Subject(q)' = Subject(q)
  <2>1. CASE q = Main
    <3>1. cur' = cur
      BY <2>1 DEF DestroyStep, Destroy, Drop, DropStore, Closed, ClosedLoad, ClosedStore,
         Room, Link, Push, Grow, GrowStore, Load, Goto, Return
    <3> QED BY <2>1, <3>1 DEF Subject
  <2> QED BY <2>1 DEF Subject
<1>4. reg'[q] = reg[q]
  BY <1>1 DEF SharedTypeOK, DestroyStep, Destroy, Drop, DropStore, Closed, ClosedLoad,
     ClosedStore, Room, Link, Push, Grow, GrowStore, Load, Used
<1>5. /\ references' # references => pc[p] = "drop_store"
      /\ \A t \in Struct : t # s => references'[t] = references[t]
      /\ concurrent' # concurrent => InMetric(p)
      /\ <<pool_size, pool, next>>' # <<pool_size, pool, next>> => InPool(p)
  BY <1>1 DEF SharedTypeOK, InMetric, InPool, At, DestroyStep, Destroy, Drop, DropStore,
     Closed, ClosedLoad, ClosedStore, Room, Link, Push, Grow, GrowStore, Load
<1>6. pc[q] \in {"drop", "drop_store", "take_store", "try_store"} \cup LastCall =>
        references'[Subject(q)] = references[Subject(q)]
  <2> SUFFICES ASSUME references' # references,
                      pc[q] \in {"drop", "drop_store", "take_store", "try_store"} \cup LastCall
               PROVE  references'[Subject(q)] = references[Subject(q)]
    OBVIOUS
  <2>1. pc[p] = "drop_store" /\ references[s] >= 2
    BY <1>1, <1>5 DEF Section
  <2>2. InReferences(p)
    BY <2>1 DEF InReferences
  <2>3. pc[q] \in LastCall => Subject(q) # s
    BY <1>1, <2>1 DEF Section
  <2>4. pc[q] \notin LastCall => Subject(q) # s
    BY <1>1, <2>2, Alone DEF InReferences
  <2>5. Subject(q) \in Struct
    BY <1>1, Names DEF Subject, Thread, CallTypeOK, LastCall
  <2> QED BY <1>5, <2>3, <2>4, <2>5
<1>7. pc[q] \in {"closed_store", "opened_store"} => concurrent' = concurrent
  BY <1>1, <1>5, Alone DEF InMetric
<1>8. pc[q] \in {"link", "push", "grow_store", "shrink_store"} =>
        pool_size' = pool_size /\ pool' = pool /\ next' = next
  BY <1>1, <1>5, Alone DEF InPool
<1> QED BY <1>1, <1>2, <1>3, <1>4, <1>6, <1>7, <1>8 DEF Section, LastCall

LEMMA DestroySections ==
    ASSUME TypeOK, TypeOK', Safe, NEW p \in Thread, NEW s \in Struct,
           Subject(p) = s, DestroyStep(p)
    PROVE  Unlinking' /\ \A q \in Thread : Section(q)'
<1> USE Names DEF shared, registers
<1>1. CallTypeOK /\ SharedTypeOK /\ ~Overlap /\ Section(p) /\ Unlinking
  BY DEF TypeOK, MemoryTypeOK, Safe
<1>2. Section(p)'
  <2>1. CASE Return(p) /\ pc[p] \notin {"push", "grow"}
    BY <1>1, <2>1, ReturnMoves DEF Section, LastCall
  <2>2. CASE ~(Return(p) /\ pc[p] \notin {"push", "grow"})
    <3>1. PICK step : Goto(p, step)
      BY <2>2 DEF DestroyStep, Destroy, Drop, DropStore, Closed, ClosedLoad, ClosedStore,
         Room, Link, Push, Grow, GrowStore, At, Load
    <3>2. pc'[p] = step /\ Subject(p)' = s
      BY <1>1, <3>1 DEF Goto, CallTypeOK, Subject
    <3>3. CASE Destroy(p)
      <4>1. references[s] >= 1 /\ references[s] \in Nat
        BY <3>3, Holding DEF Destroy, At, Destroying
      <4>2. references' = references /\ pc'[p] = IF references[s] = 1 THEN "closed" ELSE "drop"
        BY <1>1, <3>3 DEF Destroy, Goto, CallTypeOK
      <4> QED BY <3>2, <4>1, <4>2 DEF Section, LastCall
    <3>4. CASE Drop(p) \/ ClosedLoad(p) \/ Grow(p)
      BY <1>1, <3>2, <3>4 DEF Drop, ClosedLoad, Grow, Load, At, Goto, Section, LastCall,
         CallTypeOK, SharedTypeOK
    <3>5. CASE Closed(p) \/ ClosedStore(p)
      BY <1>1, <3>2, <3>5 DEF Closed, ClosedStore, At, Goto, Section, LastCall, CallTypeOK
    <3>6. CASE Room(p) /\ Goto(p, "link")
      <4>1. pool_size < MaxPool \/ Return(p)
        BY <3>6 DEF Room
      <4>2. ~Return(p)
        BY <2>2, <3>6 DEF Room, At
      <4> QED BY <1>1, <3>2, <3>6, <4>1, <4>2 DEF Room, At, Goto, Section, LastCall, CallTypeOK
    <3>7. CASE Link(p)
      BY <1>1, <3>2, <3>7 DEF Link, At, Goto, Section, LastCall, CallTypeOK, SharedTypeOK
    <3>8. CASE Push(p)
      BY <1>1, <3>2, <3>8 DEF Push, At, Goto, Section, LastCall, CallTypeOK
    <3> QED BY <2>2, <3>3, <3>4, <3>5, <3>6, <3>7, <3>8
            DEF DestroyStep, DropStore, GrowStore, Room, At
  <2> QED BY <2>1, <2>2
<1>3. Unlinking'
  <2>1. CASE p = Main
    <3>1. pc'[Main] \notin {"unlink", "unlink_store"}
      <4>1. CASE Return(p)
        BY <1>1, <2>1, <4>1, ReturnMoves
      <4>2. CASE ~Return(p)
        BY <1>1, <2>1, <4>2 DEF DestroyStep, Destroy, Drop, DropStore, Closed, ClosedLoad,
           ClosedStore, Room, Link, Push, Grow, GrowStore, At, Load, Goto, CallTypeOK
      <4> QED BY <4>1, <4>2
    <3> QED BY <3>1 DEF Unlinking
  <2>2. CASE p # Main
    <3>1. pc'[Main] = pc[Main]
      BY <1>1, <2>2, DestroyMoves
    <3>2. /\ cur' = cur /\ top' = top
          /\ <<pool, next>>' # <<pool, next>> => InPool(p)
      BY <2>2 DEF InPool, At, DestroyStep, Destroy, Drop, DropStore, Closed, ClosedLoad,
         ClosedStore, Room, Link, Push, Grow, GrowStore, Load, Used, Return, Goto
    <3>3. pc[Main] \in {"unlink", "unlink_store"} => pool' = pool /\ next' = next
      BY <1>1, <2>2, <3>2, Alone DEF InPool
    <3> QED BY <1>1, <3>1, <3>2, <3>3 DEF Unlinking
  <2> QED BY <2>1, <2>2
<1> QED BY <1>2, <1>3, DestroyOthers

LEMMA MetricKept ==
    ASSUME MetricIsCount, concurrent' = concurrent,
           \A t \in Struct : Counted(t)' <=> Counted(t)
    PROVE  MetricIsCount'
<1>1. {t \in Struct : Counted(t)}' = {t \in Struct : Counted(t)}
  OBVIOUS
<1> QED BY <1>1 DEF MetricIsCount

LEMMA CountedFinite ==
    /\ IsFiniteSet({t \in Struct : Counted(t)})
    /\ Cardinality({t \in Struct : Counted(t)}) \in Nat
    /\ Cardinality({t \in Struct : Counted(t)}) <= Cardinality(Struct)
    /\ Cardinality(Struct) \in Nat
<1>1. {t \in Struct : Counted(t)} \subseteq Struct /\ IsFiniteSet(Struct)
  BY MemoryAssumption
<1> QED BY <1>1, FS_Subset, FS_CardinalityType

\* Until it is discounted, a struct counts.
LEMMA StillCounted ==
    ASSUME TypeOK, Safe, NEW p \in Thread, NEW s \in Struct, Subject(p) = s,
           pc[p] \in {"closed", "closed_load", "closed_store"}
    PROVE  Counted(s)
<1>1. references[s] = 1 /\ pc[p] \in Destroying
  BY DEF Safe, Section, LastCall, Destroying
<1>2. Live(s) /\ ~Fresh(s)
  BY <1>1, Holding
<1>3. /\ p = Main => ~Resolver(s)
      /\ p # Main => (cur = s => pc[Main] \notin Destroying)
  BY <1>1, LastHolder
<1>4. ASSUME NEW q \in Thread, Subject(q) = s, pc[q] \in {"room", "link", "push"}
      PROVE  FALSE
  <2>1. pc[q] \in Destroying /\ q # p
    BY <1>4 DEF Destroying
  <2>2. CASE q = Main
    BY <1>3, <1>4, <2>1, <2>2 DEF Subject
  <2>3. CASE q # Main
    <3>1. q = s
      BY <1>4, <2>3 DEF Subject
    <3>2. p = Main
      BY <2>1, <3>1 DEF Subject
    <3> QED BY <1>3, <2>1, <3>1, <3>2 DEF Resolver
  <2> QED BY <2>2, <2>3
<1> QED BY <1>2, <1>4 DEF Counted, Fresh

LEMMA DestroyMetric ==
    ASSUME TypeOK, TypeOK', Safe, NEW p \in Thread, NEW s \in Struct,
           Subject(p) = s, DestroyStep(p)
    PROVE  MetricIsCount'
<1> USE Names DEF shared, registers
<1> DEFINE Late == {"room", "link", "push"}
           Early == {"shrink", "shrink_store", "opened", "opened_store"}
<1>1. /\ CallTypeOK /\ SharedTypeOK /\ SharedTypeOK' /\ MetricIsCount /\ Section(p)
      /\ concurrent \in Nat
  BY UnsignedType DEF TypeOK, MemoryTypeOK, SharedTypeOK, Safe
<1>2. \A t \in Struct :
           Live(t)' <=> /\ Live(t)
                        /\ t = s => /\ pc[p] # "push"
                                    /\ pc[p] = "room" => pool_size < MaxPool
  BY DestroyPool
<1>3. \A q \in Thread : q # p => pc'[q] = pc[q] /\ Subject(q)' = Subject(q)
  <2>1. p # Main => cur' = cur
    BY DEF DestroyStep, Destroy, Drop, DropStore, Closed, ClosedLoad, ClosedStore,
       Room, Link, Push, Grow, GrowStore, Load, Goto, Return
  <2> QED BY <1>1, <2>1, DestroyMoves DEF Subject
<1>4. Subject(p)' \in {s, NoStruct} /\ (Subject(p)' = s \/ pc'[p] = "idle")
  BY <1>1 DEF DestroyStep, Destroy, Drop, DropStore, Closed, ClosedLoad, ClosedStore,
     Room, Link, Push, Grow, GrowStore, Load, Goto, Return, Calls, Subject, CallTypeOK
<1>5. /\ p = Main => pc[Main] \notin Early /\ pc'[Main] \notin Early
      /\ p # Main => pc'[Main] = pc[Main] /\ cur' = cur
  <2>1. pc[p] \in DestroySteps
    BY <1>1, DestroyMoves
  <2>2. pc'[p] \notin Early
    <3>1. CASE Return(p)
      BY <1>1, <3>1, ReturnMoves
    <3>2. CASE ~Return(p)
      BY <1>1, <3>2 DEF DestroyStep, Destroy, Drop, DropStore, Closed, ClosedLoad,
         ClosedStore, Room, Link, Push, Grow, GrowStore, At, Load, Goto, CallTypeOK
    <3> QED BY <3>1, <3>2
  <2> QED BY <1>3, <2>1, <2>2 DEF DestroySteps, Subject
<1>6. \A t \in Struct : t # s => (Counted(t)' <=> Counted(t))
  <2> SUFFICES ASSUME NEW t \in Struct, t # s PROVE Counted(t)' <=> Counted(t)
    OBVIOUS
  <2>1. Live(t)' <=> Live(t)
    BY <1>2
  <2>2. (cur = t /\ pc[Main] \in Early)' <=> (cur = t /\ pc[Main] \in Early)
    BY <1>5
  <2>3. \A q \in Thread : (Subject(q) = t => pc[q] \notin Late)' <=>
                          (Subject(q) = t => pc[q] \notin Late)
    BY <1>3, <1>4
  <2>4. (\A q \in Thread : Subject(q) = t => pc[q] \notin Late)' <=>
        (\A q \in Thread : Subject(q) = t => pc[q] \notin Late)
    BY <2>3
  <2> QED BY <2>1, <2>2, <2>4 DEF Counted
<1>7. ASSUME Live(s)' <=> Live(s), pc'[p] \in Late <=> pc[p] \in Late
      PROVE  Counted(s)' <=> Counted(s)
  <2>1. (cur = s /\ pc[Main] \in Early)' <=> (cur = s /\ pc[Main] \in Early)
    BY <1>5
  <2>2. \A q \in Thread : (Subject(q) = s => pc[q] \notin Late)' <=>
                          (Subject(q) = s => pc[q] \notin Late)
    BY <1>3, <1>4, <1>7
  <2>3. (\A q \in Thread : Subject(q) = s => pc[q] \notin Late)' <=>
        (\A q \in Thread : Subject(q) = s => pc[q] \notin Late)
    BY <2>2
  <2> QED BY <1>7, <2>1, <2>3 DEF Counted
<1>8. CASE ClosedStore(p)
  <2>1. pc[p] = "closed_store" /\ pc'[p] = "room" /\ Subject(p)' = s
    BY <1>1, <1>8 DEF ClosedStore, At, Goto, CallTypeOK, Subject
  <2>2. Counted(s) /\ ~Counted(s)'
    <3>1. ~Counted(s)'
      BY <2>1 DEF Counted
    <3> QED BY <2>1, <3>1, StillCounted
  <2> DEFINE C == {t \in Struct : Counted(t)}
  <2>3. C' = C \ {s} /\ s \in C
    BY <1>6, <2>2
  <2>4. IsFiniteSet(C) /\ concurrent = Cardinality(C)
    BY <1>1, CountedFinite DEF MetricIsCount
  <2> HIDE DEF C
  <2>5. Cardinality(C') = Cardinality(C) - 1 /\ Cardinality(C) \in Nat /\ Cardinality(C') \in Nat
    BY <2>3, <2>4, FS_RemoveElement, FS_CardinalityType
  <2>6. concurrent' = concurrent - 1
    BY <1>1, <1>8, <2>1, <2>4, <2>5 DEF ClosedStore, Section, Dec
  <2>7. concurrent' = Cardinality(C')
    BY <2>4, <2>5, <2>6
  <2> QED BY <2>7 DEF MetricIsCount, C
<1>9. CASE ~ClosedStore(p)
  <2>1. concurrent' = concurrent
    BY <1>9 DEF DestroyStep, Destroy, Drop, DropStore, Closed, ClosedLoad,
       Room, Link, Push, Grow, GrowStore, Load
  <2>2. Counted(s)' <=> Counted(s)
    <3>1. CASE Push(p) \/ (Room(p) /\ ~(pool_size < MaxPool))
      <4>1. pc[p] \in Late /\ ~Live(s)'
        BY <1>2, <3>1 DEF Push, Room, At
      <4> QED BY <4>1 DEF Counted
    <3>2. CASE Room(p) /\ pool_size < MaxPool
      <4>1. Goto(p, "link")
        <5>1. ~(pool_size >= MaxPool)
          BY <1>1, <3>2, MemoryAssumption DEF SharedTypeOK, Unsigned
        <5> QED BY <3>2, <5>1 DEF Room
      <4>2. pc[p] = "room" /\ pc'[p] = "link"
        BY <1>1, <3>2, <4>1 DEF Room, At, Goto, CallTypeOK
      <4> QED BY <1>2, <1>7, <3>2, <4>2
    <3>3. CASE Link(p)
      <4>1. pc[p] = "link" /\ pc'[p] = "push"
        BY <1>1, <3>3 DEF Link, At, Goto, CallTypeOK
      <4> QED BY <1>2, <1>7, <4>1
    <3>4. CASE Closed(p)
      <4>1. Counted(s)
        BY <3>4, StillCounted DEF Closed, At
      <4>2. concurrent > 0
        <5> DEFINE C == {t \in Struct : Counted(t)}
        <5>1. s \in C /\ IsFiniteSet(C) /\ concurrent = Cardinality(C)
          BY <1>1, <4>1, CountedFinite DEF MetricIsCount
        <5> HIDE DEF C
        <5>2. Cardinality(C) # 0
          BY <5>1, FS_EmptySet
        <5> QED BY <1>1, <5>1, <5>2
      <4>3. pc[p] = "closed" /\ pc'[p] = "closed_load"
        BY <1>1, <3>4, <4>2 DEF Closed, At, Goto, CallTypeOK
      <4> QED BY <1>2, <1>7, <4>3
    <3>5. CASE Destroy(p) \/ Drop(p) \/ ClosedLoad(p) \/ Grow(p)
      <4>1. pc[p] \notin Late \cup {"push", "room"} /\ pc'[p] \notin Late
        BY <1>1, <3>5 DEF Destroy, Drop, ClosedLoad, Grow, Load, At, Goto, CallTypeOK
      <4> QED BY <1>2, <1>7, <4>1
    <3>6. CASE DropStore(p) \/ GrowStore(p)
      <4>1. pc[p] \notin Late \cup {"push", "room"} /\ pc'[p] \notin Late
        BY <1>1, <3>6, ReturnMoves DEF DropStore, GrowStore, At
      <4> QED BY <1>2, <1>7, <4>1
    <3> QED BY <1>9, <3>1, <3>2, <3>3, <3>4, <3>5, <3>6 DEF DestroyStep
  <2>3. \A t \in Struct : Counted(t)' <=> Counted(t)
    BY <1>6, <2>2
  <2> QED BY <1>1, <2>1, <2>3, MetricKept
<1> QED BY <1>8, <1>9
-----------------------------------------------------------------------------
(* Main's calls: socks5_new ... *)

Late == {"room", "link", "push"}
Early == {"shrink", "shrink_store", "opened", "opened_store"}

LEMMA ConnectionsKept ==
    ASSUME ConnectionTypeOK, Connections, UNCHANGED <<items, jobs, stm, links, resolver>>,
           \A s \in Struct : /\ pc'[s] \in {"lookup", "notify"} <=> pc[s] \in {"lookup", "notify"}
                             /\ Resolver(s)' => Resolver(s)
    PROVE  Connections'
<1> USE DEF items, links, resolver
<1>1. \A s \in Struct : ClientOpen(s)' <=> ClientOpen(s)
  BY DEF ClientOpen
<1>2. ASSUME NEW f \in FD PROVE Owned(f)' /\ Handled(f)'
  BY DEF Connections, Owned, Handled, ClientOpen, OriginOpen
<1>3. ASSUME NEW f \in jobs PROVE JobOwned(f)'
  BY DEF Connections, JobOwned
<1>4. ASSUME NEW s \in Struct PROVE Asking(s)' /\ Pending(s)' /\ Stage(s)'
  BY <1>1 DEF Connections, Asking, Pending, Stage
<1> QED BY <1>2, <1>3, <1>4 DEF Connections

\* A step of main's does not disturb what a resolver thread knows.
LEMMA MainOthers ==
    ASSUME ~Overlap, NEW q \in Struct, Section(q), pc'[q] = pc[q], reg'[q] = reg[q],
           pc[q] \in {"drop", "drop_store"} \cup LastCall => references'[q] = references[q],
           concurrent' # concurrent => InMetric(Main),
           <<pool_size, pool, next>>' # <<pool_size, pool, next>> => InPool(Main),
           pc[q] \in Steps
    PROVE  Section(q)'
<1>1. q # Main /\ q \in Thread /\ Main \in Thread
  BY Names DEF Thread
<1>2. Subject(q) = q /\ Subject(q)' = q
  BY <1>1 DEF Subject
<1>3. pc[q] \notin {"take_store", "try_store", "opened_store", "shrink_store"}
  BY DEF Steps, DestroySteps
<1>4. pc[q] = "closed_store" => concurrent' = concurrent
  BY <1>1, Alone DEF InMetric
<1>5. pc[q] \in {"link", "push", "grow_store"} =>
        pool_size' = pool_size /\ pool' = pool /\ next' = next
  BY <1>1, Alone DEF InPool
<1> QED BY <1>2, <1>3, <1>4, <1>5 DEF Section, LastCall

\* ... nor which structs count.
LEMMA MainCounted ==
    ASSUME NEW t \in Struct, \A q \in Struct : pc'[q] = pc[q],
           pc[Main] \notin Late, pc'[Main] \notin Late, Live(t)' <=> Live(t),
           Live(t) => ((cur = t /\ pc[Main] \in Early)' <=> (cur = t /\ pc[Main] \in Early))
    PROVE  Counted(t)' <=> Counted(t)
<1>1. \A q \in Thread : (Subject(q) = t => pc[q] \notin Late)' <=>
                        (Subject(q) = t => pc[q] \notin Late)
  BY Names DEF Subject, Thread
<1>2. (\A q \in Thread : Subject(q) = t => pc[q] \notin Late)' <=>
      (\A q \in Thread : Subject(q) = t => pc[q] \notin Late)
  BY <1>1
<1> QED BY <1>2 DEF Counted, Late, Early

\* Main looks for a struct: the head of the pool, a new block, or none.
LEMMA NewSafe ==
    ASSUME TypeOK, TypeOK', Safe, New, UNCHANGED <<items, stm, links>>
    PROVE  /\ Errand' /\ Unlinking' /\ PoolIsList' /\ MetricIsCount'
           /\ \A s \in Struct : References(s)'
           /\ \A p \in Thread : Section(p)'
<1> USE Names DEF shared, registers, items, links
<1>1. /\ CallTypeOK /\ SharedTypeOK /\ ~Overlap /\ Errand /\ PoolIsList /\ MetricIsCount
      /\ \A s \in Struct : References(s)
      /\ \A p \in Thread : Section(p)
  BY DEF TypeOK, MemoryTypeOK, Safe
<1>2. cur = NoStruct /\ then = "idle" /\ pc[Main] = "new"
  BY <1>1 DEF New, At, CallTypeOK
<1>3. PICK step \in {"opened", "idle", "unlink"} : pc' = [pc EXCEPT ![Main] = step]
  BY DEF New
<1>4. /\ pc'[Main] = step /\ then' = "idle"
      /\ \A s \in Struct : pc'[s] = pc[s]
      /\ UNCHANGED <<references, next, pool, pool_size, concurrent, reg, top>>
  BY <1>1, <1>2, <1>3 DEF New, CallTypeOK, Thread
<1>5. \/ /\ step = "opened" /\ cur' \in Struct \ allocated
         /\ allocated' = allocated \cup {cur'}
      \/ step = "idle" /\ cur' = NoStruct /\ allocated' = allocated
      \/ step = "unlink" /\ cur' = pool /\ pool \in Struct /\ allocated' = allocated
  BY <1>1, <1>2, <1>3, <1>4 DEF New, SharedTypeOK
<1>6. Pooled' = Pooled /\ Pooled \subseteq allocated /\ ListEnds'
  BY <1>1, <1>4 DEF PoolIsList, ListEnds, Pooled
<1>7. \A t \in Struct :
        /\ t = cur' => ~Live(t)
        /\ Live(t)' <=> (Live(t) \/ (t = cur' /\ step = "opened"))
  <2>1. pool \in Struct => pool \in Pooled
    BY ReachHead DEF Pooled
  <2> QED BY <1>5, <1>6, <2>1 DEF Live
<1>8. \A t \in Struct :
        /\ ClientOpen(t)' <=> ClientOpen(t)
        /\ OriginOpen(t)' <=> OriginOpen(t)
        /\ Resolver(t)' <=> Resolver(t)
        /\ Owes(t)' = 0 /\ Owes(t) = 0 /\ Due(t)' = 0 /\ Due(t) = 0
        /\ ~Fresh(t)
        /\ Fresh(t)' <=> (t = cur' /\ step = "opened")
  <2>1. \A t \in Struct : /\ ClientOpen(t)' <=> ClientOpen(t)
                          /\ OriginOpen(t)' <=> OriginOpen(t)
                          /\ Resolver(t)' <=> Resolver(t)
    BY <1>4 DEF ClientOpen, OriginOpen, Resolver
  <2>2. \A t \in Struct : Owes(t)' = 0 /\ Owes(t) = 0 /\ Due(t)' = 0 /\ Due(t) = 0
    BY <1>2, <1>4 DEF Owes, Due, Count, Destroying
  <2>3. \A t \in Struct : ~Fresh(t) /\ (Fresh(t)' <=> (t = cur' /\ step = "opened"))
    BY <1>2, <1>4 DEF Fresh
  <2> QED BY <2>1, <2>2, <2>3
<1>9. \A t \in Struct : References(t)'
  <2> SUFFICES ASSUME NEW t \in Struct PROVE References(t)'
    OBVIOUS
  <2>1. CASE t = cur' /\ step = "opened"
    <3>1. Holders(t) = 0
      BY <1>1, <1>7, <2>1 DEF References, Unused
    <3>2. ~ClientOpen(t) /\ ~OriginOpen(t) /\ ~Resolver(t)
      BY <3>1, UnusedFlags
    <3> QED BY <1>7, <1>8, <2>1, <3>2 DEF References, Exact
  <2>2. CASE ~(t = cur' /\ step = "opened")
    BY <1>1, <1>4, <1>7, <1>8, <2>2, SameReferences DEF Same
  <2> QED BY <2>1, <2>2
<1>10. Errand'
  BY <1>3, <1>4 DEF Errand, Taking
<1>11. Unlinking'
  BY <1>4, <1>5 DEF Unlinking
<1>12. \A p \in Thread : Section(p)'
  <2>1. Section(Main)'
    BY <1>4 DEF Section, LastCall
  <2>2. ASSUME NEW q \in Struct PROVE Section(q)'
    BY <1>1, <1>4, MainOthers DEF CallTypeOK, Thread
  <2> QED BY <2>1, <2>2 DEF Thread
<1>13. PoolIsList'
  <2>1. SizeIsLength'
    BY <1>1, <1>2, <1>4, <1>6, SizeKept DEF PoolIsList, Growing, Shrinking, Thread
  <2> QED BY <1>1, <1>5, <1>6, <2>1 DEF PoolIsList
<1>14. MetricIsCount'
  <2>1. ASSUME NEW t \in Struct PROVE Counted(t)' <=> Counted(t)
    <3>1. CASE t = cur' /\ step = "opened"
      BY <1>4, <1>7, <3>1 DEF Counted
    <3>2. CASE ~(t = cur' /\ step = "opened")
      BY <1>2, <1>4, <1>7, <3>2, MainCounted DEF Late, Early
    <3> QED BY <3>1, <3>2
  <2> QED BY <1>1, <1>4, <2>1, MetricKept
<1> QED BY <1>9, <1>10, <1>11, <1>12, <1>13, <1>14

\* The invariant, but for Overlap and Connections.
Kept ==
    /\ Errand /\ Unlinking /\ PoolIsList /\ MetricIsCount
    /\ \A s \in Struct : References(s)
    /\ \A p \in Thread : Section(p)

\* pool = pool->next, in its two accesses.
LEMMA UnlinkSafe ==
    ASSUME TypeOK, TypeOK', Safe, Unlink \/ UnlinkStore, UNCHANGED <<items, stm, links>>
    PROVE  Kept'
<1> USE Names DEF shared, registers, items, links
<1>1. /\ CallTypeOK /\ SharedTypeOK /\ SharedTypeOK' /\ ~Overlap /\ Errand /\ PoolIsList
      /\ MetricIsCount /\ Unlinking
      /\ \A s \in Struct : References(s)
      /\ \A p \in Thread : Section(p)
      /\ pc[Main] \in {"unlink", "unlink_store"}
  BY DEF TypeOK, MemoryTypeOK, Safe, Unlink, UnlinkStore, At
<1>2. cur \in Struct /\ cur = pool /\ then = "idle" /\ cur \in Pooled
  <2>1. cur \in Struct /\ cur = pool /\ then = "idle"
    BY <1>1 DEF CallTypeOK, Unlinking, Errand, Destroying
  <2> QED BY <2>1, ReachHead DEF Pooled
<1>3. CASE Unlink
  <2>1. /\ Goto(Main, "unlink_store") /\ pc[Main] = "unlink" /\ top' = next[pool]
        /\ UNCHANGED <<allocated, references, next, pool, pool_size, concurrent, reg>>
    BY <1>3 DEF Unlink, At
  <2>2. /\ pc'[Main] = "unlink_store" /\ cur' = cur
        /\ \A s \in Struct : pc'[s] = pc[s]
    BY <1>1, <2>1 DEF Goto, CallTypeOK, Thread
  <2>3. Pooled' = Pooled /\ ListEnds'
    BY <1>1, <2>1 DEF PoolIsList, ListEnds, Pooled
  <2>4. \A t \in Struct : Live(t)' <=> Live(t)
    BY <2>1, <2>3 DEF Live
  <2>5. \A t \in Struct : Same(t)
    BY <1>1, <2>1, MoveSame DEF Destroying, FreshSteps
  <2>6. \A t \in Struct : References(t)'
    BY <1>1, <2>1, <2>4, <2>5, SameReferences
  <2>7. Errand'
    BY <1>1, <1>2, <2>1, ErrandMove DEF Taking
  <2>8. Unlinking'
    BY <1>2, <2>1, <2>2 DEF Unlinking
  <2>9. \A p \in Thread : Section(p)'
    <3>1. Section(Main)'
      BY <2>2 DEF Section, LastCall
    <3>2. ASSUME NEW q \in Struct PROVE Section(q)'
      BY <1>1, <2>1, <2>2, MainOthers DEF CallTypeOK, Thread
    <3> QED BY <3>1, <3>2 DEF Thread
  <2>10. PoolIsList'
    <3>1. SizeIsLength'
      BY <1>1, <2>1, <2>2, <2>3, SizeKept DEF PoolIsList, Growing, Shrinking, Thread
    <3> QED BY <1>1, <2>1, <2>3, <3>1 DEF PoolIsList
  <2>11. MetricIsCount'
    <3>1. \A t \in Struct : Counted(t)' <=> Counted(t)
      BY <2>1, <2>2, <2>4, MainCounted DEF Late, Early
    <3> QED BY <1>1, <2>1, <3>1, MetricKept
  <2> QED BY <2>6, <2>7, <2>8, <2>9, <2>10, <2>11 DEF Kept
<1>4. CASE UnlinkStore
  <2>1. /\ Goto(Main, "shrink") /\ pc[Main] = "unlink_store" /\ pool' = top
        /\ next' = [next EXCEPT ![cur] = NoStruct]
        /\ UNCHANGED <<allocated, references, pool_size, concurrent, reg>>
    BY <1>4 DEF UnlinkStore, At
  <2>2. /\ pc'[Main] = "shrink" /\ cur' = cur /\ then' = then
        /\ \A s \in Struct : pc'[s] = pc[s]
    BY <1>1, <2>1 DEF Goto, CallTypeOK, Thread
  <2>3. Pooled' = Pooled \ {cur} /\ ListEnds'
    <3>1. pool \in Struct /\ pool' = next[pool]
      BY <1>1, <1>2, <2>1 DEF Unlinking
    <3>2. \A s \in Struct : s # pool => next'[s] = next[s]
      BY <1>1, <1>2, <2>1 DEF SharedTypeOK
    <3> QED BY <1>1, <1>2, <3>1, <3>2, PoolPop DEF PoolIsList
  <2>4. \A t \in Struct : Live(t)' <=> (Live(t) \/ t = cur)
    BY <1>1, <1>2, <2>1, <2>3 DEF Live, PoolIsList
  <2>5. \A t \in Struct :
          /\ ClientOpen(t)' <=> ClientOpen(t)
          /\ OriginOpen(t)' <=> OriginOpen(t)
          /\ Resolver(t)' <=> Resolver(t)
          /\ Owes(t)' = 0 /\ Owes(t) = 0 /\ Due(t)' = 0 /\ Due(t) = 0
          /\ ~Fresh(t)
          /\ Fresh(t)' <=> t = cur
    <3>1. \A t \in Struct : /\ ClientOpen(t)' <=> ClientOpen(t)
                            /\ OriginOpen(t)' <=> OriginOpen(t)
                            /\ Resolver(t)' <=> Resolver(t)
      BY <2>2 DEF ClientOpen, OriginOpen, Resolver
    <3>2. \A t \in Struct : Owes(t)' = 0 /\ Owes(t) = 0 /\ Due(t)' = 0 /\ Due(t) = 0
      BY <1>2, <2>1, <2>2 DEF Owes, Due, Count, Destroying
    <3>3. \A t \in Struct : ~Fresh(t) /\ (Fresh(t)' <=> t = cur)
      BY <2>1, <2>2 DEF Fresh
    <3> QED BY <3>1, <3>2, <3>3
  <2>6. ASSUME NEW t \in Struct PROVE References(t)'
    <3>1. CASE t = cur
      <4>1. ~Live(t)
        BY <1>2, <3>1 DEF Live
      <4>2. Holders(t) = 0
        BY <1>1, <4>1 DEF References, Unused
      <4>3. ~ClientOpen(t) /\ ~OriginOpen(t) /\ ~Resolver(t)
        BY <4>2, UnusedFlags
      <4> QED BY <2>4, <2>5, <3>1, <4>3 DEF References, Exact
    <3>2. CASE t # cur
      BY <1>1, <2>1, <2>4, <2>5, <3>2, SameReferences DEF Same
    <3> QED BY <3>1, <3>2
  <2>7. Errand'
    BY <1>1, <1>2, <2>1, ErrandMove DEF Taking
  <2>8. Unlinking'
    BY <2>2 DEF Unlinking
  <2>9. \A p \in Thread : Section(p)'
    <3>1. Section(Main)'
      BY <2>2 DEF Section, LastCall
    <3>2. InPool(Main)
      BY <2>1 DEF InPool
    <3>3. ASSUME NEW q \in Struct PROVE Section(q)'
      BY <1>1, <2>1, <2>2, <3>2, MainOthers DEF CallTypeOK, Thread
    <3> QED BY <3>1, <3>3 DEF Thread
  <2>10. PoolIsList'
    <3>1. InPool(Main)
      BY <2>1 DEF InPool
    <3>2. /\ \A q \in Thread : pc[q] \notin Growing /\ pc'[q] \notin Growing
          /\ pc[Main] \notin Shrinking /\ pc'[Main] \in Shrinking
      BY <1>1, <2>1, <2>2, <3>1, Alone DEF InPool, Growing, Shrinking, Thread
    <3>3. Cardinality(Pooled') = Cardinality(Pooled) - 1
      BY <1>2, <2>3, PooledFinite, FS_RemoveElement
    <3>4. pool_size = Cardinality(Pooled)
      BY <1>1, <3>2, PooledFinite DEF PoolIsList, SizeIsLength, Growing, Shrinking, Count,
         SharedTypeOK, Unsigned
    <3>5. SizeIsLength'
      BY <2>1, <3>2, <3>3, <3>4, PooledFinite
         DEF SizeIsLength, Growing, Shrinking, Count
    <3>6. Cardinality(Pooled') <= MaxPool
      BY <1>1, <3>3, PooledFinite, MemoryAssumption DEF PoolIsList
    <3> QED BY <1>1, <2>1, <2>3, <3>5, <3>6 DEF PoolIsList
  <2>11. MetricIsCount'
    <3>1. ASSUME NEW t \in Struct PROVE Counted(t)' <=> Counted(t)
      <4>1. CASE t = cur
        <5>1. ~Live(t)
          BY <1>2, <4>1 DEF Live
        <5> QED BY <2>2, <4>1, <5>1 DEF Counted
      <4>2. CASE t # cur
        BY <2>1, <2>2, <2>4, <4>2, MainCounted DEF Late, Early
      <4> QED BY <4>1, <4>2
    <3> QED BY <1>1, <2>1, <3>1, MetricKept
  <2> QED BY <2>6, <2>7, <2>8, <2>9, <2>10, <2>11 DEF Kept
<1> QED BY <1>3, <1>4

\* pool_size-- and concurrent_connections++.
LEMMA CountersSafe ==
    ASSUME TypeOK, TypeOK', Safe, Shrink \/ ShrinkStore \/ Opened \/ OpenedStore,
           UNCHANGED <<items, stm, links>>
    PROVE  Kept'
<1> USE Names DEF shared, registers, items, links
<1>1. /\ CallTypeOK /\ SharedTypeOK /\ SharedTypeOK' /\ ~Overlap /\ Errand /\ PoolIsList
      /\ MetricIsCount /\ Section(Main)
      /\ \A s \in Struct : References(s)
      /\ \A p \in Thread : Section(p)
      /\ pc[Main] \in {"shrink", "shrink_store", "opened", "opened_store"}
  BY DEF TypeOK, MemoryTypeOK, Safe, Shrink, ShrinkStore, Opened, OpenedStore, At, Thread
<1>2. cur \in Struct /\ then = "idle" /\ Fresh(cur)
  BY <1>1 DEF CallTypeOK, Errand, Destroying, Fresh
<1>3. PICK step \in {"shrink_store", "opened", "opened_store", "register"} :
        /\ Goto(Main, step)
        /\ pc[Main] = "shrink_store" <=> step = "opened"
        /\ pc[Main] = "shrink" <=> step = "shrink_store"
        /\ pc[Main] = "opened" <=> step = "opened_store"
        /\ pc[Main] = "opened_store" <=> step = "register"
  BY DEF Shrink, ShrinkStore, Opened, OpenedStore, At, Load
<1>4. /\ pc'[Main] = step /\ cur' = cur /\ then' = then
      /\ \A s \in Struct : pc'[s] = pc[s]
  BY <1>1, <1>3 DEF Goto, CallTypeOK, Thread
<1>5. /\ UNCHANGED <<allocated, references, next, pool>>
      /\ \A s \in Struct : reg'[s] = reg[s]
      /\ step = "shrink_store" => reg'[Main] = pool_size
      /\ step = "opened_store" => reg'[Main] = concurrent
      /\ pool_size' = IF step = "opened" THEN Dec(reg[Main]) ELSE pool_size
      /\ concurrent' = IF step = "register" THEN Inc(reg[Main]) ELSE concurrent
  BY <1>1, <1>3 DEF Shrink, ShrinkStore, Opened, OpenedStore, At, Load, Used, SharedTypeOK,
     Thread
<1>6. Pooled' = Pooled /\ ListEnds'
  BY <1>1, <1>5 DEF PoolIsList, ListEnds, Pooled
<1>7. \A t \in Struct : Live(t)' <=> Live(t)
  BY <1>5, <1>6 DEF Live
<1>8. \A t \in Struct : Same(t)
  BY <1>1, <1>3, MoveSame DEF Destroying, FreshSteps
<1>9. \A t \in Struct : References(t)'
  BY <1>1, <1>5, <1>7, <1>8, SameReferences
<1>10. Errand'
  BY <1>1, <1>2, <1>3, ErrandMove DEF Taking
<1>11. Unlinking'
  BY <1>4 DEF Unlinking
<1>12. \A p \in Thread : Section(p)'
  <2>1. Section(Main)'
    BY <1>4, <1>5 DEF Section, LastCall
  <2>2. /\ concurrent' # concurrent => InMetric(Main)
        /\ <<pool_size, pool, next>>' # <<pool_size, pool, next>> => InPool(Main)
    BY <1>3, <1>5 DEF InMetric, InPool
  <2>3. ASSUME NEW q \in Struct PROVE Section(q)'
    BY <1>1, <1>4, <1>5, <2>2, MainOthers DEF CallTypeOK, Thread
  <2> QED BY <2>1, <2>3 DEF Thread
<1>13. PoolIsList'
  <2>1. SizeIsLength'
    <3>1. CASE step # "opened"
      BY <1>1, <1>3, <1>4, <1>5, <1>6, <3>1, SizeKept
         DEF PoolIsList, Growing, Shrinking, Thread
    <3>2. CASE step = "opened"
      <4>1. pc[Main] = "shrink_store" /\ InPool(Main)
        BY <1>3, <3>2 DEF InPool
      <4>2. /\ \A q \in Thread : pc[q] \notin Growing /\ pc'[q] \notin Growing
            /\ pc[Main] \in Shrinking /\ pc'[Main] \notin Shrinking
        BY <1>1, <1>4, <3>2, <4>1, Alone DEF InPool, Growing, Shrinking, Thread
      <4>3. pool_size = Cardinality(Pooled) + 1 /\ reg[Main] = pool_size
        BY <1>1, <4>1, <4>2, PooledFinite DEF PoolIsList, SizeIsLength, Growing, Shrinking,
           Count, SharedTypeOK, Unsigned, Section
      <4>4. pool_size' = Cardinality(Pooled)
        BY <1>5, <3>2, <4>3, PooledFinite DEF Dec
      <4> QED BY <1>6, <4>2, <4>4, PooledFinite
              DEF SizeIsLength, Growing, Shrinking, Count
    <3> QED BY <3>1, <3>2
  <2> QED BY <1>1, <1>5, <1>6, <2>1 DEF PoolIsList
<1>14. MetricIsCount'
  <2>1. \A t \in Struct : step # "register" \/ t # cur => (Counted(t)' <=> Counted(t))
    BY <1>1, <1>3, <1>4, <1>7, MainCounted DEF Late, Early
  <2>2. CASE step # "register"
    BY <1>1, <1>5, <2>1, <2>2, MetricKept
  <2>3. CASE step = "register"
    <3> DEFINE C == {t \in Struct : Counted(t)}
    <3>1. ~Counted(cur)
      BY <1>1, <1>3, <2>3 DEF Counted
    <3>2. Counted(cur)'
      <4>1. Live(cur) /\ ~Resolver(cur)
        BY <1>1, <1>2 DEF References, Unused
      <4>2. pc[cur] \notin Late
        BY <4>1 DEF Resolver, Destroying, Late
      <4>3. \A q \in Thread : (Subject(q) = cur => pc[q] \notin Late)'
        BY <1>4, <2>3, <4>2 DEF Subject, Thread, Late
      <4> QED BY <1>2, <1>4, <1>7, <2>3, <4>1, <4>3 DEF Counted, Late
    <3>3. C' = C \cup {cur} /\ cur \notin C
      BY <1>2, <1>4, <2>1, <3>1, <3>2
    <3>4. /\ IsFiniteSet(C) /\ concurrent = Cardinality(C)
          /\ Cardinality(C) \in Nat /\ Cardinality(C) <= Cardinality(Struct)
          /\ Cardinality(Struct) \in Nat /\ IsFiniteSet(Struct) /\ C \subseteq Struct
      BY <1>1, CountedFinite, MemoryAssumption DEF MetricIsCount
    <3>5. C # Struct
      BY <1>2, <3>3
    <3> HIDE DEF C
    <3>6. Cardinality(C') = Cardinality(C) + 1 /\ Cardinality(C) < Cardinality(Struct)
      <4>1. Cardinality(C') = Cardinality(C) + 1
        BY <3>3, <3>4, FS_AddElement
      <4>2. Cardinality(C) # Cardinality(Struct)
        BY <3>4, <3>5, FS_Subset
      <4> QED BY <3>4, <4>1, <4>2
    <3>7. concurrent' = concurrent + 1
      <4>1. reg[Main] = concurrent
        BY <1>1, <1>3, <2>3 DEF Section
      <4> QED BY <1>5, <2>3, <3>4, <3>6, <4>1, MemoryAssumption DEF Inc
    <3> QED BY <3>4, <3>6, <3>7 DEF MetricIsCount, C
  <2> QED BY <2>2, <2>3
<1> QED BY <1>9, <1>10, <1>11, <1>12, <1>13, <1>14 DEF Kept

\* references++.
LEMMA TakeSafe ==
    ASSUME TypeOK, TypeOK', Safe, Take \/ TakeStore, UNCHANGED <<items, stm, links>>
    PROVE  Kept'
<1> USE Names DEF shared, registers, items, links
<1>1. /\ CallTypeOK /\ SharedTypeOK /\ SharedTypeOK' /\ ~Overlap /\ Errand /\ PoolIsList
      /\ MetricIsCount /\ Section(Main)
      /\ \A s \in Struct : References(s)
      /\ \A p \in Thread : Section(p)
      /\ pc[Main] \in Taking
  BY DEF TypeOK, MemoryTypeOK, Safe, Take, TakeStore, At, Thread, Taking
<1>2. /\ cur \in Struct /\ ClientOpen(cur)
      /\ then = "idle" \/ (then = "pthread_create" /\ pc[Main] \in {"take", "take_store"})
  BY <1>1 DEF CallTypeOK, Errand, Taking, Destroying
<1>3. Live(cur) /\ ~Fresh(cur)
  <2>1. Holders(cur) # 0
    BY <1>2, UnusedFlags
  <2> QED BY <1>1, <1>2, <2>1 DEF References, Unused, Fresh, Taking
<1>4. /\ references[cur] + Due(cur) = Holders(cur) /\ references[cur] >= 1
      /\ Holders(cur) \in 0 .. 5 /\ references[cur] \in Nat /\ Due(cur) \in 0 .. 1
  BY <1>1, <1>2, <1>3, OwesType, UnsignedType DEF References, Exact, SharedTypeOK
<1>5. UNCHANGED <<allocated, next, pool, pool_size, concurrent>>
  BY DEF Take, TakeStore, Load
<1>6. Pooled' = Pooled /\ ListEnds' /\ \A t \in Struct : Live(t)' <=> Live(t)
  BY <1>1, <1>5 DEF PoolIsList, ListEnds, Pooled, Live
<1>7. PICK step \in {"take_store", "try_store", "idle", "pthread_create", "drop"} :
        /\ pc' = [pc EXCEPT ![Main] = step]
        /\ pc[Main] = "take" <=> step = "take_store"
        /\ pc[Main] = "try" <=> step = "try_store"
        /\ pc[Main] = "try_store" <=> step = "drop"
        /\ pc[Main] = "take_store" => step = then
        /\ pc[Main] # "take_store" => Goto(Main, step)
        /\ pc[Main] = "take_store" =>
             then' = "idle" /\ cur' = IF step = "idle" THEN NoStruct ELSE cur
  BY <1>1, <1>2 DEF Take, TakeStore, At, Load, Goto, Return, Calls, Taking
<1>8. /\ pc'[Main] = step /\ \A s \in Struct : pc'[s] = pc[s] /\ reg'[s] = reg[s]
      /\ pc[Main] # "take_store" => cur' = cur /\ then' = then
  BY <1>1, <1>7 DEF Goto, CallTypeOK, SharedTypeOK, Take, TakeStore, Load, Used, Thread
<1>9. CASE Take
  <2>1. /\ step \in {"take_store", "try_store"} /\ Goto(Main, step)
        /\ references' = references /\ reg'[Main] = references[cur] /\ cur' = cur /\ then' = then
    BY <1>1, <1>7, <1>8, <1>9 DEF Take, At, Load, SharedTypeOK
  <2>2. \A t \in Struct : Same(t)
    BY <1>1, <1>7, <2>1, MoveSame DEF Destroying, FreshSteps, Taking
  <2>3. \A t \in Struct : References(t)'
    BY <1>1, <1>6, <2>1, <2>2, SameReferences
  <2>4. (ClientOpen(cur)' <=> ClientOpen(cur)) /\ (OriginOpen(cur)' <=> OriginOpen(cur))
    BY <1>2, <2>1, <2>2 DEF Same, ClientOpen, OriginOpen
  <2>5. Errand'
    BY <1>1, <1>2, <1>7, <1>8, <2>1, <2>4 DEF Errand, Taking, ClientOpen, OriginOpen
  <2>6. Section(Main)'
    BY <1>8, <2>1 DEF Section, LastCall, Subject
  <2>7. ASSUME NEW q \in Struct PROVE Section(q)'
    BY <1>1, <1>5, <1>8, <2>1, MainOthers DEF CallTypeOK, Thread
  <2> QED
    <3>1. Unlinking'
      BY <1>8, <2>1 DEF Unlinking
    <3>2. SizeIsLength'
      BY <1>1, <1>5, <1>6, <1>8, <2>1, SizeKept
         DEF PoolIsList, Growing, Shrinking, Thread, Taking
    <3>3. PoolIsList'
      BY <1>1, <1>5, <1>6, <3>2 DEF PoolIsList
    <3>4. \A t \in Struct : Counted(t)' <=> Counted(t)
      BY <1>1, <1>6, <1>8, <2>1, MainCounted DEF Late, Early, Taking
    <3>5. MetricIsCount'
      BY <1>1, <1>5, <3>4, MetricKept
    <3> QED BY <2>3, <2>5, <2>6, <2>7, <3>1, <3>3, <3>5 DEF Kept, Thread
<1>10. CASE TakeStore
  <2>1. /\ pc[Main] \in {"take_store", "try_store"}
        /\ step \in {"idle", "pthread_create", "drop"} /\ then' = "idle"
        /\ references' = [references EXCEPT ![cur] = Inc(reg[Main])]
    BY <1>2, <1>7, <1>8, <1>10 DEF TakeStore, At
  <2>2. references'[cur] = references[cur] + 1 /\ \A t \in Struct : t # cur => references'[t] = references[t]
    <3>1. reg[Main] = references[cur]
      BY <1>1, <2>1 DEF Section, Subject
    <3>2. Inc(reg[Main]) = references[cur] + 1
      BY <1>4, <3>1, MemoryAssumption DEF Inc
    <3> QED BY <1>1, <1>2, <2>1, <3>2 DEF SharedTypeOK
  <2>3. \A t \in Struct : /\ ClientOpen(t)' <=> ClientOpen(t)
                          /\ OriginOpen(t)' <=> OriginOpen(t)
                          /\ Resolver(t)' <=> Resolver(t)
    BY <1>8 DEF ClientOpen, OriginOpen, Resolver
  <2>4. \A t \in Struct : ~Fresh(t) /\ ~Fresh(t)'
    BY <1>8, <2>1 DEF Fresh
  <2>5. \A t \in Struct : t # cur =>
          Owes(t)' = 0 /\ Owes(t) = 0 /\ Due(t)' = 0 /\ Due(t) = 0
    BY <1>2, <1>7, <1>8, <2>1 DEF Owes, Due, Count
  <2>6. ASSUME NEW s \in Struct, s = cur
        PROVE  References(s)'
    <3>1. Owes(s) = 0 /\ Owes(s)' = Count(step # "idle")
      BY <1>2, <1>7, <1>8, <2>1, <2>6 DEF Owes, Count, Destroying
    <3>2. Due(s) = Count(step = "idle") /\ Due(s)' = 0
      BY <1>2, <1>7, <1>8, <2>1, <2>6 DEF Due, Count
    <3>3. Holders(s)' = Holders(s) + Count(step # "idle")
      BY <2>3, <3>1 DEF Holders, Count
    <3>4. references'[s] + Due(s)' = Holders(s)'
      BY <1>4, <2>2, <2>6, <3>2, <3>3 DEF Count
    <3>5. references'[s] >= 1 /\ Live(s)' /\ ~Fresh(s)'
      BY <1>3, <1>4, <1>6, <2>2, <2>4, <2>6
    <3> QED BY <3>4, <3>5 DEF References, Exact
  <2>7. ASSUME NEW t \in Struct PROVE References(t)'
    <3>1. CASE t = cur
      BY <2>6, <3>1
    <3>2. CASE t # cur
      BY <1>1, <1>6, <2>2, <2>3, <2>4, <2>5, <3>2, SameReferences DEF Same
    <3> QED BY <3>1, <3>2
  <2>8. Errand'
    <3>1. step # "idle" => cur' = cur
      BY <1>7, <1>8
    <3>2. ClientOpen(cur)' \/ step = "idle"
      BY <1>2, <2>3, <3>1 DEF ClientOpen
    <3>3. step = "pthread_create" => stm[cur] = "REQUEST_READ"
      BY <1>1, <1>7, <2>1 DEF Errand
    <3> QED BY <1>8, <2>1, <3>1, <3>2, <3>3 DEF Errand, Taking
  <2>9. Section(Main)'
    <3>1. step = "drop" => Subject(Main)' = cur
      BY <1>7, <1>8 DEF Subject
    <3> QED BY <1>4, <1>8, <2>1, <2>2, <3>1 DEF Section, LastCall
  <2>10. ASSUME NEW q \in Struct PROVE Section(q)'
    <3>1. pc[q] \in {"drop", "drop_store"} \cup LastCall => references'[q] = references[q]
      <4>1. CASE q = cur /\ pc[q] \in {"drop", "drop_store"}
        <5>1. /\ InReferences(q) /\ InReferences(Main) /\ q # Main
              /\ Subject(q) = cur /\ Subject(Main) = cur
          BY <2>1, <4>1 DEF InReferences, Subject
        <5> QED BY <1>1, <5>1 DEF Overlap, Thread
      <4>2. CASE q = cur /\ pc[q] \in LastCall
        <5>1. Section(q) /\ q \in Thread /\ q # Main
          BY <1>1 DEF Thread
        <5>2. Subject(q) = cur /\ references[Subject(q)] = 1 /\ pc[q] \in Destroying
          BY <4>2, <5>1 DEF Section, Subject, LastCall, Destroying
        <5>3. ~ClientOpen(cur)
          BY <5>1, <5>2, LastHolder
        <5> QED BY <1>2, <5>3
      <4> QED BY <2>2, <4>1, <4>2
    <3> QED BY <1>1, <1>5, <1>8, <3>1, MainOthers DEF CallTypeOK, Thread
  <2> QED
    <3>1. Unlinking'
      BY <1>8, <2>1 DEF Unlinking
    <3>2. SizeIsLength'
      BY <1>1, <1>5, <1>6, <1>8, <2>1, SizeKept
         DEF PoolIsList, Growing, Shrinking, Thread, Taking
    <3>3. PoolIsList'
      BY <1>1, <1>5, <1>6, <3>2 DEF PoolIsList
    <3>4. \A t \in Struct : Counted(t)' <=> Counted(t)
      BY <1>1, <1>6, <1>8, <2>1, MainCounted DEF Late, Early, Taking
    <3>5. MetricIsCount'
      BY <1>1, <1>5, <3>4, MetricKept
    <3> QED BY <2>7, <2>8, <2>9, <2>10, <3>1, <3>3, <3>5 DEF Kept, Thread
<1> QED BY <1>9, <1>10

\* No step inside socks5_destroy makes a thread look up, or use its struct again.
LEMMA DestroyKeepsThreads ==
    ASSUME CallTypeOK, NEW p \in Thread, DestroyStep(p), NEW s \in Struct
    PROVE  /\ pc'[s] \in {"lookup", "notify"} <=> pc[s] \in {"lookup", "notify"}
           /\ Resolver(s)' => Resolver(s)
<1> USE Names
<1>1. /\ pc[p] \in DestroySteps
      /\ \A q \in Thread : q # p => pc'[q] = pc[q]
      /\ pc'[p] \in Growing <=> pc[p] \in {"push", "grow"}
  BY DestroyMoves
<1>2. CASE s # p
  BY <1>1, <1>2 DEF Resolver, Thread
<1>3. CASE s = p
  <2>1. Return(p) => pc'[p] = "none"
    BY <1>3 DEF Return, Goto, CallTypeOK
  <2>2. Return(p) \/ \E step \in DestroySteps : Goto(p, step)
    BY DEF DestroyStep, Destroy, Drop, DropStore, Closed, ClosedLoad, ClosedStore,
       Room, Link, Push, Grow, GrowStore, Load, DestroySteps
  <2>3. pc'[p] \in DestroySteps \cup {"none"}
    BY <2>1, <2>2 DEF Goto, CallTypeOK
  <2>4. pc[p] = "grow_store" => Return(p)
    BY DEF DestroyStep, Destroy, Drop, DropStore, Closed, ClosedLoad, ClosedStore,
       Room, Link, Push, Grow, GrowStore, At
  <2>5. pc[p] \in {"grow", "grow_store"} => pc'[p] \in Growing \cup {"none"}
    BY <1>1, <2>1, <2>4 DEF Growing
  <2> QED BY <1>1, <1>3, <2>3, <2>5 DEF Resolver, DestroySteps, Destroying, Growing
<1> QED BY <1>2, <1>3

\* A step on the shared memory, by a thread or by main.
LEMMA SharedSafe ==
    ASSUME TypeOK, TypeOK', Safe, ~Overlap', NEW p \in Thread, SharedStep(p)
    PROVE  Safe'
<1> USE Names
<1>1. /\ UNCHANGED <<items, jobs, stm, links, request, resolver, server, owner>> /\ running
      /\ \/ DestroyStep(p)
         \/ p = Main /\ (NewStep \/ Take \/ TakeStore)
  BY DEF SharedStep, items
<1>2. CallTypeOK /\ ConnectionTypeOK /\ Connections
  BY DEF TypeOK, MemoryTypeOK, Safe
<1>3. running'
  BY <1>1 DEF server
<1>4. CASE DestroyStep(p)
  <2>1. pc[p] \in DestroySteps
    BY <1>2, <1>4, DestroyMoves
  <2>2. PICK s \in Struct : Subject(p) = s
    BY <1>2, <2>1, SubjectType
  <2>3. PoolIsList'
    BY <1>4, <2>2, DestroyPool
  <2>4. Errand' /\ \A t \in Struct : References(t)'
    BY <1>1, <1>4, <2>2, DestroyReferences
  <2>5. Unlinking' /\ \A q \in Thread : Section(q)'
    BY <1>4, <2>2, DestroySections
  <2>6. MetricIsCount'
    BY <1>4, <2>2, DestroyMetric
  <2>7. \A t \in Struct : /\ pc'[t] \in {"lookup", "notify"} <=> pc[t] \in {"lookup", "notify"}
                          /\ Resolver(t)' => Resolver(t)
    BY <1>2, <1>4, DestroyKeepsThreads
  <2>8. Connections'
    BY <1>1, <1>2, <2>7, ConnectionsKept
  <2> QED BY <1>3, <2>3, <2>4, <2>5, <2>6, <2>8 DEF Safe
<1>5. CASE NewStep \/ Take \/ TakeStore
  <2>1. Kept'
    <3>1. CASE New
      BY <1>1, <3>1, NewSafe DEF Kept
    <3>2. CASE Unlink \/ UnlinkStore
      BY <1>1, <3>2, UnlinkSafe
    <3>3. CASE Shrink \/ ShrinkStore \/ Opened \/ OpenedStore
      BY <1>1, <3>3, CountersSafe
    <3>4. CASE Take \/ TakeStore
      BY <1>1, <3>4, TakeSafe
    <3> QED BY <1>5, <3>1, <3>2, <3>3, <3>4 DEF NewStep
  <2>2. \A t \in Struct : pc'[t] = pc[t]
    BY <1>2, <1>5 DEF CallTypeOK, NewStep, New, Unlink, UnlinkStore, Shrink, ShrinkStore,
       Opened, OpenedStore, Take, TakeStore, Load, Goto, Return, Calls, Thread
  <2>3. \A t \in Struct : /\ pc'[t] \in {"lookup", "notify"} <=> pc[t] \in {"lookup", "notify"}
                          /\ Resolver(t)' => Resolver(t)
    BY <2>2 DEF Resolver
  <2>4. Connections'
    BY <1>1, <1>2, <2>3, ConnectionsKept
  <2> QED BY <1>3, <2>1, <2>4 DEF Kept, Safe
<1> QED BY <1>1, <1>4, <1>5
-----------------------------------------------------------------------------
(* Lifetimes: what a step may do to the users of a struct *)

\* The changes that Lifetime allows.
LifeStep(s) ==
    \/ UsersOf(s) = {} /\ UsersOf(s)' = {"client"}
    \/ /\ "client" \in UsersOf(s)
       /\ \E u \in {"origin", "resolver"} \ UsersOf(s) : UsersOf(s)' = UsersOf(s) \cup {u}
    \/ "origin" \in UsersOf(s) /\ UsersOf(s)' = UsersOf(s) \ {"origin"}
    \/ "client" \in UsersOf(s) /\ UsersOf(s)' = UsersOf(s) \ {"client", "origin"}
    \/ "resolver" \in UsersOf(s) /\ UsersOf(s)' = UsersOf(s) \ {"resolver"}

\* A step changes the users of one struct at most.
Lives ==
    \/ \A t \in Struct : UsersOf(t)' = UsersOf(t)
    \/ \E s \in Struct :
         LifeStep(s) /\ \A t \in Struct \ {s} : UsersOf(t)' = UsersOf(t)

\* What is proved of each action.
Sound == Safe' /\ Lives

LEMMA SameUsers ==
    ASSUME NEW t \in Struct, Same(t)
    PROVE  UsersOf(t)' = UsersOf(t)
BY DEF Same, UsersOf

\* While a connection has its client, its origin or its thread comes or goes.
LEMMA ClientStays ==
    ASSUME NEW s \in Struct, "client" \in UsersOf(s), "client" \in UsersOf(s)',
           (OriginOpen(s)' <=> OriginOpen(s)) \/ (Resolver(s)' <=> Resolver(s))
    PROVE  LifeStep(s) \/ UsersOf(s)' = UsersOf(s)
<1> DEFINE U == UsersOf(s)
           V == UsersOf(s)'
<1>1. /\ U \subseteq {"client", "origin", "resolver"} /\ "client" \in U
      /\ V \subseteq {"client", "origin", "resolver"} /\ "client" \in V
      /\ ("origin" \in U <=> "origin" \in V) \/ ("resolver" \in U <=> "resolver" \in V)
  BY DEF UsersOf
<1> HIDE DEF U, V
<1>2. CASE "origin" \in U <=> "origin" \in V
  <2>1. V = U \/ V = U \cup {"resolver"} \/ V = U \ {"resolver"}
    BY <1>1, <1>2
  <2> QED BY <1>1, <2>1 DEF LifeStep, U, V
<1>3. CASE "resolver" \in U <=> "resolver" \in V
  <2>1. V = U \/ V = U \cup {"origin"} \/ V = U \ {"origin"}
    BY <1>1, <1>3
  <2> QED BY <1>1, <2>1 DEF LifeStep, U, V
<1> QED BY <1>1, <1>2, <1>3

\* A call of socks5_destroy that returns has taken one user away.
LEMMA ReturnLives ==
    ASSUME TypeOK, Safe, Safe', NEW p \in Thread, NEW s \in Struct, Subject(p) = s,
           pc[p] \in Destroying, Return(p), UNCHANGED <<owner, links, stm>>
    PROVE  Lives
<1> DEFINE r == Count(Resolver(s))
           v == Count(Resolver(s)')
           w == Owes(s)
           x == Owes(s)'
<1>1. /\ \A t \in Struct : t # s => Same(t)
      /\ ClientOpen(s)' <=> ClientOpen(s)
      /\ OriginOpen(s)' <=> OriginOpen(s)
      /\ Resolver(s)' => Resolver(s)
      /\ ~Fresh(s)' /\ Holders(s)' = Holders(s) - 1
  BY ReturnSame
<1>2. r \in 0 .. 1 /\ v \in 0 .. 1 /\ v <= r /\ w \in 0 .. 2 /\ x \in 0 .. 2
  <2>1. x \in 0 .. 2
    BY DEF Owes, Count
  <2> QED BY <1>1, <2>1, OwesType DEF Count
<1>3. v + x = r + w - 1
  <2> DEFINE c == Count(ClientOpen(s))
             o == Count(OriginOpen(s))
  <2>1. c \in 0 .. 1 /\ o \in 0 .. 1
    BY DEF Count
  <2>2. Holders(s) = c + o + r + w /\ Holders(s)' = c + o + v + x
    BY <1>1 DEF Holders, Count
  <2> HIDE DEF c, o, r, v, w, x
  <2> QED BY <1>1, <1>2, <2>1, <2>2
<1>4. /\ r = v <=> (Resolver(s)' <=> Resolver(s))
      /\ r = 1 <=> Resolver(s)
      /\ v = 1 <=> Resolver(s)'
      /\ w = Owes(s) /\ x = Owes(s)'
  BY DEF Count
<1> HIDE DEF r, v, w, x
<1>5. ~Fresh(s)
  BY Holding
<1>6. \A t \in Struct \ {s} : UsersOf(t)' = UsersOf(t)
  BY <1>1, SameUsers
<1>7. CASE r = v
  <2>1. w > 0 /\ x = w - 1 /\ (Resolver(s)' <=> Resolver(s))
    BY <1>2, <1>3, <1>4, <1>7
  <2>2. CASE ClientOpen(s) \/ x > 0
    <3>1. UsersOf(s)' = UsersOf(s)
      BY <1>1, <1>4, <2>1, <2>2 DEF UsersOf
    <3> QED BY <1>6, <3>1 DEF Lives
  <2>3. CASE ~ClientOpen(s) /\ x = 0
    <3>1. ~OriginOpen(s)
      <4>1. OriginOpen(s) => Owned(origin_fd[s]) /\ owner[origin_fd[s]] = s
        BY DEF OriginOpen, Safe, Connections, TypeOK, ConnectionTypeOK
      <4> QED BY <2>3, <4>1, Names DEF Owned
    <3>2. "client" \in UsersOf(s) /\ UsersOf(s)' = UsersOf(s) \ {"client", "origin"}
      BY <1>1, <1>4, <2>1, <2>3, <3>1 DEF UsersOf
    <3> QED BY <1>6, <3>2 DEF Lives, LifeStep
  <2> QED BY <1>2, <2>2, <2>3
<1>8. CASE r # v
  <2>1. x = w /\ Resolver(s) /\ ~Resolver(s)'
    <3>1. r = 1 /\ v = 0 /\ x = w
      BY <1>2, <1>3, <1>8
    <3> QED BY <1>4, <3>1
  <2>2. "resolver" \in UsersOf(s) /\ UsersOf(s)' = UsersOf(s) \ {"resolver"}
    BY <1>1, <1>4, <1>5, <2>1 DEF UsersOf
  <2> QED BY <1>6, <2>2 DEF Lives, LifeStep
<1> QED BY <1>7, <1>8

LEMMA DestroyLives ==
    ASSUME TypeOK, Safe, Safe', NEW p \in Thread, NEW s \in Struct, Subject(p) = s,
           DestroyStep(p), UNCHANGED <<owner, links, stm>>
    PROVE  Lives
<1>1. CallTypeOK
  BY DEF TypeOK, MemoryTypeOK
<1>2. CASE Return(p) /\ pc[p] \in {"drop_store", "room"}
  BY <1>2, ReturnLives DEF Destroying
<1>3. CASE GrowStore(p)
  <2>1. pc[p] = "grow_store" /\ Return(p)
    BY <1>3 DEF GrowStore, At
  <2> QED BY <2>1, GrownSame, SameUsers DEF Lives
<1>4. CASE Push(p)
  <2>1. pc[p] = "push" /\ Goto(p, "grow")
    BY <1>4 DEF Push, At
  <2>2. /\ \A t \in Struct : t # s => Same(t)
        /\ Holders(s)' = 0 /\ ~Fresh(s)'
    BY <2>1, PushSame
  <2>3. UsersOf(s)' = {}
    <3>1. ~ClientOpen(s)' /\ ~OriginOpen(s)' /\ ~Resolver(s)' /\ Owes(s)' = 0
      <4> DEFINE c == Count(ClientOpen(s)')
                 o == Count(OriginOpen(s)')
                 r == Count(Resolver(s)')
                 w == Owes(s)'
      <4>1. c \in 0 .. 1 /\ o \in 0 .. 1 /\ r \in 0 .. 1 /\ w \in 0 .. 2
        BY DEF Count, Owes
      <4>2. c + o + r + w = 0
        BY <2>2 DEF Holders
      <4>3. /\ c = 0 => ~ClientOpen(s)'
            /\ o = 0 => ~OriginOpen(s)'
            /\ r = 0 => ~Resolver(s)'
            /\ w = Owes(s)'
        BY DEF Count
      <4> HIDE DEF c, o, r, w
      <4>4. c = 0 /\ o = 0 /\ r = 0 /\ w = 0
        BY <4>1, <4>2
      <4> QED BY <4>3, <4>4
    <3> QED BY <2>2, <3>1 DEF UsersOf
  <2>4. pc[p] \in Destroying /\ references[Subject(p)] = 1
    BY <2>1 DEF Safe, Section, LastCall, Destroying
  <2>5. /\ ~ClientOpen(s) /\ ~OriginOpen(s) /\ ~Fresh(s)
        /\ p = Main => ~Resolver(s)
        /\ p # Main => Owes(s) = 0
    BY <2>4, LastHolder, Holding
  <2>6. UsersOf(s) = {"client"} \/ UsersOf(s) = {"resolver"}
    <3>1. CASE p = Main
      <4>1. Owes(s) > 0
        BY <2>1, <3>1 DEF Owes, Count, Subject, Destroying
      <4> QED BY <2>5, <3>1, <4>1 DEF UsersOf
    <3>2. CASE p # Main
      <4>1. Resolver(s)
        BY <2>4, <3>2 DEF Resolver, Subject
      <4> QED BY <2>5, <3>2, <4>1 DEF UsersOf
    <3> QED BY <3>1, <3>2
  <2>7. LifeStep(s)
    BY <2>3, <2>6 DEF LifeStep
  <2>8. \A t \in Struct \ {s} : UsersOf(t)' = UsersOf(t)
    BY <2>2, SameUsers
  <2> QED BY <2>7, <2>8 DEF Lives
<1>5. CASE ~(Return(p) /\ pc[p] \in {"drop_store", "room"}) /\ ~GrowStore(p) /\ ~Push(p)
  <2>1. PICK step \in Destroying \cup {"grow_store"} :
          /\ Goto(p, step)
          /\ \/ pc[p] \in Destroying /\ step \in Destroying
             \/ pc[p] = "grow" /\ step = "grow_store"
    BY <1>5 DEF DestroyStep, Destroy, Drop, DropStore, Closed, ClosedLoad, ClosedStore,
       Room, Link, Grow, At, Load, Destroying
  <2>2. \A K \in {Destroying, {"take", "take_store"}, FreshSteps, {"lookup", "notify"},
                  {"pthread_create"}} : pc[p] \in K <=> step \in K
    BY <2>1 DEF Destroying, FreshSteps
  <2>3. \A t \in Struct : Same(t)
    BY <1>1, <2>1, <2>2, MoveSame
  <2> QED BY <2>3, SameUsers DEF Lives
<1> QED BY <1>2, <1>3, <1>4, <1>5

\* Main's other calls: a connection begins.
LEMMA MainLives ==
    ASSUME TypeOK, TypeOK', Safe, NewStep \/ Take \/ TakeStore,
           UNCHANGED <<owner, links, stm>>
    PROVE  Lives
<1> USE Names DEF links
<1>1. CallTypeOK /\ CallTypeOK' /\ SharedTypeOK
  BY DEF TypeOK, MemoryTypeOK
<1>2. \A t \in Struct : pc'[t] = pc[t]
  BY <1>1 DEF CallTypeOK, NewStep, New, Unlink, UnlinkStore, Shrink, ShrinkStore,
     Opened, OpenedStore, Take, TakeStore, Load, Goto, Return, Calls, Thread
<1>3. \A t \in Struct : /\ ClientOpen(t)' <=> ClientOpen(t)
                        /\ OriginOpen(t)' <=> OriginOpen(t)
                        /\ Resolver(t)' <=> Resolver(t)
  BY <1>2 DEF ClientOpen, OriginOpen, Resolver
<1>4. \A t \in Struct : t \notin {cur, cur'} => UsersOf(t)' = UsersOf(t)
  <2>1. \A t \in Struct : t \notin {cur, cur'} =>
          Owes(t) = 0 /\ Owes(t)' = 0 /\ ~Fresh(t) /\ ~Fresh(t)'
    BY DEF Owes, Fresh
  <2> QED BY <1>3, <2>1 DEF UsersOf
<1>5. CASE Take \/ TakeStore
  <2>1. pc[Main] \in Taking
    BY <1>5 DEF Take, TakeStore, At, Taking
  <2>2. cur \in Struct /\ ClientOpen(cur) /\ cur' \in {cur, NoStruct}
    BY <1>1, <1>5, <2>1 DEF Safe, Errand, Taking, CallTypeOK, Take, TakeStore, Load, Goto,
       Return, Calls
  <2>3. PICK s \in Struct : s = cur
    BY <2>2
  <2>4. UsersOf(s)' = UsersOf(s)
    BY <1>3, <2>2, <2>3 DEF UsersOf
  <2> QED BY <1>4, <2>2, <2>3, <2>4 DEF Lives
<1>6. CASE Unlink \/ Shrink \/ ShrinkStore \/ Opened \/ OpenedStore
  <2>1. PICK step \in {"unlink_store"} \cup FreshSteps :
          Goto(Main, step) /\ (pc[Main] \in FreshSteps <=> step \in FreshSteps)
                           /\ pc[Main] \in {"unlink"} \cup FreshSteps
    BY <1>6 DEF Unlink, Shrink, ShrinkStore, Opened, OpenedStore, At, Load, FreshSteps
  <2>2. \A t \in Struct : Same(t)
    BY <1>1, <2>1, MoveSame DEF Destroying, FreshSteps
  <2> QED BY <2>2, SameUsers DEF Lives
<1>7. CASE New \/ UnlinkStore
  <2>1. /\ cur' \in Struct =>
             \/ ~Live(cur') /\ pc'[Main] \in {"opened", "shrink"}
             \/ pc'[Main] = "unlink"
        /\ \A t \in Struct : t = cur => t = cur'
        /\ pc[Main] \in {"new", "unlink_store"}
        /\ pc'[Main] \in {"idle", "opened", "shrink", "unlink"}
    <3>1. CASE New
      <4>1. cur = NoStruct
        BY <1>1, <3>1 DEF New, At, CallTypeOK
      <4> QED BY <1>1, <3>1, <4>1 DEF New, At, CallTypeOK, Live
    <3>2. CASE UnlinkStore
      <4>1. pc[Main] = "unlink_store" /\ pc'[Main] = "shrink" /\ cur' = cur
        BY <1>1, <3>2 DEF UnlinkStore, At, Goto, CallTypeOK
      <4>2. cur = pool
        BY <4>1 DEF Safe, Unlinking
      <4>3. cur \in Struct => cur \in Pooled
        BY <4>2, ReachHead DEF Pooled
      <4> QED BY <4>1, <4>3 DEF Live
    <3> QED BY <1>7, <3>1, <3>2
  <2>2. CASE cur' \notin Struct
    BY <1>4, <2>1, <2>2 DEF Lives
  <2>3. CASE cur' \in Struct
    <3>1. PICK s \in Struct : s = cur'
      BY <2>3
    <3>2. then = "idle" /\ then' = "idle"
      <4>1. then = "idle" /\ then' = then
        BY <1>1, <1>7, <2>1 DEF Safe, Errand, Destroying, New, UnlinkStore, Goto
      <4> QED BY <4>1
    <3>3. Owes(s) = 0 /\ Owes(s)' = 0 /\ ~Fresh(s)
          /\ (Fresh(s)' <=> pc'[Main] \in {"opened", "shrink"})
      BY <2>1, <3>1, <3>2 DEF Owes, Fresh, Count, Destroying
    <3>4. CASE pc'[Main] = "unlink"
      <4>1. UsersOf(s)' = UsersOf(s)
        BY <1>3, <3>3, <3>4 DEF UsersOf
      <4> QED BY <1>4, <2>1, <3>1, <4>1 DEF Lives
    <3>5. CASE pc'[Main] # "unlink"
      <4>1. ~Live(s)
        BY <2>1, <3>1, <3>5
      <4>2. Holders(s) = 0
        BY <4>1 DEF Safe, References, Unused
      <4>3. ~ClientOpen(s) /\ ~OriginOpen(s) /\ ~Resolver(s)
        BY <4>2, UnusedFlags
      <4>4. UsersOf(s) = {} /\ UsersOf(s)' = {"client"}
        BY <1>3, <2>1, <3>1, <3>3, <3>5, <4>3 DEF UsersOf
      <4> QED BY <1>4, <2>1, <3>1, <4>4 DEF Lives, LifeStep
    <3> QED BY <3>4, <3>5
  <2> QED BY <2>2, <2>3
<1> QED BY <1>5, <1>6, <1>7 DEF NewStep

LEMMA SharedSound ==
    ASSUME TypeOK, TypeOK', Safe, ~Overlap', NEW p \in Thread, SharedStep(p)
    PROVE  Sound
<1>1. Safe'
  BY SharedSafe
<1>2. /\ UNCHANGED <<owner, links, stm>>
      /\ \/ DestroyStep(p)
         \/ NewStep \/ Take \/ TakeStore
  BY DEF SharedStep, items
<1>3. CASE DestroyStep(p)
  <2>1. CallTypeOK
    BY DEF TypeOK, MemoryTypeOK
  <2>2. PICK s \in Struct : Subject(p) = s
    BY <1>3, <2>1, DestroyMoves, SubjectType
  <2>3. Lives
    BY <1>1, <1>2, <1>3, <2>2, DestroyLives
  <2> QED BY <1>1, <2>3 DEF Sound
<1>4. CASE NewStep \/ Take \/ TakeStore
  BY <1>1, <1>2, <1>4, MainLives DEF Sound
<1> QED BY <1>2, <1>3, <1>4
-----------------------------------------------------------------------------
(* The handlers: what a step that works for one connection keeps *)

\* The descriptors of a connection that is open.
LEMMA Descriptors ==
    ASSUME TypeOK, Safe, NEW s \in Struct, ClientOpen(s)
    PROVE  /\ client_fd[s] \in FD /\ owner[client_fd[s]] = s /\ stm[s] # "DONE"
           /\ origin_fd[s] # NoFd =>
                OriginOpen(s) /\ origin_fd[s] \in FD /\ origin_fd[s] # client_fd[s]
           /\ \A f \in FD : owner[f] = s => f \in {client_fd[s], origin_fd[s]}
           /\ Live(s) /\ ~Fresh(s) /\ references[s] + Due(s) = Holders(s)
<1> USE Names DEF ClientOpen
<1>1. client_fd[s] \in FD /\ owner[client_fd[s]] = s /\ origin_fd[s] \in FD \cup {NoFd}
  BY DEF TypeOK, ConnectionTypeOK
<1>2. \A f \in FD : owner[f] = s => Owned(f)
  BY DEF Safe, Connections
<1>3. Holders(s) # 0
  BY UnusedFlags
<1>4. References(s)
  BY DEF Safe
<1> QED BY <1>1, <1>2, <1>3, <1>4 DEF Owned, References, Exact, Unused

\* An event is for a connection that is open.
LEMMA OwnerOpen ==
    ASSUME TypeOK, Safe, NEW f \in FD, owner[f] # NoStruct
    PROVE  owner[f] \in Struct /\ ClientOpen(owner[f])
BY DEF TypeOK, ConnectionTypeOK, Safe, Connections, Owned

\* A step that leaves the shared memory alone, and in which main begins, or is
\* asked for, another call.
LEMMA MemoryKept ==
    ASSUME TypeOK, Safe, UNCHANGED memory,
           \A q \in Struct : \/ pc'[q] = pc[q]
                             \/ {pc[q], pc'[q]} \subseteq {"none", "lookup", "notify", "destroy"},
           \/ pc'[Main] = pc[Main] /\ cur' = cur
           \/ /\ {pc[Main], pc'[Main]} \subseteq
                   {"idle", "new", "pthread_create", "destroy", "take", "try", "drop"}
              /\ pc'[Main] = "drop" => references[cur'] >= 2
    PROVE  /\ Unlinking' /\ PoolIsList' /\ MetricIsCount'
           /\ \A p \in Thread : Section(p)'
           /\ \A t \in Struct : Live(t)' <=> Live(t)
<1> USE Names
<1>1. /\ UNCHANGED <<allocated, references, next, pool, pool_size, concurrent, reg, top>>
      /\ Unlinking /\ PoolIsList /\ MetricIsCount
      /\ \A p \in Thread : Section(p)
  BY DEF memory, shared, registers, Safe
<1>2. Pooled' = Pooled /\ (ListEnds' <=> ListEnds) /\ \A t \in Struct : Live(t)' <=> Live(t)
  BY <1>1 DEF Pooled, ListEnds, Live
<1>3. Unlinking'
  BY <1>1 DEF Unlinking
<1>4. \A q \in Thread : /\ pc'[q] \in Growing <=> pc[q] \in Growing
                        /\ pc'[q] \in Late <=> pc[q] \in Late
                        /\ pc'[q] \in Shrinking <=> pc[q] \in Shrinking
                        /\ pc'[q] \in Early <=> pc[q] \in Early
  BY DEF Thread, Growing, Late, Shrinking, Early
<1>5. PoolIsList'
  <2>1. SizeIsLength'
    BY <1>1, <1>2, <1>4, SizeKept DEF PoolIsList, Thread
  <2> QED BY <1>1, <1>2, <2>1 DEF PoolIsList
<1>6. MetricIsCount'
  <2>1. ASSUME NEW t \in Struct PROVE Counted(t)' <=> Counted(t)
    <3>1. (cur = t /\ pc[Main] \in Early)' <=> (cur = t /\ pc[Main] \in Early)
      BY DEF Early
    <3>2. \A q \in Thread : pc[q] \in Late => Subject(q)' = Subject(q)
      BY DEF Subject, Late
    <3>3. (\A q \in Thread : Subject(q) = t => pc[q] \notin Late)' <=>
          (\A q \in Thread : Subject(q) = t => pc[q] \notin Late)
      BY <1>4, <3>2
    <3> QED BY <1>2, <3>1, <3>3 DEF Counted, Late, Early
  <2> QED BY <1>1, <2>1, MetricKept
<1>7. ASSUME NEW p \in Thread PROVE Section(p)'
  <2>1. CASE pc'[p] = pc[p] /\ Subject(p)' = Subject(p)
    BY <1>1, <2>1 DEF Section
  <2>2. CASE ~(pc'[p] = pc[p] /\ Subject(p)' = Subject(p))
    <3>1. pc'[p] \in {"none", "lookup", "notify", "idle", "new", "pthread_create",
                      "destroy", "take", "try", "drop"}
      BY <2>2 DEF Subject, Thread
    <3>2. pc'[p] = "drop" => p = Main /\ references[cur'] >= 2
      BY <2>2 DEF Subject, Thread
    <3> QED BY <1>1, <3>1, <3>2 DEF Section, LastCall, Subject
  <2> QED BY <2>1, <2>2
<1> QED BY <1>2, <1>3, <1>5, <1>6, <1>7

\* A step that works for the connection s only.
WorksFor(s) ==
    /\ \A f \in FD : owner'[f] # owner[f] => {owner[f], owner'[f]} \subseteq {s, NoStruct}
    /\ \A f \in FD : interest'[f] # interest[f] => s \in {owner[f], owner'[f]}
    /\ \A t \in Struct \ {s} :
         /\ stm'[t] = stm[t] /\ client_fd'[t] = client_fd[t] /\ origin_fd'[t] = origin_fd[t]
         /\ rfd'[t] = rfd[t] /\ pc'[t] = pc[t] /\ (t \in unheard => t \in unheard')
    /\ {cur, cur'} \subseteq {s, NoStruct}
    /\ jobs' \subseteq jobs
    /\ \A f \in jobs \ jobs' : owner[f] = s
    /\ \A f \in jobs' : owner[f] # s

LEMMA OthersSame ==
    ASSUME TypeOK, TypeOK', NEW s \in Struct, WorksFor(s)
    PROVE  \A t \in Struct : t # s => Same(t)
<1> SUFFICES ASSUME NEW t \in Struct, t # s PROVE Same(t)
  OBVIOUS
<1>1. t # NoStruct
  BY Names
<1>2. /\ client_fd'[t] = client_fd[t] /\ origin_fd'[t] = origin_fd[t] /\ pc'[t] = pc[t]
      /\ client_fd[t] \in FD \cup {NoFd} /\ origin_fd[t] \in FD \cup {NoFd}
  BY DEF WorksFor, TypeOK, ConnectionTypeOK
<1>3. \A f \in FD : owner'[f] = t <=> owner[f] = t
  BY <1>1 DEF WorksFor
<1>4. (ClientOpen(t)' <=> ClientOpen(t)) /\ (OriginOpen(t)' <=> OriginOpen(t))
  BY <1>2, <1>3 DEF ClientOpen, OriginOpen
<1>5. Resolver(t)' <=> Resolver(t)
  BY <1>2 DEF Resolver
<1>6. cur # t /\ cur' # t
  BY <1>1 DEF WorksFor
<1> QED BY <1>4, <1>5, <1>6 DEF Same, Owes, Due, Fresh, Count

\* What it must see to itself.
SeesTo(s) ==
    /\ \A f \in FD : owner'[f] = s => Owned(f)' /\ Handled(f)'
    /\ \A f \in FD : owner'[f] = NoStruct /\ owner[f] = s => interest'[f] = {}
    /\ Asking(s)' /\ Pending(s)' /\ Stage(s)'

LEMMA ConnectionsStep ==
    ASSUME TypeOK, TypeOK', Connections, NEW s \in Struct, WorksFor(s),
           SeesTo(s)
    PROVE  Connections'
<1> USE Names
<1>1. \A t \in Struct : t # s => Same(t)
  BY OthersSame
<1>2. ConnectionTypeOK /\ ConnectionTypeOK'
  BY DEF TypeOK
<1>3. ASSUME NEW f \in FD PROVE Owned(f)' /\ Handled(f)'
  <2>1. CASE owner'[f] = s
    BY <2>1 DEF SeesTo
  <2>2. CASE owner'[f] = NoStruct
    <3>1. interest'[f] = {}
      <4>1. CASE owner[f] = s
        BY <2>2, <4>1 DEF SeesTo
      <4>2. CASE owner[f] # s
        <5>1. owner[f] = NoStruct /\ interest'[f] = interest[f]
          BY <2>2, <4>2 DEF WorksFor
        <5> QED BY <5>1 DEF Connections, Handled
      <4> QED BY <4>1, <4>2
    <3> QED BY <2>2, <3>1 DEF Owned, Handled
  <2>3. CASE owner'[f] \notin {s, NoStruct}
    <3>1. owner'[f] = owner[f] /\ interest'[f] = interest[f]
      BY <2>3 DEF WorksFor
    <3>2. owner[f] \in Struct \ {s}
      BY <1>2, <2>3, <3>1 DEF ConnectionTypeOK
    <3>3. PICK t \in Struct \ {s} : t = owner[f] /\ t = owner'[f]
      BY <3>1, <3>2
    <3>4. /\ stm'[t] = stm[t] /\ client_fd'[t] = client_fd[t] /\ origin_fd'[t] = origin_fd[t]
          /\ ClientOpen(t)' <=> ClientOpen(t)
          /\ OriginOpen(t)' <=> OriginOpen(t)
      BY <1>1 DEF WorksFor, Same
    <3>5. Owned(f) /\ Handled(f)
      BY DEF Connections
    <3>6. Owned(f)'
      BY <3>3, <3>4, <3>5 DEF Owned
    <3>7. Handled(f)'
      BY <3>1, <3>3, <3>4, <3>5 DEF Handled
    <3> QED BY <3>6, <3>7
  <2> QED BY <2>1, <2>2, <2>3
<1>4. ASSUME NEW f \in jobs' PROVE JobOwned(f)'
  <2>1. JobOwned(f) /\ owner[f] # s /\ f \in jobs
    BY DEF Connections, WorksFor
  <2>2. f \in FD /\ owner[f] \in Struct \ {s}
    BY <1>2, <2>1 DEF JobOwned, ConnectionTypeOK
  <2>3. owner'[f] = owner[f]
    BY <2>2 DEF WorksFor
  <2>4. PICK t \in Struct \ {s} : t = owner[f] /\ t = owner'[f]
    BY <2>2, <2>3
  <2> QED BY <2>1, <2>4 DEF JobOwned, WorksFor
<1>5. ASSUME NEW t \in Struct PROVE Asking(t)' /\ Pending(t)' /\ Stage(t)'
  <2>1. CASE t = s
    BY <2>1 DEF SeesTo
  <2>2. CASE t # s
    <3>1. /\ stm'[t] = stm[t] /\ client_fd'[t] = client_fd[t] /\ origin_fd'[t] = origin_fd[t]
          /\ rfd'[t] = rfd[t] /\ pc'[t] = pc[t] /\ (t \in unheard => t \in unheard')
          /\ jobs' \subseteq jobs
          /\ ClientOpen(t)' <=> ClientOpen(t)
          /\ Resolver(t)' <=> Resolver(t)
      BY <1>1, <2>2 DEF WorksFor, Same
    <3>2. ClientOpen(t) /\ client_fd[t] \in jobs => client_fd[t] \in jobs'
      BY <2>2 DEF WorksFor, ClientOpen
    <3>3. Asking(t) /\ Pending(t) /\ Stage(t)
      BY DEF Connections
    <3> QED BY <3>1, <3>2, <3>3 DEF Asking, Pending, Stage
  <2> QED BY <2>1, <2>2
<1> QED BY <1>3, <1>4, <1>5 DEF Connections

\* Such a step, when it takes over from main's loop or from pthread_create: the
\* users that come and go make up for each other, and for what main owes them.
Begins(s) ==
    /\ UNCHANGED memory /\ running'
    /\ \/ pc'[s] = pc[s]
       \/ {pc[s], pc'[s]} \subseteq {"none", "lookup"}
    /\ {pc[Main], pc'[Main]} \subseteq
          {"idle", "new", "pthread_create", "destroy", "take", "try", "drop"}
    /\ pc'[Main] = "drop" => cur' = s /\ references[s] >= 2
    /\ Errand'
    /\ Holders(s)' - Due(s)' = Holders(s) - Due(s)
    /\ ClientOpen(s)' \/ Owes(s)' > 0
    /\ (OriginOpen(s)' <=> OriginOpen(s)) \/ (Resolver(s)' <=> Resolver(s))

LEMMA HandlerSafe ==
    ASSUME TypeOK, TypeOK', Safe, ~Overlap', NEW s \in Struct, ClientOpen(s),
           WorksFor(s), SeesTo(s), Begins(s)
    PROVE  Sound
<1> USE Names
<1>1. Connections'
  BY ConnectionsStep DEF Safe
<1>2. \A q \in Struct : \/ pc'[q] = pc[q]
                        \/ {pc[q], pc'[q]} \subseteq {"none", "lookup", "notify", "destroy"}
  BY DEF WorksFor, Begins
<1>3. pc'[Main] = "drop" => references[cur'] >= 2
  BY DEF Begins
<1>4. /\ Unlinking' /\ PoolIsList' /\ MetricIsCount'
      /\ \A p \in Thread : Section(p)'
      /\ \A t \in Struct : Live(t)' <=> Live(t)
  BY <1>2, <1>3, MemoryKept DEF Begins
<1>5. references' = references
  BY DEF Begins, memory, shared
<1>6. \A t \in Struct : t # s => Same(t)
  BY OthersSame
<1>7. ASSUME NEW t \in Struct PROVE References(t)'
  <2>1. CASE t = s
    <3>1. Live(s) /\ ~Fresh(s) /\ references[s] + Due(s) = Holders(s)
      BY Descriptors
    <3>2. Live(s)' /\ ~Fresh(s)'
      BY <1>4, <3>1 DEF Fresh, Begins
    <3>3. references[s] \in Nat /\ references[s] >= 1
      BY <3>1, UnsignedType DEF Safe, References, TypeOK, MemoryTypeOK, SharedTypeOK
    <3>4. /\ Holders(s) \in Nat /\ Due(s) \in Nat
          /\ Holders(s)' \in Nat /\ Due(s)' \in Nat
      <4>1. \A u \in Struct : Holders(u) \in Nat /\ Due(u) \in Nat
        BY OwesType
      <4>2. \A u \in Struct : Holders(u)' \in Nat /\ Due(u)' \in Nat
        BY DEF Holders, Owes, Due, Count
      <4> QED BY <4>1, <4>2
    <3>5. references'[s] + Due(s)' = Holders(s)'
      BY <1>5, <3>1, <3>3, <3>4 DEF Begins
    <3> QED BY <1>5, <2>1, <3>2, <3>3, <3>5 DEF References, Exact
  <2>2. CASE t # s
    BY <1>4, <1>5, <1>6, <2>2, SameReferences DEF Safe
  <2> QED BY <2>1, <2>2
<1>8. Lives
  <2>1. "client" \in UsersOf(s) /\ "client" \in UsersOf(s)'
    BY DEF UsersOf, Begins
  <2>2. (OriginOpen(s)' <=> OriginOpen(s)) \/ (Resolver(s)' <=> Resolver(s))
    BY DEF Begins
  <2>3. LifeStep(s) \/ UsersOf(s)' = UsersOf(s)
    BY <2>1, <2>2, ClientStays
  <2>4. \A t \in Struct \ {s} : UsersOf(t)' = UsersOf(t)
    BY <1>6, SameUsers
  <2> QED BY <2>3, <2>4 DEF Lives
<1>9. Safe'
  BY <1>1, <1>4, <1>7 DEF Safe, Begins
<1> QED BY <1>8, <1>9 DEF Sound
-----------------------------------------------------------------------------
(* ... the end of a connection, and the steps that move it on *)

\* Main is in its loop.
LEMMA Looping ==
    ASSUME TypeOK, Ready
    PROVE  /\ pc[Main] = "idle" /\ cur = NoStruct /\ then = "idle" /\ running
           /\ \A s \in Struct : Owes(s) = 0 /\ Due(s) = 0
<1>1. pc[Main] = "idle" /\ cur = NoStruct /\ then = "idle" /\ running
  BY DEF Ready, At, TypeOK, MemoryTypeOK, CallTypeOK
<1> QED BY <1>1, Names DEF Owes, Due, Count

\* No job is queued for a connection that is not RESOLVING.
LEMMA NoJob ==
    ASSUME Safe, NEW s, stm[s] # "RESOLVING", NEW f \in jobs
    PROVE  owner[f] # s
BY DEF Safe, Connections, JobOwned

LEMMA DoneSafe ==
    ASSUME TypeOK, TypeOK', Safe, ~Overlap', NEW s \in Struct, ClientOpen(s), Ready,
           stm[s] # "RESOLVING", Done(s), UNCHANGED <<memory, jobs, resolver, server>>
    PROVE  Sound
<1> USE Names
<1>1. /\ client_fd[s] \in FD /\ owner[client_fd[s]] = s
      /\ origin_fd[s] # NoFd => OriginOpen(s) /\ origin_fd[s] \in FD
      /\ \A f \in FD : owner[f] = s => f \in {client_fd[s], origin_fd[s]}
      /\ OriginOpen(s) <=> origin_fd[s] # NoFd
  BY Descriptors DEF OriginOpen
<1>2. /\ pc[Main] = "idle" /\ cur = NoStruct /\ then = "idle" /\ running
      /\ Owes(s) = 0 /\ Due(s) = 0
  BY Looping
<1>3. /\ pc'[Main] = "destroy" /\ cur' = s
      /\ then' = IF origin_fd[s] = NoFd THEN "idle" ELSE "destroy"
      /\ \A t \in Struct : pc'[t] = pc[t]
  BY DEF Done, Calls, TypeOK, MemoryTypeOK, CallTypeOK, Thread
<1>4. /\ \A f \in FD : owner'[f] = IF owner[f] = s THEN NoStruct ELSE owner[f]
      /\ \A f \in FD : interest'[f] = IF owner[f] = s THEN {} ELSE interest[f]
      /\ UNCHANGED <<client_fd, origin_fd, jobs, rfd, unheard>>
      /\ stm'[s] = "DONE"
      /\ \A t \in Struct \ {s} : stm'[t] = stm[t]
  <2>1. \A f \in FD : f \in {client_fd[s], origin_fd[s]} <=> owner[f] = s
    BY <1>1, ConstantsAssumption DEF OriginOpen
  <2> QED BY <2>1 DEF Done, TypeOK, ConnectionTypeOK, links, resolver
<1>5. WorksFor(s)
  BY <1>2, <1>3, <1>4, NoJob DEF WorksFor
<1>6. ~ClientOpen(s)' /\ ~OriginOpen(s)' /\ (Resolver(s)' <=> Resolver(s))
  <2>1. client_fd'[s] \in FD \cup {NoFd} /\ origin_fd'[s] \in FD \cup {NoFd}
    BY DEF TypeOK, ConnectionTypeOK
  <2>2. \A f \in FD : owner'[f] # s
    BY <1>4
  <2> QED BY <1>3, <2>1, <2>2 DEF ClientOpen, OriginOpen, Resolver
<1>7. SeesTo(s)
  <2>1. pc'[s] \notin {"lookup", "notify"}
    BY <1>3 DEF Safe, Connections, Asking
  <2>2. Asking(s)' /\ Pending(s)' /\ Stage(s)'
    BY <1>6, <2>1 DEF Asking, Pending, Stage
  <2> QED BY <1>4, <2>2 DEF SeesTo
<1>8. Begins(s)
  <2>1. Errand'
    BY <1>3 DEF Errand, Destroying, Taking
  <2>2. Owes(s)' = 1 + Count(OriginOpen(s)) /\ Due(s)' = 0
    BY <1>1, <1>3 DEF Owes, Due, Count, Destroying
  <2>3. Holders(s)' = Holders(s)
    BY <1>2, <1>6, <2>2 DEF Holders, Count
  <2>4. Owes(s)' > 0
    BY <2>2 DEF Count
  <2> QED BY <1>2, <1>3, <1>6, <2>1, <2>2, <2>3, <2>4, OwesType DEF Begins, server
<1> QED BY <1>5, <1>7, <1>8, HandlerSafe

\* The handler moves on to another state, with other interests.
LEMMA MoveSafe ==
    ASSUME TypeOK, TypeOK', Safe, ~Overlap', NEW s \in Struct, ClientOpen(s), Ready,
           stm[s] # "RESOLVING", NEW st \in States \ {"DONE", "RESOLVING"},
           st \in Negotiating => stm[s] \in Negotiating,
           stm' = [stm EXCEPT ![s] = st],
           \A f \in FD : interest'[f] # interest[f] => owner[f] = s,
           \A f \in FD : owner[f] = s => Handled(f)',
           UNCHANGED <<memory, calls, owner, jobs, links, resolver, server>>
    PROVE  Sound
<1> USE Names
<1>1. /\ pc[Main] = "idle" /\ cur = NoStruct /\ then = "idle" /\ running
  BY Looping
<1>2. /\ UNCHANGED <<pc, cur, then, client_fd, origin_fd, rfd, unheard>>
      /\ \A t \in Struct : stm'[t] = IF t = s THEN st ELSE stm[t]
  BY DEF calls, links, resolver, TypeOK, ConnectionTypeOK
<1>3. WorksFor(s)
  BY <1>1, <1>2, NoJob DEF WorksFor
<1>4. (ClientOpen(s)' <=> ClientOpen(s)) /\ (OriginOpen(s)' <=> OriginOpen(s))
      /\ (Resolver(s)' <=> Resolver(s))
  BY <1>2 DEF ClientOpen, OriginOpen, Resolver
<1>5. SeesTo(s)
  <2>1. Asking(s) /\ Pending(s) /\ Stage(s)
    BY DEF Safe, Connections
  <2>2. Asking(s)' /\ Pending(s)' /\ Stage(s)'
    BY <1>2, <1>4, <2>1 DEF Asking, Pending, Stage, Negotiating
  <2>3. ASSUME NEW f \in FD, owner'[f] = s PROVE Owned(f)'
    <3>1. Owned(f)
      BY DEF Safe, Connections
    <3> QED BY <1>2, <1>4, <2>3, <3>1 DEF Owned
  <2> QED BY <2>2, <2>3 DEF SeesTo
<1>6. Begins(s)
  <2>1. Errand'
    BY <1>1, <1>2 DEF Errand, Taking
  <2>2. Owes(s)' = Owes(s) /\ Due(s)' = Due(s)
    BY <1>2 DEF Owes, Due
  <2>3. Holders(s)' = Holders(s)
    BY <1>4, <2>2 DEF Holders, Count
  <2> QED BY <1>1, <1>2, <1>4, <2>1, <2>2, <2>3 DEF Begins, server
<1> QED BY <1>3, <1>5, <1>6, HandlerSafe
-----------------------------------------------------------------------------
(* ... the steps that look for an origin *)

\* A connection that has asked for an origin, and whose thread, if it had one,
\* has notified it. `gone' is its origin, if that has just been closed.
Seeking(s, gone) ==
    /\ ClientOpen(s) /\ stm[s] \in {"REQUEST_READ", "RESOLVING", "CONNECTING"}
    /\ pc[s] \notin {"lookup", "notify"}
    /\ gone = {} \/ (origin_fd[s] # NoFd /\ gone = {origin_fd[s]})

\* The notification it was waiting for is off the list.
Served(s) ==
    /\ jobs' \subseteq jobs
    /\ \A f \in jobs \ jobs' : owner[f] = s
    /\ \A f \in jobs' : owner[f] # s

LEMMA RejectSafe ==
    ASSUME TypeOK, TypeOK', Safe, ~Overlap', running, NEW s \in Struct, NEW gone, NEW call,
           Seeking(s, gone), Served(s), Reject(s, gone, call),
           \/ Ready /\ call \in {"idle", "try"}
           \/ At(Main, "pthread_create") /\ cur = s /\ call = "drop" /\ gone = {},
           UNCHANGED <<memory, client_fd, resolver, server>>
    PROVE  Sound
<1> USE Names
<1>1. /\ client_fd[s] \in FD /\ owner[client_fd[s]] = s
      /\ origin_fd[s] # NoFd =>
           OriginOpen(s) /\ origin_fd[s] \in FD /\ origin_fd[s] # client_fd[s]
      /\ \A f \in FD : owner[f] = s => f \in {client_fd[s], origin_fd[s]}
      /\ references[s] + Due(s) = Holders(s)
      /\ ClientOpen(s) /\ (OriginOpen(s) <=> origin_fd[s] # NoFd)
  BY Descriptors DEF Seeking, OriginOpen
<1>2. /\ \A f \in FD : owner'[f] = IF f \in gone THEN NoStruct ELSE owner[f]
      /\ \A f \in FD : interest'[f] = IF f = client_fd[s] THEN {"W"}
                                      ELSE IF f = origin_fd[s] THEN {} ELSE interest[f]
      /\ client_fd' = client_fd /\ rfd' = rfd /\ unheard' = unheard
      /\ \A t \in Struct \ {s} : origin_fd'[t] = origin_fd[t] /\ stm'[t] = stm[t]
      /\ origin_fd'[s] = IF gone = {} THEN origin_fd[s] ELSE NoFd
      /\ stm'[s] = "REQUEST_WRITE"
  BY DEF Reject, Answer, Seeking, TypeOK, ConnectionTypeOK, resolver
<1>3. /\ \A t \in Struct : pc'[t] = pc[t]
      /\ pc'[Main] = IF gone = {} THEN call ELSE "destroy"
      /\ then' = IF gone = {} THEN "idle" ELSE call
      /\ cur' = IF gone = {} /\ call = "idle" THEN NoStruct ELSE s
  BY DEF Reject, AfterClosing, Calls, TypeOK, MemoryTypeOK, CallTypeOK, Thread
<1>4. /\ gone # {} => gone = {origin_fd[s]} /\ origin_fd[s] # NoFd
      /\ client_fd[s] \notin gone
  BY <1>1 DEF Seeking
<1>5. /\ Ready => pc[Main] = "idle" /\ cur = NoStruct /\ Owes(s) = 0 /\ Due(s) = 0
      /\ ~Ready => /\ pc[Main] = "pthread_create" /\ cur = s /\ then = "idle"
                   /\ Owes(s) = 1 /\ Due(s) = 0
  <2>1. ~Ready => pc[Main] = "pthread_create" /\ cur = s
    BY DEF At
  <2>2. ~Ready => then = "idle"
    BY <2>1 DEF Safe, Errand, Destroying
  <2> QED BY <2>1, <2>2, Looping DEF Owes, Due, Count
<1>6. WorksFor(s)
  <2>1. \A f \in FD : owner'[f] # owner[f] => owner[f] = s /\ owner'[f] = NoStruct
    BY <1>1, <1>2, <1>4 DEF OriginOpen
  <2>2. \A f \in FD : interest'[f] # interest[f] => owner[f] = s
    BY <1>1, <1>2, ConstantsAssumption DEF OriginOpen
  <2>3. {cur, cur'} \subseteq {s, NoStruct}
    BY <1>3, <1>5
  <2> QED BY <1>2, <1>3, <2>1, <2>2, <2>3 DEF WorksFor, Served
<1>7. /\ ClientOpen(s)' /\ (Resolver(s)' <=> Resolver(s))
      /\ OriginOpen(s)' <=> OriginOpen(s) /\ gone = {}
  BY <1>1, <1>2, <1>3, <1>4 DEF ClientOpen, OriginOpen, Resolver
<1>8. SeesTo(s)
  <2>1. Asking(s)' /\ Pending(s)' /\ Stage(s)'
    BY <1>2, <1>3 DEF Asking, Pending, Stage, Seeking, Negotiating
  <2>2. ASSUME NEW f \in FD, owner'[f] = s PROVE Owned(f)' /\ Handled(f)'
    <3>1. owner[f] = s /\ f \notin gone
      BY <1>2, <2>2
    <3>2. f = client_fd[s] \/ (f = origin_fd[s] /\ gone = {})
      BY <1>1, <1>4, <3>1
    <3>3. Owned(f)'
      <4>1. origin_fd'[s] # NoFd => OriginOpen(s)' /\ origin_fd'[s] # client_fd'[s]
        BY <1>1, <1>2, <1>7
      <4> QED BY <1>2, <1>7, <2>2, <3>2, <4>1 DEF Owned
    <3>4. Handled(f)'
      <4>1. CASE f = client_fd[s]
        BY <1>2, <2>2, <4>1 DEF Handled
      <4>2. CASE f # client_fd[s]
        <5>1. interest'[f] = {}
          BY <1>2, <3>2, <4>2
        <5> QED BY <5>1 DEF Handled
      <4> QED BY <4>1, <4>2
    <3> QED BY <3>3, <3>4
  <2>3. \A f \in FD : owner'[f] = NoStruct /\ owner[f] = s => interest'[f] = {}
    BY <1>2, <1>4
  <2> QED BY <2>1, <2>2, <2>3 DEF SeesTo
<1>9. Begins(s)
  <2>1. Errand'
    BY <1>3, <1>7 DEF Errand, Destroying, Taking
  <2>2. Owes(s)' = Owes(s) + Count(gone # {}) /\ Due(s)' = 0
    BY <1>3, <1>5 DEF Owes, Due, Count, Destroying
  <2>3. Holders(s)' = Holders(s)
    BY <1>1, <1>4, <1>5, <1>7, <2>2 DEF Holders, Count
  <2>4. pc'[Main] = "drop" => cur' = s /\ references[s] >= 2
    <3>1. ASSUME pc'[Main] = "drop" PROVE references[s] >= 2
      <4>1. Owes(s) = 1 /\ Due(s) = 0
        BY <1>3, <1>5, <3>1
      <4>2. Holders(s) >= 2
        BY <1>1, <4>1 DEF Holders, Count
      <4>3. references[s] \in Nat
        BY UnsignedType DEF TypeOK, MemoryTypeOK, SharedTypeOK
      <4> QED BY <1>1, <4>1, <4>2, <4>3
    <3> QED BY <1>3, <3>1
  <2>5. pc[Main] \in {"idle", "pthread_create"}
        /\ pc'[Main] \in {"idle", "destroy", "try", "drop"}
    BY <1>3, <1>5
  <2> QED BY <1>3, <1>5, <1>7, <2>1, <2>2, <2>3, <2>4, <2>5, OwesType DEF Begins, server
<1> QED BY <1>6, <1>8, <1>9, HandlerSafe DEF Seeking

LEMMA ConnectSafe ==
    ASSUME TypeOK, TypeOK', Safe, ~Overlap', NEW s \in Struct, NEW o \in FD, NEW gone,
           NEW oi, NEW ci, NEW st,
           Ready, Seeking(s, gone), Served(s), Connect(s, o, oi, ci, gone),
           gone = {} => origin_fd[s] = NoFd,
           \/ st = "CONNECTING" /\ oi = {"W"} /\ ci = {}
           \/ st = "REQUEST_WRITE" /\ oi = {} /\ ci = {"W"},
           stm' = [stm EXCEPT ![s] = st],
           UNCHANGED <<memory, client_fd, resolver, server>>
    PROVE  Sound
<1> USE Names
<1>1. /\ client_fd[s] \in FD /\ owner[client_fd[s]] = s
      /\ origin_fd[s] # NoFd =>
           OriginOpen(s) /\ origin_fd[s] \in FD /\ origin_fd[s] # client_fd[s]
      /\ \A f \in FD : owner[f] = s => f \in {client_fd[s], origin_fd[s]}
      /\ ClientOpen(s) /\ (OriginOpen(s) <=> origin_fd[s] # NoFd)
  BY Descriptors DEF Seeking, OriginOpen
<1>2. /\ gone # {} => gone = {origin_fd[s]} /\ origin_fd[s] # NoFd
      /\ client_fd[s] \notin gone
      /\ \A f \in FD : owner[f] = s <=> f = client_fd[s] \/ f \in gone
      /\ OriginOpen(s) <=> gone # {}
  BY <1>1, ConstantsAssumption DEF Seeking, OriginOpen
<1>3. (owner[o] = NoStruct \/ (owner[o] = s /\ o \in gone)) /\ o # client_fd[s] /\ o # NoFd
  <2>1. owner[o] = NoStruct \/ (owner[o] = s /\ o \in gone)
    BY <1>2 DEF Connect, FreeFds
  <2> QED BY <1>1, <1>2, <2>1, ConstantsAssumption
<1>4. /\ \A f \in FD : owner'[f] = IF f = o THEN s ELSE IF f \in gone THEN NoStruct ELSE owner[f]
      /\ \A f \in FD : interest'[f] = IF f = client_fd[s] THEN ci
                                      ELSE IF f = o THEN oi
                                      ELSE IF f \in gone THEN {} ELSE interest[f]
      /\ client_fd' = client_fd /\ rfd' = rfd /\ unheard' = unheard
      /\ \A t \in Struct \ {s} : origin_fd'[t] = origin_fd[t] /\ stm'[t] = stm[t]
      /\ origin_fd'[s] = o /\ stm'[s] = st
  BY DEF Connect, TypeOK, ConnectionTypeOK, resolver
<1>5. /\ \A t \in Struct : pc'[t] = pc[t]
      /\ pc'[Main] = IF gone = {} THEN "take" ELSE "destroy"
      /\ then' = IF gone = {} THEN "idle" ELSE "take"
      /\ cur' = s
  BY DEF Connect, AfterClosing, Calls, TypeOK, MemoryTypeOK, CallTypeOK, Thread
<1>6. pc[Main] = "idle" /\ cur = NoStruct /\ running /\ Owes(s) = 0 /\ Due(s) = 0
  BY Looping
<1>7. WorksFor(s)
  <2>1. \A f \in FD : owner'[f] # owner[f] => {owner[f], owner'[f]} \subseteq {s, NoStruct}
    BY <1>2, <1>3, <1>4
  <2>2. \A f \in FD : interest'[f] # interest[f] => s \in {owner[f], owner'[f]}
    BY <1>1, <1>2, <1>4
  <2> QED BY <1>4, <1>5, <1>6, <2>1, <2>2 DEF WorksFor, Served
<1>8. ClientOpen(s)' /\ OriginOpen(s)' /\ (Resolver(s)' <=> Resolver(s))
  BY <1>1, <1>2, <1>3, <1>4, <1>5, ConstantsAssumption DEF ClientOpen, OriginOpen, Resolver
<1>9. SeesTo(s)
  <2>1. Asking(s)' /\ Pending(s)' /\ Stage(s)'
    BY <1>4, <1>5 DEF Asking, Pending, Stage, Seeking, Negotiating
  <2>2. ASSUME NEW f \in FD, owner'[f] = s PROVE Owned(f)' /\ Handled(f)'
    <3>1. f = client_fd[s] \/ f = o
      BY <1>2, <1>4, <2>2
    <3>2. Owned(f)'
      BY <1>3, <1>4, <1>8, <2>2, <3>1 DEF Owned
    <3>3. Handled(f)'
      BY <1>3, <1>4, <2>2, <3>1 DEF Handled
    <3> QED BY <3>2, <3>3
  <2>3. \A f \in FD : owner'[f] = NoStruct /\ owner[f] = s => interest'[f] = {}
    BY <1>1, <1>2, <1>4
  <2> QED BY <2>1, <2>2, <2>3 DEF SeesTo
<1>10. Begins(s)
  <2>1. Errand'
    BY <1>5, <1>8 DEF Errand, Destroying, Taking
  <2>2. Owes(s)' = Count(gone # {}) /\ Due(s)' = 1
    BY <1>5 DEF Owes, Due, Count, Destroying
  <2>3. Holders(s)' = Holders(s) + 1 /\ Holders(s) \in Nat
    BY <1>1, <1>2, <1>6, <1>8, <2>2, OwesType DEF Holders, Count
  <2>4. pc'[Main] \in {"take", "destroy"}
    BY <1>5
  <2> QED BY <1>5, <1>6, <1>8, <2>1, <2>2, <2>3, <2>4 DEF Begins, server
<1> QED BY <1>7, <1>9, <1>10, HandlerSafe DEF Seeking

LEMMA ConnectsSafe ==
    ASSUME TypeOK, TypeOK', Safe, ~Overlap', NEW s \in Struct, NEW o \in FD, NEW gone, NEW log,
           Ready, Seeking(s, gone), Served(s),
           ConnectStarts(s, o, gone) \/ ConnectsAtOnce(s, o, gone, log),
           gone = {} => origin_fd[s] = NoFd,
           UNCHANGED <<memory, client_fd, resolver, server>>
    PROVE  Sound
<1>1. CASE ConnectStarts(s, o, gone)
  BY <1>1, ConnectSafe DEF ConnectStarts
<1>2. CASE ConnectsAtOnce(s, o, gone, log)
  BY <1>2, ConnectSafe DEF ConnectsAtOnce, Answer
<1> QED BY <1>1, <1>2

LEMMA NoConnectSafe ==
    ASSUME TypeOK, TypeOK', Safe, ~Overlap', NEW s \in Struct, NEW gone,
           Ready, Seeking(s, gone), Served(s),
           NoConnect(s, gone) \/ Reject(s, gone, "idle"),
           UNCHANGED <<memory, client_fd, resolver, server>>
    PROVE  Sound
<1>1. PICK call \in {"idle", "try"} : Reject(s, gone, call)
  BY DEF NoConnect
<1>2. running
  BY DEF Ready
<1> QED BY <1>1, <1>2, RejectSafe

LEMMA ConnectNextSafe ==
    ASSUME TypeOK, TypeOK', Safe, ~Overlap', NEW s \in Struct, NEW gone, NEW log,
           Ready, Seeking(s, gone), Served(s), ConnectNext(s, gone, log),
           gone = {} => origin_fd[s] = NoFd,
           UNCHANGED <<memory, client_fd, resolver, server>>
    PROVE  Sound
<1>1. CASE NoConnect(s, gone) \/ Reject(s, gone, "idle")
  BY <1>1, NoConnectSafe
<1>2. CASE \E o \in FD : ConnectStarts(s, o, gone) \/ ConnectsAtOnce(s, o, gone, log)
  BY <1>2, ConnectsSafe
<1> QED BY <1>1, <1>2 DEF ConnectNext

\* A connection that has not asked for an origin has only its client's
\* descriptor.
LEMMA ProceedSafe ==
    ASSUME TypeOK, TypeOK', Safe, ~Overlap', NEW s \in Struct, ClientOpen(s), Ready,
           stm[s] \in Negotiating, NEW st \in Negotiating, NEW a, NEW i,
           Proceed(s, st, a, i),
           i = IF st \in {"HELLO_READ", "AUTH_READ", "REQUEST_READ"} THEN {"R"} ELSE {"W"},
           UNCHANGED <<memory, jobs, resolver, server>>
    PROVE  Sound
<1>1. /\ origin_fd[s] = NoFd /\ client_fd[s] \in FD /\ owner[client_fd[s]] = s
      /\ \A f \in FD : owner[f] = s => f = client_fd[s]
  <2>1. origin_fd[s] = NoFd
    BY DEF Safe, Connections, Stage
  <2> QED BY <2>1, Descriptors, ConstantsAssumption
<1>2. /\ \A f \in FD : interest'[f] = IF f = client_fd[s] THEN i ELSE interest[f]
      /\ stm' = [stm EXCEPT ![s] = st] /\ stm'[s] = st
      /\ UNCHANGED <<calls, owner, links, client_fd>>
  BY DEF Proceed, TypeOK, ConnectionTypeOK, links
<1>3. \A f \in FD : owner[f] = s => Handled(f)'
  BY <1>1, <1>2, Names DEF Handled, Negotiating
<1>4. stm[s] # "RESOLVING" /\ st \in States \ {"DONE", "RESOLVING"}
  BY DEF Negotiating, States
<1> QED BY <1>1, <1>2, <1>3, <1>4, MoveSafe

\* The relay: the interests of both descriptors.
LEMMA RelaySafe ==
    ASSUME TypeOK, TypeOK', Safe, ~Overlap', NEW s \in Struct, ClientOpen(s), Ready,
           stm[s] \in {"REQUEST_WRITE", "COPY"}, stm' = [stm EXCEPT ![s] = "COPY"],
           interest' \in CopyInterests(s),
           UNCHANGED <<memory, calls, owner, links, jobs, resolver, server>>
    PROVE  Sound
<1>1. /\ owner[client_fd[s]] = s
      /\ origin_fd[s] # NoFd => OriginOpen(s)
  BY Descriptors
<1>2. \A f \in FD : interest'[f] # interest[f] => owner[f] = s
  <2>1. PICK x, y : interest' = [interest EXCEPT ![client_fd[s]] = x, ![origin_fd[s]] = y]
    BY DEF CopyInterests
  <2>2. \A f \in FD : interest'[f] # interest[f] => f \in {client_fd[s], origin_fd[s]}
    BY <2>1 DEF TypeOK, ConnectionTypeOK
  <2> QED BY <1>1, <2>2, ConstantsAssumption DEF OriginOpen
<1>3. \A f \in FD : owner[f] = s => Handled(f)'
  BY Names DEF Handled, TypeOK, ConnectionTypeOK
<1>4. "COPY" \in States \ {"DONE", "RESOLVING"} /\ "COPY" \notin Negotiating
  BY DEF States, Negotiating
<1> QED BY <1>2, <1>3, <1>4, MoveSafe

\* A name: references goes up, and then the thread is created.
LEMMA NameSafe ==
    ASSUME TypeOK, TypeOK', Safe, ~Overlap', NEW s \in Struct, ClientOpen(s), Ready,
           stm[s] = "REQUEST_READ", Calls(s, "take", "pthread_create"),
           UNCHANGED <<memory, items, stm, links, jobs, resolver, server>>
    PROVE  Sound
<1> USE Names
<1>1. pc[Main] = "idle" /\ cur = NoStruct /\ running /\ Owes(s) = 0 /\ Due(s) = 0
  BY Looping
<1>2. /\ \A t \in Struct : pc'[t] = pc[t]
      /\ pc'[Main] = "take" /\ then' = "pthread_create" /\ cur' = s
  BY DEF Calls, TypeOK, MemoryTypeOK, CallTypeOK, Thread
<1>3. UNCHANGED <<owner, interest, client_fd, origin_fd, rfd, unheard>>
  BY DEF items, links, resolver
<1>4. /\ ClientOpen(s)' <=> ClientOpen(s)
      /\ OriginOpen(s)' <=> OriginOpen(s)
      /\ Resolver(s)' <=> Resolver(s)
  BY <1>2, <1>3 DEF ClientOpen, OriginOpen, Resolver
<1>5. WorksFor(s)
  BY <1>1, <1>2, <1>3, NoJob DEF WorksFor
<1>6. SeesTo(s)
  <2>1. Asking(s) /\ Pending(s) /\ Stage(s) /\ \A f \in FD : Owned(f) /\ Handled(f)
    BY DEF Safe, Connections
  <2>2. Asking(s)' /\ Pending(s)' /\ Stage(s)'
    BY <1>2, <1>3, <1>4, <2>1 DEF Asking, Pending, Stage
  <2>3. ASSUME NEW f \in FD, owner'[f] = s PROVE Owned(f)' /\ Handled(f)'
    BY <1>3, <1>4, <2>1, <2>3 DEF Owned, Handled
  <2> QED BY <1>3, <2>2, <2>3 DEF SeesTo
<1>7. Begins(s)
  <2>1. Errand'
    BY <1>2, <1>4 DEF Errand, Destroying, Taking
  <2>2. Owes(s)' = 0 /\ Due(s)' = 0
    BY <1>2 DEF Owes, Due, Count, Destroying
  <2>3. Holders(s)' = Holders(s)
    BY <1>1, <1>4, <2>2 DEF Holders, Count
  <2> QED BY <1>1, <1>2, <1>4, <2>1, <2>2, <2>3 DEF Begins, server
<1> QED BY <1>5, <1>6, <1>7, HandlerSafe
-----------------------------------------------------------------------------
(* ... so that every handler keeps the invariant *)

LEMMA HandlerStepSafe ==
    ASSUME TypeOK, TypeOK', Safe, ~Overlap', NEW f \in FD, Handler(f)
    PROVE  Sound
<1> USE Names
<1>1. Ready /\ UNCHANGED <<memory, resolver, server>>
  BY DEF Handler, HelloRead, HelloWrite, AuthRead, AuthWrite, RequestRead, Resolving,
     Connecting, RequestWrite, Copy, Event
<1>2. owner[f] # NoStruct
  <2>1. f \in jobs => JobOwned(f)
    BY DEF Safe, Connections
  <2> QED BY <2>1 DEF JobOwned, Handler, HelloRead, HelloWrite, AuthRead, AuthWrite, RequestRead,
     Resolving, Connecting, RequestWrite, Copy, Event
<1>3. PICK s \in Struct : s = owner[f]
  BY <1>2, OwnerOpen
<1>4. ClientOpen(s) /\ stm[s] \in States
  BY <1>2, <1>3, OwnerOpen DEF TypeOK, ConnectionTypeOK
<1>5. Asking(s) /\ Stage(s) /\ \A g \in jobs : JobOwned(g)
  BY DEF Safe, Connections
<1>6. CASE HelloRead(f) \/ HelloWrite(f) \/ AuthRead(f) \/ AuthWrite(f)
  <2>1. /\ stm[s] \in Negotiating /\ stm[s] # "RESOLVING" /\ jobs' = jobs
        /\ \/ Done(s)
           \/ \E st \in Negotiating, a \in Methods \cup Verdicts \cup Replies, i \in SUBSET Ops :
                /\ Proceed(s, st, a, i)
                /\ i = IF st \in {"HELLO_READ", "AUTH_READ", "REQUEST_READ"}
                       THEN {"R"} ELSE {"W"}
    BY <1>3, <1>6 DEF HelloRead, HelloWrite, AuthRead, AuthWrite, Negotiating, Replies, Verdicts, Ops
  <2>2. CASE Done(s)
    BY <1>1, <1>4, <2>1, <2>2, DoneSafe
  <2>3. CASE ~Done(s)
    BY <1>1, <1>4, <2>1, <2>3, ProceedSafe
  <2> QED BY <2>2, <2>3
<1>7. CASE RequestRead(f)
  <2>1. /\ stm[s] = "REQUEST_READ" /\ jobs' = jobs
        /\ \/ Reject(s, {}, "idle") /\ UNCHANGED client_fd
           \/ NoConnect(s, {}) /\ UNCHANGED client_fd
           \/ /\ \E o \in FD : ConnectStarts(s, o, {}) \/ ConnectsAtOnce(s, o, {}, TRUE)
              /\ UNCHANGED client_fd
           \/ Calls(s, "take", "pthread_create") /\ UNCHANGED <<items, stm, links>>
           \/ Done(s)
    BY <1>3, <1>7 DEF RequestRead
  <2>2. Seeking(s, {}) /\ Served(s) /\ origin_fd[s] = NoFd
    BY <1>4, <1>5, <2>1, NoJob DEF Seeking, Served, Asking, Stage, Negotiating
  <2>3. CASE (Reject(s, {}, "idle") \/ NoConnect(s, {})) /\ UNCHANGED client_fd
    BY <1>1, <2>2, <2>3, NoConnectSafe
  <2>4. CASE /\ \E o \in FD : ConnectStarts(s, o, {}) \/ ConnectsAtOnce(s, o, {}, TRUE)
             /\ UNCHANGED client_fd
    BY <1>1, <2>2, <2>4, ConnectsSafe
  <2>5. CASE Calls(s, "take", "pthread_create") /\ UNCHANGED <<items, stm, links>>
    BY <1>1, <1>4, <2>1, <2>5, NameSafe
  <2>6. CASE Done(s)
    BY <1>1, <1>4, <2>1, <2>6, DoneSafe
  <2> QED BY <2>1, <2>3, <2>4, <2>5, <2>6
<1>8. CASE Resolving(f)
  <2>1. /\ stm[s] = "RESOLVING" /\ f \in jobs /\ jobs' = jobs \ {f}
        /\ ConnectNext(s, {}, TRUE) /\ UNCHANGED client_fd
    BY <1>3, <1>8 DEF Resolving
  <2>2. f = client_fd[s]
    BY <1>3, <1>5, <2>1 DEF JobOwned
  <2>3. Seeking(s, {}) /\ origin_fd[s] = NoFd
    BY <1>4, <1>5, <2>1, <2>2 DEF Seeking, Asking, Stage
  <2>4. Served(s)
    <3>1. \A g \in jobs' : owner[g] # s
      BY <1>5, <2>1, <2>2 DEF JobOwned
    <3> QED BY <1>3, <2>1, <3>1 DEF Served
  <2> QED BY <1>1, <2>1, <2>3, <2>4, ConnectNextSafe
<1>9. CASE Connecting(f)
  <2>1. /\ stm[s] = "CONNECTING" /\ f = origin_fd[s] /\ UNCHANGED <<client_fd, jobs>>
        /\ \/ Reject(s, {}, "idle")
           \/ ConnectNext(s, {f}, FALSE)
           \/ /\ Answer(s, "SUCCEEDED", TRUE)
              /\ interest' = [interest EXCEPT ![f] = {}, ![client_fd[s]] = {"W"}]
              /\ UNCHANGED <<calls, owner, origin_fd>>
    BY <1>3, <1>9 DEF Connecting
  <2>2. f # NoFd
    BY ConstantsAssumption
  <2>3. Seeking(s, {}) /\ Seeking(s, {f}) /\ Served(s)
    BY <1>4, <1>5, <2>1, <2>2, NoJob DEF Seeking, Served, Asking
  <2>4. CASE Reject(s, {}, "idle")
    BY <1>1, <2>1, <2>3, <2>4, NoConnectSafe
  <2>5. CASE ConnectNext(s, {f}, FALSE)
    BY <1>1, <2>1, <2>3, <2>5, ConnectNextSafe
  <2>6. CASE /\ Answer(s, "SUCCEEDED", TRUE)
             /\ interest' = [interest EXCEPT ![f] = {}, ![client_fd[s]] = {"W"}]
             /\ UNCHANGED <<calls, owner, origin_fd>>
    <3>1. /\ client_fd[s] \in FD /\ owner[client_fd[s]] = s /\ f # client_fd[s]
          /\ \A g \in FD : owner[g] = s => g \in {client_fd[s], f}
      BY <1>4, <2>1, <2>2, Descriptors
    <3>2. /\ \A g \in FD : interest'[g] = IF g = client_fd[s] THEN {"W"}
                                          ELSE IF g = f THEN {} ELSE interest[g]
          /\ stm' = [stm EXCEPT ![s] = "REQUEST_WRITE"] /\ stm'[s] = "REQUEST_WRITE"
          /\ UNCHANGED <<links, owner, client_fd, calls>>
      BY <2>1, <2>6, <3>1 DEF Answer, links, TypeOK, ConnectionTypeOK
    <3>3. \A g \in FD : owner[g] = s => Handled(g)'
      BY <3>1, <3>2 DEF Handled
    <3>4. \A g \in FD : interest'[g] # interest[g] => owner[g] = s
      BY <1>3, <3>1, <3>2
    <3>5. "REQUEST_WRITE" \in States \ {"DONE", "RESOLVING"} /\ "REQUEST_WRITE" \notin Negotiating
      BY DEF States, Negotiating
    <3> QED BY <1>1, <1>4, <2>1, <3>2, <3>3, <3>4, <3>5, MoveSafe
  <2> QED BY <2>1, <2>4, <2>5, <2>6
<1>10. CASE RequestWrite(f) \/ \E op \in Ops : Copy(f, op)
  <2>1. /\ stm[s] \in {"REQUEST_WRITE", "COPY"} /\ jobs' = jobs
        /\ \/ Done(s)
           \/ /\ stm' = [stm EXCEPT ![s] = "COPY"] /\ interest' \in CopyInterests(s)
              /\ UNCHANGED <<calls, owner, links>>
    BY <1>3, <1>10 DEF RequestWrite, Copy, TypeOK, ConnectionTypeOK
  <2>2. CASE Done(s)
    BY <1>1, <1>4, <2>1, <2>2, DoneSafe
  <2>3. CASE ~Done(s)
    BY <1>1, <1>4, <2>1, <2>3, RelaySafe
  <2> QED BY <2>2, <2>3
<1> QED BY <1>6, <1>7, <1>8, <1>9, <1>10 DEF Handler
-----------------------------------------------------------------------------
(* ... and the steps that begin a connection, *)

LEMMA IncomingSafe ==
    ASSUME TypeOK, TypeOK', Safe, ~Overlap', Incoming
    PROVE  Sound
<1> USE Names
<1>1. pc[Main] = "idle" /\ cur = NoStruct /\ running
  BY Looping DEF Incoming
<1>2. /\ pc'[Main] = "new" /\ cur' = NoStruct /\ then' = "idle"
      /\ \A t \in Struct : pc'[t] = pc[t]
      /\ UNCHANGED <<memory, items, owner, jobs, stm, links, resolver, server>>
  BY DEF Incoming, Calls, items, TypeOK, MemoryTypeOK, CallTypeOK, Thread
<1>3. Connections'
  <2>1. \A s \in Struct : /\ pc'[s] \in {"lookup", "notify"} <=> pc[s] \in {"lookup", "notify"}
                          /\ Resolver(s)' => Resolver(s)
    BY <1>2 DEF Resolver
  <2> QED BY <1>2, <2>1, ConnectionsKept DEF TypeOK, Safe
<1>4. /\ Unlinking' /\ PoolIsList' /\ MetricIsCount'
      /\ \A p \in Thread : Section(p)'
      /\ \A t \in Struct : Live(t)' <=> Live(t)
  BY <1>1, <1>2, MemoryKept
<1>5. \A t \in Struct : Same(t)
  BY <1>1, <1>2 DEF Same, ClientOpen, OriginOpen, Resolver, Owes, Due, Fresh, Count, links
<1>6. \A t \in Struct : References(t)'
  BY <1>2, <1>4, <1>5, SameReferences DEF Safe, memory, shared
<1>7. Errand'
  BY <1>2 DEF Errand, Taking
<1>8. Safe'
  BY <1>1, <1>2, <1>3, <1>4, <1>6, <1>7 DEF Safe, server
<1> QED BY <1>5, <1>8, SameUsers DEF Sound, Lives

\* socks5_new's memset, and the registration of the client's descriptor or not.
LEMMA AcceptSafe ==
    ASSUME TypeOK, TypeOK', Safe, ~Overlap', NEW f \in FD, Accept(f) \/ AcceptRefused(f)
    PROVE  Sound
<1> USE Names
<1>1. /\ Cleared(f) /\ owner[f] = NoStruct /\ pc[Main] = "register" /\ running
      /\ \/ /\ owner' = [owner EXCEPT ![f] = cur]
            /\ interest' = [interest EXCEPT ![f] = {"R"}]
            /\ Calls(cur, "idle", "idle")
         \/ Calls(cur, "destroy", "idle") /\ UNCHANGED items
  BY DEF Accept, AcceptRefused, Cleared, At, FreeFds
<1>2. cur \in Struct /\ then = "idle"
  BY <1>1 DEF TypeOK, MemoryTypeOK, CallTypeOK, Safe, Errand, Destroying
<1>3. PICK s \in Struct : s = cur
  BY <1>2
<1>4. Fresh(s) /\ References(s)
  BY <1>1, <1>3 DEF Fresh, Safe
<1>5. Live(s) /\ ~ClientOpen(s) /\ ~OriginOpen(s) /\ ~Resolver(s) /\ \A g \in FD : owner[g] # s
  <2>1. ~ClientOpen(s) /\ ~OriginOpen(s) /\ ~Resolver(s) /\ Live(s)
    BY <1>4 DEF References, Unused
  <2> QED BY <2>1, OwnerOpen
<1>6. PICK first \in {"idle", "destroy"} :
        /\ pc'[Main] = first /\ then' = "idle"
        /\ cur' = IF first = "idle" THEN NoStruct ELSE s
        /\ \A t \in Struct : pc'[t] = pc[t]
        /\ first = "idle" => /\ owner' = [owner EXCEPT ![f] = s]
                             /\ interest' = [interest EXCEPT ![f] = {"R"}]
        /\ first = "destroy" => UNCHANGED <<owner, interest>>
  BY <1>1, <1>3 DEF Calls, items, TypeOK, MemoryTypeOK, CallTypeOK, Thread
<1>7. /\ \A g \in FD : owner'[g] = IF g = f /\ first = "idle" THEN s ELSE owner[g]
      /\ \A g \in FD : interest'[g] = IF g = f /\ first = "idle" THEN {"R"} ELSE interest[g]
  BY <1>6 DEF TypeOK, ConnectionTypeOK
<1>8. /\ references'[s] = 1 /\ next'[s] = NoStruct /\ stm'[s] = "HELLO_READ"
      /\ client_fd'[s] = f /\ origin_fd'[s] = NoFd
      /\ \A t \in Struct \ {s} :
           /\ references'[t] = references[t] /\ next'[t] = next[t] /\ stm'[t] = stm[t]
           /\ client_fd'[t] = client_fd[t] /\ origin_fd'[t] = origin_fd[t]
           /\ t \in unheard => t \in unheard'
      /\ UNCHANGED <<allocated, pool, pool_size, concurrent, reg, top, jobs, rfd, running>>
  BY <1>1, <1>3 DEF Cleared, registers, server, TypeOK, MemoryTypeOK, SharedTypeOK,
     ConnectionTypeOK
<1>9. Pooled' = Pooled /\ ListEnds' /\ s \notin Pooled
  <2>1. s \notin Pooled
    BY <1>5 DEF Live
  <2>2. SharedTypeOK /\ SharedTypeOK' /\ ListEnds /\ Pooled \subseteq Struct
    BY ReachStruct DEF TypeOK, MemoryTypeOK, Safe, PoolIsList, Pooled
  <2>3. \A t \in Pooled : next'[t] = next[t]
    BY <1>8, <2>1, <2>2
  <2> QED BY <1>8, <2>1, <2>2, <2>3, PoolFrame
<1>10. \A t \in Struct : Live(t)' <=> Live(t)
  BY <1>8, <1>9 DEF Live
<1>11. WorksFor(s)
  <2>1. \A g \in jobs : owner[g] # s
    BY <1>5 DEF Safe, Connections, JobOwned
  <2> QED BY <1>1, <1>3, <1>6, <1>7, <1>8, <2>1 DEF WorksFor
<1>12. /\ ~Resolver(s)' /\ ~OriginOpen(s)' /\ ~Fresh(s)'
       /\ ClientOpen(s)' <=> first = "idle"
  BY <1>1, <1>3, <1>5, <1>6, <1>7, <1>8, ConstantsAssumption
     DEF Resolver, OriginOpen, Fresh, ClientOpen
<1>13. Connections'
  <2>1. Asking(s)' /\ Pending(s)' /\ Stage(s)'
    BY <1>8, <1>12 DEF Asking, Pending, Stage, Negotiating, Resolver
  <2>2. ASSUME NEW g \in FD, owner'[g] = s PROVE Owned(g)' /\ Handled(g)'
    BY <1>5, <1>7, <1>8, <1>12, <2>2 DEF Owned, Handled
  <2>3. SeesTo(s)
    BY <1>5, <2>1, <2>2 DEF SeesTo
  <2> QED BY <1>11, <2>3, ConnectionsStep DEF Safe
<1>14. ASSUME NEW t \in Struct PROVE References(t)'
  <2>1. CASE t = s
    <3>1. Owes(s)' = Count(first = "destroy") /\ Due(s)' = 0
      BY <1>6 DEF Owes, Due, Count, Destroying
    <3>2. Holders(s)' = 1
      BY <1>12, <3>1 DEF Holders, Count
    <3> QED BY <1>5, <1>8, <1>10, <1>12, <2>1, <3>1, <3>2 DEF References, Exact
  <2>2. CASE t # s
    <3>1. Same(t)
      BY <1>11, <2>2, OthersSame
    <3> QED BY <1>8, <1>10, <2>2, <3>1, SameReferences DEF Safe
  <2> QED BY <2>1, <2>2
<1>15. Errand' /\ Unlinking'
  BY <1>6 DEF Errand, Unlinking, Destroying, Taking
<1>16. ASSUME NEW p \in Thread PROVE Section(p)'
  <2>1. CASE p = Main
    BY <1>6, <2>1 DEF Section, LastCall
  <2>2. CASE p # Main
    <3>1. /\ Subject(p) = p /\ Subject(p)' = p /\ p \in Struct /\ Section(p)
          /\ pc'[p] = pc[p] /\ pc[p] \in Steps
      BY <1>6, <2>2 DEF Subject, Thread, Safe, TypeOK, MemoryTypeOK, CallTypeOK
    <3>2. p = s => pc[p] \notin {"drop", "drop_store"} \cup LastCall
      BY <1>5 DEF Resolver, Destroying, LastCall
    <3>3. pc[p] \notin {"take_store", "try_store", "opened_store", "shrink_store"}
      BY <3>1 DEF Steps, DestroySteps
    <3> QED BY <1>8, <3>1, <3>2, <3>3 DEF Section, LastCall
  <2> QED BY <2>1, <2>2
<1>17. PoolIsList'
  <2>1. SizeIsLength'
    BY <1>1, <1>6, <1>8, <1>9, SizeKept DEF Safe, PoolIsList, Growing, Shrinking, Thread
  <2> QED BY <1>8, <1>9, <2>1 DEF Safe, PoolIsList
<1>18. MetricIsCount'
  <2>1. \A t \in Struct : Counted(t)' <=> Counted(t)
    BY <1>1, <1>6, <1>10, MainCounted DEF Late, Early
  <2> QED BY <1>8, <2>1, MetricKept DEF Safe
<1>19. Lives
  <2>1. \A t \in Struct \ {s} : UsersOf(t)' = UsersOf(t)
    BY <1>11, OthersSame, SameUsers
  <2>2. Owes(s)' = Count(first = "destroy")
    BY <1>6 DEF Owes, Count, Destroying
  <2>3. UsersOf(s)' = UsersOf(s)
    BY <1>4, <1>5, <1>12, <2>2 DEF UsersOf, Count
  <2> QED BY <2>1, <2>3 DEF Lives
<1>20. Safe'
  BY <1>1, <1>8, <1>13, <1>14, <1>15, <1>16, <1>17, <1>18 DEF Safe
<1> QED BY <1>19, <1>20 DEF Sound
-----------------------------------------------------------------------------
(* ... the resolver thread, from its creation to socks5_destroy, *)

LEMMA PthreadCreateSafe ==
    ASSUME TypeOK, TypeOK', Safe, ~Overlap', PthreadCreate
    PROVE  Sound
<1> USE Names
<1>1. /\ running /\ At(Main, "pthread_create") /\ pc[Main] = "pthread_create"
      /\ UNCHANGED <<memory, jobs, unheard, server>>
  BY DEF PthreadCreate, At
<1>2. cur \in Struct /\ then = "idle" /\ ClientOpen(cur) /\ stm[cur] = "REQUEST_READ"
  BY <1>1 DEF TypeOK, MemoryTypeOK, CallTypeOK, Safe, Errand, Destroying
<1>3. PICK s \in Struct : s = cur
  BY <1>2
<1>4. /\ ClientOpen(s) /\ stm[s] = "REQUEST_READ" /\ Asking(s) /\ Stage(s)
      /\ \A g \in jobs : owner[g] # s
  BY <1>2, <1>3, NoJob DEF Safe, Connections
<1>5. CASE Reject(s, {}, "drop") /\ UNCHANGED <<client_fd, rfd>>
  <2>1. Seeking(s, {}) /\ Served(s)
    BY <1>1, <1>4 DEF Seeking, Served, Asking
  <2>2. UNCHANGED <<memory, client_fd, resolver, server>>
    BY <1>1, <1>5 DEF resolver
  <2> QED BY <1>1, <1>3, <1>5, <2>1, <2>2, RejectSafe
<1>6. CASE /\ At(s, "none")
           /\ pc' = [pc EXCEPT ![Main] = "idle", ![s] = "lookup"]
           /\ cur' = NoStruct /\ then' = "idle"
           /\ rfd' = [rfd EXCEPT ![s] = client_fd[s]]
           /\ stm' = [stm EXCEPT ![s] = "RESOLVING"]
           /\ interest' = [interest EXCEPT ![client_fd[s]] = {}]
           /\ UNCHANGED <<owner, links>>
  <2>1. /\ client_fd[s] \in FD /\ owner[client_fd[s]] = s /\ origin_fd[s] = NoFd
        /\ \A f \in FD : owner[f] = s => f = client_fd[s]
        /\ ~Resolver(s)
    <3>1. origin_fd[s] = NoFd /\ ~Resolver(s)
      BY <1>4 DEF Stage, Negotiating
    <3> QED BY <1>4, <3>1, Descriptors, ConstantsAssumption
  <2>2. /\ pc[s] = "none" /\ pc'[s] = "lookup" /\ pc'[Main] = "idle"
        /\ \A t \in Struct \ {s} : pc'[t] = pc[t] /\ rfd'[t] = rfd[t] /\ stm'[t] = stm[t]
        /\ rfd'[s] = client_fd[s] /\ stm'[s] = "RESOLVING"
        /\ \A f \in FD : interest'[f] = IF f = client_fd[s] THEN {} ELSE interest[f]
        /\ UNCHANGED <<client_fd, origin_fd>>
    <3>1. /\ pc \in [Thread -> Steps \cup MainSteps] /\ rfd \in [Struct -> FD \cup {NoFd}]
          /\ stm \in [Struct -> States] /\ interest \in [FD -> SUBSET Ops]
      BY DEF TypeOK, MemoryTypeOK, CallTypeOK, ConnectionTypeOK
    <3>2. /\ pc[s] = "none" /\ pc'[s] = "lookup" /\ pc'[Main] = "idle"
          /\ \A t \in Struct \ {s} : pc'[t] = pc[t]
      BY <1>6, <3>1 DEF At, Thread
    <3>3. /\ \A t \in Struct \ {s} : rfd'[t] = rfd[t] /\ stm'[t] = stm[t]
          /\ rfd'[s] = client_fd[s] /\ stm'[s] = "RESOLVING"
      BY <1>6, <3>1
    <3>4. \A f \in FD : interest'[f] = IF f = client_fd[s] THEN {} ELSE interest[f]
      BY <1>6, <3>1
    <3> QED BY <1>6, <3>2, <3>3, <3>4 DEF links
  <2>3. WorksFor(s)
    <3>1. /\ owner' = owner /\ jobs' = jobs /\ unheard' = unheard
          /\ {cur, cur'} \subseteq {s, NoStruct} /\ \A f \in jobs : owner[f] # s
      BY <1>1, <1>3, <1>4, <1>6
    <3>2. \A f \in FD : interest'[f] # interest[f] => s \in {owner[f], owner'[f]}
      BY <2>1, <2>2
    <3>3. \A t \in Struct \ {s} :
            /\ stm'[t] = stm[t] /\ client_fd'[t] = client_fd[t] /\ origin_fd'[t] = origin_fd[t]
            /\ rfd'[t] = rfd[t] /\ pc'[t] = pc[t] /\ (t \in unheard => t \in unheard')
      BY <2>2, <3>1
    <3> QED BY <3>1, <3>2, <3>3 DEF WorksFor
  <2>4. ClientOpen(s)' /\ ~OriginOpen(s)' /\ ~OriginOpen(s) /\ Resolver(s)'
    BY <1>4, <1>6, <2>1, <2>2 DEF ClientOpen, OriginOpen, Resolver
  <2>5. SeesTo(s)
    <3>1. client_fd[s] \notin jobs
      BY <1>4, <2>1
    <3>2. Asking(s)' /\ Pending(s)' /\ Stage(s)'
      BY <1>1, <2>1, <2>2, <2>4, <3>1 DEF Asking, Pending, Stage, Negotiating
    <3>3. ASSUME NEW f \in FD, owner'[f] = s PROVE Owned(f)' /\ Handled(f)'
      BY <1>6, <2>1, <2>2, <2>4, <3>3 DEF Owned, Handled
    <3> QED BY <1>6, <3>2, <3>3 DEF SeesTo
  <2>6. Begins(s)
    <3>1. Errand'
      BY <1>6, <2>2 DEF Errand, Taking
    <3>2. Owes(s) = 1 /\ Owes(s)' = 0 /\ Due(s) = 0 /\ Due(s)' = 0
      BY <1>1, <1>2, <1>3, <1>6, <2>2 DEF Owes, Due, Count
    <3>3. Holders(s)' = Holders(s)
      BY <1>4, <2>1, <2>4, <3>2 DEF Holders, Count
    <3> QED BY <1>1, <2>2, <2>4, <3>1, <3>2, <3>3 DEF Begins, server
  <2> QED BY <1>4, <2>3, <2>5, <2>6, HandlerSafe
<1> QED BY <1>3, <1>5, <1>6 DEF PthreadCreate

LEMMA LookupSafe ==
    ASSUME TypeOK, TypeOK', Safe, ~Overlap', NEW s \in Struct, Lookup(s)
    PROVE  Sound
<1> USE Names
<1>1. /\ pc[s] = "lookup" /\ Goto(s, "notify") /\ running
      /\ UNCHANGED <<memory, items, owner, jobs, stm, links, resolver, server>>
  BY DEF Lookup, At, items
<1>2. /\ pc'[s] = "notify" /\ pc'[Main] = pc[Main] /\ cur' = cur
      /\ \A t \in Struct \ {s} : pc'[t] = pc[t]
  BY <1>1 DEF Goto, TypeOK, MemoryTypeOK, CallTypeOK, Thread
<1>3. Connections'
  <2>1. \A t \in Struct : /\ pc'[t] \in {"lookup", "notify"} <=> pc[t] \in {"lookup", "notify"}
                          /\ Resolver(t)' => Resolver(t)
    BY <1>1, <1>2 DEF Resolver
  <2> QED BY <1>1, <2>1, ConnectionsKept DEF TypeOK, Safe
<1>4. /\ Unlinking' /\ PoolIsList' /\ MetricIsCount'
      /\ \A p \in Thread : Section(p)'
      /\ \A t \in Struct : Live(t)' <=> Live(t)
  BY <1>1, <1>2, MemoryKept
<1>5. \A t \in Struct : Same(t)
  BY <1>1, MoveSame DEF TypeOK, MemoryTypeOK, Thread, Destroying, FreshSteps
<1>6. \A t \in Struct : References(t)'
  BY <1>1, <1>4, <1>5, SameReferences DEF Safe, memory, shared
<1>7. Errand'
  BY <1>1, ErrandMove DEF TypeOK, MemoryTypeOK, Thread, Safe
<1>8. Safe'
  BY <1>1, <1>3, <1>4, <1>6, <1>7 DEF Safe, server
<1> QED BY <1>5, <1>8, SameUsers DEF Sound, Lives

LEMMA NotifySafe ==
    ASSUME TypeOK, TypeOK', Safe, ~Overlap', NEW s \in Struct, Notify(s)
    PROVE  Sound
<1> USE Names
<1>1. /\ pc[s] = "notify" /\ Goto(s, "destroy") /\ running
      /\ UNCHANGED <<memory, items, owner, interest, stm, links, client_fd, origin_fd, rfd, server>>
      /\ \/ jobs' = jobs \cup {rfd[s]} /\ unheard' = unheard
         \/ jobs' = jobs /\ unheard' = unheard \cup {s}
  BY DEF Notify, At, items, links
<1>2. /\ pc'[s] = "destroy" /\ pc'[Main] = pc[Main] /\ cur' = cur /\ then' = then
      /\ \A t \in Struct \ {s} : pc'[t] = pc[t]
  BY <1>1 DEF Goto, TypeOK, MemoryTypeOK, CallTypeOK, Thread
<1>3. \A t \in Struct : Same(t)
  BY <1>1, <1>2 DEF Same, ClientOpen, OriginOpen, Resolver, Owes, Due, Fresh, Count, Destroying
<1>4. Connections'
  <2>1. ConnectionTypeOK /\ Connections
    BY DEF TypeOK, Safe
  <2>2. stm[s] = "RESOLVING" /\ ClientOpen(s) /\ rfd[s] = client_fd[s]
    BY <1>1, <2>1 DEF Connections, Asking
  <2>3. rfd[s] \in FD /\ owner[rfd[s]] = s
    BY <2>1, <2>2 DEF ClientOpen, ConnectionTypeOK
  <2>4. ASSUME NEW f \in FD PROVE Owned(f)' /\ Handled(f)'
    BY <1>1, <2>1 DEF Connections, Owned, Handled, ClientOpen, OriginOpen
  <2>5. ASSUME NEW f \in jobs' PROVE JobOwned(f)'
    BY <1>1, <2>1, <2>2, <2>3 DEF Connections, JobOwned
  <2>6. ASSUME NEW t \in Struct PROVE Asking(t)' /\ Pending(t)' /\ Stage(t)'
    <3>1. Asking(t) /\ Pending(t) /\ Stage(t) /\ Same(t)
      BY <1>3, <2>1 DEF Connections
    <3>2. CASE t = s
      BY <1>1, <1>2, <2>2, <3>1, <3>2 DEF Asking, Pending, Stage, Same
    <3>3. CASE t # s
      <4>1. ClientOpen(t) => client_fd[t] # rfd[s]
        BY <2>3, <3>3 DEF ClientOpen
      <4>2. pc'[t] = pc[t] /\ jobs \subseteq jobs' /\ jobs' \subseteq jobs \cup {rfd[s]}
            /\ unheard \subseteq unheard'
        BY <1>1, <1>2, <3>3
      <4> QED BY <1>1, <3>1, <4>1, <4>2 DEF Asking, Pending, Stage, Same
    <3> QED BY <3>2, <3>3
  <2> QED BY <2>4, <2>5, <2>6 DEF Connections
<1>5. /\ Unlinking' /\ PoolIsList' /\ MetricIsCount'
      /\ \A p \in Thread : Section(p)'
      /\ \A t \in Struct : Live(t)' <=> Live(t)
  BY <1>1, <1>2, MemoryKept
<1>6. \A t \in Struct : References(t)'
  BY <1>1, <1>3, <1>5, SameReferences DEF Safe, memory, shared
<1>7. Errand'
  BY <1>1, ErrandMove DEF TypeOK, MemoryTypeOK, Thread, Safe
<1>8. Safe'
  BY <1>1, <1>4, <1>5, <1>6, <1>7 DEF Safe, server
<1> QED BY <1>3, <1>8, SameUsers DEF Sound, Lives
-----------------------------------------------------------------------------
(* ... and main's loop: there is nothing left when it ends. *)

LEMMA NothingLeft ==
    ASSUME TypeOK, Safe, Ready, concurrent = 0
    PROVE  Stopped
<1> USE Names
<1>1. pc[Main] = "idle" /\ cur = NoStruct
  BY Looping
<1>2. \A s \in Struct : ~Counted(s)
  <2> DEFINE C == {s \in Struct : Counted(s)}
  <2>1. IsFiniteSet(C) /\ Cardinality(C) = 0
    BY CountedFinite DEF Safe, MetricIsCount
  <2> HIDE DEF C
  <2>2. C = {}
    BY <2>1, FS_EmptySet
  <2> QED BY <2>2 DEF C
<1>3. \A s \in Struct : Live(s) => pc[s] \in Late
  BY <1>1, <1>2 DEF Counted, Late, Subject, Thread
<1>4. \A s \in Struct : ~ClientOpen(s)
  <2> SUFFICES ASSUME NEW s \in Struct, ClientOpen(s) PROVE FALSE
    OBVIOUS
  <2>1. pc[s] \in Late
    BY <1>3, Descriptors
  <2>2. s \in Thread /\ Subject(s) = s /\ Section(s)
    BY DEF Thread, Subject, Safe
  <2>3. pc[s] \in Destroying /\ references[Subject(s)] = 1
    BY <2>1, <2>2 DEF Section, LastCall, Late, Destroying
  <2> QED BY <2>2, <2>3, LastHolder
<1>5. \A f \in FD : owner[f] = NoStruct
  BY <1>4, OwnerOpen
<1>6. jobs = {}
  BY <1>5 DEF Safe, Connections, JobOwned
<1>7. ASSUME NEW s \in Struct
      PROVE  pc[s] \in {"none", "room", "link", "push", "grow", "grow_store"}
  <2>1. pc[s] \in Steps /\ s \in Thread /\ Subject(s) = s
    BY DEF TypeOK, MemoryTypeOK, CallTypeOK, Thread, Subject
  <2>2. pc[s] \notin {"lookup", "notify"}
    BY <1>4 DEF Safe, Connections, Asking
  <2>3. pc[s] \in Destroying => pc[s] \in Late
    BY <1>3, <2>1, Holding
  <2> QED BY <2>1, <2>2, <2>3 DEF Steps, DestroySteps, Destroying, Late
<1> QED BY <1>5, <1>6, <1>7 DEF Stopped

LEMMA LoopSafe ==
    ASSUME TypeOK, TypeOK', Safe, ~Overlap', Shutdown \/ Exit \/ UNCHANGED vars
    PROVE  Sound
<1> USE Names
<1>1. /\ UNCHANGED <<memory, pc, cur, then, items, owner, jobs, stm, links, resolver>>
      /\ \/ running' /\ running
         \/ ~running /\ ~running'
         \/ Ready /\ concurrent = 0
  BY DEF Shutdown, Exit, Ready, vars, calls, items, server, TypeOK, ConnectionTypeOK
<1>2. Connections'
  BY <1>1, ConnectionsKept DEF TypeOK, Safe, Resolver
<1>3. /\ Unlinking' /\ PoolIsList' /\ MetricIsCount'
      /\ \A p \in Thread : Section(p)'
      /\ \A t \in Struct : Live(t)' <=> Live(t)
  BY <1>1, MemoryKept
<1>4. \A t \in Struct : Same(t)
  BY <1>1 DEF Same, ClientOpen, OriginOpen, Resolver, Owes, Due, Fresh, links
<1>5. \A t \in Struct : References(t)'
  BY <1>1, <1>3, <1>4, SameReferences DEF Safe, memory, shared
<1>6. Errand'
  BY <1>1 DEF Safe, Errand, ClientOpen, OriginOpen, links
<1>7. running' \/ Stopped'
  <2>1. running \/ Stopped
    BY DEF Safe
  <2>2. Stopped => Stopped'
    BY <1>1 DEF Stopped
  <2> QED BY <1>1, <2>1, <2>2, NothingLeft
<1>8. Safe'
  BY <1>2, <1>3, <1>5, <1>6, <1>7 DEF Safe
<1> QED BY <1>4, <1>8, SameUsers DEF Sound, Lives
-----------------------------------------------------------------------------
(* The invariant *)

LEMMA NextSound ==
    ASSUME TypeOK, TypeOK', Safe, ~Overlap', [Next]_vars
    PROVE  Sound
<1>1. CASE Incoming
  BY <1>1, IncomingSafe
<1>2. ASSUME NEW f \in FD, Accept(f) \/ AcceptRefused(f)
      PROVE  Sound
  BY <1>2, AcceptSafe
<1>3. CASE PthreadCreate
  BY <1>3, PthreadCreateSafe
<1>4. ASSUME NEW p \in Thread, SharedStep(p)
      PROVE  Sound
  BY <1>4, SharedSound
<1>5. ASSUME NEW f \in FD, Handler(f)
      PROVE  Sound
  BY <1>5, HandlerStepSafe
<1>6. ASSUME NEW s \in Struct, Lookup(s) \/ Notify(s)
      PROVE  Sound
  BY <1>6, LookupSafe, NotifySafe
<1>7. CASE Shutdown \/ Exit \/ Idle \/ UNCHANGED vars
  BY <1>7, LoopSafe DEF Idle
<1> QED BY <1>1, <1>2, <1>3, <1>4, <1>5, <1>6, <1>7
        DEF Next, MainCall, ResolverThread, Thread

LEMMA Recorded == [Next]_vars => Record \/ UNCHANGED vars
BY DEF Next, Incoming, MainCall, Accept, AcceptRefused, PthreadCreate, SharedStep, Handler,
   HelloRead, HelloWrite, AuthRead, AuthWrite, RequestRead, Resolving, Connecting,
   RequestWrite, Copy, ResolverThread, Lookup, Notify, Shutdown, Exit, Idle

\* As long as no two sections overlap none has overlapped before.
LEMMA Unraced ==
    ASSUME IInv, [Next]_vars, ~raced'
    PROVE  Safe /\ ~Overlap'
<1>1. CASE Record
  BY <1>1 DEF Record, IInv
<1>2. CASE UNCHANGED vars
  BY <1>2 DEF vars, memory, registers, calls, IInv, Safe, Overlap, InReferences, InMetric,
     InPool, Subject
<1> QED BY <1>1, <1>2, Recorded

LEMMA InvNext == IInv /\ [Next]_vars => IInv'
<1> SUFFICES ASSUME IInv, [Next]_vars PROVE IInv'
  OBVIOUS
<1>1. TypeOK /\ TypeOK'
  BY NextType DEF IInv
<1>2. ~raced' => Safe'
  BY <1>1, Unraced, NextSound DEF Sound
<1> QED BY <1>1, <1>2 DEF IInv

LEMMA InvInit == Init => IInv
<1> SUFFICES ASSUME Init PROVE IInv
  OBVIOUS
<1> USE Names
<1>1. TypeOK
  BY InitType
<1>2. /\ pc[Main] = "idle" /\ \A s \in Struct : pc[s] = "none"
      /\ cur = NoStruct /\ then = "idle" /\ pool = NoStruct
      /\ pool_size = 0 /\ concurrent = 0 /\ allocated = {}
      /\ \A f \in FD : owner[f] = NoStruct /\ interest[f] = {}
      /\ jobs = {} /\ running
  BY DEF Init, MemoryInit, Thread
<1>3. \A p \in Thread : pc[p] \in {"idle", "none"}
  BY <1>2 DEF Thread
<1>4. \A s \in Struct : ~ClientOpen(s) /\ ~OriginOpen(s) /\ ~Resolver(s) /\ ~Fresh(s)
                        /\ Owes(s) = 0 /\ ~Live(s)
  <2> SUFFICES ASSUME NEW s \in Struct
               PROVE  ~ClientOpen(s) /\ ~OriginOpen(s) /\ ~Resolver(s) /\ ~Fresh(s)
                      /\ Owes(s) = 0 /\ ~Live(s)
    OBVIOUS
  <2>1. client_fd[s] \in FD \cup {NoFd} /\ origin_fd[s] \in FD \cup {NoFd}
    BY <1>1 DEF TypeOK, ConnectionTypeOK
  <2> QED BY <1>2, <2>1 DEF ClientOpen, OriginOpen, Resolver, Fresh, Owes, Live, Destroying
<1>5. \A s \in Struct : References(s)
  BY <1>4 DEF References, Exact, Unused, Holders, Count
<1>6. Connections
  BY <1>2, <1>4 DEF Connections, Owned, Handled, Asking, Pending, Stage
<1>7. \A p \in Thread : Section(p)
  BY <1>3 DEF Section, LastCall
<1>8. Unlinking /\ Errand /\ ~Overlap
  BY <1>2, <1>3 DEF Unlinking, Errand, Overlap, InReferences, InMetric, InPool, Taking
<1>9. PoolIsList
  <2>1. Pooled = {}
    BY <1>2, ReachNone DEF Pooled
  <2> QED BY <1>2, <1>3, <2>1, FS_EmptySet, MemoryAssumption
          DEF PoolIsList, ListEnds, SizeIsLength, Count
<1>10. MetricIsCount
  <2>1. {s \in Struct : Counted(s)} = {}
    BY <1>4 DEF Counted
  <2> QED BY <1>2, <2>1, FS_EmptySet DEF MetricIsCount
<1>11. running
  BY <1>2
<1> QED BY <1>1, <1>5, <1>6, <1>7, <1>8, <1>9, <1>10, <1>11 DEF IInv, Safe

LEMMA Invariant == Spec => []IInv
BY InvInit, InvNext, PTL DEF Spec
-----------------------------------------------------------------------------
(* The theorems. None assumes anything of the threads: each says what holds   *)
(* in every behaviour until two sections overlap, and so that nothing else    *)
(* can break it.                                                              *)

\* references is the number of those who will still use the struct: its two
\* descriptors, its thread, and main for the calls it still owes
\* (references++ of request_connect_sockaddr and request_start_resolution,
\* socks5_destroy).
THEOREM CountsAreExact == Spec => []RefsExact
<1>1. IInv => RefsExact
  BY DEF IInv, Safe, References, RefsExact
<1> QED BY <1>1, Invariant, PTL

\* No descriptor, no thread and no call of main's leads to a struct that is in
\* the pool or freed (socks5_destroy).
THEOREM NoUseAfterFree == Spec => []FreeIsUnused
<1>1. IInv => FreeIsUnused
  BY DEF IInv, Safe, References, FreeIsUnused
<1> QED BY <1>1, Invariant, PTL

\* The pool's list ends, has no struct twice, and holds allocated blocks only
\* (socks5_new, socks5_destroy, socksv5_pool_destroy).
THEOREM NoDoubleFree == Spec => []PoolDistinct
<1>1. IInv => PoolDistinct
  BY DEF IInv, Safe, PoolIsList, PoolDistinct
<1> QED BY <1>1, Invariant, PTL

\* pool_size is the length of the pool's list, which stays within max_pool,
\* for every max_pool and every number of connections.
THEOREM PoolStaysBounded == Spec => []PoolBounded
<1>1. IInv => PoolBounded
  BY DEF IInv, Safe, PoolIsList, PoolBounded
<1> QED BY <1>1, Invariant, PTL

\* socksv5_done closes the descriptors of its own connection, which are
\* registered, and no other: it never meets its abort().
THEOREM UnregisteringNeverAborts == Spec => []DescriptorsOwned
<1>1. IInv => DescriptorsOwned
  BY DEF IInv, Safe, Connections, DescriptorsOwned
<1> QED BY <1>1, Invariant, PTL

\* No event reaches a state without a handler for it, where stm.c aborts.
THEOREM EventsNeverAbort == Spec => []InterestsHandled
<1>1. IInv => InterestsHandled
  BY DEF IInv, Safe, Connections, InterestsHandled
<1> QED BY <1>1, Invariant, PTL

\* A notification finds the connection that asked for it, still RESOLVING,
\* behind the descriptor number it carries (handle_block_notifications).
THEOREM NotificationsNeverAbort == Spec => []JobsReachTheirOwner
<1>1. IInv => JobsReachTheirOwner
  BY DEF IInv, Safe, Connections, JobsReachTheirOwner
<1> QED BY <1>1, Invariant, PTL

\* A connection that is RESOLVING, with no interest in either descriptor, has
\* a thread that will notify or a notification that is queued, or its
\* notification was lost for want of memory (selector_notify_block).
THEOREM ResolutionsArePending == Spec => []ResolutionPending
<1>1. IInv => ResolutionPending
  BY DEF IInv, Safe, Connections, ResolutionPending
<1> QED BY <1>1, Invariant, PTL

\* concurrent_connections is the number of connections that have been counted
\* and not discounted (metrics.c).
THEOREM MetricIsExact == Spec => []MetricExact
<1>1. IInv => MetricExact
  BY DEF IInv, Safe, MetricExact
<1> QED BY <1>1, Invariant, PTL

\* When main leaves its loop no descriptor leads to a struct, no notification
\* is queued, and the threads that are left are past the metric (main.c).
THEOREM ExitIsQuiescent == Spec => []ExitQuiescent
<1>1. IInv => ExitQuiescent
  BY DEF IInv, Safe, Stopped, ExitQuiescent
<1> QED BY <1>1, Invariant, PTL
-----------------------------------------------------------------------------
(* The refinement of Lifetime *)

\* A struct is out of the free memory and out of the pool exactly when somebody
\* uses it.
LiveIffUsed == \A s \in Struct : Live(s) <=> UsersOf(s) # {}

LEMMA InUse == TypeOK /\ Safe => LiveIffUsed
<1> SUFFICES ASSUME TypeOK, Safe, NEW s \in Struct
             PROVE  Live(s) <=> UsersOf(s) # {}
  BY DEF LiveIffUsed
<1>1. References(s)
  BY DEF Safe
<1>2. CASE Live(s) /\ Fresh(s)
  BY <1>2 DEF UsersOf
<1>3. CASE Live(s) /\ ~Fresh(s)
  <2>1. references[s] >= 1 /\ references[s] + Due(s) = Holders(s)
    BY <1>1, <1>3 DEF References, Exact
  <2>2. references[s] \in Nat
    BY UnsignedType DEF TypeOK, MemoryTypeOK, SharedTypeOK
  <2>3. Holders(s) # 0
    BY <2>1, <2>2, OwesType
  <2>4. ClientOpen(s) \/ OriginOpen(s) \/ Resolver(s) \/ Owes(s) > 0
    BY <2>3, OwesType DEF Holders, Count
  <2> QED BY <1>3, <2>4 DEF UsersOf
<1>4. CASE ~Live(s)
  <2>1. Holders(s) = 0 /\ ~Fresh(s)
    BY <1>1, <1>4 DEF References, Unused
  <2>2. ~ClientOpen(s) /\ ~OriginOpen(s) /\ ~Resolver(s) /\ Owes(s) = 0
    BY <2>1, UnusedFlags
  <2> QED BY <1>4, <2>1, <2>2 DEF UsersOf
<1> QED BY <1>2, <1>3, <1>4

LEMMA InUseNext == TypeOK' /\ Safe' => LiveIffUsed'
BY InUse, PTL

\* So a step that changes the users of one struct is Lifetime's Becomes, and
\* each of the changes one of Lifetime's actions.
LEMMA LifetimeStep ==
    ASSUME TypeOK, TypeOK', Safe, Safe', Lives
    PROVE  L!Next \/ UNCHANGED L!vars
<1>1. LiveIffUsed /\ LiveIffUsed'
  BY InUse, InUseNext
<1>2. CASE \A t \in Struct : UsersOf(t)' = UsersOf(t)
  <2>1. \A t \in Struct : Live(t)' <=> Live(t)
    BY <1>1, <1>2 DEF LiveIffUsed
  <2> QED BY <1>2, <2>1 DEF L!vars
<1>3. ASSUME NEW s \in Struct, LifeStep(s), \A t \in Struct \ {s} : UsersOf(t)' = UsersOf(t)
      PROVE  L!Next
  <2> DEFINE users == [t \in Struct |-> UsersOf(t)]
  <2>1. L!Becomes(s, UsersOf(s)')
    <3>1. [t \in Struct |-> UsersOf(t)']
            = [[t \in Struct |-> UsersOf(t)] EXCEPT ![s] = UsersOf(s)']
      BY <1>3
    <3>2. {t \in Struct : Live(t)'}
            = IF UsersOf(s)' = {} THEN {t \in Struct : Live(t)} \ {s}
              ELSE {t \in Struct : Live(t)} \cup {s}
      BY <1>1, <1>3 DEF LiveIffUsed
    <3> QED BY <3>1, <3>2 DEF L!Becomes
  <2>2. users[s] = UsersOf(s)
    OBVIOUS
  <2>3. CASE UsersOf(s) = {} /\ UsersOf(s)' = {"client"}
    <3>1. L!Start(s)
      BY <1>1, <2>1, <2>3 DEF LiveIffUsed, L!Start
    <3> QED BY <3>1 DEF L!Next
  <2>4. CASE /\ "client" \in UsersOf(s)
             /\ \E u \in {"origin", "resolver"} \ UsersOf(s) : UsersOf(s)' = UsersOf(s) \cup {u}
    <3>1. PICK u \in {"origin", "resolver"} \ UsersOf(s) : UsersOf(s)' = UsersOf(s) \cup {u}
      BY <2>4
    <3>2. L!Borrow(s, u) /\ u \in L!User
      BY <2>1, <2>2, <2>4, <3>1 DEF L!Borrow, L!User
    <3> QED BY <3>2 DEF L!Next
  <2>5. CASE "origin" \in UsersOf(s) /\ UsersOf(s)' = UsersOf(s) \ {"origin"}
    <3>1. L!GiveUpOrigin(s)
      BY <2>1, <2>2, <2>5 DEF L!GiveUpOrigin
    <3> QED BY <3>1 DEF L!Next
  <2>6. CASE "client" \in UsersOf(s) /\ UsersOf(s)' = UsersOf(s) \ {"client", "origin"}
    <3>1. L!End(s)
      BY <2>1, <2>2, <2>6 DEF L!End
    <3> QED BY <3>1 DEF L!Next
  <2>7. CASE "resolver" \in UsersOf(s) /\ UsersOf(s)' = UsersOf(s) \ {"resolver"}
    <3>1. L!Return(s)
      BY <2>1, <2>2, <2>7 DEF L!Return
    <3> QED BY <3>1 DEF L!Next
  <2> QED BY <1>3, <2>3, <2>4, <2>5, <2>6, <2>7 DEF LifeStep
<1> QED BY <1>2, <1>3 DEF Lives

LEMMA StartsUnused == Init => L!Init
<1> SUFFICES ASSUME Init PROVE L!Init
  OBVIOUS
<1>1. TypeOK /\ Safe
  BY InvInit DEF IInv, Init
<1>2. \A s \in Struct : ~Live(s)
  BY DEF Init, MemoryInit, Live
<1>3. \A s \in Struct : UsersOf(s) = {}
  BY <1>1, <1>2, InUse DEF LiveIffUsed
<1> QED BY <1>2, <1>3 DEF L!Init

\* Until two sections overlap, a struct goes back to the pool with its last
\* user, and no earlier, and only one without users is handed out again
\* (socks5_new, socks5_destroy).
THEOREM RefsImplementLifetime == Spec => ImplementsLifetime
<1>1. IInv /\ IInv' /\ [Next]_vars => [L!Next \/ raced']_(L!vars)
  <2> SUFFICES ASSUME IInv, IInv', [Next]_vars, ~raced'
               PROVE  L!Next \/ UNCHANGED L!vars
    OBVIOUS
  <2>1. TypeOK /\ TypeOK' /\ Safe /\ Safe' /\ ~Overlap'
    BY Unraced DEF IInv
  <2>2. Lives
    BY <2>1, NextSound DEF Sound
  <2> QED BY <2>1, <2>2, LifetimeStep
<1> QED BY InvInit, InvNext, StartsUnused, <1>1, PTL DEF Spec, ImplementsLifetime
-----------------------------------------------------------------------------
(* Connections to addresses alone *)

\* Without names there are no threads.
NoThreads ==
    /\ \A s \in Struct : pc[s] = "none"
    /\ pc[Main] # "pthread_create" /\ then # "pthread_create"

LEMMA AloneNoOverlap ==
    ASSUME NoThreads'
    PROVE  ~Overlap'
<1>1. \A p, q \in Thread : p # q => pc'[p] = "none" \/ pc'[q] = "none"
  BY DEF NoThreads, Thread
<1> QED BY <1>1 DEF Overlap, InReferences, InMetric, InPool

LEMMA AloneCalls ==
    ASSUME TypeOK, NoThreads, NEW s, NEW first, NEW second, first # "pthread_create",
           second # "pthread_create", Calls(s, first, second)
    PROVE  NoThreads'
BY Names DEF TypeOK, MemoryTypeOK, CallTypeOK, NoThreads, Calls, Thread

LEMMA AloneGoes ==
    ASSUME TypeOK, NoThreads, NEW step, step # "pthread_create",
           pc' = [pc EXCEPT ![Main] = step], UNCHANGED then
    PROVE  NoThreads'
BY Names DEF TypeOK, MemoryTypeOK, CallTypeOK, NoThreads, Thread

LEMMA AloneReturns ==
    ASSUME TypeOK, NoThreads, Return(Main)
    PROVE  NoThreads'
<1>1. Calls(cur, then, "idle") /\ then # "pthread_create"
  BY DEF Return, NoThreads
<1> QED BY <1>1, AloneCalls

LEMMA AloneShared ==
    ASSUME TypeOK, NoThreads, DestroyStep(Main) \/ NewStep \/ Take \/ TakeStore
    PROVE  NoThreads'
<1>1. \/ Return(Main)
      \/ \E step : step # "pthread_create" /\ pc' = [pc EXCEPT ![Main] = step] /\ UNCHANGED then
  <2>1. CASE DestroyStep(Main)
    BY <2>1 DEF DestroyStep, Destroy, Drop, DropStore, Closed, ClosedLoad, ClosedStore,
       Room, Link, Push, Grow, GrowStore, Load, Goto
  <2>2. CASE NewStep
    BY <2>2 DEF NewStep, New, Unlink, UnlinkStore, Shrink, ShrinkStore, Opened,
       OpenedStore, Load, Goto
  <2>3. CASE Take \/ TakeStore
    BY <2>3 DEF Take, TakeStore, Load, Goto
  <2> QED BY <2>1, <2>2, <2>3
<1> QED BY <1>1, AloneReturns, AloneGoes

\* A handler does not go to a thread.
LEMMA AloneHandler ==
    ASSUME TypeOK, NoThreads, "domain" \notin Requests, NEW f \in FD, Handler(f)
    PROVE  NoThreads'
<1> DEFINE s == owner[f]
           Calm == \/ UNCHANGED calls
                   \/ \E t, first, second :
                        /\ first # "pthread_create" /\ second # "pthread_create"
                        /\ Calls(t, first, second)
<1>1. Done(s) => Calm
  BY DEF Done
<1>2. ASSUME NEW gone, NEW call \in {"idle", "try", "take"}, AfterClosing(s, gone, call)
      PROVE  Calm
  BY <1>2 DEF AfterClosing
<1>3. ASSUME NEW gone, NEW call \in {"idle", "try"}, Reject(s, gone, call)
      PROVE  Calm
  BY <1>2, <1>3 DEF Reject
<1>4. ASSUME NEW gone, NEW o, NEW log, ConnectStarts(s, o, gone) \/ ConnectsAtOnce(s, o, gone, log)
      PROVE  Calm
  BY <1>2, <1>4 DEF ConnectStarts, ConnectsAtOnce, Connect
<1> HIDE DEF Calm
<1>5. ASSUME NEW gone, NEW log, NoConnect(s, gone) \/ ConnectNext(s, gone, log)
      PROVE  Calm
  BY <1>3, <1>4, <1>5 DEF NoConnect, ConnectNext
<1>6. UNCHANGED calls => Calm
  BY DEF Calm
<1>7. Calm
  <2>1. CASE HelloRead(f) \/ HelloWrite(f) \/ AuthRead(f) \/ AuthWrite(f)
    BY <1>1, <1>6, <2>1 DEF HelloRead, HelloWrite, AuthRead, AuthWrite, Proceed
  <2>2. CASE RequestRead(f)
    BY <1>1, <1>3, <1>4, <1>5, <2>2 DEF RequestRead
  <2>3. CASE Resolving(f)
    BY <1>5, <1>6, <2>3 DEF Resolving
  <2>4. CASE Connecting(f)
    BY <1>3, <1>5, <1>6, <2>4 DEF Connecting
  <2>5. CASE RequestWrite(f) \/ \E op \in Ops : Copy(f, op)
    BY <1>1, <1>6, <2>5 DEF RequestWrite, Copy
  <2> QED BY <2>1, <2>2, <2>3, <2>4, <2>5 DEF Handler
<1> QED BY <1>7, AloneCalls DEF Calm, NoThreads, calls

\* As long as clients ask for addresses only, no two sections overlap, and what
\* the theorems above say holds without the condition (resolver_thread is the
\* only other thread).
THEOREM AddressesNeverRace == "domain" \notin Requests => (Spec => []~raced)
<1> SUFFICES ASSUME "domain" \notin Requests PROVE Spec => []~raced
  OBVIOUS
<1>1. Init => TypeOK /\ NoThreads /\ ~raced
  BY InitType, Names DEF Init, MemoryInit, NoThreads, Thread
<1>2. TypeOK /\ NoThreads /\ ~raced /\ [Next]_vars => TypeOK' /\ NoThreads' /\ ~raced'
  <2> SUFFICES ASSUME TypeOK, NoThreads, ~raced, [Next]_vars PROVE TypeOK' /\ NoThreads' /\ ~raced'
    OBVIOUS
  <2>1. TypeOK'
    BY NextType
  <2>2. NoThreads'
    <3>1. CASE Incoming \/ \E f \in FD : Accept(f) \/ AcceptRefused(f)
      BY <3>1, AloneCalls DEF Incoming, Accept, AcceptRefused
    <3>2. CASE SharedStep(Main)
      BY <3>2, AloneShared DEF SharedStep
    <3>3. ~PthreadCreate
      BY DEF PthreadCreate, At, NoThreads
    <3>4. ASSUME NEW s \in Struct PROVE ~ResolverThread(s)
      BY Names DEF NoThreads, ResolverThread, Lookup, Notify, SharedStep, DestroyStep, Destroy,
         Drop, DropStore, Closed, ClosedLoad, ClosedStore, Room, Link, Push, Grow,
         GrowStore, At
    <3>5. CASE Shutdown \/ Exit \/ Idle \/ UNCHANGED vars
      BY <3>5 DEF Shutdown, Exit, Idle, vars, calls, NoThreads
    <3> QED BY <3>1, <3>2, <3>3, <3>4, <3>5, AloneHandler DEF Next, MainCall
  <2>3. ~raced'
    BY <2>2, Recorded, AloneNoOverlap DEF Record, vars
  <2> QED BY <2>1, <2>2, <2>3
<1> QED BY <1>1, <1>2, PTL DEF Spec
=============================================================================
