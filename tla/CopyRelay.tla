------------------------------ MODULE CopyRelay -----------------------------
(* The COPY state of src/src/server/socks5nio.c, for one connection: bytes go *)
(* from each side to the other through a buffer, and the selector's interests *)
(* follow what the two buffers hold.                                          *)
(*                                                                            *)
(* A buffer is named by the side it is filled from: that of "client" is       *)
(* read_buffer, that of "origin" is write_buffer. A byte is its place in its  *)
(* side's stream. send and recv have every outcome that the peers and the     *)
(* kernel may give them.                                                      *)
EXTENDS Buffer

CONSTANTS
    MaxBytes,    \* bound: the bytes each side sends
    MaxLeftover  \* bound: those the client sends along with its request

ASSUME RelayAssumption ==
    /\ MaxBytes \in Nat
    /\ MaxLeftover \in Nat /\ MaxLeftover <= MaxBytes
    /\ Byte = 0 .. MaxBytes  \* 0: what no side has sent

VARIABLES
    buf,          \* read_buffer and write_buffer
    interest,     \* of client_fd and origin_fd
    ended,        \* "no" while in COPY, else how it was left: "eof" or "error"
    (* the peers and the kernel *)
    arrived,      \* how many bytes the side has sent us
    finished,     \* the side has sent its end of file after them
    taken,        \* how many of them have been received
    delivered     \* the side's bytes that were sent on, in the order they were

relay == <<buf, interest, ended, taken, delivered>>
peers == <<arrived, finished>>
vars  == <<relay, peers>>

Side == {"client", "origin"}
Other(side) == IF side = "client" THEN "origin" ELSE "client"

\* copy_buffer_can_write makes room in a buffer that has come to its end.
Compacted(b) == IF buffer_can_write(b) THEN b ELSE buffer_compact(b)

copy_interests_NoWrite(bufs) ==
    [side \in Side |-> IF buffer_can_write(bufs[side]) THEN {"R"}
                       ELSE IF buffer_can_read(bufs[Other(side)]) THEN {"W"} ELSE {}]

\* A side is read when there is room for what it says, and written when there
\* is something to tell it.
copy_interests(bufs) ==
    [side \in Side |-> {op \in {"R", "W"} :
        \/ op = "R" /\ buffer_can_write(bufs[side])
        \/ op = "W" /\ buffer_can_read(bufs[Other(side)])}]

copy_update_interests_Stale(bufs) ==
    /\ buf' = [side \in Side |-> Compacted(bufs[side])]
    /\ interest' = copy_interests([side \in Side |-> Compacted(buf[side])])

copy_update_interests(bufs) ==
    /\ buf' = [side \in Side |-> Compacted(bufs[side])]
    /\ interest' = copy_interests([side \in Side |-> Compacted(bufs[side])])

\* The bytes that follow the request are in read_buffer, after the request that
\* was parsed; write_buffer is reset by copy_init.
Init ==
    /\ \E k \in 0 .. MaxLeftover, parsed \in 0 .. Capacity - 1 :
         /\ parsed + k <= Capacity /\ (k = 0 <=> parsed = 0)
         /\ LET empty == [data |-> [i \in Offsets |-> 0], read |-> 0, write |-> 0]
                rest  == Filled([empty EXCEPT !.read = parsed, !.write = parsed],
                                [i \in 1 .. k |-> i])
                bufs  == [side \in Side |-> Compacted(IF side = "client" THEN rest ELSE empty)]
            IN  buf = bufs /\ interest = copy_interests(bufs)
         /\ arrived = [side \in Side |-> IF side = "client" THEN k ELSE 0]
         /\ taken = arrived
    /\ ended = "no"
    /\ finished = [side \in Side |-> FALSE]
    /\ delivered = [side \in Side |-> <<>>]
-----------------------------------------------------------------------------
Event(side, op) == ended = "no" /\ op \in interest[side]

\* socksv5_done: the descriptors are closed, whatever the buffers hold.
End(how) ==
    /\ ended' = how
    /\ UNCHANGED <<buf, interest, delivered>>

\* copy_try_write to the side that b, filled from `from', is for, and the update
\* of the interests: some of b is sent, nothing can be now (EAGAIN, EINTR), or
\* the connection is over.
TryWrite(from, b) ==
    \/ \E n \in 1 .. Held(b) :
         /\ copy_update_interests([buf EXCEPT ![from] = buffer_read_adv(b, n)])
         /\ delivered' = [delivered EXCEPT ![from] = @ \o SubSeq(Contents(b), 1, n)]
         /\ UNCHANGED ended
    \/ /\ copy_update_interests([buf EXCEPT ![from] = b])
       /\ UNCHANGED <<delivered, ended>>
    \/ buffer_can_read(b) /\ End("error")

\* What recv may return, for as much as b has room for.
Receivable(side, b) == {n \in 1 .. Room(b) : n <= arrived[side] - taken[side]}

\* copy_read: bytes are received, and sent on at once if they can be; or nothing
\* can be received now. (The metric bytes_transferred counts them here.)
Receive(side) ==
    LET b == Compacted(buf[side]) IN
    /\ Event(side, "R")
    /\ \/ \E n \in Receivable(side, b) :
            /\ taken' = [taken EXCEPT ![side] = @ + n]
            /\ TryWrite(side, Filled(b, [i \in 1 .. n |-> taken[side] + i]))
       \/ /\ copy_update_interests([buf EXCEPT ![side] = b])
          /\ UNCHANGED <<ended, delivered, taken>>
    /\ UNCHANGED peers

\* copy_read: end of file, or an error.
ReceiveEnd(side) ==
    /\ Event(side, "R")
    /\ \/ finished[side] /\ taken[side] = arrived[side] /\ End("eof")
       \/ End("error")
    /\ UNCHANGED <<taken, peers>>

\* copy_write: the side can be written.
Send(side) ==
    /\ Event(side, "W")
    /\ TryWrite(Other(side), buf[Other(side)])
    /\ UNCHANGED <<taken, peers>>
-----------------------------------------------------------------------------
(* The peers *)

Arrive(side) ==
    /\ ~finished[side] /\ arrived[side] < MaxBytes
    /\ arrived' = [arrived EXCEPT ![side] = @ + 1]
    /\ UNCHANGED <<relay, finished>>

ShutDown(side) ==
    /\ ~finished[side]
    /\ finished' = [finished EXCEPT ![side] = TRUE]
    /\ UNCHANGED <<relay, arrived>>

\* Nothing happens.
Idle == UNCHANGED vars

Next ==
    \/ \E side \in Side :
         \/ Receive(side) \/ ReceiveEnd(side) \/ Send(side)
         \/ Arrive(side) \/ ShutDown(side)
    \/ Idle

Spec == Init /\ [][Next]_vars

\* pselect reports what is readable, and a side that is read by its peer becomes
\* writable again and again; a recv or a send that follows does not fail to move
\* a byte for ever. Nothing is asked of what the peers send.
FairSpec ==
    /\ Spec
    /\ \A side \in Side :
         /\ WF_vars(Receive(side) /\ taken'[side] > taken[side])
         /\ WF_vars(Send(side) /\ delivered' # delivered)
-----------------------------------------------------------------------------
(* Properties *)

\* The types; in particular R <= W <= limit, the assertions of buffer.c.
TypeOK ==
    /\ buf \in [Side -> Buffers]
    /\ interest \in [Side -> SUBSET {"R", "W"}]
    /\ ended \in {"no", "eof", "error"}
    /\ arrived \in [Side -> 0 .. MaxBytes]
    /\ taken \in [Side -> 0 .. MaxBytes]
    /\ finished \in [Side -> BOOLEAN]
    /\ delivered \in [Side -> Seq(Byte)]

\* No direction stalls, and none spins: after every handler a side is watched
\* for reading just when its buffer is not full, and for writing just when the
\* other's is not empty (copy_update_interests, copy_buffer_can_write).
InterestsFollowBuffers ==
    ended = "no" => \A side \in Side :
        /\ "R" \in interest[side] <=> Held(buf[side]) < Capacity
        /\ "W" \in interest[side] <=> Held(buf[Other(side)]) > 0

\* Each direction is a Channel: in order, nothing lost, nothing repeated, across
\* the wrap-around of the buffers (copy_read, copy_try_write, buffer.c).
Up == INSTANCE Channel WITH
          queue <- Contents(buf["client"]),
          out   <- delivered["client"],
          over  <- ended # "no"

Down == INSTANCE Channel WITH
          queue <- Contents(buf["origin"]),
          out   <- delivered["origin"],
          over  <- ended # "no"

ImplementsChannels == Up!Spec /\ Down!Spec

\* What a side sends reaches the other, or the connection ends.
EverythingRelayed ==
    \A side \in Side : \A n \in 1 .. MaxBytes :
        arrived[side] >= n ~> Len(delivered[side]) >= n \/ ended # "no"
=============================================================================
