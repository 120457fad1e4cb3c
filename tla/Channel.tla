------------------------------ MODULE Channel -------------------------------
(* What one direction of the relay promises: the bytes of a stream are passed *)
(* on in order, none lost and none repeated, with at most Capacity of them in *)
(* between, until it is over. A byte is its place in the stream.              *)
EXTENDS Naturals, Sequences

CONSTANT Capacity

VARIABLES
    queue,  \* the bytes taken and not yet given
    out,    \* the bytes given
    over

vars == <<queue, out, over>>

\* The next n bytes of the stream.
Following(n) == [i \in 1 .. n |-> Len(out) + Len(queue) + i]

Init ==
    /\ out = <<>> /\ over = FALSE
    /\ \E n \in 0 .. Capacity : queue = [i \in 1 .. n |-> i]

\* n bytes are taken, then m are given.
Pass(n, m) ==
    LET held == queue \o Following(n) IN
    /\ ~over /\ m <= Len(held)
    /\ out' = out \o SubSeq(held, 1, m)
    /\ queue' = SubSeq(held, m + 1, Len(held))
    /\ UNCHANGED over

\* The end: what is still held is dropped, and nothing is given any more.
Finish ==
    /\ ~over /\ over' = TRUE
    /\ UNCHANGED out

Next ==
    \/ \E n \in 0 .. Capacity - Len(queue), m \in 0 .. Capacity : Pass(n, m)
    \/ Finish

Spec == Init /\ [][Next]_vars
=============================================================================
