------------------------------ MODULE MCSocks5 ------------------------------
(* Values for the constants of Socks5, the symmetry of its sets, a constraint *)
(* and a view.                                                                *)
EXTENDS Socks5, TLC

Symmetry == Permutations(Struct) \cup Permutations(FD)

\* A run with this constraint does not go on from a state in which sections
\* have overlapped: its properties say nothing about what follows (TypeOK and
\* LogExact do, and Socks5Proofs proves them without it).
NotRaced == ~raced

\* What a struct's fields hold after its connection is over is never looked at
\* again: socks5_new clears them. States that differ in no more are one.
Fields(s) ==
    IF ClientOpen(s) \/ OriginOpen(s)
    THEN <<stm[s], client_fd[s], origin_fd[s], resolution[s], answer[s],
           logged[s], entries[s]>>
    ELSE <<>>
View ==
    <<memory, calls, items, jobs, unheard, server, raced,
      [s \in Struct |-> Fields(s)],
      [s \in Struct |-> IF pc[s] \in {"lookup", "notify"} THEN rfd[s] ELSE NoFd]>>
=============================================================================
