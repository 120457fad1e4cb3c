------------------------------ MODULE RecentLog ------------------------------
(* What the access log promises: the last MaxEntries entries, in the order    *)
(* they were added.                                                           *)
EXTENDS Naturals, Sequences

CONSTANTS Entry, MaxEntries

VARIABLE recent

Init == recent = <<>>

Add(e) ==
    recent' = Append(IF Len(recent) = MaxEntries THEN Tail(recent) ELSE recent, e)

Next == \E e \in Entry : Add(e)

Spec == Init /\ [][Next]_recent
=============================================================================
