------------------------------ MODULE AccessLog ------------------------------
(* The ring of src/src/server/access_log.c. An entry (time, user, destination *)
(* and port, status) is a member of Entry.                                    *)
(*                                                                            *)
(* A definition whose name has the form name_Fault is name with a plausible   *)
(* programming error, against which the properties are tried; nothing in the  *)
(* specification uses it.                                                     *)
EXTENDS Integers, Sequences

CONSTANTS
    Entry,
    NoEntry,    \* an element of the ring that was never written
    MaxEntries  \* ACCESS_LOG_MAX_ENTRIES

ASSUME LogAssumption == NoEntry \notin Entry /\ MaxEntries \in Nat \ {0}

VARIABLES entries, next_entry, entry_count

vars == <<entries, next_entry, entry_count>>

Places == 0 .. MaxEntries - 1

Init ==
    /\ entries = [i \in Places |-> NoEntry]
    /\ next_entry = 0
    /\ entry_count = 0

access_log_add_NoWrap(e) ==
    /\ entries' = [entries EXCEPT ![next_entry] = e]
    /\ next_entry' = next_entry + 1
    /\ entry_count' = IF entry_count < MaxEntries THEN entry_count + 1 ELSE entry_count

access_log_add(e) ==
    /\ entries' = [entries EXCEPT ![next_entry] = e]
    /\ next_entry' = (next_entry + 1) % MaxEntries
    /\ entry_count' = IF entry_count < MaxEntries THEN entry_count + 1 ELSE entry_count

access_log_copy_FromStart(max_entries) ==
    [i \in 1 .. IF entry_count < max_entries THEN entry_count ELSE max_entries |->
        entries[i - 1]]

\* What is copied to out.
access_log_copy(max_entries) ==
    LET count == IF entry_count < max_entries THEN entry_count ELSE max_entries
        first == IF entry_count = MaxEntries THEN next_entry ELSE 0
    IN  [i \in 1 .. count |-> entries[(first + i - 1) % MaxEntries]]

Next == \E e \in Entry : access_log_add(e)

Spec == Init /\ [][Next]_vars
-----------------------------------------------------------------------------
(* Properties *)

\* The indices stay in the ring, and until it has gone round once only the
\* entries before next_entry have been written (access_log_add).
TypeOK ==
    /\ entries \in [Places -> Entry \cup {NoEntry}]
    /\ next_entry \in Places
    /\ entry_count \in 0 .. MaxEntries
    /\ entry_count < MaxEntries => next_entry = entry_count
    /\ \A i \in Places : entries[i] = NoEntry <=> i >= entry_count

\* What the monitor's ACCESS-LOG gets is the last MaxEntries entries, the
\* oldest first, wherever the ring stands (access_log_copy).
R == INSTANCE RecentLog WITH recent <- access_log_copy(MaxEntries)

ImplementsRecentLog == R!Spec
=============================================================================
