--------------------------- MODULE AccessLogProofs ---------------------------
(* The ring of AccessLog stays within its bounds and is a RecentLog, for any   *)
(* number of entries. TypeOK is inductive; the refinement follows the copy    *)
(* element by element, once % is rid of.                                      *)
EXTENDS AccessLog, SequenceTheorems, TLAPS

USE LogAssumption DEF LogAssumption

\* a % MaxEntries, for an a that is less than two rounds.
Wrapped(a) == IF a < MaxEntries THEN a ELSE a - MaxEntries

LEMMA Wrap == \A a \in 0 .. 2 * MaxEntries - 1 : a % MaxEntries = Wrapped(a)
<1> SUFFICES ASSUME NEW a \in 0 .. 2 * MaxEntries - 1
             PROVE  a % MaxEntries = Wrapped(a)
  OBVIOUS
<1>1. CASE a < MaxEntries
  BY <1>1, SMT DEF Wrapped
<1>2. CASE a >= MaxEntries
  BY <1>2, SMTT(30) DEF Wrapped
<1> QED
  BY <1>1, <1>2

LEMMA Extended ==
    ASSUME NEW s \in Seq(Entry), NEW t \in Seq(Entry), NEW e \in Entry,
           Len(t) = Len(s) + 1, t[Len(s) + 1] = e,
           \A i \in 1 .. Len(s) : t[i] = s[i]
    PROVE  t = Append(s, e)
<1>1. Append(s, e) \in Seq(Entry) /\ Len(Append(s, e)) = Len(t)
  OBVIOUS
<1>2. \A i \in 1 .. Len(t) : Append(s, e)[i] = t[i]
  OBVIOUS
<1> QED
  BY <1>1, <1>2, SeqEqual

\* The place of the i-th entry to be copied.
At(i) == IF entry_count < MaxEntries THEN i - 1
         ELSE IF next_entry + i - 1 < MaxEntries THEN next_entry + i - 1
         ELSE next_entry + i - 1 - MaxEntries

\* What is copied, without %, and what it is: a sequence.
Copy ==
    /\ access_log_copy(MaxEntries) = [i \in 1 .. entry_count |-> entries[At(i)]]
    /\ access_log_copy(MaxEntries) \in Seq(Entry)
    /\ Len(access_log_copy(MaxEntries)) = entry_count

LEMMA Copied == TypeOK => Copy
<1> SUFFICES ASSUME TypeOK PROVE Copy
  OBVIOUS
<1> DEFINE count == IF entry_count < MaxEntries THEN entry_count ELSE MaxEntries
           first == IF entry_count = MaxEntries THEN next_entry ELSE 0
<1>1. count = entry_count
  BY DEF TypeOK
<1>2. ASSUME NEW i \in 1 .. entry_count
      PROVE  (first + i - 1) % MaxEntries = At(i)
  <2>1. first + i - 1 \in 0 .. 2 * MaxEntries - 1
    BY DEF TypeOK, Places
  <2>2. (first + i - 1) % MaxEntries = Wrapped(first + i - 1)
    BY <2>1, Wrap, Zenon
  <2> QED
    BY <2>2 DEF TypeOK, Places, At, Wrapped
<1>3. access_log_copy(MaxEntries) = [i \in 1 .. entry_count |-> entries[At(i)]]
  BY <1>1, <1>2 DEF access_log_copy
<1>4. \A i \in 1 .. entry_count : At(i) \in Places /\ At(i) < entry_count
  BY DEF TypeOK, Places, At
<1>5. \A i \in 1 .. entry_count : entries[At(i)] \in Entry
  <2> SUFFICES ASSUME NEW i \in 1 .. entry_count
               PROVE  entries[At(i)] \in Entry
    OBVIOUS
  <2>1. At(i) \in Places /\ ~(At(i) >= entry_count)
    BY <1>4 DEF Places, TypeOK
  <2> HIDE DEF At
  <2> QED
    BY <2>1 DEF TypeOK
<1>6. entry_count \in Nat
  BY DEF TypeOK
<1>7. [i \in 1 .. entry_count |-> entries[At(i)]] \in Seq(Entry)
  BY <1>5, <1>6
<1> QED
  BY <1>3, <1>6, <1>7 DEF Copy

LEMMA AddKeepsTypes ==
    ASSUME TypeOK, NEW e \in Entry, access_log_add(e)
    PROVE  TypeOK'
<1>1. next_entry + 1 \in 0 .. 2 * MaxEntries - 1
  BY DEF TypeOK, Places
<1>2. next_entry' = IF next_entry + 1 < MaxEntries THEN next_entry + 1
                    ELSE next_entry + 1 - MaxEntries
  <2>1. (next_entry + 1) % MaxEntries = Wrapped(next_entry + 1)
    BY <1>1, Wrap, Zenon
  <2>2. next_entry' = Wrapped(next_entry + 1)
    BY <2>1, Zenon DEF access_log_add
  <2> QED
    BY <2>2 DEF Wrapped, TypeOK, Places
<1>3. next_entry' \in Places /\ entry_count' \in 0 .. MaxEntries
  BY <1>2 DEF TypeOK, Places, access_log_add
<1>4. entry_count' < MaxEntries => next_entry' = entry_count'
  BY <1>2 DEF TypeOK, Places, access_log_add
<1>5. entries' \in [Places -> Entry \cup {NoEntry}]
  BY DEF TypeOK, access_log_add
<1>6. \A i \in Places : entries'[i] = NoEntry <=> i >= entry_count'
  BY DEF TypeOK, Places, access_log_add
<1> QED
  BY <1>3, <1>4, <1>5, <1>6 DEF TypeOK

LEMMA AddIsAdd ==
    ASSUME TypeOK, NEW e \in Entry, access_log_add(e)
    PROVE  access_log_copy(MaxEntries)' =
               Append(IF Len(access_log_copy(MaxEntries)) = MaxEntries
                      THEN Tail(access_log_copy(MaxEntries))
                      ELSE access_log_copy(MaxEntries), e)
<1> DEFINE old == access_log_copy(MaxEntries)
           new == access_log_copy(MaxEntries)'
<1>1. TypeOK'
  BY AddKeepsTypes
<1>2. /\ old = [i \in 1 .. entry_count |-> entries[At(i)]]
      /\ old \in Seq(Entry) /\ Len(old) = entry_count
  BY Copied DEF Copy
<1>3. /\ new = [i \in 1 .. entry_count' |-> entries'[At(i)']]
      /\ new \in Seq(Entry) /\ Len(new) = entry_count'
  <2>1. Copy'
    BY <1>1, Copied, PTL
  <2> QED
    BY <2>1 DEF Copy
<1>4. next_entry' = IF next_entry + 1 < MaxEntries THEN next_entry + 1
                    ELSE next_entry + 1 - MaxEntries
  <2>1. next_entry + 1 \in 0 .. 2 * MaxEntries - 1
    BY DEF TypeOK, Places
  <2>2. (next_entry + 1) % MaxEntries = Wrapped(next_entry + 1)
    BY <2>1, Wrap, Zenon
  <2>3. next_entry' = Wrapped(next_entry + 1)
    BY <2>2, Zenon DEF access_log_add
  <2> QED
    BY <2>3 DEF Wrapped, TypeOK, Places
<1> HIDE DEF old, new
<1>5. CASE entry_count < MaxEntries
  <2>1. entry_count' = entry_count + 1 /\ next_entry = entry_count
    BY <1>5 DEF TypeOK, access_log_add
  <2>2. \A i \in 1 .. entry_count' : At(i)' = i - 1
    BY <1>4, <1>5, <2>1 DEF At, TypeOK
  <2>3. \A i \in 1 .. entry_count : new[i] = old[i]
    BY <1>2, <1>3, <1>5, <2>1, <2>2 DEF At, TypeOK, Places, access_log_add
  <2>4. new[entry_count + 1] = e
    BY <1>3, <1>5, <2>1, <2>2 DEF TypeOK, Places, access_log_add
  <2>5. new = Append(old, e)
    <3>1. Len(new) = Len(old) + 1 /\ new[Len(old) + 1] = e
      BY <1>2, <1>3, <2>1, <2>4
    <3>2. \A i \in 1 .. Len(old) : new[i] = old[i]
      BY <1>2, <2>3
    <3>3. old \in Seq(Entry) /\ new \in Seq(Entry)
      BY <1>2, <1>3
    <3> QED
      BY <3>1, <3>2, <3>3, Extended
  <2> QED
    BY <1>2, <1>5, <2>5 DEF old, new, TypeOK
<1>6. CASE entry_count = MaxEntries
  <2>1. entry_count' = MaxEntries
    BY <1>6 DEF TypeOK, access_log_add
  <2>2. \A i \in 1 .. MaxEntries - 1 : At(i)' = At(i + 1) /\ At(i)' # next_entry /\ At(i)' \in Places
    BY <1>4, <1>6, <2>1 DEF At, TypeOK, Places
  <2>3. At(MaxEntries)' = next_entry
    BY <1>4, <1>6, <2>1 DEF At, TypeOK, Places
  <2>4. \A i \in 1 .. MaxEntries - 1 : new[i] = old[i + 1]
    BY <1>2, <1>3, <1>6, <2>1, <2>2 DEF TypeOK, Places, access_log_add
  <2>5. new[MaxEntries] = e
    BY <1>3, <1>6, <2>1, <2>3 DEF TypeOK, Places, access_log_add
  <2>6. Tail(old) \in Seq(Entry) /\ Len(Tail(old)) = MaxEntries - 1
    BY <1>2, <1>6
  <2>7. \A i \in 1 .. MaxEntries - 1 : Tail(old)[i] = old[i + 1]
    BY <1>2, <1>6
  <2>8. /\ Len(new) = Len(Tail(old)) + 1
        /\ new[Len(Tail(old)) + 1] = e
        /\ \A i \in 1 .. Len(Tail(old)) : new[i] = Tail(old)[i]
    <3>1. Len(new) = MaxEntries
      BY <1>3, <2>1
    <3>2. MaxEntries \in Nat /\ Len(new) = Len(Tail(old)) + 1
      BY <2>6, <3>1
    <3>3. new[Len(Tail(old)) + 1] = e
      BY <2>5, <3>1, <3>2
    <3> QED BY <2>4, <2>6, <2>7, <3>2, <3>3
  <2>9. new = Append(Tail(old), e)
    BY <1>3, <2>6, <2>8, Extended
  <2> QED
    BY <1>2, <1>6, <2>9 DEF old, new
<1> QED
  BY <1>5, <1>6 DEF TypeOK

\* The indices of the ring stay in its bounds and only what was written is read,
\* for every size of the ring (access_log_add).
THEOREM LogTypeCorrect == Spec => []TypeOK
<1>1. Init => TypeOK
  BY DEF Init, TypeOK, Places
<1>2. TypeOK /\ [Next]_vars => TypeOK'
  <2> SUFFICES ASSUME TypeOK, [Next]_vars
               PROVE  TypeOK'
    OBVIOUS
  <2>1. CASE Next
    BY <2>1, AddKeepsTypes DEF Next
  <2>2. CASE UNCHANGED vars
    BY <2>2 DEF vars, TypeOK
  <2> QED
    BY <2>1, <2>2
<1> QED
  BY <1>1, <1>2, PTL DEF Spec

\* What ACCESS-LOG reports is the last entries, oldest first, for every size of
\* the ring (access_log_copy).
THEOREM LogIsRecent == Spec => ImplementsRecentLog
<1>1. Init => R!Init
  <2> SUFFICES ASSUME Init PROVE access_log_copy(MaxEntries) = <<>>
    BY DEF R!Init
  <2>1. TypeOK
    BY DEF Init, TypeOK, Places
  <2> QED
    BY <2>1, Copied DEF Init, Copy
<1>2. TypeOK /\ [Next]_vars => [R!Next]_(access_log_copy(MaxEntries))
  <2> SUFFICES ASSUME TypeOK, [Next]_vars
               PROVE  [R!Next]_(access_log_copy(MaxEntries))
    OBVIOUS
  <2>1. CASE Next
    <3>1. PICK e \in Entry : access_log_add(e)
      BY <2>1 DEF Next
    <3> QED
      BY <3>1, AddIsAdd DEF R!Next, R!Add
  <2>2. CASE UNCHANGED vars
    BY <2>2 DEF vars, access_log_copy
  <2> QED
    BY <2>1, <2>2
<1> QED
  BY <1>1, <1>2, LogTypeCorrect, PTL DEF Spec, R!Spec, ImplementsRecentLog
=============================================================================
