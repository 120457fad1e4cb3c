---------------------------- MODULE MonitorProofs ----------------------------
(* The monitor's buffers and line stay within their arrays, an answer that    *)
(* waits is watched for, a session that is to be closed has something to send *)
(* until it is, and only a session that has authenticated changes the users;  *)
(* for any number of sessions, every size of the buffers and the store, any   *)
(* set of commands and however they are cut into pieces.                      *)
EXTENDS Monitor, Induction, FiniteSetTheorems, SequenceTheorems

USE UserStoreAssumption, MonitorAssumption

-----------------------------------------------------------------------------
(* The invariant *)

\* struct monitor_client.
Sessions ==
    [authenticated : BOOLEAN, close_after_write : BOOLEAN, line : Seq(Commands),
     read_start : Nat, read_held : Seq(Symbol), write_start : Nat, write_held : Nat]

\* The lines that wait fit, a write position is only kept for them, and a
\* session that is to be closed has some.
SendingOK(x) ==
    /\ x.write_start + x.write_held <= WriteCapacity
    /\ x.write_start > 0 => x.write_held > 0
    /\ x.close_after_write => x.write_held > 0

SessionOK(s) ==
    /\ SendingOK(session[s])
    /\ Len(session[s].line) <= LineMax
    /\ session[s].read_start + Len(session[s].read_held) <= ReadCapacity
    /\ s \in open => /\ "R" \in interest[s]
                     /\ "W" \in interest[s] <=> session[s].write_held > 0
    /\ s \notin open => session[s] = NewSession /\ interest[s] = {}

Typed ==
    /\ users \in Stores
    /\ logged \in 0 .. MaxLog
    /\ open \subseteq Session
    /\ session \in [Session -> Sessions]
    /\ interest \in [Session -> SUBSET {"R", "W"}]

IInv == Typed /\ \A s \in Session : SessionOK(s)

LEMMA IInvImplies == IInv => TypeOK /\ OutputWatched /\ FarewellPending
<1> SUFFICES ASSUME IInv PROVE TypeOK /\ OutputWatched /\ FarewellPending
  OBVIOUS
<1>1. ASSUME NEW s \in Session
      PROVE  /\ session[s].authenticated \in BOOLEAN
             /\ session[s].close_after_write \in BOOLEAN
             /\ session[s].line \in Seq(Commands) /\ Len(session[s].line) <= LineMax
             /\ session[s].read_held \in Seq(Symbol)
             /\ session[s].read_start + Len(session[s].read_held) \in 0 .. ReadCapacity
             /\ session[s].write_held \in 0 .. WriteCapacity
             /\ session[s].write_start + session[s].write_held \in 0 .. WriteCapacity
             /\ interest[s] \subseteq {"R", "W"}
  BY DEF IInv, Typed, SessionOK, Sessions, SendingOK
<1>2. TypeOK
  BY <1>1 DEF IInv, Typed, TypeOK
<1>3. OutputWatched /\ FarewellPending
  BY DEF IInv, Typed, SessionOK, SendingOK, OutputWatched, FarewellPending
<1> QED BY <1>2, <1>3

-----------------------------------------------------------------------------
(* The user store *)

LEMMA StoresKept ==
    ASSUME NEW store \in Stores, NEW u, NEW p
    PROVE  Added(store, u, p) \in Stores /\ Removed(store, u) \in Stores
<1>1. \A x, y : y \in Entries \cup {NoUser} => [store EXCEPT ![x] = y] \in Stores
  BY DEF Stores
<1>2. user_store_add(store, u, p) => [username |-> u, password |-> p] \in Entries
  BY DEF user_store_add, Entries
<1> QED BY <1>1, <1>2 DEF Added, Removed

LEMMA ListingLength ==
    ASSUME NEW store \in Stores
    PROVE  Len(Listing(store)) \in Nat
<1>1. IsFiniteSet(Slots)
  BY FS_Interval DEF Slots
<1>2. IsFiniteSet(Used(store))
  BY <1>1, FS_Subset DEF Used
<1>3. user_store_count(store) \in Nat
  BY <1>2, FS_CardinalityType DEF user_store_count
<1> QED BY <1>3 DEF Listing

-----------------------------------------------------------------------------
(* The loop of monitor_read *)

\* What a turn of the loop works on.
Work ==
    [authenticated : BOOLEAN, close_after_write : BOOLEAN, line : Seq(Commands),
     write_start : Nat, write_held : Nat, users : Stores, stopped : BOOLEAN,
     rest : Seq(Symbol)]

Bounded(m) ==
    /\ m.write_start + m.write_held <= WriteCapacity
    /\ m.write_start > 0 => m.write_held > 0

\* ... and what it keeps, if the loop began with the users in `before'.
Working(before) ==
    {m \in Work : /\ SendingOK(m)
                  /\ Len(m.line) <= LineMax
                  /\ m.users # before => m.authenticated = TRUE}

\* monitor_write_str leaves something in the buffer even if it was full.
LEMMA SayWorks ==
    ASSUME NEW before, NEW m \in Work, Bounded(m), Len(m.line) <= LineMax,
           m.users # before => m.authenticated = TRUE, NEW n \in Nat \ {0}
    PROVE  /\ Say(m, n) \in Working(before) /\ Say(m, n).write_held > 0
           /\ Say(m, n).rest = m.rest /\ Say(m, n).stopped = m.stopped
<1> DEFINE room == WriteCapacity - m.write_start - m.write_held
           more == IF n <= room THEN n ELSE room
<1>1. /\ m.write_start \in Nat /\ m.write_held \in Nat
      /\ m.write_start + m.write_held <= WriteCapacity
      /\ WriteCapacity \in Nat \ {0}
  BY DEF Work, Bounded
<1>2. more \in Nat /\ m.write_start + m.write_held + more <= WriteCapacity
      /\ m.write_held + more > 0
  BY <1>1 DEF Bounded
<1>3. Say(m, n) = [m EXCEPT !.write_held = m.write_held + more]
  BY DEF Say
<1> HIDE DEF more
<1> DEFINE s == Say(m, n)
<1>4. /\ s.write_held = m.write_held + more /\ s.write_start = m.write_start
      /\ s.line = m.line /\ s.authenticated = m.authenticated /\ s.users = m.users
      /\ s.rest = m.rest /\ s.stopped = m.stopped
  BY <1>3 DEF Work
<1>5. s \in Work
  <2>1. m.write_held + more \in Nat
    BY <1>1, <1>2
  <2> QED BY <1>3, <2>1 DEF Work
<1> HIDE DEF s
<1>6. SendingOK(s)
  BY <1>1, <1>2, <1>4 DEF SendingOK
<1>7. s \in Working(before) /\ s.write_held > 0 /\ s.rest = m.rest /\ s.stopped = m.stopped
  BY <1>1, <1>2, <1>4, <1>5, <1>6 DEF Working
<1> QED BY <1>7 DEF s

LEMMA RunWorks ==
    ASSUME NEW before, NEW m \in Working(before), NEW c \in Commands \cup {[op |-> "other"]},
           logged \in Nat
    PROVE  Run(m, c) \in Working(before) /\ Run(m, c).rest = m.rest
                                         /\ Run(m, c).stopped = m.stopped
<1>1. m \in Work /\ SendingOK(m) /\ Bounded(m) /\ Len(m.line) <= LineMax
  BY DEF Working, SendingOK, Bounded
<1>2. ASSUME NEW n \in Nat \ {0}
      PROVE  /\ Say(m, n) \in Working(before)
             /\ Say(m, n).rest = m.rest /\ Say(m, n).stopped = m.stopped
  <2>1. m.users # before => m.authenticated = TRUE
    BY DEF Working
  <2> QED BY <1>1, <2>1, SayWorks
<1>3. ASSUME NEW store \in Stores, m.authenticated = TRUE
      PROVE  LET s == Say([m EXCEPT !.users = store], 1) IN
             s \in Working(before) /\ s.rest = m.rest /\ s.stopped = m.stopped
  <2> DEFINE x == [m EXCEPT !.users = store]
  <2>1. x \in Work /\ Bounded(x) /\ x.close_after_write = m.close_after_write
        /\ x.line = m.line /\ x.authenticated = TRUE /\ x.rest = m.rest /\ x.stopped = m.stopped
    BY <1>1, <1>3 DEF Work, Bounded
  <2> HIDE DEF x
  <2>2. Len(x.line) <= LineMax /\ 1 \in Nat \ {0}
    BY <1>1, <2>1
  <2>3. /\ Say(x, 1) \in Working(before) /\ Say(x, 1).rest = x.rest
        /\ Say(x, 1).stopped = x.stopped
    BY <2>1, <2>2, SayWorks
  <2> QED BY <2>1, <2>3 DEF x
<1>4. LET a == Authenticate(m, c) IN
      a \in Working(before) /\ a.rest = m.rest /\ a.stopped = m.stopped
  <2>1. CASE c.op = "AUTH"
    <3> DEFINE x == [m EXCEPT !.authenticated = TRUE]
    <3>1. x \in Work /\ Bounded(x) /\ x.close_after_write = m.close_after_write
          /\ x.line = m.line /\ x.authenticated = TRUE /\ x.rest = m.rest /\ x.stopped = m.stopped
      BY <1>1 DEF Work, Bounded
    <3> HIDE DEF x
    <3>2. Len(x.line) <= LineMax /\ 1 \in Nat \ {0}
      BY <1>1, <3>1
    <3>3. /\ Say(x, 1) \in Working(before) /\ Say(x, 1).rest = x.rest
          /\ Say(x, 1).stopped = x.stopped
      BY <3>1, <3>2, SayWorks
    <3> QED BY <2>1, <3>1, <3>3 DEF Authenticate, x
  <2>2. CASE c.op # "AUTH"
    <3> DEFINE x == [m EXCEPT !.close_after_write = TRUE]
    <3>1. x \in Work /\ Bounded(x) /\ x.line = m.line /\ x.users = m.users
          /\ x.authenticated = m.authenticated /\ x.rest = m.rest /\ x.stopped = m.stopped
      BY <1>1 DEF Work, Bounded
    <3> HIDE DEF x
    <3>2. Len(x.line) <= LineMax /\ 1 \in Nat \ {0}
          /\ (x.users # before => x.authenticated = TRUE)
      BY <1>1, <3>1 DEF Working
    <3>3. /\ Say(x, 1) \in Working(before) /\ Say(x, 1).rest = x.rest
          /\ Say(x, 1).stopped = x.stopped
      BY <3>1, <3>2, SayWorks
    <3> QED BY <2>2, <3>1, <3>3 DEF Authenticate, x
  <2> QED BY <2>1, <2>2
<1>5. m.users \in Stores /\ m.authenticated \in BOOLEAN
  BY <1>1 DEF Work
<1>6. \A u, p : Added(m.users, u, p) \in Stores /\ Removed(m.users, u) \in Stores
  BY <1>5, StoresKept
<1>7. Len(Listing(m.users)) + 2 \in Nat \ {0} /\ logged + 2 \in Nat \ {0}
  BY <1>5, ListingLength
<1>8. /\ [m EXCEPT !.users = Added(@, c.user, c.user)]
            = [m EXCEPT !.users = Added(m.users, c.user, c.user)]
      /\ [m EXCEPT !.users = Removed(@, c.user)] = [m EXCEPT !.users = Removed(m.users, c.user)]
  OBVIOUS
<1>9. c.op \in {"AUTH", "AUTH-WRONG", "METRICS", "ADD-USER", "DEL-USER", "LIST-USERS",
                "ACCESS-LOG", "other"}
  OBVIOUS
<1>10. CASE c.op \in {"AUTH", "AUTH-WRONG"}
  BY <1>4, <1>10 DEF Run
<1>11. CASE c.op \notin {"AUTH", "AUTH-WRONG"} /\ ~m.authenticated
  BY <1>2, <1>11 DEF Run
<1>12. CASE c.op = "METRICS" /\ m.authenticated
  BY <1>2, <1>12 DEF Run
<1>13. CASE c.op = "ADD-USER" /\ m.authenticated
  <2>1. Run(m, c) = Say([m EXCEPT !.users = Added(m.users, c.user, c.user)], 1)
    BY <1>8, <1>13 DEF Run
  <2> QED BY <1>3, <1>6, <1>13, <2>1
<1>14. CASE c.op = "DEL-USER" /\ m.authenticated
  <2>1. Run(m, c) = Say([m EXCEPT !.users = Removed(m.users, c.user)], 1)
    BY <1>8, <1>14 DEF Run
  <2> QED BY <1>3, <1>6, <1>14, <2>1
<1>15. CASE c.op = "LIST-USERS" /\ m.authenticated
  BY <1>2, <1>7, <1>15 DEF Run
<1>16. CASE c.op = "ACCESS-LOG" /\ m.authenticated
  BY <1>2, <1>7, <1>16 DEF Run
<1>17. CASE c.op = "other" /\ m.authenticated
  BY <1>2, <1>17 DEF Run
<1> QED BY <1>5, <1>9, <1>10, <1>11, <1>12, <1>13, <1>14, <1>15, <1>16, <1>17

\* One turn.
LEMMA TakeWorks ==
    ASSUME NEW before, NEW m \in Working(before), NEW c \in Symbol, logged \in Nat
    PROVE  Take(m, c) \in Working(before) /\ Len(Take(m, c).rest) <= Len(m.rest) + 1
<1>1. /\ m \in Work /\ SendingOK(m) /\ Bounded(m) /\ Len(m.line) <= LineMax
      /\ (m.users # before => m.authenticated = TRUE)
  BY DEF Working, SendingOK, Bounded
<1>2. m.line \in Seq(Commands) /\ m.rest \in Seq(Symbol) /\ m.stopped \in BOOLEAN
      /\ LineMax \in Nat \ {0}
  BY <1>1 DEF Work
<1>3. CASE m.stopped
  <2> DEFINE t == [m EXCEPT !.rest = Append(m.rest, c)]
  <2>1. Append(m.rest, c) \in Seq(Symbol) /\ Len(Append(m.rest, c)) = Len(m.rest) + 1
    BY <1>2
  <2>2. t \in Work /\ t.rest = Append(m.rest, c) /\ t.line = m.line /\ t.users = m.users
        /\ t.authenticated = m.authenticated /\ t.write_start = m.write_start
        /\ t.write_held = m.write_held /\ t.close_after_write = m.close_after_write
    BY <1>1, <2>1 DEF Work
  <2>3. Take(m, c) = t
    BY <1>3 DEF Take
  <2> HIDE DEF t
  <2> QED BY <1>1, <1>2, <2>1, <2>2, <2>3 DEF Working, SendingOK
<1>4. CASE ~m.stopped /\ c = Newline
  <2>1. Line(m) \in Commands \cup {[op |-> "other"]}
    <3>1. Len(m.line) = 1 => m.line[1] \in Commands
      BY <1>2
    <3> QED BY <3>1 DEF Line
  <2> DEFINE r == Run(m, Line(m))
             t == [r EXCEPT !.line = <<>>]
  <2>2. r \in Working(before) /\ r.rest = m.rest
    BY <2>1, RunWorks
  <2> HIDE DEF r
  <2>5. r \in Work /\ <<>> \in Seq(Commands)
    BY <2>2 DEF Working
  <2>3. t \in Work /\ t.rest = m.rest /\ t.line = <<>> /\ t.users = r.users
        /\ t.authenticated = r.authenticated /\ t.write_start = r.write_start
        /\ t.write_held = r.write_held /\ t.close_after_write = r.close_after_write
    BY <2>2, <2>5 DEF Work
  <2>4. Take(m, c) = t
    BY <1>4 DEF Take, r
  <2> HIDE DEF t
  <2> QED BY <1>2, <2>2, <2>3, <2>4 DEF Working, SendingOK
<1>5. CASE ~m.stopped /\ c # Newline /\ Len(m.line) < LineMax
  <2> DEFINE t == [m EXCEPT !.line = Append(m.line, c)]
  <2>1. c \in Commands
    BY <1>5 DEF Symbol
  <2>2. Append(m.line, c) \in Seq(Commands) /\ Len(Append(m.line, c)) <= LineMax
    BY <1>2, <1>5, <2>1
  <2>3. t \in Work /\ t.rest = m.rest /\ t.line = Append(m.line, c) /\ t.users = m.users
        /\ t.authenticated = m.authenticated /\ t.write_start = m.write_start
        /\ t.write_held = m.write_held /\ t.close_after_write = m.close_after_write
    BY <1>1, <2>2 DEF Work
  <2>4. Take(m, c) = t
    BY <1>5 DEF Take
  <2> HIDE DEF t
  <2> QED BY <1>1, <1>2, <2>2, <2>3, <2>4 DEF Working, SendingOK
<1>6. CASE ~m.stopped /\ c # Newline /\ ~(Len(m.line) < LineMax)
  <2> DEFINE r == Say(m, 1)
             t == [r EXCEPT !.close_after_write = TRUE, !.line = <<>>, !.stopped = TRUE]
  <2>1. r \in Working(before) /\ r.rest = m.rest /\ r.write_held > 0
    <3> 1 \in Nat \ {0}
      OBVIOUS
    <3> QED BY <1>1, SayWorks
  <2> HIDE DEF r
  <2>4. r \in Work /\ <<>> \in Seq(Commands)
    BY <2>1 DEF Working
  <2>2. t \in Work /\ t.rest = m.rest /\ t.line = <<>> /\ t.users = r.users
        /\ t.authenticated = r.authenticated /\ t.write_start = r.write_start
        /\ t.write_held = r.write_held
    BY <2>1, <2>4 DEF Work
  <2>3. Take(m, c) = t
    BY <1>6 DEF Take, r
  <2> HIDE DEF t
  <2> QED BY <1>2, <2>1, <2>2, <2>3 DEF Working, SendingOK
<1> QED BY <1>3, <1>4, <1>5, <1>6

\* Every turn, and so the loop.
LEMMA TurnsWork ==
    ASSUME NEW before, NEW start \in Working(before), start.rest = <<>>,
           NEW symbols \in Seq(Symbol), logged \in Nat
    PROVE  /\ Turns(start, symbols) \in Working(before)
           /\ Len(Turns(start, symbols).rest) <= Len(symbols)
<1> DEFINE n == Len(symbols)
           S == Working(before)
           step == [k \in 1 .. n |-> [m \in S |-> Take(m, symbols[k])]]
           Recursive(f) == f = [k \in 0 .. n |->
                                  IF k = 0 THEN start ELSE Take(f[k - 1], symbols[k])]
           after == CHOOSE f : Recursive(f)
<1>1. n \in Nat /\ \A k \in 1 .. n : symbols[k] \in Symbol
  OBVIOUS
<1>2. \A k \in 1 .. n : \A m \in S : step[k][m] = Take(m, symbols[k]) /\ step[k][m] \in S
  BY <1>1, TakeWorks
<1>3. \E f : Recursive(f)
  <2>1. PICK f \in [0 .. n -> S] : Follows(f, n, start, step)
    <3>1. start \in S /\ n \in Nat
      BY <1>1
    <3>2. step \in [1 .. n -> [S -> S]]
      BY <1>2 DEF step
    <3> HIDE DEF S, n, step
    <3> QED BY <3>1, <3>2, Recursion
  <2> HIDE DEF step
  <2>2. \A k \in 0 .. n : k # 0 => f[k - 1] \in S /\ k \in 1 .. n
    BY <1>1
  <2>3. \A k \in 0 .. n : f[k] = IF k = 0 THEN start ELSE Take(f[k - 1], symbols[k])
    BY <1>2, <2>1, <2>2 DEF Follows
  <2>4. Recursive(f)
    BY <2>3
  <2> HIDE DEF Recursive
  <2> QED BY <2>4
<1>4. Recursive(after)
  <2> HIDE DEF Recursive
  <2> QED BY <1>3
<1>5. Turns(start, symbols) = after[n]
  BY DEF Turns
<1>6. \A k \in 0 .. n : after[k] = IF k = 0 THEN start ELSE Take(after[k - 1], symbols[k])
  <2> HIDE DEF after
  <2> SUFFICES ASSUME NEW k \in 0 .. n
               PROVE  after[k] = IF k = 0 THEN start ELSE Take(after[k - 1], symbols[k])
    OBVIOUS
  <2> DEFINE right == [j \in 0 .. n |->
                         IF j = 0 THEN start ELSE Take(after[j - 1], symbols[j])]
  <2>1. right[k] = IF k = 0 THEN start ELSE Take(after[k - 1], symbols[k])
    OBVIOUS
  <2>2. after = right
    BY <1>4
  <2> HIDE DEF right
  <2> QED BY <2>1, <2>2
<1>7. \A m \in S : m.rest \in Seq(Symbol) /\ Len(m.rest) \in Nat
  BY DEF Working, Work
<1> HIDE DEF after, Recursive
<1> DEFINE P == {k \in 0 .. n : after[k] \in S /\ Len(after[k].rest) <= k}
<1>8. 0 \in P
  BY <1>1, <1>6
<1>9. ASSUME NEW k \in 1 .. n, k - 1 \in P
      PROVE  k \in P
  <2>1. after[k] = Take(after[k - 1], symbols[k])
    BY <1>1, <1>6
  <2>2. after[k - 1] \in S /\ Len(after[k - 1].rest) <= k - 1
    BY <1>9
  <2>3. after[k] \in S /\ Len(after[k].rest) <= Len(after[k - 1].rest) + 1
    BY <1>1, <2>1, <2>2, TakeWorks
  <2>4. Len(after[k].rest) \in Nat /\ Len(after[k - 1].rest) \in Nat
    BY <1>7, <2>2, <2>3
  <2> QED BY <1>1, <2>2, <2>3, <2>4
<1>10. n \in P
  <2>1. 0 .. n \subseteq P
    <3> HIDE DEF P
    <3> QED BY <1>1, <1>8, <1>9, UpTo
  <2> QED BY <1>1, <2>1
<1> QED BY <1>5, <1>10

-----------------------------------------------------------------------------
(* The handlers *)

\* A step that is about s is no other session's.
LEMMA OnlyOne ==
    ASSUME IInv, NEW s \in Session, Typed', SessionOK(s)',
           \A t \in Session : t # s => /\ session'[t] = session[t]
                                       /\ interest'[t] = interest[t]
                                       /\ t \in open' <=> t \in open
    PROVE  IInv'
<1>1. ASSUME NEW t \in Session, t # s PROVE SessionOK(t)'
  <2>1. session'[t] = session[t] /\ interest'[t] = interest[t] /\ (t \in open' <=> t \in open)
    BY <1>1
  <2>2. SessionOK(t)
    BY DEF IInv
  <2> QED BY <2>1, <2>2 DEF SessionOK
<1> QED BY <1>1 DEF IInv

LEMMA CloseKeeps ==
    ASSUME IInv, NEW s \in Session, Close(s)
    PROVE  IInv' /\ users' = users
<1>1. NewSession \in Sessions /\ SendingOK(NewSession) /\ Len(NewSession.line) <= LineMax
      /\ NewSession.read_start + Len(NewSession.read_held) <= ReadCapacity
  <2>1. <<>> \in Seq(Commands) /\ <<>> \in Seq(Symbol) /\ Len(<<>>) = 0
    OBVIOUS
  <2> QED BY <2>1 DEF NewSession, Sessions, SendingOK
<1>2. session'[s] = NewSession /\ interest'[s] = {} /\ s \notin open'
  BY DEF Close, IInv, Typed
<1>3. Typed'
  BY <1>1 DEF Close, IInv, Typed
<1>4. SessionOK(s)'
  BY <1>1, <1>2 DEF SessionOK
<1>5. \A t \in Session : t # s => /\ session'[t] = session[t]
                                  /\ interest'[t] = interest[t]
                                  /\ t \in open' <=> t \in open
  BY DEF Close, IInv, Typed
<1> QED BY <1>3, <1>4, <1>5, OnlyOne DEF Close

LEMMA AcceptKeeps ==
    ASSUME IInv, NEW s \in Session, Accept(s)
    PROVE  IInv'
<1>1. Typed'
  BY DEF Accept, IInv, Typed
<1>2. interest'[s] = {"R"} /\ s \in open' /\ session'[s] = session[s]
  BY DEF Accept, IInv, Typed
<1>3. session[s] = NewSession /\ SendingOK(session[s]) /\ Len(session[s].line) <= LineMax
      /\ session[s].read_start + Len(session[s].read_held) <= ReadCapacity
  BY DEF Accept, IInv, SessionOK
<1>4. SessionOK(s)'
  BY <1>2, <1>3 DEF SessionOK, NewSession
<1>5. \A t \in Session : t # s => /\ session'[t] = session[t]
                                  /\ interest'[t] = interest[t]
                                  /\ t \in open' <=> t \in open
  BY DEF Accept, IInv, Typed
<1> QED BY <1>1, <1>4, <1>5, OnlyOne

\* monitor_update_interests, of a session that is open.
LEMMA InterestsFollow ==
    ASSUME IInv, NEW s \in open, Interests(s), open' = open,
           session' \in [Session -> Sessions]
    PROVE  /\ interest' \in [Session -> SUBSET {"R", "W"}]
           /\ "R" \in interest'[s]
           /\ "W" \in interest'[s] <=> session'[s].write_held > 0
           /\ \A t \in Session : t # s => interest'[t] = interest[t]
BY DEF IInv, Typed, Interests

\* What monitor_read makes of a session: it fits in its buffers, and the users
\* have changed only if it has authenticated.
LEMMA ConsumeKeeps ==
    ASSUME IInv, NEW s \in Session, NEW symbols \in Seq(Symbol), Consume(s, symbols),
           session[s].read_start + Len(symbols) <= ReadCapacity
    PROVE  /\ users' \in Stores
           /\ session' \in [Session -> Sessions]
           /\ SendingOK(session'[s]) /\ Len(session'[s].line) <= LineMax
           /\ session'[s].read_start + Len(session'[s].read_held) <= ReadCapacity
           /\ \A t \in Session : t # s => session'[t] = session[t]
           /\ users' # users => session'[s].authenticated
<1> DEFINE x == session[s]
           m == Turns(Loop(x), symbols)
           start == IF m.rest = <<>> THEN 0 ELSE x.read_start + Len(symbols) - Len(m.rest)
           new == [authenticated |-> m.authenticated,
                   close_after_write |-> m.close_after_write,
                   line |-> m.line, read_start |-> start, read_held |-> m.rest,
                   write_start |-> m.write_start, write_held |-> m.write_held]
<1>1. x \in Sessions /\ SendingOK(x) /\ Len(x.line) <= LineMax /\ users \in Stores
      /\ logged \in Nat
  BY DEF IInv, Typed, SessionOK
<1>2. Loop(x) \in Working(users) /\ Loop(x).rest = <<>>
  <2>1. Loop(x) \in Work
    <3> <<>> \in Seq(Symbol)
      OBVIOUS
    <3> QED BY <1>1 DEF Loop, Work, Sessions
  <2>2. /\ Loop(x).write_start = x.write_start /\ Loop(x).write_held = x.write_held
        /\ Loop(x).close_after_write = x.close_after_write
        /\ Loop(x).line = x.line /\ Loop(x).users = users /\ Loop(x).rest = <<>>
    BY DEF Loop
  <2> QED BY <1>1, <2>1, <2>2 DEF Working, SendingOK
<1>3. m \in Working(users) /\ Len(m.rest) <= Len(symbols)
  <2> HIDE DEF x
  <2> QED BY <1>1, <1>2, TurnsWork
<1>4. users' = m.users /\ session' = [session EXCEPT ![s] = new]
  BY DEF Consume
<1>5. m \in Work /\ SendingOK(m) /\ Len(m.line) <= LineMax
      /\ (m.users # users => m.authenticated = TRUE)
  <2> HIDE DEF m
  <2> QED BY <1>3 DEF Working
<1>6. m.rest \in Seq(Symbol) /\ Len(m.rest) \in Nat /\ Len(symbols) \in Nat
      /\ x.read_start \in Nat /\ ReadCapacity \in Nat
  <2> HIDE DEF m, x
  <2> QED BY <1>1, <1>5 DEF Work, Sessions
<1> HIDE DEF m, x
<1>7. start \in Nat /\ start + Len(m.rest) <= ReadCapacity
  <2>1. x.read_start + Len(symbols) <= ReadCapacity
    BY DEF x
  <2>2. m.rest = <<>> => Len(m.rest) = 0
    BY <1>6
  <2> QED BY <1>3, <1>6, <2>1, <2>2
<1> HIDE DEF start
<1>8. new \in Sessions
  BY <1>5, <1>6, <1>7 DEF Work, Sessions
<1>9. SendingOK(new)
  BY <1>5 DEF SendingOK
<1>10. session' \in [Session -> Sessions] /\ session'[s] = new
       /\ \A t \in Session : t # s => session'[t] = session[t]
  <2> HIDE DEF new
  <2> QED BY <1>4, <1>8 DEF IInv, Typed
<1>11. users' \in Stores
  BY <1>4, <1>5 DEF Work
<1>12. new.line = m.line /\ new.read_start = start /\ new.read_held = m.rest
       /\ new.authenticated = m.authenticated
  OBVIOUS
<1> HIDE DEF new
<1> QED BY <1>4, <1>5, <1>7, <1>9, <1>10, <1>11, <1>12

LEMMA ReadKeeps ==
    ASSUME IInv, NEW s \in Session, Read(s)
    PROVE  IInv' /\ (users' # users => session'[s].authenticated)
<1>1. /\ s \in open /\ Interests(s) /\ logged' = logged /\ open' = open
  BY DEF Read, Event
<1>2. PICK n \in 1 .. IF Room(s) < MaxRecv THEN Room(s) ELSE MaxRecv :
         \E received \in [1 .. n -> Symbol] :
             Consume(s, session[s].read_held \o received)
  BY DEF Read
<1>3. PICK received \in [1 .. n -> Symbol] : Consume(s, session[s].read_held \o received)
  BY <1>2
<1> DEFINE symbols == session[s].read_held \o received
<1>4. session[s] \in Sessions /\ session[s].read_held \in Seq(Symbol)
      /\ session[s].read_start \in Nat /\ ReadCapacity \in Nat /\ MaxRecv \in Nat
  BY DEF IInv, Typed, Sessions
<1>5. n \in Nat /\ n <= Room(s) /\ Room(s) \in Int
  BY <1>4 DEF Room
<1>6. received \in Seq(Symbol) /\ Len(received) = n
  BY <1>5
<1>7. symbols \in Seq(Symbol) /\ Len(symbols) = Len(session[s].read_held) + n
  BY <1>4, <1>6
<1>8. session[s].read_start + Len(symbols) <= ReadCapacity
  <2> DEFINE start == session[s].read_start
             held  == Len(session[s].read_held)
             total == Len(symbols)
  <2>1. start \in Nat /\ held \in Nat /\ n <= ReadCapacity - start - held
    BY <1>4, <1>5 DEF Room
  <2>2. total = held + n
    BY <1>7
  <2> HIDE DEF start, held, total
  <2>3. start + total <= ReadCapacity
    BY <1>4, <1>5, <2>1, <2>2
  <2> QED BY <2>3 DEF start, total
<1>9. Consume(s, symbols)
  BY <1>3
<1> HIDE DEF symbols
<1>10. /\ users' \in Stores
       /\ session' \in [Session -> Sessions]
       /\ SendingOK(session'[s]) /\ Len(session'[s].line) <= LineMax
       /\ session'[s].read_start + Len(session'[s].read_held) <= ReadCapacity
       /\ \A t \in Session : t # s => session'[t] = session[t]
       /\ users' # users => session'[s].authenticated
  BY <1>7, <1>8, <1>9, ConsumeKeeps
<1>11. /\ interest' \in [Session -> SUBSET {"R", "W"}]
       /\ "R" \in interest'[s]
       /\ "W" \in interest'[s] <=> session'[s].write_held > 0
       /\ \A t \in Session : t # s => interest'[t] = interest[t]
  BY <1>1, <1>10, InterestsFollow
<1>12. Typed'
  BY <1>1, <1>10, <1>11 DEF IInv, Typed
<1>13. SessionOK(s)'
  BY <1>1, <1>10, <1>11 DEF SessionOK
<1> QED BY <1>1, <1>10, <1>11, <1>12, <1>13, OnlyOne

LEMMA WriteKeeps ==
    ASSUME IInv, NEW s \in Session, Write(s)
    PROVE  IInv' /\ users' = users
<1>1. PICK n \in 1 .. session[s].write_held :
         IF n = session[s].write_held /\ session[s].close_after_write
         THEN Close(s)
         ELSE /\ session' = [session EXCEPT
                     ![s].write_start = IF n = session[s].write_held THEN 0 ELSE @ + n,
                     ![s].write_held = @ - n]
              /\ Interests(s)
              /\ UNCHANGED <<users, logged, open>>
  BY DEF Write
<1>2. CASE n = session[s].write_held /\ session[s].close_after_write
  BY <1>1, <1>2, CloseKeeps
<1>3. CASE ~(n = session[s].write_held /\ session[s].close_after_write)
  <2> DEFINE x == session[s]
             new == [x EXCEPT !.write_start = IF n = x.write_held THEN 0 ELSE x.write_start + n,
                              !.write_held = x.write_held - n]
  <2>1. s \in open
    BY DEF Write, Event
  <2>2. /\ session' = [session EXCEPT
                     ![s].write_start = IF n = session[s].write_held THEN 0 ELSE @ + n,
                     ![s].write_held = @ - n]
        /\ Interests(s) /\ users' = users /\ logged' = logged /\ open' = open
    BY <1>1, <1>3
  <2>3. x \in Sessions /\ session \in [Session -> Sessions]
    BY DEF IInv, Typed
  <2>4. session' = [session EXCEPT ![s] = new]
    BY <2>2, <2>3
  <2>5. /\ x.write_start \in Nat /\ x.write_held \in Nat /\ n \in 1 .. x.write_held
        /\ SendingOK(x) /\ Len(x.line) <= LineMax
        /\ x.read_start + Len(x.read_held) <= ReadCapacity
    BY <2>3 DEF Sessions, IInv, SessionOK
  <2> HIDE DEF x
  <2>6. /\ new \in Sessions
        /\ new.write_start = (IF n = x.write_held THEN 0 ELSE x.write_start + n)
        /\ new.write_held = x.write_held - n
        /\ new.close_after_write = x.close_after_write
        /\ new.line = x.line /\ new.read_start = x.read_start /\ new.read_held = x.read_held
    <3>1. x.write_held - n \in Nat
      BY <2>5
    <3>2. (IF n = x.write_held THEN 0 ELSE x.write_start + n) \in Nat
      BY <2>5
    <3> QED BY <2>3, <3>1, <3>2 DEF Sessions
  <2> HIDE DEF new
  <2>7. SendingOK(new)
    <3>1. WriteCapacity \in Nat
      OBVIOUS
    <3>2. n = x.write_held => ~x.close_after_write
      BY <1>3 DEF x
    <3> QED BY <2>5, <2>6, <3>1, <3>2 DEF SendingOK
  <2>8. session' \in [Session -> Sessions] /\ session'[s] = new
        /\ \A t \in Session : t # s => session'[t] = session[t]
    BY <2>3, <2>4, <2>6
  <2>9. /\ interest' \in [Session -> SUBSET {"R", "W"}]
        /\ "R" \in interest'[s]
        /\ "W" \in interest'[s] <=> session'[s].write_held > 0
        /\ \A t \in Session : t # s => interest'[t] = interest[t]
    BY <2>1, <2>2, <2>8, InterestsFollow
  <2>10. Typed'
    BY <2>2, <2>8, <2>9 DEF IInv, Typed
  <2>11. SessionOK(s)'
    BY <2>1, <2>2, <2>5, <2>6, <2>7, <2>8, <2>9 DEF SessionOK
  <2> QED BY <2>2, <2>8, <2>9, <2>10, <2>11, OnlyOne
<1> QED BY <1>2, <1>3

-----------------------------------------------------------------------------
(* The theorems *)

LEMMA Initially == Init => IInv
<1> SUFFICES ASSUME Init PROVE IInv
  OBVIOUS
<1>1. <<>> \in Seq(Commands) /\ <<>> \in Seq(Symbol) /\ Len(<<>>) = 0
  OBVIOUS
<1>2. NewSession \in Sessions
  BY <1>1 DEF NewSession, Sessions
<1>3. Typed
  BY <1>2 DEF Init, Typed, Stores
<1>4. \A s \in Session : SessionOK(s)
  BY <1>1 DEF Init, SessionOK, SendingOK, NewSession
<1> QED BY <1>3, <1>4 DEF IInv

\* What a step owes: the invariant, and who has changed the users.
Authorised == \A s \in Session : Read(s) /\ users' # users => session'[s].authenticated

LEMMA NextKeeps == IInv /\ [Next]_vars => IInv' /\ Authorised
<1> SUFFICES ASSUME IInv, [Next]_vars PROVE IInv' /\ Authorised
  OBVIOUS
<1>1. Authorised
  BY ReadKeeps DEF Authorised
<1>2. ASSUME NEW s \in Session, Accept(s) PROVE IInv'
  BY <1>2, AcceptKeeps
<1>3. ASSUME NEW s \in Session, Read(s) PROVE IInv'
  BY <1>3, ReadKeeps
<1>4. ASSUME NEW s \in Session, ReadEnd(s) PROVE IInv'
  BY <1>4, CloseKeeps DEF ReadEnd
<1>5. ASSUME NEW s \in Session, Write(s) PROVE IInv'
  BY <1>5, WriteKeeps
<1>6. ASSUME NEW s \in Session, WriteEnd(s) PROVE IInv'
  BY <1>6, CloseKeeps DEF WriteEnd
<1>7. ASSUME Logged PROVE IInv'
  <2>1. logged' \in 0 .. MaxLog
    BY <1>7 DEF Logged, IInv, Typed
  <2> QED BY <1>7, <2>1 DEF Logged, IInv, Typed, SessionOK
<1>8. ASSUME UNCHANGED vars PROVE IInv'
  BY <1>8 DEF vars, IInv, Typed, SessionOK
<1> QED BY <1>1, <1>2, <1>3, <1>4, <1>5, <1>6, <1>7, <1>8 DEF Next

LEMMA MonitorInductive == Spec => []IInv
<1> QED BY Initially, NextKeeps, PTL DEF Spec

\* The line leaves room for its terminator and both buffers stay within their
\* arrays, whatever is received (monitor_read, monitor_write_str).
THEOREM MonitorTypeCorrect == Spec => []TypeOK
<1>1. IInv => TypeOK
  BY IInvImplies
<1> QED BY <1>1, MonitorInductive, PTL

\* A session is watched for writing as long as, and only as long as, it has an
\* answer to send (monitor_update_interests).
THEOREM AnswersAreWatched == Spec => []OutputWatched
<1>1. IInv => OutputWatched
  BY IInvImplies
<1> QED BY <1>1, MonitorInductive, PTL

\* A session that is to be closed has something to send until it is closed, so
\* that monitor_write is called for it and closes it.
THEOREM FarewellsArePending == Spec => []FarewellPending
<1>1. IInv => FarewellPending
  BY IInvImplies
<1> QED BY <1>1, MonitorInductive, PTL

\* Whatever a piece of input holds, the users change only if the session that
\* received it has presented the token (monitor_process_command).
THEOREM OnlyAuthorisedChange == Spec => StoreChangesAuthorised
<1>1. IInv /\ [Next]_vars => [Authorised]_vars
  BY NextKeeps
<1>2. Spec => [][Authorised]_vars
  BY <1>1, MonitorInductive, PTL DEF Spec
<1> QED BY <1>2 DEF StoreChangesAuthorised, Authorised
=============================================================================
