------------------------------- MODULE Monitor -------------------------------
(* The administrators' connections of src/src/server/monitor.c: bytes that    *)
(* arrive in pieces of any size are cut into lines, a line is run as a        *)
(* command, and its answer waits in a bounded buffer to be sent.              *)
(*                                                                            *)
(* A symbol stands for a run of bytes: a command with its arguments, the end  *)
(* of a line, or a byte that belongs to no command. A line that is one        *)
(* command is that command; any other is unknown. Answers are counted in      *)
(* lines of text. Of a buffer it matters how far its reader is (read) and     *)
(* what it holds (Buffer and CopyRelayProofs say why this is enough).         *)
(*                                                                            *)
(* A definition whose name has the form Name_Fault is Name with a plausible   *)
(* programming error, against which the properties are tried; nothing in the  *)
(* specification uses it.                                                     *)
EXTENDS UserStore, Sequences

CONSTANTS
    Session,       \* the memory blocks for struct monitor_client
    Commands,      \* what the administrators may send: records with field op
    LineMax,       \* LINE_BUFFER_SIZE - 1, in symbols
    ReadCapacity,  \* MONITOR_BUFF_SIZE, in symbols
    WriteCapacity, \* MONITOR_BUFF_SIZE, in lines
    MaxLog,        \* ACCESS_LOG_MAX_ENTRIES
    MaxRecv        \* bound: the symbols of one recv

ASSUME MonitorAssumption ==
    /\ \A c \in Commands : c.op \in {"AUTH", "AUTH-WRONG", "METRICS", "ADD-USER",
                                     "DEL-USER", "LIST-USERS", "ACCESS-LOG", "other"}
    /\ LineMax \in Nat \ {0} /\ MaxLog \in Nat /\ MaxRecv \in Nat
    /\ ReadCapacity \in Nat \ {0} /\ WriteCapacity \in Nat \ {0}

VARIABLES
    users,       \* the user store
    logged,      \* how many entries the access log has
    open,        \* the sessions that exist
    session,     \* the struct monitor_client
    interest     \* of its descriptor

vars == <<users, logged, open, session, interest>>

Newline == [op |-> "newline"]
Symbol  == Commands \cup {Newline}

\* memset, and two empty buffers
NewSession ==
    [authenticated |-> FALSE, close_after_write |-> FALSE, line |-> <<>>,
     read_start |-> 0, read_held |-> <<>>, write_start |-> 0, write_held |-> 0]

Init ==
    /\ users = [i \in Slots |-> NoUser]
    /\ logged = 0
    /\ open = {}
    /\ session = [s \in Session |-> NewSession]
    /\ interest = [s \in Session |-> {}]
-----------------------------------------------------------------------------
(* The commands. m is a session together with the store, in field users. *)

\* monitor_write_str of n lines: what does not fit is dropped.
Say(m, n) ==
    LET room == WriteCapacity - m.write_start - m.write_held IN
    [m EXCEPT !.write_held = @ + IF n <= room THEN n ELSE room]

\* monitor_process_command for what needs no authentication ...
Authenticate(m, c) ==
    IF c.op = "AUTH" THEN Say([m EXCEPT !.authenticated = TRUE], 1)
    ELSE Say([m EXCEPT !.close_after_write = TRUE], 1)

Run_Unchecked(m, c) ==
    CASE c.op \in {"AUTH", "AUTH-WRONG"} -> Authenticate(m, c)
      [] c.op = "DEL-USER" -> Say([m EXCEPT !.users = Removed(@, c.user)], 1)
      [] c.op = "ADD-USER" /\ m.authenticated ->
           Say([m EXCEPT !.users = Added(@, c.user, c.user)], 1)
      [] OTHER -> Say(m, 1)

\* ... and for the rest. (A user's password is not told from its name here.)
Run(m, c) ==
    CASE c.op \in {"AUTH", "AUTH-WRONG"} -> Authenticate(m, c)
      [] c.op \notin {"AUTH", "AUTH-WRONG"} /\ ~m.authenticated -> Say(m, 1)
      [] c.op = "METRICS" /\ m.authenticated -> Say(m, 4)
      [] c.op = "ADD-USER" /\ m.authenticated ->
           Say([m EXCEPT !.users = Added(@, c.user, c.user)], 1)
      [] c.op = "DEL-USER" /\ m.authenticated ->
           Say([m EXCEPT !.users = Removed(@, c.user)], 1)
      [] c.op = "LIST-USERS" /\ m.authenticated -> Say(m, Len(Listing(m.users)) + 2)
      [] c.op = "ACCESS-LOG" /\ m.authenticated -> Say(m, logged + 2)
      [] c.op = "other" /\ m.authenticated -> Say(m, 1)

Line(m) == IF Len(m.line) = 1 THEN m.line[1] ELSE [op |-> "other"]

Take_OneMore(m, c) ==
    IF m.stopped THEN [m EXCEPT !.rest = Append(@, c)]
    ELSE IF c = Newline THEN [Run(m, Line(m)) EXCEPT !.line = <<>>]
    ELSE IF Len(m.line) <= LineMax THEN [m EXCEPT !.line = Append(@, c)]
    ELSE [Say(m, 1) EXCEPT !.close_after_write = TRUE, !.line = <<>>, !.stopped = TRUE]

\* One turn of the loop of monitor_read. A line that is too long stops it, and
\* the rest stays in the buffer.
Take(m, c) ==
    IF m.stopped THEN [m EXCEPT !.rest = Append(@, c)]
    ELSE IF c = Newline THEN [Run(m, Line(m)) EXCEPT !.line = <<>>]
    ELSE IF Len(m.line) < LineMax THEN [m EXCEPT !.line = Append(@, c)]
    ELSE [Say(m, 1) EXCEPT !.close_after_write = TRUE, !.line = <<>>, !.stopped = TRUE]

\* The loop, for the symbols that the buffer holds.
Turns(start, symbols) ==
    LET after[k \in 0 .. Len(symbols)] ==  \* k turns
            IF k = 0 THEN start ELSE Take(after[k - 1], symbols[k])
    IN  after[Len(symbols)]

Loop(x) ==
    [authenticated |-> x.authenticated, close_after_write |-> x.close_after_write,
     line |-> x.line, write_start |-> x.write_start, write_held |-> x.write_held,
     users |-> users, stopped |-> FALSE, rest |-> <<>>]

\* The loop, and what it leaves in the buffer.
Consume(s, symbols) ==
    LET x == session[s]
        m == Turns(Loop(x), symbols)
    IN  /\ users' = m.users
        /\ session' = [session EXCEPT ![s] =
               [authenticated |-> m.authenticated,
                close_after_write |-> m.close_after_write,
                line |-> m.line,
                read_start |-> IF m.rest = <<>> THEN 0
                               ELSE x.read_start + Len(symbols) - Len(m.rest),
                read_held |-> m.rest,
                write_start |-> m.write_start, write_held |-> m.write_held]]
-----------------------------------------------------------------------------
(* The handlers *)

\* monitor_passive_accept; when it fails nothing is left.
Accept(s) ==
    /\ s \notin open
    /\ open' = open \cup {s}
    /\ interest' = [interest EXCEPT ![s] = {"R"}]
    /\ UNCHANGED <<users, logged, session>>

\* selector_unregister_fd, which calls monitor_close.
Close(s) ==
    /\ open' = open \ {s}
    /\ session' = [session EXCEPT ![s] = NewSession]
    /\ interest' = [interest EXCEPT ![s] = {}]
    /\ UNCHANGED <<users, logged>>

Event(s, op) == s \in open /\ op \in interest[s]

\* monitor_update_interests
Interests(s) ==
    interest' = [interest EXCEPT ![s] =
                     {"R"} \cup IF session'[s].write_held > 0 THEN {"W"} ELSE {}]

Room(s) == ReadCapacity - session[s].read_start - Len(session[s].read_held)

\* monitor_read with something received.
Read(s) ==
    /\ Event(s, "R")
    /\ \E n \in 1 .. IF Room(s) < MaxRecv THEN Room(s) ELSE MaxRecv :
         \E received \in [1 .. n -> Symbol] :
             Consume(s, session[s].read_held \o received)
    /\ Interests(s)
    /\ UNCHANGED <<logged, open>>

\* monitor_read: end of file, an error, or no room to receive anything.
ReadEnd(s) == Event(s, "R") /\ Close(s)

Write_NeverCloses(s) ==
    /\ Event(s, "W")
    /\ \E n \in 1 .. session[s].write_held :
         /\ session' = [session EXCEPT
                ![s].write_start = IF n = session[s].write_held THEN 0 ELSE @ + n,
                ![s].write_held = @ - n]
         /\ Interests(s)
    /\ UNCHANGED <<users, logged, open>>

Write_KeepsInterests(s) ==
    /\ Event(s, "W")
    /\ \E n \in 1 .. session[s].write_held :
         IF n = session[s].write_held /\ session[s].close_after_write
         THEN Close(s)
         ELSE /\ session' = [session EXCEPT
                     ![s].write_start = IF n = session[s].write_held THEN 0 ELSE @ + n,
                     ![s].write_held = @ - n]
              /\ UNCHANGED <<users, logged, open, interest>>

\* monitor_write: n lines are sent; the last of them may be the farewell.
Write(s) ==
    /\ Event(s, "W")
    /\ \E n \in 1 .. session[s].write_held :
         IF n = session[s].write_held /\ session[s].close_after_write
         THEN Close(s)
         ELSE /\ session' = [session EXCEPT
                     ![s].write_start = IF n = session[s].write_held THEN 0 ELSE @ + n,
                     ![s].write_held = @ - n]
              /\ Interests(s)
              /\ UNCHANGED <<users, logged, open>>

\* monitor_write: send fails, if only with EAGAIN.
WriteEnd(s) == Event(s, "W") /\ session[s].write_held > 0 /\ Close(s)

\* access_log_add, by a SOCKS connection.
Logged ==
    /\ logged < MaxLog
    /\ logged' = logged + 1
    /\ UNCHANGED <<users, open, session, interest>>

Next ==
    \/ \E s \in Session :
         Accept(s) \/ Read(s) \/ ReadEnd(s) \/ Write(s) \/ WriteEnd(s)
    \/ Logged

Spec == Init /\ [][Next]_vars
-----------------------------------------------------------------------------
(* Properties *)

\* The types: in particular a line leaves room for its terminator in
\* line_buffer, and the buffers stay within their arrays.
TypeOK ==
    /\ users \in Stores
    /\ logged \in 0 .. MaxLog
    /\ open \subseteq Session
    /\ \A s \in Session :
         /\ session[s].authenticated \in BOOLEAN
         /\ session[s].close_after_write \in BOOLEAN
         /\ session[s].line \in Seq(Commands) /\ Len(session[s].line) <= LineMax
         /\ session[s].read_held \in Seq(Symbol)
         /\ session[s].read_start + Len(session[s].read_held) \in 0 .. ReadCapacity
         /\ session[s].write_held \in 0 .. WriteCapacity
         /\ session[s].write_start + session[s].write_held \in 0 .. WriteCapacity
         /\ interest[s] \subseteq {"R", "W"}

\* An answer that waits to be sent is watched for, and a session without one is
\* not, or select would spin (monitor_update_interests). A session is always
\* read.
OutputWatched ==
    \A s \in open :
        /\ "R" \in interest[s]
        /\ "W" \in interest[s] <=> session[s].write_held > 0

\* A session that is to be closed once its answer is out still has something to
\* send, even if the answer itself did not fit: only monitor_write closes it,
\* and it is not called for an empty buffer.
FarewellPending ==
    \A s \in open : session[s].close_after_write => session[s].write_held > 0

\* Only a session that has itself presented the token changes the users, with
\* whatever it has received in the same piece and whatever the other sessions
\* have done (monitor_process_command).
StoreChangesAuthorised ==
    [][\A s \in Session :
           Read(s) /\ users' # users => session'[s].authenticated]_vars

\* A session that was told that it is over runs no command any more.
NothingAfterFarewell ==
    [][\A s \in open : session[s].close_after_write =>
           users' = users /\ (session'[s].authenticated => session[s].authenticated)]_vars
=============================================================================
