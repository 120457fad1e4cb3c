------------------------------ MODULE MCMonitor ------------------------------
(* Values for the constants of Monitor. *)
EXTENDS Monitor

Simple(ops) == {[op |-> o] : o \in ops}
AddUser(fields) == {[op |-> "ADD-USER", user |-> u] : u \in fields}
DelUser(fields) == {[op |-> "DEL-USER", user |-> u] : u \in fields}

AllCommands ==
    Simple({"AUTH", "AUTH-WRONG", "METRICS", "LIST-USERS", "ACCESS-LOG"})
        \cup AddUser(Field) \cup DelUser({"ann"})

Changes == Simple({"AUTH", "AUTH-WRONG"}) \cup AddUser(Field) \cup DelUser(Field)
=============================================================================
