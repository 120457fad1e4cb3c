------------------------------- MODULE Buffer -------------------------------
(* The byte buffers of src/src/shared/buffer.c: an array with a read and a    *)
(* write position, here offsets from data. The functions that return a        *)
(* pointer and a count are the operators for the count.                       *)
(*                                                                            *)
(* A definition whose name has the form name_Fault is name with a plausible   *)
(* programming error, against which the properties are tried; nothing in the  *)
(* specifications uses it.                                                    *)
EXTENDS Integers, Sequences

CONSTANTS
    Capacity,  \* limit - data: BUFFER_SIZE in socks5nio.c
    Byte

ASSUME BufferAssumption == Capacity \in Nat \ {0}

Offsets == 0 .. Capacity - 1

\* R <= W <= limit (buffer.h): what the assertions of buffer.c ask for.
Buffers ==
    {b \in [data : [Offsets -> Byte], read : 0 .. Capacity, write : 0 .. Capacity] :
        b.read <= b.write}

\* The bytes that are there to be read.
Contents(b) == [i \in 1 .. b.write - b.read |-> b.data[b.read + i - 1]]

buffer_reset(b) == [b EXCEPT !.read = 0, !.write = 0]

buffer_can_write(b) == Capacity - b.write > 0
buffer_can_read(b) == b.write - b.read > 0

Room(b) == Capacity - b.write   \* nbyte of buffer_write_ptr
Held(b) == b.write - b.read     \* nbyte of buffer_read_ptr

\* The caller stores the bytes of s from buffer_write_ptr on ...
Stored(b, s) ==
    [b EXCEPT !.data = [i \in Offsets |-> IF i \in b.write .. b.write + Len(s) - 1
                                          THEN s[i - b.write + 1] ELSE b.data[i]]]

\* ... and says how many they are.
buffer_write_adv(b, n) == [b EXCEPT !.write = @ + n]

Filled(b, s) == buffer_write_adv(Stored(b, s), Len(s))

buffer_compact_ByWrite(b) ==
    IF b.read = 0 THEN b
    ELSE [b EXCEPT !.data = [i \in Offsets |-> IF i < Held(b) /\ b.write + i < Capacity
                                               THEN b.data[b.write + i] ELSE b.data[i]],
                   !.read = 0, !.write = Held(b)]

buffer_compact_ForgetsRead(b) ==
    IF b.read = 0 THEN b
    ELSE IF b.read = b.write THEN [b EXCEPT !.write = 0]
    ELSE [b EXCEPT !.data = [i \in Offsets |-> IF i < Held(b) THEN b.data[b.read + i]
                                               ELSE b.data[i]],
                   !.read = 0, !.write = Held(b)]

\* What is there moves to the start of the array.
buffer_compact(b) ==
    IF b.read = 0 THEN b
    ELSE IF b.read = b.write THEN buffer_reset(b)
    ELSE [b EXCEPT !.data = [i \in Offsets |-> IF i < Held(b) THEN b.data[b.read + i]
                                               ELSE b.data[i]],
                   !.read = 0, !.write = Held(b)]

\* n bytes have been used; an empty buffer starts again from its beginning.
buffer_read_adv(b, n) ==
    LET c == [b EXCEPT !.read = @ + n] IN
    IF c.read = c.write THEN buffer_compact(c) ELSE c
=============================================================================
