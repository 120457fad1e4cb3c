---------------------------- MODULE CopyRelayProofs --------------------------
(* The buffers are queues, for every capacity and every byte: what is written *)
(* comes out in order, whatever the positions, and the assertions of buffer.c *)
(* hold for a caller that respects the counts it was given. The relay of      *)
(* CopyRelay neither stalls nor spins, and each of its directions is a        *)
(* Channel, for every capacity and every length of the streams.               *)
EXTENDS CopyRelay, SequenceTheorems, TLAPS

-----------------------------------------------------------------------------
(* The buffers *)

\* What a buffer of the right type is made of.
LEMMA BufferFields ==
    ASSUME NEW b \in Buffers
    PROVE  /\ b = [data |-> b.data, read |-> b.read, write |-> b.write]
           /\ b.data \in [Offsets -> Byte]
           /\ b.read \in Nat /\ b.write \in Nat
           /\ b.read <= b.write /\ b.write <= Capacity /\ Capacity \in Nat
BY BufferAssumption DEF Buffers

\* Contents is a sequence of Held(b) bytes.
LEMMA ContentsType ==
    ASSUME NEW b \in Buffers
    PROVE  /\ Contents(b) \in Seq(Byte) /\ Len(Contents(b)) = Held(b)
           /\ Held(b) \in 0 .. Capacity
           /\ \A i \in 1 .. Held(b) : Contents(b)[i] = b.data[b.read + i - 1]
<1>1. Held(b) \in 0 .. Capacity /\ b.write - b.read = Held(b)
  BY BufferFields DEF Held
<1>2. \A i \in 1 .. Held(b) : b.data[b.read + i - 1] \in Byte
  BY BufferFields, <1>1 DEF Held, Offsets
<1> QED BY <1>1, <1>2 DEF Contents

\* buffer_compact moves what is there and keeps it as it is.
THEOREM CompactKeepsContents ==
    ASSUME NEW b \in Buffers
    PROVE  /\ buffer_compact(b) \in Buffers
           /\ Contents(buffer_compact(b)) = Contents(b)
           /\ buffer_compact(b).read = 0
<1> DEFINE c == buffer_compact(b)
<1>1. CASE b.read = 0
  BY <1>1 DEF buffer_compact
<1>2. CASE b.read # 0 /\ b.read = b.write
  <2>1. c = [data |-> b.data, read |-> 0, write |-> 0]
    <3>1. c = buffer_reset(b)
      BY <1>2 DEF buffer_compact
    <3>2. buffer_reset(b) = [data |-> b.data, read |-> 0, write |-> 0]
      <4>1. buffer_reset(b) = [[b EXCEPT !.read = 0] EXCEPT !.write = 0]
        BY DEF buffer_reset
      <4>2. [b EXCEPT !.read = 0] = [data |-> b.data, read |-> 0, write |-> b.write]
        BY DEF Buffers
      <4> QED BY <4>1, <4>2
    <3> QED BY <3>1, <3>2
  <2>2. c \in Buffers
    BY <2>1, BufferFields DEF Buffers
  <2>3. Held(c) = 0 /\ Held(b) = 0 /\ c.read = 0
    BY <1>2, <2>1, BufferFields DEF Held
  <2>4. Contents(c) = Contents(b)
    <3> HIDE DEF c
    <3> QED BY <2>2, <2>3, ContentsType
  <2> QED BY <2>2, <2>3, <2>4
<1>3. CASE b.read # 0 /\ b.read # b.write
  <2> DEFINE moved == [i \in Offsets |-> IF i < Held(b) THEN b.data[b.read + i] ELSE b.data[i]]
  <2>1. c = [data |-> moved, read |-> 0, write |-> Held(b)]
    <3>1. c = [b EXCEPT !.data = moved, !.read = 0, !.write = Held(b)]
      BY <1>3 DEF buffer_compact
    <3> HIDE DEF moved, c
    <3> QED BY <3>1 DEF Buffers
  <2>2. /\ moved \in [Offsets -> Byte]
        /\ Held(b) \in 0 .. Capacity
        /\ \A i \in 1 .. Held(b) : moved[i - 1] = b.data[b.read + i - 1]
    <3>1. Held(b) \in 0 .. Capacity /\ b.read + Held(b) <= Capacity
      BY BufferFields DEF Held
    <3>2. moved \in [Offsets -> Byte]
      <4>1. \A i \in Offsets : i < Held(b) => b.read + i \in Offsets
        BY <3>1, BufferFields DEF Offsets
      <4> QED BY <4>1, BufferFields
    <3>3. ASSUME NEW i \in 1 .. Held(b) PROVE moved[i - 1] = b.data[b.read + i - 1]
      <4>1. /\ i - 1 \in Offsets /\ i - 1 < Held(b)
            /\ b.read + (i - 1) = b.read + i - 1
        BY <3>1, BufferFields DEF Offsets
      <4> QED BY <4>1
    <3> QED BY <3>1, <3>2, <3>3
  <2>3. c \in Buffers /\ Held(c) = Held(b) /\ c.read = 0 /\ c.data = moved
    <3> HIDE DEF moved
    <3> QED BY <2>1, <2>2, BufferFields DEF Buffers, Held
  <2>4. Contents(c) = Contents(b)
    <3> HIDE DEF c, moved
    <3>1. \A i \in 1 .. Held(b) : Contents(c)[i] = Contents(b)[i]
      BY <2>2, <2>3, ContentsType
    <3> QED BY <2>3, <3>1, ContentsType
  <2> QED BY <2>3, <2>4
<1> QED BY <1>1, <1>2, <1>3

\* Storing no more bytes than buffer_write_ptr allows and calling
\* buffer_write_adv puts them, in order, behind those that are there.
THEOREM FilledAppends ==
    ASSUME NEW b \in Buffers, NEW s \in Seq(Byte), Len(s) <= Room(b)
    PROVE  /\ Filled(b, s) \in Buffers
           /\ Contents(Filled(b, s)) = Contents(b) \o s
<1> DEFINE c == Filled(b, s)
           stored == [i \in Offsets |-> IF i \in b.write .. b.write + Len(s) - 1
                                        THEN s[i - b.write + 1] ELSE b.data[i]]
<1>1. c = [data |-> stored, read |-> b.read, write |-> b.write + Len(s)]
  <2>1. Stored(b, s) = [b EXCEPT !.data = stored]
    BY DEF Stored
  <2> HIDE DEF stored
  <2>2. Stored(b, s) = [data |-> stored, read |-> b.read, write |-> b.write]
    BY <2>1 DEF Buffers
  <2> QED BY <2>2 DEF Filled, buffer_write_adv
<1>2. Len(s) \in Nat /\ b.write + Len(s) <= Capacity
  BY BufferFields DEF Room
<1>3. stored \in [Offsets -> Byte]
  BY <1>2, BufferFields DEF Offsets
<1>4. \A i \in 1 .. Held(b) : stored[b.read + i - 1] = b.data[b.read + i - 1]
  BY <1>2, BufferFields DEF Offsets, Held
<1>5. \A i \in 1 .. Len(s) : stored[b.write + i - 1] = s[i]
  BY <1>2, BufferFields DEF Offsets
<1> HIDE DEF stored
<1>6. /\ c \in Buffers /\ Held(c) = Held(b) + Len(s)
      /\ c.read = b.read /\ c.data = stored /\ b.write = b.read + Held(b)
  BY <1>1, <1>2, <1>3, BufferFields DEF Buffers, Held
<1> HIDE DEF c
<1>7. Contents(c) = Contents(b) \o s
  <2> DEFINE joined == Contents(b) \o s
  <2>1. joined \in Seq(Byte) /\ Len(joined) = Held(b) + Len(s)
    BY ContentsType
  <2>2. ASSUME NEW i \in 1 .. Held(b) + Len(s) PROVE Contents(c)[i] = joined[i]
    <3>1. Contents(c)[i] = stored[b.read + i - 1]
      BY <1>6, ContentsType
    <3>2. CASE i <= Held(b)
      <4>1. joined[i] = Contents(b)[i] /\ i \in 1 .. Held(b)
        BY <3>2, ContentsType
      <4> QED BY <1>4, <3>1, <4>1, ContentsType
    <3>3. CASE i > Held(b)
      <4>1. /\ i - Held(b) \in 1 .. Len(s)
            /\ b.read + i - 1 = b.write + (i - Held(b)) - 1
        <5>1. /\ Held(b) \in Nat /\ b.read \in Nat /\ b.write = b.read + Held(b)
              /\ i \in Int
          BY <1>2, <1>6, BufferFields, ContentsType
        <5> QED BY <1>2, <3>3, <5>1
      <4>2. joined[i] = s[i - Held(b)]
        BY <3>3, <4>1, ContentsType
      <4> QED BY <1>5, <3>1, <4>1, <4>2
    <3> QED BY <3>2, <3>3, ContentsType
  <2> HIDE DEF joined
  <2>3. Contents(c) \in Seq(Byte) /\ Len(Contents(c)) = Held(b) + Len(s)
    BY <1>6, ContentsType
  <2>4. Contents(c) = joined
    BY <2>1, <2>2, <2>3
  <2> QED BY <2>4 DEF joined
<1> QED BY <1>6, <1>7 DEF c

\* buffer_read_adv takes the first n bytes away, and leaves the others.
THEOREM ReadAdvDrops ==
    ASSUME NEW b \in Buffers, NEW n \in 0 .. Held(b)
    PROVE  /\ buffer_read_adv(b, n) \in Buffers
           /\ Contents(buffer_read_adv(b, n)) = SubSeq(Contents(b), n + 1, Held(b))
<1> DEFINE c == [b EXCEPT !.read = @ + n]
<1>1. c = [data |-> b.data, read |-> b.read + n, write |-> b.write]
  BY BufferFields
<1>2. /\ c \in Buffers /\ Held(c) = Held(b) - n
      /\ c.read = b.read + n /\ c.data = b.data
  BY <1>1, BufferFields DEF Buffers, Held
<1>3. /\ buffer_read_adv(b, n) \in Buffers
      /\ Contents(buffer_read_adv(b, n)) = Contents(c)
  <2>1. buffer_read_adv(b, n) = IF c.read = c.write THEN buffer_compact(c) ELSE c
    BY DEF buffer_read_adv
  <2> HIDE DEF c
  <2> QED BY <1>2, <2>1, CompactKeepsContents
<1> HIDE DEF c
<1>4. Contents(c) = SubSeq(Contents(b), n + 1, Held(b))
  <2> DEFINE rest == SubSeq(Contents(b), n + 1, Held(b))
  <2>1. rest \in Seq(Byte) /\ Len(rest) = Held(b) - n
    BY ContentsType
  <2>2. ASSUME NEW i \in 1 .. Held(b) - n PROVE Contents(c)[i] = rest[i]
    <3>1. Contents(c)[i] = b.data[b.read + n + i - 1]
      BY <1>2, ContentsType
    <3>2. rest[i] = Contents(b)[n + i] /\ n + i \in 1 .. Held(b)
      BY ContentsType
    <3>3. Contents(b)[n + i] = b.data[b.read + (n + i) - 1]
      BY <3>2, ContentsType
    <3>4. b.read + n + i - 1 = b.read + (n + i) - 1
      BY BufferFields, ContentsType
    <3> QED BY <3>1, <3>2, <3>3, <3>4
  <2> HIDE DEF rest
  <2>3. Contents(c) \in Seq(Byte) /\ Len(Contents(c)) = Held(b) - n
    BY <1>2, ContentsType
  <2>4. Contents(c) = rest
    BY <2>1, <2>2, <2>3
  <2> QED BY <2>4 DEF rest
<1> QED BY <1>3, <1>4
-----------------------------------------------------------------------------
(* Buffers and interests *)

\* copy_buffer_can_write changes nothing but the place of the bytes, and makes
\* room unless the buffer is really full.
LEMMA CompactedKeeps ==
    ASSUME NEW b \in Buffers
    PROVE  /\ Compacted(b) \in Buffers
           /\ Contents(Compacted(b)) = Contents(b)
           /\ Held(Compacted(b)) = Held(b)
           /\ buffer_can_write(Compacted(b)) <=> Held(b) < Capacity
           /\ buffer_can_read(Compacted(b)) <=> Held(b) > 0
<1> DEFINE c == Compacted(b)
<1>1. /\ c \in Buffers /\ Contents(c) = Contents(b)
      /\ c = b \/ (c.read = 0 /\ ~buffer_can_write(b))
      /\ ~buffer_can_write(c) => c.read = 0
  <2>1. CASE buffer_can_write(b)
    BY <2>1 DEF Compacted
  <2>2. CASE ~buffer_can_write(b)
    <3>1. c = buffer_compact(b)
      BY <2>2 DEF Compacted
    <3> HIDE DEF c
    <3> QED BY <2>2, <3>1, CompactKeepsContents
  <2> QED BY <2>1, <2>2
<1> HIDE DEF c
<1>2. Held(c) = Held(b)
  BY <1>1, ContentsType
<1>3. buffer_can_write(c) <=> Held(c) < Capacity
  BY <1>1, BufferFields DEF buffer_can_write, Held
<1>4. buffer_can_read(c) <=> Held(c) > 0
  BY DEF buffer_can_read, Held
<1> QED BY <1>1, <1>2, <1>3, <1>4 DEF c

\* InterestsFollowBuffers, of any interests and buffers.
Follow(i, bufs) ==
    \A side \in Side :
        /\ "R" \in i[side] <=> Held(bufs[side]) < Capacity
        /\ "W" \in i[side] <=> Held(bufs[Other(side)]) > 0

\* The interests of compacted buffers follow them.
LEMMA InterestsFollow ==
    ASSUME NEW bufs \in [Side -> Buffers]
    PROVE  LET after == [side \in Side |-> Compacted(bufs[side])] IN
           /\ after \in [Side -> Buffers]
           /\ \A side \in Side : Contents(after[side]) = Contents(bufs[side])
           /\ copy_interests(after) \in [Side -> SUBSET {"R", "W"}]
           /\ Follow(copy_interests(after), after)
<1> DEFINE after == [side \in Side |-> Compacted(bufs[side])]
<1>1. /\ after \in [Side -> Buffers]
      /\ \A side \in Side :
           /\ Contents(after[side]) = Contents(bufs[side])
           /\ buffer_can_write(after[side]) <=> Held(after[side]) < Capacity
           /\ buffer_can_read(after[side]) <=> Held(after[side]) > 0
  BY CompactedKeeps
<1> HIDE DEF after
<1>2. \A side \in Side : Other(side) \in Side
  BY DEF Side, Other
<1>3. copy_interests(after) \in [Side -> SUBSET {"R", "W"}]
  BY DEF copy_interests
<1>4. Follow(copy_interests(after), after)
  BY <1>1, <1>2 DEF copy_interests, Follow
<1> QED BY <1>1, <1>3, <1>4 DEF after

LEMMA UpdateFollows ==
    ASSUME NEW bufs \in [Side -> Buffers], copy_update_interests(bufs)
    PROVE  /\ buf' \in [Side -> Buffers]
           /\ \A side \in Side : Contents(buf'[side]) = Contents(bufs[side])
           /\ interest' \in [Side -> SUBSET {"R", "W"}]
           /\ Follow(interest', buf')
BY InterestsFollow DEF copy_update_interests
-----------------------------------------------------------------------------
(* The invariant *)

\* What has been taken from a side is what was sent on and what is still held.
Accounted ==
    ended = "no" => \A side \in Side :
        taken[side] = Len(delivered[side]) + Len(Contents(buf[side]))

RInv == TypeOK /\ InterestsFollowBuffers /\ Accounted

\* One step of the channel from side.
Passes(side, n, m) ==
    LET held == Contents(buf[side])
                \o [i \in 1 .. n |-> Len(delivered[side]) + Len(Contents(buf[side])) + i]
    IN  /\ ended = "no" /\ ended' = "no" /\ m <= Len(held)
        /\ delivered'[side] = delivered[side] \o SubSeq(held, 1, m)
        /\ Contents(buf'[side]) = SubSeq(held, m + 1, Len(held))

ChannelStep(side) ==
    \/ \E n \in 0 .. Capacity - Len(Contents(buf[side])), m \in 0 .. Capacity : Passes(side, n, m)
    \/ ended = "no" /\ ended' # "no" /\ delivered' = delivered
    \/ UNCHANGED <<buf, delivered, ended>>

\* Nothing passes on one side while something may on the other.
LEMMA NothingPasses ==
    ASSUME TypeOK, NEW side \in Side, ended = "no", ended' = "no",
           delivered'[side] = delivered[side],
           Contents(buf'[side]) = Contents(buf[side])
    PROVE  ChannelStep(side)
<1> DEFINE q == Contents(buf[side])
<1>1. q \in Seq(Byte) /\ Len(q) \in 0 .. Capacity /\ delivered[side] \in Seq(Byte)
  BY ContentsType DEF TypeOK
<1>2. [i \in 1 .. 0 |-> Len(delivered[side]) + Len(q) + i] = <<>>
  OBVIOUS
<1> HIDE DEF q
<1>3. q \o <<>> = q /\ SubSeq(q, 1, 0) = <<>> /\ SubSeq(q, 0 + 1, Len(q)) = q
  BY <1>1
<1>4. delivered[side] \o <<>> = delivered[side]
  BY <1>1
<1>5. Passes(side, 0, 0)
  BY <1>1, <1>2, <1>3, <1>4 DEF Passes, q
<1>6. 0 \in 0 .. Capacity - Len(q) /\ 0 \in 0 .. Capacity
  BY <1>1, BufferAssumption
<1> QED BY <1>5, <1>6 DEF ChannelStep, q

\* What a step must preserve and be.
Good ==
    /\ TypeOK' /\ InterestsFollowBuffers' /\ Accounted'
    /\ \A side \in Side : ChannelStep(side)

LEMMA SumsAgree ==
    ASSUME NEW a \in Nat, NEW q \in Nat, NEW n \in Nat, NEW m \in Nat
    PROVE  (a + q) + n = (a + m) + ((q + n) - m)
OBVIOUS

\* n bytes of side are taken, and m sent on, and the interests updated.
LEMMA PassGood ==
    ASSUME RInv, NEW side \in Side, NEW n \in Nat, NEW b \in Buffers, NEW c \in Buffers,
           NEW m \in 0 .. Held(b),
           ended = "no", UNCHANGED <<ended, peers>>,
           n <= Capacity - Len(Contents(buf[side])), taken[side] + n <= MaxBytes,
           Contents(b) = Contents(buf[side]) \o [i \in 1 .. n |-> taken[side] + i],
           Contents(c) = SubSeq(Contents(b), m + 1, Held(b)),
           copy_update_interests([buf EXCEPT ![side] = c]),
           delivered' = [delivered EXCEPT ![side] = @ \o SubSeq(Contents(b), 1, m)],
           taken' = [taken EXCEPT ![side] = @ + n]
    PROVE  Good
<1> DEFINE q == Contents(buf[side])
           bufs == [buf EXCEPT ![side] = c]
           more == [i \in 1 .. n |-> taken[side] + i]
<1>1. TypeOK /\ buf \in [Side -> Buffers] /\ buf[side] \in Buffers
  BY DEF RInv, TypeOK
<1>2. /\ bufs \in [Side -> Buffers] /\ bufs[side] = c
      /\ \A d \in Side : d # side => bufs[d] = buf[d]
  BY <1>1
<1> HIDE DEF bufs
<1>3. /\ buf' \in [Side -> Buffers]
      /\ \A d \in Side : Contents(buf'[d]) = Contents(bufs[d])
      /\ interest' \in [Side -> SUBSET {"R", "W"}]
      /\ Follow(interest', buf')
  <2>1. copy_update_interests(bufs)
    BY DEF bufs
  <2> QED BY <1>2, <2>1, UpdateFollows
<1>4. /\ q \in Seq(Byte) /\ Len(q) \in 0 .. Capacity
      /\ Contents(b) \in Seq(Byte) /\ Len(Contents(b)) = Held(b) /\ Held(b) \in 0 .. Capacity
  BY <1>1, ContentsType
<1>5. Held(b) = Len(q) + n
  <2>1. more \in Seq(Int) /\ Len(more) = n /\ q \in Seq(Int)
    BY <1>1, <1>4, RelayAssumption DEF TypeOK
  <2>2. Len(q \o more) = Len(q) + n
    <3> HIDE DEF q, more
    <3> QED BY <2>1, ConcatProperties
  <2> QED BY <1>4, <2>2
<1>6. /\ taken[side] = Len(delivered[side]) + Len(q)
      /\ delivered[side] \in Seq(Byte) /\ taken[side] \in Nat
      /\ \A d \in Side : taken[d] = Len(delivered[d]) + Len(Contents(buf[d]))
  BY DEF RInv, Accounted, TypeOK
<1> HIDE DEF q
<1>7. SubSeq(Contents(b), 1, m) \in Seq(Byte) /\ Len(SubSeq(Contents(b), 1, m)) = m
  BY <1>4
<1>8. /\ Contents(buf'[side]) = SubSeq(Contents(b), m + 1, Held(b))
      /\ Len(Contents(buf'[side])) = Held(b) - m
  <2>1. Contents(buf'[side]) = SubSeq(Contents(b), m + 1, Held(b))
    BY <1>2, <1>3
  <2>2. Len(SubSeq(Contents(b), m + 1, Held(b))) = Held(b) - m
    BY <1>4
  <2> QED BY <2>1, <2>2
<1>9. /\ delivered'[side] = delivered[side] \o SubSeq(Contents(b), 1, m)
      /\ delivered'[side] \in Seq(Byte) /\ Len(delivered'[side]) = Len(delivered[side]) + m
      /\ taken'[side] = taken[side] + n
      /\ \A d \in Side : d # side => delivered'[d] = delivered[d] /\ taken'[d] = taken[d]
  <2>1. delivered'[side] = delivered[side] \o SubSeq(Contents(b), 1, m)
    BY <1>1 DEF TypeOK
  <2>2. delivered'[side] \in Seq(Byte) /\ Len(delivered'[side]) = Len(delivered[side]) + m
    <3> DEFINE part == SubSeq(Contents(b), 1, m)
               all  == delivered[side] \o part
    <3>1. delivered[side] \in Seq(Byte) /\ part \in Seq(Byte) /\ Len(part) = m
      BY <1>6, <1>7
    <3> HIDE DEF part
    <3>2. all \in Seq(Byte) /\ Len(all) = Len(delivered[side]) + m
      BY <3>1, ConcatProperties
    <3>3. delivered'[side] = all
      BY <2>1 DEF part
    <3> QED BY <3>2, <3>3
  <2>3. /\ taken'[side] = taken[side] + n
        /\ \A d \in Side : d # side => delivered'[d] = delivered[d] /\ taken'[d] = taken[d]
    BY <1>1 DEF TypeOK
  <2> QED BY <2>1, <2>2, <2>3
<1>10. TypeOK'
  <2>1. delivered' \in [Side -> Seq(Byte)]
    <3>1. delivered[side] \o SubSeq(Contents(b), 1, m) \in Seq(Byte)
      BY <1>9
    <3> QED BY <1>1, <3>1 DEF TypeOK
  <2>2. taken' \in [Side -> 0 .. MaxBytes]
    <3>1. taken[side] + n \in 0 .. MaxBytes
      BY <1>1, <1>6, RelayAssumption DEF TypeOK
    <3> QED BY <1>1, <3>1 DEF TypeOK
  <2> QED BY <1>1, <1>3, <2>1, <2>2 DEF TypeOK, peers
<1>11. InterestsFollowBuffers'
  BY <1>3 DEF InterestsFollowBuffers, Follow
<1>12. Accounted'
  <2>1. taken'[side] = Len(delivered'[side]) + Len(Contents(buf'[side]))
    <3>1. /\ Len(delivered[side]) \in Nat /\ Len(q) \in Nat /\ Held(b) = Len(q) + n
          /\ taken[side] = Len(delivered[side]) + Len(q) /\ taken'[side] = taken[side] + n
          /\ Len(delivered'[side]) = Len(delivered[side]) + m
          /\ Len(Contents(buf'[side])) = Held(b) - m
      BY <1>4, <1>5, <1>6, <1>8, <1>9
    <3>2. m \in Nat /\ Held(b) \in Nat
      BY <1>4, BufferAssumption
    <3>3. Len(delivered[side]) \in Nat /\ Len(q) \in Nat /\ n \in Nat /\ m \in Nat
      BY <3>1, <3>2
    <3>4. (Len(delivered[side]) + Len(q)) + n = (Len(delivered[side]) + m) + ((Len(q) + n) - m)
      <4> DEFINE a == Len(delivered[side])
                 z == Len(q)
      <4>1. a \in Nat /\ z \in Nat
        BY <3>3
      <4> HIDE DEF a, z
      <4>2. (a + z) + n = (a + m) + ((z + n) - m)
        BY <3>3, <4>1, SumsAgree
      <4> QED BY <4>2 DEF a, z
    <3> QED BY <3>1, <3>4
  <2>2. ASSUME NEW d \in Side, d # side
        PROVE  taken'[d] = Len(delivered'[d]) + Len(Contents(buf'[d]))
    BY <1>2, <1>3, <1>6, <1>9, <2>2
  <2> QED BY <2>1, <2>2 DEF Accounted
<1>13. ChannelStep(side)
  <2>1. more = [i \in 1 .. n |-> Len(delivered[side]) + Len(q) + i]
    BY <1>6
  <2>2. Passes(side, n, m)
    <3>1. Contents(b) = Contents(buf[side])
               \o [i \in 1 .. n |-> Len(delivered[side]) + Len(Contents(buf[side])) + i]
      BY <2>1 DEF q
    <3>2. m <= Len(Contents(b)) /\ Held(b) = Len(Contents(b)) /\ ended' = "no"
      BY <1>4
    <3> HIDE DEF more
    <3> QED BY <1>8, <1>9, <3>1, <3>2 DEF Passes
  <2>3. n \in 0 .. Capacity - Len(q) /\ m \in 0 .. Capacity
    BY <1>4, BufferAssumption DEF q
  <2> QED BY <2>2, <2>3 DEF ChannelStep, q
<1>14. ASSUME NEW d \in Side, d # side PROVE ChannelStep(d)
  BY <1>1, <1>2, <1>3, <1>9, <1>14, NothingPasses
<1> QED BY <1>10, <1>11, <1>12, <1>13, <1>14 DEF Good

\* The connection is over.
LEMMA EndGood ==
    ASSUME RInv, NEW how \in {"eof", "error"}, ended = "no", End(how),
           UNCHANGED peers, taken' \in [Side -> 0 .. MaxBytes]
    PROVE  Good
<1>1. TypeOK'
  BY DEF RInv, TypeOK, End, peers
<1>2. ended' # "no" /\ delivered' = delivered
  BY DEF End
<1> QED BY <1>1, <1>2 DEF Good, InterestsFollowBuffers, Accounted, ChannelStep

\* copy_try_write, after n bytes of side have been stored in b.
LEMMA TryWriteGood ==
    ASSUME RInv, NEW side \in Side, NEW n \in Nat, NEW b \in Buffers,
           ended = "no", TryWrite(side, b), UNCHANGED peers,
           n <= Capacity - Len(Contents(buf[side])), taken[side] + n <= MaxBytes,
           Contents(b) = Contents(buf[side]) \o [i \in 1 .. n |-> taken[side] + i],
           taken' = [taken EXCEPT ![side] = @ + n]
    PROVE  Good
<1>1. TypeOK /\ Held(b) \in 0 .. Capacity /\ Contents(b) \in Seq(Byte) /\ Len(Contents(b)) = Held(b)
  BY ContentsType DEF RInv
<1>2. taken' \in [Side -> 0 .. MaxBytes]
  <2>1. taken[side] + n \in 0 .. MaxBytes
    BY <1>1, RelayAssumption DEF TypeOK
  <2> QED BY <1>1, <2>1 DEF TypeOK
<1>3. ASSUME NEW m \in 1 .. Held(b),
             copy_update_interests([buf EXCEPT ![side] = buffer_read_adv(b, m)]),
             delivered' = [delivered EXCEPT ![side] = @ \o SubSeq(Contents(b), 1, m)],
             UNCHANGED ended
      PROVE  Good
  <2>1. m \in 0 .. Held(b)
    BY <1>1
  <2>2. /\ buffer_read_adv(b, m) \in Buffers
        /\ Contents(buffer_read_adv(b, m)) = SubSeq(Contents(b), m + 1, Held(b))
    BY <2>1, ReadAdvDrops
  <2> QED BY <1>3, <2>1, <2>2, PassGood
<1>4. CASE copy_update_interests([buf EXCEPT ![side] = b]) /\ UNCHANGED <<delivered, ended>>
  <2>1. /\ 0 \in 0 .. Held(b) /\ SubSeq(Contents(b), 1, 0) = <<>>
        /\ Contents(b) = SubSeq(Contents(b), 0 + 1, Held(b))
    BY <1>1
  <2>2. delivered' = [delivered EXCEPT ![side] = @ \o SubSeq(Contents(b), 1, 0)]
    <3>1. delivered \in [Side -> Seq(Byte)] /\ delivered[side] \o <<>> = delivered[side]
      BY <1>1 DEF TypeOK
    <3> QED BY <1>4, <2>1, <3>1
  <2> QED BY <1>4, <2>1, <2>2, PassGood
<1>5. CASE End("error")
  BY <1>2, <1>5, EndGood
<1> QED BY <1>3, <1>4, <1>5 DEF TryWrite
-----------------------------------------------------------------------------
(* The steps *)

LEMMA ReceiveGood ==
    ASSUME RInv, NEW side \in Side, Receive(side)
    PROVE  Good
<1> DEFINE b == Compacted(buf[side])
<1>1. TypeOK /\ buf \in [Side -> Buffers] /\ buf[side] \in Buffers /\ ended = "no"
  BY DEF RInv, TypeOK, Receive, Event
<1>2. b \in Buffers /\ Contents(b) = Contents(buf[side]) /\ Held(b) = Held(buf[side])
  BY <1>1, CompactedKeeps
<1>3. /\ Contents(b) \in Seq(Byte) /\ Len(Contents(b)) = Held(b) /\ Held(b) \in 0 .. Capacity
      /\ Room(b) \in Nat /\ Room(b) <= Capacity - Held(b)
  BY <1>2, BufferFields, ContentsType DEF Room, Held
<1>4. UNCHANGED peers
  BY DEF Receive
<1> HIDE DEF b
<1>5. ASSUME NEW n \in Receivable(side, b),
             taken' = [taken EXCEPT ![side] = @ + n],
             TryWrite(side, Filled(b, [i \in 1 .. n |-> taken[side] + i]))
      PROVE  Good
  <2> DEFINE s == [i \in 1 .. n |-> taken[side] + i]
  <2>1. /\ n \in Nat /\ n <= Room(b) /\ taken[side] + n <= MaxBytes
        /\ taken[side] \in Nat
    BY <1>1, <1>3, <1>5, RelayAssumption DEF Receivable, TypeOK
  <2>2. s \in Seq(Byte) /\ Len(s) = n
    BY <2>1, RelayAssumption
  <2>3. Filled(b, s) \in Buffers /\ Contents(Filled(b, s)) = Contents(buf[side]) \o s
    <3> HIDE DEF s
    <3> QED BY <1>2, <2>1, <2>2, FilledAppends
  <2>4. n <= Capacity - Len(Contents(buf[side]))
    BY <1>2, <1>3, <2>1, BufferAssumption
  <2> QED BY <1>1, <1>4, <1>5, <2>1, <2>3, <2>4, TryWriteGood
<1>6. CASE /\ copy_update_interests([buf EXCEPT ![side] = b])
           /\ UNCHANGED <<ended, delivered, taken>>
  <2> DEFINE none == [i \in 1 .. 0 |-> taken[side] + i]
  <2>1. none = <<>> /\ Contents(b) \o <<>> = Contents(b)
    BY <1>3
  <2>2. Contents(b) = Contents(buf[side]) \o none
    BY <1>2, <2>1
  <2>3. /\ 0 \in 0 .. Held(b) /\ SubSeq(Contents(b), 1, 0) = <<>>
        /\ Contents(b) = SubSeq(Contents(b), 0 + 1, Held(b))
    BY <1>3
  <2>4. /\ delivered' = [delivered EXCEPT ![side] = @ \o SubSeq(Contents(b), 1, 0)]
        /\ taken' = [taken EXCEPT ![side] = @ + 0]
    <3>1. delivered \in [Side -> Seq(Byte)] /\ delivered[side] \o <<>> = delivered[side]
      BY <1>1 DEF TypeOK
    <3>2. taken \in [Side -> 0 .. MaxBytes] /\ taken[side] + 0 = taken[side]
      BY <1>1, RelayAssumption DEF TypeOK
    <3> QED BY <1>6, <2>3, <3>1, <3>2
  <2>5. 0 <= Capacity - Len(Contents(buf[side]))
    BY <1>1, <1>2, <1>3, <1>6, BufferAssumption DEF TypeOK
  <2>6. taken[side] + 0 <= MaxBytes
    BY <1>1, RelayAssumption DEF TypeOK
  <2> QED BY <1>1, <1>2, <1>4, <1>6, <2>2, <2>3, <2>4, <2>5, <2>6, PassGood
<1> QED BY <1>5, <1>6 DEF Receive, b

LEMMA ReceiveEndGood ==
    ASSUME RInv, NEW side \in Side, ReceiveEnd(side)
    PROVE  Good
<1>1. /\ ended = "no" /\ UNCHANGED peers
      /\ taken' \in [Side -> 0 .. MaxBytes]
  BY DEF RInv, TypeOK, ReceiveEnd, Event
<1>2. \E how \in {"eof", "error"} : End(how)
  BY DEF ReceiveEnd
<1> QED BY <1>1, <1>2, EndGood

LEMMA SendGood ==
    ASSUME RInv, NEW side \in Side, Send(side)
    PROVE  Good
<1> DEFINE from == Other(side)
           b == buf[from]
           none == [i \in 1 .. 0 |-> taken[from] + i]
<1>1. TypeOK /\ from \in Side /\ b \in Buffers /\ ended = "no" /\ TryWrite(from, b)
  BY DEF RInv, TypeOK, Send, Event, Side, Other
<1>2. Contents(b) \in Seq(Byte) /\ Len(Contents(b)) \in 0 .. Capacity
  BY <1>1, ContentsType
<1>3. none = <<>> /\ Contents(b) \o <<>> = Contents(b)
  BY <1>2
<1>4. Contents(b) = Contents(buf[from]) \o none
  BY <1>3
<1>5. /\ taken' = [taken EXCEPT ![from] = @ + 0] /\ taken[from] + 0 <= MaxBytes
      /\ UNCHANGED peers
  <2> HIDE DEF from
  <2> QED BY <1>1, RelayAssumption DEF TypeOK, Send
<1>6. 0 \in Nat /\ 0 <= Capacity - Len(Contents(buf[from]))
  BY <1>2, BufferAssumption
<1> HIDE DEF from
<1> QED BY <1>1, <1>4, <1>5, <1>6, TryWriteGood

\* The peers' steps, and those that change nothing.
LEMMA OthersGood ==
    ASSUME RInv, UNCHANGED relay, TypeOK'
    PROVE  Good
<1>1. InterestsFollowBuffers' /\ Accounted'
  BY DEF RInv, InterestsFollowBuffers, Accounted, relay
<1>2. \A side \in Side : ChannelStep(side)
  BY DEF ChannelStep, relay
<1> QED BY <1>1, <1>2 DEF Good

LEMMA StepGood ==
    ASSUME RInv, [Next]_vars
    PROVE  Good
<1>1. ASSUME NEW side \in Side, Receive(side) \/ ReceiveEnd(side) \/ Send(side) PROVE Good
  BY <1>1, ReceiveGood, ReceiveEndGood, SendGood
<1>2. ASSUME NEW side \in Side, Arrive(side) PROVE Good
  <2>1. arrived' \in [Side -> 0 .. MaxBytes]
    BY <1>2, RelayAssumption DEF Arrive, RInv, TypeOK
  <2> QED BY <1>2, <2>1, OthersGood DEF Arrive, RInv, TypeOK, relay
<1>3. ASSUME NEW side \in Side, ShutDown(side) PROVE Good
  BY <1>3, OthersGood DEF ShutDown, RInv, TypeOK, relay
<1>4. CASE Idle \/ UNCHANGED vars
  BY <1>4, OthersGood DEF Idle, vars, RInv, TypeOK, relay, peers
<1> QED BY <1>1, <1>2, <1>3, <1>4 DEF Next

LEMMA RelayInit ==
    ASSUME Init
    PROVE  RInv /\ \A side \in Side : \E n \in 0 .. Capacity :
                      Contents(buf[side]) = [i \in 1 .. n |-> i]
<1> DEFINE empty == [data |-> [i \in Offsets |-> 0], read |-> 0, write |-> 0]
           parsedTo(p) == [empty EXCEPT !.read = p, !.write = p]
           rest(k, p) == Filled(parsedTo(p), [i \in 1 .. k |-> i])
           bufs(k, p) == [side \in Side |-> IF side = "client" THEN rest(k, p) ELSE empty]
           after(k, p) == [side \in Side |-> Compacted(IF side = "client" THEN rest(k, p) ELSE empty)]
<1>1. PICK k \in 0 .. MaxLeftover, p \in 0 .. Capacity - 1 :
        /\ p + k <= Capacity
        /\ buf = after(k, p) /\ interest = copy_interests(after(k, p))
        /\ arrived = [side \in Side |-> IF side = "client" THEN k ELSE 0]
        /\ taken = arrived
  BY DEF Init
<1>2. k \in 0 .. MaxBytes /\ k \in Nat /\ k <= Capacity /\ 0 \in Byte
  BY <1>1, RelayAssumption, BufferAssumption
<1> DEFINE s == [i \in 1 .. k |-> i]
<1>3. s \in Seq(Byte) /\ Len(s) = k
  BY <1>2, RelayAssumption
<1>4. empty \in Buffers /\ Held(empty) = 0
  BY <1>2, BufferAssumption DEF Buffers, Held
<1>5. parsedTo(p) \in Buffers /\ Held(parsedTo(p)) = 0 /\ Room(parsedTo(p)) = Capacity - p
  <2> DEFINE zeros == [i \in Offsets |-> 0]
  <2>1. parsedTo(p) = [data |-> zeros, read |-> p, write |-> p]
    <3>1. parsedTo(p) = [[empty EXCEPT !.read = p] EXCEPT !.write = p]
      OBVIOUS
    <3>2. empty = [data |-> zeros, read |-> 0, write |-> 0]
      OBVIOUS
    <3> HIDE DEF zeros, empty, parsedTo
    <3>3. [empty EXCEPT !.read = p] = [data |-> zeros, read |-> p, write |-> 0]
      BY <3>2
    <3> QED BY <3>1, <3>3
  <2> QED BY <1>1, <1>2, <2>1, BufferAssumption DEF Buffers, Held, Room
<1> HIDE DEF parsedTo, empty
<1>6. Contents(empty) = <<>> /\ Contents(parsedTo(p)) = <<>>
  BY <1>4, <1>5, ContentsType
<1>7. rest(k, p) \in Buffers /\ Contents(rest(k, p)) = s
  <2>1. Len(s) <= Room(parsedTo(p))
    BY <1>1, <1>3, <1>5, BufferAssumption
  <2>2. <<>> \o s = s
    BY <1>3
  <2> HIDE DEF s
  <2>3. Filled(parsedTo(p), s) \in Buffers /\ Contents(Filled(parsedTo(p), s)) = s
    BY <1>3, <1>5, <1>6, <2>1, <2>2, FilledAppends
  <2> QED BY <2>3 DEF s
<1> HIDE DEF rest, s
<1>8. bufs(k, p) \in [Side -> Buffers]
  BY <1>4, <1>7
<1>9. after(k, p) = [side \in Side |-> Compacted(bufs(k, p)[side])]
  OBVIOUS
<1>10. /\ buf \in [Side -> Buffers] /\ interest \in [Side -> SUBSET {"R", "W"}]
       /\ Follow(interest, buf)
       /\ \A side \in Side : Contents(buf[side]) = Contents(bufs(k, p)[side])
  <2> HIDE DEF bufs, after
  <2> QED BY <1>1, <1>8, <1>9, InterestsFollow
<1>11. \A side \in Side : Contents(buf[side]) = IF side = "client" THEN s ELSE <<>>
  BY <1>6, <1>7, <1>10
<1>12. \A side \in Side : taken[side] = Len(Contents(buf[side]))
  BY <1>1, <1>3, <1>11
<1>13. /\ ended = "no" /\ delivered = [side \in Side |-> <<>>]
       /\ finished = [side \in Side |-> FALSE]
  BY DEF Init
<1>14. TypeOK
  <2>1. arrived \in [Side -> 0 .. MaxBytes] /\ taken \in [Side -> 0 .. MaxBytes]
    BY <1>1, <1>2, RelayAssumption
  <2>2. delivered \in [Side -> Seq(Byte)]
    BY <1>13
  <2> QED BY <1>10, <1>13, <2>1, <2>2 DEF TypeOK
<1>15. Accounted
  BY <1>12, <1>13 DEF Accounted
<1>16. InterestsFollowBuffers
  BY <1>10 DEF InterestsFollowBuffers, Follow
<1>17. ASSUME NEW side \in Side
       PROVE  \E n \in 0 .. Capacity : Contents(buf[side]) = [i \in 1 .. n |-> i]
  <2>1. <<>> = [i \in 1 .. 0 |-> i] /\ 0 \in 0 .. Capacity /\ k \in 0 .. Capacity
    BY <1>2, BufferAssumption
  <2> QED BY <1>11, <2>1 DEF s
<1> QED BY <1>14, <1>15, <1>16, <1>17 DEF RInv
-----------------------------------------------------------------------------
(* The theorems *)

LEMMA RelayInvariant == Spec => []RInv
<1>1. Init => RInv
  BY RelayInit
<1>2. RInv /\ [Next]_vars => RInv'
  BY StepGood DEF Good, RInv
<1> QED BY <1>1, <1>2, PTL DEF Spec

\* The assertions of buffer.c hold in the relay.
THEOREM RelayTypeCorrect == Spec => []TypeOK
<1>1. RInv => TypeOK
  BY DEF RInv
<1> QED BY <1>1, RelayInvariant, PTL

\* In COPY a side is watched for reading just when there is room for what it
\* says, and for writing just when there is something to tell it.
THEOREM RelayNeverStalls == Spec => []InterestsFollowBuffers
<1>1. RInv => InterestsFollowBuffers
  BY DEF RInv
<1> QED BY <1>1, RelayInvariant, PTL

\* Each direction of the relay is a Channel: the bytes of the stream are sent
\* on in order, none lost and none repeated, until the connection is over.
THEOREM RelayImplementsChannels == Spec => ImplementsChannels
<1>1. Init => Up!Init /\ Down!Init
  <2> SUFFICES ASSUME Init PROVE Up!Init /\ Down!Init
    OBVIOUS
  <2>1. delivered["client"] = <<>> /\ delivered["origin"] = <<>> /\ ended = "no"
    BY DEF Init, Side
  <2>2. \A side \in Side : \E n \in 0 .. Capacity : Contents(buf[side]) = [i \in 1 .. n |-> i]
    BY RelayInit
  <2> QED BY <2>1, <2>2 DEF Up!Init, Down!Init, Side
<1>2. RInv /\ [Next]_vars => [Up!Next]_(Up!vars) /\ [Down!Next]_(Down!vars)
  <2> SUFFICES ASSUME RInv, [Next]_vars
               PROVE  [Up!Next]_(Up!vars) /\ [Down!Next]_(Down!vars)
    OBVIOUS
  <2>1. ChannelStep("client") /\ ChannelStep("origin")
    BY StepGood DEF Good, Side
  <2>2. [Up!Next]_(Up!vars)
    BY <2>1 DEF ChannelStep, Passes, Up!Next, Up!Pass, Up!Finish, Up!Following, Up!vars
  <2>3. [Down!Next]_(Down!vars)
    BY <2>1 DEF ChannelStep, Passes, Down!Next, Down!Pass, Down!Finish, Down!Following, Down!vars
  <2> QED BY <2>2, <2>3
<1> QED BY <1>1, <1>2, RelayInvariant, PTL DEF Spec, ImplementsChannels, Up!Spec, Down!Spec
=============================================================================
