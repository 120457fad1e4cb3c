---------------------------- MODULE SelectorProofs ----------------------------
(* The table of Selector: what pselect is told is what the table says, it     *)
(* never gets a closed descriptor, and no wake-up is lost; for every size of  *)
(* the table, any number of connections and resolver threads.                 *)
EXTENDS Selector, Induction, FiniteSetTheorems, TLAPS

USE SelectorAssumption DEF Numbers

-----------------------------------------------------------------------------
(* Operations on the table *)

\* The table of fds with nothing else to say.
LEMMA ItemsDiffer == NoItem \notin Items
BY DEF NoItem, Items, Roles

\* items_update_fdset_for_fd puts the one number that has changed right: if the
\* sets are those of the table but for fd, they are those of the table.
LEMMA UpdateMirrors ==
    ASSUME NEW s \in Tables, NEW fd \in Numbers,
           \A other \in 0 .. MaxSize : other # fd =>
               /\ other \in s.master_r <=> "r" \in s.fds[other].interest
               /\ other \in s.master_w <=> "w" \in s.fds[other].interest
    PROVE  LET t == items_update_fdset_for_fd(s, fd) IN
           /\ t \in Tables
           /\ t.fds = s.fds /\ t.max_fd = s.max_fd
           /\ t.master_r = {other \in 0 .. MaxSize : "r" \in t.fds[other].interest}
           /\ t.master_w = {other \in 0 .. MaxSize : "w" \in t.fds[other].interest}
<1> DEFINE t == items_update_fdset_for_fd(s, fd)
<1>1. /\ t.fds = s.fds /\ t.max_fd = s.max_fd /\ t.outside = FALSE
      /\ t.master_r = IF "r" \in s.fds[fd].interest THEN s.master_r \cup {fd}
                      ELSE s.master_r \ {fd}
      /\ t.master_w = IF "w" \in s.fds[fd].interest THEN s.master_w \cup {fd}
                      ELSE s.master_w \ {fd}
      /\ t \in Tables
  BY DEF items_update_fdset_for_fd, Tables
<1>2. s.master_r \subseteq Numbers /\ s.master_w \subseteq Numbers /\ fd \in 0 .. MaxSize
  BY DEF Tables
<1>3. t.master_r = {other \in 0 .. MaxSize : "r" \in s.fds[other].interest}
  <2> SUFFICES ASSUME NEW other \in 0 .. MaxSize
               PROVE  other \in t.master_r <=> "r" \in s.fds[other].interest
    BY <1>1, <1>2
  <2> QED BY <1>1, <1>2
<1>4. t.master_w = {other \in 0 .. MaxSize : "w" \in s.fds[other].interest}
  <2> SUFFICES ASSUME NEW other \in 0 .. MaxSize
               PROVE  other \in t.master_w <=> "w" \in s.fds[other].interest
    BY <1>1, <1>2
  <2> QED BY <1>1, <1>2
<1> QED BY <1>1, <1>3, <1>4

\* What Mirrored says, of a table with an array of the full size.
LEMMA MirroredMeans ==
    ASSUME NEW s \in Tables
    PROVE  Mirrored(s) <=>
             /\ s.master_r = {fd \in 0 .. MaxSize : "r" \in s.fds[fd].interest}
             /\ s.master_w = {fd \in 0 .. MaxSize : "w" \in s.fds[fd].interest}
             /\ \A fd \in 0 .. MaxSize : s.fds[fd] # NoItem => fd <= s.max_fd
             /\ s.max_fd = 0 \/ s.fds[s.max_fd] # NoItem
<1>1. DOMAIN s.fds = 0 .. MaxSize /\ s.max_fd \in 0 .. MaxSize
  BY DEF Tables
<1> QED BY <1>1 DEF Mirrored, Used

\* The greatest of some numbers.
LEMMA Greatest ==
    ASSUME NEW set \in SUBSET (0 .. MaxSize), set # {}
    PROVE  \E x \in set : \A y \in set : y <= x
<1> DEFINE mirror == {MaxSize - x : x \in set}
<1>1. mirror \in SUBSET Nat /\ mirror # {}
  <2>1. \A x \in set : MaxSize - x \in Nat
    OBVIOUS
  <2> QED BY <2>1
<1>2. PICK m \in mirror : \A k \in mirror : m <= k
  <2> HIDE DEF mirror
  <2> QED BY <1>1, Least
<1>3. PICK x \in set : m = MaxSize - x
  BY <1>2
<1>4. \A y \in set : y <= x
  <2> SUFFICES ASSUME NEW y \in set PROVE y <= x
    OBVIOUS
  <2>1. m <= MaxSize - y
    BY <1>2
  <2> QED BY <1>3, <2>1
<1> QED BY <1>3, <1>4

\* items_max_fd is the highest number in use, if max_fd is as high.
LEMMA MaxFd ==
    ASSUME NEW s, NEW size \in Numbers, s.max_fd = size,
           s.fds \in [0 .. MaxSize -> Items \cup {NoItem}],
           \A fd \in 0 .. MaxSize : s.fds[fd] # NoItem => fd <= size
    PROVE  /\ items_max_fd(s) \in Numbers
           /\ \A fd \in 0 .. MaxSize : s.fds[fd] # NoItem => fd <= items_max_fd(s)
           /\ items_max_fd(s) = 0 \/ s.fds[items_max_fd(s)] # NoItem
<1> DEFINE used == {fd \in 0 .. s.max_fd : Used(s, fd)}
           greatest == CHOOSE fd \in used : \A other \in used : other <= fd
<1>1. items_max_fd(s) = IF used = {} THEN 0 ELSE greatest
  BY DEF items_max_fd
<1>1a. DOMAIN s.fds = 0 .. MaxSize /\ used \subseteq 0 .. MaxSize
  OBVIOUS
<1>1b. \A fd \in 0 .. size : fd \in used <=> s.fds[fd] # NoItem
  BY <1>1a DEF Used
<1>2. \A fd \in 0 .. MaxSize : s.fds[fd] # NoItem => fd \in used
  BY <1>1b
<1>3. CASE used = {}
  BY <1>1, <1>2, <1>3
<1>4. CASE used # {}
  <2>1. \E x \in used : \A y \in used : y <= x
    <3> HIDE DEF used
    <3> QED BY <1>4, <1>1a, Greatest
  <2>2. greatest \in used /\ \A y \in used : y <= greatest
    <3> HIDE DEF used
    <3> QED BY <2>1
  <2> HIDE DEF greatest
  <2>3. items_max_fd(s) = greatest
    BY <1>1, <1>4
  <2>4. greatest \in 0 .. size
    BY <2>2
  <2> QED BY <1>2, <1>1b, <2>2, <2>3, <2>4
<1> QED BY <1>3, <1>4

\* t is s with `item' for fd, and pselect is told so.
Changed(s, t, fd, item) ==
    /\ t \in Tables /\ Mirrored(t)
    /\ t.fds = [s.fds EXCEPT ![fd] = item]

\* selector_register enters a number that is not in use, never outside.
LEMMA RegisterMirrors ==
    ASSUME NEW s \in Tables, Mirrored(s), NEW fd \in Numbers, s.fds[fd] = NoItem,
           NEW interest \in SUBSET {"r", "w"}, NEW data \in Data \cup {Server},
           NEW role \in Roles
    PROVE  Changed(s, selector_register(s, fd, interest, data, role), fd,
                   [interest |-> interest, data |-> data, role |-> role])
<1> DEFINE item == [interest |-> interest, data |-> data, role |-> role]
           entered == [s EXCEPT !.fds[fd] = item, !.max_fd = IF fd > @ THEN fd ELSE @]
           t == items_update_fdset_for_fd(entered, fd)
<1>1. DOMAIN s.fds = 0 .. MaxSize /\ fd \in 0 .. MaxSize
  BY DEF Tables
<1>2. Cardinality(DOMAIN s.fds) = MaxSize + 1
  BY <1>1, FS_Interval
<1>3. selector_register(s, fd, interest, data, role) = t
  <2> DEFINE grown == IF fd > Cardinality(DOMAIN s.fds) THEN ensure_capacity(s, fd) ELSE s
  <2>1. grown = s
    BY <1>2
  <2>2. fd \in DOMAIN grown.fds
    BY <1>1, <2>1
  <2>3. selector_register(s, fd, interest, data, role) =
          items_update_fdset_for_fd(
            [grown EXCEPT !.fds[fd] = item, !.max_fd = IF fd > @ THEN fd ELSE @], fd)
    BY <2>2, Zenon DEF selector_register
  <2> HIDE DEF grown
  <2> QED BY <2>1, <2>3
<1>4. /\ entered \in Tables
      /\ entered.fds = [s.fds EXCEPT ![fd] = item]
      /\ entered.max_fd = IF fd > s.max_fd THEN fd ELSE s.max_fd
      /\ entered.master_r = s.master_r /\ entered.master_w = s.master_w
  <2>1. item \in Items
    BY DEF Items
  <2> HIDE DEF item
  <2> QED BY <2>1 DEF Tables
<1> HIDE DEF entered
<1>5. /\ s.master_r = {other \in 0 .. MaxSize : "r" \in s.fds[other].interest}
      /\ s.master_w = {other \in 0 .. MaxSize : "w" \in s.fds[other].interest}
      /\ \A other \in 0 .. MaxSize : s.fds[other] # NoItem => other <= s.max_fd
      /\ s.max_fd = 0 \/ s.fds[s.max_fd] # NoItem
  BY MirroredMeans
<1>6. \A other \in 0 .. MaxSize : other # fd => entered.fds[other] = s.fds[other]
  BY <1>1, <1>4
<1>7. \A other \in 0 .. MaxSize : other # fd =>
        /\ other \in entered.master_r <=> "r" \in entered.fds[other].interest
        /\ other \in entered.master_w <=> "w" \in entered.fds[other].interest
  BY <1>4, <1>5, <1>6
<1>8. /\ t \in Tables
      /\ t.fds = entered.fds /\ t.max_fd = entered.max_fd
      /\ t.master_r = {other \in 0 .. MaxSize : "r" \in t.fds[other].interest}
      /\ t.master_w = {other \in 0 .. MaxSize : "w" \in t.fds[other].interest}
  BY <1>4, <1>7, UpdateMirrors
<1> HIDE DEF t
<1>9. item # NoItem /\ t.fds[fd] = item /\ s.max_fd \in Numbers
  BY <1>1, <1>4, <1>8 DEF NoItem, Roles, Tables
<1>10. /\ \A other \in 0 .. MaxSize : t.fds[other] # NoItem => other <= t.max_fd
       /\ t.max_fd = 0 \/ t.fds[t.max_fd] # NoItem
  BY <1>4, <1>5, <1>6, <1>8, <1>9
<1>11. Mirrored(t)
  BY <1>8, <1>10, MirroredMeans
<1> QED BY <1>3, <1>4, <1>8, <1>11 DEF Changed

\* selector_unregister_fd removes a number and finds the highest one left.
LEMMA UnregisterMirrors ==
    ASSUME NEW s \in Tables, Mirrored(s), NEW fd \in Numbers, s.fds[fd] # NoItem
    PROVE  Changed(s, selector_unregister_fd(s, fd), fd, NoItem)
<1> DEFINE silent == [s EXCEPT !.fds[fd].interest = {}]
           updated == items_update_fdset_for_fd(silent, fd)
           cleared == [updated EXCEPT !.fds[fd] = NoItem]
           t == [cleared EXCEPT !.max_fd = items_max_fd(cleared)]
<1>1. DOMAIN s.fds = 0 .. MaxSize /\ fd \in 0 .. MaxSize /\ s.fds[fd] \in Items
  BY DEF Tables
<1>2. selector_unregister_fd(s, fd) = t
  BY DEF selector_unregister_fd
<1>3. /\ silent \in Tables
      /\ silent.fds = [s.fds EXCEPT ![fd] = [s.fds[fd] EXCEPT !.interest = {}]]
      /\ silent.max_fd = s.max_fd
      /\ silent.master_r = s.master_r /\ silent.master_w = s.master_w
  <2>1. [s.fds[fd] EXCEPT !.interest = {}] \in Items
    BY <1>1 DEF Items
  <2> QED BY <2>1 DEF Tables
<1> HIDE DEF silent
<1>4. /\ s.master_r = {other \in 0 .. MaxSize : "r" \in s.fds[other].interest}
      /\ s.master_w = {other \in 0 .. MaxSize : "w" \in s.fds[other].interest}
      /\ \A other \in 0 .. MaxSize : s.fds[other] # NoItem => other <= s.max_fd
  BY MirroredMeans
<1>5. \A other \in 0 .. MaxSize : other # fd => silent.fds[other] = s.fds[other]
  BY <1>1, <1>3
<1>6. \A other \in 0 .. MaxSize : other # fd =>
        /\ other \in silent.master_r <=> "r" \in silent.fds[other].interest
        /\ other \in silent.master_w <=> "w" \in silent.fds[other].interest
  BY <1>3, <1>4, <1>5
<1>7. /\ updated \in Tables
      /\ updated.fds = silent.fds /\ updated.max_fd = silent.max_fd
      /\ updated.master_r = {other \in 0 .. MaxSize : "r" \in updated.fds[other].interest}
      /\ updated.master_w = {other \in 0 .. MaxSize : "w" \in updated.fds[other].interest}
  BY <1>3, <1>6, UpdateMirrors
<1> HIDE DEF updated
<1>8. /\ cleared.fds = [s.fds EXCEPT ![fd] = NoItem]
      /\ cleared.max_fd = s.max_fd /\ cleared.outside = FALSE
      /\ cleared.master_r = updated.master_r /\ cleared.master_w = updated.master_w
      /\ cleared.fds \in [0 .. MaxSize -> Items \cup {NoItem}]
  <2>1. updated.fds = [s.fds EXCEPT ![fd] = [s.fds[fd] EXCEPT !.interest = {}]]
    BY <1>3, <1>7
  <2>2. cleared.fds = [updated.fds EXCEPT ![fd] = NoItem]
    BY <1>7 DEF Tables
  <2>3. s.fds \in [0 .. MaxSize -> Items \cup {NoItem}]
    BY DEF Tables
  <2>4. cleared.fds = [s.fds EXCEPT ![fd] = NoItem]
    BY <1>1, <2>1, <2>2, <2>3
  <2>5. cleared.fds \in [0 .. MaxSize -> Items \cup {NoItem}]
    BY <1>1, <2>3, <2>4
  <2> QED BY <1>3, <1>7, <2>4, <2>5 DEF Tables
<1>9. \A other \in 0 .. MaxSize : other # fd => cleared.fds[other] = updated.fds[other]
  BY <1>1, <1>5, <1>7, <1>8
<1>10. updated.fds[fd].interest = {} /\ cleared.fds[fd].interest = {}
  BY <1>1, <1>3, <1>7, <1>8 DEF Items, NoItem
<1>11. /\ updated.master_r = {other \in 0 .. MaxSize : "r" \in cleared.fds[other].interest}
       /\ updated.master_w = {other \in 0 .. MaxSize : "w" \in cleared.fds[other].interest}
  BY <1>1, <1>7, <1>9, <1>10
<1>12. /\ items_max_fd(cleared) \in Numbers
       /\ \A other \in 0 .. MaxSize : cleared.fds[other] # NoItem => other <= items_max_fd(cleared)
       /\ items_max_fd(cleared) = 0 \/ cleared.fds[items_max_fd(cleared)] # NoItem
  <2>1. s.max_fd \in Numbers
    BY DEF Tables
  <2>2. \A other \in 0 .. MaxSize : cleared.fds[other] # NoItem => other <= s.max_fd
    BY <1>1, <1>4, <1>8
  <2> HIDE DEF cleared
  <2> QED BY <1>8, <2>1, <2>2, MaxFd
<1>13. /\ t \in Tables /\ t.fds = cleared.fds /\ t.max_fd = items_max_fd(cleared)
       /\ t.master_r = updated.master_r /\ t.master_w = updated.master_w
  BY <1>7, <1>8, <1>12 DEF Tables
<1> HIDE DEF t, cleared
<1>14. Mirrored(t)
  BY <1>11, <1>12, <1>13, MirroredMeans
<1> QED BY <1>2, <1>8, <1>13, <1>14 DEF Changed

\* selector_set_interest changes the interest of a number that is in use.
LEMMA InterestMirrors ==
    ASSUME NEW s \in Tables, Mirrored(s), NEW fd \in Numbers, s.fds[fd] # NoItem,
           NEW interest \in SUBSET {"r", "w"}
    PROVE  Changed(s, selector_set_interest(s, fd, interest), fd,
                   [s.fds[fd] EXCEPT !.interest = interest])
<1> DEFINE item == [s.fds[fd] EXCEPT !.interest = interest]
           set == [s EXCEPT !.fds[fd].interest = interest]
           t == items_update_fdset_for_fd(set, fd)
<1>1. DOMAIN s.fds = 0 .. MaxSize /\ fd \in 0 .. MaxSize /\ s.fds[fd] \in Items
  BY DEF Tables
<1>2. item \in Items
  BY <1>1 DEF Items
<1>3. /\ set \in Tables
      /\ set.fds = [s.fds EXCEPT ![fd] = item]
      /\ set.max_fd = s.max_fd
      /\ set.master_r = s.master_r /\ set.master_w = s.master_w
  BY <1>2 DEF Tables
<1>4. selector_set_interest(s, fd, interest) = t
  BY DEF selector_set_interest
<1> HIDE DEF set, item
<1>5. /\ s.master_r = {other \in 0 .. MaxSize : "r" \in s.fds[other].interest}
      /\ s.master_w = {other \in 0 .. MaxSize : "w" \in s.fds[other].interest}
      /\ \A other \in 0 .. MaxSize : s.fds[other] # NoItem => other <= s.max_fd
      /\ s.max_fd = 0 \/ s.fds[s.max_fd] # NoItem
  BY MirroredMeans
<1>6. \A other \in 0 .. MaxSize : other # fd => set.fds[other] = s.fds[other]
  BY <1>1, <1>3
<1>7. \A other \in 0 .. MaxSize : other # fd =>
        /\ other \in set.master_r <=> "r" \in set.fds[other].interest
        /\ other \in set.master_w <=> "w" \in set.fds[other].interest
  BY <1>3, <1>5, <1>6
<1>8. /\ t \in Tables
      /\ t.fds = set.fds /\ t.max_fd = set.max_fd
      /\ t.master_r = {other \in 0 .. MaxSize : "r" \in t.fds[other].interest}
      /\ t.master_w = {other \in 0 .. MaxSize : "w" \in t.fds[other].interest}
  BY <1>3, <1>7, UpdateMirrors
<1> HIDE DEF t
<1>9. item # NoItem /\ t.fds[fd] = item /\ s.max_fd \in Numbers
  BY <1>1, <1>2, <1>3, <1>8, ItemsDiffer DEF Tables
<1>10. /\ \A other \in 0 .. MaxSize : t.fds[other] # NoItem => other <= t.max_fd
       /\ t.max_fd = 0 \/ t.fds[t.max_fd] # NoItem
  <2>1. \A other \in 0 .. MaxSize : t.fds[other] # NoItem <=> s.fds[other] # NoItem
    BY <1>3, <1>6, <1>8, <1>9
  <2> QED BY <1>3, <1>5, <1>8, <1>9, <2>1
<1>11. Mirrored(t)
  BY <1>8, <1>10, MirroredMeans
<1> QED BY <1>3, <1>4, <1>8, <1>11 DEF Changed, item
-----------------------------------------------------------------------------
(* Who owns which number of the array fds *)

Arrays == [0 .. MaxSize -> Items \cup {NoItem}]

Is(fds, fd, d, role) == fds[fd].data = d /\ fds[fd].role = role
Only(fds, d, role, fd) == \A k \in 0 .. MaxSize : Is(fds, k, d, role) <=> k = fd
None(fds, d, role) == \A k \in 0 .. MaxSize : ~Is(fds, k, d, role)

\* An item that is used belongs to a connection, but for the passive socket's.
Owned(fds) ==
    \A fd \in 0 .. MaxSize : fds[fd] # NoItem =>
        \/ fd = 0 /\ fds[fd].role = "passive"
        \/ fd # 0 /\ fds[fd].role # "passive" /\ fds[fd].data \in Data

Opened(fds, numbers) ==
    /\ 0 \in numbers
    /\ \A fd \in 0 .. MaxSize : fds[fd] # NoItem => fd \in numbers
    /\ \A fd \in numbers : fd = 0 \/ fds[fd] # NoItem

\* The table s of a server whose open descriptors are `numbers'.
Good(s, numbers) ==
    /\ s \in Tables /\ Mirrored(s)
    /\ numbers \subseteq Numbers
    /\ Owned(s.fds) /\ Opened(s.fds, numbers)

\* Only items of d differ between the arrays.
Mine(item, d) == item = NoItem \/ (item.data = d /\ item.role # "passive")
Local(fds, new, d) ==
    \A k \in 0 .. MaxSize :
        new[k] = fds[k] \/ (k # 0 /\ Mine(fds[k], d) /\ Mine(new[k], d))

\* What is said of a role of d is still so.
Kept(fds, new, d, role) ==
    /\ \A c \in Numbers : Only(fds, d, role, c) => Only(new, d, role, c) /\ new[c] = fds[c]
    /\ None(fds, d, role) => None(new, d, role)

LEMMA LocalTwice ==
    ASSUME NEW fds, NEW mid, NEW new, NEW d, Local(fds, mid, d), Local(mid, new, d)
    PROVE  Local(fds, new, d)
BY DEF Local

\* The descriptors that are open when `numbers' and those of the threads are.
Taken(numbers) == numbers \cup UNION {lookup[d] : d \in Data}

\* Nobody has the number of the lowest free descriptor.
LEMMA LowestIsFree ==
    ASSUME NEW numbers \in SUBSET Numbers, lookup \in [Data -> SUBSET Numbers]
    PROVE  /\ Lowest(numbers) \in 0 .. MaxSize
           /\ Lowest(numbers) \notin Taken(numbers)
           /\ \A low \in Numbers : low \notin Taken(numbers) => Lowest(numbers) <= low
<1> DEFINE taken == Taken(numbers)
           free == (0 .. MaxSize) \ taken
           lowest(fd) == fd \notin taken /\ \A low \in 0 .. fd - 1 : low \in taken
<1>1. taken \subseteq Numbers
  BY DEF Taken
<1>2. MaxSize \in free
  BY <1>1
<1>3. PICK x \in free : \A y \in free : x <= y
  <2>1. free \in SUBSET Nat /\ free # {}
    BY <1>2
  <2> HIDE DEF free
  <2> QED BY <2>1, Least
<1>4. x \in 0 .. MaxSize /\ x \notin taken
  BY <1>3
<1>5. ASSUME NEW low \in 0 .. x - 1 PROVE low \in taken
  <2>1. low \in 0 .. MaxSize /\ ~(x <= low)
    BY <1>4
  <2> QED BY <1>3, <2>1
<1>6. \E fd \in 0 .. MaxSize : lowest(fd)
  BY <1>4, <1>5
<1>7. Lowest(numbers) = CHOOSE fd \in 0 .. MaxSize : lowest(fd)
  BY DEF Lowest, Taken
<1>8. Lowest(numbers) \in 0 .. MaxSize /\ lowest(Lowest(numbers))
  <2> HIDE DEF lowest
  <2> QED BY <1>6, <1>7
<1>9. ASSUME NEW low \in Numbers, low \notin taken PROVE Lowest(numbers) <= low
  <2>1. ~(low \in 0 .. Lowest(numbers) - 1)
    BY <1>8, <1>9
  <2> QED BY <1>8, <2>1
<1> QED BY <1>8, <1>9

\* A connection gets a descriptor.
LEMMA Enter ==
    ASSUME NEW s, NEW numbers, Good(s, numbers), lookup \in [Data -> SUBSET Numbers],
           Registrable(Lowest(numbers)),
           NEW d \in Data, NEW role \in {"client", "origin"},
           NEW interest \in SUBSET {"r", "w"}
    PROVE  LET fd == Lowest(numbers)
               t == selector_register(s, fd, interest, d, role)
           IN  /\ fd \in Numbers
               /\ Good(t, numbers \cup {fd})
               /\ Local(s.fds, t.fds, d)
               /\ None(s.fds, d, role) => Only(t.fds, d, role, fd)
               /\ t.fds[fd].interest = interest
               /\ \A other \in {"client", "origin"} \ {role} : Kept(s.fds, t.fds, d, other)
<1> DEFINE fd == Lowest(numbers)
           t == selector_register(s, fd, interest, d, role)
           item == [interest |-> interest, data |-> d, role |-> role]
<1>1. /\ s \in Tables /\ Mirrored(s) /\ numbers \subseteq Numbers
      /\ Owned(s.fds) /\ Opened(s.fds, numbers) /\ s.fds \in Arrays
  BY DEF Good, Tables, Arrays
<1>2. fd \in Numbers /\ fd \notin numbers
  BY <1>1, LowestIsFree DEF Registrable, Taken
<1> HIDE DEF fd
<1>3. fd # 0 /\ fd \in 0 .. MaxSize /\ s.fds[fd] = NoItem
  BY <1>1, <1>2 DEF Opened
<1>4. Changed(s, t, fd, item)
  BY <1>1, <1>2, <1>3, RegisterMirrors DEF Roles
<1>5. /\ item.data = d /\ item.role = role /\ item.interest = interest
      /\ NoItem.data \notin Data /\ NoItem.role = "none"
      /\ item # NoItem
  BY DEF NoItem
<1> HIDE DEF t, item
<1>6. \A k \in 0 .. MaxSize : t.fds[k] = IF k = fd THEN item ELSE s.fds[k]
  BY <1>1, <1>3, <1>4 DEF Changed, Arrays
<1>7. Owned(t.fds)
  BY <1>1, <1>3, <1>5, <1>6 DEF Owned
<1>8. Opened(t.fds, numbers \cup {fd})
  <2>1. numbers \subseteq 0 .. MaxSize
    BY <1>1
  <2>2. ASSUME NEW k \in 0 .. MaxSize, t.fds[k] # NoItem PROVE k \in numbers \cup {fd}
    BY <1>1, <1>6, <2>2 DEF Opened
  <2>3. ASSUME NEW k \in numbers \cup {fd} PROVE k = 0 \/ t.fds[k] # NoItem
    BY <1>1, <1>3, <1>5, <1>6, <2>1 DEF Opened
  <2>4. 0 \in numbers
    BY <1>1 DEF Opened
  <2> QED BY <2>2, <2>3, <2>4 DEF Opened
<1>9. Local(s.fds, t.fds, d)
  <2>1. ASSUME NEW k \in 0 .. MaxSize
        PROVE  t.fds[k] = s.fds[k] \/ (k # 0 /\ Mine(s.fds[k], d) /\ Mine(t.fds[k], d))
    <3>1. CASE k = fd
      BY <1>3, <1>5, <1>6, <3>1 DEF Mine
    <3>2. CASE k # fd
      BY <1>6, <3>2
    <3> QED BY <3>1, <3>2
  <2> QED BY <2>1 DEF Local
<1>10. None(s.fds, d, role) => Only(t.fds, d, role, fd)
  BY <1>3, <1>5, <1>6 DEF None, Only, Is
<1>11. ASSUME NEW other \in {"client", "origin"} \ {role}
       PROVE  Kept(s.fds, t.fds, d, other)
  BY <1>3, <1>5, <1>6 DEF Kept, None, Only, Is
<1> QED BY <1>1, <1>2, <1>3, <1>4, <1>5, <1>6, <1>7, <1>8, <1>9, <1>10, <1>11
        DEF Good, Changed, fd, t

\* A connection loses one.
LEMMA Remove ==
    ASSUME NEW s, NEW numbers, Good(s, numbers),
           NEW d \in Data, NEW role \in {"client", "origin"}, NEW fd \in Numbers,
           Only(s.fds, d, role, fd)
    PROVE  LET t == selector_unregister_fd(s, fd) IN
           /\ Good(t, numbers \ {fd})
           /\ Local(s.fds, t.fds, d)
           /\ None(t.fds, d, role)
           /\ \A other \in {"client", "origin"} \ {role} : Kept(s.fds, t.fds, d, other)
<1> DEFINE t == selector_unregister_fd(s, fd)
<1>1. /\ s \in Tables /\ Mirrored(s) /\ numbers \subseteq Numbers
      /\ Owned(s.fds) /\ Opened(s.fds, numbers) /\ s.fds \in Arrays
  BY DEF Good, Tables, Arrays
<1>2. NoItem.data \notin Data /\ NoItem.role = "none"
  BY DEF NoItem
<1>3. /\ fd \in 0 .. MaxSize /\ s.fds[fd] # NoItem
      /\ s.fds[fd].data = d /\ s.fds[fd].role = role
      /\ fd # 0
  BY <1>1, <1>2 DEF Only, Is, Owned
<1>4. Changed(s, t, fd, NoItem)
  BY <1>1, <1>3, UnregisterMirrors
<1> HIDE DEF t
<1>5. \A k \in 0 .. MaxSize : t.fds[k] = IF k = fd THEN NoItem ELSE s.fds[k]
  BY <1>1, <1>3, <1>4 DEF Changed, Arrays
<1>6. Owned(t.fds)
  BY <1>1, <1>5 DEF Owned
<1>7. Opened(t.fds, numbers \ {fd})
  BY <1>1, <1>3, <1>5 DEF Opened
<1>8. Local(s.fds, t.fds, d)
  <2>1. ASSUME NEW k \in 0 .. MaxSize
        PROVE  t.fds[k] = s.fds[k] \/ (k # 0 /\ Mine(s.fds[k], d) /\ Mine(t.fds[k], d))
    <3>1. CASE k = fd
      BY <1>3, <1>5, <3>1 DEF Mine
    <3>2. CASE k # fd
      BY <1>5, <3>2
    <3> QED BY <3>1, <3>2
  <2> QED BY <2>1 DEF Local
<1>9. None(t.fds, d, role)
  BY <1>2, <1>5 DEF None, Only, Is
<1>10. ASSUME NEW other \in {"client", "origin"} \ {role}
       PROVE  Kept(s.fds, t.fds, d, other)
  BY <1>2, <1>3, <1>5 DEF Kept, None, Only, Is
<1> QED BY <1>1, <1>4, <1>6, <1>7, <1>8, <1>9, <1>10 DEF Good, Changed, t

\* A connection changes its interest.
LEMMA Interest ==
    ASSUME NEW s, NEW numbers, Good(s, numbers),
           NEW d \in Data, NEW role \in {"client", "origin"}, NEW fd \in Numbers,
           Only(s.fds, d, role, fd), NEW interest \in SUBSET {"r", "w"}
    PROVE  LET t == selector_set_interest(s, fd, interest) IN
           /\ Good(t, numbers)
           /\ Local(s.fds, t.fds, d)
           /\ Only(t.fds, d, role, fd)
           /\ t.fds[fd].interest = interest
           /\ \A other \in {"client", "origin"} \ {role} : Kept(s.fds, t.fds, d, other)
<1> DEFINE t == selector_set_interest(s, fd, interest)
           item == [s.fds[fd] EXCEPT !.interest = interest]
<1>1. /\ s \in Tables /\ Mirrored(s) /\ numbers \subseteq Numbers
      /\ Owned(s.fds) /\ Opened(s.fds, numbers) /\ s.fds \in Arrays
  BY DEF Good, Tables, Arrays
<1>2. NoItem.data \notin Data /\ NoItem.role = "none"
  BY DEF NoItem
<1>3. /\ fd \in 0 .. MaxSize /\ s.fds[fd] # NoItem
      /\ s.fds[fd].data = d /\ s.fds[fd].role = role
      /\ fd # 0
  BY <1>1, <1>2 DEF Only, Is, Owned
<1>4. Changed(s, t, fd, item)
  BY <1>1, <1>3, InterestMirrors
<1>5. /\ item.data = d /\ item.role = role /\ item.interest = interest
      /\ item # NoItem
  <2>1. s.fds[fd] \in Items
    BY <1>1, <1>3 DEF Arrays
  <2> QED BY <1>2, <1>3, <2>1 DEF Items
<1> HIDE DEF t, item
<1>6. \A k \in 0 .. MaxSize : t.fds[k] = IF k = fd THEN item ELSE s.fds[k]
  BY <1>1, <1>3, <1>4 DEF Changed, Arrays
<1>7. Owned(t.fds)
  BY <1>1, <1>3, <1>5, <1>6 DEF Owned
<1>8. Opened(t.fds, numbers)
  BY <1>1, <1>3, <1>5, <1>6 DEF Opened
<1>9. Local(s.fds, t.fds, d)
  <2>1. ASSUME NEW k \in 0 .. MaxSize
        PROVE  t.fds[k] = s.fds[k] \/ (k # 0 /\ Mine(s.fds[k], d) /\ Mine(t.fds[k], d))
    <3>1. CASE k = fd
      BY <1>3, <1>5, <1>6, <3>1 DEF Mine
    <3>2. CASE k # fd
      BY <1>6, <3>2
    <3> QED BY <3>1, <3>2
  <2> QED BY <2>1 DEF Local
<1>10. Only(t.fds, d, role, fd)
  BY <1>3, <1>5, <1>6 DEF Only, Is
<1>11. ASSUME NEW other \in {"client", "origin"} \ {role}
       PROVE  Kept(s.fds, t.fds, d, other)
  BY <1>3, <1>5, <1>6 DEF Kept, None, Only, Is
<1> QED BY <1>1, <1>3, <1>4, <1>5, <1>6, <1>7, <1>8, <1>9, <1>10, <1>11 DEF Good, Changed, t
-----------------------------------------------------------------------------
(* The inductive invariant *)

\* A connection has its client's descriptor, in two of its stages its
\* origin's; while it waits for something else it has no interest in the client,
\* while it is connecting none in the origin but the end of that.
Connection(fds, x, d) ==
    /\ IF x = "none" THEN None(fds, d, "client")
       ELSE \E c \in Numbers :
              /\ Only(fds, d, "client", c)
              /\ x \in {"resolving", "connecting"} => fds[c].interest = {}
    /\ IF x \in {"connecting", "relay"}
       THEN \E o \in Numbers :
              /\ Only(fds, d, "origin", o)
              /\ x = "connecting" => fds[o].interest = {"w"}
       ELSE None(fds, d, "origin")

\* A job is of a connection that waits for it and has not been queued twice.
Awaited(fds, st, th, jobs) ==
    /\ \A i \in 1 .. Len(jobs) : \E d \in Data :
         Is(fds, jobs[i], d, "client") /\ st[d] = "resolving" /\ th[d] # "running"
    /\ \A i, j \in 1 .. Len(jobs) : jobs[i] = jobs[j] => i = j

Sound ==
    /\ Good(sel, open)
    /\ \A d \in Data : Connection(sel.fds, stage[d], d)
    /\ \A d \in Data : thread[d] = "running" => stage[d] = "resolving"
    /\ Awaited(sel.fds, stage, thread, resolution_jobs)
    /\ listening => sel.fds[0] # NoItem

IInv == TypeOK /\ Sound

Stages == {"none", "client", "resolving", "connecting", "relay"}

\* A step that is d's.
Step(d) ==
    /\ Good(sel', open')
    /\ Local(sel.fds, sel'.fds, d)
    /\ stage' \in [Data -> Stages]
    /\ \A e \in Data : e # d => stage'[e] = stage[e]
    /\ Connection(sel'.fds, stage'[d], d)
    /\ told' \subseteq Numbers \X {"r", "w"} /\ opened' \in 0 .. 2

LEMMA AccountTyped ==
    ASSUME TypeOK, NEW closed, NEW more \in {0, 1}, Account(closed, more)
    PROVE  told' \subseteq Numbers \X {"r", "w"} /\ opened' \in 0 .. 2
BY DEF TypeOK, Account

\* The numbers that the handlers find.
LEMMA Found ==
    ASSUME NEW s \in Tables, NEW d, NEW role, NEW fd \in Numbers, Only(s.fds, d, role, fd)
    PROVE  Of(s, d, role) = {fd}
<1>1. DOMAIN s.fds = 0 .. MaxSize
  BY DEF Tables
<1> QED BY <1>1 DEF Of, Only, Is

LEMMA ClientFound ==
    ASSUME sel \in Tables, NEW d, NEW c \in Numbers, Only(sel.fds, d, "client", c)
    PROVE  Of(sel, d, "client") = {c} /\ Client(d) = c
BY Found DEF Client

LEMMA OriginFound ==
    ASSUME sel \in Tables, NEW d, NEW o \in Numbers, Only(sel.fds, d, "origin", o)
    PROVE  Of(sel, d, "origin") = {o} /\ Origin(d) = o
BY Found DEF Origin

LEMMA NoneFound ==
    ASSUME NEW s \in Tables, NEW d, NEW role, None(s.fds, d, role)
    PROVE  Of(s, d, role) = {}
<1>1. DOMAIN s.fds = 0 .. MaxSize
  BY DEF Tables
<1> QED BY <1>1 DEF Of, None, Is

\* Nothing changes for the others.
LEMMA OthersKept ==
    ASSUME NEW fds, NEW new, NEW d \in Data, NEW e \in Data, e # d, Local(fds, new, d),
           NEW role \in {"client", "origin"}
    PROVE  /\ \A k \in 0 .. MaxSize : Is(fds, k, e, role) => new[k] = fds[k]
           /\ Kept(fds, new, e, role)
<1>1. NoItem.data \notin Data
  BY DEF NoItem
<1>2. \A k \in 0 .. MaxSize : Is(fds, k, e, role) => new[k] = fds[k]
  BY <1>1 DEF Local, Mine, Is
<1>3. \A k \in 0 .. MaxSize : Is(new, k, e, role) => new[k] = fds[k]
  BY <1>1 DEF Local, Mine, Is
<1>4. \A k \in 0 .. MaxSize : Is(new, k, e, role) <=> Is(fds, k, e, role)
  BY <1>2, <1>3 DEF Is
<1>5. ASSUME NEW c \in Numbers, Only(fds, e, role, c)
      PROVE  Only(new, e, role, c) /\ new[c] = fds[c]
  BY <1>2, <1>4, <1>5 DEF Only
<1>6. None(fds, e, role) => None(new, e, role)
  BY <1>4 DEF None
<1> QED BY <1>2, <1>5, <1>6 DEF Kept

LEMMA OthersConnected ==
    ASSUME IInv, NEW d \in Data, Step(d)
    PROVE  \A e \in Data : Connection(sel'.fds, stage'[e], e)
<1> SUFFICES ASSUME NEW e \in Data, e # d PROVE Connection(sel'.fds, stage'[e], e)
  BY DEF Step
<1>1. Kept(sel.fds, sel'.fds, e, "client") /\ Kept(sel.fds, sel'.fds, e, "origin")
  BY OthersKept DEF Step
<1>2. stage'[e] = stage[e] /\ Connection(sel.fds, stage[e], e)
  BY DEF Step, IInv, Sound
<1> QED BY <1>1, <1>2 DEF Connection, Kept

\* The jobs are awaited after a step of a connection that has none.
LEMMA JobsKept ==
    ASSUME NEW fds, NEW new, NEW st, NEW st2, NEW th, NEW th2, NEW jobs \in Seq(Numbers),
           Awaited(fds, st, th, jobs), NEW d \in Data, Local(fds, new, d),
           \A e \in Data : e # d => st2[e] = st[e] /\ th2[e] = th[e],
           \A i \in 1 .. Len(jobs) : ~Is(fds, jobs[i], d, "client")
    PROVE  Awaited(new, st2, th2, jobs)
<1> SUFFICES ASSUME NEW i \in 1 .. Len(jobs)
             PROVE  \E e \in Data :
                      Is(new, jobs[i], e, "client") /\ st2[e] = "resolving" /\ th2[e] # "running"
  BY DEF Awaited
<1>1. PICK e \in Data :
        Is(fds, jobs[i], e, "client") /\ st[e] = "resolving" /\ th[e] # "running"
  BY DEF Awaited
<1>2. e # d
  BY <1>1
<1>3. jobs[i] \in 0 .. MaxSize
  <2>1. jobs[i] \in Numbers
    OBVIOUS
  <2> QED BY <2>1
<1>4. new[jobs[i]] = fds[jobs[i]]
  BY <1>1, <1>2, <1>3, OthersKept
<1> QED BY <1>1, <1>2, <1>4 DEF Is
-----------------------------------------------------------------------------
(* The handlers *)

\* request_connect_sockaddr, from a table s in which d has no origin (yet, or
\* any more).
LEMMA ConnectStep ==
    ASSUME TypeOK, NEW s, NEW numbers, NEW closed, NEW d \in Data, NEW c \in Numbers,
           Good(s, numbers), Local(sel.fds, s.fds, d),
           Only(s.fds, d, "client", c), None(s.fds, d, "origin"), Client(d) = c,
           Connect(s, numbers, closed, d)
    PROVE  Step(d) /\ stage'[d] # "resolving"
<1> DEFINE fd == Lowest(numbers)
           With(interest) == selector_register(s, fd, interest, d, "origin")
<1>1. lookup \in [Data -> SUBSET Numbers] /\ stage \in [Data -> Stages]
  BY DEF TypeOK, Stages
<1>2. CASE /\ sel' = selector_set_interest(s, c, {"w"}) /\ open' = numbers
           /\ stage' = [stage EXCEPT ![d] = "client"]
           /\ Account(closed, 0)
  <2>1. /\ Good(sel', open') /\ Local(s.fds, sel'.fds, d)
        /\ Only(sel'.fds, d, "client", c) /\ Kept(s.fds, sel'.fds, d, "origin")
    BY <1>2, Interest
  <2>2. stage'[d] = "client" /\ stage' \in [Data -> Stages]
        /\ \A e \in Data : e # d => stage'[e] = stage[e]
    BY <1>1, <1>2 DEF Stages
  <2>3. Connection(sel'.fds, stage'[d], d)
    BY <2>1, <2>2 DEF Connection, Kept
  <2>4. told' \subseteq Numbers \X {"r", "w"} /\ opened' \in 0 .. 2
    BY <1>2, AccountTyped
  <2>5. Local(sel.fds, sel'.fds, d)
    BY <2>1, LocalTwice
  <2> QED BY <2>1, <2>2, <2>3, <2>4, <2>5 DEF Step
<1>3. ASSUME NEW interest \in {{"w"}, {}}, Registrable(fd)
      PROVE  /\ fd \in Numbers
             /\ Good(With(interest), numbers \cup {fd})
             /\ Local(s.fds, With(interest).fds, d)
             /\ Only(With(interest).fds, d, "origin", fd)
             /\ With(interest).fds[fd].interest = interest
             /\ Only(With(interest).fds, d, "client", c)
  <2>1. interest \in SUBSET {"r", "w"}
    BY <1>3
  <2>2. /\ fd \in Numbers
        /\ Good(With(interest), numbers \cup {fd})
        /\ Local(s.fds, With(interest).fds, d)
        /\ None(s.fds, d, "origin") => Only(With(interest).fds, d, "origin", fd)
        /\ With(interest).fds[fd].interest = interest
        /\ \A other \in {"client", "origin"} \ {"origin"} :
             Kept(s.fds, With(interest).fds, d, other)
    BY <1>1, <1>3, <2>1, Enter
  <2> HIDE DEF With, fd
  <2> QED BY <2>2 DEF Kept
<1>4. CASE /\ Registrable(fd)
           /\ sel' = selector_set_interest(With({"w"}), c, {}) /\ open' = numbers \cup {fd}
           /\ stage' = [stage EXCEPT ![d] = "connecting"]
           /\ Account(closed, 1)
  <2> DEFINE mid == With({"w"})
  <2>1. /\ fd \in Numbers /\ Good(mid, numbers \cup {fd}) /\ Local(s.fds, mid.fds, d)
        /\ Only(mid.fds, d, "origin", fd) /\ Only(mid.fds, d, "client", c)
        /\ mid.fds[fd].interest = {"w"}
    BY <1>3, <1>4
  <2> HIDE DEF mid, fd
  <2>2. /\ Good(sel', open') /\ Local(mid.fds, sel'.fds, d)
        /\ Only(sel'.fds, d, "client", c) /\ sel'.fds[c].interest = {}
        /\ Kept(mid.fds, sel'.fds, d, "origin")
    BY <1>4, <2>1, Interest DEF mid, fd
  <2>3. stage'[d] = "connecting" /\ stage' \in [Data -> Stages]
        /\ \A e \in Data : e # d => stage'[e] = stage[e]
    BY <1>1, <1>4 DEF Stages
  <2>4. Connection(sel'.fds, stage'[d], d)
    BY <2>1, <2>2, <2>3 DEF Connection, Kept
  <2>5. told' \subseteq Numbers \X {"r", "w"} /\ opened' \in 0 .. 2
    BY <1>4, AccountTyped
  <2>6. Local(sel.fds, sel'.fds, d)
    BY <2>1, <2>2, LocalTwice
  <2> QED BY <2>2, <2>3, <2>4, <2>5, <2>6 DEF Step
<1>5. CASE /\ Registrable(fd)
           /\ sel' = selector_set_interest(With({}), c, {"w"}) /\ open' = numbers \cup {fd}
           /\ stage' = [stage EXCEPT ![d] = "relay"]
           /\ Account(closed, 1)
  <2> DEFINE mid == With({})
  <2>1. /\ fd \in Numbers /\ Good(mid, numbers \cup {fd}) /\ Local(s.fds, mid.fds, d)
        /\ Only(mid.fds, d, "origin", fd) /\ Only(mid.fds, d, "client", c)
    BY <1>3, <1>5
  <2> HIDE DEF mid, fd
  <2>2. /\ Good(sel', open') /\ Local(mid.fds, sel'.fds, d)
        /\ Only(sel'.fds, d, "client", c)
        /\ Kept(mid.fds, sel'.fds, d, "origin")
    BY <1>5, <2>1, Interest DEF mid, fd
  <2>3. stage'[d] = "relay" /\ stage' \in [Data -> Stages]
        /\ \A e \in Data : e # d => stage'[e] = stage[e]
    BY <1>1, <1>5 DEF Stages
  <2>4. Connection(sel'.fds, stage'[d], d)
    BY <2>1, <2>2, <2>3 DEF Connection, Kept
  <2>5. told' \subseteq Numbers \X {"r", "w"} /\ opened' \in 0 .. 2
    BY <1>5, AccountTyped
  <2>6. Local(sel.fds, sel'.fds, d)
    BY <2>1, <2>2, LocalTwice
  <2> QED BY <2>2, <2>3, <2>4, <2>5, <2>6 DEF Step
<1> QED BY <1>2, <1>4, <1>5 DEF Connect

\* socksv5_passive_accept
LEMMA AcceptStep ==
    ASSUME IInv, NEW d \in Data, Free(d), Registrable(Lowest(open)),
           sel' = selector_register(sel, Lowest(open), {"r"}, d, "client"),
           open' = open \cup {Lowest(open)},
           stage' = [stage EXCEPT ![d] = "client"],
           Account({}, 1)
    PROVE  Step(d)
<1> DEFINE fd == Lowest(open)
<1>1. /\ lookup \in [Data -> SUBSET Numbers] /\ stage \in [Data -> Stages]
      /\ Good(sel, open) /\ TypeOK
  BY DEF IInv, Sound, TypeOK, Stages
<1>2. None(sel.fds, d, "client") /\ None(sel.fds, d, "origin")
  BY DEF IInv, Sound, Connection, Free
<1>3. /\ fd \in Numbers /\ Good(sel', open') /\ Local(sel.fds, sel'.fds, d)
      /\ Only(sel'.fds, d, "client", fd) /\ Kept(sel.fds, sel'.fds, d, "origin")
  BY <1>1, <1>2, Enter
<1>4. stage'[d] = "client" /\ stage' \in [Data -> Stages]
      /\ \A e \in Data : e # d => stage'[e] = stage[e]
  BY <1>1 DEF Stages
<1>5. Connection(sel'.fds, stage'[d], d)
  BY <1>2, <1>3, <1>4 DEF Connection, Kept
<1>6. told' \subseteq Numbers \X {"r", "w"} /\ opened' \in 0 .. 2
  BY <1>1, AccountTyped
<1> QED BY <1>3, <1>4, <1>5, <1>6 DEF Step

\* The handlers that change an interest: those of the negotiation, ...
LEMMA NegotiateStep ==
    ASSUME IInv, NEW d \in Data, NEW interest \in SUBSET {"r", "w"}, NEW x \in {"client", "resolving"},
           stage[d] = "client",
           sel' = selector_set_interest(sel, Client(d), interest),
           x = "resolving" => interest = {},
           open' = open, stage' = [stage EXCEPT ![d] = x], Account({}, 0)
    PROVE  Step(d)
<1>1. stage \in [Data -> Stages] /\ Good(sel, open) /\ TypeOK /\ sel \in Tables
  BY DEF IInv, Sound, TypeOK, Stages
<1>2. PICK c \in Numbers : Only(sel.fds, d, "client", c)
  BY DEF IInv, Sound, Connection
<1>3. Client(d) = c
  BY <1>1, <1>2, ClientFound
<1>4. None(sel.fds, d, "origin")
  BY DEF IInv, Sound, Connection
<1>5. /\ Good(sel', open') /\ Local(sel.fds, sel'.fds, d)
      /\ Only(sel'.fds, d, "client", c) /\ sel'.fds[c].interest = interest
      /\ Kept(sel.fds, sel'.fds, d, "origin")
  BY <1>1, <1>2, <1>3, Interest
<1>6. stage'[d] = x /\ stage' \in [Data -> Stages]
      /\ \A e \in Data : e # d => stage'[e] = stage[e]
  BY <1>1 DEF Stages
<1>7. Connection(sel'.fds, stage'[d], d)
  BY <1>4, <1>5, <1>6 DEF Connection, Kept
<1>8. told' \subseteq Numbers \X {"r", "w"} /\ opened' \in 0 .. 2
  BY <1>1, AccountTyped
<1> QED BY <1>5, <1>6, <1>7, <1>8 DEF Step

\* ... and those of both descriptors, after which the relay goes on.
LEMMA BothStep ==
    ASSUME IInv, NEW d \in Data, NEW one \in SUBSET {"r", "w"}, NEW other \in SUBSET {"r", "w"},
           stage[d] \in {"connecting", "relay"},
           \/ sel' = selector_set_interest(selector_set_interest(sel, Client(d), one), Origin(d), other)
           \/ sel' = selector_set_interest(selector_set_interest(sel, Origin(d), other), Client(d), one),
           open' = open, stage' = [stage EXCEPT ![d] = "relay"], Account({}, 0)
    PROVE  Step(d)
<1>1. stage \in [Data -> Stages] /\ Good(sel, open) /\ TypeOK /\ sel \in Tables
  BY DEF IInv, Sound, TypeOK, Stages
<1>2. PICK c \in Numbers : Only(sel.fds, d, "client", c)
  BY DEF IInv, Sound, Connection
<1>3. PICK o \in Numbers : Only(sel.fds, d, "origin", o)
  BY DEF IInv, Sound, Connection
<1>4. Client(d) = c /\ Origin(d) = o
  BY <1>1, <1>2, <1>3, ClientFound, OriginFound
<1>5. ASSUME sel' = selector_set_interest(selector_set_interest(sel, c, one), o, other)
      PROVE  /\ Good(sel', open') /\ Local(sel.fds, sel'.fds, d)
             /\ Only(sel'.fds, d, "client", c) /\ Only(sel'.fds, d, "origin", o)
  <2> DEFINE mid == selector_set_interest(sel, c, one)
  <2>1. /\ Good(mid, open) /\ Local(sel.fds, mid.fds, d)
        /\ Only(mid.fds, d, "client", c) /\ Only(mid.fds, d, "origin", o)
    BY <1>1, <1>2, <1>3, Interest DEF Kept
  <2>2. sel' = selector_set_interest(mid, o, other)
    BY <1>5
  <2> HIDE DEF mid
  <2>3. /\ Good(sel', open') /\ Local(mid.fds, sel'.fds, d)
        /\ Only(sel'.fds, d, "client", c) /\ Only(sel'.fds, d, "origin", o)
    BY <2>1, <2>2, Interest DEF Kept
  <2> QED BY <2>1, <2>3, LocalTwice
<1>6. ASSUME sel' = selector_set_interest(selector_set_interest(sel, o, other), c, one)
      PROVE  /\ Good(sel', open') /\ Local(sel.fds, sel'.fds, d)
             /\ Only(sel'.fds, d, "client", c) /\ Only(sel'.fds, d, "origin", o)
  <2> DEFINE mid == selector_set_interest(sel, o, other)
  <2>1. /\ Good(mid, open) /\ Local(sel.fds, mid.fds, d)
        /\ Only(mid.fds, d, "client", c) /\ Only(mid.fds, d, "origin", o)
    BY <1>1, <1>2, <1>3, Interest DEF Kept
  <2>2. sel' = selector_set_interest(mid, c, one)
    BY <1>6
  <2> HIDE DEF mid
  <2>3. /\ Good(sel', open') /\ Local(mid.fds, sel'.fds, d)
        /\ Only(sel'.fds, d, "client", c) /\ Only(sel'.fds, d, "origin", o)
    BY <2>1, <2>2, Interest DEF Kept
  <2> QED BY <2>1, <2>3, LocalTwice
<1>7. /\ Good(sel', open') /\ Local(sel.fds, sel'.fds, d)
      /\ Only(sel'.fds, d, "client", c) /\ Only(sel'.fds, d, "origin", o)
  BY <1>4, <1>5, <1>6
<1>8. stage'[d] = "relay" /\ stage' \in [Data -> Stages]
      /\ \A e \in Data : e # d => stage'[e] = stage[e]
  BY <1>1 DEF Stages
<1>9. Connection(sel'.fds, stage'[d], d)
  BY <1>7, <1>8 DEF Connection
<1>10. told' \subseteq Numbers \X {"r", "w"} /\ opened' \in 0 .. 2
  BY <1>1, AccountTyped
<1> QED BY <1>7, <1>8, <1>9, <1>10 DEF Step

\* socksv5_done
LEMMA EndStep ==
    ASSUME IInv, NEW d \in Data, stage[d] # "none", End(d)
    PROVE  Step(d) /\ stage'[d] = "none"
<1>1. stage \in [Data -> Stages] /\ Good(sel, open) /\ TypeOK /\ sel \in Tables
  BY DEF IInv, Sound, TypeOK, Stages
<1>2. PICK c \in Numbers : Only(sel.fds, d, "client", c)
  BY DEF IInv, Sound, Connection
<1>3. Client(d) = c /\ Of(sel, d, "client") = {c}
  BY <1>1, <1>2, ClientFound
<1> DEFINE first == selector_unregister_fd(sel, c)
<1>4. /\ Good(first, open \ {c}) /\ Local(sel.fds, first.fds, d)
      /\ None(first.fds, d, "client") /\ Kept(sel.fds, first.fds, d, "origin")
  BY <1>1, <1>2, Remove
<1>5. /\ Good(sel', open') /\ Local(sel.fds, sel'.fds, d)
      /\ None(sel'.fds, d, "client") /\ None(sel'.fds, d, "origin")
  <2>1. CASE None(sel.fds, d, "origin")
    <3>1. Of(sel, d, "origin") = {}
      BY <1>1, <2>1, NoneFound
    <3>2. sel' = first /\ open' = open \ {c}
      BY <1>3, <3>1 DEF End
    <3> HIDE DEF first
    <3> QED BY <1>4, <2>1, <3>2 DEF Kept
  <2>2. CASE ~None(sel.fds, d, "origin")
    <3>1. PICK o \in Numbers : Only(sel.fds, d, "origin", o)
      BY <2>2 DEF IInv, Sound, Connection
    <3>2. Origin(d) = o /\ Of(sel, d, "origin") = {o}
      BY <1>1, <3>1, OriginFound
    <3>3. sel' = selector_unregister_fd(first, o) /\ open' = (open \ {c}) \ {o}
      BY <1>3, <3>2 DEF End
    <3>4. Only(first.fds, d, "origin", o)
      BY <1>4, <3>1 DEF Kept
    <3> HIDE DEF first
    <3>5. /\ Good(sel', open') /\ Local(first.fds, sel'.fds, d)
          /\ None(sel'.fds, d, "origin") /\ Kept(first.fds, sel'.fds, d, "client")
      BY <1>4, <3>3, <3>4, Remove
    <3> QED BY <1>4, <3>5, LocalTwice DEF Kept
  <2> QED BY <2>1, <2>2
<1>6. stage'[d] = "none" /\ stage' \in [Data -> Stages]
      /\ \A e \in Data : e # d => stage'[e] = stage[e]
  BY <1>1 DEF Stages, End
<1>7. Connection(sel'.fds, stage'[d], d)
  BY <1>5, <1>6 DEF Connection
<1>8. told' \subseteq Numbers \X {"r", "w"} /\ opened' \in 0 .. 2
  BY <1>1, AccountTyped DEF End
<1> QED BY <1>5, <1>6, <1>7, <1>8 DEF Step

\* connecting, when the connect() has failed
LEMMA RetryStep ==
    ASSUME IInv, NEW d \in Data, stage[d] = "connecting",
           Connect(selector_unregister_fd(sel, Origin(d)), open \ {Origin(d)}, {Origin(d)}, d)
    PROVE  Step(d) /\ stage'[d] # "resolving"
<1>1. Good(sel, open) /\ TypeOK /\ sel \in Tables
  BY DEF IInv, Sound, TypeOK
<1>2. PICK c \in Numbers : Only(sel.fds, d, "client", c)
  BY DEF IInv, Sound, Connection
<1>3. PICK o \in Numbers : Only(sel.fds, d, "origin", o)
  BY DEF IInv, Sound, Connection
<1>4. Client(d) = c /\ Origin(d) = o
  BY <1>1, <1>2, <1>3, ClientFound, OriginFound
<1> DEFINE s == selector_unregister_fd(sel, o)
<1>5. /\ Good(s, open \ {o}) /\ Local(sel.fds, s.fds, d)
      /\ None(s.fds, d, "origin") /\ Only(s.fds, d, "client", c)
  BY <1>1, <1>2, <1>3, Remove DEF Kept
<1>6. Connect(s, open \ {o}, {o}, d)
  BY <1>4
<1> HIDE DEF s
<1> QED BY <1>1, <1>4, <1>5, <1>6, ConnectStep

\* What a step owes.
Owed(d) ==
    /\ Step(d)
    /\ thread' \in [Data -> {"none", "running", "queued"}]
    /\ \A e \in Data : e # d => thread'[e] = thread[e]
    /\ thread'[d] = "running" => stage'[d] = "resolving"

\* Any handler of a connection that is not resolving.
LEMMA HandlerStep ==
    ASSUME IInv, NEW d \in Data, stage[d] \notin {"none", "resolving"}, OnRead(d) \/ OnOther(d)
    PROVE  Owed(d)
<1>1. /\ stage \in [Data -> Stages] /\ Good(sel, open) /\ TypeOK
      /\ thread \in [Data -> {"none", "running", "queued"}]
      /\ sel \in Tables
      /\ thread[d] # "running"
  BY DEF IInv, Sound, TypeOK, Stages
<1>2. ASSUME Step(d), UNCHANGED thread PROVE Owed(d)
  BY <1>1, <1>2 DEF Owed
<1>3. CASE Resolve(d)
  <2>1. Step(d)
    <3>1. stage[d] = "client" /\ sel' = selector_set_interest(sel, Client(d), {}) /\ open' = open
          /\ stage' = [stage EXCEPT ![d] = "resolving"] /\ Account({}, 0)
      BY <1>3 DEF Resolve
    <3> QED BY <3>1, NegotiateStep
  <2>2. stage'[d] = "resolving" /\ thread' = [thread EXCEPT ![d] = "running"]
    BY <1>1, <1>3 DEF Resolve
  <2> QED BY <1>1, <2>1, <2>2 DEF Owed
<1>4. CASE (\E interest \in {{"r"}, {"w"}} : Negotiate(d, interest)) /\ UNCHANGED thread
  <2>1. PICK interest \in {{"r"}, {"w"}} : Negotiate(d, interest)
    BY <1>4
  <2>2. stage[d] = "client" /\ sel' = selector_set_interest(sel, Client(d), interest)
        /\ open' = open /\ stage' = stage /\ Account({}, 0)
    BY <2>1 DEF Negotiate
  <2>3. stage' = [stage EXCEPT ![d] = "client"]
    BY <1>1, <2>2
  <2>4. Step(d)
    BY <2>2, <2>3, NegotiateStep
  <2> QED BY <1>2, <1>4, <2>4
<1>5. CASE stage[d] = "client" /\ Connect(sel, open, {}, d) /\ UNCHANGED thread
  <2>1. PICK c \in Numbers : Only(sel.fds, d, "client", c)
    BY <1>5 DEF IInv, Sound, Connection
  <2>2. Client(d) = c
    BY <1>1, <2>1, ClientFound
  <2>3. None(sel.fds, d, "origin")
    BY <1>5 DEF IInv, Sound, Connection
  <2>4. Local(sel.fds, sel.fds, d)
    BY DEF Local
  <2>5. Step(d)
    BY <1>1, <1>5, <2>1, <2>2, <2>3, <2>4, ConnectStep
  <2> QED BY <1>2, <1>5, <2>5
<1>6. CASE Relay(d) /\ UNCHANGED thread
  <2>1. PICK interests \in CopyInterests :
          sel' = selector_set_interest(
                   selector_set_interest(sel, Client(d), interests[1]), Origin(d), interests[2])
    BY <1>6 DEF Relay
  <2>2. interests[1] \in SUBSET {"r", "w"} /\ interests[2] \in SUBSET {"r", "w"}
    OBVIOUS
  <2>3. stage[d] = "relay" /\ open' = open /\ stage' = stage /\ Account({}, 0)
    BY <1>6 DEF Relay
  <2>4. stage' = [stage EXCEPT ![d] = "relay"]
    BY <1>1, <2>3
  <2>5. Step(d)
    BY <2>1, <2>2, <2>3, <2>4, BothStep
  <2> QED BY <1>2, <1>6, <2>5
<1>7. CASE End(d) /\ UNCHANGED thread
  BY <1>2, <1>7, EndStep
<1>8. CASE /\ stage[d] = "connecting"
           /\ sel' = selector_set_interest(
                       selector_set_interest(sel, Origin(d), {}), Client(d), {"w"})
           /\ stage' = [stage EXCEPT ![d] = "relay"]
           /\ open' = open
           /\ Account({}, 0)
           /\ UNCHANGED thread
  <2> DEFINE one == {"w"}
             other == {}
  <2>1. /\ one \in SUBSET {"r", "w"} /\ other \in SUBSET {"r", "w"}
        /\ sel' = selector_set_interest(
                    selector_set_interest(sel, Origin(d), other), Client(d), one)
        /\ stage[d] \in {"connecting", "relay"}
    BY <1>8
  <2> HIDE DEF one, other
  <2>2. Step(d)
    BY <1>8, <2>1, BothStep
  <2> QED BY <1>2, <1>8, <2>2
<1>9. CASE /\ stage[d] = "connecting"
           /\ Connect(selector_unregister_fd(sel, Origin(d)), open \ {Origin(d)}, {Origin(d)}, d)
           /\ UNCHANGED thread
  BY <1>2, <1>9, RetryStep
<1> QED BY <1>3, <1>4, <1>5, <1>6, <1>7, <1>8, <1>9 DEF OnRead, OnOther
-----------------------------------------------------------------------------
(* Every step *)

LEMMA OwedSound ==
    ASSUME IInv, NEW d \in Data, Owed(d), resolution_jobs' \in Seq(Numbers),
           Awaited(sel.fds, stage, thread, resolution_jobs'),
           \A i \in 1 .. Len(resolution_jobs') : ~Is(sel.fds, resolution_jobs'[i], d, "client"),
           UNCHANGED listening
    PROVE  Sound'
<1>1. Step(d)
  BY DEF Owed
<1>2. Good(sel', open') /\ \A e \in Data : Connection(sel'.fds, stage'[e], e)
  BY <1>1, OthersConnected DEF Step
<1>3. \A e \in Data : thread'[e] = "running" => stage'[e] = "resolving"
  BY <1>1 DEF Owed, Step, IInv, Sound
<1>4. Awaited(sel'.fds, stage', thread', resolution_jobs')
  <2>1. \A e \in Data : e # d => stage'[e] = stage[e] /\ thread'[e] = thread[e]
    BY <1>1 DEF Owed, Step
  <2>2. Local(sel.fds, sel'.fds, d)
    BY <1>1 DEF Step
  <2> QED BY <2>1, <2>2, JobsKept
<1>5. listening' => sel'.fds[0] # NoItem
  BY <1>1 DEF Step, Local, IInv, Sound
<1> QED BY <1>2, <1>3, <1>4, <1>5 DEF Sound

\* A connection that is not resolving has no job.
LEMMA NoJob ==
    ASSUME IInv, NEW d \in Data, stage[d] # "resolving"
    PROVE  \A i \in 1 .. Len(resolution_jobs) : ~Is(sel.fds, resolution_jobs[i], d, "client")
<1> SUFFICES ASSUME NEW i \in 1 .. Len(resolution_jobs), Is(sel.fds, resolution_jobs[i], d, "client")
             PROVE  FALSE
  OBVIOUS
<1>1. PICK e \in Data : Is(sel.fds, resolution_jobs[i], e, "client") /\ stage[e] = "resolving"
  BY DEF IInv, Sound, Awaited
<1> QED BY <1>1 DEF Is

LEMMA NextEvent ==
    ASSUME IInv, Visit
    PROVE  IInv'
<1>1. PICK event \in Deliverable :
        LET item == sel.fds[event[1]] IN
        /\ Delivered(event)
        /\ at' = Place(event) + 1
        /\ \/ item.role = "passive" /\ Accept
           \/ item.role = "client" /\ event[2] = "r" /\ OnRead(item.data)
           \/ item.role = "client" /\ event[2] = "w" /\ OnOther(item.data)
           \/ item.role = "origin" /\ OnOther(item.data)
  BY DEF Visit
<1> DEFINE fd == event[1]
           item == sel.fds[fd]
           d == item.data
<1>2. UNCHANGED <<slave_r, slave_w, resolution_jobs, lookup, alarm, pc, n, requested, listening>>
  BY DEF Visit
<1>3. /\ fd \in Numbers /\ fd \in 0 .. MaxSize /\ event[2] \in {"r", "w"}
      /\ item # NoItem /\ event[2] \in item.interest
  <2>1. /\ event \in (slave_r \X {"r"}) \cup (slave_w \X {"w"})
        /\ Used(sel, fd) /\ event[2] \in item.interest
    BY DEF Deliverable
  <2>2. slave_r \subseteq Numbers /\ slave_w \subseteq Numbers
    BY DEF IInv, TypeOK
  <2>3. event[1] \in slave_r \cup slave_w /\ event[2] \in {"r", "w"}
    BY <2>1
  <2>4. fd \in Numbers
    BY <2>2, <2>3
  <2>5. fd \in 0 .. MaxSize
    BY <2>4
  <2>6. item # NoItem
    BY <2>1 DEF Used
  <2> QED BY <2>1, <2>3, <2>4, <2>5, <2>6
<1>4. Place(event) \in Nat
  BY <1>3 DEF Place
<1>5. /\ TypeOK /\ Good(sel, open)
      /\ thread \in [Data -> {"none", "running", "queued"}]
      /\ Awaited(sel.fds, stage, thread, resolution_jobs)
      /\ resolution_jobs \in Seq(Numbers)
  BY DEF IInv, Sound, TypeOK
<1>6. ASSUME NEW e \in Data, stage[e] # "resolving", Owed(e) PROVE IInv'
  <2>1. Sound'
    BY <1>2, <1>5, <1>6, NoJob, OwedSound
  <2>2. TypeOK'
    BY <1>1, <1>2, <1>4, <1>5, <1>6 DEF Owed, Step, Good, TypeOK, Stages
  <2> QED BY <2>1, <2>2 DEF IInv
<1>7. CASE item.role = "passive" /\ Accept
  <2>1. CASE UNCHANGED <<table, thread>>
    <3>1. TypeOK'
      BY <1>1, <1>2, <1>4, <1>5, <2>1 DEF TypeOK, table
    <3>2. Sound'
      BY <1>2, <2>1 DEF IInv, Sound, table
    <3> QED BY <3>1, <3>2 DEF IInv
  <2>2. ASSUME NEW e \in Data, Free(e), Registrable(Lowest(open)),
               sel' = selector_register(sel, Lowest(open), {"r"}, e, "client"),
               open' = open \cup {Lowest(open)}, stage' = [stage EXCEPT ![e] = "client"],
               Account({}, 1), UNCHANGED thread
        PROVE  IInv'
    <3>1. Step(e)
      BY <2>2, AcceptStep
    <3>2. stage[e] # "resolving" /\ thread[e] # "running"
      BY <2>2 DEF Free
    <3>3. Owed(e)
      BY <1>5, <2>2, <3>1, <3>2 DEF Owed
    <3> QED BY <1>6, <3>2, <3>3
  <2> QED BY <1>7, <2>1, <2>2 DEF Accept
<1>8. CASE item.role \in {"client", "origin"} /\ (OnRead(d) \/ OnOther(d))
  <2>1. d \in Data
    BY <1>3, <1>5, <1>8 DEF Good, Owned
  <2>2. Is(sel.fds, fd, d, item.role)
    BY DEF Is
  <2>3. Connection(sel.fds, stage[d], d)
    BY <2>1 DEF IInv, Sound
  <2>4. stage[d] \notin {"none", "resolving"}
    <3>1. CASE item.role = "client"
      <4>1. stage[d] # "none"
        BY <1>3, <2>2, <2>3, <3>1 DEF Connection, None
      <4>2. PICK c \in Numbers :
              /\ Only(sel.fds, d, "client", c)
              /\ stage[d] \in {"resolving", "connecting"} => sel.fds[c].interest = {}
        BY <2>3, <4>1 DEF Connection
      <4>3. c = fd
        BY <1>3, <2>2, <3>1, <4>2 DEF Only
      <4> QED BY <1>3, <4>1, <4>2, <4>3
    <3>2. CASE item.role = "origin"
      BY <1>3, <2>2, <2>3, <3>2 DEF Connection, None
    <3> QED BY <1>8, <3>1, <3>2
  <2>5. Owed(d)
    BY <1>8, <2>1, <2>4, HandlerStep
  <2> QED BY <1>6, <2>1, <2>4, <2>5
<1> QED BY <1>1, <1>7, <1>8

LEMMA NextJob ==
    ASSUME IInv, Notification
    PROVE  IInv'
<1> DEFINE jobs == resolution_jobs
           item == sel.fds[Head(jobs)]
           d == item.data
<1>1. /\ jobs \in Seq(Numbers) /\ jobs # <<>> /\ jobs' = Tail(jobs)
      /\ UNCHANGED <<slave_r, slave_w, resolver, alarm, at, n, requested, listening>>
      /\ pc' \in {"top", "notify"}
      /\ TypeOK /\ Good(sel, open) /\ sel \in Tables /\ sel.fds \in Arrays
      /\ Awaited(sel.fds, stage, thread, jobs)
  BY DEF IInv, TypeOK, Sound, Notification, Arrays, Tables
<1>2. /\ Len(jobs) \in Nat /\ 1 \in 1 .. Len(jobs) /\ Head(jobs) = jobs[1]
      /\ Head(jobs) \in Numbers /\ Tail(jobs) \in Seq(Numbers)
      /\ Len(Tail(jobs)) = Len(jobs) - 1
      /\ \A i \in 1 .. Len(jobs) - 1 : Tail(jobs)[i] = jobs[i + 1]
  BY <1>1
<1>3. PICK e \in Data :
        Is(sel.fds, jobs[1], e, "client") /\ stage[e] = "resolving" /\ thread[e] # "running"
  BY <1>1, <1>2 DEF Awaited
<1>4. d = e /\ item # NoItem
  BY <1>2, <1>3 DEF Is, NoItem
<1>5. PICK c \in Numbers : Only(sel.fds, e, "client", c)
  BY <1>3 DEF IInv, Sound, Connection
<1>6. Client(e) = c /\ c = jobs[1] /\ None(sel.fds, e, "origin")
  <2>1. Client(e) = c
    BY <1>1, <1>5, ClientFound
  <2>2. jobs[1] \in 0 .. MaxSize
    BY <1>2
  <2>3. c = jobs[1]
    BY <1>3, <1>5, <2>2 DEF Only
  <2> QED BY <1>3, <2>1, <2>3 DEF IInv, Sound, Connection
<1>7. Connect(sel, open, {}, e)
  BY <1>4 DEF Notification
<1>8. Step(e)
  <2>1. Local(sel.fds, sel.fds, e)
    BY DEF Local
  <2> QED BY <1>1, <1>5, <1>6, <1>7, <2>1, ConnectStep
<1>9. Owed(e)
  BY <1>1, <1>3, <1>8 DEF Owed, resolver, TypeOK
<1>10. Awaited(sel.fds, stage, thread, Tail(jobs))
  <2>1. ASSUME NEW i \in 1 .. Len(Tail(jobs))
        PROVE  \E f \in Data :
                 Is(sel.fds, Tail(jobs)[i], f, "client") /\ stage[f] = "resolving" /\ thread[f] # "running"
    <3>1. i + 1 \in 1 .. Len(jobs) /\ Tail(jobs)[i] = jobs[i + 1]
      BY <1>2
    <3> QED BY <1>1, <3>1 DEF Awaited
  <2>2. ASSUME NEW i \in 1 .. Len(Tail(jobs)), NEW j \in 1 .. Len(Tail(jobs)),
               Tail(jobs)[i] = Tail(jobs)[j]
        PROVE  i = j
    <3>1. i + 1 \in 1 .. Len(jobs) /\ j + 1 \in 1 .. Len(jobs) /\ jobs[i + 1] = jobs[j + 1]
      BY <1>2, <2>2
    <3>2. i + 1 = j + 1
      BY <1>1, <3>1 DEF Awaited
    <3> QED BY <3>2
  <2> QED BY <2>1, <2>2 DEF Awaited
<1>11. ASSUME NEW i \in 1 .. Len(Tail(jobs)), Is(sel.fds, Tail(jobs)[i], e, "client") PROVE FALSE
  <2>1. i + 1 \in 1 .. Len(jobs) /\ Tail(jobs)[i] = jobs[i + 1] /\ Tail(jobs)[i] \in 0 .. MaxSize
    BY <1>2
  <2>2. jobs[i + 1] = jobs[1]
    BY <1>5, <1>6, <1>11, <2>1 DEF Only
  <2>3. i + 1 = 1
    BY <1>1, <1>2, <2>1, <2>2 DEF Awaited
  <2> QED BY <2>3
<1>12. Sound'
  BY <1>1, <1>2, <1>9, <1>10, <1>11, OwedSound
<1>13. TypeOK'
  BY <1>1, <1>2, <1>8 DEF Step, Good, TypeOK, Stages, resolver
<1> QED BY <1>12, <1>13 DEF IInv

\* The initial table: an array of the full size, and the passive socket in it.
LEMMA InitSound ==
    ASSUME Init
    PROVE  IInv
<1> DEFINE empty == [fds |-> <<>>, max_fd |-> 0, master_r |-> {}, master_w |-> {},
                     outside |-> FALSE]
           item == [interest |-> {"r"}, data |-> Server, role |-> "passive"]
<1>1. next_capacity(MaxSize) = MaxSize + 1
  <2> DEFINE tmp == CHOOSE p \in Powers : LeastAbove(MaxSize, p)
  <2>1. tmp \in Powers /\ LeastAbove(MaxSize, tmp)
    OBVIOUS
  <2> HIDE DEF tmp
  <2>2. tmp > MaxSize
    BY <2>1 DEF LeastAbove
  <2>3. next_capacity(MaxSize) = 1 + IF tmp > MaxSize THEN MaxSize ELSE tmp
    BY DEF next_capacity, tmp
  <2> QED BY <2>2, <2>3
<1>2. /\ DOMAIN empty.fds = {} /\ Cardinality(DOMAIN empty.fds) = 0
      /\ empty.max_fd = 0 /\ empty.master_r = {} /\ empty.master_w = {}
      /\ empty.outside = FALSE
  <2>1. DOMAIN empty.fds = {}
    OBVIOUS
  <2> QED BY <2>1, FS_EmptySet
<1>3. selector_new = [empty EXCEPT !.fds = [fd \in 0 .. next_capacity(MaxSize) - 1 |->
                        IF fd \in DOMAIN empty.fds THEN empty.fds[fd] ELSE NoItem]]
  <2> HIDE DEF empty
  <2>1. ~(MaxSize < Cardinality(DOMAIN empty.fds) \/ MaxSize > MaxSize)
    BY <1>2
  <2> QED BY <2>1, Zenon DEF selector_new, Initial, ensure_capacity, empty
<1>4. /\ selector_new.fds = [fd \in 0 .. MaxSize |-> NoItem]
      /\ selector_new.max_fd = 0
      /\ selector_new.master_r = {} /\ selector_new.master_w = {}
      /\ selector_new \in Tables
  <2>1. [fd \in 0 .. next_capacity(MaxSize) - 1 |->
            IF fd \in DOMAIN empty.fds THEN empty.fds[fd] ELSE NoItem]
          = [fd \in 0 .. MaxSize |-> NoItem]
    <3> HIDE DEF empty
    <3>1. next_capacity(MaxSize) - 1 = MaxSize
      BY <1>1
    <3> QED BY <1>2, <3>1
  <2>2. selector_new = [fds |-> [fd \in 0 .. MaxSize |-> NoItem], max_fd |-> 0,
                        master_r |-> {}, master_w |-> {}, outside |-> FALSE]
    BY <1>3, <2>1
  <2> QED BY <2>2 DEF Tables
<1>5. NoItem.interest = {} /\ NoItem.role = "none" /\ NoItem.data \notin Data
  BY DEF NoItem
<1>6. Mirrored(selector_new)
  BY <1>4, <1>5, MirroredMeans
<1>7. Changed(selector_new, sel, 0, item)
  <2>1. selector_new.fds[0] = NoItem /\ 0 \in Numbers /\ "passive" \in Roles
    BY <1>4 DEF Roles
  <2> QED BY <1>4, <1>6, <2>1, RegisterMirrors DEF Init
<1>8. /\ \A k \in 0 .. MaxSize : sel.fds[k] = IF k = 0 THEN item ELSE NoItem
      /\ sel \in Tables /\ Mirrored(sel)
  BY <1>4, <1>7 DEF Changed
<1>9. item.role = "passive" /\ item # NoItem
  BY <1>5
<1> HIDE DEF item
<1>10. Good(sel, open)
  <2>1. Owned(sel.fds)
    BY <1>8, <1>9 DEF Owned
  <2>2. Opened(sel.fds, open)
    BY <1>8 DEF Opened, Init
  <2>3. open \subseteq Numbers
    BY DEF Init
  <2> QED BY <1>8, <2>1, <2>2, <2>3 DEF Good
<1>11. \A d \in Data : Connection(sel.fds, stage[d], d)
  <2>1. \A d \in Data : None(sel.fds, d, "client") /\ None(sel.fds, d, "origin")
    BY <1>5, <1>8, <1>9 DEF None, Is
  <2> QED BY <2>1 DEF Connection, Init
<1>12. Awaited(sel.fds, stage, thread, resolution_jobs)
  BY DEF Awaited, Init
<1>13. Sound
  BY <1>8, <1>9, <1>10, <1>11, <1>12 DEF Sound, Init
<1>14. TypeOK
  <2>1. slave_r = {} /\ slave_w = {} /\ open = {0} /\ resolution_jobs = <<>> /\ told = {}
        /\ stage = [d \in Data |-> "none"] /\ thread = [d \in Data |-> "none"]
        /\ lookup = [d \in Data |-> {}]
        /\ alarm = FALSE /\ requested = FALSE /\ listening = TRUE
        /\ pc = "top" /\ at = 0 /\ n = 0 /\ opened = 0
    BY DEF Init
  <2>2. /\ resolution_jobs \in Seq(Numbers)
        /\ stage \in [Data -> {"none", "client", "resolving", "connecting", "relay"}]
        /\ thread \in [Data -> {"none", "running", "queued"}]
        /\ lookup \in [Data -> SUBSET Numbers]
    BY <2>1
  <2>3. 0 \in Numbers /\ 0 \in 0 .. 2 /\ 0 \in Nat
    OBVIOUS
  <2> QED BY <1>8, <2>1, <2>2, <2>3 DEF TypeOK
<1> QED BY <1>13, <1>14 DEF IInv

\* The main loop.
LEMMA NextTop ==
    ASSUME IInv, Top
    PROVE  IInv'
<1>1. TypeOK /\ Sound /\ Good(sel, open) /\ sel \in Tables /\ sel.fds \in Arrays
  BY DEF IInv, Sound, TypeOK, Tables, Arrays
<1>2. UNCHANGED <<open, stage, resolver, alarm, at, n, requested>>
      /\ listening' = (listening /\ ~requested)
      /\ pc' \in {"done", "select"}
  BY DEF Top
<1>3. /\ resolution_jobs' \in {<<>>, resolution_jobs}
      /\ \/ UNCHANGED <<slave_r, slave_w>>
         \/ slave_r' = sel'.master_r /\ slave_w' = sel'.master_w
  BY DEF Top
<1>4. Awaited(sel.fds, stage, thread, resolution_jobs') /\ resolution_jobs' \in Seq(Numbers)
  <2>1. CASE resolution_jobs' = <<>>
    BY <2>1 DEF Awaited
  <2>2. CASE resolution_jobs' = resolution_jobs
    BY <1>1, <2>2 DEF Sound, TypeOK
  <2> QED BY <1>3, <2>1, <2>2
<1>5. CASE requested /\ listening
  <2>1. sel' = selector_unregister_fd(sel, 0) /\ Account({0}, 0) /\ ~listening'
    BY <1>2, <1>5 DEF Top
  <2>2. sel.fds[0] # NoItem /\ 0 \in Numbers /\ 0 \in 0 .. MaxSize
    BY <1>1, <1>5 DEF Sound
  <2>3. Changed(sel, sel', 0, NoItem)
    BY <1>1, <2>1, <2>2, UnregisterMirrors DEF Good
  <2>4. /\ \A k \in 0 .. MaxSize : sel'.fds[k] = IF k = 0 THEN NoItem ELSE sel.fds[k]
        /\ sel' \in Tables /\ Mirrored(sel')
    BY <1>1, <2>2, <2>3 DEF Changed, Arrays
  <2>5. Good(sel', open')
    <3>1. Owned(sel'.fds)
      BY <1>1, <2>4 DEF Good, Owned
    <3>2. Opened(sel'.fds, open')
      BY <1>1, <1>2, <2>4 DEF Good, Opened
    <3> QED BY <1>1, <1>2, <2>4, <3>1, <3>2 DEF Good
  <2>6. sel.fds[0].role = "passive"
    BY <1>1, <2>2 DEF Good, Owned
  <2>7. \A k \in 0 .. MaxSize, d \in Data, role \in {"client", "origin"} :
          Is(sel'.fds, k, d, role) <=> Is(sel.fds, k, d, role)
    BY <2>4, <2>6 DEF Is, NoItem
  <2>8. \A d \in Data : Connection(sel'.fds, stage'[d], d)
    <3> SUFFICES ASSUME NEW d \in Data PROVE Connection(sel'.fds, stage'[d], d)
      OBVIOUS
    <3>1. \A role \in {"client", "origin"} : None(sel.fds, d, role) => None(sel'.fds, d, role)
      BY <2>7 DEF None
    <3>2. \A role \in {"client", "origin"}, c \in Numbers :
            Only(sel.fds, d, role, c) => Only(sel'.fds, d, role, c) /\ sel'.fds[c] = sel.fds[c]
      BY <2>4, <2>6, <2>7 DEF Only, Is
    <3>3. Connection(sel.fds, stage[d], d) /\ stage' = stage
      BY <1>1, <1>2 DEF Sound
    <3> QED BY <3>1, <3>2, <3>3 DEF Connection
  <2>9. Awaited(sel'.fds, stage', thread', resolution_jobs')
    <3>1. \A i \in 1 .. Len(resolution_jobs') : resolution_jobs'[i] \in 0 .. MaxSize
      BY <1>4
    <3> QED BY <1>2, <1>4, <2>7, <3>1 DEF Awaited, resolver
  <2>10. Sound'
    BY <1>1, <1>2, <2>1, <2>5, <2>8, <2>9 DEF Sound, resolver
  <2>11. told' \subseteq Numbers \X {"r", "w"} /\ opened' \in 0 .. 2
    BY <1>1, <2>1, AccountTyped
  <2>12. slave_r' \subseteq Numbers /\ slave_w' \subseteq Numbers
    BY <1>1, <1>3, <2>4 DEF TypeOK, Tables
  <2>13. TypeOK'
    BY <1>1, <1>2, <1>4, <2>1, <2>4, <2>11, <2>12 DEF TypeOK, resolver
  <2> QED BY <2>10, <2>13 DEF IInv
<1>6. CASE ~(requested /\ listening)
  <2>1. UNCHANGED <<sel, told, opened>>
    BY <1>6 DEF Top
  <2>2. Sound'
    BY <1>1, <1>2, <1>4, <2>1 DEF Sound, resolver
  <2>3. slave_r' \subseteq Numbers /\ slave_w' \subseteq Numbers
    BY <1>1, <1>3, <2>1 DEF TypeOK, Tables
  <2>4. listening' \in BOOLEAN
    BY <1>2
  <2>5. TypeOK'
    BY <1>1, <1>2, <1>4, <2>1, <2>3, <2>4 DEF TypeOK, resolver
  <2> QED BY <2>2, <2>5 DEF IInv
<1> QED BY <1>5, <1>6

\* Nothing of what Sound is about changes.
LEMMA NextElsewhere ==
    ASSUME IInv, UNCHANGED <<sel, open, stage, thread, resolution_jobs, listening>>
    PROVE  Sound'
BY DEF IInv, Sound

\* pselect, and the ends of the two parts of an iteration.
LEMMA NextSelect ==
    ASSUME IInv, Reported \/ Interrupted \/ WalkEnds \/ NoNotification
    PROVE  IInv'
<1>1. UNCHANGED <<sel, open, stage, thread, lookup, resolution_jobs, listening, requested>>
  BY DEF Reported, Interrupted, WalkEnds, NoNotification, table, resolver
<1>2. Sound'
  BY <1>1, NextElsewhere
<1>3. TypeOK /\ sel.max_fd \in Numbers
  BY DEF IInv, TypeOK, Tables
<1>4. CASE Reported
  <2>1. slave_r' \subseteq Numbers /\ slave_w' \subseteq Numbers
    BY <1>3, <1>4 DEF TypeOK, Reported
  <2>2. told' \subseteq Numbers \X {"r", "w"}
    BY <2>1, <1>4 DEF Reported
  <2>3. opened' = 0 /\ pc' = "walk" /\ at' = 0 /\ n' = sel.max_fd /\ alarm' = alarm
    BY <1>4 DEF Reported
  <2>4. TypeOK'
    BY <1>1, <1>3, <2>1, <2>2, <2>3 DEF TypeOK
  <2> QED BY <1>2, <2>4 DEF IInv
<1>5. CASE Interrupted
  <2>1. TypeOK'
    BY <1>1, <1>3, <1>5 DEF TypeOK, Interrupted, table
  <2> QED BY <1>2, <2>1 DEF IInv
<1>6. CASE WalkEnds
  <2>1. TypeOK'
    BY <1>1, <1>3, <1>6 DEF TypeOK, WalkEnds
  <2> QED BY <1>2, <2>1 DEF IInv
<1>7. CASE NoNotification
  <2>1. TypeOK'
    BY <1>1, <1>3, <1>7 DEF TypeOK, NoNotification, table
  <2> QED BY <1>2, <2>1 DEF IInv
<1> QED BY <1>4, <1>5, <1>6, <1>7

\* The other threads and SIGTERM.
LEMMA NextPush ==
    ASSUME IInv, NEW d \in Data, Push(d)
    PROVE  IInv'
<1>1. /\ TypeOK /\ Sound /\ sel \in Tables /\ resolution_jobs \in Seq(Numbers)
      /\ thread \in [Data -> {"none", "running", "queued"}]
      /\ Awaited(sel.fds, stage, thread, resolution_jobs)
  BY DEF IInv, TypeOK, Sound
<1>2. /\ thread[d] = "running"
      /\ UNCHANGED <<table, slave_r, slave_w, lookup, alarm, pc, at, n, requested, listening>>
  BY DEF Push
<1>3. stage[d] = "resolving"
  BY <1>1, <1>2 DEF Sound
<1>4. PICK c \in Numbers : Only(sel.fds, d, "client", c)
  BY <1>1, <1>3 DEF Sound, Connection
<1>5. Client(d) = c /\ Is(sel.fds, c, d, "client")
  BY <1>1, <1>4, ClientFound DEF Only
<1>6. /\ thread' \in [Data -> {"none", "running", "queued"}]
      /\ thread'[d] # "running"
      /\ \A e \in Data : e # d => thread'[e] = thread[e]
  BY <1>1 DEF Push
<1>7. /\ resolution_jobs' \in Seq(Numbers)
      /\ Awaited(sel.fds, stage, thread', resolution_jobs')
  <2>1. CASE UNCHANGED resolution_jobs
    BY <1>1, <1>6, <2>1 DEF Awaited
  <2>2. CASE resolution_jobs' = <<c>> \o resolution_jobs
    <3>1. /\ resolution_jobs' \in Seq(Numbers)
          /\ Len(resolution_jobs') = Len(resolution_jobs) + 1
          /\ Len(resolution_jobs) \in Nat
          /\ resolution_jobs'[1] = c
          /\ \A i \in 2 .. Len(resolution_jobs) + 1 : resolution_jobs'[i] = resolution_jobs[i - 1]
      BY <1>1, <2>2
    <3>2. ASSUME NEW i \in 1 .. Len(resolution_jobs)
          PROVE  resolution_jobs[i] # c
      <4>1. PICK e \in Data : Is(sel.fds, resolution_jobs[i], e, "client") /\ thread[e] # "running"
        BY <1>1 DEF Awaited
      <4> QED BY <1>2, <1>5, <4>1 DEF Is
    <3>3. ASSUME NEW i \in 1 .. Len(resolution_jobs')
          PROVE  \E e \in Data : /\ Is(sel.fds, resolution_jobs'[i], e, "client")
                                 /\ stage[e] = "resolving" /\ thread'[e] # "running"
      <4>1. CASE i = 1
        BY <1>3, <1>5, <1>6, <3>1, <4>1
      <4>2. CASE i # 1
        <5>1. i - 1 \in 1 .. Len(resolution_jobs) /\ resolution_jobs'[i] = resolution_jobs[i - 1]
          BY <3>1, <4>2
        <5> QED BY <1>1, <1>6, <5>1 DEF Awaited
      <4> QED BY <4>1, <4>2
    <3>4. ASSUME NEW i \in 1 .. Len(resolution_jobs'), NEW j \in 1 .. Len(resolution_jobs'),
                 resolution_jobs'[i] = resolution_jobs'[j]
          PROVE  i = j
      <4>1. ASSUME NEW k \in 1 .. Len(resolution_jobs'), k # 1
            PROVE  /\ k - 1 \in 1 .. Len(resolution_jobs)
                   /\ resolution_jobs'[k] = resolution_jobs[k - 1]
                   /\ resolution_jobs'[k] # c
        <5>1. k - 1 \in 1 .. Len(resolution_jobs) /\ resolution_jobs'[k] = resolution_jobs[k - 1]
          BY <3>1, <4>1
        <5> QED BY <3>2, <5>1
      <4>2. CASE i = 1 \/ j = 1
        BY <3>1, <3>4, <4>1, <4>2
      <4>3. CASE i # 1 /\ j # 1
        <5>1. /\ i - 1 \in 1 .. Len(resolution_jobs) /\ j - 1 \in 1 .. Len(resolution_jobs)
              /\ resolution_jobs[i - 1] = resolution_jobs[j - 1]
          BY <3>4, <4>1, <4>3
        <5>2. i - 1 = j - 1
          BY <1>1, <5>1 DEF Awaited
        <5> QED BY <5>2
      <4> QED BY <4>2, <4>3
    <3> QED BY <3>1, <3>3, <3>4 DEF Awaited
  <2> QED BY <1>5, <2>1, <2>2 DEF Push
<1>8. Sound'
  BY <1>1, <1>2, <1>6, <1>7 DEF Sound, table
<1>9. TypeOK'
  BY <1>1, <1>2, <1>6, <1>7 DEF TypeOK, table
<1> QED BY <1>8, <1>9 DEF IInv

LEMMA NextThread ==
    ASSUME IInv, NEW d \in Data, Lookup(d) \/ Kill(d)
    PROVE  IInv'
<1>1. /\ TypeOK /\ Sound
      /\ thread \in [Data -> {"none", "running", "queued"}]
      /\ lookup \in [Data -> SUBSET Numbers]
      /\ open \in SUBSET Numbers
  BY DEF IInv, TypeOK
<1>2. CASE Kill(d)
  <2>1. /\ UNCHANGED <<table, slave_r, slave_w, resolution_jobs, lookup, pc, at, n, requested, listening>>
        /\ alarm' = TRUE /\ thread[d] = "queued" /\ thread' = [thread EXCEPT ![d] = "none"]
    BY <1>2 DEF Kill
  <2>2. /\ thread' \in [Data -> {"none", "running", "queued"}]
        /\ \A e \in Data : thread'[e] = "running" <=> thread[e] = "running"
    BY <1>1, <2>1
  <2>3. Sound'
    BY <1>1, <2>1, <2>2 DEF Sound, Awaited, table
  <2>4. TypeOK'
    BY <1>1, <2>1, <2>2 DEF TypeOK, table
  <2> QED BY <2>3, <2>4 DEF IInv
<1>3. CASE Lookup(d)
  <2>1. UNCHANGED <<sel, open, stage, slave_r, slave_w, resolution_jobs, thread, alarm, pc, at, n,
                    requested, listening>>
    BY <1>3 DEF Lookup
  <2>2. Sound'
    BY <2>1, NextElsewhere
  <2>3. lookup' \in [Data -> SUBSET Numbers]
    <3>1. Lowest(open) < MaxSize => Lowest(open) \in Numbers
      BY <1>1, LowestIsFree
    <3> QED BY <1>1, <1>3, <3>1 DEF Lookup
  <2>4. told' \subseteq Numbers \X {"r", "w"} /\ opened' \in 0 .. 2
    <3>1. CASE Account({}, 1)
      BY <1>1, <3>1, AccountTyped
    <3>2. CASE UNCHANGED <<told, opened>>
      BY <1>1, <3>2 DEF TypeOK
    <3> QED BY <1>3, <3>1, <3>2 DEF Lookup
  <2>5. TypeOK'
    BY <1>1, <2>1, <2>3, <2>4 DEF TypeOK
  <2> QED BY <2>2, <2>5 DEF IInv
<1> QED BY <1>2, <1>3

LEMMA NextSigterm ==
    ASSUME IInv, Sigterm
    PROVE  IInv'
<1>1. UNCHANGED <<table, resolution_jobs, resolver, alarm, at, n, listening>> /\ requested' = TRUE
  BY DEF Sigterm
<1>2. Sound'
  BY <1>1, NextElsewhere DEF table, resolver
<1>3. /\ pc' \in {"top", "select", "walk", "notify", "done"}
      /\ slave_r' \subseteq Numbers /\ slave_w' \subseteq Numbers
  BY DEF Sigterm, IInv, TypeOK
<1>4. TypeOK'
  BY <1>1, <1>3 DEF IInv, TypeOK, table, resolver
<1> QED BY <1>2, <1>4 DEF IInv

LEMMA NextSound ==
    ASSUME IInv, [Next]_vars
    PROVE  IInv'
<1>1. CASE UNCHANGED vars
  <2>1. Sound'
    BY <1>1, NextElsewhere DEF vars, table, resolver
  <2>2. TypeOK'
    BY <1>1 DEF IInv, TypeOK, vars, table, resolver
  <2> QED BY <2>1, <2>2 DEF IInv
<1> QED BY <1>1, NextTop, NextSelect, NextEvent, NextJob, NextPush, NextThread, NextSigterm DEF Next

LEMMA AlwaysSound == Spec => []IInv
BY InitSound, NextSound, PTL DEF Spec

\* Theorem. For every size of the table and any number of connections: the
\* types, and no registration is ever written outside the table
\* (selector_register compares with > where it should with >=).
THEOREM SelectorTypeCorrect == Spec => []TypeOK
<1>1. IInv => TypeOK
  BY DEF IInv
<1> QED BY <1>1, AlwaysSound, PTL

\* Theorem. Whatever handlers register, change and unregister, the two sets and
\* the highest number that pselect gets are those of the table.
THEOREM SelectorMirrors == Spec => []TableMirrored
<1>1. IInv => TableMirrored
  BY DEF IInv, Sound, Good, TableMirrored
<1> QED BY <1>1, AlwaysSound, PTL

\* Theorem. The table never has a closed descriptor, and no descriptor but the
\* passive socket is open without being in the table.
THEOREM SelectorTableOpen == Spec => []TableOpen
<1>1. ASSUME IInv PROVE TableOpen
  <2>1. /\ Opened(sel.fds, open) /\ open \subseteq Numbers
        /\ DOMAIN sel.fds = 0 .. MaxSize
    BY <1>1 DEF IInv, Sound, Good, Tables
  <2> DEFINE used == {fd \in DOMAIN sel.fds : Used(sel, fd)}
  <2>2. used \subseteq open
    BY <2>1 DEF Opened, Used
  <2>3. open \subseteq used \cup {0}
    <3> SUFFICES ASSUME NEW fd \in open, fd # 0 PROVE fd \in used
      OBVIOUS
    <3>1. fd \in 0 .. MaxSize
      BY <2>1
    <3>2. sel.fds[fd] # NoItem
      BY <2>1 DEF Opened
    <3> QED BY <2>1, <3>1, <3>2 DEF Used
  <2> QED BY <2>2, <2>3 DEF TableOpen
<1> QED BY <1>1, AlwaysSound, PTL

\* While there is a notification that the main thread has not come to, the
\* signal is pending or is about to be sent.
Woken ==
    pc # "notify" /\ resolution_jobs # <<>> => alarm \/ \E d \in Data : thread[d] = "queued"

LEMMA NextWoken ==
    ASSUME TypeOK, Woken, [Next]_vars
    PROVE  Woken'
<1>1. thread \in [Data -> {"none", "running", "queued"}]
  BY DEF TypeOK
<1>2. ASSUME UNCHANGED <<resolution_jobs, alarm, thread>>, pc # "notify" PROVE Woken'
  BY <1>2 DEF Woken
<1>3. CASE UNCHANGED vars
  BY <1>3 DEF Woken, vars, resolver
<1>4. CASE Top
  <2>1. pc = "top" /\ UNCHANGED <<thread, alarm>> /\ resolution_jobs' \in {<<>>, resolution_jobs}
    BY <1>4 DEF Top, resolver
  <2> QED BY <2>1 DEF Woken
<1>5. CASE Reported \/ WalkEnds
  BY <1>2, <1>5 DEF Reported, WalkEnds, resolver, Delivered
<1>6. CASE Interrupted
  BY <1>6 DEF Interrupted, Woken
<1>7. CASE Visit
  <2>1. UNCHANGED <<resolution_jobs, alarm, pc>> /\ pc = "walk"
    BY <1>7 DEF Visit, Delivered
  <2>2. \A e \in Data : thread[e] = "queued" => thread'[e] = "queued"
    <3>1. CASE UNCHANGED thread
      BY <3>1
    <3>2. ASSUME NEW d, Resolve(d) PROVE \A e \in Data : thread[e] = "queued" => thread'[e] = "queued"
      BY <1>1, <3>2 DEF Resolve
    <3> QED BY <1>7, <3>1, <3>2 DEF Visit, Accept, OnRead, OnOther
  <2> QED BY <2>1, <2>2 DEF Woken
<1>8. CASE Notification
  BY <1>8 DEF Notification, Woken
<1>9. CASE NoNotification
  BY <1>9 DEF NoNotification, Woken
<1>10. ASSUME NEW d \in Data, Lookup(d) PROVE Woken'
  BY <1>10 DEF Lookup, Woken
<1>11. ASSUME NEW d \in Data, Push(d) PROVE Woken'
  <2>1. CASE thread' = [thread EXCEPT ![d] = "queued"]
    <3>1. thread'[d] = "queued"
      BY <1>1, <2>1
    <3> QED BY <3>1 DEF Woken
  <2>2. CASE UNCHANGED resolution_jobs /\ thread' = [thread EXCEPT ![d] = "none"]
    <3>1. \A e \in Data : thread[e] = "queued" => thread'[e] = "queued"
      BY <1>1, <1>11, <2>2 DEF Push
    <3> QED BY <1>11, <2>2, <3>1 DEF Push, Woken
  <2> QED BY <1>11, <2>1, <2>2 DEF Push
<1>12. ASSUME NEW d \in Data, Kill(d) PROVE Woken'
  BY <1>12 DEF Kill, Woken
<1>13. CASE Sigterm
  BY <1>13 DEF Sigterm, Woken, resolver
<1> QED BY <1>3, <1>4, <1>5, <1>6, <1>7, <1>8, <1>9, <1>10, <1>11, <1>12, <1>13 DEF Next

\* Theorem. With any number of resolver threads, no wake-up is lost: the main
\* thread is never in pselect with a notification in the list and no signal
\* pending or about to be sent (selector_notify_block, selector_select).
THEOREM WakeupNeverLost == Spec => []NoLostWakeup
<1>1. Init => Woken
  BY DEF Init, Woken
<1>2. Woken => NoLostWakeup
  BY DEF Woken, NoLostWakeup
<1> QED BY <1>1, <1>2, NextWoken, SelectorTypeCorrect, PTL DEF Spec
-----------------------------------------------------------------------------
(* What handlers are told *)

\* The reports of pselect, and those of registrations that have ended since.
Reports == (slave_r \X {"r"}) \cup (slave_w \X {"w"})
Lost == Reports \ told

\* No thread has a descriptor of the main thread's.
Apart == \A d \in Data : lookup[d] \cap open = {}

\* The walk, while it has opened nothing: the number of a lost report is free,
\* and so is a number that the walk has passed. With one descriptor opened: if
\* that has the number of a lost report, the walk has passed the report.
Fresh ==
    /\ opened = 0 =>
         /\ \A event \in Lost : event[1] \notin Taken(open)
         /\ Lost # {} => \E fd \in Numbers : 2 * fd < at /\ fd \notin Taken(open)
    /\ opened = 1 => \A event \in Lost : event[1] \in open => Place(event) < at

Round == Apart /\ (pc = "walk" => Fresh)

\* Descriptors are closed, and one may be opened.
Moves(closed, more) ==
    /\ Account(closed, more)
    /\ \/ more = 0 /\ open' = open \ closed
       \/ /\ more = 1 /\ Lowest(open \ closed) \in Numbers
          /\ open' = (open \ closed) \cup {Lowest(open \ closed)}

\* A handler that is given an event closes its descriptor if it closes any, and
\* opens one after that only if there is no other event for the one it closed.
Moved(event, closed, more) ==
    /\ Moves(closed, more)
    /\ closed # {} => event[1] \in closed
    /\ closed # {} /\ more = 1 => closed = {event[1]} /\ event[2] = "w"

LEMMA PlaceIs ==
    ASSUME NEW event \in Numbers \X {"r", "w"}
    PROVE  /\ event[1] \in Numbers /\ event[1] \in Nat /\ event[2] \in {"r", "w"}
           /\ Place(event) \in Nat
           /\ 2 * event[1] <= Place(event) /\ Place(event) <= 2 * event[1] + 1
           /\ event[2] = "w" => Place(event) = 2 * event[1] + 1
<1>1. event[1] \in Numbers /\ event[2] \in {"r", "w"}
  OBVIOUS
<1>2. event[1] \in Nat
  BY <1>1
<1> DEFINE fd == event[1]
<1>3. Place(event) = 2 * fd + (IF event[2] = "r" THEN 0 ELSE 1)
  BY DEF Place
<1> HIDE DEF fd
<1>4. fd \in Nat
  BY <1>2 DEF fd
<1>5. /\ Place(event) \in Nat /\ 2 * fd <= Place(event) /\ Place(event) <= 2 * fd + 1
      /\ event[2] = "w" => Place(event) = 2 * fd + 1
  BY <1>3, <1>4
<1> QED BY <1>1, <1>2, <1>5 DEF fd

LEMMA MovesApart ==
    ASSUME IInv, Apart, NEW closed, NEW more, Moves(closed, more), UNCHANGED lookup
    PROVE  Apart'
<1>1. lookup \in [Data -> SUBSET Numbers] /\ open \subseteq Numbers
  BY DEF IInv, TypeOK
<1>2. CASE open' = open \ closed
  BY <1>2 DEF Apart
<1>3. CASE open' = (open \ closed) \cup {Lowest(open \ closed)}
  <2>1. Lowest(open \ closed) \notin Taken(open \ closed)
    BY <1>1, LowestIsFree
  <2>2. \A d \in Data : Lowest(open \ closed) \notin lookup[d]
    BY <2>1 DEF Taken
  <2> QED BY <1>3, <2>2 DEF Apart
<1> QED BY <1>2, <1>3 DEF Moves

LEMMA MovesFresh ==
    ASSUME IInv, Apart, Fresh, pc = "walk", UNCHANGED <<lookup, slave_r, slave_w>>,
           NEW event \in Reports, at <= Place(event), at' = Place(event) + 1,
           NEW closed \in SUBSET open, NEW more \in {0, 1}, Moved(event, closed, more)
    PROVE  Fresh'
<1>1. /\ lookup \in [Data -> SUBSET Numbers] /\ open \in SUBSET Numbers
      /\ slave_r \subseteq Numbers /\ slave_w \subseteq Numbers
      /\ at \in Nat /\ opened \in 0 .. 2
  BY DEF IInv, TypeOK
<1>2. Reports \subseteq Numbers \X {"r", "w"} /\ Reports' = Reports
  BY <1>1 DEF Reports
<1>3. /\ told' = {report \in told : report[1] \notin closed}
      /\ opened' = IF opened + more > 2 THEN 2 ELSE opened + more
  BY DEF Moved, Moves, Account
<1>4. \A e \in Lost' : e \in Numbers \X {"r", "w"} /\ (e \in Lost \/ e[1] \in closed)
  BY <1>2, <1>3 DEF Lost
<1>5. /\ event[1] \in Numbers /\ event[1] \in Nat
      /\ Place(event) \in Nat /\ 2 * event[1] <= Place(event)
      /\ event[2] = "w" => Place(event) = 2 * event[1] + 1
  BY <1>2, PlaceIs
<1>6. \A x \in Nat : x < at => x < at'
  <2> DEFINE place == Place(event)
  <2>1. at <= place /\ at' = place + 1 /\ place \in Nat
    BY <1>5
  <2> HIDE DEF place
  <2> QED BY <1>1, <2>1
<1>7. \A k \in closed : k \notin Taken(open \ closed)
  BY DEF Apart, Taken
<1>8. CASE more = 0
  <2>1. opened' = opened /\ open' = open \ closed
    BY <1>1, <1>3, <1>8 DEF Moved, Moves
  <2>2. Taken(open)' = Taken(open \ closed) /\ Taken(open \ closed) \subseteq Taken(open)
    BY <2>1 DEF Taken
  <2>3. CASE opened = 0
    <3>1. \A e \in Lost' : e[1] \notin Taken(open)'
      BY <1>4, <1>7, <2>2, <2>3 DEF Fresh
    <3>2. ASSUME Lost' # {}
          PROVE  \E fd \in Numbers : 2 * fd < at' /\ fd \notin Taken(open)'
      <4>1. CASE closed = {}
        <5>1. Lost # {}
          BY <1>4, <3>2, <4>1
        <5>2. PICK fd \in Numbers : 2 * fd < at /\ fd \notin Taken(open)
          BY <2>3, <5>1 DEF Fresh
        <5>3. 2 * fd \in Nat
          BY <5>2
        <5> QED BY <1>6, <2>2, <5>2, <5>3
      <4>2. CASE closed # {}
        <5>1. event[1] \in closed
          BY <4>2 DEF Moved
        <5> DEFINE fd == event[1]
                   place == Place(event)
        <5>2. fd \in Nat /\ place \in Nat /\ 2 * fd <= place /\ at' = place + 1
          BY <1>5
        <5>3. fd \in Numbers /\ fd \notin Taken(open)'
          BY <1>5, <1>7, <2>2, <5>1
        <5> HIDE DEF fd, place
        <5>4. 2 * fd < at'
          BY <5>2
        <5> QED BY <5>3, <5>4
      <4> QED BY <4>1, <4>2
    <3>3. opened' # 1
      BY <2>1, <2>3
    <3> QED BY <3>1, <3>2, <3>3 DEF Fresh
  <2>4. CASE opened = 1
    <3> SUFFICES ASSUME NEW e \in Lost', e[1] \in open' PROVE Place(e) < at'
      BY <2>1, <2>4 DEF Fresh, Place
    <3>1. e \in Lost /\ e[1] \in open
      BY <1>4, <2>1
    <3>2. Place(e) < at
      BY <2>4, <3>1 DEF Fresh
    <3>3. Place(e) \in Nat
      BY <1>4, PlaceIs
    <3> QED BY <1>6, <3>2, <3>3
  <2>5. CASE opened = 2
    BY <2>1, <2>5 DEF Fresh
  <2> QED BY <1>1, <2>3, <2>4, <2>5
<1>9. CASE more = 1
  <2>1. CASE opened = 0
    <3> DEFINE low == Lowest(open \ closed)
    <3>1. opened' = 1 /\ low \in Numbers /\ open' = (open \ closed) \cup {low}
      <4>1. opened' = 1
        BY <1>3, <1>9, <2>1
      <4>2. low \in Numbers /\ open' = (open \ closed) \cup {low}
        BY <1>9 DEF Moved, Moves
      <4> QED BY <4>1, <4>2
    <3>2. \A k \in Numbers : k \notin Taken(open \ closed) => low <= k
      BY <1>1, LowestIsFree
    <3> HIDE DEF low
    <3> SUFFICES ASSUME NEW e \in Lost', e[1] \in open' PROVE Place(e) < at'
      BY <3>1 DEF Fresh, Place
    <3>3. e[1] \notin open \ closed
      BY <1>4, <2>1 DEF Fresh, Taken
    <3>4. e[1] = low
      BY <3>1, <3>3
    <3>5. Place(e) \in Nat /\ Place(e) <= 2 * low + 1
      BY <1>4, <3>4, PlaceIs
    <3> DEFINE place == Place(event)
               mine == Place(e)
    <3>6. at \in Nat /\ at <= place /\ at' = place + 1 /\ place \in Nat /\ low \in Nat
          /\ mine \in Nat /\ mine <= 2 * low + 1
      BY <1>1, <1>5, <3>1, <3>5
    <3>7. CASE closed = {}
      <4>1. e \in Lost /\ open \ closed = open
        BY <1>4, <3>7
      <4>2. PICK fd \in Numbers : 2 * fd < at /\ fd \notin Taken(open)
        BY <2>1, <4>1 DEF Fresh
      <4>3. low <= fd /\ fd \in Nat
        <5>1. fd \notin Taken(open \ closed)
          BY <4>1, <4>2
        <5>2. low <= fd
          BY <3>2, <4>2, <5>1
        <5> QED BY <4>2, <5>2
      <4> HIDE DEF place, mine
      <4>4. mine < at'
        BY <3>6, <4>2, <4>3
      <4> QED BY <4>4 DEF mine
    <3>8. CASE closed # {}
      <4>1. closed = {event[1]} /\ event[2] = "w"
        BY <1>9, <3>8 DEF Moved
      <4> DEFINE fd == event[1]
      <4>2. fd \in Nat /\ place = 2 * fd + 1 /\ low <= fd
        BY <1>5, <1>7, <3>2, <4>1
      <4> HIDE DEF place, mine, fd
      <4>3. mine < at'
        BY <3>6, <4>2
      <4> QED BY <4>3 DEF mine
    <3> QED BY <3>7, <3>8
  <2>2. CASE opened # 0
    <3>1. opened' = 2
      BY <1>1, <1>3, <1>9, <2>2
    <3> QED BY <3>1 DEF Fresh
  <2> QED BY <2>1, <2>2
<1> QED BY <1>8, <1>9

\* How handlers of connections move: request_connect_sockaddr, ...
LEMMA ConnectMoves ==
    ASSUME TypeOK, NEW s, NEW closed, NEW d, Connect(s, open \ closed, closed, d)
    PROVE  \E more \in {0, 1} : Moves(closed, more)
<1> DEFINE fd == Lowest(open \ closed)
<1>1. Registrable(fd) => fd \in Numbers
  <2>1. lookup \in [Data -> SUBSET Numbers] /\ open \ closed \in SUBSET Numbers
    BY DEF TypeOK
  <2>2. fd \in 0 .. MaxSize
    BY <2>1, LowestIsFree
  <2> HIDE DEF fd
  <2> QED BY <2>2 DEF Registrable
<1>2. CASE open' = open \ closed /\ Account(closed, 0)
  BY <1>2 DEF Moves
<1>3. CASE Registrable(fd) /\ open' = (open \ closed) \cup {fd} /\ Account(closed, 1)
  BY <1>1, <1>3 DEF Moves
<1> QED BY <1>2, <1>3 DEF Connect

LEMMA Nothing == open \ {} = open
OBVIOUS

\* ... and all of them.
LEMMA HandlerMoves ==
    ASSUME IInv, pc = "walk", NEW event \in Reports,
           event \in Deliverable, NEW d \in Data, d = sel.fds[event[1]].data,
           \/ sel.fds[event[1]].role = "client" /\ event[2] = "r" /\ OnRead(d)
           \/ sel.fds[event[1]].role = "client" /\ event[2] = "w" /\ OnOther(d)
           \/ sel.fds[event[1]].role = "origin" /\ OnOther(d)
    PROVE  \E closed \in SUBSET open, more \in {0, 1} : Moved(event, closed, more)
<1> DEFINE fd == event[1]
           role == sel.fds[fd].role
<1>1. /\ TypeOK /\ sel \in Tables /\ Good(sel, open) /\ Connection(sel.fds, stage[d], d)
      /\ slave_r \subseteq Numbers /\ slave_w \subseteq Numbers /\ DOMAIN sel.fds = 0 .. MaxSize
  BY DEF IInv, TypeOK, Sound, Tables
<1>2. fd \in Numbers /\ fd \in 0 .. MaxSize
  <2>1. event \in Numbers \X {"r", "w"}
    BY <1>1 DEF Reports
  <2> QED BY <2>1
<1>3. role \in {"client", "origin"} /\ Is(sel.fds, fd, d, role) /\ event[2] \in sel.fds[fd].interest
  BY DEF Is, Deliverable
<1>4. ASSUME open' = open, Account({}, 0)
      PROVE  \E closed \in SUBSET open, more \in {0, 1} : Moved(event, closed, more)
  <2>1. Moved(event, {}, 0)
    BY <1>4, Nothing DEF Moved, Moves
  <2> QED BY <2>1
<1>5. CASE Connect(sel, open, {}, d)
  <2>1. PICK more \in {0, 1} : Moves({}, more)
    BY <1>1, <1>5, Nothing, ConnectMoves
  <2>2. Moved(event, {}, more)
    BY <2>1 DEF Moved
  <2> QED BY <2>2
<1>6. CASE End(d)
  <2> DEFINE fds == Of(sel, d, "client") \cup Of(sel, d, "origin")
  <2>1. open' = open \ fds /\ Account(fds, 0)
    BY <1>6 DEF End
  <2>2. fds \subseteq open
    <3> SUFFICES ASSUME NEW k \in fds PROVE k \in open
      OBVIOUS
    <3>1. k \in 0 .. MaxSize /\ sel.fds[k].data = d
      BY <1>1 DEF Of
    <3>2. sel.fds[k] # NoItem
      BY <3>1 DEF NoItem
    <3> QED BY <1>1, <3>1, <3>2 DEF Good, Opened
  <2>3. fd \in fds
    BY <1>1, <1>2, <1>3 DEF Of, Is
  <2> HIDE DEF fds
  <2>4. Moved(event, fds, 0)
    BY <2>1, <2>3 DEF Moved, Moves
  <2> QED BY <2>2, <2>4
<1>7. CASE /\ OnOther(d) /\ stage[d] = "connecting"
           /\ Connect(selector_unregister_fd(sel, Origin(d)), open \ {Origin(d)}, {Origin(d)}, d)
  <2>1. PICK c \in Numbers : Only(sel.fds, d, "client", c) /\ sel.fds[c].interest = {}
    BY <1>1, <1>7 DEF Connection
  <2>2. PICK o \in Numbers : Only(sel.fds, d, "origin", o) /\ sel.fds[o].interest = {"w"}
    BY <1>1, <1>7 DEF Connection
  <2>3. role = "origin"
    <3>1. role = "client" => fd = c
      BY <1>2, <1>3, <2>1 DEF Only
    <3> QED BY <1>3, <2>1, <3>1
  <2>4. fd = o
    BY <1>2, <1>3, <2>2, <2>3 DEF Only
  <2>5. Origin(d) = fd /\ event[2] = "w"
    BY <1>1, <1>3, <2>2, <2>4, OriginFound
  <2>6. fd \in open
    <3>1. sel.fds[fd] # NoItem
      BY DEF NoItem
    <3> QED BY <1>1, <1>2, <3>1 DEF Good, Opened
  <2>7. PICK more \in {0, 1} : Moves({fd}, more)
    BY <1>1, <1>7, <2>5, ConnectMoves
  <2>8. Moved(event, {fd}, more)
    BY <2>5, <2>7 DEF Moved
  <2> QED BY <2>6, <2>8
<1>8. OnRead(d) => \/ open' = open /\ Account({}, 0)
                   \/ Connect(sel, open, {}, d)
                   \/ End(d)
  BY DEF OnRead, Resolve, Negotiate, Relay
<1>9. OnOther(d) => \/ open' = open /\ Account({}, 0)
                    \/ End(d)
                    \/ /\ stage[d] = "connecting"
                       /\ Connect(selector_unregister_fd(sel, Origin(d)), open \ {Origin(d)},
                                  {Origin(d)}, d)
  BY DEF OnOther, Negotiate, Relay
<1> QED BY <1>4, <1>5, <1>6, <1>7, <1>8, <1>9

\* A visit.
LEMMA VisitMoves ==
    ASSUME IInv, Visit
    PROVE  \E event \in Reports, closed \in SUBSET open, more \in {0, 1} :
             /\ pc = "walk" /\ at <= Place(event) /\ at' = Place(event) + 1
             /\ Moved(event, closed, more)
<1>1. PICK event \in Deliverable :
        LET item == sel.fds[event[1]] IN
        /\ Delivered(event)
        /\ at' = Place(event) + 1
        /\ \/ item.role = "passive" /\ Accept
           \/ item.role = "client" /\ event[2] = "r" /\ OnRead(item.data)
           \/ item.role = "client" /\ event[2] = "w" /\ OnOther(item.data)
           \/ item.role = "origin" /\ OnOther(item.data)
  BY DEF Visit
<1>2. /\ pc = "walk" /\ event \in Reports /\ Place(event) >= at
      /\ Used(sel, event[1])
  BY <1>1 DEF Delivered, Deliverable, Reports
<1>3. at <= Place(event)
  <2>1. event \in Numbers \X {"r", "w"} /\ at \in Nat
    BY <1>2 DEF IInv, TypeOK, Reports
  <2>2. Place(event) \in Nat
    BY <2>1, PlaceIs
  <2> QED BY <1>2, <2>1, <2>2
<1>4. CASE sel.fds[event[1]].role = "passive" /\ Accept
  <2>1. CASE UNCHANGED table
    <3>1. UNCHANGED <<open, told, opened>> /\ opened \in 0 .. 2
      BY <2>1 DEF table, IInv, TypeOK
    <3>2. Account({}, 0)
      BY <1>2, <3>1 DEF Account
    <3>3. Moved(event, {}, 0)
      BY <3>1, <3>2, Nothing DEF Moved, Moves
    <3> QED BY <1>1, <1>2, <1>3, <3>3
  <2>2. CASE /\ Registrable(Lowest(open)) /\ open' = open \cup {Lowest(open)}
             /\ Account({}, 1)
    <3>1. lookup \in [Data -> SUBSET Numbers] /\ open \in SUBSET Numbers
      BY DEF IInv, TypeOK
    <3>2. Lowest(open) \in 0 .. MaxSize
      BY <3>1, LowestIsFree
    <3>3. Lowest(open) \in Numbers
      BY <2>2, <3>2 DEF Registrable
    <3>4. Moved(event, {}, 1)
      BY <2>2, <3>3, Nothing DEF Moved, Moves
    <3> QED BY <1>1, <1>2, <1>3, <3>4
  <2> QED BY <1>4, <2>1, <2>2 DEF Accept
<1>5. CASE sel.fds[event[1]].role # "passive"
  <2> DEFINE d == sel.fds[event[1]].data
  <2>1. event[1] \in 0 .. MaxSize /\ sel.fds[event[1]] # NoItem
    BY <1>2 DEF Used, IInv, TypeOK, Tables
  <2>2. d \in Data
    BY <1>5, <2>1 DEF IInv, Sound, Good, Owned
  <2>3. PICK closed \in SUBSET open, more \in {0, 1} : Moved(event, closed, more)
    BY <1>1, <1>2, <1>5, <2>2, HandlerMoves
  <2> QED BY <1>1, <1>2, <1>3, <2>3
<1> QED BY <1>1, <1>4, <1>5

LEMMA RoundSame ==
    ASSUME Round, UNCHANGED <<open, told, opened, lookup, slave_r, slave_w, pc, at>>
    PROVE  Round'
BY DEF Round, Apart, Fresh, Lost, Reports, Taken, Place

LEMMA NextRound ==
    ASSUME IInv, Round, [Next]_vars
    PROVE  Round'
<1>1. lookup \in [Data -> SUBSET Numbers] /\ open \in SUBSET Numbers /\ opened \in 0 .. 2
  BY DEF IInv, TypeOK
<1>2. CASE UNCHANGED vars
  BY <1>2, RoundSame DEF vars, table, resolver
<1>3. CASE Top
  <2>1. UNCHANGED <<open, lookup>> /\ pc' # "walk"
    BY <1>3 DEF Top, resolver
  <2> QED BY <2>1 DEF Round, Apart
<1>4. CASE Reported
  <2>1. UNCHANGED <<open, lookup>> /\ opened' = 0 /\ told' = Reports'
    BY <1>4 DEF Reported, resolver, Reports
  <2>2. Lost' = {}
    BY <2>1 DEF Lost
  <2> QED BY <2>1, <2>2 DEF Round, Apart, Fresh
<1>5. CASE Interrupted \/ WalkEnds \/ NoNotification
  <2>1. UNCHANGED <<open, lookup>> /\ pc' # "walk"
    BY <1>5 DEF Interrupted, WalkEnds, NoNotification, resolver, table
  <2> QED BY <2>1 DEF Round, Apart
<1>6. CASE Visit
  <2>1. PICK event \in Reports, closed \in SUBSET open, more \in {0, 1} :
          /\ pc = "walk" /\ at <= Place(event) /\ at' = Place(event) + 1
          /\ Moved(event, closed, more)
    BY <1>6, VisitMoves
  <2>2. UNCHANGED <<lookup, slave_r, slave_w>>
    BY <1>6 DEF Visit
  <2>3. Apart /\ Fresh
    BY <2>1 DEF Round
  <2>4. Fresh'
    BY <2>1, <2>2, <2>3, MovesFresh
  <2>5. Apart'
    BY <2>1, <2>2, <2>3, MovesApart DEF Moved
  <2> QED BY <2>4, <2>5 DEF Round
<1>7. CASE Notification
  <2>1. UNCHANGED lookup /\ pc' # "walk"
    BY <1>7 DEF Notification, resolver
  <2>2. CASE UNCHANGED table
    BY <2>1, <2>2 DEF table, Round, Apart
  <2>3. CASE Connect(sel, open, {}, sel.fds[Head(resolution_jobs)].data)
    <3>1. PICK more \in {0, 1} : Moves({}, more)
      BY <2>3, Nothing, ConnectMoves DEF IInv
    <3>2. Apart'
      BY <2>1, <3>1, MovesApart DEF Round
    <3> QED BY <2>1, <3>2 DEF Round
  <2> QED BY <1>7, <2>2, <2>3 DEF Notification
<1>8. ASSUME NEW d \in Data, Lookup(d) PROVE Round'
  <2>1. UNCHANGED <<open, slave_r, slave_w, pc, at>>
    BY <1>8 DEF Lookup
  <2>2. CASE lookup' = [lookup EXCEPT ![d] = {Lowest(open)}] /\ Account({}, 1)
    <3>1. Lowest(open) \notin open
      BY <1>1, LowestIsFree DEF Taken
    <3>2. Apart'
      BY <1>1, <2>1, <2>2, <3>1 DEF Round, Apart
    <3>3. ASSUME pc = "walk" PROVE Fresh'
      <4>1. told' = told /\ Lost' = Lost
        BY <2>1, <2>2 DEF Account, Lost, Reports
      <4>2. opened' = IF opened = 0 THEN 1 ELSE 2
        BY <1>1, <2>2, <3>3 DEF Account
      <4>3. CASE opened = 0
        <5>1. \A event \in Lost : event[1] \notin open
          BY <3>3, <4>3 DEF Round, Fresh, Taken
        <5> QED BY <2>1, <4>1, <4>2, <4>3, <5>1 DEF Fresh
      <4>4. CASE opened # 0
        BY <4>2, <4>4 DEF Fresh
      <4> QED BY <4>3, <4>4
    <3> QED BY <2>1, <3>2, <3>3 DEF Round
  <2>3. CASE lookup' = [lookup EXCEPT ![d] = {}] /\ UNCHANGED <<told, opened>>
    <3>1. \A e \in Data : lookup'[e] \subseteq lookup[e]
      BY <1>1, <2>3
    <3>2. Taken(open)' \subseteq Taken(open)
      BY <2>1, <3>1 DEF Taken
    <3>3. Apart'
      BY <2>1, <3>1 DEF Round, Apart
    <3>4. Lost' = Lost
      BY <2>1, <2>3 DEF Lost, Reports
    <3>5. Fresh => Fresh'
      BY <2>1, <2>3, <3>2, <3>4 DEF Fresh, Place
    <3> QED BY <2>1, <3>3, <3>5 DEF Round
  <2> QED BY <1>8, <2>2, <2>3 DEF Lookup
<1>9. ASSUME NEW d \in Data, Push(d) \/ Kill(d) PROVE Round'
  <2>1. UNCHANGED <<open, told, opened, lookup, slave_r, slave_w, pc, at>>
    BY <1>9 DEF Push, Kill, table
  <2> QED BY <2>1, RoundSame
<1>10. CASE Sigterm
  <2>1. UNCHANGED <<open, told, opened, lookup, at>>
    BY <1>10 DEF Sigterm, table, resolver
  <2>2. CASE UNCHANGED <<pc, slave_r, slave_w>>
    BY <2>1, <2>2, RoundSame
  <2>3. CASE pc' = "notify"
    BY <2>1, <2>3 DEF Round, Apart
  <2> QED BY <1>10, <2>2, <2>3 DEF Sigterm
<1> QED BY <1>2, <1>3, <1>4, <1>5, <1>6, <1>7, <1>8, <1>9, <1>10 DEF Next

\* Theorem. Whatever handlers and resolver threads close and open in a round of
\* any number of reports, a handler is given an event only if pselect reported
\* it for its registration, or two sockets were opened in the round
\* (handle_iteration, which looks at no report again).
THEOREM OnlyReportedEvents == Spec => []EventsReported
<1>1. Init => Round
  BY DEF Init, Round, Apart
<1>2. ASSUME IInv, Round PROVE EventsReported
  <2> SUFFICES ASSUME NEW event \in Deliverable, Delivered(event), event \notin told
               PROVE  opened = 2
    BY DEF EventsReported
  <2>1. pc = "walk" /\ event \in Lost /\ Place(event) >= at /\ Used(sel, event[1])
    BY DEF Delivered, Deliverable, Lost, Reports
  <2>2. event \in Numbers \X {"r", "w"} /\ at \in Nat /\ opened \in 0 .. 2
    BY <1>2, <2>1 DEF IInv, TypeOK, Lost, Reports
  <2>3. event[1] \in open
    <3>1. event[1] \in 0 .. MaxSize /\ sel.fds[event[1]] # NoItem
      BY <1>2, <2>1 DEF Used, IInv, TypeOK, Tables
    <3> QED BY <1>2, <3>1 DEF IInv, Sound, Good, Opened
  <2>4. opened # 0
    BY <1>2, <2>1, <2>3 DEF Round, Fresh, Taken
  <2>5. opened # 1
    <3>1. Place(event) \in Nat
      BY <2>2, PlaceIs
    <3>2. ~(Place(event) < at)
      BY <2>1, <2>2, <3>1
    <3> QED BY <1>2, <2>1, <2>3, <3>2 DEF Round, Fresh
  <2> QED BY <2>2, <2>4, <2>5
<1>3. IInv /\ Round /\ [Next]_vars => Round'
  BY NextRound
<1> QED BY <1>1, <1>2, <1>3, AlwaysSound, PTL DEF Spec
=============================================================================
