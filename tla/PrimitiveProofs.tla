-------------------------- MODULE PrimitiveProofs ---------------------------
(***************************************************************************)
(* The FIFO and the skid buffer for every depth and every set of data.     *)
(***************************************************************************)
EXTENDS Primitives, TLAPS

\* A place counted around the end of the storage.
Around(place, size) == IF place < size THEN place ELSE place - size

\* Pointers enclose the items: between them, counted around the end of the
\* storage, lie as many slots as the occupancy says, all of them written.
FifoInv ==
  /\ depth \in Nat \ {0}
  /\ read_pointer \in 0 .. depth - 1
  /\ occupancy \in 0 .. depth
  /\ write_pointer = Around(read_pointer + occupancy, depth)
  /\ storage \in [0 .. depth - 1 -> Data \cup {None}]
  /\ \A i \in 1 .. occupancy : storage[Around(read_pointer + i - 1, depth)] \in Data

SkidInv ==
  /\ depth = 1
  /\ buffer_valid \in BOOLEAN
  /\ buffer_valid => buffer_data \in Data

Offered == Data \cup {None}

\* What a unit offers and is not taken stays the oldest item inside.
UnitInv ==
  /\ unit \in {"fifo", "skid"}
  /\ unit = "fifo" => FifoInv
  /\ unit = "skid" => SkidInv
  /\ source \in Offered
  /\ offer # None => Contents # <<>> /\ offer = Contents[1]

\* The tests send 1, 2, 3, ... : inside are the first inside of them after out.
Consecutive(out, inside) == [i \in 1 .. inside |-> out + i]

\* For every cycle of a test how many items have left before it and how many
\* are inside, and the same after the last one.
Course(test, out, inside) == [test |-> test, out |-> out, inside |-> inside]

fifo_directed ==
  Course(test_fifo_directed,
         <<0, 0, 0, 0, 0, 0, 0, 1, 2, 3, 4, 5, 5, 5, 5, 5>>,
         <<0, 0, 1, 2, 3, 4, 4, 4, 3, 2, 1, 0, 0, 1, 0, 0>>)

depth_one ==
  Course(test_depth_one_fifo, <<0, 0, 1, 1, 2, 2>>, <<0, 1, 1, 1, 0, 0>>)

non_power_of_two ==
  Course(test_non_power_of_two_fifo,
         <<0, 0, 0, 0, 1, 2, 3, 3>>, <<0, 1, 2, 3, 2, 1, 0, 0>>)

skid ==
  Course(test_skid_buffer, <<0, 1, 1, 1, 2, 2, 3, 3>>, <<0, 0, 1, 1, 1, 1, 0, 0>>)

Courses == {fifo_directed, depth_one, non_power_of_two, skid}

\* A test is on its course: the next cycle is its n-th.
OnCourse(course, n) ==
  /\ script \in Seq({course.test.rows[i] : i \in 1 .. Len(course.test.rows)})
  /\ Len(script) = Len(course.test.rows) - n + 1
  /\ \A i \in 1 .. Len(script) : script[i] = course.test.rows[n + i - 1]
  /\ unit = course.test.unit
  /\ depth = course.test.depth
  /\ Contents = Consecutive(course.out[n], course.inside[n])

TestInv ==
  /\ passed
  /\ unit = "fifo" => reference = IF Directed THEN <<>> ELSE Contents
  /\ Directed => \E course \in Courses : \E n \in 1 .. Len(course.test.rows) : OnCourse(course, n)

IInv == UnitInv /\ TestInv

----------------------------------------------------------------------------
(* Places. *)

\* A remainder of less than twice the divisor.
LEMMA RemainderAround ==
  ASSUME NEW size \in Nat \ {0}, NEW place \in 0 .. 2 * size - 1
  PROVE  place % size = Around(place, size)
<1>1. place % size \in 0 .. size - 1 /\ place \div size \in Int
  OBVIOUS
<1>2. place = (place \div size) * size + (place % size)
  OBVIOUS
<1>3. PICK q \in Int, r \in 0 .. size - 1 : place = q * size + r /\ r = place % size
  BY <1>1, <1>2
<1>4. q \in {0, 1}
  <2>1. ASSUME q >= 2 PROVE FALSE
    <3>1. PICK d \in Nat : q = d + 2
      <4>1. q - 2 \in Nat /\ q = (q - 2) + 2
        BY <2>1
      <4> QED BY <4>1
    <3>2. q * size = d * size + 2 * size /\ d * size \in Nat
      BY <3>1
    <3> QED BY <1>3, <3>2
  <2>2. ASSUME q <= -1 PROVE FALSE
    <3>1. PICK d \in Nat : q = -1 - d
      <4>1. -1 - q \in Nat /\ q = -1 - (-1 - q)
        BY <2>2
      <4> QED BY <4>1
    <3>2. q * size = -size - d * size /\ d * size \in Nat
      BY <3>1
    <3> QED BY <1>3, <3>2
  <2> QED BY <2>1, <2>2
<1>5. place = r \/ place = size + r
  BY <1>3, <1>4
<1> QED BY <1>3, <1>5 DEF Around

\* The items inside a FIFO.
Inside == [i \in 1 .. occupancy |-> storage[Around(read_pointer + i - 1, depth)]]

\* The remainder the code takes of a pointer goes around the end once.
LEMMA ContentsOfFifo ==
  ASSUME FifoInv, unit = "fifo"
  PROVE  Contents = Inside
<1>1. \A i \in 1 .. occupancy :
        (read_pointer + i - 1) % depth = Around(read_pointer + i - 1, depth)
  <2> SUFFICES ASSUME NEW i \in 1 .. occupancy
      PROVE (read_pointer + i - 1) % depth = Around(read_pointer + i - 1, depth)
    OBVIOUS
  <2>1. PICK place \in 0 .. 2 * depth - 1 : place = read_pointer + i - 1
    BY DEF FifoInv
  <2> QED BY <2>1, RemainderAround DEF FifoInv
<1> QED BY <1>1 DEF Contents, Inside

\* As many items are inside as the occupancy says.
LEMMA InsideType ==
  ASSUME FifoInv
  PROVE  Inside \in Seq(Data) /\ Len(Inside) = occupancy /\ Inside \in [1 .. occupancy -> Data]
<1>1. Inside \in [1 .. occupancy -> Data]
  BY DEF FifoInv, Inside
<1>2. occupancy \in Nat
  BY DEF FifoInv
<1> QED BY <1>1, <1>2

----------------------------------------------------------------------------
(* One clock edge of the FIFO. *)

\* What an edge makes of the items inside: the oldest may leave, one may come.
After(queue, came, left) ==
  [i \in 1 .. Len(queue) + (IF came # None THEN 1 ELSE 0) - (IF left THEN 1 ELSE 0) |->
     IF i + (IF left THEN 1 ELSE 0) <= Len(queue) THEN queue[i + (IF left THEN 1 ELSE 0)]
     ELSE came]

Came(item, ready) == IF item # None /\ push_ready(ready) THEN item ELSE None

\* A clock edge of the FIFO takes away the first item, adds one at the end, or both.
LEMMA FifoStep ==
  ASSUME FifoInv, NEW item \in Offered, NEW ready \in BOOLEAN, FifoClock(item, ready)
  PROVE  /\ FifoInv'
         /\ Inside' = After(Inside, Came(item, ready), ~empty /\ ready)
<1> DEFINE push == item # None /\ push_ready(ready)
           pop == ~empty /\ ready
           p == IF push THEN 1 ELSE 0
           q == IF pop THEN 1 ELSE 0
           n == depth
           r == read_pointer
           c == occupancy
           w == Around(r + c, n)
<1>1. /\ n \in Nat \ {0} /\ r \in 0 .. n - 1 /\ c \in 0 .. n /\ write_pointer = w
      /\ n' = n
  BY DEF FifoInv, FifoClock
<1>2. /\ p \in {0, 1} /\ q \in {0, 1} /\ c' = c + p - q
      /\ (q = 1 => c >= 1) /\ (p = 1 => c < n \/ q = 1)
      /\ p = 1 <=> push
      /\ q = 1 <=> pop
  BY <1>1 DEF FifoClock, push_ready, full, empty
<1>3. c' \in 0 .. n
  BY <1>1, <1>2
<1>4. r' = Around(r + q, n) /\ write_pointer' = Around(w + p, n)
  BY <1>1, <1>2 DEF FifoClock, increment_pointer, Around
<1>5. storage' = IF push THEN [storage EXCEPT ![w] = item] ELSE storage
  BY <1>1 DEF FifoClock
<1>6. storage \in [0 .. n - 1 -> Offered]
  BY DEF FifoInv, Offered
<1> HIDE DEF push, pop, p, q
<1>7. r' \in 0 .. n - 1 /\ write_pointer' = Around(r' + c', n) /\ w \in 0 .. n - 1
  BY <1>1, <1>2, <1>4 DEF Around
<1>8. \A i \in 1 .. c' : /\ Around(r' + i - 1, n) = Around(r + (i + q) - 1, n)
                         /\ i + q \in 1 .. c + p
  BY <1>1, <1>2, <1>4 DEF Around
<1>9. \A j \in 1 .. c : Around(r + j - 1, n) \in 0 .. n - 1
  BY <1>1 DEF Around
<1>10. \A j \in 1 .. c : Around(r + j - 1, n) = w => c = n /\ j = 1
  BY <1>1 DEF Around
<1>11. p = 1 => Around(r + (c + 1) - 1, n) = w
  BY <1>1
<1>12. \A i \in 1 .. c' : storage'[Around(r' + i - 1, n)]
                            = IF i + q <= c THEN storage[Around(r + (i + q) - 1, n)] ELSE item
  <2> SUFFICES ASSUME NEW i \in 1 .. c'
      PROVE storage'[Around(r' + i - 1, n)]
              = IF i + q <= c THEN storage[Around(r + (i + q) - 1, n)] ELSE item
    OBVIOUS
  <2>1. CASE i + q <= c
    <3>1. i + q \in 1 .. c
      BY <1>1, <1>2, <1>3, <2>1
    <3>2. p = 1 => Around(r + (i + q) - 1, n) # w
      <4>1. Around(r + (i + q) - 1, n) = w => c = n /\ i + q = 1
        BY <1>10, <3>1
      <4>2. i \in Nat \ {0}
        BY <1>3
      <4> QED BY <1>1, <1>2, <4>1, <4>2
    <3> QED BY <1>2, <1>5, <1>6, <1>7, <1>8, <1>9, <2>1, <3>1, <3>2
  <2>2. CASE ~(i + q <= c)
    <3>1. i + q = c + 1 /\ p = 1
      BY <1>1, <1>2, <1>3, <1>8, <2>2
    <3> QED BY <1>2, <1>5, <1>6, <1>7, <1>8, <1>11, <2>2, <3>1
  <2> QED BY <2>1, <2>2
<1>13. \A j \in 1 .. c : storage[Around(r + j - 1, n)] \in Data
  BY DEF FifoInv
<1>14. \A i \in 1 .. c' : storage'[Around(r' + i - 1, n)] \in Data
  <2> SUFFICES ASSUME NEW i \in 1 .. c' PROVE storage'[Around(r' + i - 1, n)] \in Data
    OBVIOUS
  <2>1. storage'[Around(r' + i - 1, n)]
          = IF i + q <= c THEN storage[Around(r + (i + q) - 1, n)] ELSE item
    BY <1>12
  <2>2. i + q \in 1 .. c + p
    BY <1>8
  <2>3. CASE i + q <= c
    <3>1. i + q \in 1 .. c
      BY <1>1, <1>2, <2>2, <2>3
    <3> QED BY <1>13, <2>1, <2>3, <3>1
  <2>4. CASE ~(i + q <= c)
    <3>1. p = 1
      BY <1>1, <1>2, <2>2, <2>4
    <3>2. item \in Data
      BY <1>2, <3>1 DEF push, Offered
    <3> QED BY <2>1, <2>4, <3>2
  <2> QED BY <2>3, <2>4
<1>15. storage' \in [0 .. n - 1 -> Offered]
  BY <1>5, <1>6
<1>16. FifoInv'
  BY <1>1, <1>3, <1>7, <1>14, <1>15 DEF FifoInv, Offered
<1>17. Inside' = After(Inside, Came(item, ready), pop)
  <2>1. Len(Inside) = c /\ \A j \in 1 .. c : Inside[j] = storage[Around(r + j - 1, n)]
    BY <1>1, InsideType DEF Inside
  <2>2. p = 1 => Came(item, ready) = item
    BY <1>2 DEF Came, push
  <2>3. /\ (IF Came(item, ready) # None THEN 1 ELSE 0) = p
        /\ (IF pop THEN 1 ELSE 0) = q
    BY <1>2 DEF Came, push
  <2>4. Inside' = [i \in 1 .. c' |-> IF i + q <= c THEN Inside[i + q] ELSE Came(item, ready)]
    <3>1. \A i \in 1 .. c' : storage'[Around(r' + i - 1, n)]
                               = IF i + q <= c THEN Inside[i + q] ELSE Came(item, ready)
      BY <1>1, <1>2, <1>3, <1>8, <1>12, <2>1, <2>2
    <3> QED BY <1>1, <3>1 DEF Inside
  <2> QED BY <1>2, <2>1, <2>3, <2>4 DEF After
<1> QED BY <1>16, <1>17 DEF pop

----------------------------------------------------------------------------
(* One clock edge of either unit, as a channel sees it. *)

Oldest(queue, came) == IF queue # <<>> THEN queue[1] ELSE came

One(item) == IF item # None THEN <<item>> ELSE <<>>

\* Nothing is lost, made up or reordered by what After does to a queue.
LEMMA AfterIsTransfer ==
  ASSUME NEW queue \in Seq(Data), NEW came \in Offered, NEW left \in BOOLEAN,
         left => queue # <<>> \/ came # None
  PROVE  /\ After(queue, came, left) \in Seq(Data)
         /\ Len(After(queue, came, left)) = Len(queue) + Len(One(came)) - (IF left THEN 1 ELSE 0)
         /\ queue \o One(came)
              = (IF left THEN <<Oldest(queue, came)>> ELSE <<>>) \o After(queue, came, left)
         /\ ~left /\ (queue # <<>> \/ came # None) =>
              /\ After(queue, came, left) # <<>>
              /\ After(queue, came, left)[1] = Oldest(queue, came)
         /\ Oldest(queue, came) \in Offered
<1> DEFINE p == IF came # None THEN 1 ELSE 0
           q == IF left THEN 1 ELSE 0
           n == Len(queue)
           next == After(queue, came, left)
           out == IF left THEN <<Oldest(queue, came)>> ELSE <<>>
<1>1. n \in Nat /\ (n = 0 <=> queue = <<>>) /\ \A i \in 1 .. n : queue[i] \in Data
  OBVIOUS
<1>2. /\ p \in {0, 1} /\ q \in {0, 1} /\ (q = 1 => n >= 1 \/ p = 1)
      /\ (p = 1 => came \in Data) /\ (p = 0 <=> came = None) /\ (q = 1 <=> left)
  BY <1>1 DEF Offered
<1>3. next = [i \in 1 .. n + p - q |-> IF i + q <= n THEN queue[i + q] ELSE came]
  BY DEF After
<1>4. One(came) = IF p = 1 THEN <<came>> ELSE <<>>
  BY <1>2 DEF One
<1>5. Oldest(queue, came) = IF n >= 1 THEN queue[1] ELSE came
  BY <1>1 DEF Oldest
<1> HIDE DEF p, q, next
<1>6. \A i \in 1 .. n + p - q : (IF i + q <= n THEN queue[i + q] ELSE came) \in Data
  BY <1>1, <1>2
<1>7. next \in Seq(Data) /\ Len(next) = n + p - q
  <2>1. next \in [1 .. n + p - q -> Data] /\ n + p - q \in Nat
    BY <1>1, <1>2, <1>3, <1>6
  <2> QED BY <2>1
<1>8. Len(One(came)) = p
  BY <1>2, <1>4
<1>9. out \o next = queue \o One(came)
  <2>1. /\ One(came) \in Seq(Data) /\ out \in Seq(Data)
        /\ Len(out) = q /\ (q = 1 => out[1] = Oldest(queue, came))
        /\ p = 1 => One(came)[1] = came
    BY <1>1, <1>2, <1>4, <1>5
  <2> HIDE DEF out
  <2>2. /\ out \o next \in Seq(Data) /\ queue \o One(came) \in Seq(Data)
        /\ Len(out \o next) = n + p /\ Len(queue \o One(came)) = n + p
    BY <1>1, <1>2, <1>7, <1>8, <2>1
  <2>3. ASSUME NEW i \in 1 .. n + p PROVE (out \o next)[i] = (queue \o One(came))[i]
    <3>1. (queue \o One(came))[i] = IF i <= n THEN queue[i] ELSE came
      BY <1>1, <1>2, <1>8, <2>1
    <3>2. (out \o next)[i] = IF i <= q THEN Oldest(queue, came) ELSE next[i - q]
      BY <1>1, <1>2, <1>7, <2>1
    <3>3. i > q => next[i - q] = IF i <= n THEN queue[i] ELSE came
      BY <1>1, <1>2, <1>3
    <3> QED BY <1>1, <1>2, <1>5, <3>1, <3>2, <3>3
  <2> QED BY <2>2, <2>3
<1>10. ~left /\ (queue # <<>> \/ came # None) =>
         next # <<>> /\ next[1] = Oldest(queue, came)
  BY <1>1, <1>2, <1>3, <1>5, <1>7
<1>11. Oldest(queue, came) \in Offered
  BY <1>1, <1>2, <1>5 DEF Offered
<1> QED BY <1>2, <1>7, <1>8, <1>9, <1>10, <1>11 DEF next, q

\* The item a clock edge takes in.
Taken(item, ready) == IF item # None /\ TakesItem(ready) THEN item ELSE None

Leaves(item, ready) == Shown(item) # None /\ ready

\* Neither buffer ever holds more than it has room for.
LEMMA ContentsType ==
  ASSUME UnitInv
  PROVE  Contents \in Seq(Data) /\ Len(Contents) <= depth /\ depth \in Nat \ {0}
<1>1. CASE unit = "fifo"
  BY <1>1, ContentsOfFifo, InsideType DEF UnitInv, FifoInv
<1>2. CASE unit = "skid"
  BY <1>2 DEF UnitInv, SkidInv, Contents
<1> QED BY <1>1, <1>2 DEF UnitInv

\* What is shown is the oldest item, or in the skid buffer the one just coming.
LEMMA ShownIsOldest ==
  ASSUME UnitInv, NEW item \in Offered, NEW ready \in BOOLEAN
  PROVE  /\ Contents # <<>> => Shown(item) = Contents[1] /\ Contents[1] # None
         /\ unit = "fifo" /\ Contents = <<>> => Shown(item) = None
         /\ unit = "skid" /\ Contents = <<>> => Shown(item) = item /\ TakesItem(ready)
         /\ unit = "fifo" => (Contents = <<>> <=> empty)
         /\ Shown(item) \in Offered
         /\ Leaves(item, ready) => Contents # <<>> \/ Taken(item, ready) # None
<1>1. CASE unit = "fifo"
  <2>1. FifoInv /\ Contents = Inside /\ Len(Contents) = occupancy
    BY <1>1, ContentsOfFifo, InsideType DEF UnitInv
  <2>2. occupancy \in Nat /\ read_pointer \in 0 .. depth - 1 /\ depth \in Nat \ {0}
    BY <2>1 DEF FifoInv
  <2>3. Contents = <<>> <=> empty
    BY <2>1, <2>2, InsideType DEF empty
  <2>4. ~empty => Contents[1] = pop_data /\ pop_data \in Data
    <3>1. Around(read_pointer + 1 - 1, depth) = read_pointer
      BY <2>2 DEF Around
    <3> QED BY <2>1, <2>2, <3>1 DEF empty, pop_data, Inside, FifoInv
  <2> QED BY <1>1, <2>3, <2>4, PrimitivesAssumption DEF Shown, Offered, Leaves
<1>2. CASE unit = "skid"
  <2>1. SkidInv
    BY <1>2 DEF UnitInv
  <2>2. Contents = IF buffer_valid THEN <<buffer_data>> ELSE <<>>
    BY <1>2 DEF Contents
  <2>3. Contents = <<>> <=> ~buffer_valid
    BY <2>1, <2>2 DEF SkidInv
  <2>4. buffer_valid => Contents[1] = buffer_data /\ buffer_data \in Data
    BY <2>1, <2>2 DEF SkidInv
  <2> QED BY <1>2, <2>1, <2>3, <2>4, PrimitivesAssumption
          DEF Shown, output, TakesItem, input_ready, Leaves, Taken, Offered, SkidInv
<1> QED BY <1>1, <1>2 DEF UnitInv

\* A queue of one item.
LEMMA Single == \A x : [i \in 1 .. 1 |-> x] = <<x>>
<1> SUFFICES ASSUME NEW x PROVE [i \in 1 .. 1 |-> x] = <<x>>
  OBVIOUS
<1>1. <<x>> \in [1 .. 1 -> {x}]
  OBVIOUS
<1>2. [i \in 1 .. 1 |-> x] \in [1 .. 1 -> {x}]
  OBVIOUS
<1>3. \A f, g \in [1 .. 1 -> {x}] : f = g
  OBVIOUS
<1> QED BY <1>1, <1>2, <1>3

\* The skid buffer does to its one place what the FIFO does to its storage.
LEMMA SkidStep ==
  ASSUME SkidInv, unit = "skid", NEW item \in Offered, NEW ready \in BOOLEAN,
         SkidClock(item, ready), UNCHANGED <<unit, depth>>
  PROVE  /\ SkidInv'
         /\ Contents' = After(Contents, Taken(item, ready), Leaves(item, ready))
<1>1. /\ Contents = IF buffer_valid THEN <<buffer_data>> ELSE <<>>
      /\ Contents' = IF buffer_valid' THEN <<buffer_data'>> ELSE <<>>
  BY DEF Contents
<1>2. buffer_valid \in BOOLEAN /\ (buffer_valid => buffer_data \in Data /\ buffer_data # None)
  BY PrimitivesAssumption DEF SkidInv
<1>3. SkidInv'
  BY <1>2 DEF SkidInv, SkidClock, Offered, input_ready
<1>4. /\ Leaves(item, ready) <=> ready /\ (buffer_valid \/ item # None)
      /\ Taken(item, ready) = IF ~buffer_valid \/ ready THEN item ELSE None
  BY <1>2 DEF Leaves, Taken, Shown, output, TakesItem, input_ready
<1>5. CASE ~buffer_valid /\ item = None
  <2>1. Contents = <<>> /\ Contents' = <<>>
    BY <1>1, <1>2, <1>5 DEF SkidClock
  <2> QED BY <1>3, <1>4, <1>5, <2>1 DEF After
<1>6. CASE ~buffer_valid /\ item # None
  <2>1. Contents = <<>> /\ Contents' = IF ready THEN <<>> ELSE <<item>>
    BY <1>1, <1>2, <1>6 DEF SkidClock, input_ready
  <2>2. Taken(item, ready) = item /\ Leaves(item, ready) = ready
    BY <1>4, <1>6 DEF Leaves
  <2>3. After(<<>>, item, ready) = IF ready THEN <<>> ELSE <<item>>
    <3>1. After(<<>>, item, TRUE) = <<>>
      BY <1>6 DEF After
    <3>2. After(<<>>, item, FALSE) = [i \in 1 .. 1 |-> item]
      BY <1>6 DEF After
    <3>3. [i \in 1 .. 1 |-> item] = <<item>>
      BY Single
    <3> QED BY <3>1, <3>2, <3>3
  <2>4. After(Contents, Taken(item, ready), Leaves(item, ready)) = After(<<>>, item, ready)
    BY <2>1, <2>2
  <2> QED BY <1>3, <2>1, <2>3, <2>4
<1>7. CASE buffer_valid
  <2>1. /\ Contents = <<buffer_data>>
        /\ Contents' = IF ~ready THEN <<buffer_data>> ELSE IF item # None THEN <<item>> ELSE <<>>
    BY <1>1, <1>2, <1>7 DEF SkidClock, input_ready
  <2>2. /\ Taken(item, ready) = IF ready THEN item ELSE None
        /\ Leaves(item, ready) = ready
    BY <1>4, <1>7 DEF Leaves
  <2>3. CASE ready /\ item # None
    <3>1. After(<<buffer_data>>, item, TRUE) = <<item>>
      BY <2>3 DEF After
    <3> QED BY <1>3, <2>1, <2>2, <2>3, <3>1
  <2>4. CASE ready /\ item = None
    <3>1. After(<<buffer_data>>, None, TRUE) = <<>>
      BY DEF After
    <3> QED BY <1>3, <2>1, <2>2, <2>4, <3>1
  <2>5. CASE ~ready
    <3>1. After(<<buffer_data>>, None, FALSE) = <<buffer_data>>
      <4>1. After(<<buffer_data>>, None, FALSE) = [i \in 1 .. 1 |-> buffer_data]
        BY DEF After
      <4>2. [i \in 1 .. 1 |-> buffer_data] = <<buffer_data>>
        BY Single
      <4> QED BY <4>1, <4>2
    <3> QED BY <1>3, <2>1, <2>2, <2>5, <3>1
  <2> QED BY <2>3, <2>4, <2>5
<1> QED BY <1>2, <1>5, <1>6, <1>7

\* One clock edge of either unit.
LEMMA ClockStep ==
  ASSUME UnitInv, NEW item \in Offered, NEW ready \in BOOLEAN, Clock(item, ready)
  PROVE  /\ Contents' = After(Contents, Taken(item, ready), Leaves(item, ready))
         /\ UnitInv'
         /\ Channel!Transfer
<1> DEFINE came == Taken(item, ready)
           left == Leaves(item, ready)
<1>1. unit' = unit /\ depth' = depth
  BY DEF Clock, FifoClock, fifoVars
<1>2. /\ Contents' = After(Contents, came, left)
      /\ unit = "fifo" => FifoInv'
      /\ unit = "skid" => SkidInv'
  <2>1. CASE unit = "fifo"
    <3>1. FifoInv' /\ Inside' = After(Inside, Came(item, ready), ~empty /\ ready)
      BY <2>1, FifoStep DEF UnitInv, Clock
    <3>2. Contents = Inside
      BY <2>1, ContentsOfFifo DEF UnitInv
    <3>3. Contents' = Inside'
      <4>1. FifoInv /\ unit = "fifo" => Contents = Inside
        BY ContentsOfFifo
      <4>2. (FifoInv /\ unit = "fifo" => Contents = Inside)'
        BY ContentsOfFifo, PTL
      <4> QED BY <1>1, <2>1, <3>1, <4>2
    <3>4. Came(item, ready) = came
      BY <2>1 DEF Came, Taken, TakesItem
    <3>5. (~empty /\ ready) = left
      BY <2>1, ShownIsOldest DEF Leaves
    <3> QED BY <2>1, <3>1, <3>2, <3>3, <3>4, <3>5
  <2>2. CASE unit = "skid"
    BY <1>1, <2>2, SkidStep DEF UnitInv, Clock
  <2> QED BY <2>1, <2>2 DEF UnitInv
<1>3. came \in Offered /\ left \in BOOLEAN
  BY PrimitivesAssumption DEF Offered, Taken, Leaves
<1>4. /\ Contents \in Seq(Data)
      /\ left => Contents # <<>> \/ came # None
      /\ left => Shown(item) = Oldest(Contents, came)
      /\ Contents # <<>> => Shown(item) = Contents[1] /\ Contents[1] # None
      /\ Shown(item) # None /\ ~left =>
           Shown(item) = Oldest(Contents, came) /\ (Contents # <<>> \/ came # None)
  BY ContentsType, ShownIsOldest DEF UnitInv, Oldest, Leaves, Taken
<1>5. /\ accepted' = One(came)
      /\ delivered' = IF left THEN <<Oldest(Contents, came)>> ELSE <<>>
      /\ offer' = IF ready THEN None ELSE Shown(item)
      /\ source' \in Offered
  BY <1>4 DEF Clock, Taken, Leaves, One, Offered
<1> HIDE DEF came, left
<1>6. /\ Contents' \in Seq(Data)
      /\ Contents \o accepted' = delivered' \o Contents'
      /\ ~left /\ (Contents # <<>> \/ came # None) =>
           Contents' # <<>> /\ Contents'[1] = Oldest(Contents, came)
      /\ Oldest(Contents, came) \in Offered
  BY <1>2, <1>3, <1>4, <1>5, AfterIsTransfer
<1>7. offer' # None => ~left /\ Contents' # <<>> /\ offer' = Contents'[1]
  BY <1>4, <1>5, <1>6 DEF left, Leaves
<1>8. UnitInv'
  BY <1>1, <1>2, <1>5, <1>7 DEF UnitInv
<1>9. Len(Contents') <= depth'
  <2>1. (UnitInv => Contents \in Seq(Data) /\ Len(Contents) <= depth /\ depth \in Nat \ {0})'
    BY ContentsType, PTL
  <2> QED BY <1>8, <2>1
<1>10. offer # None => delivered' = <<offer>> \/ offer' = offer
  BY <1>4, <1>5 DEF UnitInv, left, Leaves, Oldest
<1>11. accepted' \in Channel!AtMostOne /\ delivered' \in Channel!AtMostOne
  <2>1. came # None => came \in Data
    BY <1>3 DEF Offered
  <2>2. left => Oldest(Contents, came) \in Data
    BY <1>4, <1>6 DEF Oldest, Offered, left, Leaves
  <2> QED BY <1>5, <2>1, <2>2 DEF One, Channel!AtMostOne
<1> QED BY <1>1, <1>2, <1>5, <1>6, <1>7, <1>8, <1>9, <1>10, <1>11 DEF Channel!Transfer, came, left

----------------------------------------------------------------------------
(* The other steps. *)

\* A reset empties either unit.
LEMMA ResetStep ==
  ASSUME UnitInv, reset
  PROVE  UnitInv' /\ Contents' = <<>> /\ Channel!Reset
<1>1. unit' = unit /\ depth' = depth
  BY DEF reset, FifoReset, fifoVars
<1>2. offer' = None /\ source' = None /\ accepted' = <<>> /\ delivered' = <<>>
  BY DEF reset
<1>3. CASE unit = "fifo"
  <2>1. FifoInv /\ FifoReset
    BY <1>3 DEF UnitInv, reset
  <2>2. FifoInv'
    BY <2>1 DEF FifoInv, FifoReset, Around
  <2>3. Contents' = <<>>
    <3>1. unit' = "fifo" /\ occupancy' = 0
      BY <1>1, <1>3, <2>1 DEF FifoReset
    <3> QED BY <3>1 DEF Contents
  <2> QED BY <1>1, <1>2, <1>3, <2>2, <2>3 DEF UnitInv, Offered, Channel!Reset
<1>4. CASE unit = "skid"
  <2>1. SkidInv /\ SkidReset
    BY <1>4 DEF UnitInv, reset
  <2>2. SkidInv' /\ Contents' = <<>>
    BY <1>1, <1>4, <2>1 DEF SkidInv, SkidReset, Contents
  <2> QED BY <1>1, <1>2, <1>4, <2>2 DEF UnitInv, Offered, Channel!Reset
<1> QED BY <1>3, <1>4 DEF UnitInv

\* What a cycle of a test that sends consecutive numbers does, in numbers:
\* out and inside become out1 and inside1, and the row expects that.
Fits(dut, size, row, out, inside, out1, inside1) ==
  LET takes == inside < size \/ row.ready = TRUE
      shown == IF inside > 0 THEN out + 1 ELSE IF dut = "skid" THEN row.item ELSE None
      came == IF row.item # None /\ takes THEN 1 ELSE 0
      left == IF shown # None /\ row.ready = TRUE THEN 1 ELSE 0
  IN  /\ row.item \in Offered
      /\ row.ready \in BOOLEAN
      /\ row.reset \in BOOLEAN
      /\ row.reset = TRUE => inside1 = 0
      /\ row.reset = FALSE =>
           /\ \/ row.takes = Any
              \/ row.takes = TRUE /\ takes
              \/ row.takes = FALSE /\ ~takes
           /\ row.shows = Any \/ row.shows = shown
           /\ dut = "fifo" => row.level = inside
           /\ came = 1 => row.item = out + inside + 1
           /\ out1 = out + left
           /\ inside1 = inside + came - left

FitsAt(course, n) ==
  /\ Fits(course.test.unit, course.test.depth, course.test.rows[n],
          course.out[n], course.inside[n], course.out[n + 1], course.inside[n + 1])
  /\ course.out[n] \in Nat /\ course.inside[n] \in Nat

\* Every cycle of every directed test.
LEMMA RowsFit == \A course \in Courses : \A n \in 1 .. Len(course.test.rows) : FitsAt(course, n)
<1>1. \A i \in 1 .. 6 : i # None /\ i \in Offered
  BY PrimitivesAssumption DEF Data, Offered
<1>2. None \in Offered
  BY DEF Offered
<1>3. \A n \in 1 .. Len(fifo_directed.test.rows) : FitsAt(fifo_directed, n)
  <2>r. /\ Len(fifo_directed.test.rows) = 15
        /\ fifo_directed.test.rows[1] = Look(None, 0)
        /\ fifo_directed.test.rows[2] = push_fifo(1, 0)
        /\ fifo_directed.test.rows[3] = push_fifo(2, 1)
        /\ fifo_directed.test.rows[4] = push_fifo(3, 2)
        /\ fifo_directed.test.rows[5] = push_fifo(4, 3)
        /\ fifo_directed.test.rows[6] = Row(5, FALSE, FALSE, Any, 4)
        /\ fifo_directed.test.rows[7] = Row(5, TRUE, TRUE, 1, 4)
        /\ fifo_directed.test.rows[8] = pop_fifo(2, 4)
        /\ fifo_directed.test.rows[9] = pop_fifo(3, 3)
        /\ fifo_directed.test.rows[10] = pop_fifo(4, 2)
        /\ fifo_directed.test.rows[11] = pop_fifo(5, 1)
        /\ fifo_directed.test.rows[12] = Row(None, TRUE, Any, None, 0)
        /\ fifo_directed.test.rows[13] = push_fifo(6, 0)
        /\ fifo_directed.test.rows[14] = ResetRow
        /\ fifo_directed.test.rows[15] = Look(None, 0)
    BY DEF fifo_directed, Course, test_fifo_directed, Test
  <2>t. /\ fifo_directed.test.unit = "fifo" /\ fifo_directed.test.depth = 4
        /\ fifo_directed.out = <<0, 0, 0, 0, 0, 0, 0, 1, 2, 3, 4, 5, 5, 5, 5, 5>>
        /\ fifo_directed.inside = <<0, 0, 1, 2, 3, 4, 4, 4, 3, 2, 1, 0, 0, 1, 0, 0>>
    BY DEF fifo_directed, Course, test_fifo_directed, Test
  <2>1. FitsAt(fifo_directed, 1)
    BY <1>1, <1>2, <2>r, <2>t DEF FitsAt, Fits, Row, Look
  <2>2. FitsAt(fifo_directed, 2)
    BY <1>1, <1>2, <2>r, <2>t DEF FitsAt, Fits, Row, push_fifo
  <2>3. FitsAt(fifo_directed, 3)
    BY <1>1, <1>2, <2>r, <2>t DEF FitsAt, Fits, Row, push_fifo
  <2>4. FitsAt(fifo_directed, 4)
    BY <1>1, <1>2, <2>r, <2>t DEF FitsAt, Fits, Row, push_fifo
  <2>5. FitsAt(fifo_directed, 5)
    BY <1>1, <1>2, <2>r, <2>t DEF FitsAt, Fits, Row, push_fifo
  <2>6. FitsAt(fifo_directed, 6)
    BY <1>1, <1>2, <2>r, <2>t DEF FitsAt, Fits, Row
  <2>7. FitsAt(fifo_directed, 7)
    BY <1>1, <1>2, <2>r, <2>t DEF FitsAt, Fits, Row
  <2>8. FitsAt(fifo_directed, 8)
    BY <1>1, <1>2, <2>r, <2>t DEF FitsAt, Fits, Row, pop_fifo
  <2>9. FitsAt(fifo_directed, 9)
    BY <1>1, <1>2, <2>r, <2>t DEF FitsAt, Fits, Row, pop_fifo
  <2>10. FitsAt(fifo_directed, 10)
    BY <1>1, <1>2, <2>r, <2>t DEF FitsAt, Fits, Row, pop_fifo
  <2>11. FitsAt(fifo_directed, 11)
    BY <1>1, <1>2, <2>r, <2>t DEF FitsAt, Fits, Row, pop_fifo
  <2>12. FitsAt(fifo_directed, 12)
    BY <1>1, <1>2, <2>r, <2>t DEF FitsAt, Fits, Row
  <2>13. FitsAt(fifo_directed, 13)
    BY <1>1, <1>2, <2>r, <2>t DEF FitsAt, Fits, Row, push_fifo
  <2>14. FitsAt(fifo_directed, 14)
    BY <1>1, <1>2, <2>r, <2>t DEF FitsAt, Fits, Row, ResetRow
  <2>15. FitsAt(fifo_directed, 15)
    BY <1>1, <1>2, <2>r, <2>t DEF FitsAt, Fits, Row, Look
  <2> QED
    BY <2>r, <2>1, <2>2, <2>3, <2>4, <2>5, <2>6, <2>7, <2>8, <2>9, <2>10,
       <2>11, <2>12, <2>13, <2>14, <2>15
<1>4. \A n \in 1 .. Len(depth_one.test.rows) : FitsAt(depth_one, n)
  <2>r. /\ Len(depth_one.test.rows) = 5
        /\ depth_one.test.rows[1] = push_fifo(1, 0)
        /\ depth_one.test.rows[2] = Row(2, TRUE, TRUE, 1, 1)
        /\ depth_one.test.rows[3] = Look(2, 1)
        /\ depth_one.test.rows[4] = pop_fifo(2, 1)
        /\ depth_one.test.rows[5] = Look(None, 0)
    BY DEF depth_one, Course, test_depth_one_fifo, Test
  <2>t. /\ depth_one.test.unit = "fifo" /\ depth_one.test.depth = 1
        /\ depth_one.out = <<0, 0, 1, 1, 2, 2>>
        /\ depth_one.inside = <<0, 1, 1, 1, 0, 0>>
    BY DEF depth_one, Course, test_depth_one_fifo, Test
  <2>1. FitsAt(depth_one, 1)
    BY <1>1, <1>2, <2>r, <2>t DEF FitsAt, Fits, Row, push_fifo
  <2>2. FitsAt(depth_one, 2)
    BY <1>1, <1>2, <2>r, <2>t DEF FitsAt, Fits, Row
  <2>3. FitsAt(depth_one, 3)
    BY <1>1, <1>2, <2>r, <2>t DEF FitsAt, Fits, Row, Look
  <2>4. FitsAt(depth_one, 4)
    BY <1>1, <1>2, <2>r, <2>t DEF FitsAt, Fits, Row, pop_fifo
  <2>5. FitsAt(depth_one, 5)
    BY <1>1, <1>2, <2>r, <2>t DEF FitsAt, Fits, Row, Look
  <2> QED
    BY <2>r, <2>1, <2>2, <2>3, <2>4, <2>5
<1>5. \A n \in 1 .. Len(non_power_of_two.test.rows) : FitsAt(non_power_of_two, n)
  <2>r. /\ Len(non_power_of_two.test.rows) = 7
        /\ non_power_of_two.test.rows[1] = push_fifo(1, 0)
        /\ non_power_of_two.test.rows[2] = push_fifo(2, 1)
        /\ non_power_of_two.test.rows[3] = push_fifo(3, 2)
        /\ non_power_of_two.test.rows[4] = pop_fifo(1, 3)
        /\ non_power_of_two.test.rows[5] = pop_fifo(2, 2)
        /\ non_power_of_two.test.rows[6] = pop_fifo(3, 1)
        /\ non_power_of_two.test.rows[7] = Look(None, 0)
    BY DEF non_power_of_two, Course, test_non_power_of_two_fifo, Test
  <2>t. /\ non_power_of_two.test.unit = "fifo" /\ non_power_of_two.test.depth = 3
        /\ non_power_of_two.out = <<0, 0, 0, 0, 1, 2, 3, 3>>
        /\ non_power_of_two.inside = <<0, 1, 2, 3, 2, 1, 0, 0>>
    BY DEF non_power_of_two, Course, test_non_power_of_two_fifo, Test
  <2>1. FitsAt(non_power_of_two, 1)
    BY <1>1, <1>2, <2>r, <2>t DEF FitsAt, Fits, Row, push_fifo
  <2>2. FitsAt(non_power_of_two, 2)
    BY <1>1, <1>2, <2>r, <2>t DEF FitsAt, Fits, Row, push_fifo
  <2>3. FitsAt(non_power_of_two, 3)
    BY <1>1, <1>2, <2>r, <2>t DEF FitsAt, Fits, Row, push_fifo
  <2>4. FitsAt(non_power_of_two, 4)
    BY <1>1, <1>2, <2>r, <2>t DEF FitsAt, Fits, Row, pop_fifo
  <2>5. FitsAt(non_power_of_two, 5)
    BY <1>1, <1>2, <2>r, <2>t DEF FitsAt, Fits, Row, pop_fifo
  <2>6. FitsAt(non_power_of_two, 6)
    BY <1>1, <1>2, <2>r, <2>t DEF FitsAt, Fits, Row, pop_fifo
  <2>7. FitsAt(non_power_of_two, 7)
    BY <1>1, <1>2, <2>r, <2>t DEF FitsAt, Fits, Row, Look
  <2> QED
    BY <2>r, <2>1, <2>2, <2>3, <2>4, <2>5, <2>6, <2>7
<1>6. \A n \in 1 .. Len(skid.test.rows) : FitsAt(skid, n)
  <2>r. /\ Len(skid.test.rows) = 7
        /\ skid.test.rows[1] = Row(1, TRUE, TRUE, 1, 0)
        /\ skid.test.rows[2] = Row(2, FALSE, TRUE, 2, 0)
        /\ skid.test.rows[3] = Row(None, FALSE, FALSE, 2, 0)
        /\ skid.test.rows[4] = Row(3, TRUE, TRUE, 2, 0)
        /\ skid.test.rows[5] = Look(3, 0)
        /\ skid.test.rows[6] = Row(None, TRUE, Any, 3, 0)
        /\ skid.test.rows[7] = Look(None, 0)
    BY DEF skid, Course, test_skid_buffer, Test
  <2>t. /\ skid.test.unit = "skid" /\ skid.test.depth = 1
        /\ skid.out = <<0, 1, 1, 1, 2, 2, 3, 3>>
        /\ skid.inside = <<0, 0, 1, 1, 1, 1, 0, 0>>
    BY DEF skid, Course, test_skid_buffer, Test
  <2>1. FitsAt(skid, 1)
    BY <1>1, <1>2, <2>r, <2>t DEF FitsAt, Fits, Row
  <2>2. FitsAt(skid, 2)
    BY <1>1, <1>2, <2>r, <2>t DEF FitsAt, Fits, Row
  <2>3. FitsAt(skid, 3)
    BY <1>1, <1>2, <2>r, <2>t DEF FitsAt, Fits, Row
  <2>4. FitsAt(skid, 4)
    BY <1>1, <1>2, <2>r, <2>t DEF FitsAt, Fits, Row
  <2>5. FitsAt(skid, 5)
    BY <1>1, <1>2, <2>r, <2>t DEF FitsAt, Fits, Row, Look
  <2>6. FitsAt(skid, 6)
    BY <1>1, <1>2, <2>r, <2>t DEF FitsAt, Fits, Row
  <2>7. FitsAt(skid, 7)
    BY <1>1, <1>2, <2>r, <2>t DEF FitsAt, Fits, Row, Look
  <2> QED
    BY <2>r, <2>1, <2>2, <2>3, <2>4, <2>5, <2>6, <2>7
<1> QED BY <1>3, <1>4, <1>5, <1>6 DEF Courses

\* A transfer of consecutive numbers.
LEMMA AfterConsecutive ==
  ASSUME NEW out \in Nat, NEW inside \in Nat, NEW came \in Offered, NEW left \in BOOLEAN,
         came # None => came = out + inside + 1,
         left => inside > 0 \/ came # None
  PROVE  After(Consecutive(out, inside), came, left)
           = Consecutive(out + (IF left THEN 1 ELSE 0),
                         inside + (IF came # None THEN 1 ELSE 0) - (IF left THEN 1 ELSE 0))
<1> DEFINE p == IF came # None THEN 1 ELSE 0
           q == IF left THEN 1 ELSE 0
           queue == Consecutive(out, inside)
<1>1. p \in {0, 1} /\ q \in {0, 1} /\ (q = 1 => inside + p >= 1) /\ (p = 1 => came = out + inside + 1)
  OBVIOUS
<1>2. Len(queue) = inside /\ \A i \in 1 .. inside : queue[i] = out + i
  BY DEF Consecutive
<1> HIDE DEF queue
<1>3. After(queue, came, left)
        = [i \in 1 .. inside + p - q |-> IF i + q <= inside THEN queue[i + q] ELSE came]
  BY <1>2 DEF After
<1> HIDE DEF p, q
<1>4. \A i \in 1 .. inside + p - q :
        (IF i + q <= inside THEN queue[i + q] ELSE came) = (out + q) + i
  <2> SUFFICES ASSUME NEW i \in 1 .. inside + p - q
      PROVE (IF i + q <= inside THEN queue[i + q] ELSE came) = (out + q) + i
    OBVIOUS
  <2>1. CASE i + q <= inside
    BY <1>1, <1>2, <2>1
  <2>2. CASE ~(i + q <= inside)
    <3>1. i + q = inside + 1 /\ p = 1
      BY <1>1, <2>2
    <3> QED BY <1>1, <2>2, <3>1
  <2> QED BY <2>1, <2>2
<1>5. After(queue, came, left) = Consecutive(out + q, inside + p - q)
  BY <1>3, <1>4 DEF Consecutive
<1> QED BY <1>5 DEF p, q, queue

\* The directed tests start and end with an empty unit and have cycles to run.
Shape(course) ==
  /\ course.test.unit \in {"fifo", "skid"}
  /\ course.test.depth \in Nat \ {0}
  /\ course.test.unit = "skid" => course.test.depth = 1
  /\ Len(course.test.rows) \in Nat \ {0}
  /\ course.test.rows \in Seq({course.test.rows[i] : i \in 1 .. Len(course.test.rows)})
  /\ course.out[1] = 0 /\ course.inside[1] = 0
  /\ course.inside[Len(course.test.rows) + 1] = 0

\* The tables have a row for every cycle of their test, and start and end empty.
LEMMA CourseShape == \A course \in Courses : Shape(course)
<1>1. Shape(fifo_directed)
  <2>1. /\ fifo_directed.test.unit \in {"fifo", "skid"}
        /\ fifo_directed.test.depth \in Nat \ {0}
        /\ fifo_directed.test.unit = "skid" => fifo_directed.test.depth = 1
        /\ Len(fifo_directed.test.rows) = 15
        /\ fifo_directed.out[1] = 0 /\ fifo_directed.inside[1] = 0
        /\ fifo_directed.inside[16] = 0
    BY DEF fifo_directed, Course, Test, test_fifo_directed
  <2> DEFINE rows == fifo_directed.test.rows
             S == {rows[i] : i \in 1 .. 15}
  <2>2. rows = <<rows[1], rows[2], rows[3], rows[4], rows[5], rows[6], rows[7], rows[8],
                        rows[9], rows[10], rows[11], rows[12], rows[13], rows[14], rows[15]>>
    BY DEF fifo_directed, Course, Test, test_fifo_directed
  <2> HIDE DEF rows
  <2>3. /\ rows[1] \in S /\ rows[2] \in S /\ rows[3] \in S /\ rows[4] \in S /\ rows[5] \in S
        /\ rows[6] \in S /\ rows[7] \in S /\ rows[8] \in S /\ rows[9] \in S /\ rows[10] \in S
        /\ rows[11] \in S /\ rows[12] \in S /\ rows[13] \in S /\ rows[14] \in S /\ rows[15] \in S
    OBVIOUS
  <2> HIDE DEF S
  <2>4. <<rows[1], rows[2], rows[3], rows[4], rows[5], rows[6], rows[7], rows[8],
        rows[9], rows[10], rows[11], rows[12], rows[13], rows[14], rows[15]>> \in Seq(S)
    BY <2>3
  <2>5. rows \in Seq(S)
    BY <2>2, <2>4
  <2> QED BY <2>1, <2>5 DEF Shape, rows, S
<1>2. Shape(depth_one)
  <2>1. /\ depth_one.test.unit \in {"fifo", "skid"}
        /\ depth_one.test.depth \in Nat \ {0}
        /\ depth_one.test.unit = "skid" => depth_one.test.depth = 1
        /\ Len(depth_one.test.rows) = 5
        /\ depth_one.out[1] = 0 /\ depth_one.inside[1] = 0
        /\ depth_one.inside[6] = 0
    BY DEF depth_one, Course, Test, test_depth_one_fifo
  <2> DEFINE rows == depth_one.test.rows
             S == {rows[i] : i \in 1 .. 5}
  <2>2. rows = <<rows[1], rows[2], rows[3], rows[4], rows[5]>>
    BY DEF depth_one, Course, Test, test_depth_one_fifo
  <2> HIDE DEF rows
  <2>3. /\ rows[1] \in S /\ rows[2] \in S /\ rows[3] \in S /\ rows[4] \in S /\ rows[5] \in S
    OBVIOUS
  <2> HIDE DEF S
  <2>4. <<rows[1], rows[2], rows[3], rows[4], rows[5]>> \in Seq(S)
    BY <2>3
  <2>5. rows \in Seq(S)
    BY <2>2, <2>4
  <2> QED BY <2>1, <2>5 DEF Shape, rows, S
<1>3. Shape(non_power_of_two)
  <2>1. /\ non_power_of_two.test.unit \in {"fifo", "skid"}
        /\ non_power_of_two.test.depth \in Nat \ {0}
        /\ non_power_of_two.test.unit = "skid" => non_power_of_two.test.depth = 1
        /\ Len(non_power_of_two.test.rows) = 7
        /\ non_power_of_two.out[1] = 0 /\ non_power_of_two.inside[1] = 0
        /\ non_power_of_two.inside[8] = 0
    BY DEF non_power_of_two, Course, Test, test_non_power_of_two_fifo
  <2> DEFINE rows == non_power_of_two.test.rows
             S == {rows[i] : i \in 1 .. 7}
  <2>2. rows = <<rows[1], rows[2], rows[3], rows[4], rows[5], rows[6], rows[7]>>
    BY DEF non_power_of_two, Course, Test, test_non_power_of_two_fifo
  <2> HIDE DEF rows
  <2>3. /\ rows[1] \in S /\ rows[2] \in S /\ rows[3] \in S /\ rows[4] \in S /\ rows[5] \in S
        /\ rows[6] \in S /\ rows[7] \in S
    OBVIOUS
  <2> HIDE DEF S
  <2>4. <<rows[1], rows[2], rows[3], rows[4], rows[5], rows[6], rows[7]>> \in Seq(S)
    BY <2>3
  <2>5. rows \in Seq(S)
    BY <2>2, <2>4
  <2> QED BY <2>1, <2>5 DEF Shape, rows, S
<1>4. Shape(skid)
  <2>1. /\ skid.test.unit \in {"fifo", "skid"}
        /\ skid.test.depth \in Nat \ {0}
        /\ skid.test.unit = "skid" => skid.test.depth = 1
        /\ Len(skid.test.rows) = 7
        /\ skid.out[1] = 0 /\ skid.inside[1] = 0
        /\ skid.inside[8] = 0
    BY DEF skid, Course, Test, test_skid_buffer
  <2> DEFINE rows == skid.test.rows
             S == {rows[i] : i \in 1 .. 7}
  <2>2. rows = <<rows[1], rows[2], rows[3], rows[4], rows[5], rows[6], rows[7]>>
    BY DEF skid, Course, Test, test_skid_buffer
  <2> HIDE DEF rows
  <2>3. /\ rows[1] \in S /\ rows[2] \in S /\ rows[3] \in S /\ rows[4] \in S /\ rows[5] \in S
        /\ rows[6] \in S /\ rows[7] \in S
    OBVIOUS
  <2> HIDE DEF S
  <2>4. <<rows[1], rows[2], rows[3], rows[4], rows[5], rows[6], rows[7]>> \in Seq(S)
    BY <2>3
  <2>5. rows \in Seq(S)
    BY <2>2, <2>4
  <2> QED BY <2>1, <2>5 DEF Shape, rows, S
<1> QED BY <1>1, <1>2, <1>3, <1>4 DEF Courses

\* One cycle of a test on its course: what the row expects is so, and the
\* test stays on its course.
LEMMA CourseStep ==
  ASSUME UnitInv, NEW course \in Courses, NEW n \in 1 .. Len(course.test.rows),
         OnCourse(course, n), Directed, expect
  PROVE  /\ UnitInv'
         /\ Channel!Next
         /\ passed => passed'
         /\ unit' = unit /\ reference' = reference
         /\ ~Directed' => Contents' = <<>>
         /\ Directed' => n + 1 \in 1 .. Len(course.test.rows) /\ OnCourse(course, n + 1)'
<1> DEFINE row == course.test.rows[n]
           out == course.out[n]
           inside == course.inside[n]
<1>1. /\ script \in Seq({course.test.rows[i] : i \in 1 .. Len(course.test.rows)})
      /\ Len(script) = Len(course.test.rows) - n + 1
      /\ \A i \in 1 .. Len(script) : script[i] = course.test.rows[n + i - 1]
      /\ unit = course.test.unit /\ depth = course.test.depth
      /\ Contents = Consecutive(out, inside)
  BY DEF OnCourse
<1>2. Head(script) = row
  <2>1. script # <<>> /\ Head(script) = script[1] /\ Len(script) \in Nat \ {0}
    BY <1>1 DEF Directed
  <2>2. script[1] = course.test.rows[n + 1 - 1] /\ n \in Int
    BY <1>1, <2>1
  <2> QED BY <2>1, <2>2
<1>3. /\ Fits(unit, depth, row, out, inside, course.out[n + 1], course.inside[n + 1])
      /\ out \in Nat /\ inside \in Nat
  BY <1>1, RowsFit DEF FitsAt
<1>4. /\ passed' = (passed /\ Expected(row))
      /\ IF row.reset THEN reset ELSE Clock(row.item, row.ready)
      /\ script' = Tail(script) /\ reference' = reference
  BY <1>2 DEF expect
<1> HIDE DEF row, out, inside
<1>5. row.item \in Offered /\ row.ready \in BOOLEAN /\ row.reset \in BOOLEAN
  BY <1>3 DEF Fits
<1>6. (Contents = <<>> <=> inside = 0) /\ (inside > 0 => Contents[1] = out + 1) /\ Len(Contents) = inside
  BY <1>1, <1>3 DEF Consecutive
<1>7. TakesItem(row.ready) <=> inside < depth \/ row.ready
  <2>1. CASE unit = "fifo"
    <3>1. FifoInv /\ Len(Contents) = occupancy
      BY <2>1, ContentsOfFifo, InsideType DEF UnitInv
    <3> QED BY <1>3, <1>6, <2>1, <3>1 DEF FifoInv, TakesItem, push_ready, full, empty
  <2>2. CASE unit = "skid"
    <3>1. SkidInv /\ (buffer_valid <=> inside = 1) /\ inside <= 1
      BY <1>1, <1>3, <1>6, <2>2 DEF UnitInv, SkidInv, Contents
    <3> QED BY <1>3, <2>2, <3>1 DEF SkidInv, TakesItem, input_ready
  <2> QED BY <2>1, <2>2 DEF UnitInv
<1>8. Shown(row.item) = IF inside > 0 THEN out + 1 ELSE IF unit = "skid" THEN row.item ELSE None
  BY <1>3, <1>5, <1>6, ShownIsOldest DEF UnitInv
<1>9. unit = "fifo" => occupancy = inside
  BY <1>6, ContentsOfFifo, InsideType DEF UnitInv
<1>10. Expected(row)
  <2> SUFFICES ASSUME ~row.reset PROVE Expected(row)
    BY DEF Expected
  <2>1. row.takes = Any \/ row.takes = TakesItem(row.ready)
    <3>1. TakesItem(row.ready) \in BOOLEAN
      BY DEF TakesItem, push_ready, input_ready, full, empty
    <3>2. \/ row.takes = Any
          \/ row.takes = TRUE /\ TakesItem(row.ready)
          \/ row.takes = FALSE /\ ~TakesItem(row.ready)
      BY <1>3, <1>5, <1>7 DEF Fits
    <3> QED BY <3>1, <3>2
  <2>2. row.shows = Any \/ row.shows = Shown(row.item)
    BY <1>3, <1>5, <1>8 DEF Fits
  <2>3. unit = "fifo" => row.level = occupancy
    BY <1>3, <1>5, <1>9 DEF Fits
  <2> QED BY <2>1, <2>2, <2>3 DEF Expected
<1>11. UnitInv' /\ Channel!Next /\ Contents' = Consecutive(course.out[n + 1], course.inside[n + 1])
  <2>1. CASE row.reset
    <3>1. UnitInv' /\ Contents' = <<>> /\ Channel!Reset
      BY <1>4, <2>1, ResetStep
    <3>2. Consecutive(course.out[n + 1], course.inside[n + 1]) = <<>>
      BY <1>3, <1>5, <2>1 DEF Fits, Consecutive
    <3> QED BY <3>1, <3>2 DEF Channel!Next
  <2>2. CASE ~row.reset
    <3> DEFINE came == Taken(row.item, row.ready)
               left == Leaves(row.item, row.ready)
    <3>1. UnitInv' /\ Channel!Transfer /\ Contents' = After(Contents, came, left)
      BY <1>4, <1>5, <2>2, ClockStep
    <3>2. came \in Offered /\ left \in BOOLEAN /\ (left => Contents # <<>> \/ came # None)
      BY <1>5, ShownIsOldest DEF Taken, Leaves, Offered
    <3>3. /\ came # None => came = out + inside + 1
          /\ course.out[n + 1] = out + (IF left THEN 1 ELSE 0)
          /\ course.inside[n + 1]
               = inside + (IF came # None THEN 1 ELSE 0) - (IF left THEN 1 ELSE 0)
      BY <1>3, <1>5, <1>7, <1>8, <2>2 DEF Fits, Taken, Leaves
    <3> HIDE DEF came, left
    <3>4. left => inside > 0 \/ came # None
      BY <1>3, <1>6, <3>2
    <3>5. Contents' = Consecutive(course.out[n + 1], course.inside[n + 1])
      <4>1. After(Consecutive(out, inside), came, left)
              = Consecutive(out + (IF left THEN 1 ELSE 0),
                            inside + (IF came # None THEN 1 ELSE 0) - (IF left THEN 1 ELSE 0))
        BY <1>3, <3>2, <3>3, <3>4, AfterConsecutive
      <4> QED BY <1>1, <3>1, <3>3, <4>1
    <3> QED BY <3>1, <3>5 DEF Channel!Next
  <2> QED BY <2>1, <2>2
<1>12. unit' = unit /\ depth' = depth
  BY <1>4 DEF reset, FifoReset, fifoVars, Clock, FifoClock
<1>13. ASSUME Directed'
       PROVE  n + 1 \in 1 .. Len(course.test.rows) /\ OnCourse(course, n + 1)'
  <2> DEFINE R == {course.test.rows[i] : i \in 1 .. Len(course.test.rows)}
  <2>1. script # <<>> /\ script \in Seq(R) /\ script' = Tail(script)
    BY <1>1, <1>4 DEF Directed
  <2> HIDE DEF R
  <2>2. /\ script' \in Seq(R) /\ Len(script') = Len(script) - 1
        /\ \A i \in 1 .. Len(script') : script'[i] = script[i + 1] /\ i + 1 \in 1 .. Len(script)
    BY <2>1
  <2>3. Len(script') >= 1 /\ Len(script') \in Nat
    BY <1>13, <2>2 DEF Directed
  <2>4. Len(course.test.rows) = Len(script') + n
    <3> DEFINE cycles == Len(course.test.rows)
    <3>1. cycles \in Nat
      BY CourseShape DEF Shape
    <3>2. n \in Int /\ Len(script) = cycles - n + 1
      BY <1>1, <3>1
    <3> HIDE DEF cycles
    <3>3. Len(script') = cycles - n
      BY <2>2, <3>1, <3>2
    <3>4. cycles = Len(script') + n
      BY <3>1, <3>2, <3>3
    <3> QED BY <3>4 DEF cycles
  <2>5. n + 1 \in 1 .. Len(course.test.rows) /\ Len(script') = Len(course.test.rows) - (n + 1) + 1
    BY <2>3, <2>4
  <2>6. \A i \in 1 .. Len(script') : script'[i] = course.test.rows[(n + 1) + i - 1]
    <3> SUFFICES ASSUME NEW i \in 1 .. Len(script')
        PROVE script'[i] = course.test.rows[(n + 1) + i - 1]
      OBVIOUS
    <3>1. script'[i] = script[i + 1] /\ i + 1 \in 1 .. Len(script)
      BY <2>2
    <3>2. script[i + 1] = course.test.rows[n + (i + 1) - 1]
      BY <1>1, <3>1
    <3>3. n + (i + 1) - 1 = (n + 1) + i - 1
      BY <2>3
    <3> QED BY <3>1, <3>2, <3>3
  <2> QED BY <1>1, <1>11, <1>12, <2>2, <2>5, <2>6 DEF OnCourse, R
<1>14. ASSUME ~Directed' PROVE Contents' = <<>>
  <2> DEFINE R == {course.test.rows[i] : i \in 1 .. Len(course.test.rows)}
  <2>1. script # <<>> /\ script \in Seq(R) /\ script' = Tail(script)
    BY <1>1, <1>4 DEF Directed
  <2> HIDE DEF R
  <2>2. Len(script) = 1
    <3>1. script' = <<>> /\ Len(script') = Len(script) - 1 /\ Len(script) \in Nat
      BY <1>14, <2>1 DEF Directed
    <3>2. Len(script') = 0
      BY <3>1
    <3> QED BY <3>1, <3>2
  <2>3. n = Len(course.test.rows)
    <3> DEFINE cycles == Len(course.test.rows)
    <3>1. cycles \in Nat
      BY CourseShape DEF Shape
    <3>2. n \in Int /\ Len(script) = cycles - n + 1
      BY <1>1, <3>1
    <3> HIDE DEF cycles
    <3>3. n \in Int /\ cycles \in Int
      BY <3>1, <3>2
    <3>4. cycles - n + 1 = 1
      BY <2>2, <3>2
    <3>5. n = cycles
      BY <3>3, <3>4
    <3> QED BY <3>5 DEF cycles
  <2>4. course.inside[n + 1] = 0
    BY <2>3, CourseShape DEF Shape
  <2> QED BY <1>11, <2>4 DEF Consecutive
<1> QED BY <1>4, <1>10, <1>11, <1>12, <1>13, <1>14

----------------------------------------------------------------------------
(* The random test. *)

\* Taking the front off a deque and putting the item that came behind it.
LEMMA DequeFollows ==
  ASSUME NEW queue \in Seq(Data), NEW came \in Offered, NEW left \in BOOLEAN,
         left => queue # <<>>
  PROVE  (IF left THEN Tail(queue) ELSE queue) \o One(came) = After(queue, came, left)
<1> DEFINE q == IF left THEN 1 ELSE 0
           p == IF came # None THEN 1 ELSE 0
           rest == IF left THEN Tail(queue) ELSE queue
<1>1. q \in {0, 1} /\ p \in {0, 1} /\ Len(queue) \in Nat /\ Len(queue) >= q
  OBVIOUS
<1>2. /\ rest \in Seq(Data) /\ Len(rest) = Len(queue) - q
      /\ \A i \in 1 .. Len(rest) : rest[i] = queue[i + q]
  OBVIOUS
<1>3. came # None => came \in Data
  BY DEF Offered
<1>4. /\ One(came) \in Seq(Data) /\ Len(One(came)) = p
      /\ p = 1 => One(came)[1] = came
  BY <1>3 DEF One
<1>5. After(queue, came, left)
        = [i \in 1 .. Len(queue) + p - q |-> IF i + q <= Len(queue) THEN queue[i + q] ELSE came]
  BY DEF After
<1> HIDE DEF q, p, rest
<1>6. /\ After(queue, came, left) \in Seq(Data)
      /\ Len(After(queue, came, left)) = Len(queue) + p - q
  BY <1>4, AfterIsTransfer DEF q
<1>7. /\ rest \o One(came) \in Seq(Data)
      /\ Len(rest \o One(came)) = Len(queue) + p - q
  BY <1>1, <1>2, <1>4
<1>8. ASSUME NEW i \in 1 .. Len(queue) + p - q
      PROVE  (rest \o One(came))[i] = After(queue, came, left)[i]
  <2>1. (rest \o One(came))[i] = IF i <= Len(rest) THEN rest[i] ELSE came
    BY <1>1, <1>2, <1>4
  <2>2. After(queue, came, left)[i] = IF i + q <= Len(queue) THEN queue[i + q] ELSE came
    BY <1>5
  <2>3. CASE i <= Len(rest)
    <3>1. rest[i] = queue[i + q] /\ i + q <= Len(queue)
      BY <1>1, <1>2, <2>3
    <3> QED BY <2>1, <2>2, <2>3, <3>1
  <2>4. CASE ~(i <= Len(rest))
    <3>1. ~(i + q <= Len(queue))
      BY <1>1, <1>2, <2>4
    <3> QED BY <2>1, <2>2, <2>4, <3>1
  <2> QED BY <2>3, <2>4
<1>9. rest \o One(came) = After(queue, came, left)
  BY <1>6, <1>7, <1>8
<1> QED BY <1>9 DEF rest

\* One cycle of the random test on a FIFO: the deque goes on holding the items
\* inside, and every expectation holds.
LEMMA DequeStep ==
  ASSUME UnitInv, unit = "fifo", reference = Contents,
         NEW item \in Offered, NEW ready \in BOOLEAN, Clock(item, ready),
         reference' = (IF delivered' = <<>> THEN reference ELSE Tail(reference)) \o accepted'
  PROVE  reference' = Contents' /\ ReferenceAgrees
<1> DEFINE came == Taken(item, ready)
           left == Leaves(item, ready)
<1>1. UnitInv' /\ Contents' = After(Contents, came, left)
  BY ClockStep
<1>2. /\ Contents \in Seq(Data) /\ (Contents = <<>> <=> empty)
      /\ Contents # <<>> => Shown(item) = Contents[1]
      /\ Contents = <<>> => Shown(item) = None
  BY ContentsType, ShownIsOldest
<1>3. came \in Offered /\ left \in BOOLEAN /\ (left => Contents # <<>>)
  BY <1>2 DEF Offered, Taken, Leaves
<1>4. accepted' = One(came) /\ (delivered' = <<>> <=> ~left)
  BY DEF Clock, Taken, Leaves, One
<1> HIDE DEF came, left
<1>5. (IF left THEN Tail(Contents) ELSE Contents) \o One(came) = After(Contents, came, left)
  BY <1>2, <1>3, DequeFollows
<1>6. reference' = Contents'
  BY <1>1, <1>3, <1>4, <1>5
<1>7. unit' = "fifo"
  BY DEF Clock
<1>8. Len(Contents') = occupancy' /\ occupancy' \in 0 .. depth'
  <2>1. FifoInv' /\ Contents' = Inside' /\ Len(Inside') = occupancy'
    <3>1. (UnitInv /\ unit = "fifo" => FifoInv /\ Contents = Inside /\ Len(Inside) = occupancy)'
      <4>1. UnitInv /\ unit = "fifo" => FifoInv /\ Contents = Inside /\ Len(Inside) = occupancy
        BY ContentsOfFifo, InsideType DEF UnitInv
      <4> QED BY <4>1, ContentsOfFifo, InsideType, PTL DEF UnitInv
    <3> QED BY <1>1, <1>7, <3>1
  <2> QED BY <2>1 DEF FifoInv
<1>9. depth' = depth
  BY DEF Clock, FifoClock
<1>10. ~empty => pop_data = Head(reference)
  BY <1>2 DEF Shown
<1> QED BY <1>2, <1>6, <1>8, <1>9, <1>10 DEF ReferenceAgrees

----------------------------------------------------------------------------
(* The theorems. *)

\* The units start empty, between any source and sink.
LEMMA InitInv == Init => IInv /\ Channel!Init
<1> SUFFICES ASSUME Init PROVE IInv /\ Channel!Init
  OBVIOUS
<1>1. PICK test \in run_directed \cup {Random("fifo", size) : size \in Depths} \cup {Random("skid", 1)} :
        unit = test.unit /\ script = test.rows /\ FifoInit({test.depth})
  BY DEF Init
<1>2. /\ source = None /\ offer = None /\ accepted = <<>> /\ delivered = <<>> /\ passed = TRUE
      /\ reference = <<>> /\ SkidInit
  BY DEF Init
<1>3. /\ test.unit \in {"fifo", "skid"} /\ test.depth \in Nat \ {0}
      /\ test.unit = "skid" => test.depth = 1
      /\ test.rows = <<>> \/ \E course \in Courses : test = course.test
  <2>1. CASE test \in run_directed
    <3>1. PICK course \in Courses : test = course.test
      BY <2>1 DEF run_directed, Courses, Course, fifo_directed, depth_one, non_power_of_two, skid
    <3> QED BY <3>1, CourseShape DEF Shape
  <2>2. CASE test \in {Random("fifo", size) : size \in Depths} \cup {Random("skid", 1)}
    BY <2>2, PrimitivesAssumption DEF Random, Test
  <2> QED BY <1>1, <2>1, <2>2
<1>4. /\ depth = test.depth /\ occupancy = 0 /\ read_pointer = 0 /\ write_pointer = 0
      /\ storage = [slot \in 0 .. depth - 1 |-> None]
  BY <1>1 DEF FifoInit
<1>5. FifoInv
  BY <1>3, <1>4 DEF FifoInv, Around
<1>6. unit = "skid" => SkidInv
  BY <1>1, <1>2, <1>3, <1>4 DEF SkidInv, SkidInit
<1>7. Contents = <<>>
  BY <1>2, <1>4 DEF Contents, SkidInit
<1>8. UnitInv
  BY <1>1, <1>2, <1>3, <1>5, <1>6 DEF UnitInv, Offered
<1>9. TestInv
  <2>1. ASSUME Directed
        PROVE  \E course \in Courses : \E n \in 1 .. Len(course.test.rows) : OnCourse(course, n)
    <3>1. PICK course \in Courses : test = course.test
      BY <1>1, <1>3, <2>1 DEF Directed
    <3>2. /\ Len(test.rows) >= 1 /\ Len(test.rows) \in Nat /\ course.out[1] = 0 /\ course.inside[1] = 0
          /\ test.rows \in Seq({test.rows[i] : i \in 1 .. Len(test.rows)})
      <4>1. Shape(course)
        BY CourseShape
      <4> QED BY <3>1, <4>1 DEF Shape
    <3>3. Consecutive(0, 0) = <<>>
      BY DEF Consecutive
    <3>4. OnCourse(course, 1)
      BY <1>1, <1>4, <1>7, <3>1, <3>2, <3>3 DEF OnCourse
    <3> QED BY <3>1, <3>2, <3>4
  <2> QED BY <1>2, <1>7, <2>1 DEF TestInv
<1>10. Channel!Init
  BY <1>2, <1>3, <1>4, <1>7 DEF Channel!Init
<1> QED BY <1>8, <1>9, <1>10 DEF IInv

\* Every step keeps the invariant and is a step of the channel.
LEMMA StepInv == IInv /\ [Next]_vars => IInv' /\ [Channel!Next]_(Channel!channelVars)
<1> SUFFICES ASSUME IInv, [Next]_vars PROVE IInv' /\ [Channel!Next]_(Channel!channelVars)
  OBVIOUS
<1>1. CASE expect
  <2>1. PICK course \in Courses : \E n \in 1 .. Len(course.test.rows) : OnCourse(course, n)
    BY <1>1 DEF IInv, TestInv, expect
  <2>2. PICK n \in 1 .. Len(course.test.rows) : OnCourse(course, n)
    BY <2>1
  <2>3. /\ UnitInv' /\ Channel!Next
        /\ passed => passed'
        /\ unit' = unit /\ reference' = reference
        /\ ~Directed' => Contents' = <<>>
        /\ Directed' => n + 1 \in 1 .. Len(course.test.rows) /\ OnCourse(course, n + 1)'
    BY <1>1, <2>2, CourseStep DEF IInv, expect
  <2>4. Directed
    BY <1>1 DEF expect
  <2>5. TestInv'
    BY <2>3, <2>4 DEF IInv, TestInv
  <2> QED BY <2>3, <2>5 DEF IInv
<1>2. CASE test_fifo_random
  <2>1. PICK item \in IF source = None THEN Items \cup {None} ELSE {source}, ready \in BOOLEAN :
          Clock(item, ready)
    BY <1>2 DEF test_fifo_random
  <2>2. item \in Offered
    BY <2>1 DEF IInv, UnitInv, Offered, Data
  <2>3. UnitInv' /\ Channel!Transfer
    BY <2>1, <2>2, ClockStep DEF IInv
  <2>4. ~Directed /\ ~Directed' /\ unit' = unit
    BY <1>2, <2>1 DEF test_fifo_random, Directed, Clock
  <2>5. ASSUME unit = "fifo" PROVE TestInv'
    <3>1. /\ reference' = (IF delivered' = <<>> THEN reference ELSE Tail(reference)) \o accepted'
          /\ passed' = (passed /\ ReferenceAgrees)
      BY <1>2, <2>5 DEF test_fifo_random
    <3>2. reference = Contents
      BY <2>4, <2>5 DEF IInv, TestInv
    <3>3. reference' = Contents' /\ ReferenceAgrees
      BY <2>1, <2>2, <2>5, <3>1, <3>2, DequeStep DEF IInv
    <3> QED BY <2>4, <2>5, <3>1, <3>3 DEF IInv, TestInv
  <2>6. ASSUME unit # "fifo" PROVE TestInv'
    BY <1>2, <2>4, <2>6 DEF IInv, TestInv, test_fifo_random
  <2> QED BY <2>3, <2>5, <2>6 DEF IInv, Channel!Next
<1>3. CASE ResetAnyTime
  <2>1. UnitInv' /\ Channel!Reset
    BY <1>3, ResetStep DEF IInv, ResetAnyTime
  <2>2. TestInv'
    <3>1. Contents' = <<>>
      BY <1>3, ResetStep DEF IInv, ResetAnyTime
    <3> QED BY <1>3, <3>1 DEF IInv, TestInv, Directed, ResetAnyTime
  <2> QED BY <2>1, <2>2 DEF IInv, Channel!Next
<1>4. CASE UNCHANGED vars
  <2>1. UNCHANGED <<depth, storage, read_pointer, write_pointer, occupancy, buffer_valid, buffer_data,
                    unit, source, accepted, delivered, offer, script, reference, passed>>
    BY <1>4 DEF vars, fifoVars, skidVars
  <2>2. Contents' = Contents
    BY <2>1 DEF Contents
  <2>3. UnitInv' /\ TestInv'
    BY <2>1, <2>2 DEF IInv, UnitInv, FifoInv, SkidInv, TestInv, OnCourse, Directed
  <2> QED BY <2>1, <2>2, <2>3 DEF IInv, Channel!channelVars
<1> QED BY <1>1, <1>2, <1>3, <1>4 DEF Next

\* FIFOs of every depth and the skid buffer are lossless bounded channels, for
\* every set of data: items leave in order, also when one enters and one
\* leaves a full buffer or passes an empty one in the same cycle, and an item
\* that was offered and not taken stays on offer.
THEOREM UnitsAreChannels == Spec => ImplementsChannel
<1>1. Init => IInv /\ Channel!Init
  BY InitInv
<1>2. IInv /\ [Next]_vars => IInv' /\ [Channel!Next]_(Channel!channelVars)
  BY StepInv
<1> QED BY <1>1, <1>2, PTL DEF Spec, ImplementsChannel, Channel!Spec

\* Every expectation of the tests of the bench holds: those of the directed
\* tests in every cycle of them, and those of the random test for FIFOs of every
\* depth and data of every kind, whatever is drawn and wherever a reset starts
\* it again: what the FIFO shows is the front of the deque of the items that
\* fired, it shows nothing only when the deque is empty, and its occupancy is
\* the deque's size.
THEOREM TestsPass == Spec => []PrimitiveTestsPass
<1>1. Init => IInv
  BY InitInv
<1>2. IInv /\ [Next]_vars => IInv'
  BY StepInv
<1>3. IInv => PrimitiveTestsPass
  BY DEF IInv, TestInv, PrimitiveTestsPass
<1> QED BY <1>1, <1>2, <1>3, PTL DEF Spec
=============================================================================
