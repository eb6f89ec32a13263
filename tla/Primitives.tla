----------------------------- MODULE Primitives -----------------------------
(***************************************************************************)
(* The FIFO and the skid buffer between a source that holds an item until  *)
(* it is taken and a sink that is ready when it likes, as in               *)
(* sim/verilator/primitive_main.cpp: the random test, with every choice of *)
(* the source and the sink, and the directed tests, cycle by cycle.        *)
(***************************************************************************)
EXTENDS Integers, Sequences

CONSTANTS
  None,     \* no item on a stream (rtl/interfaces/stream_if.sv): valid is low
  Items,    \* data the source sends
  Depths,   \* depths of the FIFO
  Any       \* an output a test does not look at

\* The data of the tests and of the source.
Data == Items \cup 1 .. 6

\* validate_parameters of the FIFO, and a datum is not the absence of one.
ASSUME PrimitivesAssumption ==
  /\ Depths \subseteq Nat \ {0}
  /\ None \notin Data

----------------------------------------------------------------------------
(* The synchronous FIFO (rtl/fifo/sync_fifo.sv).  push is the item offered,  *)
(* None when push_valid is low.                                             *)

VARIABLES
  depth,                                  \* the parameter DEPTH, never changed
  storage, read_pointer, write_pointer, occupancy

fifoVars == <<depth, storage, read_pointer, write_pointer, occupancy>>

full == occupancy = depth
empty == occupancy = 0
pop_data == storage[read_pointer]

\* Faulty variant: a full FIFO takes an item although nothing leaves it.
PushWhenFull(pop_ready) == TRUE

\* Faulty variant: a full FIFO takes nothing although an item leaves it.
PushWhenSpace(pop_ready) == ~full

push_ready(pop_ready) == ~full \/ (~empty /\ pop_ready)

increment_pointer(pointer) == IF pointer = depth - 1 THEN 0 ELSE pointer + 1

\* Storage is not reset; a slot that was never written holds None.
FifoInit(depths) ==
  /\ depth \in depths
  /\ storage = [slot \in 0 .. depth - 1 |-> None]
  /\ read_pointer = 0
  /\ write_pointer = 0
  /\ occupancy = 0

FifoReset ==
  /\ read_pointer' = 0
  /\ write_pointer' = 0
  /\ occupancy' = 0
  /\ UNCHANGED <<depth, storage>>

FifoClock(push, pop_ready) ==
  LET push_fire == push # None /\ push_ready(pop_ready)
      pop_fire == ~empty /\ pop_ready
  IN  /\ storage' = IF push_fire THEN [storage EXCEPT ![write_pointer] = push] ELSE storage
      /\ write_pointer' = IF push_fire THEN increment_pointer(write_pointer) ELSE write_pointer
      /\ read_pointer' = IF pop_fire THEN increment_pointer(read_pointer) ELSE read_pointer
      /\ occupancy' = occupancy + (IF push_fire THEN 1 ELSE 0) - (IF pop_fire THEN 1 ELSE 0)
      /\ UNCHANGED depth

----------------------------------------------------------------------------
(* The skid buffer (rtl/common/skid_buffer.sv): one item of storage and a   *)
(* combinational path around it.  input is the item offered or None.        *)

VARIABLES buffer_valid, buffer_data

skidVars == <<buffer_valid, buffer_data>>

input_ready(output_ready) == ~buffer_valid \/ output_ready

\* Output item, None when output_valid is low.
output(input) == IF buffer_valid THEN buffer_data ELSE input

SkidInit ==
  /\ buffer_valid = FALSE
  /\ buffer_data = None

\* The data register is not reset.
SkidReset ==
  /\ buffer_valid' = FALSE
  /\ UNCHANGED buffer_data

SkidClock(input, output_ready) ==
  /\ buffer_valid' = IF buffer_valid
                       THEN (output_ready => input # None)
                       ELSE input # None /\ ~output_ready
  /\ buffer_data' = IF /\ input # None
                       /\ input_ready(output_ready)
                       /\ buffer_valid \/ ~output_ready
                      THEN input ELSE buffer_data

----------------------------------------------------------------------------
(* A unit between its source and its sink. *)

VARIABLES
  unit,                          \* the primitive under test
  source,                        \* item the source holds
  accepted, delivered, offer,    \* what happened at the last edge
  script,                        \* cycles of the directed test still to run
  reference,                     \* the deque the random test compares the FIFO with
  passed                         \* every expectation held so far

vars == <<fifoVars, skidVars, unit, source, accepted, delivered, offer, script, reference, passed>>

----------------------------------------------------------------------------
(* One clock edge. *)

TakesItem(ready) == IF unit = "fifo" THEN push_ready(ready) ELSE input_ready(ready)

\* The item at the output, None when there is none.
Shown(item) == IF unit = "fifo" THEN IF empty THEN None ELSE pop_data ELSE output(item)

Clock(item, ready) ==
  LET taken == item # None /\ TakesItem(ready)
      shown == Shown(item)
  IN  /\ accepted' = IF taken THEN <<item>> ELSE <<>>
      /\ delivered' = IF shown # None /\ ready THEN <<shown>> ELSE <<>>
      /\ offer' = IF ready THEN None ELSE shown
      /\ source' = IF taken THEN None ELSE item
      /\ IF unit = "fifo" THEN FifoClock(item, ready) /\ UNCHANGED skidVars
         ELSE SkidClock(item, ready) /\ UNCHANGED fifoVars
      /\ UNCHANGED unit

reset ==
  /\ accepted' = <<>>
  /\ delivered' = <<>>
  /\ offer' = None
  /\ source' = None
  /\ IF unit = "fifo" THEN FifoReset /\ UNCHANGED skidVars
     ELSE SkidReset /\ UNCHANGED fifoVars
  /\ UNCHANGED unit

----------------------------------------------------------------------------
(* Directed tests: the inputs of each cycle and the outputs expected in it, *)
(* before the edge; level is the occupancy.                              *)

Row(item, ready, takes, shows, level) ==
  [item |-> item, ready |-> ready, takes |-> takes, shows |-> shows, level |-> level,
   reset |-> FALSE]

push_fifo(item, level) == Row(item, FALSE, TRUE, Any, level)
pop_fifo(item, level) == Row(None, TRUE, Any, item, level)
ResetRow == [Row(None, FALSE, Any, Any, -1) EXCEPT !.reset = TRUE]
Look(shows, level) == Row(None, FALSE, Any, shows, level)

Test(dut, size, rows) == [unit |-> dut, depth |-> size, rows |-> rows]

test_fifo_directed ==
  Test("fifo", 4,
    <<Look(None, 0), push_fifo(1, 0), push_fifo(2, 1), push_fifo(3, 2), push_fifo(4, 3),
      Row(5, FALSE, FALSE, Any, 4), Row(5, TRUE, TRUE, 1, 4),
      pop_fifo(2, 4), pop_fifo(3, 3), pop_fifo(4, 2), pop_fifo(5, 1),
      Row(None, TRUE, Any, None, 0), push_fifo(6, 0), ResetRow, Look(None, 0)>>)

test_depth_one_fifo ==
  Test("fifo", 1,
    <<push_fifo(1, 0), Row(2, TRUE, TRUE, 1, 1), Look(2, 1), pop_fifo(2, 1), Look(None, 0)>>)

test_non_power_of_two_fifo ==
  Test("fifo", 3,
    <<push_fifo(1, 0), push_fifo(2, 1), push_fifo(3, 2),
      pop_fifo(1, 3), pop_fifo(2, 2), pop_fifo(3, 1), Look(None, 0)>>)

test_skid_buffer ==
  Test("skid", 1,
    <<Row(1, TRUE, TRUE, 1, 0), Row(2, FALSE, TRUE, 2, 0), Row(None, FALSE, FALSE, 2, 0),
      Row(3, TRUE, TRUE, 2, 0), Look(3, 0), Row(None, TRUE, Any, 3, 0), Look(None, 0)>>)

run_directed ==
  {test_fifo_directed, test_depth_one_fifo, test_non_power_of_two_fifo, test_skid_buffer}

Directed == script # <<>>

Expected(row) ==
  \/ row.reset
  \/ /\ row.takes # Any => row.takes = TakesItem(row.ready)
     /\ row.shows # Any => row.shows = Shown(row.item)
     /\ unit = "fifo" => row.level = occupancy

expect ==
  /\ Directed
  /\ LET row == Head(script)
     IN  /\ passed' = (passed /\ Expected(row))
         /\ IF row.reset THEN reset ELSE Clock(row.item, row.ready)
  /\ script' = Tail(script)
  /\ UNCHANGED reference

\* What the random test expects of the FIFO: before the edge it shows the
\* front of the deque, after it both hold as many items.
ReferenceAgrees ==
  /\ empty <=> reference = <<>>
  /\ ~empty => pop_data = Head(reference)
  /\ Len(reference') <= depth
  /\ occupancy' = Len(reference')

\* One cycle of the random test: the source may start an item, the sink may
\* be ready.  The deque follows the items that fire; the skid buffer, which
\* has no random test, runs without it.
test_fifo_random ==
  /\ ~Directed
  /\ \E item \in IF source = None THEN Items \cup {None} ELSE {source}, ready \in BOOLEAN :
       Clock(item, ready)
  /\ IF unit = "fifo"
       THEN /\ reference' = (IF delivered' = <<>> THEN reference ELSE Tail(reference)) \o accepted'
            /\ passed' = (passed /\ ReferenceAgrees)
       ELSE UNCHANGED <<reference, passed>>
  /\ UNCHANGED script

\* The fixture is reset and the random test starts again, with an empty deque.
ResetAnyTime ==
  /\ ~Directed
  /\ reset
  /\ reference' = <<>>
  /\ UNCHANGED <<script, passed>>

----------------------------------------------------------------------------

Random(dut, size) == Test(dut, size, <<>>)

Init ==
  /\ \E test \in run_directed \cup {Random("fifo", size) : size \in Depths} \cup {Random("skid", 1)} :
       /\ unit = test.unit
       /\ script = test.rows
       /\ FifoInit({test.depth})
  /\ SkidInit
  /\ source = None
  /\ accepted = <<>>
  /\ delivered = <<>>
  /\ offer = None
  /\ reference = <<>>
  /\ passed = TRUE

Next == expect \/ test_fifo_random \/ ResetAnyTime

Spec == Init /\ [][Next]_vars

----------------------------------------------------------------------------
(* Properties. *)

\* The items inside, oldest first.
Contents ==
  IF unit = "fifo" THEN [i \in 1 .. occupancy |-> storage[(read_pointer + i - 1) % depth]]
  ELSE IF buffer_valid THEN <<buffer_data>> ELSE <<>>

Channel == INSTANCE BoundedChannel
             WITH queue <- Contents, capacity <- depth, Items <- Data

\* FIFOs of every depth and the skid buffer are lossless bounded channels:
\* items leave in order, also when one enters and one leaves a full buffer or
\* passes an empty one in the same cycle, and a stalled output does not
\* change under what the source does.
ImplementsChannel == Channel!Spec

\* The directed tests of the bench pass, and the random test passes for every
\* choice of its draws and at every depth: in each cycle the FIFO shows an item
\* exactly when the deque has one, its front, and the occupancy port agrees.
PrimitiveTestsPass == passed
=============================================================================
