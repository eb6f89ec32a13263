---------------------------- MODULE CommandQueue ----------------------------
(***************************************************************************)
(* The slot-based command queue and scheduler                              *)
(* (rtl/command_queue/command_queue.sv).  One step is one clock edge: the  *)
(* combinational block is the state functions below, the clocked block is  *)
(* the action Clock, whose parameters are the values of the input ports in *)
(* that cycle.  Descriptors keep the one field the scheduler reads,        *)
(* priority_level; every other field is payload.                           *)
(***************************************************************************)
EXTENDS Integers, FiniteSets

CONSTANTS
  DEPTH,        \* number of slots
  MAXIMUM_AGE,  \* 2^AGE_WIDTH - 1, where the wait age saturates
  Commands,     \* descriptors the producer may enqueue
  Unwritten,    \* content of a slot that was never written since power-up
  Policies,     \* values SCHED_CTRL.POLICY takes
  Thresholds    \* values SCHED_CTRL starvation threshold takes

RoundRobin    == "SCHED_ROUND_ROBIN"
PriorityFirst == "SCHED_PRIORITY_FIRST"

ASSUME QueueAssumption ==
  /\ DEPTH \in Nat \ {0}
  /\ MAXIMUM_AGE \in Nat \ {0}
  /\ Unwritten \notin Commands
  /\ \A c \in Commands : c.priority_level \in Nat
  /\ Policies \subseteq {RoundRobin, PriorityFirst}
  /\ Thresholds \subseteq 0..MAXIMUM_AGE

VARIABLES
  entries,            \* descriptor storage, not reset
  valid_entries,      \* the set of occupied slots
  entry_age,          \* saturating wait age of each slot, not reset
  round_robin_index,  \* where the round-robin scan starts
  selection_locked,   \* a selection was offered and not yet taken
  locked_index,       \* the slot of that selection
  occupancy,          \* up/down counter beside the valid vector
  high_water          \* greatest occupancy since reset

queueVars == <<entries, valid_entries, entry_age, round_robin_index,
               selection_locked, locked_index, occupancy, high_water>>

Slots == 0 .. DEPTH - 1

----------------------------------------------------------------------------
(* Combinational outputs. *)

full == occupancy = DEPTH

empty == occupancy = 0

\* Faulty variant: the full check is missing.
PushWhenFull(push_valid) == push_valid

PushFire(push_valid) == push_valid /\ ~full

\* The lowest free slot.  The scan leaves 0 when it finds none.
free_index ==
  IF valid_entries = Slots
    THEN 0
    ELSE CHOOSE s \in Slots \ valid_entries :
           \A t \in Slots \ valid_entries : s <= t

\* How many steps the scan that starts at base takes to reach slot s.
ScanDistance(base, s) == IF s >= base THEN s - base ELSE s + DEPTH - base

Starved(s, threshold) == threshold # 0 /\ entry_age[s] >= threshold

OlderThan(s, t) ==
  \/ entry_age[s] > entry_age[t]
  \/ entry_age[s] = entry_age[t] /\ s < t

OutranksInPriority(s, t) ==
  \/ entries[s].priority_level > entries[t].priority_level
  \/ /\ entries[s].priority_level = entries[t].priority_level
     /\ OlderThan(s, t)

StarvedSlots(threshold) == {s \in valid_entries : Starved(s, threshold)}

\* Faulty variant: starvation is not looked at.
PriorityOnlyChoice(threshold) ==
  {s \in valid_entries : \A t \in valid_entries \ {s} : OutranksInPriority(s, t)}

\* Priority first: the oldest starved slot if there is one, else the slot
\* of the highest priority, then of the greatest age, then of lowest index.
PriorityChoice(threshold) ==
  IF StarvedSlots(threshold) # {}
    THEN {s \in StarvedSlots(threshold) :
            \A t \in StarvedSlots(threshold) \ {s} : OlderThan(s, t)}
    ELSE {s \in valid_entries :
            \A t \in valid_entries \ {s} : OutranksInPriority(s, t)}

RoundRobinChoice ==
  {s \in valid_entries :
     \A t \in valid_entries : ScanDistance(round_robin_index, s)
                                <= ScanDistance(round_robin_index, t)}

\* Faulty variant: the lock is ignored.
SelectedIgnoringLock(policy, threshold) ==
  IF policy = PriorityFirst THEN PriorityChoice(threshold) ELSE RoundRobinChoice

\* selected_found and selected_index: the set holding the selected slot,
\* empty when nothing is selected.  A lock overrides both policies.
SelectedSlot(policy, threshold) ==
  IF selection_locked THEN {locked_index} \cap valid_entries
  ELSE IF policy = PriorityFirst THEN PriorityChoice(threshold)
  ELSE RoundRobinChoice

PopValid(select_enable, policy, threshold) ==
  /\ SelectedSlot(policy, threshold) # {}
  /\ select_enable \/ selection_locked

\* The slot that leaves the queue in this cycle, if any.
PoppedSlot(select_enable, policy, threshold, pop_ready) ==
  IF PopValid(select_enable, policy, threshold) /\ pop_ready
    THEN SelectedSlot(policy, threshold)
    ELSE {}

----------------------------------------------------------------------------
(* The registers. *)

QueueInit ==
  /\ entries = [s \in Slots |-> Unwritten]
  /\ entry_age \in [Slots -> 0..MAXIMUM_AGE]
  /\ valid_entries = {}
  /\ round_robin_index = 0
  /\ selection_locked = FALSE
  /\ locked_index = 0
  /\ occupancy = 0
  /\ high_water = 0

\* rst_n low: storage and ages keep their contents.
QueueReset ==
  /\ valid_entries' = {}
  /\ round_robin_index' = 0
  /\ selection_locked' = FALSE
  /\ locked_index' = 0
  /\ occupancy' = 0
  /\ high_water' = 0
  /\ UNCHANGED <<entries, entry_age>>

\* Faulty variant: the age wraps past its maximum.
AgeWithoutLimit(s, pushed, popped) ==
  IF s \in valid_entries \ popped THEN entry_age[s] + 1
  ELSE IF s \in pushed THEN 0 ELSE entry_age[s]

\* A waiting slot ages and saturates; a pushed slot starts again from zero.
NextAge(s, pushed, popped) ==
  IF s \in valid_entries \ popped /\ entry_age[s] # MAXIMUM_AGE
    THEN entry_age[s] + 1
    ELSE IF s \in pushed THEN 0 ELSE entry_age[s]

AdvanceRoundRobin(popped) ==
  IF popped = {}
    THEN round_robin_index
    ELSE LET p == CHOOSE s \in popped : TRUE
         IN  IF p = DEPTH - 1 THEN 0 ELSE p + 1

\* Faulty variant: a push is counted although a pop happens in its cycle.
CountPushFirst(pushed, popped) ==
  /\ occupancy' = IF pushed # {} THEN occupancy + 1
                  ELSE IF popped # {} THEN occupancy - 1 ELSE occupancy
  /\ high_water' = IF pushed # {} /\ occupancy + 1 > high_water
                     THEN occupancy + 1 ELSE high_water

\* Occupancy moves only when exactly one side fires; the high-water mark
\* follows a push that is not matched by a pop.
CountOccupancy(pushed, popped) ==
  \/ /\ pushed # {} /\ popped = {}
     /\ occupancy' = occupancy + 1
     /\ high_water' = IF occupancy + 1 > high_water
                        THEN occupancy + 1 ELSE high_water
  \/ /\ pushed = {} /\ popped # {}
     /\ occupancy' = occupancy - 1
     /\ UNCHANGED high_water
  \/ /\ pushed = {} <=> popped = {}
     /\ UNCHANGED <<occupancy, high_water>>

\* Faulty variant: the dequeue does not release the lock.
LockNotReleased(offered, popped) ==
  IF offered # {} /\ popped = {}
    THEN selection_locked' = TRUE /\ locked_index' = CHOOSE s \in offered : TRUE
    ELSE UNCHANGED <<selection_locked, locked_index>>

\* An offered selection that is not taken is locked until it is.
LockSelection(offered, popped) ==
  \/ /\ offered # {} /\ popped = {}
     /\ selection_locked' = TRUE
     /\ locked_index' = CHOOSE s \in offered : TRUE
  \/ /\ popped # {}
     /\ selection_locked' = FALSE
     /\ UNCHANGED locked_index
  \/ /\ offered = {} /\ popped = {}
     /\ UNCHANGED <<selection_locked, locked_index>>

QueueClock(push_valid, push_command, select_enable, policy, threshold, pop_ready) ==
  LET pushed  == IF PushFire(push_valid) THEN {free_index} ELSE {}
      popped  == PoppedSlot(select_enable, policy, threshold, pop_ready)
      offered == IF PopValid(select_enable, policy, threshold)
                   THEN SelectedSlot(policy, threshold) ELSE {}
  IN  /\ entries' = [s \in Slots |->
                       IF s \in pushed THEN push_command ELSE entries[s]]
      /\ valid_entries' = (valid_entries \ popped) \cup pushed
      /\ entry_age' = [s \in Slots |-> NextAge(s, pushed, popped)]
      /\ round_robin_index' = AdvanceRoundRobin(popped)
      /\ CountOccupancy(pushed, popped)
      /\ LockSelection(offered, popped)

----------------------------------------------------------------------------
(* The queue on its own: every combination of inputs in every cycle. *)

\* A cycle without an enqueue leaves the push port undriven (Unwritten).
Clock ==
  \E push \in Commands \cup {Unwritten}, select_enable, pop_ready \in BOOLEAN,
     policy \in Policies, threshold \in Thresholds :
    QueueClock(push # Unwritten, push, select_enable, policy, threshold, pop_ready)

Next == Clock \/ QueueReset

Spec == QueueInit /\ [][Next]_queueVars

----------------------------------------------------------------------------
(* Properties. *)

\* Every register is in range, and a valid slot holds a descriptor that was
\* really enqueued (storage is not reset, so stale contents must not show).
TypeOK ==
  /\ entries \in [Slots -> Commands \cup {Unwritten}]
  /\ valid_entries \subseteq Slots
  /\ \A s \in valid_entries : entries[s] \in Commands
  /\ entry_age \in [Slots -> 0..MAXIMUM_AGE]
  /\ round_robin_index \in Slots
  /\ selection_locked \in BOOLEAN
  /\ locked_index \in Slots
  /\ occupancy \in 0..DEPTH
  /\ high_water \in 0..DEPTH

\* The occupancy counter counts the valid vector exactly, under every mix of
\* simultaneous push and pop.  push_ready reads the counter and free_index
\* reads the vector: if they ever disagreed, a push would overwrite slot 0.
OccupancyExact == occupancy = Cardinality(valid_entries)

\* The locked slot is occupied.  If it were not, pop_valid would stay low and
\* the lock could never be released (a_selected_entry_is_valid, and more).
LockedSelectionValid == selection_locked => locked_index \in valid_entries

\* a_high_water_tracks_occupancy; part of the inductive invariant.
HighWaterTracks == high_water >= occupancy

\* An enabled step with this policy and threshold and pop_ready low.
Stalled(policy, threshold) ==
  \E push \in Commands \cup {Unwritten} :
    QueueClock(push # Unwritten, push, TRUE, policy, threshold, FALSE)

\* The first cycle in which an offer is not taken locks the slot shown and
\* leaves its descriptor there, whatever is pushed.
FirstStallLocks ==
  ~selection_locked =>
    \A policy \in Policies, threshold \in Thresholds :
      PopValid(TRUE, policy, threshold) /\ Stalled(policy, threshold) =>
        /\ selection_locked' /\ locked_index' \in valid_entries'
        /\ SelectedSlot(policy, threshold) = {locked_index'}
        /\ entries'[locked_index'] = entries[locked_index']

\* A locked selection is withdrawn by nothing but its own dequeue or a reset.
LockedStays ==
  selection_locked /\ ~QueueReset =>
    /\ entries'[locked_index] = entries[locked_index]
    /\ \/ selection_locked' /\ locked_index' = locked_index
       \/ ~selection_locked' /\ valid_entries \ valid_entries' = {locked_index}

\* An offer that is not taken stays, from its first stalled cycle until it is
\* dequeued: enqueues, ageing, policy, threshold and enable changes leave the
\* offered descriptor in place (a_output_stable_while_stalled).
OfferHeld == [][FirstStallLocks /\ LockedStays]_queueVars

----------------------------------------------------------------------------
(* The bounded bag of descriptors the queue implements. *)

\* The slots where a descriptor waits.
Waiting(c) == {s \in valid_entries : entries[s] = c}

Pool == INSTANCE CommandPool WITH
  NoCommand <- Unwritten,
  pool <- [c \in Commands |-> Cardinality(Waiting(c))],
  offered <- IF selection_locked THEN entries[locked_index] ELSE Unwritten,
  size <- occupancy

\* The queue implements the bag: no descriptor is lost, duplicated, replaced
\* or admitted beyond DEPTH by any interleaving of push, pop, stall, policy
\* change and reset, and the offered descriptor is the one that leaves.
ImplementsPool == Pool!PoolSpec
=============================================================================
