------------------------- MODULE CommandPathProofs --------------------------
(***************************************************************************)
(* The command queue for every depth, age width, descriptor set, policy    *)
(* set and threshold set: its invariants, the bag it implements, and how   *)
(* long a descriptor can be overtaken.  Then the command path for every    *)
(* executor behaviour: each response is announced once, and every admitted *)
(* descriptor is answered exactly once under its own tags.                 *)
(***************************************************************************)
EXTENDS CommandPath, SchedulerFairness, FiniteSetTheorems, WellFoundedInduction, TLAPS

----------------------------------------------------------------------------
(* The queue. *)

\* The inductive invariant.  TypeOK alone is not inductive: occupancy stays in
\* range only because it counts the valid slots, a push finds a free slot only
\* because of that, and a pop takes an occupied slot only because the lock
\* points at one.
IInv ==
  /\ TypeOK
  /\ OccupancyExact
  /\ LockedSelectionValid
  /\ HighWaterTracks

\* Slots and every set of slots are finite, and DEPTH counts the slots.
LEMMA SlotsFinite ==
  /\ IsFiniteSet(Slots)
  /\ Cardinality(Slots) = DEPTH
  /\ \A S \in SUBSET Slots : IsFiniteSet(S) /\ Cardinality(S) \in 0..DEPTH
<1> USE QueueAssumption
<1>1. IsFiniteSet(Slots) /\ Cardinality(Slots) = DEPTH
  BY FS_Interval DEF Slots
<1>2. \A S \in SUBSET Slots : IsFiniteSet(S) /\ Cardinality(S) \in 0..DEPTH
  BY <1>1, FS_Subset, FS_CardinalityType
<1> QED BY <1>1, <1>2

\* Every non-empty set of slots has a least element: the scan for the lowest
\* free slot finds one.
LEMMA LeastSlot ==
  ASSUME NEW S \in SUBSET Slots, S # {}
  PROVE  \E s \in S : \A t \in S : s <= t
<1>1. Slots \subseteq Nat
  BY QueueAssumption DEF Slots
<1>2. PICK s \in S : \A t \in S : ~ (<<t, s>> \in OpToRel(<, Nat))
  BY <1>1, NatLessThanWellFounded, WFMin
<1>3. \A t \in S : ~ (t < s)
  BY <1>1, <1>2 DEF OpToRel
<1>4. \A t \in S : s \in Nat /\ t \in Nat
  BY <1>1
<1>5. \A t \in S : s <= t
  BY <1>3, <1>4
<1> QED BY <1>5

\* While the valid vector is not full, free_index names a free slot.
LEMMA FreeIndexIsFree ==
  ASSUME valid_entries \subseteq Slots, valid_entries # Slots
  PROVE  free_index \in Slots \ valid_entries
<1>1. \E s \in Slots \ valid_entries : \A t \in Slots \ valid_entries : s <= t
  BY LeastSlot
<1> QED BY <1>1 DEF free_index

\* At most one slot is selected, it is valid, and a lock selects its own slot.
LEMMA SelectionSound ==
  ASSUME IInv, NEW pol, NEW limit
  PROVE  LET selected == SelectedSlot(pol, limit)
         IN  /\ selected \subseteq valid_entries
             /\ \A s, t \in selected : s = t
             /\ selection_locked => selected = {locked_index}
<1> DEFINE selected == SelectedSlot(pol, limit)
<1> USE QueueAssumption DEF IInv, TypeOK
<1>1. CASE selection_locked
  BY <1>1 DEF SelectedSlot, LockedSelectionValid
<1>2. CASE ~selection_locked /\ pol = PriorityFirst
  <2>1. selected = PriorityChoice(limit)
    BY <1>2 DEF SelectedSlot
  <2>2. PriorityChoice(limit) \subseteq valid_entries
    BY DEF PriorityChoice, StarvedSlots
  <2>3. \A s \in valid_entries : /\ s \in Int
                                 /\ entry_age[s] \in Int
                                 /\ entries[s].priority_level \in Int
    BY DEF Slots
  <2>4. \A s, t \in valid_entries : ~(OlderThan(s, t) /\ OlderThan(t, s))
    BY <2>3 DEF OlderThan
  <2>5. \A s, t \in valid_entries :
          ~(OutranksInPriority(s, t) /\ OutranksInPriority(t, s))
    BY <2>3, <2>4 DEF OutranksInPriority
  <2>6. \A s, t \in PriorityChoice(limit) : s = t
    BY <2>2, <2>4, <2>5 DEF PriorityChoice, StarvedSlots
  <2> QED BY <1>2, <2>1, <2>2, <2>6
<1>3. CASE ~selection_locked /\ pol # PriorityFirst
  <2>1. selected = RoundRobinChoice
    BY <1>3 DEF SelectedSlot
  <2>2. \A s, t \in Slots : /\ ScanDistance(round_robin_index, s) \in Int
                            /\ ScanDistance(round_robin_index, s)
                                 = ScanDistance(round_robin_index, t) => s = t
    BY DEF ScanDistance, Slots
  <2>3. \A s, t \in RoundRobinChoice : s = t
    BY <2>2 DEF RoundRobinChoice
  <2> QED BY <1>3, <2>1, <2>3 DEF RoundRobinChoice
<1> QED BY <1>1, <1>2, <1>3

\* The offer is one valid slot, if there is one.
LEMMA OfferSound ==
  ASSUME IInv, NEW select_enable, NEW pol, NEW limit
  PROVE  LET offered == IF PopValid(select_enable, pol, limit)
                          THEN SelectedSlot(pol, limit) ELSE {}
         IN  offered = {} \/ \E p \in valid_entries : offered = {p}
<1> DEFINE selected == SelectedSlot(pol, limit)
<1>1. selected \subseteq valid_entries /\ \A s, t \in selected : s = t
  BY SelectionSound
<1> HIDE DEF selected
<1>2. selected = {} \/ \E p \in valid_entries : selected = {p}
  BY <1>1
<1> QED BY <1>2 DEF selected

\* What one clock edge pushes, pops and offers, in an invariant state.
LEMMA PortsSound ==
  ASSUME IInv, NEW push_valid \in BOOLEAN, NEW select_enable \in BOOLEAN,
         NEW pol, NEW limit, NEW pop_ready \in BOOLEAN
  PROVE  LET pushed  == IF PushFire(push_valid) THEN {free_index} ELSE {}
             popped  == PoppedSlot(select_enable, pol, limit, pop_ready)
             offered == IF PopValid(select_enable, pol, limit)
                          THEN SelectedSlot(pol, limit) ELSE {}
         IN  /\ pushed = {} \/ \E f \in Slots \ valid_entries : pushed = {f}
             /\ offered = {} \/ \E p \in valid_entries : offered = {p}
             /\ popped = {} \/ (popped = offered /\ popped # {})
             /\ selection_locked => offered = {locked_index}
<1> DEFINE pushed  == IF PushFire(push_valid) THEN {free_index} ELSE {}
           popped  == PoppedSlot(select_enable, pol, limit, pop_ready)
           offered == IF PopValid(select_enable, pol, limit)
                        THEN SelectedSlot(pol, limit) ELSE {}
           selected == SelectedSlot(pol, limit)
<1>1. ASSUME PushFire(push_valid) PROVE free_index \in Slots \ valid_entries
  <2>1. valid_entries \subseteq Slots /\ Cardinality(valid_entries) # DEPTH
    BY <1>1 DEF PushFire, full, IInv, OccupancyExact, TypeOK
  <2>2. valid_entries # Slots
    BY <2>1, SlotsFinite
  <2> QED BY <2>1, <2>2, FreeIndexIsFree
<1>2. /\ selected \subseteq valid_entries
      /\ \A s, t \in selected : s = t
      /\ selection_locked => selected = {locked_index}
  BY SelectionSound
<1>3. selected = {} \/ \E p \in valid_entries : selected = {p}
  <2>1. CASE selected # {}
    <3>1. PICK p \in selected : TRUE
      BY <2>1
    <3>2. selected = {p} /\ p \in valid_entries
      BY <1>2, <3>1
    <3> QED BY <3>2
  <2> QED BY <2>1
<1>4. pushed = {} \/ \E f \in Slots \ valid_entries : pushed = {f}
  BY <1>1
<1>5. offered = {} \/ \E p \in valid_entries : offered = {p}
  BY <1>3
<1>6. popped = {} \/ (popped = offered /\ popped # {})
  BY DEF PoppedSlot, PopValid
<1>7. selection_locked => offered = {locked_index}
  BY <1>2 DEF PopValid
<1> QED BY <1>4, <1>5, <1>6, <1>7

\* The cardinality of the valid vector after one push and one pop.
LEMMA CardinalityStep ==
  ASSUME NEW V \in SUBSET Slots, NEW pushed, NEW popped,
         pushed = {} \/ \E f \in Slots \ V : pushed = {f},
         popped = {} \/ \E p \in V : popped = {p}
  PROVE  /\ (V \ popped) \cup pushed \in SUBSET Slots
         /\ Cardinality((V \ popped) \cup pushed)
              = Cardinality(V) + (IF pushed = {} THEN 0 ELSE 1)
                               - (IF popped = {} THEN 0 ELSE 1)
<1>1. IsFiniteSet(V) /\ Cardinality(V) \in Nat
  BY SlotsFinite, FS_CardinalityType
<1>2. /\ V \ popped \subseteq Slots
      /\ IsFiniteSet(V \ popped)
      /\ Cardinality(V \ popped) = Cardinality(V) - (IF popped = {} THEN 0 ELSE 1)
  <2>1. CASE popped = {}
    <3>1. V \ popped = V
      BY <2>1
    <3> QED BY <1>1, <2>1, <3>1
  <2>2. CASE popped # {}
    <3>1. PICK p \in V : popped = {p}
      BY <2>2
    <3>2. Cardinality(V \ {p}) = Cardinality(V) - 1 /\ IsFiniteSet(V \ {p})
      BY <1>1, <3>1, FS_RemoveElement
    <3> QED BY <2>2, <3>1, <3>2
  <2> QED BY <2>1, <2>2
<1>3. Cardinality(V \ popped) \in Nat
  BY <1>2, FS_CardinalityType
<1>4. CASE pushed = {}
  <2>1. (V \ popped) \cup pushed = V \ popped
    BY <1>4
  <2> QED BY <1>1, <1>2, <1>4, <2>1
<1>5. CASE pushed # {}
  <2>1. PICK f \in Slots \ V : pushed = {f}
    BY <1>5
  <2>2. f \notin V \ popped
    BY <2>1
  <2>3. Cardinality((V \ popped) \cup {f}) = Cardinality(V \ popped) + 1
    BY <1>2, <2>2, FS_AddElement
  <2> QED BY <1>1, <1>2, <1>3, <1>5, <2>1, <2>3
<1> QED BY <1>4, <1>5

\* One clock edge preserves the invariant.
LEMMA ClockPreserves ==
  ASSUME IInv, NEW push_valid \in BOOLEAN, NEW push_command,
         push_valid => push_command \in Commands,
         NEW select_enable \in BOOLEAN, NEW pol, NEW limit,
         NEW pop_ready \in BOOLEAN,
         QueueClock(push_valid, push_command, select_enable, pol, limit, pop_ready)
  PROVE  IInv'
<1> DEFINE pushed  == IF PushFire(push_valid) THEN {free_index} ELSE {}
           popped  == PoppedSlot(select_enable, pol, limit, pop_ready)
           offered == IF PopValid(select_enable, pol, limit)
                        THEN SelectedSlot(pol, limit) ELSE {}
<1>1. /\ pushed = {} \/ \E f \in Slots \ valid_entries : pushed = {f}
      /\ offered = {} \/ \E p \in valid_entries : offered = {p}
      /\ popped = {} \/ (popped = offered /\ popped # {})
      /\ selection_locked => offered = {locked_index}
  BY PortsSound
<1>2. /\ entries' = [s \in Slots |->
                       IF s \in pushed THEN push_command ELSE entries[s]]
      /\ valid_entries' = (valid_entries \ popped) \cup pushed
      /\ entry_age' = [s \in Slots |-> NextAge(s, pushed, popped)]
      /\ round_robin_index' = AdvanceRoundRobin(popped)
      /\ CountOccupancy(pushed, popped)
      /\ LockSelection(offered, popped)
  BY DEF QueueClock
<1>3. popped = {} \/ \E p \in valid_entries : popped = {p}
  BY <1>1
<1>4. pushed # {} => push_command \in Commands
  BY DEF PushFire
<1> HIDE DEF pushed, popped, offered
<1> USE DEF IInv, TypeOK
<1>5. /\ valid_entries' \subseteq Slots
      /\ Cardinality(valid_entries') = Cardinality(valid_entries)
           + (IF pushed = {} THEN 0 ELSE 1) - (IF popped = {} THEN 0 ELSE 1)
  BY <1>1, <1>2, <1>3, CardinalityStep
<1>6. /\ entries' \in [Slots -> Commands \cup {Unwritten}]
      /\ \A s \in valid_entries' : entries'[s] \in Commands
  BY <1>1, <1>2, <1>4, <1>5
<1>7. entry_age' \in [Slots -> 0..MAXIMUM_AGE]
  <2>1. \A s \in Slots : NextAge(s, pushed, popped) \in 0..MAXIMUM_AGE
    BY QueueAssumption DEF NextAge
  <2> QED BY <1>2, <2>1
<1>8. round_robin_index' \in Slots
  BY <1>2, <1>3, QueueAssumption DEF AdvanceRoundRobin, Slots
<1>9. occupancy' = Cardinality(valid_entries')
  BY <1>2, <1>5 DEF CountOccupancy, OccupancyExact
<1>10. occupancy' \in 0..DEPTH
  BY <1>5, <1>9, SlotsFinite
<1>11. high_water' \in 0..DEPTH /\ high_water' >= occupancy'
  BY <1>2, <1>10, QueueAssumption DEF CountOccupancy, HighWaterTracks
<1>12. /\ selection_locked' \in BOOLEAN
       /\ locked_index' \in Slots
       /\ selection_locked' => locked_index' \in valid_entries'
  <2>1. CASE popped = {} /\ offered # {}
    <3>1. PICK p \in valid_entries : offered = {p}
      BY <1>1, <2>1
    <3>2. (CHOOSE s \in offered : TRUE) = p
      BY <3>1
    <3>3. selection_locked' = TRUE /\ locked_index' = p
      BY <1>2, <2>1, <3>2 DEF LockSelection
    <3>4. p \in valid_entries' /\ p \in Slots
      BY <1>2, <2>1, <3>1
    <3> QED BY <3>3, <3>4
  <2>2. CASE popped # {}
    <3>1. selection_locked' = FALSE /\ locked_index' = locked_index
      BY <1>2, <2>2 DEF LockSelection
    <3> QED BY <3>1
  <2>3. CASE popped = {} /\ offered = {}
    <3>1. selection_locked' = selection_locked /\ locked_index' = locked_index
      BY <1>2, <2>3 DEF LockSelection
    <3>2. ~selection_locked
      BY <1>1, <2>3
    <3> QED BY <3>1, <3>2
  <2> QED BY <2>1, <2>2, <2>3
<1> QED BY <1>5, <1>6, <1>7, <1>8, <1>9, <1>10, <1>11, <1>12
        DEF OccupancyExact, LockedSelectionValid, HighWaterTracks

\* The invariant holds initially and is preserved by every step.
LEMMA InvariantInductive ==
  /\ QueueInit => IInv
  /\ IInv /\ [Next]_queueVars => IInv'
<1> USE QueueAssumption
<1>1. ASSUME QueueInit PROVE IInv
  <2>1. 0 \in Slots /\ 0 \in 0..DEPTH
    BY DEF Slots
  <2>2. TypeOK
    <3>1. entries \in [Slots -> Commands \cup {Unwritten}]
      BY <1>1 DEF QueueInit
    <3>2. selection_locked \in BOOLEAN
      BY <1>1 DEF QueueInit
    <3> QED BY <1>1, <2>1, <3>1, <3>2 DEF QueueInit, TypeOK
  <2>3. Cardinality({}) = 0
    BY FS_EmptySet
  <2> QED BY <1>1, <2>2, <2>3 DEF QueueInit, IInv, OccupancyExact,
                                  LockedSelectionValid, HighWaterTracks
<1>2. ASSUME IInv, [Next]_queueVars PROVE IInv'
  <2>1. CASE Clock
    <3>1. PICK push \in Commands \cup {Unwritten}, select_enable \in BOOLEAN,
               pop_ready \in BOOLEAN, pol \in Policies, limit \in Thresholds :
            QueueClock(push # Unwritten, push, select_enable, pol, limit, pop_ready)
      BY <2>1 DEF Clock
    <3>2. (push # Unwritten) \in BOOLEAN /\ (push # Unwritten => push \in Commands)
      OBVIOUS
    <3> QED BY <1>2, <3>1, <3>2, ClockPreserves
  <2>2. CASE QueueReset
    <3>1. 0 \in Slots /\ 0 \in 0..DEPTH /\ 0 >= 0
      BY DEF Slots
    <3>2. Cardinality({}) = 0
      BY FS_EmptySet
    <3>3. selection_locked' \in BOOLEAN
      BY <2>2 DEF QueueReset
    <3>4. TypeOK'
      BY <1>2, <2>2, <3>1, <3>3 DEF QueueReset, IInv, TypeOK
    <3> QED BY <2>2, <3>1, <3>2, <3>4 DEF QueueReset, IInv, OccupancyExact,
                                      LockedSelectionValid, HighWaterTracks
  <2>3. CASE UNCHANGED queueVars
    BY <1>2, <2>3 DEF queueVars, IInv, TypeOK, OccupancyExact, LockedSelectionValid,
                      HighWaterTracks
  <2> QED BY <1>2, <2>1, <2>2, <2>3 DEF Next
<1> QED BY <1>1, <1>2

\* Every register of the queue stays in range, and no slot that is marked
\* valid ever shows storage that was not written by an enqueue.
THEOREM TypeCorrect == Spec => []TypeOK
<1>1. IInv => TypeOK
  BY DEF IInv
<1> QED BY <1>1, InvariantInductive, PTL DEF Spec

\* The occupancy counter and the valid vector agree for ever, so a push never
\* overwrites a waiting descriptor and a pop never underflows.
THEOREM OccupancyCorrect == Spec => []OccupancyExact
<1>1. IInv => OccupancyExact
  BY DEF IInv
<1> QED BY <1>1, InvariantInductive, PTL DEF Spec

\* A locked selection always points at a waiting descriptor.
THEOREM LockCorrect == Spec => []LockedSelectionValid
<1>1. IInv => LockedSelectionValid
  BY DEF IInv
<1> QED BY <1>1, InvariantInductive, PTL DEF Spec

\* One clock edge leaves a locked descriptor in place or dequeues it.
LEMMA ClockHoldsOffer ==
  ASSUME IInv, selection_locked, NEW push_valid \in BOOLEAN, NEW push_command,
         NEW select_enable \in BOOLEAN, NEW pol, NEW limit,
         NEW pop_ready \in BOOLEAN,
         QueueClock(push_valid, push_command, select_enable, pol, limit, pop_ready)
  PROVE  LockedStays
<1> DEFINE pushed  == IF PushFire(push_valid) THEN {free_index} ELSE {}
           popped  == PoppedSlot(select_enable, pol, limit, pop_ready)
           offered == IF PopValid(select_enable, pol, limit)
                        THEN SelectedSlot(pol, limit) ELSE {}
<1>1. /\ pushed = {} \/ \E f \in Slots \ valid_entries : pushed = {f}
      /\ popped = {} \/ (popped = offered /\ popped # {})
      /\ offered = {locked_index}
  BY PortsSound
<1>2. /\ entries' = [s \in Slots |-> IF s \in pushed THEN push_command ELSE entries[s]]
      /\ valid_entries' = (valid_entries \ popped) \cup pushed
      /\ LockSelection(offered, popped)
  BY DEF QueueClock
<1> HIDE DEF pushed, popped, offered
<1>3. locked_index \in valid_entries /\ locked_index \in Slots
  BY DEF IInv, LockedSelectionValid, TypeOK
<1>4. entries'[locked_index] = entries[locked_index]
  BY <1>1, <1>2, <1>3
<1>5. CASE popped = {}
  BY <1>1, <1>2, <1>4, <1>5 DEF LockSelection, LockedStays
<1>6. CASE popped # {}
  BY <1>1, <1>2, <1>3, <1>4, <1>6 DEF LockSelection, LockedStays
<1> QED BY <1>5, <1>6

\* A clock edge in which an offer is not taken locks it where it is.
LEMMA StallLocksOffer ==
  ASSUME IInv, NEW pol, NEW limit, PopValid(TRUE, pol, limit), Stalled(pol, limit)
  PROVE  /\ selection_locked' /\ locked_index' \in valid_entries'
         /\ SelectedSlot(pol, limit) = {locked_index'}
         /\ entries'[locked_index'] = entries[locked_index']
<1>1. PICK push \in Commands \cup {Unwritten} :
        QueueClock(push # Unwritten, push, TRUE, pol, limit, FALSE)
  BY DEF Stalled
<1>2. PICK select_enable \in BOOLEAN, pop_ready \in BOOLEAN :
        /\ select_enable /\ ~pop_ready
        /\ PopValid(select_enable, pol, limit)
        /\ QueueClock(push # Unwritten, push, select_enable, pol, limit, pop_ready)
  BY <1>1
<1> DEFINE push_valid == push # Unwritten
           pushed  == IF PushFire(push_valid) THEN {free_index} ELSE {}
           popped  == PoppedSlot(select_enable, pol, limit, pop_ready)
           offered == IF PopValid(select_enable, pol, limit)
                        THEN SelectedSlot(pol, limit) ELSE {}
<1>3. /\ pushed = {} \/ \E f \in Slots \ valid_entries : pushed = {f}
      /\ \E p \in valid_entries : offered = {p}
  <2>1. push_valid \in BOOLEAN
    OBVIOUS
  <2>2. offered # {}
    BY <1>2 DEF PopValid
  <2> HIDE DEF push_valid
  <2>3. /\ pushed = {} \/ \E f \in Slots \ valid_entries : pushed = {f}
        /\ offered = {} \/ \E p \in valid_entries : offered = {p}
        /\ popped = {} \/ (popped = offered /\ popped # {})
        /\ selection_locked => offered = {locked_index}
    BY <2>1, PortsSound
  <2> HIDE DEF pushed, popped, offered
  <2> QED BY <2>2, <2>3
<1>4. popped = {} /\ offered = SelectedSlot(pol, limit)
  BY <1>2 DEF PoppedSlot
<1>5. /\ entries' = [s \in Slots |-> IF s \in pushed THEN push ELSE entries[s]]
      /\ valid_entries' = (valid_entries \ popped) \cup pushed
      /\ LockSelection(offered, popped)
  BY <1>2 DEF QueueClock
<1> HIDE DEF pushed, popped, offered
<1>6. PICK p \in valid_entries : offered = {p}
  BY <1>3
<1>7. selection_locked' /\ locked_index' = p
  BY <1>4, <1>5, <1>6 DEF LockSelection
<1>8. p \in Slots
  BY DEF IInv, TypeOK
<1> QED BY <1>3, <1>4, <1>5, <1>6, <1>7, <1>8

\* An offered descriptor is withdrawn by nothing but its own dequeue, from the
\* first cycle in which it is not taken.
THEOREM OfferHeldCorrect == Spec => OfferHeld
<1>1. IInv /\ [Next]_queueVars => [FirstStallLocks /\ LockedStays]_queueVars
  <2>1. ASSUME IInv, Clock, selection_locked PROVE LockedStays
    <3>1. PICK push \in Commands \cup {Unwritten}, select_enable \in BOOLEAN,
               pop_ready \in BOOLEAN, pol \in Policies, limit \in Thresholds :
            QueueClock(push # Unwritten, push, select_enable, pol, limit, pop_ready)
      BY <2>1 DEF Clock
    <3> QED BY <2>1, <3>1, ClockHoldsOffer
  <2>2. ~selection_locked \/ QueueReset => LockedStays
    BY DEF LockedStays
  <2>3. ASSUME IInv PROVE FirstStallLocks
    BY <2>3, StallLocksOffer DEF FirstStallLocks
  <2> QED BY <2>1, <2>2, <2>3 DEF Next
<1> QED BY <1>1, InvariantInductive, PTL DEF Spec, OfferHeld

----------------------------------------------------------------------------
(* The queue implements the bounded bag of module CommandPool. *)

\* A descriptor that waits in a valid slot is counted.
LEMMA WaitingCounted ==
  ASSUME IInv, NEW p \in valid_entries
  PROVE  entries[p] \in Commands /\ Cardinality(Waiting(entries[p])) > 0
<1>1. valid_entries \in SUBSET Slots /\ entries[p] \in Commands
  BY DEF IInv, TypeOK
<1>2. Waiting(entries[p]) \in SUBSET Slots /\ p \in Waiting(entries[p])
  BY <1>1 DEF Waiting
<1>3. IsFiniteSet(Waiting(entries[p])) /\ Cardinality(Waiting(entries[p])) \in Nat
  BY <1>2, SlotsFinite, FS_CardinalityType
<1>4. Cardinality(Waiting(entries[p])) # 0
  BY <1>2, <1>3, FS_EmptySet
<1> QED BY <1>1, <1>3, <1>4

\* One clock edge moves at most one descriptor in and one out of the bag.
LEMMA ClockExchanges ==
  ASSUME IInv, NEW push \in Commands \cup {Unwritten},
         NEW select_enable \in BOOLEAN, NEW pol, NEW limit,
         NEW pop_ready \in BOOLEAN,
         QueueClock(push # Unwritten, push, select_enable, pol, limit, pop_ready)
  PROVE  \E put, take \in {{}} \cup {{c} : c \in Commands} : Pool!Exchange(put, take)
<1> DEFINE push_valid == push # Unwritten
           pushed  == IF PushFire(push_valid) THEN {free_index} ELSE {}
           popped  == PoppedSlot(select_enable, pol, limit, pop_ready)
           chosen  == IF PopValid(select_enable, pol, limit)
                        THEN SelectedSlot(pol, limit) ELSE {}
           put     == IF pushed = {} THEN {} ELSE {push}
           take    == {entries[p] : p \in popped}
<1>1. /\ pushed = {} \/ \E f \in Slots \ valid_entries : pushed = {f}
      /\ chosen = {} \/ \E p \in valid_entries : chosen = {p}
      /\ popped = {} \/ (popped = chosen /\ popped # {})
      /\ selection_locked => chosen = {locked_index}
  <2>1. push_valid \in BOOLEAN
    OBVIOUS
  <2> HIDE DEF push_valid
  <2> QED BY <2>1, PortsSound
<1>2. /\ entries' = [s \in Slots |-> IF s \in pushed THEN push ELSE entries[s]]
      /\ valid_entries' = (valid_entries \ popped) \cup pushed
      /\ CountOccupancy(pushed, popped)
      /\ LockSelection(chosen, popped)
  BY DEF QueueClock
<1>3. popped = {} \/ \E p \in valid_entries : popped = {p}
  BY <1>1
<1>4. pushed # {} => push \in Commands /\ occupancy # DEPTH
  BY DEF PushFire, full
<1> HIDE DEF push_valid, pushed, popped, chosen
<1>5. /\ valid_entries \in SUBSET Slots
      /\ \A s \in valid_entries : entries[s] \in Commands
      /\ occupancy \in 0 .. DEPTH
      /\ DEPTH \in Nat
      /\ Unwritten \notin Commands
      /\ selection_locked => locked_index \in valid_entries
  BY QueueAssumption DEF IInv, TypeOK, LockedSelectionValid
<1>6. put \in {{}} \cup {{c} : c \in Commands} /\ take \in {{}} \cup {{c} : c \in Commands}
  <2>1. put \in {{}} \cup {{c} : c \in Commands}
    BY <1>4
  <2>2. CASE popped = {}
    <3>1. take = {}
      BY <2>2
    <3> QED BY <2>1, <3>1
  <2>3. CASE popped # {}
    <3>1. PICK p \in valid_entries : popped = {p}
      BY <1>3, <2>3
    <3>2. take = {entries[p]} /\ entries[p] \in Commands
      BY <1>5, <3>1
    <3> QED BY <2>1, <3>2
  <2> QED BY <2>2, <2>3
<1>7. put # {} => occupancy < DEPTH
  BY <1>4, <1>5
<1>8. \A c \in take : /\ [d \in Commands |-> Cardinality(Waiting(d))][c] > 0
                      /\ (IF selection_locked THEN entries[locked_index] ELSE Unwritten)
                           \in {Unwritten, c}
  <2> SUFFICES ASSUME NEW p \in popped
               PROVE  /\ [d \in Commands |-> Cardinality(Waiting(d))][entries[p]] > 0
                      /\ selection_locked => locked_index = p
    OBVIOUS
  <2>1. p \in valid_entries /\ popped = {p}
    BY <1>3
  <2> QED BY <1>1, <2>1, WaitingCounted
<1>9. \A c \in Commands : Cardinality(Waiting(c)') = Cardinality(Waiting(c))
          + (IF c \in put THEN 1 ELSE 0) - (IF c \in take THEN 1 ELSE 0)
  <2> SUFFICES ASSUME NEW c \in Commands
               PROVE  Cardinality(Waiting(c)') = Cardinality(Waiting(c))
                        + (IF c \in put THEN 1 ELSE 0) - (IF c \in take THEN 1 ELSE 0)
    OBVIOUS
  <2> DEFINE V == Waiting(c)
             came == IF push = c THEN pushed ELSE {}
             left == {p \in popped : entries[p] = c}
  <2>1. V \in SUBSET Slots /\ Cardinality(V) \in Nat
    BY <1>5, SlotsFinite, FS_CardinalityType DEF Waiting
  <2>2. came = {} \/ \E f \in Slots \ V : came = {f}
    BY <1>1 DEF Waiting
  <2>3. left = {} \/ \E p \in V : left = {p}
    BY <1>3 DEF Waiting
  <2>4. Waiting(c)' = (V \ left) \cup came
    BY <1>1, <1>2, <1>3, <1>5 DEF Waiting
  <2>5. (c \in put <=> came # {}) /\ (c \in take <=> left # {})
    OBVIOUS
  <2> HIDE DEF V, came, left, put, take
  <2>6. Cardinality((V \ left) \cup came)
          = Cardinality(V) + (IF came = {} THEN 0 ELSE 1) - (IF left = {} THEN 0 ELSE 1)
    BY <2>1, <2>2, <2>3, CardinalityStep
  <2> QED BY <2>4, <2>5, <2>6 DEF V
<1>10. occupancy' = occupancy + (IF put # {} THEN 1 ELSE 0) - (IF take # {} THEN 1 ELSE 0)
  <2>1. (put # {} <=> pushed # {}) /\ (take # {} <=> popped # {})
    OBVIOUS
  <2> HIDE DEF put, take
  <2> QED BY <1>2, <1>5, <2>1 DEF CountOccupancy
<1> DEFINE bag    == [c \in Commands |-> Cardinality(Waiting(c))]
           locked == IF selection_locked THEN entries[locked_index] ELSE Unwritten
<1>11. IF take # {} THEN locked' = Unwritten
       ELSE IF locked # Unwritten THEN locked' = locked
       ELSE locked' = Unwritten \/ (locked' \in Commands /\ bag[locked'] > 0)
  <2>1. CASE popped # {}
    <3>1. take # {} /\ ~selection_locked'
      BY <1>2, <2>1 DEF LockSelection
    <3> QED BY <3>1
  <2>2. CASE popped = {} /\ chosen # {}
    <3>1. PICK p \in valid_entries : chosen = {p}
      BY <1>1, <2>2
    <3>2. (CHOOSE s \in chosen : TRUE) = p
      BY <3>1
    <3>3. selection_locked' /\ locked_index' = p /\ take = {}
      BY <1>2, <2>2, <3>2 DEF LockSelection
    <3>4. entries'[p] = entries[p] /\ entries[p] \in Commands
      BY <1>1, <1>2, <1>5, <3>1
    <3>5. selection_locked => locked_index = p
      BY <1>1, <3>1
    <3>6. Cardinality(Waiting(entries[p])) > 0
      BY WaitingCounted
    <3>7. locked' = entries[p] /\ bag[entries[p]] > 0
      BY <3>3, <3>4, <3>6
    <3> HIDE DEF bag
    <3> QED BY <1>5, <3>3, <3>4, <3>5, <3>7
  <2>3. CASE popped = {} /\ chosen = {}
    <3>1. ~selection_locked /\ ~selection_locked' /\ take = {}
      BY <1>1, <1>2, <2>3 DEF LockSelection
    <3> QED BY <3>1
  <2> QED BY <2>1, <2>2, <2>3
<1>12. bag' = [c \in Commands |-> bag[c] + (IF c \in put THEN 1 ELSE 0)
                                          - (IF c \in take THEN 1 ELSE 0)]
  <2>1. \A c \in Commands : bag[c] = Cardinality(Waiting(c))
    OBVIOUS
  <2>2. bag' = [c \in Commands |-> Cardinality(Waiting(c)')]
    OBVIOUS
  <2> HIDE DEF bag, put, take
  <2> QED BY <1>9, <2>1, <2>2
<1> HIDE DEF put, take
<1>13. Pool!Exchange(put, take)
  BY <1>7, <1>8, <1>10, <1>11, <1>12 DEF Pool!Exchange, Pool!One
<1> QED BY <1>6, <1>13

\* ImplementsPool of the specification, for every depth and descriptor set:
\* every step of the queue is a step of the bag or leaves the bag alone.
THEOREM QueueImplementsPool == Spec => ImplementsPool
<1>1. ASSUME QueueInit PROVE Pool!PoolInit
  <2>1. \A c : Waiting(c) = {}
    BY <1>1 DEF QueueInit, Waiting
  <2>2. Cardinality({}) = 0
    BY FS_EmptySet
  <2> QED BY <1>1, <2>1, <2>2 DEF QueueInit, Pool!PoolInit
<1>2. ASSUME IInv, [Next]_queueVars PROVE [Pool!PoolNext]_Pool!poolVars
  <2>1. CASE Clock
    <3>1. PICK push \in Commands \cup {Unwritten}, select_enable \in BOOLEAN,
               pop_ready \in BOOLEAN, pol \in Policies, limit \in Thresholds :
            QueueClock(push # Unwritten, push, select_enable, pol, limit, pop_ready)
      BY <2>1 DEF Clock
    <3>2. \E put, take \in {{}} \cup {{c} : c \in Commands} : Pool!Exchange(put, take)
      BY <1>2, <3>1, ClockExchanges
    <3> QED BY <3>2 DEF Pool!PoolNext
  <2>2. CASE QueueReset
    <3>1. \A c : Waiting(c)' = {}
      BY <2>2 DEF QueueReset, Waiting
    <3>2. Cardinality({}) = 0
      BY FS_EmptySet
    <3>3. Pool!Flush
      BY <2>2, <3>1, <3>2 DEF QueueReset, Pool!Flush, Pool!PoolInit
    <3> QED BY <3>3 DEF Pool!PoolNext
  <2>3. CASE UNCHANGED queueVars
    BY <2>3 DEF queueVars, Pool!poolVars, Waiting
  <2> QED BY <1>2, <2>1, <2>2, <2>3 DEF Next
<1> QED BY <1>1, <1>2, InvariantInductive, PTL DEF Spec, ImplementsPool, Pool!PoolSpec

----------------------------------------------------------------------------
(* How long a descriptor can be overtaken, each policy and threshold held   *)
(* throughout.                                                              *)

FairTypeOK ==
  /\ policy \in Policies
  /\ threshold \in Thresholds
  /\ bypassed \in [Slots -> 0 .. DEPTH]

\* Steps of the round-robin scan from its start to slot s.
Distance(s) == ScanDistance(round_robin_index, s)

\* Round robin: every dispatch before slot s brings the scan nearer to it.  A
\* selection locked before s came may lie beyond s; the scan then wraps once,
\* but nothing was dispatched since s came.
RoundRobinInv ==
  policy = RoundRobin => \A s \in valid_entries :
    IF selection_locked /\ Distance(s) < Distance(locked_index)
      THEN bypassed[s] = 0
      ELSE bypassed[s] + Distance(s) <= DEPTH - 1

\* The descriptors that are older than that of slot s.
Ahead(s) == {t \in valid_entries \ {s} : OlderThan(t, s)}

\* Priority first: only older descriptors are dispatched before a starved one,
\* and they can only get fewer, except for a selection that was locked before
\* it starved, when nothing was counted yet.
PriorityInv ==
  policy = PriorityFirst => \A s \in valid_entries :
    /\ bypassed[s] <= DEPTH - 1
    /\ ~Starved(s, threshold) => bypassed[s] = 0
    /\ entry_age[s] < MAXIMUM_AGE =>
         /\ bypassed[s] + Cardinality(Ahead(s)) <= DEPTH - 1
         /\ selection_locked /\ locked_index \notin Ahead(s) \cup {s} => bypassed[s] = 0

FairInv == IInv /\ FairTypeOK /\ RoundRobinInv /\ PriorityInv

----------------------------------------------------------------------------
(* One clock edge, as far as fairness is concerned. *)

\* The slot the queue offers: the locked one, else the one the policy chooses.
Chosen(p) ==
  IF selection_locked THEN p = locked_index
  ELSE IF policy = PriorityFirst THEN p \in PriorityChoice(threshold)
  ELSE p \in RoundRobinChoice

\* Nothing is offered, the chosen slot is offered and locked, or it is taken.
Edge(pushed, popped) ==
  /\ pushed = {} \/ \E f \in Slots \ valid_entries : pushed = {f}
  /\ valid_entries' = (valid_entries \ popped) \cup pushed
  /\ entry_age' = [s \in Slots |-> NextAge(s, pushed, popped)]
  /\ round_robin_index' = AdvanceRoundRobin(popped)
  /\ \/ popped = {} /\ ~selection_locked /\ ~selection_locked'
     \/ \E p \in valid_entries : /\ Chosen(p)
                                 /\ popped = {}
                                 /\ selection_locked' /\ locked_index' = p
     \/ \E p \in valid_entries : /\ Chosen(p)
                                 /\ popped = {p}
                                 /\ ~selection_locked'

\* A clock edge fills at most one free slot and empties at most one valid one.
LEMMA ClockIsEdge ==
  ASSUME IInv, NEW push_valid \in BOOLEAN, NEW push, NEW select_enable \in BOOLEAN,
         NEW pop_ready \in BOOLEAN,
         QueueClock(push_valid, push, select_enable, policy, threshold, pop_ready)
  PROVE  \E pushed, popped \in SUBSET Slots : Edge(pushed, popped)
<1> DEFINE pushed  == IF PushFire(push_valid) THEN {free_index} ELSE {}
           popped  == PoppedSlot(select_enable, policy, threshold, pop_ready)
           offered == IF PopValid(select_enable, policy, threshold)
                        THEN SelectedSlot(policy, threshold) ELSE {}
<1>1. /\ pushed = {} \/ \E f \in Slots \ valid_entries : pushed = {f}
      /\ offered = {} \/ \E p \in valid_entries : offered = {p}
      /\ popped = {} \/ (popped = offered /\ popped # {})
      /\ selection_locked => offered = {locked_index}
  BY PortsSound
<1>2. /\ valid_entries' = (valid_entries \ popped) \cup pushed
      /\ entry_age' = [s \in Slots |-> NextAge(s, pushed, popped)]
      /\ round_robin_index' = AdvanceRoundRobin(popped)
      /\ LockSelection(offered, popped)
  BY DEF QueueClock
<1>3. \A p \in offered : Chosen(p)
  BY DEF Chosen, SelectedSlot
<1>4. valid_entries \subseteq Slots
  BY DEF IInv, TypeOK
<1> HIDE DEF pushed, popped, offered
<1>5. pushed \in SUBSET Slots /\ popped \in SUBSET Slots
  BY <1>1, <1>4
<1>6. CASE offered = {}
  <2>1. popped = {} /\ ~selection_locked
    BY <1>1, <1>6
  <2>2. ~selection_locked'
    BY <1>2, <1>6, <2>1 DEF LockSelection
  <2>3. Edge(pushed, popped)
    BY <1>1, <1>2, <2>1, <2>2 DEF Edge
  <2> QED BY <1>5, <2>3
<1>7. CASE offered # {}
  <2>1. PICK p \in valid_entries : offered = {p}
    BY <1>1, <1>7
  <2>2. Chosen(p) /\ (CHOOSE x \in offered : TRUE) = p
    BY <1>3, <2>1
  <2>3. CASE popped = {}
    <3>1. selection_locked' /\ locked_index' = p
      BY <1>2, <1>7, <2>2, <2>3 DEF LockSelection
    <3>2. Edge(pushed, popped)
      BY <1>1, <1>2, <2>2, <2>3, <3>1 DEF Edge
    <3> QED BY <1>5, <3>2
  <2>4. CASE popped # {}
    <3>1. popped = {p} /\ ~selection_locked'
      BY <1>1, <1>2, <2>1, <2>4 DEF LockSelection
    <3>2. Edge(pushed, popped)
      BY <1>1, <1>2, <2>2, <3>1 DEF Edge
    <3> QED BY <1>5, <3>2
  <2> QED BY <2>3, <2>4
<1> QED BY <1>6, <1>7

\* A slot that is valid after the edge was pushed at it, or stayed: then its
\* age goes up unless saturated, and a dispatch that it is owed is counted.
LEMMA EdgeOfSlot ==
  ASSUME FairInv, NEW pushed \in SUBSET Slots, NEW popped \in SUBSET Slots,
         Edge(pushed, popped), CountBypass, NEW s \in valid_entries'
  PROVE  /\ s \in Slots
         /\ s \notin valid_entries => bypassed'[s] = 0 /\ entry_age'[s] = 0
         /\ s \in valid_entries =>
              /\ s \notin popped
              /\ entry_age'[s] = IF entry_age[s] # MAXIMUM_AGE
                                  THEN entry_age[s] + 1 ELSE MAXIMUM_AGE
              /\ bypassed'[s] = IF popped # {} /\ OwedService(s) /\ bypassed[s] < DEPTH
                                 THEN bypassed[s] + 1 ELSE bypassed[s]
<1>1. valid_entries \subseteq Slots
  BY DEF FairInv, IInv, TypeOK
<1>2. /\ valid_entries' = (valid_entries \ popped) \cup pushed
      /\ pushed = {} \/ \E f \in Slots \ valid_entries : pushed = {f}
      /\ popped = {} \/ \E p \in valid_entries : popped = {p}
      /\ entry_age' = [t \in Slots |-> NextAge(t, pushed, popped)]
  BY DEF Edge
<1>3. s \in Slots /\ (s \in valid_entries => s \notin popped)
             /\ (s \notin valid_entries => s \in pushed)
  BY <1>1, <1>2
<1>4. valid_entries \ valid_entries' # {} <=> popped # {}
  BY <1>1, <1>2
<1>5. entry_age'[s] = NextAge(s, pushed, popped)
  BY <1>2, <1>3
<1>6. bypassed'[s] =
       IF s \notin valid_entries \cap valid_entries' THEN 0
       ELSE IF popped # {} /\ OwedService(s) /\ bypassed[s] < DEPTH
              THEN bypassed[s] + 1 ELSE bypassed[s]
  BY <1>3, <1>4 DEF CountBypass
<1>7. s \notin valid_entries => bypassed'[s] = 0 /\ entry_age'[s] = 0
  BY <1>3, <1>5, <1>6 DEF NextAge
<1>8. s \in valid_entries =>
        entry_age'[s] = IF entry_age[s] # MAXIMUM_AGE THEN entry_age[s] + 1 ELSE MAXIMUM_AGE
  BY <1>2, <1>3, <1>5 DEF NextAge
<1> QED BY <1>3, <1>6, <1>7, <1>8

----------------------------------------------------------------------------
(* Round robin. *)

\* Dispatches suffered and scan distance together stay below DEPTH.
LEMMA RoundRobinKept ==
  ASSUME FairInv, NEW pushed \in SUBSET Slots, NEW popped \in SUBSET Slots,
         Edge(pushed, popped), CountBypass, policy = RoundRobin, NEW s \in valid_entries'
  PROVE  IF selection_locked' /\ Distance(s)' < Distance(locked_index)'
           THEN bypassed'[s] = 0
           ELSE bypassed'[s] + Distance(s)' <= DEPTH - 1
<1> DEFINE r == round_robin_index
           D(t) == ScanDistance(r, t)
<1>1. /\ s \in Slots
      /\ s \notin valid_entries => bypassed'[s] = 0
      /\ s \in valid_entries =>
           /\ s \notin popped
           /\ bypassed'[s] = IF popped # {} /\ bypassed[s] < DEPTH
                              THEN bypassed[s] + 1 ELSE bypassed[s]
  BY EdgeOfSlot DEF OwedService
<1>2. /\ DEPTH \in Nat \ {0}
      /\ r \in Slots /\ round_robin_index' \in Slots
      /\ valid_entries \subseteq Slots
      /\ \A t \in Slots : bypassed[t] \in 0 .. DEPTH
  <2>1. popped = {} \/ \E p \in Slots : popped = {p}
    BY DEF FairInv, IInv, TypeOK, Edge
  <2>2. round_robin_index' \in Slots
    BY <2>1, QueueAssumption DEF FairInv, IInv, TypeOK, Edge, AdvanceRoundRobin, Slots
  <2> QED BY <2>2, QueueAssumption DEF FairInv, IInv, TypeOK, FairTypeOK
<1>3. \A t \in Slots : /\ Distance(t)' = ScanDistance(round_robin_index', t)
                       /\ Distance(t)' \in 0 .. DEPTH - 1
                       /\ D(t) = Distance(t)
                       /\ D(t) \in 0 .. DEPTH - 1
  <2>1. ASSUME NEW b \in Slots, NEW t \in Slots
        PROVE  ScanDistance(b, t) \in 0 .. DEPTH - 1
    BY <1>2, <2>1 DEF ScanDistance, Slots
  <2>2. \A t : /\ Distance(t)' = ScanDistance(round_robin_index', t)
               /\ D(t) = Distance(t)
    BY DEF Distance, ScanDistance
  <2> QED BY <1>2, <2>1, <2>2
<1>4. s \in valid_entries =>
        IF selection_locked /\ D(s) < D(locked_index)
          THEN bypassed[s] = 0 ELSE bypassed[s] + D(s) <= DEPTH - 1
  BY DEF FairInv, RoundRobinInv, Distance
<1>5. CASE s \notin valid_entries
  BY <1>1, <1>2, <1>3, <1>5
<1>6. CASE s \in valid_entries /\ popped = {}
  <2>1. round_robin_index' = r
    BY <1>6 DEF Edge, AdvanceRoundRobin
  <2>2. bypassed'[s] = bypassed[s]
    BY <1>1, <1>6
  <2>3. \A t : Distance(t)' = D(t)
    BY <2>1 DEF Distance
  <2>4. CASE ~selection_locked'
    <3>1. ~selection_locked
      BY <1>6, <2>4 DEF Edge
    <3> QED BY <1>4, <1>6, <2>2, <2>3, <2>4, <3>1
  <2>5. CASE selection_locked'
    <3>1. PICK p \in valid_entries : Chosen(p) /\ locked_index' = p
      BY <1>6, <2>5 DEF Edge
    <3>2. CASE selection_locked
      <4>1. locked_index' = locked_index
        BY <3>1, <3>2 DEF Chosen
      <4>2. Distance(locked_index)' = D(locked_index)
        BY <2>1, <4>1 DEF Distance
      <4> QED BY <1>4, <1>6, <2>2, <2>3, <2>5, <3>2, <4>2
    <3>3. CASE ~selection_locked
      <4>1. D(p) <= D(s)
        BY <1>6, <3>1, <3>3 DEF Chosen, RoundRobinChoice, RoundRobin, PriorityFirst
      <4>2. Distance(locked_index)' = D(p)
        BY <2>1, <3>1 DEF Distance
      <4>3. p \in Slots
        BY <1>2
      <4> HIDE DEF D
      <4> QED BY <1>1, <1>2, <1>3, <1>4, <1>6, <2>2, <2>3, <2>5, <3>3, <4>1, <4>2, <4>3
    <3> QED BY <3>2, <3>3
  <2> QED BY <2>4, <2>5
<1>7. CASE s \in valid_entries /\ popped # {}
  <2>1. PICK p \in valid_entries : Chosen(p) /\ popped = {p} /\ ~selection_locked'
    BY <1>7 DEF Edge
  <2>2. p # s /\ p \in Slots
    BY <1>1, <1>2, <1>7, <2>1
  <2>3. round_robin_index' = IF p = DEPTH - 1 THEN 0 ELSE p + 1
    <3>1. (CHOOSE x \in {p} : TRUE) = p
      OBVIOUS
    <3> QED BY <2>1, <3>1 DEF Edge, AdvanceRoundRobin
  <2>4. bypassed'[s] <= bypassed[s] + 1
    BY <1>1, <1>2, <1>7
  <2>5. ~selection_locked => D(p) <= D(s)
    BY <1>7, <2>1 DEF Chosen, RoundRobinChoice, RoundRobin, PriorityFirst
  <2>6. selection_locked => locked_index = p
    BY <2>1 DEF Chosen
  <2>7. IF D(s) < D(p) THEN Distance(s)' = DEPTH - (D(p) - D(s)) - 1
                       ELSE Distance(s)' = D(s) - D(p) - 1
    BY <1>1, <1>2, <2>2, <2>3 DEF Distance, ScanDistance, Slots
  <2>8. CASE D(s) < D(p)
    <3>1. bypassed[s] = 0
      <4>1. D(p) \in Int /\ D(s) \in Int
        BY <1>1, <1>3, <2>2
      <4> HIDE DEF D
      <4>2. selection_locked
        BY <2>5, <2>8, <4>1
      <4> QED BY <1>4, <1>7, <2>6, <2>8, <4>2
    <3>2. D(p) \in 0 .. DEPTH - 1 /\ D(s) \in 0 .. DEPTH - 1
      BY <1>1, <1>3, <2>2
    <3>3. bypassed'[s] <= 1
      BY <2>4, <3>1
    <3>4. bypassed'[s] \in Int
      BY <1>1, <1>2, <1>7
    <3> HIDE DEF D
    <3>5. bypassed'[s] + Distance(s)' <= DEPTH - 1
      BY <1>2, <2>7, <2>8, <3>2, <3>3, <3>4
    <3> QED BY <2>1, <3>5
  <2>9. CASE ~(D(s) < D(p))
    <3>1. bypassed[s] + D(s) <= DEPTH - 1
      BY <1>4, <1>7, <2>6, <2>9
    <3>2. D(p) \in 0 .. DEPTH - 1 /\ D(s) \in 0 .. DEPTH - 1
      BY <1>1, <1>3, <2>2
    <3>3. bypassed'[s] \in Int /\ bypassed[s] \in Int
      BY <1>1, <1>2, <1>7
    <3> HIDE DEF D
    <3>4. bypassed'[s] + Distance(s)' <= DEPTH - 1
      BY <1>2, <2>4, <2>7, <2>9, <3>1, <3>2, <3>3
    <3> QED BY <2>1, <3>4
  <2> QED BY <2>8, <2>9
<1> QED BY <1>5, <1>6, <1>7

----------------------------------------------------------------------------
(* Priority first. *)

\* All slots but one are at most DEPTH - 1, but two at most DEPTH - 2.
LEMMA OtherSlots ==
  ASSUME NEW s \in Slots, NEW S \in SUBSET (Slots \ {s})
  PROVE  /\ IsFiniteSet(S)
         /\ Cardinality(S) \in 0 .. DEPTH - 1
         /\ \A l \in Slots \ {s} : l \notin S => Cardinality(S) <= DEPTH - 2
         /\ \A p \in S : Cardinality(S \ {p}) = Cardinality(S) - 1
<1>1. S \in SUBSET Slots /\ S \cup {s} \in SUBSET Slots /\ DEPTH \in Nat
  BY QueueAssumption
<1>2. /\ IsFiniteSet(S) /\ Cardinality(S) \in 0 .. DEPTH
      /\ IsFiniteSet(S \cup {s}) /\ Cardinality(S \cup {s}) \in 0 .. DEPTH
  BY <1>1, SlotsFinite
<1>3. Cardinality(S \cup {s}) = Cardinality(S) + 1
  BY <1>2, FS_AddElement
<1>4. ASSUME NEW l \in Slots \ {s}, l \notin S PROVE Cardinality(S) <= DEPTH - 2
  <2>1. (S \cup {s}) \cup {l} \in SUBSET Slots
    OBVIOUS
  <2>2. Cardinality((S \cup {s}) \cup {l}) \in 0 .. DEPTH
    BY <2>1, SlotsFinite
  <2>3. Cardinality((S \cup {s}) \cup {l}) = Cardinality(S \cup {s}) + 1
    BY <1>2, <1>4, FS_AddElement
  <2> QED BY <1>1, <1>2, <1>3, <2>2, <2>3
<1>5. ASSUME NEW p \in S PROVE Cardinality(S \ {p}) = Cardinality(S) - 1
  BY <1>2, FS_RemoveElement
<1>6. Cardinality(S) \in 0 .. DEPTH - 1
  BY <1>1, <1>2, <1>3
<1> QED BY <1>2, <1>4, <1>5, <1>6

\* Until its age saturates, a waiting slot gets no new slot ahead of it: a
\* pushed one starts younger, and the others age alike.
LEMMA AheadShrinks ==
  ASSUME FairInv, NEW pushed \in SUBSET Slots, NEW popped \in SUBSET Slots,
         Edge(pushed, popped), CountBypass, NEW s \in valid_entries',
         s \in valid_entries, entry_age'[s] < MAXIMUM_AGE
  PROVE  Ahead(s)' = Ahead(s) \ popped
<1>1. /\ MAXIMUM_AGE \in Nat
      /\ \A t \in Slots : entry_age[t] \in 0 .. MAXIMUM_AGE
      /\ valid_entries \subseteq Slots
      /\ Slots \subseteq Int
  BY QueueAssumption DEF FairInv, IInv, TypeOK, Slots
<1>2. \A t \in valid_entries' :
        /\ t \in Slots
        /\ t \notin valid_entries => entry_age'[t] = 0
        /\ t \in valid_entries =>
             /\ t \notin popped
             /\ entry_age'[t] = IF entry_age[t] # MAXIMUM_AGE
                                 THEN entry_age[t] + 1 ELSE MAXIMUM_AGE
  BY EdgeOfSlot
<1>3. valid_entries \ popped \subseteq valid_entries'
  BY DEF Edge
<1>4. Ahead(s)' = {t \in valid_entries' \ {s} : OlderThan(t, s)'}
  BY DEF Ahead
<1>5. ASSUME NEW t \in valid_entries'
      PROVE  OlderThan(t, s)' <=> t \in valid_entries /\ OlderThan(t, s)
  <2>1. OlderThan(t, s)' <=> \/ entry_age'[t] > entry_age'[s]
                             \/ entry_age'[t] = entry_age'[s] /\ t < s
    BY DEF OlderThan
  <2>2. entry_age'[s] = entry_age[s] + 1
    BY <1>1, <1>2
  <2>3. CASE t \notin valid_entries
    BY <1>1, <1>2, <2>1, <2>2, <2>3
  <2>4. CASE t \in valid_entries
    BY <1>1, <1>2, <2>1, <2>2, <2>4 DEF OlderThan
  <2> QED BY <2>3, <2>4
<1> QED BY <1>2, <1>3, <1>4, <1>5 DEF Ahead

\* Dispatches suffered and older descriptors together stay below DEPTH.
LEMMA PriorityKept ==
  ASSUME FairInv, NEW pushed \in SUBSET Slots, NEW popped \in SUBSET Slots,
         Edge(pushed, popped), CountBypass, UNCHANGED threshold,
         policy = PriorityFirst, NEW s \in valid_entries'
  PROVE  /\ bypassed'[s] <= DEPTH - 1
         /\ ~Starved(s, threshold)' => bypassed'[s] = 0
         /\ entry_age'[s] < MAXIMUM_AGE =>
              /\ bypassed'[s] + Cardinality(Ahead(s)') <= DEPTH - 1
              /\ selection_locked' /\ locked_index' \notin Ahead(s)' \cup {s}
                   => bypassed'[s] = 0
<1>1. /\ DEPTH \in Nat \ {0} /\ MAXIMUM_AGE \in Nat
      /\ valid_entries \subseteq Slots
      /\ \A t \in Slots : entry_age[t] \in 0 .. MAXIMUM_AGE /\ bypassed[t] \in 0 .. DEPTH
      /\ threshold \in Int
  BY QueueAssumption DEF FairInv, IInv, TypeOK, FairTypeOK
<1>2. /\ s \in Slots
      /\ s \notin valid_entries => bypassed'[s] = 0
      /\ s \in valid_entries =>
           /\ s \notin popped
           /\ entry_age'[s] = IF entry_age[s] # MAXIMUM_AGE
                               THEN entry_age[s] + 1 ELSE MAXIMUM_AGE
           /\ bypassed'[s] = IF /\ popped # {} /\ Starved(s, threshold)
                                /\ entry_age[s] < MAXIMUM_AGE /\ bypassed[s] < DEPTH
                              THEN bypassed[s] + 1 ELSE bypassed[s]
  BY EdgeOfSlot DEF OwedService, RoundRobin, PriorityFirst
<1>3. Ahead(s)' \in SUBSET (Slots \ {s}) /\ Ahead(s) \in SUBSET (Slots \ {s})
  <2>1. valid_entries' \subseteq Slots
    BY EdgeOfSlot
  <2> QED BY <1>1, <2>1 DEF Ahead
<1>4. /\ Cardinality(Ahead(s)') \in 0 .. DEPTH - 1
      /\ Cardinality(Ahead(s)) \in 0 .. DEPTH - 1
  BY <1>2, <1>3, OtherSlots
<1>5. s \in valid_entries =>
        /\ bypassed[s] <= DEPTH - 1
        /\ ~Starved(s, threshold) => bypassed[s] = 0
        /\ entry_age[s] < MAXIMUM_AGE =>
             /\ bypassed[s] + Cardinality(Ahead(s)) <= DEPTH - 1
             /\ selection_locked /\ locked_index \notin Ahead(s) \cup {s} => bypassed[s] = 0
  BY DEF FairInv, PriorityInv
<1>6. Starved(s, threshold)' <=> threshold # 0 /\ entry_age'[s] >= threshold
  BY DEF Starved
<1>7. s \in valid_entries /\ ~Starved(s, threshold)' => ~Starved(s, threshold)
  BY <1>1, <1>2, <1>6 DEF Starved
<1>8. s \in valid_entries /\ entry_age'[s] < MAXIMUM_AGE =>
        entry_age[s] < MAXIMUM_AGE /\ Ahead(s)' = Ahead(s) \ popped
  BY <1>1, <1>2, AheadShrinks
<1>9. CASE s \notin valid_entries
  BY <1>1, <1>2, <1>4, <1>9
<1>10. CASE s \in valid_entries /\ popped = {}
  <2>1. bypassed'[s] = bypassed[s]
    BY <1>2, <1>10
  <2>2. ASSUME entry_age'[s] < MAXIMUM_AGE, selection_locked',
               locked_index' \notin Ahead(s)' \cup {s}
        PROVE  bypassed'[s] = 0
    <3>1. PICK p \in valid_entries : Chosen(p) /\ locked_index' = p
      BY <1>10, <2>2 DEF Edge
    <3>2. p \notin Ahead(s) /\ p # s /\ entry_age[s] < MAXIMUM_AGE
      BY <1>8, <1>10, <2>2, <3>1
    <3>3. CASE selection_locked
      BY <1>5, <1>10, <2>1, <3>1, <3>2, <3>3 DEF Chosen
    <3>4. CASE ~selection_locked
      <4>1. p \in PriorityChoice(threshold)
        BY <3>1, <3>4 DEF Chosen
      <4>2. ASSUME Starved(s, threshold) PROVE FALSE
        <5>1. s \in StarvedSlots(threshold)
          BY <1>10, <4>2 DEF StarvedSlots
        <5>2. OlderThan(p, s)
          BY <3>2, <4>1, <5>1 DEF PriorityChoice
        <5> QED BY <3>1, <3>2, <5>2 DEF Ahead
      <4> QED BY <1>5, <1>10, <2>1, <4>2
    <3> QED BY <3>3, <3>4
  <2>3. entry_age'[s] < MAXIMUM_AGE => bypassed'[s] + Cardinality(Ahead(s)') <= DEPTH - 1
    <3>1. entry_age'[s] < MAXIMUM_AGE => Ahead(s)' = Ahead(s)
      BY <1>8, <1>10
    <3> QED BY <1>5, <1>8, <1>10, <2>1, <3>1
  <2> QED BY <1>5, <1>7, <1>10, <2>1, <2>2, <2>3
<1>11. CASE s \in valid_entries /\ popped # {}
  <2>1. PICK p \in valid_entries : Chosen(p) /\ popped = {p} /\ ~selection_locked'
    BY <1>11 DEF Edge
  <2>2. p # s /\ p \in Slots
    BY <1>1, <1>2, <1>11, <2>1
  <2>3. Cardinality(Ahead(s) \ popped) =
          IF p \in Ahead(s) THEN Cardinality(Ahead(s)) - 1 ELSE Cardinality(Ahead(s))
    <3>1. p \notin Ahead(s) => Ahead(s) \ popped = Ahead(s)
      BY <2>1
    <3> QED BY <1>2, <1>3, <2>1, <3>1, OtherSlots
  <2>4. CASE ~Starved(s, threshold)
    <3>1. bypassed[s] = 0 /\ bypassed'[s] = 0
      BY <1>2, <1>5, <1>11, <2>4
    <3> QED BY <1>1, <1>4, <2>1, <3>1
  <2>5. CASE ~(entry_age[s] < MAXIMUM_AGE)
    <3>1. bypassed'[s] = bypassed[s] /\ ~(entry_age'[s] < MAXIMUM_AGE)
      BY <1>1, <1>2, <1>11, <2>5
    <3> QED BY <1>5, <1>7, <1>11, <3>1
  <2>6. CASE Starved(s, threshold) /\ entry_age[s] < MAXIMUM_AGE
    <3>1. bypassed'[s] <= bypassed[s] + 1 /\ bypassed'[s] \in Int
      BY <1>1, <1>2, <1>11
    <3>2. Starved(s, threshold)'
      BY <1>7, <1>11, <2>6
    <3>3. bypassed'[s] + Cardinality(Ahead(s) \ popped) <= DEPTH - 1
      <4>1. CASE p \in Ahead(s)
        BY <1>1, <1>2, <1>4, <1>5, <1>11, <2>3, <2>6, <3>1, <4>1
      <4>2. CASE p \notin Ahead(s)
        <5>1. selection_locked /\ locked_index = p
          <6>1. ASSUME ~selection_locked PROVE FALSE
            <7>1. p \in PriorityChoice(threshold)
              BY <2>1, <6>1 DEF Chosen
            <7>2. s \in StarvedSlots(threshold)
              BY <1>11, <2>6 DEF StarvedSlots
            <7>3. OlderThan(p, s)
              BY <2>2, <7>1, <7>2 DEF PriorityChoice
            <7> QED BY <2>1, <2>2, <4>2, <7>3 DEF Ahead
          <6> QED BY <2>1, <6>1 DEF Chosen
        <5>2. bypassed[s] = 0
          BY <1>5, <1>11, <2>2, <2>6, <4>2, <5>1
        <5>3. Cardinality(Ahead(s)) <= DEPTH - 2
          BY <1>2, <1>3, <2>2, <4>2, OtherSlots
        <5> QED BY <1>1, <1>4, <2>3, <3>1, <4>2, <5>2, <5>3
      <4> QED BY <4>1, <4>2
    <3>4. Cardinality(Ahead(s) \ popped) >= 0
      <4>1. Ahead(s) \ popped \in SUBSET (Slots \ {s})
        BY <1>3
      <4> HIDE DEF Ahead
      <4>2. Cardinality(Ahead(s) \ popped) \in 0 .. DEPTH - 1
        BY <1>2, <4>1, OtherSlots
      <4> QED BY <1>1, <4>2
    <3>5. Cardinality(Ahead(s) \ popped) \in Int
      BY <1>4, <2>3
    <3>6. bypassed'[s] <= DEPTH - 1
      BY <1>1, <3>1, <3>3, <3>4, <3>5
    <3> QED BY <1>8, <1>11, <2>1, <3>2, <3>3, <3>6
  <2> QED BY <2>4, <2>5, <2>6
<1> QED BY <1>9, <1>10, <1>11

----------------------------------------------------------------------------
(* The bound. *)

\* The invariant holds initially and is preserved by every step.
LEMMA FairInductive ==
  /\ CountedInit => FairInv
  /\ FairInv /\ [CountedNext]_fairnessVars => FairInv'
<1>1. ASSUME CountedInit PROVE FairInv
  <2>1. IInv
    BY <1>1, InvariantInductive DEF CountedInit
  <2>2. FairTypeOK
    BY <1>1, QueueAssumption DEF CountedInit, FairTypeOK
  <2>3. valid_entries = {}
    BY <1>1 DEF CountedInit, QueueInit
  <2> QED BY <2>1, <2>2, <2>3 DEF FairInv, RoundRobinInv, PriorityInv
<1>2. ASSUME FairInv, [CountedNext]_fairnessVars PROVE FairInv'
  <2>1. CASE CountedReset
    <3>1. IInv'
      BY <1>2, <2>1, InvariantInductive DEF FairInv, CountedReset, Next
    <3>2. FairTypeOK'
      BY <1>2, <2>1, QueueAssumption DEF FairInv, CountedReset, FairTypeOK
    <3>3. valid_entries' = {}
      BY <2>1 DEF CountedReset, QueueReset
    <3> QED BY <3>1, <3>2, <3>3 DEF FairInv, RoundRobinInv, PriorityInv
  <2>2. ASSUME NEW select_enable \in BOOLEAN, NEW pop_ready \in BOOLEAN,
               CountedClock(select_enable, pop_ready)
        PROVE  FairInv'
    <3>1. PICK push \in Commands \cup {Unwritten} :
            QueueClock(push # Unwritten, push, select_enable, policy, threshold, pop_ready)
      BY <2>2 DEF CountedClock
    <3> DEFINE push_valid == push # Unwritten
    <3>2. push_valid \in BOOLEAN /\ (push_valid => push \in Commands)
      OBVIOUS
    <3>3. QueueClock(push_valid, push, select_enable, policy, threshold, pop_ready)
      BY <3>1
    <3> HIDE DEF push_valid
    <3>4. IInv'
      BY <1>2, <3>2, <3>3, ClockPreserves DEF FairInv
    <3>5. PICK pushed \in SUBSET Slots, popped \in SUBSET Slots : Edge(pushed, popped)
      BY <1>2, <3>2, <3>3, ClockIsEdge DEF FairInv
    <3>6. CountBypass /\ UNCHANGED <<policy, threshold>>
      BY <2>2 DEF CountedClock
    <3>7. FairTypeOK'
      <4>1. DEPTH \in Nat /\ bypassed \in [Slots -> 0 .. DEPTH]
        BY <1>2, QueueAssumption DEF FairInv, FairTypeOK
      <4>2. bypassed' \in [Slots -> 0 .. DEPTH]
        BY <3>6, <4>1 DEF CountBypass
      <4> QED BY <1>2, <3>6, <4>2 DEF FairInv, FairTypeOK
    <3>8. RoundRobinInv'
      <4>1. ASSUME policy = RoundRobin, NEW s \in valid_entries'
            PROVE  IF selection_locked' /\ Distance(s)' < Distance(locked_index)'
                     THEN bypassed'[s] = 0
                     ELSE bypassed'[s] + Distance(s)' <= DEPTH - 1
        BY <1>2, <3>5, <3>6, <4>1, RoundRobinKept
      <4> QED BY <3>6, <4>1 DEF RoundRobinInv
    <3>9. PriorityInv'
      <4>1. ASSUME policy = PriorityFirst, NEW s \in valid_entries'
            PROVE  /\ bypassed'[s] <= DEPTH - 1
                   /\ ~Starved(s, threshold)' => bypassed'[s] = 0
                   /\ entry_age'[s] < MAXIMUM_AGE =>
                        /\ bypassed'[s] + Cardinality(Ahead(s)') <= DEPTH - 1
                        /\ selection_locked' /\ locked_index' \notin Ahead(s)' \cup {s}
                             => bypassed'[s] = 0
        BY <1>2, <3>5, <3>6, <4>1, PriorityKept
      <4> QED BY <3>6, <4>1 DEF PriorityInv
    <3> QED BY <3>4, <3>7, <3>8, <3>9 DEF FairInv
  <2>3. CASE UNCHANGED fairnessVars
    <3>1. UNCHANGED queueVars /\ UNCHANGED <<policy, threshold, bypassed>>
      BY <2>3 DEF fairnessVars, queueVars
    <3>2. IInv'
      BY <1>2, <3>1, InvariantInductive DEF FairInv
    <3>3. FairTypeOK' /\ RoundRobinInv'
      BY <1>2, <3>1 DEF FairInv, queueVars, FairTypeOK, RoundRobinInv, Distance, ScanDistance
    <3>4. PriorityInv'
      BY <1>2, <3>1 DEF FairInv, queueVars, PriorityInv, Starved, Ahead, OlderThan
    <3> QED BY <3>2, <3>3, <3>4 DEF FairInv
  <2> QED BY <1>2, <2>1, <2>2, <2>3 DEF CountedNext
<1> QED BY <1>1, <1>2

\* BypassBound of the specification: for every depth, age width and descriptor
\* set a descriptor is overtaken at most DEPTH - 1 times while it is owed
\* service, across stalls, locks, disabling and resets.
THEOREM BypassIsBounded == CountedSpec => []BypassBound
<1>1. ASSUME FairInv PROVE BypassBound
  <2>1. ASSUME NEW s \in valid_entries PROVE bypassed[s] <= DEPTH - 1
    <3>1. s \in Slots /\ DEPTH \in Nat \ {0} /\ bypassed[s] \in 0 .. DEPTH
      BY <1>1, <2>1, QueueAssumption DEF FairInv, IInv, TypeOK, FairTypeOK
    <3>2. CASE policy = PriorityFirst
      BY <1>1, <2>1, <3>2 DEF FairInv, PriorityInv
    <3>3. CASE policy # PriorityFirst
      <4>1. policy = RoundRobin
        BY <1>1, <3>3, QueueAssumption DEF FairInv, FairTypeOK
      <4>2. Distance(s) \in Nat
        BY <1>1, <3>1 DEF FairInv, IInv, TypeOK, Distance, ScanDistance, Slots
      <4>3. bypassed[s] = 0 \/ bypassed[s] + Distance(s) <= DEPTH - 1
        BY <1>1, <2>1, <4>1 DEF FairInv, RoundRobinInv
      <4> QED BY <3>1, <4>2, <4>3
    <3> QED BY <3>2, <3>3
  <2> QED BY <2>1 DEF BypassBound
<1> QED BY <1>1, FairInductive, PTL DEF CountedSpec

----------------------------------------------------------------------------
(* The path. *)

States == {"PROCESSOR_IDLE", "PROCESSOR_WAIT", "PROCESSOR_RESPONSE"}

LegalOpcodes ==
  {"DMA_COPY", "VECTOR_ADD", "VECTOR_MULTIPLY", "VECTOR_SCALE", "VECTOR_RELU",
   "VECTOR_CLAMP", "REDUCE_SUM", "REDUCE_MAX", "GEMM"}

\* The processor waits only on behalf of an admitted descriptor of a legal
\* opcode, and holds only responses it may give.
ProcessorInv ==
  /\ proc_state \in States
  /\ active_cycles \in Nat
  /\ proc_state = "PROCESSOR_WAIT" =>
       /\ ActiveTag \in Tags
       /\ active_opcode \in LegalOpcodes
       /\ active_target = executor_for_opcode(active_opcode)
  /\ proc_state = "PROCESSOR_RESPONSE" => response_reg \in Answers

\* What an executor that is not idle holds: the descriptor the processor waits
\* for, or the response to it.
HoldsActive(e) ==
  \/ \E c \in Commands : e = Working(c) /\ Tag(c) = ActiveTag
  \/ \E c \in Commands, o \in Outcomes : e = Responding(c, o) /\ Tag(c) = ActiveTag

\* An executor is busy only while the processor waits for it, so no response
\* is ever left over for a later command.
ExecutorsOwn ==
  \A t \in Targets : executor[t] # IdleExecutor =>
    proc_state = "PROCESSOR_WAIT" /\ active_target = t

\* And none is waited for in vain: the awaited executor holds the descriptor.
ExecutorInv ==
  /\ ExecutorsOwn
  /\ proc_state = "PROCESSOR_WAIT" => HoldsActive(executor[active_target])

PathInv == IInv /\ ProcessorInv /\ ExecutorInv

----------------------------------------------------------------------------
(* Tags, targets and responses. *)

\* An opcode names an executor exactly when it is legal.
LEMMA TargetOfOpcode ==
  ASSUME NEW opcode
  PROVE  /\ opcode \in LegalOpcodes <=> executor_for_opcode(opcode) # "INVALID"
         /\ opcode \in LegalOpcodes <=> executor_for_opcode(opcode) \in Targets
BY DEF LegalOpcodes, executor_for_opcode, is_vector_opcode, is_reduction_opcode, Targets

\* Tags are equal exactly when IDs and opcodes are.
LEMMA TagFields ==
  ASSUME NEW i, NEW o, NEW j, NEW p
  PROVE  [command_id |-> i, opcode |-> o] = [command_id |-> j, opcode |-> p]
           <=> i = j /\ o = p
BY SMT

\* A descriptor with the active tag has the ID and opcode being executed.
LEMMA TagOwner ==
  ASSUME NEW c, Tag(c) = ActiveTag
  PROVE  c.command_id = active_command_id /\ c.opcode = active_opcode
<1>1. [command_id |-> c.command_id, opcode |-> c.opcode]
        = [command_id |-> active_command_id, opcode |-> active_opcode]
  BY DEF Tag, ActiveTag
<1> QED BY <1>1, TagFields

\* The response of an executor is one the path can hold, and not NoResponse.
LEMMA RespondingIsAnswer ==
  ASSUME NEW c \in Commands, NEW o \in Outcomes
  PROVE  /\ Responding(c, o).phase = "RESPONSE"
         /\ Responding(c, o).response \in Answers
         /\ Responding(c, o).response # NoResponse
         /\ Responding(c, o).response.error \in {x.error : x \in Outcomes}
         /\ Responding(c, o).response.result \in {x.command_id : x \in Commands}
         /\ Responding(c, o).response.cycles \in Nat
<1> DEFINE r == [command_id |-> c.command_id, opcode |-> c.opcode, error |-> o.error,
                 result |-> c.command_id, cycles |-> o.cycles]
<1>1. Responding(c, o) = [phase |-> "RESPONSE", response |-> r]
  BY DEF Responding
<1>2. Responding(c, o).phase = "RESPONSE" /\ Responding(c, o).response = r
  BY <1>1
<1>3. /\ c.command_id \in {x.command_id : x \in Commands}
      /\ c.opcode \in {x.opcode : x \in Commands}
      /\ o.error \in {x.error : x \in Outcomes}
      /\ o.cycles \in Nat
  BY PathAssumption
<1>4. r \in Answers
  BY <1>3 DEF Answers
<1>5. r.error = o.error /\ r.result = c.command_id /\ r.cycles = o.cycles
  OBVIOUS
<1> HIDE DEF r
<1> QED BY <1>2, <1>3, <1>4, <1>5, PathAssumption

\* An executor says whether it is idle or what it works on.
LEMMA ExecutorPhases ==
  /\ IdleExecutor.phase = "IDLE"
  /\ \A c : Working(c).phase = "BUSY" /\ Working(c).command = c
BY DEF IdleExecutor, Working

----------------------------------------------------------------------------
(* One response, one pulse. *)

\* What ResponseAnnouncedOnce says of a step that is not a reset.
Announced ==
  /\ command_completed' <=> /\ proc_state' = "PROCESSOR_RESPONSE"
                            /\ proc_state # "PROCESSOR_RESPONSE"
  /\ proc_state = "PROCESSOR_RESPONSE" => response_reg' = response_reg
  /\ command_error' => command_completed' /\ response_reg'.error # "ERR_NONE"

\* Each branch of the processor's clock raises the pulse exactly when it
\* enters the response state.
LEMMA ClockAnnounces ==
  ASSUME NEW enable, NEW offer, NEW ready, NEW rsp, NEW response_ready,
         ProcessorClock(enable, offer, ready, rsp, response_ready)
  PROVE  Announced
<1>1. CASE ProcessorIdle /\ proc_state = "PROCESSOR_IDLE"
  BY <1>1 DEF ProcessorIdle, Announced
<1>2. ASSUME NEW c, RejectOpcode(c), proc_state = "PROCESSOR_IDLE"
      PROVE  Announced
  BY <1>2 DEF RejectOpcode, Announced
<1>3. ASSUME NEW c, DispatchCommand(c), proc_state = "PROCESSOR_IDLE"
      PROVE  Announced
  BY <1>3 DEF DispatchCommand, Announced
<1>4. CASE AwaitResponse /\ proc_state = "PROCESSOR_WAIT"
  BY <1>4 DEF AwaitResponse, Announced
<1>5. ASSUME NEW r, CompleteCommand(r), proc_state = "PROCESSOR_WAIT"
      PROVE  Announced
  BY <1>5 DEF CompleteCommand, Announced
<1>6. CASE HoldResponse(response_ready) /\ proc_state = "PROCESSOR_RESPONSE"
  BY <1>6 DEF HoldResponse, Announced
<1> QED BY <1>1, <1>2, <1>3, <1>4, <1>5, <1>6 DEF ProcessorClock

\* PathNext is a reset, or a clock edge with some inputs.
LEMMA PathSteps ==
  ASSUME PathNext, ~PathReset
  PROVE  \E enable, dma_blocked, finish, response_ready \in BOOLEAN :
           Cycle(enable, dma_blocked, finish, response_ready)
<1>1. PICK enable \in BOOLEAN, dma_blocked \in Blocked, finish \in Finishes,
           response_ready \in Takes : Cycle(enable, dma_blocked, finish, response_ready)
  BY DEF PathNext
<1>2. dma_blocked \in BOOLEAN /\ finish \in BOOLEAN /\ response_ready \in BOOLEAN
  BY DEF Blocked, Finishes, Takes
<1> QED BY <1>1, <1>2

\* ResponseAnnouncedOnce of the specification: whatever executors, firmware and
\* direct transfers do, a held response is never overwritten and its pulse
\* lasts one cycle.
THEOREM ResponsesAnnouncedOnce == FairSpec => ResponseAnnouncedOnce
<1>1. ASSUME [PathNext]_pathVars PROVE [~PathReset => Announced]_pathVars
  <2>1. ASSUME PathNext, ~PathReset PROVE Announced
    <3>1. PICK enable \in BOOLEAN, dma_blocked \in BOOLEAN, finish \in BOOLEAN,
               response_ready \in BOOLEAN :
            Cycle(enable, dma_blocked, finish, response_ready)
      BY <2>1, PathSteps
    <3>2. PICK push \in Pushes, pol \in Policies, limit \in Thresholds :
            \E outcome \in IF finish THEN Outcomes ELSE {Unwritten} :
              PathClock(push, enable, pol, limit, dma_blocked, finish,
                        outcome, response_ready)
      BY <3>1 DEF Cycle
    <3> QED BY <3>2, ClockAnnounces DEF PathClock
  <2> QED BY <1>1, <2>1
<1> QED BY <1>1, PTL DEF FairSpec, ResponseAnnouncedOnce, Announced

----------------------------------------------------------------------------
(* What one clock edge does to the executors. *)

\* The queue offers one waiting descriptor or none, and dequeues it exactly
\* when the processor is ready for it.
LEMMA OfferIsPopped ==
  ASSUME IInv, NEW enable \in BOOLEAN, NEW pol, NEW limit, NEW ready
  PROVE  LET offer  == Offer(enable, pol, limit)
             fires  == QueueReady(enable, offer, ready)
             popped == PoppedSlot(enable, pol, limit, fires)
         IN  \/ offer = {} /\ popped = {}
             \/ \E p \in valid_entries : /\ offer = {entries[p]}
                                         /\ fires => popped = {p}
                                         /\ ~fires => popped = {}
<1> DEFINE offer  == Offer(enable, pol, limit)
           fires  == QueueReady(enable, offer, ready)
           popped == PoppedSlot(enable, pol, limit, fires)
           chosen == IF PopValid(enable, pol, limit)
                       THEN SelectedSlot(pol, limit) ELSE {}
<1>1. chosen = {} \/ \E p \in valid_entries : chosen = {p}
  BY OfferSound
<1>2. offer = {entries[s] : s \in chosen}
  BY DEF Offer
<1>3. popped = IF fires THEN chosen ELSE {}
  BY DEF PoppedSlot
<1>4. \/ offer = {} /\ popped = {}
      \/ \E p \in valid_entries : /\ offer = {entries[p]}
                                  /\ fires => popped = {p}
                                  /\ ~fires => popped = {}
  <2> HIDE DEF offer, popped, chosen, fires
  <2>1. ASSUME chosen = {} PROVE offer = {} /\ popped = {}
    BY <1>2, <1>3, <2>1
  <2>2. ASSUME NEW p \in valid_entries, chosen = {p}
        PROVE  offer = {entries[p]} /\ (fires => popped = {p}) /\ (~fires => popped = {})
    BY <1>2, <1>3, <2>2
  <2> QED BY <1>1, <2>1, <2>2
<1> QED BY <1>4

\* An idle executor that takes nothing stays idle.
LEMMA IdleStays ==
  ASSUME NEW t \in Targets, NEW enable, NEW offer, NEW dma_blocked, NEW finish, NEW outcome,
         executor[t] = IdleExecutor,
         ~(CmdValid(t, enable, offer) /\ CmdReady(dma_blocked)[t])
  PROVE  NextExecutor(t, enable, offer, dma_blocked, finish, outcome) = IdleExecutor
BY ExecutorPhases DEF NextExecutor

\* An idle executor that takes a descriptor works on it or answers at once.
LEMMA IdleAccepts ==
  ASSUME NEW t \in Targets, NEW enable, NEW c, NEW dma_blocked, NEW finish \in BOOLEAN,
         NEW outcome, finish => outcome \in Outcomes,
         executor[t] = IdleExecutor,
         CmdValid(t, enable, {c}), CmdReady(dma_blocked)[t]
  PROVE  LET e == NextExecutor(t, enable, {c}, dma_blocked, finish, outcome)
         IN  e = Working(c) \/ \E o \in Outcomes : e = Responding(c, o)
<1>1. (CHOOSE x \in {c} : TRUE) = c
  OBVIOUS
<1> QED BY <1>1, ExecutorPhases DEF NextExecutor

\* A working executor goes on or answers its own descriptor.
LEMMA BusyContinues ==
  ASSUME NEW t \in Targets, NEW enable, NEW offer, NEW c, NEW dma_blocked,
         NEW finish \in BOOLEAN, NEW outcome, finish => outcome \in Outcomes,
         executor[t] = Working(c)
  PROVE  LET e == NextExecutor(t, enable, offer, dma_blocked, finish, outcome)
         IN  e = Working(c) \/ \E o \in Outcomes : e = Responding(c, o)
BY ExecutorPhases DEF NextExecutor

\* A response the processor waits for is taken in its first cycle.
LEMMA ResponseTaken ==
  ASSUME NEW t \in Targets, NEW enable, NEW offer, NEW dma_blocked, NEW finish, NEW outcome,
         executor[t].phase = "RESPONSE", RspReady(t)
  PROVE  NextExecutor(t, enable, offer, dma_blocked, finish, outcome) = IdleExecutor
BY DEF NextExecutor

\* A dispatch: the executor of the opcode takes the descriptor, and no other.
LEMMA DispatchKeepsExecutors ==
  ASSUME PathInv, proc_state = "PROCESSOR_IDLE",
         NEW enable \in BOOLEAN, NEW c \in Commands, NEW dma_blocked, NEW finish \in BOOLEAN,
         NEW outcome, finish => outcome \in Outcomes,
         QueueReady(enable, {c}, CmdReady(dma_blocked)),
         executor_for_opcode(c.opcode) # "INVALID",
         DispatchCommand(c),
         executor' = [t \in Targets |->
                        NextExecutor(t, enable, {c}, dma_blocked, finish, outcome)]
  PROVE  ProcessorInv' /\ ExecutorInv'
<1> DEFINE target == executor_for_opcode(c.opcode)
<1>1. target \in Targets /\ c.opcode \in LegalOpcodes
  BY TargetOfOpcode
<1>2. /\ proc_state' = "PROCESSOR_WAIT"
      /\ active_command_id' = c.command_id
      /\ active_opcode' = c.opcode
      /\ active_target' = target
      /\ active_cycles' = 0
  BY DEF DispatchCommand
<1>3. ActiveTag' = Tag(c) /\ Tag(c) \in Tags
  BY <1>2 DEF ActiveTag, Tag, Tags
<1>4. ProcessorInv'
  BY <1>1, <1>2, <1>3 DEF ProcessorInv, States
<1>5. \A t \in Targets : executor[t] = IdleExecutor
  BY DEF PathInv, ExecutorInv, ExecutorsOwn
<1>6. CmdValid(target, enable, {c}) /\ CmdReady(dma_blocked)[target]
  BY <1>1 DEF QueueReady, CmdValid
<1>7. HoldsActive(executor[active_target])'
  <2>1. \/ executor'[target] = Working(c)
        \/ \E o \in Outcomes : executor'[target] = Responding(c, o)
    BY <1>1, <1>5, <1>6, IdleAccepts
  <2> HIDE DEF target
  <2>2. executor'[active_target'] = executor'[target]
    BY <1>2
  <2>3. HoldsActive(executor[active_target])' <=>
          \/ \E d \in Commands : executor'[active_target'] = Working(d) /\ Tag(d) = ActiveTag'
          \/ \E d \in Commands, o \in Outcomes :
               executor'[active_target'] = Responding(d, o) /\ Tag(d) = ActiveTag'
    BY DEF HoldsActive
  <2> QED BY <1>3, <2>1, <2>2, <2>3
<1>8. ASSUME NEW t \in Targets, t # target PROVE executor'[t] = IdleExecutor
  <2>1. ~CmdValid(t, enable, {c})
    BY <1>8 DEF CmdValid
  <2> QED BY <1>5, <2>1, IdleStays
<1>9. ExecutorsOwn'
  <2> HIDE DEF target
  <2> QED BY <1>2, <1>8 DEF ExecutorsOwn
<1> QED BY <1>4, <1>7, <1>9 DEF ExecutorInv

\* In a cycle in which no executor takes a descriptor, idle executors stay idle.
LEMMA NothingTaken ==
  ASSUME PathInv, NEW enable \in BOOLEAN, NEW offer, NEW dma_blocked, NEW finish, NEW outcome,
         \A t \in Targets : ~(CmdValid(t, enable, offer) /\ CmdReady(dma_blocked)[t]),
         executor' = [t \in Targets |->
                        NextExecutor(t, enable, offer, dma_blocked, finish, outcome)]
  PROVE  \A t \in Targets :
           proc_state # "PROCESSOR_WAIT" \/ active_target # t => executor'[t] = IdleExecutor
<1> SUFFICES ASSUME NEW t \in Targets, proc_state # "PROCESSOR_WAIT" \/ active_target # t
             PROVE  executor'[t] = IdleExecutor
  OBVIOUS
<1>1. executor[t] = IdleExecutor
  BY DEF PathInv, ExecutorInv, ExecutorsOwn
<1> QED BY <1>1, IdleStays

\* A cycle of waiting: the executor goes on, or its response is completed and
\* it is idle again.
LEMMA WaitKeepsExecutors ==
  ASSUME PathInv, proc_state = "PROCESSOR_WAIT",
         NEW enable \in BOOLEAN, NEW offer, NEW dma_blocked, NEW finish \in BOOLEAN,
         NEW outcome, finish => outcome \in Outcomes,
         IF Responses[active_target] = NoResponse
           THEN AwaitResponse ELSE CompleteCommand(Responses[active_target]),
         executor' = [t \in Targets |->
                        NextExecutor(t, enable, offer, dma_blocked, finish, outcome)]
  PROVE  ProcessorInv' /\ ExecutorInv'
<1>1. /\ active_target \in Targets
      /\ active_cycles \in Nat
      /\ ActiveTag \in Tags
      /\ active_opcode \in LegalOpcodes
      /\ active_target = executor_for_opcode(active_opcode)
  BY TargetOfOpcode DEF PathInv, ProcessorInv
<1>2. \A t \in Targets : ~(CmdValid(t, enable, offer) /\ CmdReady(dma_blocked)[t])
  BY DEF CmdValid
<1>3. \A t \in Targets \ {active_target} : executor'[t] = IdleExecutor
  BY <1>2, NothingTaken
<1>4. SaturatingIncrement(active_cycles) \in Nat
  BY <1>1 DEF SaturatingIncrement
<1>5. ASSUME NEW c \in Commands, executor[active_target] = Working(c), Tag(c) = ActiveTag
      PROVE  ProcessorInv' /\ ExecutorInv'
  <2>1. Responses[active_target] = NoResponse
    BY <1>1, <1>5, ExecutorPhases DEF Responses
  <2>2. AwaitResponse
    BY <2>1
  <2>3. /\ UNCHANGED <<proc_state, active_command_id, active_opcode, active_target>>
        /\ active_cycles' \in Nat
        /\ ActiveTag' = ActiveTag
    BY <1>4, <2>2 DEF AwaitResponse, ActiveTag
  <2>4. ProcessorInv'
    BY <1>1, <2>3 DEF ProcessorInv, States
  <2>5. \/ executor'[active_target] = Working(c)
        \/ \E o \in Outcomes : executor'[active_target] = Responding(c, o)
    BY <1>1, <1>5, BusyContinues
  <2>6. HoldsActive(executor[active_target])' <=>
          \/ \E d \in Commands : executor'[active_target'] = Working(d) /\ Tag(d) = ActiveTag'
          \/ \E d \in Commands, o \in Outcomes :
               executor'[active_target'] = Responding(d, o) /\ Tag(d) = ActiveTag'
    BY DEF HoldsActive
  <2>7. HoldsActive(executor[active_target])'
    BY <1>5, <2>3, <2>5, <2>6
  <2>8. ExecutorsOwn'
    BY <1>3, <2>3 DEF ExecutorsOwn
  <2> QED BY <2>4, <2>7, <2>8 DEF ExecutorInv
<1>6. ASSUME NEW c \in Commands, NEW o \in Outcomes,
             executor[active_target] = Responding(c, o), Tag(c) = ActiveTag
      PROVE  ProcessorInv' /\ ExecutorInv'
  <2> DEFINE rsp == executor[active_target].response
  <2>1. /\ executor[active_target].phase = "RESPONSE"
        /\ rsp # NoResponse
        /\ rsp.error \in {x.error : x \in Outcomes}
        /\ rsp.result \in {x.command_id : x \in Commands}
        /\ rsp.cycles \in Nat
    BY <1>6, RespondingIsAnswer
  <2>2. Responses[active_target] = rsp
    BY <1>1, <2>1 DEF Responses
  <2> HIDE DEF rsp
  <2>3. CompleteCommand(rsp)
    BY <2>1, <2>2
  <2> DEFINE cycles == IF rsp.cycles # 0 THEN rsp.cycles ELSE SaturatingIncrement(active_cycles)
  <2>4. /\ proc_state' = "PROCESSOR_RESPONSE"
        /\ active_cycles' \in Nat
        /\ response_reg' = [command_id |-> active_command_id, opcode |-> active_opcode,
                            error |-> rsp.error, result |-> rsp.result, cycles |-> cycles]
    BY <1>4, <2>3 DEF CompleteCommand
  <2>5. cycles \in Nat
    BY <1>4, <2>1
  <2>6. active_command_id = c.command_id /\ active_opcode = c.opcode
    BY <1>6, TagOwner
  <2> HIDE DEF cycles
  <2>7. response_reg' \in Answers
    BY <2>1, <2>4, <2>5, <2>6 DEF Answers
  <2>8. ProcessorInv'
    BY <2>4, <2>7 DEF ProcessorInv, States
  <2>9. executor'[active_target] = IdleExecutor
    BY <1>1, <2>1, ResponseTaken DEF RspReady
  <2>10. ExecutorInv'
    BY <1>3, <2>4, <2>9 DEF ExecutorInv, ExecutorsOwn
  <2> QED BY <2>8, <2>10
<1>7. HoldsActive(executor[active_target])
  BY DEF PathInv, ExecutorInv
<1> QED BY <1>5, <1>6, <1>7 DEF HoldsActive

\* The branches of one clock edge of the processor, with what the queue
\* dequeues in each: nothing, or the descriptor that is rejected or dispatched.
LEMMA ClockBranches ==
  ASSUME PathInv, NEW enable \in BOOLEAN, NEW pol, NEW limit, NEW ready, NEW rsp,
         NEW response_ready,
         ProcessorClock(enable, Offer(enable, pol, limit), ready, rsp, response_ready)
  PROVE  LET offer  == Offer(enable, pol, limit)
             fires  == QueueReady(enable, offer, ready)
             popped == PoppedSlot(enable, pol, limit, fires)
         IN  \/ /\ proc_state = "PROCESSOR_IDLE" /\ popped = {} /\ ProcessorIdle
                /\ fires => offer = {}
             \/ \E p \in valid_entries :
                  /\ proc_state = "PROCESSOR_IDLE" /\ popped = {p} /\ offer = {entries[p]}
                  /\ fires
                  /\ executor_for_opcode(entries[p].opcode) = "INVALID"
                  /\ RejectOpcode(entries[p])
             \/ \E p \in valid_entries :
                  /\ proc_state = "PROCESSOR_IDLE" /\ popped = {p} /\ offer = {entries[p]}
                  /\ fires
                  /\ executor_for_opcode(entries[p].opcode) # "INVALID"
                  /\ DispatchCommand(entries[p])
             \/ /\ proc_state = "PROCESSOR_WAIT" /\ popped = {}
                /\ IF rsp[active_target] = NoResponse
                     THEN AwaitResponse ELSE CompleteCommand(rsp[active_target])
             \/ /\ proc_state = "PROCESSOR_RESPONSE" /\ popped = {}
                /\ HoldResponse(response_ready)
<1> DEFINE offer  == Offer(enable, pol, limit)
           fires  == QueueReady(enable, offer, ready)
           popped == PoppedSlot(enable, pol, limit, fires)
<1>1. \/ offer = {} /\ popped = {}
      \/ \E p \in valid_entries : /\ offer = {entries[p]}
                                  /\ fires => popped = {p}
                                  /\ ~fires => popped = {}
  BY OfferIsPopped DEF PathInv
<1>2. fires => proc_state = "PROCESSOR_IDLE"
  BY DEF QueueReady
<1>3. \/ /\ proc_state = "PROCESSOR_IDLE"
         /\ fires
         /\ \/ offer = {} /\ ProcessorIdle
            \/ \E c \in offer : IF executor_for_opcode(c.opcode) = "INVALID"
                               THEN RejectOpcode(c) ELSE DispatchCommand(c)
      \/ proc_state = "PROCESSOR_IDLE" /\ ~fires /\ ProcessorIdle
      \/ /\ proc_state = "PROCESSOR_WAIT"
         /\ IF rsp[active_target] = NoResponse
              THEN AwaitResponse ELSE CompleteCommand(rsp[active_target])
      \/ proc_state = "PROCESSOR_RESPONSE" /\ HoldResponse(response_ready)
  BY DEF ProcessorClock
<1>4. \/ /\ proc_state = "PROCESSOR_IDLE" /\ popped = {} /\ ProcessorIdle
         /\ fires => offer = {}
      \/ \E p \in valid_entries :
           /\ proc_state = "PROCESSOR_IDLE" /\ popped = {p} /\ offer = {entries[p]}
           /\ fires
           /\ executor_for_opcode(entries[p].opcode) = "INVALID"
           /\ RejectOpcode(entries[p])
      \/ \E p \in valid_entries :
           /\ proc_state = "PROCESSOR_IDLE" /\ popped = {p} /\ offer = {entries[p]}
           /\ fires
           /\ executor_for_opcode(entries[p].opcode) # "INVALID"
           /\ DispatchCommand(entries[p])
      \/ /\ proc_state = "PROCESSOR_WAIT" /\ popped = {}
         /\ IF rsp[active_target] = NoResponse
              THEN AwaitResponse ELSE CompleteCommand(rsp[active_target])
      \/ /\ proc_state = "PROCESSOR_RESPONSE" /\ popped = {}
         /\ HoldResponse(response_ready)
  <2> HIDE DEF offer, fires, popped
  <2>1. CASE proc_state = "PROCESSOR_IDLE" /\ fires /\ offer # {}
    <3>1. PICK p \in valid_entries : offer = {entries[p]} /\ popped = {p}
      BY <1>1, <2>1
    <3>2. IF executor_for_opcode(entries[p].opcode) = "INVALID"
            THEN RejectOpcode(entries[p]) ELSE DispatchCommand(entries[p])
      BY <1>3, <2>1, <3>1
    <3> QED BY <2>1, <3>1, <3>2
  <2>2. CASE proc_state = "PROCESSOR_IDLE" /\ (~fires \/ offer = {})
    <3>1. popped = {}
      BY <1>1, <2>2
    <3>2. ProcessorIdle
      BY <1>3, <2>2
    <3> QED BY <2>2, <3>1, <3>2
  <2>3. CASE proc_state # "PROCESSOR_IDLE"
    <3>1. popped = {}
      BY <1>1, <1>2, <2>3
    <3> QED BY <1>3, <2>3, <3>1
  <2> QED BY <2>1, <2>2, <2>3
<1> QED BY <1>4

\* One clock edge preserves the invariant of processor and executors.
LEMMA ClockKeepsExecutors ==
  ASSUME PathInv, NEW push, NEW enable \in BOOLEAN, NEW pol, NEW limit,
         NEW dma_blocked, NEW finish \in BOOLEAN, NEW outcome, finish => outcome \in Outcomes,
         NEW response_ready \in BOOLEAN,
         PathClock(push, enable, pol, limit, dma_blocked, finish, outcome,
                   response_ready)
  PROVE  ProcessorInv' /\ ExecutorInv'
<1> DEFINE offer  == Offer(enable, pol, limit)
           ready  == CmdReady(dma_blocked)
           fires  == QueueReady(enable, offer, ready)
           popped == PoppedSlot(enable, pol, limit, fires)
<1>1. /\ ProcessorClock(enable, offer, ready, Responses, response_ready)
      /\ executor' = [t \in Targets |->
                        NextExecutor(t, enable, offer, dma_blocked, finish, outcome)]
  BY DEF PathClock
<1>2. \/ /\ proc_state = "PROCESSOR_IDLE" /\ popped = {} /\ ProcessorIdle
         /\ fires => offer = {}
      \/ \E p \in valid_entries :
           /\ proc_state = "PROCESSOR_IDLE" /\ popped = {p} /\ offer = {entries[p]}
           /\ fires
           /\ executor_for_opcode(entries[p].opcode) = "INVALID"
           /\ RejectOpcode(entries[p])
      \/ \E p \in valid_entries :
           /\ proc_state = "PROCESSOR_IDLE" /\ popped = {p} /\ offer = {entries[p]}
           /\ fires
           /\ executor_for_opcode(entries[p].opcode) # "INVALID"
           /\ DispatchCommand(entries[p])
      \/ /\ proc_state = "PROCESSOR_WAIT" /\ popped = {}
         /\ IF Responses[active_target] = NoResponse
              THEN AwaitResponse ELSE CompleteCommand(Responses[active_target])
      \/ /\ proc_state = "PROCESSOR_RESPONSE" /\ popped = {}
         /\ HoldResponse(response_ready)
  BY <1>1, ClockBranches
<1>3. \A s \in valid_entries : entries[s] \in Commands
  BY DEF PathInv, IInv, TypeOK
<1>4. offer = {} \/ \E p \in valid_entries : offer = {entries[p]}
  <2>1. \/ offer = {} /\ popped = {}
        \/ \E p \in valid_entries : /\ offer = {entries[p]}
                                    /\ fires => popped = {p}
                                    /\ ~fires => popped = {}
    BY OfferIsPopped DEF PathInv
  <2> HIDE DEF offer, popped, fires
  <2> QED BY <2>1
<1> HIDE DEF popped
<1>5. ASSUME proc_state = "PROCESSOR_IDLE", ProcessorIdle, fires => offer = {}
      PROVE  ProcessorInv' /\ ExecutorInv'
  <2>1. ASSUME NEW t \in Targets, CmdValid(t, enable, offer), ready[t] PROVE FALSE
    <3>1. PICK c \in offer : executor_for_opcode(c.opcode) = t
      BY <2>1 DEF CmdValid
    <3>2. \A d \in offer : d = c
      BY <1>4, <3>1
    <3>3. fires
      BY <1>5, <2>1, <3>1, <3>2 DEF QueueReady, CmdValid
    <3> QED BY <1>5, <3>1, <3>3
  <2>2. \A t \in Targets : executor'[t] = IdleExecutor
    <3> HIDE DEF offer
    <3> QED BY <1>1, <1>5, <2>1, NothingTaken
  <2> QED BY <1>5, <2>2 DEF ProcessorIdle, PathInv, ProcessorInv, ExecutorInv, ExecutorsOwn
<1>6. ASSUME NEW p \in valid_entries, proc_state = "PROCESSOR_IDLE", offer = {entries[p]},
             executor_for_opcode(entries[p].opcode) = "INVALID", RejectOpcode(entries[p])
      PROVE  ProcessorInv' /\ ExecutorInv'
  <2>1. \A t \in Targets : ~CmdValid(t, enable, offer)
    BY <1>6 DEF CmdValid, Targets
  <2>2. \A t \in Targets : executor'[t] = IdleExecutor
    <3> HIDE DEF offer
    <3> QED BY <1>1, <1>6, <2>1, NothingTaken
  <2>3. /\ proc_state' = "PROCESSOR_RESPONSE"
        /\ active_cycles' = 0
        /\ response_reg' = [command_id |-> entries[p].command_id,
                            opcode |-> entries[p].opcode,
                            error |-> "ERR_OPCODE", result |-> 0, cycles |-> 0]
    BY <1>6 DEF RejectOpcode
  <2>4. response_reg' \in Answers
    BY <1>3, <2>3 DEF Answers
  <2> QED BY <2>2, <2>3, <2>4 DEF ProcessorInv, States, ExecutorInv, ExecutorsOwn
<1>7. ASSUME NEW p \in valid_entries, proc_state = "PROCESSOR_IDLE", offer = {entries[p]},
             fires, executor_for_opcode(entries[p].opcode) # "INVALID",
             DispatchCommand(entries[p])
      PROVE  ProcessorInv' /\ ExecutorInv'
  <2>1. entries[p] \in Commands
    BY <1>3
  <2> DEFINE c == entries[p]
  <2>2. QueueReady(enable, {c}, ready)
    BY <1>7
  <2>3. executor' = [t \in Targets |->
                      NextExecutor(t, enable, {c}, dma_blocked, finish, outcome)]
    BY <1>1, <1>7
  <2> HIDE DEF offer
  <2> QED BY <1>7, <2>1, <2>2, <2>3, DispatchKeepsExecutors
<1>8. ASSUME proc_state = "PROCESSOR_WAIT",
             IF Responses[active_target] = NoResponse
               THEN AwaitResponse ELSE CompleteCommand(Responses[active_target])
      PROVE  ProcessorInv' /\ ExecutorInv'
  <2> HIDE DEF offer
  <2> QED BY <1>1, <1>8, WaitKeepsExecutors
<1>9. ASSUME proc_state = "PROCESSOR_RESPONSE", HoldResponse(response_ready)
      PROVE  ProcessorInv' /\ ExecutorInv'
  <2>1. \A t \in Targets : ~CmdValid(t, enable, offer)
    BY <1>9 DEF CmdValid
  <2>2. \A t \in Targets : executor'[t] = IdleExecutor
    <3> HIDE DEF offer
    <3> QED BY <1>1, <1>9, <2>1, NothingTaken
  <2>3. /\ proc_state' \in {"PROCESSOR_IDLE", "PROCESSOR_RESPONSE"}
        /\ UNCHANGED <<active_cycles, response_reg>>
    BY <1>9 DEF HoldResponse
  <2> QED BY <1>9, <2>2, <2>3
          DEF PathInv, ProcessorInv, States, ExecutorInv, ExecutorsOwn
<1> HIDE DEF offer, fires
<1> QED BY <1>2, <1>5, <1>6, <1>7, <1>8, <1>9

\* The invariant holds initially and is preserved by every step.
LEMMA PathInductive ==
  /\ PathInit => PathInv
  /\ PathInv /\ [PathNext]_pathVars => PathInv'
<1>1. ASSUME PathInit PROVE PathInv
  <2>1. IInv
    BY <1>1, InvariantInductive DEF PathInit
  <2>2. ProcessorInv
    BY <1>1 DEF PathInit, ProcessorInit, ProcessorInv, States
  <2>3. ExecutorInv
    BY <1>1 DEF PathInit, ProcessorInit, ExecutorInv, ExecutorsOwn
  <2> QED BY <2>1, <2>2, <2>3 DEF PathInv
<1>2. ASSUME PathInv, [PathNext]_pathVars PROVE PathInv'
  <2>1. CASE PathReset
    <3>1. IInv'
      BY <1>2, <2>1, InvariantInductive DEF PathInv, PathReset, Next
    <3>2. ProcessorInv'
      BY <2>1 DEF PathReset, ProcessorReset, ProcessorInv, States
    <3>3. ExecutorInv'
      BY <2>1 DEF PathReset, ProcessorReset, ExecutorInv, ExecutorsOwn
    <3> QED BY <3>1, <3>2, <3>3 DEF PathInv
  <2>2. CASE PathNext /\ ~PathReset
    <3>1. PICK enable \in BOOLEAN, dma_blocked \in BOOLEAN, finish \in BOOLEAN,
               response_ready \in BOOLEAN :
            Cycle(enable, dma_blocked, finish, response_ready)
      BY <2>2, PathSteps
    <3>2. PICK push \in Pushes, pol \in Policies, limit \in Thresholds :
            \E outcome \in IF finish THEN Outcomes ELSE {Unwritten} :
              PathClock(push, enable, pol, limit, dma_blocked, finish,
                        outcome, response_ready)
      BY <3>1 DEF Cycle
    <3>3. PICK outcome : /\ finish => outcome \in Outcomes
                         /\ PathClock(push, enable, pol, limit, dma_blocked, finish,
                                      outcome, response_ready)
      BY <3>2
    <3>4. ProcessorInv' /\ ExecutorInv'
      BY <1>2, <3>3, ClockKeepsExecutors
    <3>5. IInv'
      <4> DEFINE fires == QueueReady(enable, Offer(enable, pol, limit),
                                     CmdReady(dma_blocked))
                 pushes == push # Unwritten
      <4>1. QueueClock(pushes, push, enable, pol, limit, fires)
        BY <3>3 DEF PathClock
      <4>2. pushes => push \in Commands
        BY DEF Pushes
      <4>3. fires \in BOOLEAN /\ pushes \in BOOLEAN
        BY DEF QueueReady
      <4> HIDE DEF fires, pushes
      <4> QED BY <1>2, <4>1, <4>2, <4>3, ClockPreserves DEF PathInv
    <3> QED BY <3>4, <3>5 DEF PathInv
  <2>3. CASE UNCHANGED pathVars
    <3>1. IInv'
      BY <1>2, <2>3, InvariantInductive DEF PathInv, pathVars
    <3>2. ProcessorInv' /\ ExecutorInv'
      BY <1>2, <2>3 DEF pathVars, processorVars, PathInv, ProcessorInv, ExecutorInv,
                        ExecutorsOwn, HoldsActive, ActiveTag
    <3> QED BY <3>1, <3>2 DEF PathInv
  <2> QED BY <1>2, <2>1, <2>2, <2>3
<1> QED BY <1>1, <1>2

\* An executor is busy only for the command the processor waits for, and then
\* holds that very descriptor or its response: responses are never crossed or
\* left over, across resets and stalls too.
THEOREM ExecutorsServeActive == FairSpec => []ExecutorInv
<1>1. PathInv => ExecutorInv
  BY DEF PathInv
<1> QED BY <1>1, PathInductive, PTL DEF FairSpec

----------------------------------------------------------------------------
(* The path implements the ledger of module CommandLedger. *)

\* The queue gains the tags in put and loses those of the popped slots.
Moved(put, popped) ==
  \A g \in Tags :
    /\ Cardinality(Queued(g)) \in Nat
    /\ Cardinality(Queued(g)') = Cardinality(Queued(g))
         + (IF g \in put THEN 1 ELSE 0)
         - (IF \E p \in popped : Tag(entries[p]) = g THEN 1 ELSE 0)

\* One clock edge of the queue counts the tags of what it pushes and pops.
LEMMA QueuedStep ==
  ASSUME IInv, NEW push \in Commands \cup {Unwritten},
         NEW enable \in BOOLEAN, NEW pol, NEW limit, NEW pop_ready \in BOOLEAN,
         QueueClock(push # Unwritten, push, enable, pol, limit, pop_ready)
  PROVE  \E put \in Ledger!Admissions :
           Moved(put, PoppedSlot(enable, pol, limit, pop_ready))
<1> DEFINE push_valid == push # Unwritten
           pushed  == IF PushFire(push_valid) THEN {free_index} ELSE {}
           popped  == PoppedSlot(enable, pol, limit, pop_ready)
           chosen  == IF PopValid(enable, pol, limit)
                        THEN SelectedSlot(pol, limit) ELSE {}
           put     == IF pushed = {} THEN {} ELSE {Tag(push)}
<1>1. /\ pushed = {} \/ \E f \in Slots \ valid_entries : pushed = {f}
      /\ popped = {} \/ \E p \in valid_entries : popped = {p}
  <2>1. push_valid \in BOOLEAN
    OBVIOUS
  <2>2. /\ pushed = {} \/ \E f \in Slots \ valid_entries : pushed = {f}
        /\ chosen = {} \/ \E p \in valid_entries : chosen = {p}
        /\ popped = {} \/ (popped = chosen /\ popped # {})
    <3> HIDE DEF push_valid
    <3>1. pushed = {} \/ \E f \in Slots \ valid_entries : pushed = {f}
      BY <2>1, PortsSound
    <3>2. chosen = {} \/ \E p \in valid_entries : chosen = {p}
      BY OfferSound
    <3>3. popped = {} \/ (popped = chosen /\ popped # {})
      BY DEF PoppedSlot
    <3> QED BY <3>1, <3>2, <3>3
  <2> HIDE DEF pushed, popped, chosen
  <2> QED BY <2>2
<1>2. /\ entries' = [s \in Slots |-> IF s \in pushed THEN push ELSE entries[s]]
      /\ valid_entries' = (valid_entries \ popped) \cup pushed
  BY DEF QueueClock
<1>3. pushed # {} => push \in Commands
  BY DEF PushFire
<1>4. valid_entries \in SUBSET Slots
  BY DEF IInv, TypeOK
<1> HIDE DEF push_valid, pushed, popped, chosen
<1>5. put \in Ledger!Admissions
  <2>1. pushed # {} => Tag(push) \in Tags
    BY <1>3 DEF Tags
  <2> QED BY <2>1 DEF Ledger!Admissions
<1>6. ASSUME NEW g \in Tags
      PROVE  /\ Cardinality(Queued(g)) \in Nat
             /\ Cardinality(Queued(g)') = Cardinality(Queued(g))
                  + (IF g \in put THEN 1 ELSE 0)
                  - (IF \E p \in popped : Tag(entries[p]) = g THEN 1 ELSE 0)
  <2> DEFINE V == Queued(g)
             came == IF Tag(push) = g THEN pushed ELSE {}
             left == {p \in popped : Tag(entries[p]) = g}
  <2>1. V \in SUBSET Slots /\ Cardinality(V) \in Nat
    BY <1>4, SlotsFinite, FS_CardinalityType DEF Queued
  <2>2. came = {} \/ \E f \in Slots \ V : came = {f}
    BY <1>1 DEF Queued
  <2>3. left = {} \/ \E p \in V : left = {p}
    BY <1>1 DEF Queued
  <2>4. Queued(g)' = (V \ left) \cup came
    <3>1. \A s \in valid_entries' : Tag(entries[s])' =
            IF s \in pushed THEN Tag(push) ELSE Tag(entries[s])
      BY <1>1, <1>2, <1>4 DEF Tag
    <3>2. Queued(g)' = {s \in valid_entries' : Tag(entries[s])' = g}
      BY DEF Queued
    <3> QED BY <1>1, <1>2, <3>1, <3>2 DEF Queued
  <2>5. /\ g \in put <=> came # {}
        /\ (\E p \in popped : Tag(entries[p]) = g) <=> left # {}
    OBVIOUS
  <2> HIDE DEF V, came, left, put
  <2>6. Cardinality((V \ left) \cup came)
          = Cardinality(V) + (IF came = {} THEN 0 ELSE 1) - (IF left = {} THEN 0 ELSE 1)
    BY <2>1, <2>2, <2>3, CardinalityStep
  <2> QED BY <2>1, <2>4, <2>5, <2>6 DEF V
<1>7. Moved(put, popped)
  <2> HIDE DEF put
  <2> QED BY <1>6 DEF Moved
<1> QED BY <1>5, <1>7 DEF popped

\* A step that counts what is admitted and answered is a posting.
LEMMA Posting ==
  ASSUME NEW put, NEW done,
         \A g \in Tags : Unanswered(g)' = Unanswered(g) + (IF g \in put THEN 1 ELSE 0)
                                                       - (IF g \in done THEN 1 ELSE 0)
  PROVE  Ledger!Post(put, done)
<1> DEFINE outstanding == [g \in Tags |-> Unanswered(g)]
<1>1. outstanding' = [g \in Tags |-> Unanswered(g)']
  OBVIOUS
<1>2. \A g \in Tags : outstanding[g] = Unanswered(g)
  OBVIOUS
<1>3. outstanding' = [g \in Tags |-> outstanding[g] + Ledger!One(g, put) - Ledger!One(g, done)]
  <2> HIDE DEF outstanding
  <2> QED BY <1>1, <1>2 DEF Ledger!One
<1> QED BY <1>3 DEF Ledger!Post

\* A descriptor that waits in a slot is an unanswered one of its tag.
LEMMA QueuedCounted ==
  ASSUME IInv, NEW p \in valid_entries
  PROVE  Tag(entries[p]) \in Tags /\ Cardinality(Queued(Tag(entries[p]))) > 0
<1>1. valid_entries \in SUBSET Slots /\ entries[p] \in Commands
  BY DEF IInv, TypeOK
<1> DEFINE Q == Queued(Tag(entries[p]))
<1>2. Q \in SUBSET Slots /\ p \in Q
  BY <1>1 DEF Queued
<1> HIDE DEF Q
<1>3. IsFiniteSet(Q) /\ Cardinality(Q) \in Nat
  BY <1>2, SlotsFinite, FS_CardinalityType
<1>4. Cardinality(Q) # 0
  BY <1>2, <1>3, FS_EmptySet
<1> QED BY <1>1, <1>3, <1>4 DEF Q, Tags

\* Each branch of a clock edge is a step of the ledger: an admission alone, or
\* with the answer to one descriptor, or with the consumption of an answer.
LEMMA ClockPosts ==
  ASSUME PathInv, PathInv', NEW push \in Pushes, NEW enable \in BOOLEAN, NEW pol,
         NEW limit, NEW dma_blocked, NEW finish \in BOOLEAN, NEW outcome,
         NEW response_ready \in BOOLEAN,
         PathClock(push, enable, pol, limit, dma_blocked, finish, outcome,
                   response_ready)
  PROVE  Ledger!LedgerNext
<1> DEFINE offer  == Offer(enable, pol, limit)
           ready  == CmdReady(dma_blocked)
           fires  == QueueReady(enable, offer, ready)
           popped == PoppedSlot(enable, pol, limit, fires)
           answer == IF proc_state = "PROCESSOR_RESPONSE" THEN response_reg ELSE NoResponse
<1>1. PICK put \in Ledger!Admissions : \A g \in Tags :
        /\ Cardinality(Queued(g)) \in Nat
        /\ Cardinality(Queued(g)') = Cardinality(Queued(g))
             + (IF g \in put THEN 1 ELSE 0)
             - (IF \E p \in popped : Tag(entries[p]) = g THEN 1 ELSE 0)
  <2>1. fires \in BOOLEAN
    BY DEF QueueReady
  <2>2. push \in Commands \cup {Unwritten}
    BY DEF Pushes
  <2>3. QueueClock(push # Unwritten, push, enable, pol, limit, fires)
    BY DEF PathClock
  <2>4. IInv
    BY DEF PathInv
  <2> HIDE DEF fires
  <2>5. \E put \in Ledger!Admissions : Moved(put, popped)
    BY <2>1, <2>2, <2>3, <2>4, QueuedStep
  <2> HIDE DEF popped
  <2> QED BY <2>5 DEF Moved
<1>2. \/ /\ proc_state = "PROCESSOR_IDLE" /\ popped = {} /\ ProcessorIdle
         /\ fires => offer = {}
      \/ \E p \in valid_entries :
           /\ proc_state = "PROCESSOR_IDLE" /\ popped = {p} /\ offer = {entries[p]}
           /\ fires
           /\ executor_for_opcode(entries[p].opcode) = "INVALID"
           /\ RejectOpcode(entries[p])
      \/ \E p \in valid_entries :
           /\ proc_state = "PROCESSOR_IDLE" /\ popped = {p} /\ offer = {entries[p]}
           /\ fires
           /\ executor_for_opcode(entries[p].opcode) # "INVALID"
           /\ DispatchCommand(entries[p])
      \/ /\ proc_state = "PROCESSOR_WAIT" /\ popped = {}
         /\ IF Responses[active_target] = NoResponse
              THEN AwaitResponse ELSE CompleteCommand(Responses[active_target])
      \/ /\ proc_state = "PROCESSOR_RESPONSE" /\ popped = {}
         /\ HoldResponse(response_ready)
  <2>1. ProcessorClock(enable, offer, ready, Responses, response_ready)
    BY DEF PathClock
  <2> QED BY <2>1, ClockBranches
<1> HIDE DEF popped, fires, offer
<1>3. \A g : Unanswered(g) = Cardinality(Queued(g))
               + IF proc_state = "PROCESSOR_WAIT" /\ ActiveTag = g THEN 1 ELSE 0
  BY DEF Unanswered
<1>4. \A g : Unanswered(g)' = Cardinality(Queued(g)')
               + IF proc_state' = "PROCESSOR_WAIT" /\ ActiveTag' = g THEN 1 ELSE 0
  BY DEF Unanswered
<1>5. /\ proc_state = "PROCESSOR_RESPONSE" => response_reg # NoResponse
      /\ proc_state' = "PROCESSOR_RESPONSE" => response_reg' # NoResponse
  BY PathAssumption DEF PathInv, ProcessorInv
<1>6. ASSUME Ledger!Post(put, {}), answer' = answer PROVE Ledger!LedgerNext
  BY <1>6 DEF Ledger!LedgerNext, Ledger!Wait
<1>7. CASE proc_state = "PROCESSOR_IDLE" /\ popped = {} /\ ProcessorIdle
  <2>1. proc_state' = "PROCESSOR_IDLE"
    BY <1>7 DEF ProcessorIdle
  <2>2. \A g \in Tags : Unanswered(g)' = Unanswered(g) + (IF g \in put THEN 1 ELSE 0)
                                                       - (IF g \in {} THEN 1 ELSE 0)
    BY <1>1, <1>3, <1>4, <1>7, <2>1
  <2> QED BY <1>6, <1>7, <2>1, <2>2, Posting
<1>8. ASSUME NEW p \in valid_entries, proc_state = "PROCESSOR_IDLE", popped = {p},
             RejectOpcode(entries[p])
      PROVE  Ledger!LedgerNext
  <2> DEFINE tag == Tag(entries[p])
  <2>1. tag \in Tags /\ Cardinality(Queued(tag)) > 0
    BY QueuedCounted DEF PathInv
  <2>2. /\ proc_state' = "PROCESSOR_RESPONSE"
        /\ response_reg'.command_id = tag.command_id
        /\ response_reg'.opcode = tag.opcode
        /\ response_reg'.error = "ERR_OPCODE"
    BY <1>8 DEF RejectOpcode, Tag
  <2>3. \A g : (\E s \in popped : Tag(entries[s]) = g) <=> g \in {tag}
    BY <1>8
  <2> HIDE DEF tag
  <2>4. \A g \in Tags : Unanswered(g)' = Unanswered(g) + (IF g \in put THEN 1 ELSE 0)
                                                       - (IF g \in {tag} THEN 1 ELSE 0)
    BY <1>1, <1>3, <1>4, <1>8, <2>2, <2>3
  <2>5. Ledger!Post(put, {tag})
    BY <2>4, Posting
  <2>6. Unanswered(tag) > 0
    BY <1>1, <1>3, <1>8, <2>1
  <2>7. /\ answer = NoResponse /\ answer' # NoResponse
        /\ answer' = response_reg'
    BY <1>5, <1>8, <2>2
  <2>8. [g \in Tags |-> Unanswered(g)][tag] > 0
    BY <2>1, <2>6
  <2>9. Ledger!Answer(put)
    BY <2>1, <2>2, <2>5, <2>7, <2>8 DEF Ledger!Answer
  <2> QED BY <2>9 DEF Ledger!LedgerNext
<1>9. ASSUME NEW p \in valid_entries, proc_state = "PROCESSOR_IDLE", popped = {p},
             DispatchCommand(entries[p])
      PROVE  Ledger!LedgerNext
  <2> DEFINE tag == Tag(entries[p])
  <2>1. proc_state' = "PROCESSOR_WAIT" /\ ActiveTag' = tag
    BY <1>9 DEF DispatchCommand, ActiveTag, Tag
  <2>2. \A g : (\E s \in popped : Tag(entries[s]) = g) <=> g = tag
    BY <1>9
  <2> HIDE DEF tag
  <2>3. \A g \in Tags : Unanswered(g)' = Unanswered(g) + (IF g \in put THEN 1 ELSE 0)
                                                       - (IF g \in {} THEN 1 ELSE 0)
    BY <1>1, <1>3, <1>4, <1>9, <2>1, <2>2
  <2> QED BY <1>6, <1>9, <2>1, <2>3, Posting
<1>10. CASE proc_state = "PROCESSOR_WAIT" /\ popped = {} /\ AwaitResponse
  <2>1. proc_state' = "PROCESSOR_WAIT" /\ ActiveTag' = ActiveTag
    BY <1>10 DEF AwaitResponse, ActiveTag
  <2>2. \A g \in Tags : Unanswered(g)' = Unanswered(g) + (IF g \in put THEN 1 ELSE 0)
                                                       - (IF g \in {} THEN 1 ELSE 0)
    BY <1>1, <1>3, <1>4, <1>10, <2>1
  <2> QED BY <1>6, <1>10, <2>1, <2>2, Posting
<1>11. ASSUME NEW rsp, proc_state = "PROCESSOR_WAIT", popped = {}, CompleteCommand(rsp)
       PROVE  Ledger!LedgerNext
  <2>1. ActiveTag \in Tags /\ active_opcode \in LegalOpcodes
    BY <1>11 DEF PathInv, ProcessorInv
  <2>2. ActiveTag.command_id = active_command_id /\ ActiveTag.opcode = active_opcode
    BY DEF ActiveTag
  <2>3. /\ proc_state' = "PROCESSOR_RESPONSE"
        /\ response_reg'.command_id = active_command_id
        /\ response_reg'.opcode = active_opcode
    BY <1>11 DEF CompleteCommand
  <2>4. \A g \in Tags : Unanswered(g)' = Unanswered(g) + (IF g \in put THEN 1 ELSE 0)
                                                - (IF g \in {ActiveTag} THEN 1 ELSE 0)
    BY <1>1, <1>3, <1>4, <1>11, <2>3
  <2>5. Ledger!Post(put, {ActiveTag})
    BY <2>4, Posting
  <2>6. Unanswered(ActiveTag) > 0
    BY <1>1, <1>3, <1>11, <2>1
  <2>7. /\ answer = NoResponse /\ answer' # NoResponse
        /\ answer' = response_reg'
    BY <1>5, <1>11, <2>3
  <2>8. [g \in Tags |-> Unanswered(g)][ActiveTag] > 0
    BY <2>1, <2>6
  <2>9. Ledger!Answer(put)
    BY <2>1, <2>2, <2>3, <2>5, <2>7, <2>8 DEF Ledger!Answer, LegalOpcodes
  <2> QED BY <2>9 DEF Ledger!LedgerNext
<1>12. CASE proc_state = "PROCESSOR_RESPONSE" /\ popped = {} /\ HoldResponse(response_ready)
  <2>1. /\ response_reg' = response_reg
        /\ proc_state' = IF response_ready THEN "PROCESSOR_IDLE" ELSE "PROCESSOR_RESPONSE"
    BY <1>12 DEF HoldResponse
  <2>2. \A g \in Tags : Unanswered(g)' = Unanswered(g) + (IF g \in put THEN 1 ELSE 0)
                                                       - (IF g \in {} THEN 1 ELSE 0)
    BY <1>1, <1>3, <1>4, <1>12, <2>1
  <2>3. Ledger!Post(put, {})
    BY <2>2, Posting
  <2>4. CASE response_ready
    <3>1. answer # NoResponse /\ answer' = NoResponse
      BY <1>5, <1>12, <2>1, <2>4
    <3>2. Ledger!Consume(put)
      BY <2>3, <3>1 DEF Ledger!Consume
    <3> QED BY <3>2 DEF Ledger!LedgerNext
  <2>5. CASE ~response_ready
    <3>1. answer' = answer
      BY <1>12, <2>1, <2>5
    <3> QED BY <1>6, <2>3, <3>1
  <2> QED BY <2>4, <2>5
<1> QED BY <1>2, <1>7, <1>8, <1>9, <1>10, <1>11, <1>12

\* ImplementsLedger of the specification: every step of queue, processor and
\* executors together posts to the ledger or leaves it alone.
THEOREM PathImplementsLedger == FairSpec => ImplementsLedger
<1>1. ASSUME PathInit PROVE Ledger!LedgerInit
  <2>1. \A g : Queued(g) = {}
    BY <1>1 DEF PathInit, QueueInit, Queued
  <2>2. Cardinality({}) = 0
    BY FS_EmptySet
  <2>3. \A g : Unanswered(g) = 0
    BY <1>1, <2>1, <2>2 DEF PathInit, ProcessorInit, Unanswered
  <2> QED BY <1>1, <2>3 DEF PathInit, ProcessorInit, Ledger!LedgerInit
<1>2. ASSUME PathInv, PathInv', [PathNext]_pathVars
      PROVE  [Ledger!LedgerNext]_Ledger!ledgerVars
  <2>1. CASE PathReset
    <3>1. \A g : Queued(g)' = {}
      BY <2>1 DEF PathReset, QueueReset, Queued
    <3>2. Cardinality({}) = 0
      BY FS_EmptySet
    <3>3. \A g : Unanswered(g)' = 0
      BY <2>1, <3>1, <3>2 DEF PathReset, ProcessorReset, Unanswered
    <3>4. Ledger!Clear
      BY <2>1, <3>3 DEF PathReset, ProcessorReset, Ledger!Clear, Ledger!LedgerInit
    <3> QED BY <3>4 DEF Ledger!LedgerNext
  <2>2. CASE PathNext /\ ~PathReset
    <3>1. PICK enable \in BOOLEAN, dma_blocked \in BOOLEAN, finish \in BOOLEAN,
               response_ready \in BOOLEAN :
            Cycle(enable, dma_blocked, finish, response_ready)
      BY <2>2, PathSteps
    <3>2. PICK push \in Pushes, pol \in Policies, limit \in Thresholds :
            \E outcome \in IF finish THEN Outcomes ELSE {Unwritten} :
              PathClock(push, enable, pol, limit, dma_blocked, finish,
                        outcome, response_ready)
      BY <3>1 DEF Cycle
    <3> QED BY <1>2, <3>2, ClockPosts
  <2>3. CASE UNCHANGED pathVars
    BY <2>3 DEF pathVars, queueVars, processorVars, Ledger!ledgerVars, Unanswered, Queued,
                ActiveTag
  <2> QED BY <1>2, <2>1, <2>2, <2>3
<1> QED BY <1>1, <1>2, PathInductive, PTL
        DEF FairSpec, ImplementsLedger, Ledger!LedgerSpec
=============================================================================
