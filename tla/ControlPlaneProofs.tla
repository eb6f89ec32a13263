------------------------- MODULE ControlPlaneProofs -------------------------
(***************************************************************************)
(* The control plane for every program of driver calls, queue depth and    *)
(* behaviour of bus and executors.                                         *)
(***************************************************************************)
EXTENDS ControlPlane, FiniteSetTheorems, WellFoundedInduction, TLAPS

----------------------------------------------------------------------------
(* The mirrored policy bit. *)

\* PolicyMirrored is inductive once the registers are known to exist.
PolicyInv == DOMAIN regs = StoredOffsets /\ PolicyMirrored

\* A bit of the lowest byte after a strobed write.
LEMMA LowByteMerge ==
  ASSUME NEW old, NEW new, NEW strobe, NEW bit \in 0 .. 7
  PROVE  bit \in merge_by_strobe(old, new, strobe)
           <=> IF 0 \in strobe THEN bit \in new ELSE bit \in old
<1>1. bit \div 8 = 0
  OBVIOUS
<1> QED BY <1>1 DEF merge_by_strobe, Strobed, BITS_PER_BYTE

\* A register write keeps the two copies equal, whichever register and
\* whichever byte lanes it writes.
LEMMA WriteKeepsMirror ==
  ASSUME PolicyInv, NEW in, WriteRegisters(in)
  PROVE  PolicyInv'
<1> DEFINE merged == merge_by_strobe(regs[aw], w.data, w.strobe)
<1>1. "REG_CTRL" \in StoredOffsets /\ "REG_SCHED_CTRL" \in StoredOffsets
      /\ "REG_DMA_CTRL" \in StoredOffsets
  BY DEF StoredOffsets
<1>2. \A bit \in 0 .. 7 : bit \in merged
        <=> IF 0 \in w.strobe THEN bit \in w.data ELSE bit \in regs[aw]
  BY LowByteMerge
<1> USE DEF PolicyInv, PolicyMirrored, scheduler_priority_mode, CTRL_PRIORITY_POLICY,
            SCHED_POLICY, CTRL_PERF_CLEAR, DMA_CTRL_START
<1> HIDE DEF merged
<1>3. CASE ~(write_side_effect(in) /\ aw \in StoredOffsets)
  BY <1>3 DEF WriteRegisters
<1>4. CASE write_side_effect(in) /\ aw \in StoredOffsets
  <2>1. CASE aw = "REG_CTRL"
    BY <1>1, <1>2, <1>4, <2>1 DEF WriteRegisters, merged
  <2>2. CASE aw = "REG_SCHED_CTRL"
    BY <1>1, <1>2, <1>4, <2>2 DEF WriteRegisters, merged
  <2>3. CASE aw # "REG_CTRL" /\ aw # "REG_SCHED_CTRL"
    BY <1>1, <1>4, <2>3 DEF WriteRegisters
  <2> QED BY <2>1, <2>2, <2>3
<1> QED BY <1>3, <1>4

\* The mirrored bits agree after every step.
LEMMA PolicyInductive ==
  /\ Init => PolicyInv
  /\ PolicyInv /\ [Next]_vars => PolicyInv'
<1>1. Init => PolicyInv
  BY DEF Init, RegisterInit, PolicyInv, PolicyMirrored, scheduler_priority_mode, StoredOffsets
<1>2. ASSUME PolicyInv, Tick PROVE PolicyInv'
  <2>1. \E in : WriteRegisters(in)
    BY <1>2 DEF Tick, Clock, RegisterClock
  <2> QED BY <1>2, <2>1, WriteKeepsMirror
<1>3. ASSUME PolicyInv, Reset PROVE PolicyInv'
  BY <1>3 DEF Reset, RegisterReset, PolicyInv, PolicyMirrored, scheduler_priority_mode,
              StoredOffsets
<1>4. ASSUME PolicyInv, UNCHANGED vars PROVE PolicyInv'
  BY <1>4 DEF vars, registerVars, PolicyInv, PolicyMirrored, scheduler_priority_mode
<1> QED BY <1>1, <1>2, <1>3, <1>4 DEF Next

\* CTRL and SCHED_CTRL show the same policy after any sequence of writes.
THEOREM PolicyStaysMirrored == Spec => []PolicyMirrored
<1>1. PolicyInv => PolicyMirrored
  BY DEF PolicyInv
<1> QED BY <1>1, PolicyInductive, PTL DEF Spec

----------------------------------------------------------------------------
(* Writes on the bus. *)

\* At most one write is in the block: its address and its data, accepted in
\* either order, are those of the first access, and both are gone when its
\* response is there.
BusInv ==
  /\ sent = [aw |-> IF aw # None \/ b # None THEN 1 ELSE 0,
             w |-> IF w # None \/ b # None THEN 1 ELSE 0]
  /\ aw # None \/ w # None \/ b # None => access # <<>> /\ Head(access).write
  /\ aw # None => aw = Head(access).offset
  /\ w # None => w = [data |-> Head(access).data, strobe |-> Head(access).strobe]
  /\ b # None => aw = None /\ w = None
  /\ r # None => access # <<>> /\ ~Head(access).write
  /\ executed = IF b # None THEN 1 ELSE 0

\* What the manager offers is the first access, as long as nothing of it was
\* accepted on that channel.
LEMMA OfferIsFirst ==
  ASSUME BusInv, NEW offer_aw \in BOOLEAN, NEW offer_w \in BOOLEAN, NEW offer_ar \in BOOLEAN,
         NEW ready \in BOOLEAN, NEW bus, bus = Bus(offer_aw, offer_w, offer_ar, ready)
  PROVE  /\ bus.aw # None /\ awready => access # <<>> /\ Head(access).write
                                        /\ bus.aw = Head(access).offset
         /\ bus.w # None /\ wready =>
              /\ access # <<>> /\ Head(access).write
              /\ bus.w = [data |-> Head(access).data, strobe |-> Head(access).strobe]
         /\ bus.ar # None => access # <<>> /\ ~Head(access).write /\ r = None
         /\ bus.bready = ready /\ bus.rready = ready
<1>1. Len(<<>>) = 0 /\ Head(access) = access[1]
  OBVIOUS
<1>2. CanSend(0) => access # <<>> /\ Head(access).write
  <2>1. ASSUME CanSend(0) PROVE access[1].write
    BY <2>1 DEF CanSend
  <2> QED BY <1>1, <2>1 DEF CanSend
<1>3. awready => sent.aw = 0
  BY DEF BusInv, awready
<1>4. wready => sent.w = 0
  BY DEF BusInv, wready
<1>5. bus.aw # None => CanSend(sent.aw) /\ bus.aw = access[sent.aw + 1].offset
  BY DEF Bus
<1>6. bus.w # None =>
        /\ CanSend(sent.w)
        /\ bus.w = [data |-> access[sent.w + 1].data, strobe |-> access[sent.w + 1].strobe]
  BY DEF Bus
<1>7. bus.aw # None /\ awready => CanSend(0) /\ bus.aw = access[1].offset
  BY <1>3, <1>5
<1>8. bus.w # None /\ wready =>
        CanSend(0) /\ bus.w = [data |-> access[1].data, strobe |-> access[1].strobe]
  BY <1>4, <1>6
<1>9. /\ bus.ar # None => access # <<>> /\ ~Head(access).write /\ r = None
      /\ bus.bready = ready /\ bus.rready = ready
  BY DEF Bus
<1> QED BY <1>1, <1>2, <1>7, <1>8, <1>9

\* The bus and the software in one edge.
LEMMA EdgeKeepsBus ==
  ASSUME BusInv, Tick
  PROVE  BusInv'
<1>0. PICK offer_aw \in BOOLEAN, offer_w \in BOOLEAN, offer_ar \in BOOLEAN, ready \in BOOLEAN :
        \E bus, finish, accel, rsp, pop :
          bus = Bus(offer_aw, offer_w, offer_ar, ready) /\ Clock(bus, finish, accel, rsp, pop)
  BY DEF Tick, BusMoves
<1>1. PICK bus, finish, accel, rsp, pop :
        bus = Bus(offer_aw, offer_w, offer_ar, ready) /\ Clock(bus, finish, accel, rsp, pop)
  BY <1>0
<1> DEFINE in == Inputs(finish, accel, rsp)
<1>2. /\ Channels(bus, in)
      /\ IF SoftwareDone THEN UNCHANGED softwareVars ELSE Software(bus)
      /\ executed' = IF b # None /\ bus.bready THEN 0
                     ELSE IF write_execute THEN executed + 1 ELSE executed
  BY <1>1 DEF Clock, RegisterClock, History
<1> HIDE DEF in
<1>3. /\ bus.aw # None /\ awready => access # <<>> /\ Head(access).write
                                     /\ bus.aw = Head(access).offset
      /\ bus.w # None /\ wready =>
           /\ access # <<>> /\ Head(access).write
           /\ bus.w = [data |-> Head(access).data, strobe |-> Head(access).strobe]
      /\ bus.ar # None => access # <<>> /\ ~Head(access).write /\ r = None
      /\ bus.bready = ready /\ bus.rready = ready
  BY <1>1, OfferIsFirst
<1> USE DEF BusInv, awready, wready, write_execute, read_execute, arready
\* Nothing to do, or the next call begins.
<1>4. CASE access = <<>>
  <2>1. aw = None /\ w = None /\ b = None /\ r = None
    BY <1>4
  <2>2. aw' = None /\ w' = None /\ b' = None /\ r' = None
    BY <1>2, <1>3, <1>4, <2>1 DEF Channels
  <2>3. sent' = sent
    BY <1>2, <1>4 DEF Software, softwareVars
  <2> QED BY <1>2, <1>4, <2>1, <2>2, <2>3
<1>5. CASE access # <<>>
  <2>1. Software(bus)
    BY <1>2, <1>5 DEF SoftwareDone
  <2> DEFINE taken(valid, rdy) == IF valid /\ rdy THEN 1 ELSE 0
             answered == b # None /\ bus.bready
             returned == r # None /\ bus.rready
  <2>2. /\ ~answered /\ ~returned => access' = access
        /\ sent' = IF answered THEN [aw |-> sent.aw + taken(bus.aw # None, awready) - 1,
                                     w |-> sent.w + taken(bus.w # None, wready) - 1]
                   ELSE [aw |-> sent.aw + taken(bus.aw # None, awready),
                         w |-> sent.w + taken(bus.w # None, wready)]
    BY <1>5, <2>1 DEF Software
  <2>3. CASE answered
    <3>1. aw' = None /\ w' = None /\ b' = None /\ r' = None
      BY <1>2, <1>3, <2>3 DEF Channels
    <3>2. sent' = [aw |-> 0, w |-> 0] /\ executed' = 0
      BY <1>2, <2>2, <2>3
    <3> QED BY <3>1, <3>2
  <2>4. CASE returned
    <3>1. aw' = None /\ w' = None /\ b' = None /\ r' = None
      BY <1>2, <1>3, <2>4 DEF Channels
    <3>2. sent' = [aw |-> 0, w |-> 0] /\ executed' = 0
      BY <1>2, <1>3, <2>2, <2>4
    <3> QED BY <3>1, <3>2
  <2>5. CASE ~answered /\ ~returned
    <3>1. access' = access
      BY <2>2, <2>5
    <3>2. CASE write_execute
      <4>1. aw' = None /\ w' = None /\ b' # None /\ r' = r
        BY <1>2, <1>3, <3>2, <2>5, ControlAssumption DEF Channels
      <4> QED BY <1>2, <2>2, <2>5, <3>1, <3>2, <4>1
    <3>3. CASE ~write_execute
      <4>1. /\ aw' = IF bus.aw # None /\ awready THEN bus.aw ELSE aw
            /\ w' = IF bus.w # None /\ wready THEN bus.w ELSE w
            /\ b' = b
            /\ r' # None => access # <<>> /\ ~Head(access).write
        BY <1>2, <1>3, <2>5, <3>3 DEF Channels
      <4> QED BY <1>2, <1>3, <2>2, <2>5, <3>1, <3>3, <4>1
    <3> QED BY <3>2, <3>3
  <2> QED BY <2>3, <2>4, <2>5
<1> QED BY <1>4, <1>5

\* What the bus holds belongs to the first unanswered access, in every step.
LEMMA BusInductive ==
  /\ Init => BusInv
  /\ BusInv /\ [Next]_vars => BusInv'
<1>1. Init => BusInv
  BY DEF Init, RegisterInit, BusInv
<1>2. BusInv /\ Reset => BusInv'
  BY DEF Reset, RegisterReset, BusInv
<1>3. BusInv /\ UNCHANGED vars => BusInv'
  BY DEF vars, registerVars, softwareVars, historyVars, BusInv
<1> QED BY <1>1, <1>2, <1>3, EdgeKeepsBus DEF Next

\* Each write is executed once, with its own data and in program order,
\* whatever the order of addresses and data on the two channels.
THEOREM WritesExecuteOnce == Spec => []WriteOnce
<1>1. BusInv => WriteOnce
  BY DEF BusInv, WriteOnce, write_execute
<1> QED BY <1>1, BusInductive, PTL DEF Spec

----------------------------------------------------------------------------
(* Admission of commands. *)

\* A staged command finds room in the queue, so it is gone after one cycle.
AdmissionInv ==
  /\ occupancy \in 0 .. QUEUE_DEPTH
  /\ cmd_valid => occupancy < QUEUE_DEPTH
  /\ AdmittedAsSubmitted

\* A clock edge keeps room for a staged descriptor and admits it as submitted.
LEMMA EdgeKeepsAdmission ==
  ASSUME AdmissionInv, Tick
  PROVE  AdmissionInv'
<1>1. PICK bus, finish, accel, rsp, pop : pop \in Pops /\ Clock(bus, finish, accel, rsp, pop)
  BY DEF Tick
<1> DEFINE in == Inputs(finish, accel, rsp)
<1>2. /\ in.queue_full = (occupancy = QUEUE_DEPTH)
      /\ in.cmd_ready = (occupancy < QUEUE_DEPTH)
  BY DEF Inputs
<1>3. /\ Platform(finish, rsp, pop)
      /\ WriteRegisters(in)
      /\ CommandStaging(in)
      /\ submitted' = IF write_side_effect(in) /\ Submits THEN Descriptor ELSE submitted
  BY <1>1 DEF Clock, RegisterClock, History
<1> HIDE DEF in
<1>4. pop => occupancy > 0
  BY <1>1 DEF Pops
<1>5. occupancy' \in 0 .. QUEUE_DEPTH
  <2>1. occupancy' = occupancy + (IF cmd_valid /\ occupancy < QUEUE_DEPTH THEN 1 ELSE 0)
                       - (IF pop THEN 1 ELSE 0)
    BY <1>3 DEF Platform
  <2> QED BY <1>4, <2>1, ControlAssumption DEF AdmissionInv
\* The staged command leaves, so only a new submission can be staged next.
<1>6. cmd_valid' => write_side_effect(in) /\ Submits
  BY <1>2, <1>3 DEF CommandStaging, AdmissionInv, Writes, Submits
<1>7. ASSUME cmd_valid' PROVE occupancy' < QUEUE_DEPTH
  <2>1. write_error(in) = "ERR_NONE" /\ Submits
    BY <1>6, <1>7 DEF write_side_effect
  <2>2. ~cmd_valid /\ occupancy # QUEUE_DEPTH
    <3>1. aw \in is_legal_offset /\ aw \notin is_read_only_offset /\ aw # "REG_DMA_CTRL"
      BY <2>1 DEF Submits, is_legal_offset, is_read_only_offset, is_write_only_offset
    <3> DEFINE taken == cmd_valid \/ in.queue_full \/ in.cmd_full
    <3>2. taken => write_error(in) = "ERR_QUEUE_FULL"
      BY <2>1, <3>1 DEF write_error
    <3> QED BY <1>2, <2>1, <3>2
  <2>3. occupancy' = occupancy - (IF pop THEN 1 ELSE 0)
    BY <1>3, <2>2, ControlAssumption DEF Platform, AdmissionInv
  <2> QED BY <1>2, <2>2, <2>3, ControlAssumption DEF AdmissionInv
\* The submission itself writes no stored register.
<1>8. ASSUME cmd_valid' PROVE Descriptor' = submitted'
  <2>1. Submits /\ submitted' = Descriptor
    BY <1>3, <1>6, <1>8
  <2>2. regs' = regs
    BY <1>3, <2>1 DEF WriteRegisters, Submits, StoredOffsets, CommandFields
  <2> QED BY <2>1, <2>2 DEF Descriptor
<1> QED BY <1>5, <1>7, <1>8 DEF AdmissionInv, AdmittedAsSubmitted

\* So does every other step.
LEMMA AdmissionInductive ==
  /\ Init => AdmissionInv
  /\ AdmissionInv /\ [Next]_vars => AdmissionInv'
<1>1. Init => AdmissionInv
  BY ControlAssumption DEF Init, RegisterInit, AdmissionInv, AdmittedAsSubmitted
<1>2. AdmissionInv /\ Reset => AdmissionInv'
  BY ControlAssumption DEF Reset, RegisterReset, AdmissionInv, AdmittedAsSubmitted
<1>3. AdmissionInv /\ UNCHANGED vars => AdmissionInv'
  BY DEF vars, registerVars, platformVars, historyVars, AdmissionInv, AdmittedAsSubmitted,
         Descriptor
<1> QED BY <1>1, <1>2, <1>3, EdgeKeepsAdmission DEF Next

\* The queue takes the descriptor as it was when the submission was accepted.
THEOREM AdmissionIsAsSubmitted == Spec => []AdmittedAsSubmitted
<1>1. AdmissionInv => AdmittedAsSubmitted
  BY DEF AdmissionInv
<1> QED BY <1>1, AdmissionInductive, PTL DEF Spec

----------------------------------------------------------------------------
(* Interrupts. *)

\* The accesses of a call whose acknowledgements follow their polls.
Disciplined(call) ==
  /\ call \in Seq(Access)
  /\ \A i \in 2 .. Len(call) : Acknowledges(call[i]) => PolledBefore(call, i)

\* What is acknowledged was read: the bits a write of IRQ_STATUS is going to
\* clear are in seen from the read that returned them until the clear.
SeenInv ==
  /\ Disciplined(access)
  /\ calls \in Seq(Seq(Access))
  /\ \A k \in 1 .. Len(calls) :
       Disciplined(calls[k]) /\ (calls[k] # <<>> => ~Acknowledges(calls[k][1]))
  /\ access # <<>> /\ b = None /\ Acknowledges(access[1])
       => access[1].data \cap IRQ_SOURCES \subseteq seen
  /\ irq_clear \subseteq seen
  /\ irq_clear # {} => b # None
  /\ r # None /\ access[1].offset = "REG_IRQ_STATUS" => r.data = seen
  /\ irq_pending \subseteq IRQ_SOURCES
  /\ seen \subseteq IRQ_SOURCES
  /\ UnreadInterruptKept

\* What an edge does to pending, seen and owed.
LEMMA PendingStep ==
  ASSUME SeenInv, NEW sources, sources \subseteq IRQ_SOURCES, NEW sampling \in BOOLEAN,
         irq_pending' = next_pending(sources, irq_clear),
         seen' = IF sampling THEN irq_pending ELSE IF irq_clear # {} THEN {} ELSE seen,
         owed' = (IF sampling THEN {} ELSE IF irq_clear # {} THEN owed \ seen ELSE owed)
                   \cup sources
  PROVE  irq_pending' \subseteq IRQ_SOURCES /\ seen' \subseteq IRQ_SOURCES
         /\ UnreadInterruptKept'
<1> USE DEF SeenInv, UnreadInterruptKept, next_pending
<1>1. CASE sampling
  BY <1>1
<1>2. CASE ~sampling /\ irq_clear # {}
  BY <1>2
<1>3. CASE ~sampling /\ irq_clear = {}
  BY <1>3
<1> QED BY <1>1, <1>2, <1>3

\* The rest of a disciplined call acknowledges only what was polled before it.
LEMMA DisciplinedTail ==
  ASSUME NEW call, Disciplined(call), call # <<>>
  PROVE  /\ Disciplined(Tail(call))
         /\ Tail(call) # <<>> => /\ Tail(call)[1] = call[2]
                                 /\ Acknowledges(call[2]) => PolledBefore(call, 2)
<1> DEFINE rest == Tail(call)
<1>1. /\ rest \in Seq(Access)
      /\ Len(rest) = Len(call) - 1
      /\ Len(call) \in Nat
      /\ \A i \in 1 .. Len(rest) : rest[i] = call[i + 1]
  BY DEF Disciplined
<1>2. ASSUME NEW i \in 2 .. Len(rest), Acknowledges(rest[i]) PROVE PolledBefore(rest, i)
  <2>1. rest[i] = call[i + 1] /\ rest[i - 1] = call[i] /\ i + 1 \in 2 .. Len(call)
        /\ (i + 1) - 1 = i
    BY <1>1
  <2>2. PolledBefore(call, i + 1)
    BY <1>2, <2>1 DEF Disciplined
  <2> QED BY <2>1, <2>2 DEF PolledBefore
<1>3. ASSUME rest # <<>>
      PROVE  rest[1] = call[2] /\ (Acknowledges(call[2]) => PolledBefore(call, 2))
  <2>1. 1 \in 1 .. Len(rest) /\ 2 \in 2 .. Len(call)
    BY <1>1, <1>3
  <2> QED BY <1>1, <2>1 DEF Disciplined
<1> QED BY <1>1, <1>2, <1>3 DEF Disciplined

\* Another access before a call keeps it disciplined.
LEMMA DisciplinedPrefixed ==
  ASSUME NEW rest, Disciplined(rest), NEW first \in Access,
         rest # <<>> => ~Acknowledges(rest[1])
  PROVE  Disciplined(<<first>> \o rest) /\ (<<first>> \o rest)[1] = first
<1> DEFINE call == <<first>> \o rest
<1>1. /\ call \in Seq(Access)
      /\ Len(call) = Len(rest) + 1
      /\ Len(rest) \in Nat
      /\ call[1] = first
      /\ \A i \in 1 .. Len(rest) : call[i + 1] = rest[i]
  BY DEF Disciplined
<1> HIDE DEF call
<1>2. ASSUME NEW i \in 2 .. Len(call), Acknowledges(call[i]) PROVE PolledBefore(call, i)
  <2>1. i - 1 \in 1 .. Len(rest) /\ (i - 1) + 1 = i
    BY <1>1
  <2>2. call[i] = rest[i - 1]
    BY <1>1, <2>1
  <2>3. i - 1 # 1
    BY <1>2, <2>1, <2>2
  <2>4. i - 1 \in 2 .. Len(rest) /\ i - 2 \in 1 .. Len(rest) /\ (i - 2) + 1 = i - 1
        /\ (i - 1) - 1 = i - 2
    BY <2>1, <2>3
  <2>5. call[i - 1] = rest[i - 2]
    BY <1>1, <2>4
  <2>6. PolledBefore(rest, i - 1)
    BY <1>2, <2>2, <2>4 DEF Disciplined
  <2> QED BY <2>2, <2>4, <2>5, <2>6 DEF PolledBefore
<1> QED BY <1>1, <1>2 DEF Disciplined, call

\* The ways a call goes on after a read: it ends, polls again, continues, or
\* first acknowledges the interrupts it read.
LEMMA WhatIsLeft ==
  ASSUME NEW data
  PROVE  LET next == AfterRead(data)
             first == Head(access)
         IN  \/ next = <<>>
             \/ next = access /\ first.until # {}
             \/ next = Tail(access) /\ (first.until # {} => first.until \subseteq data)
             \/ /\ next = <<write("REG_IRQ_STATUS", data)>> \o Tail(access)
                /\ first.offset = "REG_IRQ_STATUS" /\ first.until = {}
<1>1. CASE Head(access).until # {}
  BY <1>1 DEF AfterRead
<1>2. CASE Head(access).until = {}
  BY <1>2 DEF AfterRead
<1> QED BY <1>1, <1>2

\* What the driver goes on with after a read: an acknowledgement that comes
\* first is covered by what was read.
LEMMA AfterReadDisciplined ==
  ASSUME SeenInv, access # <<>>, ~Head(access).write, r # None
  PROVE  LET next == AfterRead(r.data)
         IN  /\ Disciplined(next)
             /\ next # <<>> /\ Acknowledges(next[1])
                  => next[1].data \cap IRQ_SOURCES \subseteq seen
<1> DEFINE rest == Tail(access)
           next == AfterRead(r.data)
           ack == write("REG_IRQ_STATUS", r.data)
<1>1. /\ Disciplined(access) /\ access \in Seq(Access)
      /\ Head(access) = access[1]
      /\ access[1].offset = "REG_IRQ_STATUS" => r.data = seen
      /\ seen \subseteq IRQ_SOURCES
  BY DEF SeenInv, Disciplined
<1>2. /\ Disciplined(rest)
      /\ rest # <<>> => /\ rest[1] = access[2]
                        /\ Acknowledges(access[2]) => PolledBefore(access, 2)
  BY <1>1, DisciplinedTail
<1>3. 2 - 1 = 1
  OBVIOUS
<1>4. rest # <<>> /\ Acknowledges(rest[1])
        => /\ access[1].offset = "REG_IRQ_STATUS"
           /\ rest[1].data \cap IRQ_SOURCES \subseteq access[1].until
           /\ access[1].until # {}
  BY <1>2, <1>3 DEF PolledBefore, Acknowledges
<1>5. CASE next = <<>>
  BY <1>5 DEF Disciplined
<1>6. CASE next = access
  BY <1>1, <1>6 DEF Acknowledges
<1>7. CASE next = rest /\ (access[1].until # {} => access[1].until \subseteq r.data)
  BY <1>1, <1>2, <1>4, <1>7
<1>8. CASE /\ next = <<ack>> \o rest
           /\ access[1].offset = "REG_IRQ_STATUS"
           /\ access[1].until = {}
  <2>1. ack \in Access /\ ack.data = seen
    <3>1. r.data = seen /\ seen \in SUBSET (0 .. 31) /\ {} \in SUBSET (0 .. 31)
      BY <1>1, <1>8 DEF IRQ_SOURCES
    <3>2. ack = [offset |-> "REG_IRQ_STATUS", data |-> seen, strobe |-> Lanes,
                 write |-> TRUE, until |-> {}]
      BY <3>1 DEF write, AllLanes
    <3>3. "REG_IRQ_STATUS" \in Offsets
      BY DEF Offsets, is_legal_offset
    <3> HIDE DEF ack
    <3>4. ack.data = seen
      BY <3>2
    <3>5. ack \in Access
      BY <3>1, <3>2, <3>3 DEF Access
    <3> QED BY <3>4, <3>5
  <2>2. rest # <<>> => ~Acknowledges(rest[1])
    BY <1>4, <1>8
  <2>3. Disciplined(next) /\ next[1] = ack
    BY <1>2, <1>8, <2>1, <2>2, DisciplinedPrefixed
  <2> QED BY <2>1, <2>3
<1>9. \/ next = <<>>
      \/ next = access
      \/ next = rest /\ (access[1].until # {} => access[1].until \subseteq r.data)
      \/ next = <<ack>> \o rest /\ access[1].offset = "REG_IRQ_STATUS" /\ access[1].until = {}
  BY <1>1, WhatIsLeft
<1> QED BY <1>5, <1>6, <1>7, <1>8, <1>9

\* The events of a cycle are interrupt sources.
LEMMA SourcesAreSources ==
  ASSUME NEW finish, NEW accel, NEW rsp
  PROVE  Sources(finish, accel, rsp) \subseteq IRQ_SOURCES
<1>1. \A bit \in IRQ_SOURCES : \A c : Bit(bit, c) \subseteq IRQ_SOURCES
  BY DEF Bit
<1>2. {IRQ_DMA_DONE, IRQ_CMD_DONE, IRQ_ACCEL_DONE, IRQ_ERROR, IRQ_TIMER} \subseteq IRQ_SOURCES
  BY DEF IRQ_SOURCES, IRQ_DMA_DONE, IRQ_CMD_DONE, IRQ_ACCEL_DONE, IRQ_ERROR, IRQ_TIMER
<1> QED BY <1>1, <1>2 DEF Sources

\* The bits a write executed in this cycle will clear were read before.
LEMMA ClearIsSeen ==
  ASSUME BusInv, SeenInv, write_execute, NEW in
  PROVE  /\ Writes("REG_IRQ_STATUS", in) => write_active_data \cap IRQ_SOURCES \subseteq seen
         /\ irq_clear = {}
<1>1. /\ access # <<>> /\ Head(access).write /\ b = None
      /\ aw = Head(access).offset
      /\ w = [data |-> Head(access).data, strobe |-> Head(access).strobe]
      /\ Head(access) = access[1]
  BY DEF BusInv, write_execute
<1>2. w.data = access[1].data
  BY <1>1
<1>3. write_active_data \subseteq access[1].data
  BY <1>2 DEF write_active_data, Strobed
<1>4. irq_clear = {}
  BY <1>1 DEF SeenInv
<1>5. ASSUME Writes("REG_IRQ_STATUS", in), write_active_data \cap IRQ_SOURCES # {}
      PROVE  write_active_data \cap IRQ_SOURCES \subseteq seen
  <2>1. Acknowledges(access[1])
    BY <1>1, <1>3, <1>5 DEF Acknowledges, Writes
  <2> QED BY <1>1, <1>3, <2>1 DEF SeenInv
<1> QED BY <1>4, <1>5

\* A clock edge clears only interrupts that software saw.
LEMMA EdgeKeepsSeen ==
  ASSUME BusInv, SeenInv, Tick
  PROVE  SeenInv'
<1>0. PICK offer_aw \in BOOLEAN, offer_w \in BOOLEAN, offer_ar \in BOOLEAN, ready \in BOOLEAN :
        \E bus, finish, accel, rsp, pop :
          bus = Bus(offer_aw, offer_w, offer_ar, ready) /\ Clock(bus, finish, accel, rsp, pop)
  BY DEF Tick, BusMoves
<1>1. PICK bus, finish, accel, rsp, pop :
        bus = Bus(offer_aw, offer_w, offer_ar, ready) /\ Clock(bus, finish, accel, rsp, pop)
  BY <1>0
<1> DEFINE in == Inputs(finish, accel, rsp)
           sources == Sources(finish, accel, rsp)
           sampling == read_execute(bus) /\ bus.ar = "REG_IRQ_STATUS"
<1>2. /\ Channels(bus, in)
      /\ WritePulses(in)
      /\ irq_pending' = next_pending(sources, irq_clear)
      /\ IF SoftwareDone THEN UNCHANGED softwareVars ELSE Software(bus)
      /\ seen' = IF sampling THEN irq_pending ELSE IF irq_clear # {} THEN {} ELSE seen
      /\ owed' = (IF sampling THEN {} ELSE IF irq_clear # {} THEN owed \ seen ELSE owed)
                   \cup sources
  BY <1>1 DEF Clock, RegisterClock, History, IrqClock
<1>3. in.irq_pending = irq_pending
  BY DEF Inputs
<1>4. sources \subseteq IRQ_SOURCES
  BY SourcesAreSources
<1> HIDE DEF in, sources
<1>5. /\ bus.ar # None => /\ access # <<>> /\ ~Head(access).write /\ r = None
                          /\ bus.ar = Head(access).offset
      /\ bus.bready = ready /\ bus.rready = ready
  BY <1>1, OfferIsFirst DEF Bus
<1>6. irq_pending' \subseteq IRQ_SOURCES /\ seen' \subseteq IRQ_SOURCES /\ UnreadInterruptKept'
  BY <1>2, <1>4, PendingStep
<1>7. Head(access) = access[1] /\ Head(access') = access'[1]
  OBVIOUS
\* The clear of an executed write.
<1>8. /\ irq_clear' # {} => b' # None /\ write_execute
      /\ irq_clear' \subseteq seen'
  <2>1. CASE write_execute
    <3>1. irq_clear = {}
      BY <2>1, ClearIsSeen
    <3>2. Head(access).write
      BY <2>1 DEF BusInv, write_execute
    <3>3. ~sampling
      BY <1>5, <3>2 DEF read_execute
    <3>4. seen' = seen
      BY <1>2, <3>1, <3>3
    <3>5. irq_clear' \subseteq seen
      BY <1>2, <2>1, ClearIsSeen DEF WritePulses
    <3>6. b' # None
      <4>1. b' \in {"OKAY", "SLVERR"}
        BY <1>2, <2>1 DEF Channels, write_execute
      <4> QED BY <4>1, ControlAssumption
    <3> QED BY <2>1, <3>4, <3>5, <3>6
  <2>2. CASE ~write_execute
    <3>1. irq_clear' = {}
      BY <1>2, <2>2 DEF WritePulses, Writes, write_side_effect
    <3> QED BY <3>1
  <2> QED BY <2>1, <2>2
\* What is left of the running call and of the program.
<1>9. /\ Disciplined(access')
      /\ calls' \in Seq(Seq(Access))
      /\ \A k \in 1 .. Len(calls') :
           Disciplined(calls'[k]) /\ (calls'[k] # <<>> => ~Acknowledges(calls'[k][1]))
      /\ access' # <<>> /\ b' = None /\ Acknowledges(access'[1])
           => access'[1].data \cap IRQ_SOURCES \subseteq seen'
      /\ r' # None /\ access'[1].offset = "REG_IRQ_STATUS" => r'.data = seen'
  <2>1. CASE access = <<>>
    <3>1. /\ aw = None /\ w = None /\ b = None /\ r = None /\ ~read_execute(bus)
          /\ irq_clear = {} /\ seen' = seen /\ r' = None
      BY <1>2, <1>5, <2>1 DEF BusInv, SeenInv, Channels, read_execute
    <3>2. CASE SoftwareDone
      BY <1>2, <2>1, <3>1, <3>2 DEF softwareVars, SeenInv
    <3>3. CASE ~SoftwareDone
      <4>1. calls # <<>> /\ access' = Head(calls) /\ calls' = Tail(calls)
        BY <1>2, <2>1, <3>3 DEF Software
      <4>2. calls \in Seq(Seq(Access)) /\ Len(calls) \in Nat /\ 1 \in 1 .. Len(calls)
            /\ Head(calls) = calls[1]
        BY <4>1 DEF SeenInv
      <4>3. Disciplined(access') /\ (access' # <<>> => ~Acknowledges(access'[1]))
        BY <4>1, <4>2 DEF SeenInv
      <4>4. calls' \in Seq(Seq(Access)) /\ Len(calls') = Len(calls) - 1
            /\ \A k \in 1 .. Len(calls') : calls'[k] = calls[k + 1]
        BY <4>1, <4>2
      <4>5. ASSUME NEW k \in 1 .. Len(calls')
            PROVE  Disciplined(calls'[k]) /\ (calls'[k] # <<>> => ~Acknowledges(calls'[k][1]))
        <5>1. k + 1 \in 1 .. Len(calls) /\ calls'[k] = calls[k + 1]
          BY <4>2, <4>4
        <5> QED BY <5>1 DEF SeenInv
      <4> QED BY <3>1, <4>3, <4>4, <4>5
    <3> QED BY <3>2, <3>3
  <2>2. CASE access # <<>>
    <3> DEFINE answered == b # None /\ ready
               returned == r # None /\ ready
    <3>1. /\ calls' = calls
          /\ answered => access' \in {<<>>, Tail(access)}
          /\ returned /\ ~answered => access' \in {<<>>, AfterRead(r.data)}
          /\ ~answered /\ ~returned => access' = access
      <4>1. Software(bus)
        BY <1>2, <2>2 DEF SoftwareDone
      <4>2. ~(answered /\ returned)
        BY DEF BusInv
      <4> QED BY <1>5, <2>2, <4>1, <4>2 DEF Software
    <3>2. /\ Disciplined(access) /\ Disciplined(<<>>)
          /\ calls' \in Seq(Seq(Access))
          /\ \A k \in 1 .. Len(calls') :
               Disciplined(calls'[k]) /\ (calls'[k] # <<>> => ~Acknowledges(calls'[k][1]))
      BY <3>1 DEF SeenInv, Disciplined
    <3>3. CASE answered
      <4>1. r = None /\ r' = None /\ Head(access).write
        BY <1>2, <1>5, <3>3 DEF BusInv, Channels, read_execute
      <4>2. /\ Disciplined(Tail(access))
            /\ Tail(access) # <<>> => /\ Tail(access)[1] = access[2]
                                      /\ Acknowledges(access[2]) => PolledBefore(access, 2)
        BY <2>2, <3>2, DisciplinedTail
      <4>3. ~PolledBefore(access, 2)
        BY <1>7, <4>1 DEF PolledBefore
      <4> QED BY <3>1, <3>2, <3>3, <4>1, <4>2, <4>3
    <3>4. CASE returned /\ ~answered
      <4>1. b = None /\ ~read_execute(bus) /\ r' = None /\ ~Head(access).write
        BY <1>2, <1>5, <3>4 DEF BusInv, Channels, read_execute, arready
      <4>2. seen' = seen
        BY <1>2, <4>1 DEF SeenInv
      <4>3. /\ Disciplined(AfterRead(r.data))
            /\ AfterRead(r.data) # <<>> /\ Acknowledges(AfterRead(r.data)[1])
                 => AfterRead(r.data)[1].data \cap IRQ_SOURCES \subseteq seen
        BY <2>2, <3>4, <4>1, AfterReadDisciplined
      <4> QED BY <3>1, <3>2, <3>4, <4>1, <4>2, <4>3
    <3>5. CASE ~answered /\ ~returned
      <4>1. access' = access
        BY <3>1, <3>5
      <4>2. CASE read_execute(bus)
        <5>1. /\ b = None /\ irq_clear = {} /\ ~Acknowledges(access'[1])
              /\ r' = read_result(bus.ar, in)
          BY <1>2, <1>5, <1>7, <4>1, <4>2
             DEF BusInv, SeenInv, Channels, read_execute, Acknowledges
        <5>2. bus.ar = "REG_IRQ_STATUS" => r'.data = irq_pending
          BY <1>3, <5>1 DEF read_result, ReadLegal, is_legal_offset, is_write_only_offset,
             read_register, StoredOffsets, CommandFields
        <5> QED BY <1>2, <1>5, <1>7, <3>2, <4>1, <4>2, <5>1, <5>2 DEF read_execute
      <4>3. CASE ~read_execute(bus)
        <5>1. r' = r /\ (b' = None => b = None)
          BY <1>2, <1>5, <3>5, <4>3, ControlAssumption DEF Channels
        <5>2. b = None => seen' = seen
          BY <1>2, <4>3 DEF SeenInv
        <5>3. r # None => b = None
          BY DEF BusInv
        <5> QED BY <3>2, <4>1, <5>1, <5>2, <5>3 DEF SeenInv
      <4> QED BY <4>2, <4>3
    <3> QED BY <3>3, <3>4, <3>5
  <2> QED BY <2>1, <2>2
<1> QED BY <1>6, <1>8, <1>9 DEF SeenInv, Disciplined

\* Every step keeps apart what software saw and what it did not.
LEMMA SeenInductive ==
  /\ Init => SeenInv
  /\ BusInv /\ SeenInv /\ [Next]_vars => SeenInv'
<1>0. Disciplined(<<>>)
  BY DEF Disciplined
<1>1. ASSUME Init PROVE SeenInv
  <2>1. /\ access = <<>> /\ irq_clear = {} /\ r = None /\ irq_pending = {} /\ seen = {}
        /\ owed = {} /\ calls \in Programs
    BY <1>1 DEF Init, RegisterInit, IrqInit
  <2>2. calls \in Seq(Seq(Access))
    BY <2>1, ProgramAssumption
  <2>3. ASSUME NEW k \in 1 .. Len(calls)
        PROVE  Disciplined(calls[k]) /\ (calls[k] # <<>> => ~Acknowledges(calls[k][1]))
    <3>1. calls[k] \in Seq(Access) /\ Len(calls[k]) \in Nat
      BY <2>2, <2>3
    <3>2. \A i \in 1 .. Len(calls[k]) : Acknowledges(calls[k][i]) => PolledBefore(calls[k], i)
      BY <2>1, <2>3, ProgramAssumption
    <3>3. ~PolledBefore(calls[k], 1)
      BY DEF PolledBefore
    <3>4. calls[k] # <<>> => 1 \in 1 .. Len(calls[k])
      BY <3>1
    <3> QED BY <3>1, <3>2, <3>3, <3>4 DEF Disciplined
  <2> QED BY <1>0, <2>1, <2>2, <2>3 DEF SeenInv, UnreadInterruptKept
<1>2. ASSUME Reset PROVE SeenInv'
  <2>1. /\ access' = <<>> /\ irq_clear' = {} /\ r' = None /\ irq_pending' = {} /\ seen' = {}
        /\ owed' = {} /\ calls' = <<>>
    BY <1>2 DEF Reset, RegisterReset, IrqReset
  <2> QED BY <1>0, <2>1 DEF SeenInv, UnreadInterruptKept, Disciplined
<1>3. SeenInv /\ UNCHANGED vars => SeenInv'
  BY DEF vars, registerVars, irqVars, softwareVars, historyVars, SeenInv, UnreadInterruptKept,
         Disciplined
<1> QED BY <1>1, <1>2, <1>3, EdgeKeepsSeen DEF Next

\* An interrupt raised after software last read the pending ones survives the
\* acknowledgement of those.
THEOREM InterruptsSurviveAcknowledge == Spec => []UnreadInterruptKept
<1>1. BusInv /\ SeenInv => UnreadInterruptKept
  BY DEF SeenInv
<1> QED BY <1>1, BusInductive, SeenInductive, PTL DEF Spec

----------------------------------------------------------------------------
(* Reading a counter. *)

LowRead(a) == ~a.write /\ a.offset = "REG_PERF_VALUE"
HighRead(a) == ~a.write /\ a.offset = "REG_PERF_VALUE_HI"

\* What is left of a call that reads a counter as the driver does.  Its first
\* access may be the read of the high half.
CounterCall(call) ==
  \A i \in 1 .. Len(call) :
    /\ LowRead(call[i]) => /\ call[i].until = {}
                           /\ \A j \in 1 .. i - 1 : ~ReadsCounter(call[j])
    /\ HighRead(call[i]) => /\ call[i].until = {}
                            /\ i > 1 => LowRead(call[i - 1])

NoLowRead(call) == \A i \in 1 .. Len(call) : ~LowRead(call[i])
NotHighFirst(call) == call # <<>> => ~HighRead(call[1])

\* The half that is being read, and those that were, are halves of sampled:
\* the low half is read before the high half and never again, and the block
\* keeps the high half in between.
CounterInv ==
  /\ CounterCall(access)
  /\ \A k \in 1 .. Len(calls) : CounterCall(calls[k]) /\ NotHighFirst(calls[k])
  /\ \/ got = <<>> /\ NotHighFirst(access)
     \/ /\ got = <<LowHalf(sampled)>>
        /\ NoLowRead(access)
        /\ perf_snapshot_high = HighHalf(sampled)
     \/ /\ got = <<LowHalf(sampled), HighHalf(sampled)>>
        /\ NoLowRead(access) /\ NotHighFirst(access)
  /\ r # None /\ LowRead(access[1]) => /\ r.data = LowHalf(sampled)
                                       /\ perf_snapshot_high = HighHalf(sampled)
  /\ r # None /\ HighRead(access[1]) => r.data = HighHalf(sampled)

\* The rest of a call that reads a counter low half first.
LEMMA CounterTail ==
  ASSUME NEW call \in Seq(Access), call # <<>>, CounterCall(call)
  PROVE  /\ CounterCall(Tail(call))
         /\ NoLowRead(call) => NoLowRead(Tail(call))
         /\ ~LowRead(call[1]) => NotHighFirst(Tail(call))
         /\ ReadsCounter(call[1]) => NoLowRead(Tail(call))
<1> DEFINE rest == Tail(call)
<1>1. /\ Len(rest) = Len(call) - 1
      /\ Len(call) \in Nat
      /\ \A i \in 1 .. Len(rest) : rest[i] = call[i + 1]
      /\ rest # <<>> => 1 \in 1 .. Len(rest)
  OBVIOUS
<1> HIDE DEF rest
<1>2. ASSUME NEW i \in 1 .. Len(rest)
      PROVE  /\ LowRead(rest[i]) => /\ rest[i].until = {}
                                    /\ \A j \in 1 .. i - 1 : ~ReadsCounter(rest[j])
                                    /\ ~ReadsCounter(call[1])
             /\ HighRead(rest[i]) => /\ rest[i].until = {}
                                     /\ i > 1 => LowRead(rest[i - 1])
                                     /\ i = 1 => LowRead(call[1])
             /\ NoLowRead(call) => ~LowRead(rest[i])
  <2>1. i + 1 \in 1 .. Len(call) /\ rest[i] = call[i + 1] /\ (i + 1) - 1 = i /\ i + 1 > 1
        /\ 1 \in 1 .. (i + 1) - 1
    BY <1>1
  <2>2. \A j \in 1 .. i - 1 : rest[j] = call[j + 1] /\ j + 1 \in 1 .. (i + 1) - 1
    BY <1>1
  <2>3. i > 1 => rest[i - 1] = call[i]
    <3>1. i > 1 => i - 1 \in 1 .. Len(rest) /\ (i - 1) + 1 = i
      BY <1>1
    <3> QED BY <1>1, <3>1
  <2>4. /\ LowRead(call[i + 1]) => /\ call[i + 1].until = {}
                                   /\ \A j \in 1 .. (i + 1) - 1 : ~ReadsCounter(call[j])
        /\ HighRead(call[i + 1]) => /\ call[i + 1].until = {}
                                    /\ LowRead(call[i])
    BY <2>1 DEF CounterCall
  <2>5. NoLowRead(call) => ~LowRead(call[i + 1])
    BY <2>1 DEF NoLowRead
  <2> QED BY <2>1, <2>2, <2>3, <2>4, <2>5
<1>3. CounterCall(rest)
  BY <1>2 DEF CounterCall
<1>4. NoLowRead(call) => NoLowRead(rest)
  BY <1>2 DEF NoLowRead
<1>5. ~LowRead(call[1]) => NotHighFirst(rest)
  BY <1>1, <1>2 DEF NotHighFirst
<1>6. ReadsCounter(call[1]) => NoLowRead(rest)
  BY <1>2 DEF NoLowRead
<1> QED BY <1>3, <1>4, <1>5, <1>6 DEF rest

\* Another access before it keeps the order of the halves.
LEMMA CounterPrefixed ==
  ASSUME NEW rest \in Seq(Access), CounterCall(rest), NotHighFirst(rest),
         NEW first \in Access, ~ReadsCounter(first)
  PROVE  LET call == <<first>> \o rest
         IN  /\ CounterCall(call) /\ NotHighFirst(call)
             /\ NoLowRead(rest) => NoLowRead(call)
<1> DEFINE call == <<first>> \o rest
<1>1. /\ Len(call) = Len(rest) + 1
      /\ Len(rest) \in Nat
      /\ call[1] = first
      /\ \A i \in 2 .. Len(call) : call[i] = rest[i - 1]
      /\ rest = <<>> => Len(rest) = 0
  OBVIOUS
<1> HIDE DEF call
<1>2. ~LowRead(first) /\ ~HighRead(first)
  BY DEF ReadsCounter, LowRead, HighRead
<1>3. ASSUME NEW i \in 1 .. Len(call)
      PROVE  /\ LowRead(call[i]) => /\ call[i].until = {}
                                    /\ \A j \in 1 .. i - 1 : ~ReadsCounter(call[j])
             /\ HighRead(call[i]) => /\ call[i].until = {}
                                     /\ i > 1 => LowRead(call[i - 1])
             /\ NoLowRead(rest) => ~LowRead(call[i])
  <2>1. CASE i = 1
    BY <1>1, <1>2, <2>1
  <2>2. CASE i \in 2 .. Len(call)
    <3>1. /\ i - 1 \in 1 .. Len(rest) /\ call[i] = rest[i - 1]
      BY <1>1, <2>2
    <3>2. ASSUME LowRead(call[i]), NEW j \in 1 .. i - 1 PROVE ~ReadsCounter(call[j])
      <4>1. CASE j = 1
        BY <1>1, <4>1
      <4>2. CASE j \in 2 .. i - 1
        <5>1. j \in 2 .. Len(call) /\ j - 1 \in 1 .. (i - 1) - 1
          BY <4>2
        <5>2. call[j] = rest[j - 1]
          BY <1>1, <5>1
        <5> QED BY <3>1, <3>2, <5>1, <5>2 DEF CounterCall
      <4> QED BY <4>1, <4>2
    <3>3. ASSUME HighRead(call[i]) PROVE LowRead(call[i - 1])
      <4>1. i - 1 # 1
        BY <1>1, <3>1, <3>3 DEF NotHighFirst
      <4>2. i - 1 \in 2 .. Len(call) /\ i - 1 > 1
        BY <3>1, <4>1
      <4>3. call[i - 1] = rest[(i - 1) - 1]
        BY <1>1, <4>2
      <4> QED BY <3>1, <3>3, <4>2, <4>3 DEF CounterCall
    <3> QED BY <3>1, <3>2, <3>3 DEF CounterCall, NoLowRead
  <2> QED BY <2>1, <2>2
<1>4. CounterCall(call)
  BY <1>3 DEF CounterCall
<1>5. NotHighFirst(call)
  BY <1>1, <1>2 DEF NotHighFirst
<1>6. NoLowRead(rest) => NoLowRead(call)
  BY <1>3 DEF NoLowRead
<1> QED BY <1>4, <1>5, <1>6 DEF call

\* After a read that is not of a counter.
LEMMA AfterOtherRead ==
  ASSUME SeenInv, access # <<>>, r # None, CounterCall(access), ~ReadsCounter(access[1]),
         NotHighFirst(access),
         NEW next, next = AfterRead(r.data)
  PROVE  /\ CounterCall(next) /\ NotHighFirst(next)
         /\ NoLowRead(access) => NoLowRead(next)
<1> DEFINE ack == write("REG_IRQ_STATUS", r.data)
<1>1. access \in Seq(Access) /\ Head(access) = access[1] /\ Tail(access) \in Seq(Access)
  BY DEF SeenInv, Disciplined
<1>2. ~LowRead(access[1])
  <2>1. LowRead(access[1]) => ReadsCounter(access[1])
    BY DEF LowRead, ReadsCounter
  <2> QED BY <2>1
<1>3. /\ CounterCall(Tail(access)) /\ NotHighFirst(Tail(access))
      /\ NoLowRead(access) => NoLowRead(Tail(access))
  BY <1>1, <1>2, CounterTail
<1>4. CASE next = <<>>
  BY <1>4 DEF CounterCall, NotHighFirst, NoLowRead
<1>5. CASE next = access
  BY <1>5
<1>6. CASE next = Tail(access)
  BY <1>3, <1>6
<1>7. CASE next = <<ack>> \o Tail(access) /\ access[1].offset = "REG_IRQ_STATUS"
  <2>1. ack \in Access /\ ack.write
    <3>0. r.data = seen /\ seen \subseteq IRQ_SOURCES
      BY <1>7 DEF SeenInv
    <3>1. r.data \in SUBSET (0 .. 31) /\ {} \in SUBSET (0 .. 31)
      BY <3>0 DEF IRQ_SOURCES
    <3>2. ack = [offset |-> "REG_IRQ_STATUS", data |-> r.data, strobe |-> Lanes,
                 write |-> TRUE, until |-> {}]
      BY DEF write, AllLanes
    <3>3. "REG_IRQ_STATUS" \in Offsets
      BY DEF Offsets, is_legal_offset
    <3> HIDE DEF ack
    <3>4. ack.write
      BY <3>2
    <3>5. ack \in Access
      BY <3>1, <3>2, <3>3 DEF Access
    <3> QED BY <3>4, <3>5
  <2>2. ~ReadsCounter(ack)
    BY <2>1 DEF ReadsCounter
  <2> HIDE DEF ack
  <2> QED BY <1>1, <1>3, <1>7, <2>1, <2>2, CounterPrefixed
<1>8. \/ next = <<>> \/ next = access \/ next = Tail(access)
      \/ next = <<ack>> \o Tail(access) /\ access[1].offset = "REG_IRQ_STATUS"
  BY <1>1, WhatIsLeft
<1> QED BY <1>4, <1>5, <1>6, <1>7, <1>8

\* The two halves of a counter, read one after the other.
LEMMA PairAppended == \A low, high : Append(<<low>>, high) = <<low, high>>
<1> TAKE low, high
<1> DEFINE S == {low, high}
           pair == Append(<<low>>, high)
<1>1. <<low>> \in Seq(S) /\ high \in S /\ Len(<<low>>) = 1 /\ <<low>>[1] = low
  OBVIOUS
<1>2. /\ pair \in Seq(S) /\ Len(pair) = Len(<<low>>) + 1
      /\ \A i \in 1 .. Len(<<low>>) : pair[i] = <<low>>[i]
      /\ pair[Len(<<low>>) + 1] = high
  BY <1>1
<1> HIDE DEF pair
<1>3. Len(pair) = 2 /\ pair[1] = low /\ pair[2] = high
  BY <1>1, <1>2
<1>4. pair = <<low, high>>
  BY <1>2, <1>3
<1> QED BY <1>4 DEF pair

\* A clock edge keeps the snapshot with the low half read last.
LEMMA EdgeKeepsCounter ==
  ASSUME BusInv, SeenInv, CounterInv, Tick
  PROVE  CounterInv'
<1>0. PICK offer_aw \in BOOLEAN, offer_w \in BOOLEAN, offer_ar \in BOOLEAN, ready \in BOOLEAN :
        \E bus, finish, accel, rsp, pop :
          bus = Bus(offer_aw, offer_w, offer_ar, ready) /\ Clock(bus, finish, accel, rsp, pop)
  BY DEF Tick, BusMoves
<1>1. PICK bus, finish, accel, rsp, pop :
        bus = Bus(offer_aw, offer_w, offer_ar, ready) /\ Clock(bus, finish, accel, rsp, pop)
  BY <1>0
<1> DEFINE in == Inputs(finish, accel, rsp)
           counter == selected_value(perf_select)
           reading == read_execute(bus) /\ bus.ar = "REG_PERF_VALUE"
<1>2. /\ Channels(bus, in)
      /\ perf_snapshot_high' = IF reading THEN in.perf_high ELSE perf_snapshot_high
      /\ sampled' = IF reading THEN counter ELSE sampled
      /\ IF SoftwareDone THEN UNCHANGED softwareVars ELSE Software(bus)
  BY <1>1 DEF Clock, RegisterClock, History, Snapshot
<1>3. in.perf_low = LowHalf(counter) /\ in.perf_high = HighHalf(counter)
  BY DEF Inputs
<1> HIDE DEF in, counter
<1>4. /\ bus.ar # None => /\ access # <<>> /\ ~Head(access).write /\ r = None
                          /\ bus.ar = Head(access).offset
      /\ bus.bready = ready /\ bus.rready = ready
  BY <1>1, OfferIsFirst DEF Bus
<1>5. /\ access \in Seq(Access) /\ Head(access) = access[1]
      /\ access # <<>> => 1 \in 1 .. Len(access)
  BY DEF SeenInv, Disciplined
<1>6. CounterCall(<<>>) /\ NoLowRead(<<>>) /\ NotHighFirst(<<>>)
  BY DEF CounterCall, NoLowRead, NotHighFirst
\* A halt or the next call.
<1>7. CASE access = <<>>
  <2>1. r' = None /\ sampled' = sampled /\ perf_snapshot_high' = perf_snapshot_high
    BY <1>2, <1>4, <1>7 DEF BusInv, Channels, read_execute
  <2>2. CASE SoftwareDone
    BY <1>2, <1>7, <2>1, <2>2 DEF softwareVars, CounterInv
  <2>3. CASE ~SoftwareDone
    <3>1. calls # <<>> /\ access' = Head(calls) /\ calls' = Tail(calls) /\ got' = <<>>
      BY <1>2, <1>7, <2>3 DEF Software
    <3>2. calls \in Seq(Seq(Access)) /\ Len(calls) \in Nat /\ 1 \in 1 .. Len(calls)
          /\ Head(calls) = calls[1]
      BY <3>1 DEF SeenInv
    <3>3. CounterCall(access') /\ NotHighFirst(access')
      BY <3>1, <3>2 DEF CounterInv
    <3>4. Len(calls') = Len(calls) - 1 /\ \A k \in 1 .. Len(calls') : calls'[k] = calls[k + 1]
      BY <3>1, <3>2
    <3>5. ASSUME NEW k \in 1 .. Len(calls')
          PROVE  CounterCall(calls'[k]) /\ NotHighFirst(calls'[k])
      <4>1. k + 1 \in 1 .. Len(calls) /\ calls'[k] = calls[k + 1]
        BY <3>2, <3>4
      <4> QED BY <4>1 DEF CounterInv
    <3> QED BY <2>1, <3>1, <3>3, <3>5 DEF CounterInv
  <2> QED BY <2>2, <2>3
<1>8. CASE access # <<>>
  <2> DEFINE answered == b # None /\ ready
             returned == r # None /\ ready
  <2>1. /\ calls' = calls
        /\ answered => access' \in {<<>>, Tail(access)}
        /\ returned /\ ~answered => access' \in {<<>>, AfterRead(r.data)}
        /\ ~answered /\ ~returned => access' = access
        /\ got' = IF returned /\ access[1].offset \in {"REG_PERF_VALUE", "REG_PERF_VALUE_HI"}
                    THEN Append(got, r.data) ELSE got
    <3>1. Software(bus)
      BY <1>2, <1>8 DEF SoftwareDone
    <3>2. ~(answered /\ returned)
      BY DEF BusInv
    <3> QED BY <1>4, <1>5, <1>8, <3>1, <3>2 DEF Software
  <2>2. \A k \in 1 .. Len(calls') : CounterCall(calls'[k]) /\ NotHighFirst(calls'[k])
    BY <2>1 DEF CounterInv
  <2>3. CounterCall(access)
    BY DEF CounterInv
  <2> DEFINE Stage(a, g, n, high) ==
        \/ g = <<>> /\ NotHighFirst(a)
        \/ /\ g = <<LowHalf(n)>> /\ NoLowRead(a)
           /\ high = HighHalf(n)
        \/ g = <<LowHalf(n), HighHalf(n)>> /\ NoLowRead(a) /\ NotHighFirst(a)
  <2>4. Stage(access, got, sampled, perf_snapshot_high)
    BY DEF CounterInv
  <2>5. LowRead(access[1]) => got = <<>>
    BY <1>5, <1>8, <2>4 DEF NoLowRead
  <2>6. HighRead(access[1]) => got = <<LowHalf(sampled)>>
                               /\ perf_snapshot_high = HighHalf(sampled)
    BY <1>8, <2>4 DEF NotHighFirst
  <2>7. ReadsCounter(access[1]) <=> LowRead(access[1]) \/ HighRead(access[1])
    BY DEF ReadsCounter, LowRead, HighRead
  <2> SUFFICES /\ CounterCall(access')
               /\ Stage(access', got', sampled', perf_snapshot_high')
               /\ r' # None /\ LowRead(access'[1]) =>
                    r'.data = LowHalf(sampled') /\ perf_snapshot_high' = HighHalf(sampled')
               /\ r' # None /\ HighRead(access'[1]) => r'.data = HighHalf(sampled')
    BY <2>2 DEF CounterInv
\* A write is answered.
  <2>8. CASE answered
    <3>1. r = None /\ r' = None /\ Head(access).write /\ ~reading
      BY <1>2, <1>4, <2>8 DEF BusInv, Channels, read_execute
    <3>2. ~LowRead(access[1]) /\ ~HighRead(access[1])
      BY <1>5, <3>1 DEF LowRead, HighRead
    <3>3. /\ CounterCall(Tail(access)) /\ NotHighFirst(Tail(access))
          /\ NoLowRead(access) => NoLowRead(Tail(access))
      BY <1>5, <1>8, <2>3, <3>2, CounterTail
    <3>4. CounterCall(access') /\ NotHighFirst(access')
          /\ (NoLowRead(access) => NoLowRead(access'))
      BY <1>6, <2>1, <2>8, <3>3
    <3>5. got' = got /\ sampled' = sampled /\ perf_snapshot_high' = perf_snapshot_high
      BY <1>2, <2>1, <3>1
    <3> QED BY <2>4, <3>1, <3>4, <3>5
\* A read returned its data.
  <2>9. CASE returned /\ ~answered
    <3>1. b = None /\ r' = None /\ ~Head(access).write /\ ~reading
      BY <1>2, <1>4, <2>9 DEF BusInv, Channels, read_execute, arready
    <3>2. sampled' = sampled /\ perf_snapshot_high' = perf_snapshot_high
      BY <1>2, <3>1
    <3>3. CASE ~ReadsCounter(access[1])
      <4>1. got' = got
        BY <1>5, <2>1, <3>1, <3>3 DEF ReadsCounter
      <4>2. NotHighFirst(access)
        BY <2>7, <3>3 DEF NotHighFirst
      <4>3. /\ CounterCall(AfterRead(r.data)) /\ NotHighFirst(AfterRead(r.data))
            /\ NoLowRead(access) => NoLowRead(AfterRead(r.data))
        BY <1>8, <2>3, <2>9, <3>3, <4>2, AfterOtherRead
      <4>4. CounterCall(access') /\ NotHighFirst(access')
            /\ (NoLowRead(access) => NoLowRead(access'))
        BY <1>6, <2>1, <2>9, <4>3
      <4> QED BY <2>4, <3>1, <3>2, <4>1, <4>4
    <3>4. CASE ReadsCounter(access[1])
      <4>1. access[1].until = {} /\ access[1].offset # "REG_IRQ_STATUS"
        BY <1>5, <1>8, <2>3, <2>7, <3>4 DEF CounterCall, ReadsCounter
      <4>2. access' \in {<<>>, Tail(access)}
        <5>1. AfterRead(r.data) \in {<<>>, Tail(access)}
          BY <1>5, <4>1, WhatIsLeft
        <5> QED BY <2>1, <2>9, <5>1
      <4>3. /\ CounterCall(Tail(access)) /\ NoLowRead(Tail(access))
            /\ ~LowRead(access[1]) => NotHighFirst(Tail(access))
        BY <1>5, <1>8, <2>3, <3>4, CounterTail
      <4>4. /\ CounterCall(access') /\ NoLowRead(access')
            /\ ~LowRead(access[1]) => NotHighFirst(access')
        BY <1>6, <4>2, <4>3
      <4>5. got' = Append(got, r.data)
        BY <2>1, <2>9, <3>4 DEF ReadsCounter
      <4>6. CASE LowRead(access[1])
        <5>1. r.data = LowHalf(sampled) /\ perf_snapshot_high = HighHalf(sampled)
          BY <2>9, <4>6 DEF CounterInv
        <5>2. got' = <<LowHalf(sampled)>>
          BY <2>5, <4>5, <4>6, <5>1
        <5> QED BY <3>1, <3>2, <4>4, <5>1, <5>2
      <4>7. CASE HighRead(access[1])
        <5>1. r.data = HighHalf(sampled)
          BY <2>9, <4>7 DEF CounterInv
        <5>2. got' = <<LowHalf(sampled), HighHalf(sampled)>>
          BY <2>6, <4>5, <4>7, <5>1, PairAppended
        <5>3. ~LowRead(access[1])
          BY <4>7 DEF LowRead, HighRead
        <5> QED BY <3>1, <3>2, <4>4, <5>2, <5>3
      <4> QED BY <2>7, <3>4, <4>6, <4>7
    <3> QED BY <3>3, <3>4
\* Nothing is answered; a read may be executed.
  <2>10. CASE ~answered /\ ~returned
    <3>1. access' = access /\ got' = got
      BY <2>1, <2>10
    <3>2. CASE read_execute(bus)
      <4>1. r' = read_result(bus.ar, in) /\ bus.ar = access[1].offset /\ ~access[1].write
        BY <1>2, <1>4, <1>5, <3>2 DEF Channels, read_execute
      <4>2. CASE LowRead(access[1])
        <5>1. reading /\ got = <<>>
          BY <2>5, <3>2, <4>1, <4>2 DEF LowRead
        <5>2. sampled' = counter /\ perf_snapshot_high' = in.perf_high
          BY <1>2, <5>1
        <5>3. r'.data = in.perf_low
          BY <4>1, <5>1 DEF read_result, ReadLegal, is_legal_offset, is_read_only_offset,
             is_write_only_offset, read_register, StoredOffsets, CommandFields
        <5>4. NotHighFirst(access) /\ ~HighRead(access[1])
          BY <4>2 DEF NotHighFirst, LowRead, HighRead
        <5> QED BY <1>3, <2>3, <3>1, <5>1, <5>2, <5>3, <5>4
      <4>3. CASE ~LowRead(access[1])
        <5>1. sampled' = sampled /\ perf_snapshot_high' = perf_snapshot_high
          BY <1>2, <4>1, <4>3 DEF LowRead
        <5>2. HighRead(access[1]) => r'.data = perf_snapshot_high
          <6>1. HighRead(access[1]) => bus.ar = "REG_PERF_VALUE_HI"
            BY <4>1 DEF HighRead
          <6> QED BY <4>1, <6>1 DEF read_result, ReadLegal, is_legal_offset, is_read_only_offset,
                is_write_only_offset, read_register, StoredOffsets, CommandFields
        <5> QED BY <2>3, <2>4, <2>6, <3>1, <4>3, <5>1, <5>2
      <4> QED BY <4>2, <4>3
    <3>3. CASE ~read_execute(bus)
      <4>1. r' = r /\ sampled' = sampled /\ perf_snapshot_high' = perf_snapshot_high
        BY <1>2, <1>4, <2>10, <3>3 DEF Channels
      <4> QED BY <2>3, <2>4, <3>1, <4>1 DEF CounterInv
    <3> QED BY <3>2, <3>3
  <2> QED BY <2>8, <2>9, <2>10
<1> QED BY <1>7, <1>8

\* So does every step.
LEMMA CounterInductive ==
  /\ Init => CounterInv
  /\ BusInv /\ SeenInv /\ CounterInv /\ [Next]_vars => CounterInv'
<1>0. CounterCall(<<>>) /\ NotHighFirst(<<>>)
  BY DEF CounterCall, NotHighFirst
<1>1. ASSUME Init PROVE CounterInv
  <2>1. access = <<>> /\ got = <<>> /\ r = None /\ calls \in Programs
    BY <1>1 DEF Init, RegisterInit
  <2>2. ASSUME NEW k \in 1 .. Len(calls)
        PROVE  CounterCall(calls[k]) /\ NotHighFirst(calls[k])
    <3>1. calls[k] \in Seq(Access) /\ Len(calls[k]) \in Nat
      BY <2>1, <2>2, ProgramAssumption
    <3>2. \A i \in 1 .. Len(calls[k]) : ReadsCounter(calls[k][i]) => ReadAsDriver(calls[k], i)
      BY <2>1, <2>2, ProgramAssumption
    <3>3. ASSUME NEW i \in 1 .. Len(calls[k])
          PROVE  /\ LowRead(calls[k][i]) => /\ calls[k][i].until = {}
                                            /\ \A j \in 1 .. i - 1 : ~ReadsCounter(calls[k][j])
                 /\ HighRead(calls[k][i]) => /\ calls[k][i].until = {}
                                             /\ i > 1 /\ LowRead(calls[k][i - 1])
      BY <3>2 DEF LowRead, HighRead, ReadsCounter, ReadAsDriver
    <3>4. calls[k] # <<>> => 1 \in 1 .. Len(calls[k])
      BY <3>1
    <3>5. CounterCall(calls[k])
      BY <3>3 DEF CounterCall
    <3>6. NotHighFirst(calls[k])
      BY <3>3, <3>4 DEF NotHighFirst
    <3> QED BY <3>5, <3>6
  <2> QED BY <1>0, <2>1, <2>2 DEF CounterInv
<1>2. ASSUME Reset PROVE CounterInv'
  <2>1. access' = <<>> /\ got' = <<>> /\ r' = None /\ calls' = <<>>
    BY <1>2 DEF Reset, RegisterReset
  <2> QED BY <1>0, <2>1 DEF CounterInv
<1>3. CounterInv /\ UNCHANGED vars => CounterInv'
  BY DEF vars, registerVars, softwareVars, historyVars, CounterInv
<1> QED BY <1>1, <1>2, <1>3, EdgeKeepsCounter DEF Next

\* The two halves a driver reads are halves of one value of the counter.
THEOREM CounterReadsAreCoherent == Spec => []CounterReadCoherent
<1>1. CounterInv => CounterReadCoherent
  <2> HAVE CounterInv
  <2>1. Len(<<>>) = 0 /\ \A x : Len(<<x>>) = 1
    OBVIOUS
  <2> QED BY <2>1 DEF CounterInv, CounterReadCoherent
<1> QED BY <1>1, BusInductive, SeenInductive, CounterInductive, PTL DEF Spec

----------------------------------------------------------------------------
(* Fields of registers.  Field is a sum over a set, defined by recursion.    *)

\* The element MapThenSumSet takes next, and one step of its sum.
AnyOf(s) == CHOOSE x \in s : TRUE
Added(g, s, lsb) ==
  IF s = {} THEN 0 ELSE 2^(AnyOf(s) - lsb) + g[s \ {AnyOf(s)}]

\* The function MapThenSumSet defines by recursion over the subsets of S.
SumOf(S, lsb) == CHOOSE h : h = [s \in SUBSET S |-> Added(h, s, lsb)]

\* A field of a register is the sum of its bits.
LEMMA FieldIsSum ==
  ASSUME NEW bits, NEW lsb, NEW S, S = {i \in bits : i >= lsb}
  PROVE  Field(bits, lsb) = SumOf(S, lsb)[S]
BY DEF Field, SumOf, MapThenSumSet, MapThenFoldSet, AnyOf, Added

\* Induction over Nat, as the least element of a set of counterexamples.
LEMMA LeastNatural ==
  ASSUME NEW S \in SUBSET Nat, S # {}
  PROVE  \E n \in S : \A m \in S : n <= m
<1>1. PICK n \in S : \A m \in S : ~ (<<m, n>> \in OpToRel(<, Nat))
  BY NatLessThanWellFounded, WFMin
<1>2. \A m \in S : ~ (m < n)
  BY <1>1 DEF OpToRel
<1> QED BY <1>2

\* The sum is defined on the sets of at most n elements.
Partial(S, lsb, n) ==
  \E g : g = [s \in {t \in SUBSET S : Cardinality(t) <= n} |-> Added(g, s, lsb)]

\* A subset without the element chosen from it has one element less.
LEMMA OneLess ==
  ASSUME NEW S, IsFiniteSet(S), NEW s \in SUBSET S, s # {}
  PROVE  /\ AnyOf(s) \in s /\ s \ {AnyOf(s)} \in SUBSET S
         /\ Cardinality(s) \in Nat /\ Cardinality(s \ {AnyOf(s)}) = Cardinality(s) - 1
<1>1. AnyOf(s) \in s
  BY DEF AnyOf
<1>2. IsFiniteSet(s)
  BY FS_Subset
<1> QED BY <1>1, <1>2, FS_RemoveElement, FS_CardinalityType

\* By induction on n.
LEMMA PartialSums ==
  ASSUME NEW S, IsFiniteSet(S), NEW lsb
  PROVE  \A n \in Nat : Partial(S, lsb, n)
<1> DEFINE upto(n) == {t \in SUBSET S : Cardinality(t) <= n}
           missing == {n \in Nat : ~Partial(S, lsb, n)}
<1>0. \A s \in SUBSET S : IsFiniteSet(s) /\ Cardinality(s) \in Nat
  BY FS_Subset, FS_CardinalityType
<1>1. Partial(S, lsb, 0)
  <2> DEFINE g == [s \in upto(0) |-> 0]
  <2>1. \A s \in upto(0) : s = {}
    BY <1>0, FS_EmptySet
  <2>2. g = [s \in upto(0) |-> Added(g, s, lsb)]
    BY <2>1 DEF Added
  <2> QED BY <2>2 DEF Partial
<1>2. ASSUME NEW n \in Nat, Partial(S, lsb, n) PROVE Partial(S, lsb, n + 1)
  <2>1. PICK g : g = [s \in upto(n) |-> Added(g, s, lsb)]
    BY <1>2 DEF Partial
  <2> DEFINE h == [s \in upto(n + 1) |-> Added(g, s, lsb)]
  <2>2. ASSUME NEW s \in upto(n + 1) PROVE Added(h, s, lsb) = Added(g, s, lsb)
    <3>1. CASE s = {}
      BY <3>1 DEF Added
    <3>2. CASE s # {}
      <4>1. s \ {AnyOf(s)} \in upto(n) /\ s \ {AnyOf(s)} \in upto(n + 1)
        BY <3>2, OneLess
      <4>2. h[s \ {AnyOf(s)}] = g[s \ {AnyOf(s)}]
        BY <2>1, <4>1
      <4> QED BY <3>2, <4>2 DEF Added
    <3> QED BY <3>1, <3>2
  <2>3. h = [s \in upto(n + 1) |-> Added(h, s, lsb)]
    BY <2>2
  <2> QED BY <2>3 DEF Partial
<1>3. ASSUME missing # {} PROVE FALSE
  <2>1. PICK n \in missing : \A m \in missing : n <= m
    BY <1>3, LeastNatural
  <2>2. n # 0
    BY <1>1
  <2>3. n - 1 \in Nat /\ n - 1 \notin missing /\ (n - 1) + 1 = n
    BY <2>1, <2>2
  <2> QED BY <1>2, <2>1, <2>3
<1> QED BY <1>3

\* So the recursion defines a function, and SumOf is one.
LEMMA SumExists ==
  ASSUME NEW S, IsFiniteSet(S), NEW lsb
  PROVE  SumOf(S, lsb) = [s \in SUBSET S |-> Added(SumOf(S, lsb), s, lsb)]
<1>1. Partial(S, lsb, Cardinality(S))
  BY PartialSums, FS_CardinalityType
<1>2. {t \in SUBSET S : Cardinality(t) <= Cardinality(S)} = SUBSET S
  BY FS_Subset
<1>3. PICK g : g = [s \in SUBSET S |-> Added(g, s, lsb)]
  BY <1>1, <1>2 DEF Partial
<1> QED BY <1>3 DEF SumOf

\* The weights of a word's bits.
LEMMA Powers == \A k \in 0 .. 31 : 2^k \in Nat
<1>1. /\ 2^0 \in Nat /\ 2^1 \in Nat /\ 2^2 \in Nat /\ 2^3 \in Nat /\ 2^4 \in Nat
      /\ 2^5 \in Nat /\ 2^6 \in Nat /\ 2^7 \in Nat /\ 2^8 \in Nat /\ 2^9 \in Nat
      /\ 2^10 \in Nat /\ 2^11 \in Nat
  OBVIOUS
<1>2. /\ 2^12 \in Nat /\ 2^13 \in Nat /\ 2^14 \in Nat /\ 2^15 \in Nat /\ 2^16 \in Nat
      /\ 2^17 \in Nat /\ 2^18 \in Nat /\ 2^19 \in Nat /\ 2^20 \in Nat /\ 2^21 \in Nat
  OBVIOUS
<1>3. /\ 2^22 \in Nat /\ 2^23 \in Nat /\ 2^24 \in Nat /\ 2^25 \in Nat /\ 2^26 \in Nat
      /\ 2^27 \in Nat /\ 2^28 \in Nat /\ 2^29 \in Nat /\ 2^30 \in Nat /\ 2^31 \in Nat
  OBVIOUS
<1> SUFFICES ASSUME NEW k \in 0 .. 31 PROVE 2^k \in Nat
  OBVIOUS
<1>4. k \in 0 .. 11 => 2^k \in Nat
  <2> HAVE k \in 0 .. 11
  <2>1. \/ k = 0 \/ k = 1 \/ k = 2 \/ k = 3 \/ k = 4 \/ k = 5 \/ k = 6 \/ k = 7 \/ k = 8
        \/ k = 9 \/ k = 10 \/ k = 11
    OBVIOUS
  <2> QED BY <1>1, <2>1, Zenon
<1>5. k \in 12 .. 21 => 2^k \in Nat
  <2> HAVE k \in 12 .. 21
  <2>1. \/ k = 12 \/ k = 13 \/ k = 14 \/ k = 15 \/ k = 16 \/ k = 17 \/ k = 18 \/ k = 19
        \/ k = 20 \/ k = 21
    OBVIOUS
  <2> QED BY <1>2, <2>1, Zenon
<1>6. k \in 22 .. 31 => 2^k \in Nat
  <2> HAVE k \in 22 .. 31
  <2>1. \/ k = 22 \/ k = 23 \/ k = 24 \/ k = 25 \/ k = 26 \/ k = 27 \/ k = 28 \/ k = 29
        \/ k = 30 \/ k = 31
    OBVIOUS
  <2> QED BY <1>3, <2>1, Zenon
<1> QED BY <1>4, <1>5, <1>6

\* A field of a register is a number, by induction on the number of its bits.
LEMMA FieldIsNatural ==
  ASSUME NEW bits \in SUBSET (0 .. 31), NEW lsb \in 0 .. 31
  PROVE  Field(bits, lsb) \in Nat
<1> DEFINE S == {i \in bits : i >= lsb}
           h == SumOf(S, lsb)
           bad == {n \in Nat : \E s \in SUBSET S : Cardinality(s) = n /\ h[s] \notin Nat}
<1>1. IsFiniteSet(S) /\ S \subseteq lsb .. 31
  <2>1. S \subseteq 0 .. 31
    BY Zenon
  <2>4. \A i \in S : i >= lsb
    BY Zenon
  <2> HIDE DEF h, bad, S
  <2>5. \A i \in S : i \in lsb .. 31
    BY <2>1, <2>4
  <2>2. 0 \in Int /\ 31 \in Int
    OBVIOUS
  <2>3. IsFiniteSet(0 .. 31)
    BY <2>2, FS_Interval
  <2> QED BY <2>1, <2>5, <2>3, FS_Subset
<1>2. h = [s \in SUBSET S |-> Added(h, s, lsb)]
  BY <1>1, SumExists
<1>3. Field(bits, lsb) = h[S]
  BY FieldIsSum
<1> HIDE DEF h, S
<1>4. ASSUME bad # {} PROVE FALSE
  <2>1. PICK n \in bad : \A m \in bad : n <= m
    BY <1>4, LeastNatural
  <2>2. PICK s \in SUBSET S : Cardinality(s) = n /\ h[s] \notin Nat
    BY <2>1
  <2>3. h[s] = Added(h, s, lsb)
    BY <1>2
  <2>4. s # {}
    BY <2>2, <2>3 DEF Added
  <2>5. /\ AnyOf(s) \in s /\ s \ {AnyOf(s)} \in SUBSET S
        /\ Cardinality(s) \in Nat /\ Cardinality(s \ {AnyOf(s)}) = Cardinality(s) - 1
    BY <1>1, <2>4, OneLess
  <2>6. h[s \ {AnyOf(s)}] \in Nat
    <3>1. n - 1 \notin bad
      BY <2>1, <2>2
    <3>2. n - 1 \in Nat
      BY <2>2, <2>4, <2>5, FS_CardinalityType, FS_EmptySet, FS_Subset, <1>1
    <3> QED BY <2>2, <2>5, <3>1, <3>2
  <2>7. 2^(AnyOf(s) - lsb) \in Nat
    <3>1. AnyOf(s) \in lsb .. 31
      BY <1>1, <2>5
    <3>2. AnyOf(s) - lsb \in 0 .. 31
      BY <3>1
    <3> QED BY <3>2, Powers
  <2>8. h[s] = 2^(AnyOf(s) - lsb) + h[s \ {AnyOf(s)}]
    BY <2>3, <2>4 DEF Added
  <2> QED BY <2>2, <2>6, <2>7, <2>8
<1>5. Cardinality(S) \in Nat
  BY <1>1, FS_CardinalityType
<1> QED BY <1>3, <1>4, <1>5

----------------------------------------------------------------------------
(* The timer. *)

WordsOK == regs \in [StoredOffsets -> SUBSET (0 .. 31)]

\* What is written is a word of the running program.
LEMMA WriteKeepsWords ==
  ASSUME BusInv, SeenInv, WordsOK, NEW in, WriteRegisters(in)
  PROVE  WordsOK'
<1> DEFINE merged == merge_by_strobe(regs[aw], w.data, w.strobe)
<1>1. CASE ~(write_side_effect(in) /\ aw \in StoredOffsets)
  BY <1>1 DEF WriteRegisters, WordsOK
<1>2. CASE write_side_effect(in) /\ aw \in StoredOffsets
  <2>1. w # None /\ access # <<>> /\ access \in Seq(Access)
        /\ w = [data |-> Head(access).data, strobe |-> Head(access).strobe]
    BY <1>2 DEF BusInv, SeenInv, Disciplined, write_side_effect, write_execute
  <2>2. Head(access) \in Access
    BY <2>1
  <2>3. w.data \in SUBSET (0 .. 31)
    BY <2>1, <2>2 DEF Access
  <2>4. merged \in SUBSET (0 .. 31)
    BY <1>2, <2>3 DEF merge_by_strobe, Strobed, WordsOK
  <2>5. "REG_CTRL" \in StoredOffsets /\ "REG_SCHED_CTRL" \in StoredOffsets
    BY DEF StoredOffsets
  <2>6. \A bits \in SUBSET (0 .. 31) : /\ bits \cup {SCHED_POLICY} \in SUBSET (0 .. 31)
                                      /\ bits \cup {CTRL_PRIORITY_POLICY} \in SUBSET (0 .. 31)
    BY DEF SCHED_POLICY, CTRL_PRIORITY_POLICY
  <2> HIDE DEF merged
  <2>7. CASE aw = "REG_CTRL"
    BY <1>2, <2>4, <2>5, <2>6, <2>7 DEF WriteRegisters, WordsOK, merged
  <2>8. CASE aw = "REG_SCHED_CTRL"
    BY <1>2, <2>4, <2>5, <2>6, <2>8 DEF WriteRegisters, WordsOK, merged
  <2>9. CASE aw # "REG_CTRL" /\ aw # "REG_SCHED_CTRL"
    BY <1>2, <2>4, <2>9 DEF WriteRegisters, WordsOK, merged
  <2> QED BY <2>7, <2>8, <2>9
<1> QED BY <1>1, <1>2

\* The count and the history agree while the timer is armed; TimerPeriod alone
\* does not know where in its interval the timer is.
TimerInv ==
  /\ WordsOK
  /\ previous.interval \in Nat /\ since \in Nat
  /\ armed => /\ value \in 0 .. previous.interval - 1
              /\ IF timer_tick THEN value = 0 ELSE since = value
  /\ timer_tick => since = previous.interval

\* A clock edge counts the time since the last tick.
LEMMA EdgeKeepsTimer ==
  ASSUME BusInv, SeenInv, TimerInv, Tick
  PROVE  TimerInv'
<1> DEFINE config == timer_config
<1>1. PICK in : WriteRegisters(in)
  BY DEF Tick, Clock, RegisterClock
<1>2. /\ TimerClock(config)
      /\ since' = IF config # previous THEN 0
                  ELSE IF timer_tick THEN 1
                  ELSE IF armed THEN since + 1 ELSE since
  BY DEF Tick, Clock, History
<1>3. WordsOK'
  BY <1>1, WriteKeepsWords DEF TimerInv
<1>4. config.interval \in Nat
  <2>1. "REG_TIMER_CTRL" \in StoredOffsets /\ 8 \in 0 .. 31
    BY DEF StoredOffsets
  <2>2. regs["REG_TIMER_CTRL"] \in SUBSET (0 .. 31)
    BY <2>1 DEF TimerInv, WordsOK
  <2> QED BY <2>1, <2>2, FieldIsNatural DEF timer_config, TIMER_INTERVAL_LSB
<1> HIDE DEF config
<1>5. previous' = config
  BY <1>2 DEF TimerClock
<1>6. since' \in Nat
  BY <1>2 DEF TimerInv
<1>7. CASE Disabled(config)
  BY <1>3, <1>4, <1>5, <1>6, <1>7 DEF Disabled, TimerInv
<1>8. CASE ConfigurationChanged(config)
  <2>1. /\ ~timer_tick' /\ value' = 0 /\ since' = 0
        /\ armed' => config.interval # 0
    BY <1>2, <1>8 DEF ConfigurationChanged
  <2>2. armed' => value' \in 0 .. config.interval - 1
    BY <1>4, <2>1
  <2> QED BY <1>3, <1>4, <1>5, <1>6, <2>1, <2>2 DEF TimerInv
<1>9. CASE Count(config)
  <2>1. config = previous
    BY <1>9 DEF Count
  <2>2. CASE armed /\ value = config.interval - 1
    <3>1. timer_tick' /\ (armed' => value' = 0)
      BY <1>9, <2>2 DEF Count, Expire
    <3>2. since' = config.interval
      BY <1>2, <1>4, <2>1, <2>2 DEF TimerInv
    <3>3. config.interval > 0
      BY <2>1, <2>2 DEF TimerInv
    <3> QED BY <1>3, <1>4, <1>5, <1>6, <3>1, <3>2, <3>3 DEF TimerInv
  <2>3. CASE ~(armed /\ value = config.interval - 1)
    <3>1. ~timer_tick' /\ armed' = armed /\ value' = IF armed THEN value + 1 ELSE value
      BY <1>9, <2>3 DEF Count
    <3>2. armed => value + 1 \in 0 .. config.interval - 1 /\ since' = value + 1
      BY <1>2, <1>4, <2>1, <2>3 DEF TimerInv
    <3> QED BY <1>3, <1>4, <1>5, <1>6, <3>1, <3>2 DEF TimerInv
  <2> QED BY <2>2, <2>3
<1> QED BY <1>2, <1>7, <1>8, <1>9 DEF TimerClock

\* Every step keeps the count at the time since the last tick.
LEMMA TimerInductive ==
  /\ Init => TimerInv
  /\ BusInv /\ SeenInv /\ TimerInv /\ [Next]_vars => TimerInv'
<1>1. Init => TimerInv
  BY DEF Init, RegisterInit, TimerInit, TimerOff, TimerInv, WordsOK
<1>2. Reset => TimerInv'
  BY DEF Reset, RegisterReset, TimerReset, TimerOff, TimerInv, WordsOK
<1>3. TimerInv /\ UNCHANGED vars => TimerInv'
  BY DEF vars, registerVars, timerVars, historyVars, TimerInv, WordsOK
<1> QED BY <1>1, <1>2, <1>3, EdgeKeepsTimer DEF Next

\* A tick comes one interval after the timer was started, restarted or ticked,
\* for every interval and however often the timer is reconfigured.
THEOREM PeriodsAreExact == Spec => []TimerPeriod
<1>1. TimerInv => TimerPeriod
  BY DEF TimerInv, TimerPeriod
<1> QED BY <1>1, BusInductive, SeenInductive, TimerInductive, PTL DEF Spec
=============================================================================
