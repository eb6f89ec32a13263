---------------------------- MODULE MemoryFabric ----------------------------
(***************************************************************************)
(* The memory fabric (rtl/memory/soc_memory_fabric.sv) with its scratchpad *)
(* (scratchpad_ram.sv over simple_dual_port_ram.sv): five initiators share *)
(* one outstanding word access, to the scratchpad or to external memory.   *)
(* One step is one clock edge.  An initiator, as the DMA engine and the    *)
(* accelerators do, holds its request until it is accepted and is ready    *)
(* for the response from then on.                                          *)
(***************************************************************************)
EXTENDS Integers

CONSTANTS
  REQUESTER_COUNT,     \* number of initiators
  FABRIC_DATA_BYTES,   \* bytes in a word
  Spm, Dram,           \* the two regions, as records of base and size
  Requests(_),         \* accesses of each initiator: records of write, address,
                       \* data and strb
  NoResponse

Ports == 0 .. REQUESTER_COUNT - 1
Lanes == 0 .. FABRIC_DATA_BYTES - 1
Bytes(region) == region.base .. region.base + region.size - 1

\* The regions of soc_pkg.sv do not overlap; a strobe has a bit per lane.
ASSUME FabricAssumption ==
  /\ REQUESTER_COUNT \in Nat \ {0}
  /\ FABRIC_DATA_BYTES \in Nat \ {0}
  /\ \A r \in {Spm, Dram} : r.base \in Nat /\ r.size \in Nat
  /\ Bytes(Spm) \cap Bytes(Dram) = {}
  /\ \A p \in Ports : \A q \in Requests(p) :
       q.write \in BOOLEAN /\ q.address \in Nat /\ q.strb \subseteq Lanes

VARIABLES
  fabric_state,
  transaction_owner,
  round_robin_owner,
  request,            \* the latched request
  local_response,     \* local_response_data and local_response_error
  error_event,
  scratchpad,         \* the RAM, a function on byte addresses
  read_register,      \* the RAM's output register
  read_valid,         \* ram_read_valid
  external,           \* external memory, a function on byte addresses
  external_response,  \* the answer external memory owes, or NoResponse
  phase,              \* of each initiator: idle, request or wait
  asked,              \* the request of each initiator that is not idle
  got                 \* the response to the last request of each idle initiator

fabricVars == <<fabric_state, transaction_owner, round_robin_owner, request,
                local_response, error_event, scratchpad, read_register, read_valid,
                external, external_response, phase, asked, got>>

----------------------------------------------------------------------------
(* Combinational functions. *)

\* Faulty variant: the scan always starts at initiator 0.
FixedDistance(p) == p

\* How many steps the scan from round_robin_owner takes to reach an initiator.
ScanDistance(p) ==
  IF p >= round_robin_owner THEN p - round_robin_owner
  ELSE p + REQUESTER_COUNT - round_robin_owner

Requesting == {p \in Ports : phase[p] = "request"}

\* The requester the scan meets first.
ArbitrationOwner ==
  {p \in Requesting : \A q \in Requesting : ScanDistance(p) <= ScanDistance(q)}

Aligned(address) == address % FABRIC_DATA_BYTES = 0

\* Aligned, and first and last byte of the word in the region.
InRegion(address, region) ==
  /\ Aligned(address)
  /\ address \in Bytes(region)
  /\ address + FABRIC_DATA_BYTES - 1 \in Bytes(region)

transaction_is_spm == InRegion(request.address, Spm)
transaction_is_dram == InRegion(request.address, Dram)
transaction_is_legal == transaction_is_spm \/ transaction_is_dram

RequestFire(external_ready) ==
  /\ fabric_state = "FABRIC_REQUEST"
  /\ phase[transaction_owner] = "request"
  /\ transaction_is_dram => external_ready

\* The response shown to the owner in this cycle, if any.
Response(external_valid) ==
  CASE fabric_state = "FABRIC_LOCAL_RESPONSE" -> local_response
    [] fabric_state = "FABRIC_EXTERNAL_RESPONSE" /\ external_valid -> external_response
    [] OTHER -> NoResponse

ResponseFire(external_valid) ==
  /\ Response(external_valid) # NoResponse
  /\ phase[transaction_owner] = "wait"

Word(memory, address) == [l \in Lanes |-> memory[address + l]]

Zero == [l \in Lanes |-> 0]

\* Faulty variant: the strobe is ignored.
StoreWholeWord(memory, q) ==
  [a \in DOMAIN memory |-> IF a - q.address \in Lanes THEN q.data[a - q.address]
                           ELSE memory[a]]

Store(memory, q) ==
  [a \in DOMAIN memory |-> IF a - q.address \in q.strb THEN q.data[a - q.address]
                           ELSE memory[a]]

----------------------------------------------------------------------------
(* The registers. *)

NullRequest == [write |-> FALSE, address |-> 0, data |-> Zero, strb |-> {}]

FabricInit ==
  /\ fabric_state = "FABRIC_IDLE"
  /\ transaction_owner = 0
  /\ round_robin_owner = 0
  /\ request = NullRequest
  /\ local_response = [data |-> Zero, error |-> FALSE]
  /\ error_event = FALSE
  /\ scratchpad = [a \in Bytes(Spm) |-> 0]
  /\ read_register = Zero
  /\ read_valid = FALSE
  /\ external = [a \in Bytes(Dram) |-> 0]
  /\ external_response = NoResponse
  /\ phase = [p \in Ports |-> "idle"]
  /\ asked = [p \in Ports |-> NoResponse]
  /\ got = [p \in Ports |-> NoResponse]

\* Reset of the fabric and of everything around it; memory keeps its contents.
FabricReset ==
  /\ fabric_state' = "FABRIC_IDLE"
  /\ transaction_owner' = 0
  /\ round_robin_owner' = 0
  /\ request' = NullRequest
  /\ local_response' = [data |-> Zero, error |-> FALSE]
  /\ error_event' = FALSE
  /\ read_valid' = FALSE
  /\ external_response' = NoResponse
  /\ phase' = [p \in Ports |-> "idle"]
  /\ asked' = [p \in Ports |-> NoResponse]
  /\ got' = [p \in Ports |-> NoResponse]
  /\ UNCHANGED <<scratchpad, read_register, external>>

\* FABRIC_IDLE: latch the request of the initiator that wins.
Arbitrate ==
  /\ fabric_state = "FABRIC_IDLE"
  /\ IF ArbitrationOwner = {}
       THEN UNCHANGED <<fabric_state, transaction_owner, request>>
       ELSE \E p \in ArbitrationOwner :
              /\ transaction_owner' = p
              /\ request' = asked[p]
              /\ fabric_state' = "FABRIC_REQUEST"
  /\ error_event' = FALSE
  /\ read_valid' = FALSE
  /\ UNCHANGED <<round_robin_owner, local_response, scratchpad, read_register, external,
                 external_response>>

\* FABRIC_REQUEST without a handshake.
AwaitAcceptance(external_ready) ==
  /\ fabric_state = "FABRIC_REQUEST"
  /\ ~RequestFire(external_ready)
  /\ error_event' = FALSE
  /\ read_valid' = FALSE
  /\ UNCHANGED <<fabric_state, transaction_owner, round_robin_owner, request,
                 local_response, scratchpad, read_register, external, external_response>>

\* The ways a request is served once accepted.
RefuseIllegal ==
  /\ ~transaction_is_legal
  /\ local_response' = [data |-> Zero, error |-> TRUE]
  /\ error_event' = TRUE
  /\ fabric_state' = "FABRIC_LOCAL_RESPONSE"
  /\ read_valid' = FALSE
  /\ UNCHANGED <<scratchpad, read_register, external, external_response>>

WriteScratchpad ==
  /\ transaction_is_spm /\ request.write
  /\ scratchpad' = Store(scratchpad, request)
  /\ local_response' = [data |-> Zero, error |-> FALSE]
  /\ error_event' = FALSE
  /\ fabric_state' = "FABRIC_LOCAL_RESPONSE"
  /\ read_valid' = FALSE
  /\ UNCHANGED <<read_register, external, external_response>>

\* Faulty variant: the scratchpad does not announce what it has read.
ReadUnannounced ==
  /\ transaction_is_spm /\ ~request.write
  /\ read_register' = Word(scratchpad, request.address)
  /\ read_valid' = FALSE
  /\ error_event' = FALSE
  /\ fabric_state' = "FABRIC_SPM_READ_WAIT"
  /\ UNCHANGED <<scratchpad, local_response, external, external_response>>

ReadScratchpad ==
  /\ transaction_is_spm /\ ~request.write
  /\ read_register' = Word(scratchpad, request.address)
  /\ read_valid' = TRUE
  /\ error_event' = FALSE
  /\ fabric_state' = "FABRIC_SPM_READ_WAIT"
  /\ UNCHANGED <<scratchpad, local_response, external, external_response>>

\* External memory performs the access, or fails it and does nothing.
AccessExternal(external_fails) ==
  /\ transaction_is_dram
  /\ external' = IF request.write /\ ~external_fails
                   THEN Store(external, request) ELSE external
  /\ external_response' =
       [data |-> IF request.write \/ external_fails THEN Zero
                 ELSE Word(external, request.address),
        error |-> external_fails]
  /\ error_event' = FALSE
  /\ fabric_state' = "FABRIC_EXTERNAL_RESPONSE"
  /\ read_valid' = FALSE
  /\ UNCHANGED <<scratchpad, read_register, local_response>>

\* FABRIC_REQUEST with a handshake: the priority rotates past the owner and
\* the access is performed, by its kind.
Accept(external_ready, external_fails) ==
  /\ RequestFire(external_ready)
  /\ round_robin_owner' = (transaction_owner + 1) % REQUESTER_COUNT
  /\ \/ RefuseIllegal
     \/ WriteScratchpad
     \/ ReadScratchpad
     \/ AccessExternal(external_fails)
  /\ UNCHANGED <<transaction_owner, request>>

\* FABRIC_SPM_READ_WAIT: the RAM answers one cycle after the access.
ScratchpadRead ==
  /\ fabric_state = "FABRIC_SPM_READ_WAIT"
  /\ IF read_valid
       THEN /\ local_response' = [data |-> read_register, error |-> FALSE]
            /\ fabric_state' = "FABRIC_LOCAL_RESPONSE"
       ELSE UNCHANGED <<local_response, fabric_state>>
  /\ error_event' = FALSE
  /\ read_valid' = FALSE
  /\ UNCHANGED <<transaction_owner, round_robin_owner, request, scratchpad,
                 read_register, external, external_response>>

\* Either response state, with or without its handshake.
Respond(external_valid) ==
  /\ fabric_state \in {"FABRIC_LOCAL_RESPONSE", "FABRIC_EXTERNAL_RESPONSE"}
  /\ fabric_state' = IF ResponseFire(external_valid) THEN "FABRIC_IDLE" ELSE fabric_state
  /\ error_event' = /\ ResponseFire(external_valid)
                    /\ fabric_state = "FABRIC_EXTERNAL_RESPONSE"
                    /\ external_response.error
  /\ external_response' = IF ResponseFire(external_valid) THEN NoResponse
                          ELSE external_response
  /\ read_valid' = FALSE
  /\ UNCHANGED <<transaction_owner, round_robin_owner, request, local_response,
                 scratchpad, read_register, external>>

\* The initiators: issue gives the requests that idle ones raise.
PortStep(issue, external_ready, external_valid) ==
  LET accepted(p) == p = transaction_owner /\ RequestFire(external_ready)
      answered(p) == p = transaction_owner /\ ResponseFire(external_valid)
  IN  /\ phase' = [p \in Ports |->
                     IF p \in DOMAIN issue THEN "request"
                     ELSE IF accepted(p) THEN "wait"
                     ELSE IF answered(p) THEN "idle"
                     ELSE phase[p]]
      /\ asked' = [p \in Ports |-> IF p \in DOMAIN issue THEN issue[p]
                                  ELSE IF answered(p) THEN NoResponse ELSE asked[p]]
      /\ got' = [p \in Ports |-> IF p \in DOMAIN issue THEN NoResponse
                                ELSE IF answered(p) THEN Response(external_valid) ELSE got[p]]

FabricClock(issue, external_ready, external_valid, external_fails) ==
  /\ \/ Arbitrate
     \/ AwaitAcceptance(external_ready)
     \/ Accept(external_ready, external_fails)
     \/ ScratchpadRead
     \/ Respond(external_valid)
  /\ PortStep(issue, external_ready, external_valid)

----------------------------------------------------------------------------

Idle == {p \in Ports : phase[p] = "idle"}

Issues ==
  UNION {{issue \in [s -> UNION {Requests(p) : p \in s}] :
            \A p \in s : issue[p] \in Requests(p)} : s \in SUBSET Idle}

\* One clock edge with the given behaviour of external memory.
Cycle(external_ready, external_valid) ==
  \E issue \in Issues,
     external_fails \in IF fabric_state = "FABRIC_REQUEST" THEN BOOLEAN ELSE {FALSE} :
    FabricClock(issue, external_ready, external_valid, external_fails)

RunningNext == \E external_ready, external_valid \in BOOLEAN :
                 Cycle(external_ready, external_valid)

----------------------------------------------------------------------------
(* The atomic memory the fabric implements. *)

\* Scratchpad and external memory, as one memory.
Memory == [a \in Bytes(Spm) \cup Bytes(Dram) |->
             IF a \in Bytes(Spm) THEN scratchpad[a] ELSE external[a]]

\* The response owed to an initiator whose access was performed.
Owed ==
  CASE fabric_state = "FABRIC_SPM_READ_WAIT" -> [data |-> read_register, error |-> FALSE]
    [] fabric_state = "FABRIC_LOCAL_RESPONSE" -> local_response
    [] fabric_state = "FABRIC_EXTERNAL_RESPONSE" -> external_response
    [] OTHER -> NoResponse

Atomic == INSTANCE SharedMemory WITH
  None <- NoResponse,
  memory <- Memory,
  status <- [p \in Ports |-> CASE phase[p] = "idle" -> "idle"
                               [] phase[p] = "request" -> "asked"
                               [] phase[p] = "wait" -> "served"],
  wanted <- asked,
  owed <- [p \in Ports |-> IF phase[p] = "wait" THEN Owed ELSE NoResponse],
  received <- got

\* The fabric implements an atomic memory: stalls, arbitration, the split
\* between scratchpad and external memory, error responses and resets never
\* lose, repeat, misroute or tear an access.
ImplementsSharedMemory == Atomic!SharedSpec

----------------------------------------------------------------------------
(* How often an initiator can be overtaken: a history variable counts, for  *)
(* every requesting initiator, the requests accepted before its own.        *)

VARIABLE overtaken  \* capped at REQUESTER_COUNT

countedVars == <<fabricVars, overtaken>>

CountOvertaking ==
  overtaken' =
    [p \in Ports |->
       IF phase[p] # "request" \/ phase'[p] # "request" THEN 0
       ELSE IF (\E q \in Ports : phase[q] = "request" /\ phase'[q] = "wait")
               /\ overtaken[p] < REQUESTER_COUNT
         THEN overtaken[p] + 1
         ELSE overtaken[p]]

CountedInit == FabricInit /\ overtaken = [p \in Ports |-> 0]

CountedReset == FabricReset /\ overtaken' = [p \in Ports |-> 0]

CountedNext == (RunningNext /\ CountOvertaking) \/ CountedReset

\* The clock runs; external memory accepts and answers.
Progress ==
  /\ Requesting # {} \/ fabric_state # "FABRIC_IDLE"
  /\ Cycle(TRUE, TRUE) /\ CountOvertaking

CountedSpec == CountedInit /\ [][CountedNext]_countedVars /\ WF_countedVars(Progress)

\* An initiator is overtaken at most once by every other one, although the
\* grant of a competitor may already be registered when its request arrives.
OvertakenBound == \A p \in Ports : overtaken[p] <= REQUESTER_COUNT - 1

\* Every request is answered, unless a reset drops it.
RequestAnswered ==
  \A p \in Ports : phase[p] = "request" ~> phase[p] = "idle"
=============================================================================
