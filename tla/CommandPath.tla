---------------------------- MODULE CommandPath -----------------------------
(***************************************************************************)
(* The command path of soc_top: command queue, command processor and the   *)
(* four executors, wired as in rtl/soc/soc_top.sv.  Queue and processor    *)
(* are the modules CommandQueue and CommandProcessor; an executor is       *)
(* reduced to its command and response handshake: it accepts a descriptor  *)
(* while idle, works for any number of cycles, and holds a response tagged *)
(* with the descriptor until the processor takes it.                       *)
(***************************************************************************)
EXTENDS CommandQueue, CommandProcessor

CONSTANT Outcomes  \* error code and cycle count an executor may report

VARIABLE executor  \* per target: phase, and the descriptor or response it holds

pathVars == <<queueVars, processorVars, executor>>

\* What a response says of the descriptor it answers.
Tag(c) == [command_id |-> c.command_id, opcode |-> c.opcode]

Tags == {Tag(c) : c \in Commands}

\* The responses the path can hold.
Answers ==
  [command_id : {c.command_id : c \in Commands}, opcode : {c.opcode : c \in Commands},
   error : {"ERR_OPCODE"} \cup {o.error : o \in Outcomes},
   result : {0} \cup {c.command_id : c \in Commands}, cycles : Nat]

ASSUME PathAssumption ==
  /\ MAXIMUM_CYCLE_COUNT \in Nat
  /\ \A o \in Outcomes : o.cycles \in Nat
  /\ NoResponse \notin Answers

IdleExecutor == [phase |-> "IDLE"]
Working(c) == [phase |-> "BUSY", command |-> c]
Responding(c, outcome) ==
  [phase |-> "RESPONSE",
   response |-> [command_id |-> c.command_id, opcode |-> c.opcode,
                 error |-> outcome.error, result |-> c.command_id,
                 cycles |-> outcome.cycles]]

----------------------------------------------------------------------------
(* Wires. *)

\* pop_valid and pop_command.
Offer(enable, policy, threshold) ==
  IF PopValid(enable, policy, threshold)
    THEN {entries[s] : s \in SelectedSlot(policy, threshold)} ELSE {}

\* <target>_cmd_ready: an idle executor is ready, but the DMA adapter is also
\* held back by direct transfers (dma_blocked).
CmdReady(dma_blocked) ==
  [t \in Targets |-> executor[t].phase = "IDLE" /\ ~(t = "DMA" /\ dma_blocked)]

\* <target>_rsp_valid and <target>_rsp.
Responses ==
  [t \in Targets |-> IF executor[t].phase = "RESPONSE" THEN executor[t].response
                     ELSE NoResponse]

\* One executor in one cycle; finish and outcome are what its own work and
\* the memory decide.  A descriptor it rejects is answered at once.
NextExecutor(t, enable, offer, dma_blocked, finish, outcome) ==
  LET accepted == IF CmdValid(t, enable, offer) /\ CmdReady(dma_blocked)[t]
                    THEN offer ELSE {}
  IN  CASE executor[t].phase = "IDLE" ->
             IF accepted = {} THEN IdleExecutor
             ELSE LET c == CHOOSE c \in accepted : TRUE
                  IN  IF finish /\ outcome.error # "ERR_NONE"
                        THEN Responding(c, outcome) ELSE Working(c)
        [] executor[t].phase = "BUSY" ->
             IF finish THEN Responding(executor[t].command, outcome)
             ELSE executor[t]
        [] executor[t].phase = "RESPONSE" ->
             IF RspReady(t) THEN IdleExecutor ELSE executor[t]

----------------------------------------------------------------------------

PathInit ==
  /\ QueueInit
  /\ ProcessorInit
  /\ executor = [t \in Targets |-> IdleExecutor]

PathReset ==
  /\ QueueReset
  /\ ProcessorReset
  /\ executor' = [t \in Targets |-> IdleExecutor]

\* One clock edge of queue, processor and executors together.
PathClock(push, enable, policy, threshold, dma_blocked, finish, outcome, response_ready) ==
  LET offer == Offer(enable, policy, threshold)
      ready == CmdReady(dma_blocked)
  IN  /\ QueueClock(push # Unwritten, push, enable, policy, threshold,
                          QueueReady(enable, offer, ready))
      /\ ProcessorClock(enable, offer, ready, Responses, response_ready)
      /\ executor' = [t \in Targets |->
                        NextExecutor(t, enable, offer, dma_blocked, finish, outcome)]

\* A full queue refuses a push, which then waits outside the path.
Pushes == {Unwritten} \cup IF full THEN {} ELSE Commands

Cycle(enable, dma_blocked, finish, response_ready) ==
  \E push \in Pushes, policy \in Policies, threshold \in Thresholds :
    \E outcome \in IF finish THEN Outcomes ELSE {Unwritten} :
      PathClock(push, enable, policy, threshold, dma_blocked, finish, outcome,
                response_ready)

\* Inputs are left free where the path reads them: direct transfers hold back
\* dispatch only, and responses are taken in the response state only.
Blocked == IF proc_state = "PROCESSOR_IDLE" THEN BOOLEAN ELSE {FALSE}
Finishes == IF proc_state = "PROCESSOR_RESPONSE" THEN {FALSE} ELSE BOOLEAN
Takes == IF proc_state = "PROCESSOR_RESPONSE" THEN BOOLEAN ELSE {FALSE}

PathNext ==
  \/ \E enable \in BOOLEAN, dma_blocked \in Blocked, finish \in Finishes,
        response_ready \in Takes :
       Cycle(enable, dma_blocked, finish, response_ready)
  \/ PathReset

\* A cycle in which nobody stalls the path: execution is enabled and no direct
\* transfer holds back a dispatch, the executor in use finishes, the register
\* block takes a response.
Progress ==
  \/ /\ proc_state = "PROCESSOR_IDLE" /\ occupancy > 0
     /\ \E finish \in BOOLEAN : Cycle(TRUE, FALSE, finish, FALSE)
  \/ /\ proc_state = "PROCESSOR_WAIT"
     /\ \E enable \in BOOLEAN : Cycle(enable, FALSE, TRUE, FALSE)
  \/ /\ proc_state = "PROCESSOR_RESPONSE"
     /\ \E enable \in BOOLEAN : Cycle(enable, FALSE, FALSE, TRUE)

\* Firmware enables execution again and again, between two direct transfers
\* the engine is idle for a cycle, executors finish and responses are read.
FairSpec == PathInit /\ [][PathNext]_pathVars /\ WF_pathVars(Progress)

----------------------------------------------------------------------------
(* Properties. *)

\* A response that waits for its consumer is never overwritten, and each
\* response is announced by exactly one completion pulse, in its first cycle
\* (a_response_stable_while_stalled; the pulse drives the CMD_DONE interrupt).
ResponseAnnouncedOnce ==
  [][ ~PathReset =>
        /\ command_completed' <=> /\ proc_state' = "PROCESSOR_RESPONSE"
                                  /\ proc_state # "PROCESSOR_RESPONSE"
        /\ proc_state = "PROCESSOR_RESPONSE" => response_reg' = response_reg
        /\ command_error' => command_completed' /\ response_reg'.error # "ERR_NONE"
    ]_pathVars

\* Every accepted descriptor is dispatched unless a reset drops it: round robin
\* leaves none in the queue, and the processor comes back for the next one,
\* waiting for ever neither for an executor nor for a reader (a descriptor may
\* be enqueued behind any command, so each of them must be answered).
EveryCommandAnswered ==
  \A s \in Slots : s \in valid_entries ~> s \notin valid_entries

----------------------------------------------------------------------------
(* The ledger of unanswered descriptors the path implements. *)

\* The slots that hold a descriptor with tag g.
Queued(g) == {s \in valid_entries : Tag(entries[s]) = g}

ActiveTag == [command_id |-> active_command_id, opcode |-> active_opcode]

\* Descriptors with tag g in the queue, and the one being executed.
Unanswered(g) ==
  Cardinality(Queued(g))
  + IF proc_state = "PROCESSOR_WAIT" /\ ActiveTag = g THEN 1 ELSE 0

\* Descriptors are counted by their tag: two that differ in nothing a response
\* shows (their priority, say) are two admissions of the same tag.
Ledger == INSTANCE CommandLedger WITH
  Commands <- Tags,
  LegalOpcodes <- {"DMA_COPY", "VECTOR_ADD", "VECTOR_MULTIPLY", "VECTOR_SCALE",
                   "VECTOR_RELU", "VECTOR_CLAMP", "REDUCE_SUM", "REDUCE_MAX", "GEMM"},
  NoAnswer <- NoResponse,
  outstanding <- [g \in Tags |-> Unanswered(g)],
  answer <- IF proc_state = "PROCESSOR_RESPONSE" THEN response_reg ELSE NoResponse

\* The command path implements the ledger: across queueing, reordering by the
\* scheduler, dispatch, execution and completion, every admitted descriptor
\* is answered exactly once, under its own ID and opcode.
ImplementsLedger == Ledger!LedgerSpec
=============================================================================
