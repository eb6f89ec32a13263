--------------------------- MODULE MCCommandPath ----------------------------
(* The command path with a descriptor for two executors and one with an    *)
(* opcode that names none.                                                 *)
EXTENDS CommandPath

Descriptor(id, op, priority) ==
  [command_id |-> id, opcode |-> op, priority_level |-> priority]

MCCommands == {Descriptor(1, "DMA_COPY", 0), Descriptor(2, "GEMM", 1),
               Descriptor(3, "RESERVED", 0)}
MCOutcomes == {[error |-> "ERR_NONE", cycles |-> 0], [error |-> "ERR_ADDRESS", cycles |-> 1]}
RoundRobinOnly == {RoundRobin}
=============================================================================
