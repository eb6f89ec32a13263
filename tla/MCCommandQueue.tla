--------------------------- MODULE MCCommandQueue ---------------------------
(* The command queue alone, driven by every input in every cycle. *)
EXTENDS CommandQueue

Descriptor(id, priority) == [command_id |-> id, priority_level |-> priority]

MCCommands == {Descriptor(1, 0), Descriptor(2, 1)}
MCPolicies == {RoundRobin, PriorityFirst}
=============================================================================
