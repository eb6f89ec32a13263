------------------------ MODULE MCSchedulerFairness -------------------------
(* Scheduler fairness under either policy. *)
EXTENDS SchedulerFairness

Descriptor(id, priority) == [command_id |-> id, priority_level |-> priority]

MCCommands == {Descriptor(1, 0), Descriptor(2, 1)}
BothPolicies == {RoundRobin, PriorityFirst}
PriorityOnly == {PriorityFirst}
=============================================================================
