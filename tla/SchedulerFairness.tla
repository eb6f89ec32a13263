------------------------- MODULE SchedulerFairness --------------------------
(***************************************************************************)
(* How long a descriptor can be overtaken in the command queue: the queue  *)
(* of module CommandQueue with a history variable that counts, for every   *)
(* waiting slot, the descriptors dispatched before it.                     *)
(***************************************************************************)
EXTENDS CommandQueue

VARIABLES
  policy,     \* the scheduling policy and
  threshold,  \* the starvation threshold, set before firmware enables the SoC
  bypassed    \* dispatches suffered by each waiting slot, capped at DEPTH

fairnessVars == <<entries, valid_entries, entry_age, round_robin_index,
                  selection_locked, locked_index, occupancy, high_water, policy, threshold,
                  bypassed>>

\* Round robin owes a slot its turn from its enqueue on, priority first from
\* the cycle its age reaches the threshold until that age saturates.
OwedService(s) ==
  \/ policy = RoundRobin
  \/ Starved(s, threshold) /\ entry_age[s] < MAXIMUM_AGE

CountBypass ==
  bypassed' =
    [s \in Slots |->
       IF s \notin valid_entries \cap valid_entries' THEN 0
       ELSE IF /\ valid_entries \ valid_entries' # {}
               /\ OwedService(s)
               /\ bypassed[s] < DEPTH
              THEN bypassed[s] + 1
              ELSE bypassed[s]]

CountedInit ==
  /\ QueueInit
  /\ policy \in Policies
  /\ threshold \in Thresholds
  /\ bypassed = [s \in Slots |-> 0]

CountedClock(select_enable, pop_ready) ==
  /\ \E push \in Commands \cup {Unwritten} :
       QueueClock(push # Unwritten, push, select_enable, policy, threshold, pop_ready)
  /\ CountBypass
  /\ UNCHANGED <<policy, threshold>>

CountedReset ==
  /\ QueueReset
  /\ bypassed' = [s \in Slots |-> 0]
  /\ UNCHANGED <<policy, threshold>>

CountedNext ==
  \/ \E select_enable, pop_ready \in BOOLEAN : CountedClock(select_enable, pop_ready)
  \/ CountedReset

CountedSpec == CountedInit /\ [][CountedNext]_fairnessVars

\* The same queue while firmware leaves the SoC enabled and out of reset.  The
\* processor takes an offered descriptor again and again: it returns to idle
\* after every command.
Dispatch == CountedClock(TRUE, TRUE) /\ occupancy > 0

EnabledNext == \E pop_ready \in BOOLEAN : CountedClock(TRUE, pop_ready)

EnabledSpec == CountedInit /\ [][EnabledNext]_fairnessVars /\ WF_fairnessVars(Dispatch)

----------------------------------------------------------------------------

\* Under round robin, and under priority first from the cycle its age reaches
\* a nonzero threshold until that age saturates, a descriptor is overtaken at
\* most once per other slot, whatever the priorities of the others, and even
\* though a selection made before may already be locked.
BypassBound == \A s \in valid_entries : bypassed[s] <= DEPTH - 1

\* Starvation protection as documented (docs/command_scheduler.md): a slot
\* whose age reached a nonzero threshold is dispatched.
StarvationProtection ==
  \A s \in Slots :
    s \in valid_entries /\ Starved(s, threshold) ~> s \notin valid_entries
=============================================================================
