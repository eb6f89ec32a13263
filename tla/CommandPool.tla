----------------------------- MODULE CommandPool -----------------------------
(***************************************************************************)
(* What the command queue promises its two neighbours, without slots,      *)
(* ages or policies: a bounded bag of descriptors.  In one cycle it may    *)
(* admit one descriptor and release one; a descriptor it has offered       *)
(* without its being taken is the only one it may release next; nothing is *)
(* lost, duplicated or invented between admission and release.             *)
(***************************************************************************)
EXTENDS Integers

CONSTANTS DEPTH, Commands, NoCommand

VARIABLES
  pool,     \* how many copies of each descriptor are waiting
  offered,  \* the descriptor offered and not yet taken, or NoCommand
  size      \* the number of waiting descriptors

poolVars == <<pool, offered, size>>

PoolInit ==
  /\ pool = [c \in Commands |-> 0]
  /\ offered = NoCommand
  /\ size = 0

One(moved) == IF moved THEN 1 ELSE 0

\* put and take hold at most one descriptor each.
Exchange(put, take) ==
  /\ put # {} => size < DEPTH
  /\ \A c \in take : pool[c] > 0 /\ offered \in {NoCommand, c}
  /\ pool' = [c \in Commands |->
                pool[c] + One(c \in put) - One(c \in take)]
  /\ size' = size + One(put # {}) - One(take # {})
  /\ IF take # {} THEN offered' = NoCommand
     ELSE IF offered # NoCommand THEN offered' = offered
     ELSE offered' = NoCommand \/ (offered' \in Commands /\ pool[offered'] > 0)

Flush == PoolInit'

PoolNext ==
  \/ \E put, take \in {{}} \cup {{c} : c \in Commands} : Exchange(put, take)
  \/ Flush

PoolSpec == PoolInit /\ [][PoolNext]_poolVars
=============================================================================
