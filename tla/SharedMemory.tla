---------------------------- MODULE SharedMemory ----------------------------
(***************************************************************************)
(* What the memory fabric promises its initiators: one atomic word memory. *)
(* An access takes effect at one instant between its request and its       *)
(* response; the response carries what memory held at that instant, or an  *)
(* error, in which case memory is untouched.                               *)
(***************************************************************************)
EXTENDS Integers

CONSTANTS Ports, Lanes, Requests(_), None

VARIABLES
  memory,   \* function on byte addresses
  status,   \* of each port: idle, asked or served
  wanted,   \* the request of each port that is not idle
  owed,     \* the response of each served port
  received  \* the response to the last request of each idle port

sharedVars == <<memory, status, wanted, owed, received>>

Value(address) == [l \in Lanes |-> memory[address + l]]

Updated(q) ==
  [a \in DOMAIN memory |-> IF a - q.address \in q.strb THEN q.data[a - q.address]
                           ELSE memory[a]]

InMemory(q) == \A l \in Lanes : q.address + l \in DOMAIN memory

SharedInit ==
  /\ \A a \in DOMAIN memory : memory[a] = 0
  /\ status = [p \in Ports |-> "idle"]
  /\ wanted = [p \in Ports |-> None]
  /\ owed = [p \in Ports |-> None]
  /\ received = [p \in Ports |-> None]

\* What one step may do at one port.
Ask(p) ==
  /\ status[p] = "idle" /\ status'[p] = "asked"
  /\ wanted'[p] \in Requests(p)
  /\ owed'[p] = None /\ received'[p] = None

Serve(p) ==
  /\ status[p] = "asked" /\ status'[p] = "served"
  /\ wanted'[p] = wanted[p] /\ received'[p] = received[p]
  /\ owed'[p].error \/ InMemory(wanted[p])
  /\ ~owed'[p].error /\ ~wanted[p].write => owed'[p].data = Value(wanted[p].address)
  /\ memory' = IF wanted[p].write /\ ~owed'[p].error THEN Updated(wanted[p]) ELSE memory

Receive(p) ==
  /\ status[p] = "served" /\ status'[p] = "idle"
  /\ wanted'[p] = None
  /\ received'[p] = owed[p] /\ owed'[p] = None

Rest(p) ==
  /\ status'[p] = status[p] /\ wanted'[p] = wanted[p]
  /\ owed'[p] = owed[p] /\ received'[p] = received[p]

\* At most one port is served in a step; without one memory does not change.
Step ==
  /\ \A p \in Ports : Ask(p) \/ Serve(p) \/ Receive(p) \/ Rest(p)
  /\ \A p, q \in Ports : Serve(p) /\ Serve(q) => p = q
  /\ (\A p \in Ports : ~Serve(p)) => memory' = memory

\* A reset forgets the ports and keeps memory.
Forget ==
  /\ status' = [p \in Ports |-> "idle"]
  /\ wanted' = [p \in Ports |-> None]
  /\ owed' = [p \in Ports |-> None]
  /\ received' = [p \in Ports |-> None]
  /\ UNCHANGED memory

SharedSpec == SharedInit /\ [][Step \/ Forget]_sharedVars
=============================================================================
