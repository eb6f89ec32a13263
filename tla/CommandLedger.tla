---------------------------- MODULE CommandLedger ----------------------------
(***************************************************************************)
(* What the command path promises the register block: a ledger of the      *)
(* descriptors that were admitted and not yet answered.  Each admission is *)
(* answered exactly once, by a response that carries its command ID and    *)
(* opcode, and a response is held until it is consumed.                    *)
(***************************************************************************)
EXTENDS Integers

CONSTANTS
  Commands,       \* descriptors, by the tags an answer carries
  LegalOpcodes,   \* opcodes that name an executor
  NoAnswer

VARIABLES
  outstanding,  \* how many unanswered admissions of each descriptor
  answer        \* the response held for the consumer, or NoAnswer

ledgerVars == <<outstanding, answer>>

LedgerInit ==
  /\ outstanding = [c \in Commands |-> 0]
  /\ answer = NoAnswer

\* How often a command counts in a set.
One(c, S) == IF c \in S THEN 1 ELSE 0

\* The descriptors admitted (put) and answered (done) in one step.
Post(put, done) ==
  outstanding' = [c \in Commands |-> outstanding[c] + One(c, put) - One(c, done)]

Admissions == {{}} \cup {{c} : c \in Commands}

\* An answer is written only while none is held; an illegal opcode is always
\* answered with an OPCODE error.
Answer(put) ==
  \E c \in Commands :
    /\ answer = NoAnswer
    /\ outstanding[c] > 0
    /\ Post(put, {c})
    /\ answer' # NoAnswer
    /\ answer'.command_id = c.command_id
    /\ answer'.opcode = c.opcode
    /\ c.opcode \notin LegalOpcodes => answer'.error = "ERR_OPCODE"

Consume(put) ==
  /\ answer # NoAnswer
  /\ answer' = NoAnswer
  /\ Post(put, {})

Wait(put) == Post(put, {}) /\ UNCHANGED answer

Clear == LedgerInit'

LedgerNext ==
  \/ \E put \in Admissions : Answer(put) \/ Consume(put) \/ Wait(put)
  \/ Clear

LedgerSpec == LedgerInit /\ [][LedgerNext]_ledgerVars
=============================================================================
