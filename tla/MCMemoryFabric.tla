--------------------------- MODULE MCMemoryFabric ---------------------------
(* One word of scratchpad and one of external memory, two bytes each. *)
EXTENDS MemoryFabric

MCSpm == [base |-> 2, size |-> 2]
MCDram == [base |-> 4, size |-> 2]

Read(a) == [write |-> FALSE, address |-> a, data |-> Zero, strb |-> {}]
Write(a, v, strb) == [write |-> TRUE, address |-> a, data |-> [l \in Lanes |-> v],
                      strb |-> strb]

\* The DMA source port reads, the DMA destination port writes parts of words,
\* and an accelerator reads the scratchpad and tries a misaligned write.
MCRequests(p) ==
  CASE p = 0 -> {Read(2), Read(4)}
    [] p = 1 -> {Write(2, 1, {0}), Write(4, 1, {1})}
    [] OTHER -> {Read(2), Write(3, 1, {0})}
=============================================================================
