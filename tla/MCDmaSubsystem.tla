--------------------------- MODULE MCDmaSubsystem ---------------------------
(* One region of eight bytes, two-byte words. *)
EXTENDS DmaSubsystem

MCRegions == {[base |-> 0, size |-> 8]}

\* One beat, two beats, zero length and a misaligned address.
MCTransfers == {[src |-> 0, dst |-> 2, len |-> 1], [src |-> 0, dst |-> 4, len |-> 3],
                [src |-> 0, dst |-> 4, len |-> 0],
                [src |-> 1, dst |-> 4, len |-> 2]}
=============================================================================
