------------------------------ MODULE MCPhyTx ------------------------------
(* Small instances of PhyTx. *)
EXTENDS PhyTxInvariants

(* One frame whose burst spans chunks, and one that fits in a chunk.       *)
CONSTANTS long, short, p1, p2, low, high

BurstLens == [f \in {long, short} |-> IF f = long THEN ChunkLen + 1 ELSE 1]
MCBurstLen == [f \in Frames |-> BurstLens[f]]
=============================================================================
