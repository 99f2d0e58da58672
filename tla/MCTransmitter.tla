--------------------------- MODULE MCTransmitter ---------------------------
(* Small instance of Transmitter. *)
EXTENDS Transmitter, TLC

CONSTANTS f1, f2, p1, p2

(* f1 fits in a chunk with room for another frame, f2 spans chunks. *)
MCBurstLen == (f1 :> 1) @@ (f2 :> 3)
=============================================================================
