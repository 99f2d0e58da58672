---------------------------- MODULE MCRadioNode ----------------------------
(* Small instances of RadioNode. *)
EXTENDS RadioNode

CONSTANTS p1, p2
=============================================================================
