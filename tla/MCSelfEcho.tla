----------------------------- MODULE MCSelfEcho -----------------------------
(* A small instance of SelfEcho: more frames wait than are remembered.     *)
EXTENDS SelfEcho, TLC

CONSTANTS f1, f2, f3

Symmetry == Permutations(EchoFrames)
=============================================================================
