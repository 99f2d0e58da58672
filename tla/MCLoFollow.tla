----------------------------- MODULE MCLoFollow -----------------------------
(* Small instances of LoFollow: three slider positions, IF of one unit.    *)
EXTENDS LoFollow

MCSliders == {0, 10, 20}
MCTorn == {5}
=============================================================================
