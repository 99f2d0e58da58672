----------------------------- MODULE MCAirLink -----------------------------
(* Small instances of AirLink: air frames of one to three bytes, and bodies *)
(* that hold the first magic byte.                                          *)
EXTENDS AirLink

MCUplink == {[type |-> kTxEnqueue, body |-> <<0, kMagic0>>],
             [type |-> kSetModem, body |-> <<0>>]}
MCDownlink == {[type |-> kRxIndicate, body |-> <<0, kMagic0, 0>>]}
NoDownlink == {}
=============================================================================
