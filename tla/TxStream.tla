------------------------------ MODULE TxStream ------------------------------
(***************************************************************************)
(* What the transmit line promises its clients: the samples it owes the    *)
(* air form one stream.  An accepted frame appends its whole burst, the    *)
(* stream is sent from the front, in order, and nothing else is ever       *)
(* inserted.  A failed preset change forgets frames that have not started; *)
(* only a successful one cuts a burst, and then at most one chunk, already *)
(* handed to the radio, is still sent.                                     *)
(***************************************************************************)
EXTENDS Naturals, Sequences

CONSTANTS Frames, Presets, BurstLen, ChunkLen

VARIABLES modem, stream

BurstOf(w) == [i \in 1..BurstLen[w.frame] |-> <<w, i>>]
StartsBurst(sample) == sample[2] = 1
Front(n) == SubSeq(stream, 1, n)

Init == modem \in Presets /\ stream = <<>>

Accept(f) ==
  /\ stream' = stream \o BurstOf([frame |-> f, modem |-> modem])
  /\ UNCHANGED modem

Send ==
  /\ \E n \in 1..Len(stream) : stream' = SubSeq(stream, n + 1, Len(stream))
  /\ UNCHANGED modem

Forget ==
  /\ \E n \in 0..Len(stream) :
       /\ n < Len(stream) => StartsBurst(stream[n + 1])
       /\ stream' = Front(n)
  /\ UNCHANGED modem

Switch(p) ==
  /\ p # modem
  /\ modem' = p
  /\ \E n \in 0..Len(stream) : n <= ChunkLen /\ stream' = Front(n)

Next ==
  \/ \E f \in Frames : Accept(f)
  \/ Send
  \/ Forget
  \/ \E p \in Presets : Switch(p)

Spec == Init /\ [][Next]_<<modem, stream>>
=============================================================================
