---------------------------- MODULE Transmitter ----------------------------
(***************************************************************************)
(* The transmit line of quadrf-lora-phy: the Transmitter object (its frame *)
(* queue and the burst on the air) between the main loop, which enqueues   *)
(* frames and changes the modem, and the TX thread, which pulls one chunk  *)
(* of samples at a time and writes it to the radio.                        *)
(*                                                                         *)
(* A sample is <<waveform, i>>, the i-th sample of the burst of a waveform *)
(* (warmup, frame and gap together), or Silence.  A waveform is a frame    *)
(* modulated for a modem preset: modulation happens on enqueue.            *)
(***************************************************************************)
EXTENDS Naturals, Sequences

CONSTANTS
  Frames,     \* air frames the clients may enqueue
  Presets,    \* modem presets
  BurstLen,   \* samples of each frame's burst
  ChunkLen,   \* samples the TX thread pulls and writes at a time
  Silence,    \* the zero sample
  MaxQueue    \* bound of the model: frames waiting (the code has no bound)

ASSUME TransmitterAssumption ==
  /\ BurstLen \in [Frames -> Nat \ {0}]
  /\ ChunkLen \in Nat \ {0}
  /\ MaxQueue \in Nat

VARIABLES
  modem,      \* params_: the preset the transmitter modulates for
  queue,      \* queue_: modulated frames waiting
  burst,      \* burst_ from burst_pos_ on: samples of the burst left to send
  chunk,      \* the samples pulled and not yet written
  pulling     \* the TX thread is inside pull(), holding modem_mu

lineVars == <<modem, queue, burst, chunk, pulling>>

Waveform == [frame : Frames, modem : Presets]
Sample == Waveform \X (Nat \ {0})

(* Samples are told apart by where they come from, not by their value. *)
ASSUME SilenceAssumption == Silence \notin Sample

BurstOf(w) == [i \in 1..BurstLen[w.frame] |-> <<w, i>>]
Silences(n) == [i \in 1..n |-> Silence]
IsIdle == queue = <<>> /\ burst = <<>>
Loaded == \E i \in 1..Len(chunk) : chunk[i] # Silence

LineTypeOK ==
  /\ modem \in Presets
  /\ queue \in Seq(Waveform)
  /\ burst \in Seq(Sample)
  /\ chunk \in Seq(Sample \cup {Silence})
  /\ Len(chunk) <= ChunkLen
  /\ pulling \in BOOLEAN

LineInit ==
  /\ modem \in Presets
  /\ queue = <<>>
  /\ burst = <<>>
  /\ chunk = <<>>
  /\ pulling = FALSE
-----------------------------------------------------------------------------
(* Main loop: both take modem_mu. *)

Enqueue(f) ==
  /\ ~pulling
  /\ Len(queue) < MaxQueue
  /\ queue' = Append(queue, [frame |-> f, modem |-> modem])
  /\ UNCHANGED <<modem, burst, chunk, pulling>>

(* The queue is dropped before the DDC of the new preset is built; when it *)
(* cannot be built the old transmitter stays, with its burst but no queue. *)
SetModemFails ==
  /\ ~pulling
  /\ queue' = <<>>
  /\ UNCHANGED <<modem, burst, chunk, pulling>>

(* Mutant: the burst of the old preset goes on. *)
Reconstruct_KeepsBurst(p) ==
  /\ ~pulling
  /\ modem' = p
  /\ queue' = <<>>
  /\ UNCHANGED <<burst, chunk, pulling>>

Reconstruct(p) ==
  /\ ~pulling
  /\ modem' = p
  /\ queue' = <<>>
  /\ burst' = <<>>
  /\ UNCHANGED <<chunk, pulling>>

SetModem(p) ==
  /\ p # modem
  /\ Reconstruct(p) \/ SetModemFails
-----------------------------------------------------------------------------
(* TX thread: one pull is BeginPull, then turns of its loop, then EndPull. *)

BeginPull ==
  /\ ~pulling
  /\ chunk = <<>>
  /\ pulling' = TRUE
  /\ UNCHANGED <<modem, queue, burst, chunk>>

Room == ChunkLen - Len(chunk)

StartNextBurst ==
  /\ pulling /\ Room > 0
  /\ burst = <<>> /\ queue # <<>>
  /\ burst' = BurstOf(Head(queue))
  /\ queue' = Tail(queue)
  /\ UNCHANGED <<modem, chunk, pulling>>

(* Mutant: the last sample taken is sent again. *)
FillFromBurst_Repeats ==
  LET take == IF Room < Len(burst) THEN Room ELSE Len(burst)
  IN /\ pulling /\ Room > 0 /\ burst # <<>>
     /\ chunk' = chunk \o SubSeq(burst, 1, take)
     /\ burst' = SubSeq(burst, take, Len(burst))
     /\ UNCHANGED <<modem, queue, pulling>>

FillFromBurst ==
  LET take == IF Room < Len(burst) THEN Room ELSE Len(burst)
  IN /\ pulling /\ Room > 0 /\ burst # <<>>
     /\ chunk' = chunk \o SubSeq(burst, 1, take)
     /\ burst' = SubSeq(burst, take + 1, Len(burst))
     /\ UNCHANGED <<modem, queue, pulling>>

(* Mutant: silence while frames wait. *)
FillSilence_IgnoresQueue ==
  /\ pulling /\ Room > 0 /\ burst = <<>>
  /\ chunk' = chunk \o Silences(Room)
  /\ UNCHANGED <<modem, queue, burst, pulling>>

FillSilence ==
  /\ pulling /\ Room > 0 /\ IsIdle
  /\ chunk' = chunk \o Silences(Room)
  /\ UNCHANGED <<modem, queue, burst, pulling>>

EndPull ==
  /\ pulling /\ Room = 0
  /\ pulling' = FALSE
  /\ UNCHANGED <<modem, queue, burst, chunk>>

PullStep == StartNextBurst \/ FillFromBurst \/ FillSilence

WriteChunk ==
  /\ ~pulling /\ Len(chunk) = ChunkLen
  /\ chunk' = <<>>
  /\ UNCHANGED <<modem, queue, burst, pulling>>
-----------------------------------------------------------------------------
LineNext ==
  \/ \E f \in Frames : Enqueue(f)
  \/ \E p \in Presets : SetModem(p)
  \/ BeginPull
  \/ StartNextBurst
  \/ FillFromBurst
  \/ FillSilence
  \/ EndPull
  \/ WriteChunk

(* The TX thread loops for ever; frames and presets come when they come. *)
LineFairness ==
  /\ WF_lineVars(BeginPull)
  /\ WF_lineVars(PullStep)
  /\ WF_lineVars(EndPull)
  /\ WF_lineVars(WriteChunk)

LineSpec == LineInit /\ [][LineNext]_lineVars /\ LineFairness
-----------------------------------------------------------------------------
(* What the line still owes the air: the samples pulled, which silence may *)
(* follow, what is left of the burst, and the bursts of the waiting frames.*)
CarriedBy(samples) ==
  LET n == CHOOSE n \in 0..Len(samples) :
             \A i \in 1..Len(samples) : samples[i] # Silence <=> i <= n
  IN  SubSeq(samples, 1, n)
Carried == CarriedBy(chunk)

RowOf(waveforms) ==
  LET row[n \in 0..Len(waveforms)] ==
        IF n = 0 THEN <<>> ELSE row[n - 1] \o BurstOf(waveforms[n])
  IN  row
Bursts(waveforms) == RowOf(waveforms)[Len(waveforms)]

Owed == Carried \o burst \o Bursts(queue)

Promise == INSTANCE TxStream WITH stream <- Owed

(* The transmit line keeps the promise of TxStream: whole bursts, in the   *)
(* order of acceptance, each sample once (enqueue, pull, clearQueue and    *)
(* the reconstruct of applyModem).                                         *)
KeepsPromise == Promise!Spec
-----------------------------------------------------------------------------
(* Every sample on its way to the air is one of the current preset, except *)
(* those of the chunk a preset change found already pulled: SetModem leaves *)
(* nothing modulated for the old preset in the queue or in the burst       *)
(* (applyModem clears the queue and reconstructs the transmitter).         *)
LineMatchesModem ==
  /\ \A i \in 1..Len(queue) : queue[i].modem = modem
  /\ \A i \in 1..Len(burst) : burst[i][1].modem = modem

(* The line never stalls: while frames wait for ever, the pull loop starts *)
(* bursts for ever, however frames and preset changes interleave with it.  *)
QueueMoves ==
  <>[](queue # <<>>) => []<><<queue # <<>> /\ queue' = Tail(queue)>>_queue
=============================================================================
