------------------------------ MODULE LoFollow ------------------------------
(***************************************************************************)
(* The LO follower of quadrf-lora-phy: once a second, while the PA is      *)
(* muted, the main loop reads both synthesizers back and takes a value it  *)
(* did not program for a move of a GUI slider.  The channel follows the    *)
(* moved LO, and both LOs are placed again: TX on the channel, RX one      *)
(* intermediate frequency below.                                           *)
(*                                                                         *)
(* Each read and each programming is one transaction under the JTAG lease, *)
(* which the GUI's own transactions also take: the user's writes fall      *)
(* between them and, while the GUI holds the lease, the follower's fail.   *)
(* Frequencies are integers, far enough apart for the 5 kHz tolerance and  *)
(* the synthesizers' quantization not to matter.                           *)
(***************************************************************************)
EXTENDS Integers

CONSTANTS
  Center,      \* center_mhz at start
  RxIf,         \* rx_if_khz: how far RX is placed below the channel
  Sliders,     \* frequencies a user may select
  Torn,        \* what a transaction cut between two register writes leaves
  MaxFailures  \* bound of the model: programmings that fail

ASSUME LoAssumption ==
  /\ Center \in Int /\ RxIf \in Int
  /\ Sliders \subseteq Int /\ Torn \subseteq Int
  /\ MaxFailures \in Nat

VARIABLES
  pc,                     \* where pollLoFollow is
  tx_lo, rx_lo,           \* the synthesizers
  channel,                \* channel_mhz_
  tx_expect, rx_expect,   \* what the follower believes it programmed
  primed,                 \* lo_primed
  tx_seen,                \* poll local: the TX LO read, first or last
  ok,                     \* poll local: programming went well so far
  failures,               \* history: programmings that failed
  raced,                  \* history: a slider moved while a poll was under way
  requested               \* history: the frequencies the user selected

history == <<failures, raced, requested>>
follower == <<channel, tx_expect, rx_expect, primed>>
vars == <<pc, tx_lo, rx_lo, follower, tx_seen, ok, history>>

Target == channel - RxIf      \* rxLoMhz

TypeOK ==
  /\ pc \in {"idle", "read_rx", "program_rx", "program_tx", "back_tx", "back_rx"}
  /\ tx_lo \in Int /\ rx_lo \in Int /\ channel \in Int
  /\ tx_expect \in Int /\ rx_expect \in Int /\ tx_seen \in Int
  /\ primed \in BOOLEAN /\ ok \in BOOLEAN /\ raced \in BOOLEAN
  /\ failures \in 0..MaxFailures
  /\ requested \subseteq Int

Init ==
  /\ pc = "idle"
  /\ tx_lo = Center /\ rx_lo = Center - RxIf
  /\ channel = Center
  /\ tx_expect = Center /\ rx_expect = Center - RxIf
  /\ primed = FALSE
  /\ tx_seen = Center /\ ok = TRUE
  /\ failures = 0 /\ raced = FALSE
  /\ requested = {Center}
-----------------------------------------------------------------------------
ReadTx ==
  /\ pc = "idle"
  /\ tx_seen' = tx_lo
  /\ pc' = "read_rx"
  /\ UNCHANGED <<tx_lo, rx_lo, follower, ok, history>>

ReadFails ==
  /\ pc = "read_rx"
  /\ pc' = "idle"
  /\ UNCHANGED <<tx_lo, rx_lo, follower, tx_seen, ok, history>>

(* The first successful poll takes what it reads for its own programming.  *)
Prime ==
  /\ pc = "read_rx" /\ ~primed
  /\ tx_expect' = tx_seen /\ rx_expect' = rx_lo
  /\ primed' = TRUE
  /\ pc' = "idle"
  /\ UNCHANGED <<tx_lo, rx_lo, channel, tx_seen, ok, history>>

TxMoved == tx_seen # tx_expect
RxMoved == rx_lo # rx_expect

NothingMoved ==
  /\ pc = "read_rx" /\ primed
  /\ ~TxMoved /\ ~RxMoved
  /\ pc' = "idle"
  /\ UNCHANGED <<tx_lo, rx_lo, follower, tx_seen, ok, history>>

(* Mutant: a move of the RX slider alone is not seen. *)
Observe_TxOnly ==
  /\ pc = "read_rx" /\ primed
  /\ TxMoved
  /\ channel' = tx_seen
  /\ pc' = "program_rx"
  /\ UNCHANGED <<tx_lo, rx_lo, tx_expect, rx_expect, primed, tx_seen, ok,
                 history>>

Observe ==
  /\ pc = "read_rx" /\ primed
  /\ TxMoved \/ RxMoved
  /\ channel' = IF TxMoved THEN tx_seen ELSE rx_lo
  /\ pc' = "program_rx"
  /\ UNCHANGED <<tx_lo, rx_lo, tx_expect, rx_expect, primed, tx_seen, ok,
                 history>>

(* One programming of a synthesizer that holds lo: done (well), or failed, *)
(* at the lease, between two registers, or after the last LO register.     *)
Programmed(well, lo, goal, new) ==
  IF well
    THEN new = goal /\ UNCHANGED failures
    ELSE /\ failures < MaxFailures
         /\ failures' = failures + 1
         /\ new \in {lo, goal} \cup Torn

(* Mutant: RX is placed on the channel itself. *)
ProgramRx_OnChannel ==
  /\ pc = "program_rx"
  /\ \E well \in BOOLEAN, new \in {rx_lo, channel} \cup Torn :
       /\ Programmed(well, rx_lo, channel, new)
       /\ ok' = well
       /\ rx_lo' = new
       /\ tx_lo' \in {tx_lo, new}
  /\ pc' = "program_tx"
  /\ UNCHANGED <<follower, tx_seen, raced, requested>>

(* RX first: the FPGA may mirror a write to the RX chip into the TX chip.  *)
ProgramRx ==
  /\ pc = "program_rx"
  /\ \E well \in BOOLEAN, new \in {rx_lo, Target} \cup Torn :
       /\ Programmed(well, rx_lo, Target, new)
       /\ ok' = well
       /\ rx_lo' = new
       /\ tx_lo' \in {tx_lo, new}
  /\ pc' = "program_tx"
  /\ UNCHANGED <<follower, tx_seen, raced, requested>>

(* What follows when something failed: the targets stand for the readbacks. *)
AssumeTargets ==
  /\ tx_expect' = channel /\ rx_expect' = Target
  /\ pc' = "idle"

ProgramTx ==
  /\ pc = "program_tx"
  /\ \E well \in BOOLEAN, new \in {tx_lo, channel} \cup Torn :
       /\ Programmed(well, tx_lo, channel, new)
       /\ ok' = (ok /\ well)
       /\ tx_lo' = new
  /\ IF ok' THEN pc' = "back_tx" /\ UNCHANGED <<tx_expect, rx_expect>>
            ELSE AssumeTargets
  /\ UNCHANGED <<rx_lo, channel, primed, tx_seen, raced, requested>>

ReadBackTx ==
  /\ pc = "back_tx"
  /\ tx_seen' = tx_lo
  /\ pc' = "back_rx"
  /\ UNCHANGED <<tx_lo, rx_lo, follower, ok, history>>

(* Mutant: the RX readback is not recorded. *)
ReadBackRx_TxOnly ==
  /\ pc = "back_rx"
  /\ tx_expect' = tx_seen
  /\ pc' = "idle"
  /\ UNCHANGED <<tx_lo, rx_lo, channel, rx_expect, primed, tx_seen, ok,
                 history>>

ReadBackRx ==
  /\ pc = "back_rx"
  /\ tx_expect' = tx_seen /\ rx_expect' = rx_lo
  /\ pc' = "idle"
  /\ UNCHANGED <<tx_lo, rx_lo, channel, primed, tx_seen, ok, history>>

ReadBackFails ==
  /\ pc \in {"back_tx", "back_rx"}
  /\ AssumeTargets
  /\ UNCHANGED <<tx_lo, rx_lo, channel, primed, tx_seen, ok, history>>
-----------------------------------------------------------------------------
(* The GUI's sliders, through quadrf-jtag. *)

SliderMoved(x) ==
  /\ requested' = requested \cup {x}
  /\ raced' = (raced \/ pc # "idle" \/ ~primed)

MoveTx(x) ==
  /\ tx_lo' = x
  /\ SliderMoved(x)
  /\ UNCHANGED <<pc, rx_lo, follower, tx_seen, ok, failures>>

(* With the GUI's "Tx follow Rx" the FPGA moves TX along. *)
MoveRx(x) ==
  /\ rx_lo' = x
  /\ tx_lo' \in {tx_lo, x}
  /\ SliderMoved(x)
  /\ UNCHANGED <<pc, follower, tx_seen, ok, failures>>

Poll == ReadTx \/ ReadFails \/ Prime \/ NothingMoved \/ Observe \/ ProgramRx
          \/ ProgramTx \/ ReadBackTx \/ ReadBackRx \/ ReadBackFails

Next == Poll \/ \E x \in Sliders : MoveTx(x) \/ MoveRx(x)

(* Polls go on and a readback succeeds at last. *)
Fairness == SF_vars(Poll) /\ SF_vars(Prime) /\ SF_vars(Observe)

Spec == Init /\ [][Next]_vars
FairSpec == Spec /\ Fairness
-----------------------------------------------------------------------------
Placed == tx_lo = channel /\ rx_lo = Target

(* The radio listens and sends where the follower says: between two polls, *)
(* synthesizers the follower takes for its own programming are placed on   *)
(* the channel, whatever failed before, unless a slider moved in the       *)
(* middle of a poll (pollLoFollow, LoFollower).                            *)
Settled ==
  ~raced /\ pc = "idle" /\ primed /\ tx_lo = tx_expect /\ rx_lo = rx_expect
    => Placed

(* Only the user moves the channel: it is the one of the command line or a *)
(* frequency selected on a slider, never a value the follower itself wrote *)
(* and mistook for a move (LoFollower::observe against ::programmed).      *)
ChannelRequested == channel \in requested

(* The follower keeps that promise while its programmings succeed.         *)
OwnWritesIgnored == failures = 0 => ChannelRequested

(* A slider that was moved is followed: both LOs are placed at last.       *)
Replaced == (~Placed /\ ~raced) ~> (Placed \/ raced)
=============================================================================
