--------------------------- MODULE LoFollowProofs ---------------------------
(***************************************************************************)
(* Proofs about LoFollow, for every set of slider positions, every IF and  *)
(* every number of failures.                                               *)
(***************************************************************************)
EXTENDS LoFollow, TLAPS

Moves == \E x \in Sliders : MoveTx(x) \/ MoveRx(x)

LEMMA TypeInit == Init => TypeOK
<1> SUFFICES ASSUME Init PROVE TypeOK
  OBVIOUS
<1> USE LoAssumption DEF Init
<1>1. primed \in BOOLEAN /\ ok \in BOOLEAN /\ raced \in BOOLEAN
  OBVIOUS
<1>2. failures \in 0..MaxFailures /\ requested \subseteq Int
  OBVIOUS
<1>3. QED  BY <1>1, <1>2 DEF TypeOK

LEMMA TypeStep == TypeOK /\ [Next]_vars => TypeOK'
<1> SUFFICES ASSUME TypeOK, [Next]_vars PROVE TypeOK'
  OBVIOUS
<1> USE LoAssumption DEF TypeOK, history
<1>1. CASE ReadTx
  BY <1>1 DEF ReadTx, follower
<1>2. CASE ReadFails \/ NothingMoved
  BY <1>2 DEF ReadFails, NothingMoved, follower
<1>3. CASE Prime
  BY <1>3 DEF Prime
<1>4. CASE Observe
  BY <1>4 DEF Observe, TxMoved
<1>5. CASE ProgramRx
  <2>1. Target \in Int
    BY DEF Target
  <2>2. PICK well \in BOOLEAN, new \in {rx_lo, Target} \cup Torn :
          /\ Programmed(well, rx_lo, Target, new)
          /\ ok' = well /\ rx_lo' = new /\ tx_lo' \in {tx_lo, new}
    BY <1>5 DEF ProgramRx
  <2>3. new \in Int
    BY <2>1
  <2>4. failures' \in 0..MaxFailures
    BY <2>2 DEF Programmed
  <2>5. ok' \in BOOLEAN
    BY <2>2
  <2>6. QED  BY <1>5, <2>2, <2>3, <2>4, <2>5 DEF ProgramRx, follower
<1>6. CASE ProgramTx
  <2>1. PICK well \in BOOLEAN, new \in {tx_lo, channel} \cup Torn :
          /\ Programmed(well, tx_lo, channel, new)
          /\ ok' = (ok /\ well) /\ tx_lo' = new
    BY <1>6 DEF ProgramTx
  <2>2. failures' \in 0..MaxFailures
    BY <2>1 DEF Programmed
  <2>3. ok' \in BOOLEAN
    BY <2>1
  <2>4. /\ tx_expect' \in Int /\ rx_expect' \in Int
        /\ pc' \in {"idle", "back_tx"}
    BY <1>6 DEF ProgramTx, AssumeTargets, Target
  <2>5. QED  BY <1>6, <2>1, <2>2, <2>3, <2>4 DEF ProgramTx
<1>7. CASE ReadBackTx
  BY <1>7 DEF ReadBackTx, follower
<1>8. CASE ReadBackRx
  BY <1>8 DEF ReadBackRx
<1>9. CASE ReadBackFails
  BY <1>9 DEF ReadBackFails, AssumeTargets, Target
<1>10. CASE Moves
  <2>1. PICK x \in Sliders : MoveTx(x) \/ MoveRx(x)
    BY <1>10 DEF Moves
  <2>2. raced' \in BOOLEAN
    BY <2>1 DEF MoveTx, MoveRx, SliderMoved
  <2>3. QED  BY <2>1, <2>2 DEF MoveTx, MoveRx, SliderMoved, follower
<1>11. CASE UNCHANGED vars
  BY <1>11 DEF vars, follower
<1>12. QED
  BY <1>1, <1>2, <1>3, <1>4, <1>5, <1>6, <1>7, <1>8, <1>9, <1>10, <1>11
  DEF Next, Poll, Moves

(* The state of the LO follower keeps its types (the members of LoFollower *)
(* and the locals of pollLoFollow).                                        *)
THEOREM TypeCorrect == Spec => []TypeOK
BY TypeInit, TypeStep, PTL DEF Spec

(***************************************************************************)
(* Placement.                                                              *)
(***************************************************************************)
PollsInv ==
  /\ pc \in {"idle", "read_rx"} => tx_expect = channel /\ rx_expect = Target
  /\ pc \in {"idle", "read_rx"} /\ ~primed =>
       Placed /\ (pc = "read_rx" => tx_seen = tx_lo)
  /\ pc \in {"program_rx", "program_tx"} => primed
  /\ pc = "program_tx" /\ ok => rx_lo = Target
  /\ pc \in {"back_tx", "back_rx"} => Placed
  /\ pc = "back_rx" => tx_seen = channel
PlacedInv == ~raced => PollsInv

(* While the sliders have moved only between two polls, whatever           *)
(* programming or readback failed, the synthesizers are on the channel     *)
(* whenever the follower finds them where it believes it put them.         *)
THEOREM SettledInvariant == Spec => []Settled
<1>1. Init => PlacedInv
  BY DEF Init, PlacedInv, PollsInv, Placed, Target
<1>2. TypeOK /\ PlacedInv /\ [Next]_vars => PlacedInv'
  <2> SUFFICES ASSUME TypeOK, PlacedInv, [Next]_vars PROVE PlacedInv'
    OBVIOUS
  <2> USE DEF TypeOK, PlacedInv, PollsInv, Placed, Target, follower, history
  <2>1. CASE ReadTx \/ ReadFails \/ Prime \/ NothingMoved
    BY <2>1 DEF ReadTx, ReadFails, Prime, NothingMoved, TxMoved, RxMoved
  <2>2. CASE Observe
    BY <2>2 DEF Observe
  <2>3. CASE ProgramRx
    <3>1. PICK well \in BOOLEAN, new \in {rx_lo, Target} \cup Torn :
            /\ Programmed(well, rx_lo, Target, new)
            /\ ok' = well /\ rx_lo' = new
      BY <2>3 DEF ProgramRx
    <3>2. ok' => rx_lo' = Target
      BY <3>1 DEF Programmed
    <3>3. QED  BY <2>3, <3>2 DEF ProgramRx
  <2>4. CASE ProgramTx
    <3>1. PICK well \in BOOLEAN, new \in {tx_lo, channel} \cup Torn :
            /\ Programmed(well, tx_lo, channel, new)
            /\ ok' = (ok /\ well) /\ tx_lo' = new
      BY <2>4 DEF ProgramTx
    <3>2. ok' => ok /\ tx_lo' = channel
      BY <3>1 DEF Programmed
    <3>3. CASE ok'
      BY <2>4, <3>2, <3>3 DEF ProgramTx
    <3>4. CASE ~ok'
      BY <2>4, <3>4 DEF ProgramTx, AssumeTargets
    <3>5. QED  BY <3>3, <3>4
  <2>5. CASE ReadBackTx \/ ReadBackRx \/ ReadBackFails
    BY <2>5 DEF ReadBackTx, ReadBackRx, ReadBackFails, AssumeTargets
  <2>6. CASE Moves
    <3>1. PICK x \in Sliders : MoveTx(x) \/ MoveRx(x)
      BY <2>6 DEF Moves
    <3>2. ~raced' => ~raced /\ pc = "idle" /\ primed
      BY <3>1 DEF MoveTx, MoveRx, SliderMoved
    <3>3. UNCHANGED <<pc, channel, tx_expect, rx_expect, primed, tx_seen, ok>>
      BY <3>1 DEF MoveTx, MoveRx
    <3>4. QED  BY <3>2, <3>3
  <2>7. CASE UNCHANGED vars
    BY <2>7 DEF vars
  <2>8. QED  BY <2>1, <2>2, <2>3, <2>4, <2>5, <2>6, <2>7 DEF Next, Poll, Moves
<1>3. PlacedInv => Settled
  BY DEF PlacedInv, PollsInv, Settled, Placed
<1>4. QED  BY <1>1, <1>2, <1>3, TypeCorrect, PTL DEF Spec

(***************************************************************************)
(* The channel is the user's.                                              *)
(***************************************************************************)
(* A synthesizer holds what the follower believes it wrote, or a move.     *)
Own(lo, believed) == lo = believed \/ lo \in requested

TrackedInv ==
  /\ channel \in requested
  /\ pc \in {"idle", "read_rx"} => Own(tx_lo, tx_expect) /\ Own(rx_lo, rx_expect)
  /\ pc = "read_rx" => Own(tx_seen, tx_expect) /\ Own(tx_lo, tx_seen)
  /\ pc = "program_tx" => ok /\ Own(rx_lo, Target)
  /\ pc \in {"back_tx", "back_rx"} => Own(tx_lo, channel) /\ Own(rx_lo, Target)
  /\ pc = "back_rx" => Own(tx_lo, tx_seen)
RequestedInv == failures = 0 => TrackedInv

(* While every programming has succeeded, whenever the sliders moved, even *)
(* in the middle of a poll, and whichever readback failed, the follower    *)
(* has never mistaken its own writing for a move.                          *)
THEOREM OnlyTheUserMoves == Spec => []OwnWritesIgnored
<1>1. Init => RequestedInv
  BY DEF Init, RequestedInv, TrackedInv, Own
<1>2. TypeOK /\ RequestedInv /\ [Next]_vars => RequestedInv'
  <2> SUFFICES ASSUME TypeOK, RequestedInv, [Next]_vars PROVE RequestedInv'
    OBVIOUS
  <2> USE DEF TypeOK, RequestedInv, TrackedInv, Own, Target, follower, history
  <2>1. CASE ReadTx \/ ReadFails \/ Prime \/ NothingMoved
    BY <2>1 DEF ReadTx, ReadFails, Prime, NothingMoved, TxMoved, RxMoved
  <2>2. CASE Observe
    BY <2>2 DEF Observe, TxMoved, RxMoved
  <2>3. CASE ProgramRx
    BY <2>3 DEF ProgramRx, Programmed
  <2>4. CASE ProgramTx
    BY <2>4 DEF ProgramTx, Programmed, AssumeTargets
  <2>5. CASE ReadBackTx \/ ReadBackRx \/ ReadBackFails
    BY <2>5 DEF ReadBackTx, ReadBackRx, ReadBackFails, AssumeTargets
  <2>6. CASE Moves
    BY <2>6 DEF Moves, MoveTx, MoveRx, SliderMoved
  <2>7. CASE UNCHANGED vars
    BY <2>7 DEF vars
  <2>8. QED  BY <2>1, <2>2, <2>3, <2>4, <2>5, <2>6, <2>7 DEF Next, Poll, Moves
<1>3. RequestedInv => OwnWritesIgnored
  BY DEF RequestedInv, TrackedInv, OwnWritesIgnored, ChannelRequested
<1>4. QED  BY <1>1, <1>2, <1>3, TypeCorrect, PTL DEF Spec
=============================================================================
