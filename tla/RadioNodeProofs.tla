--------------------------- MODULE RadioNodeProofs ---------------------------
(***************************************************************************)
(* Theorems of RadioNode, for any number of packets, peers and presets,    *)
(* any queue and any number of receptions.                                 *)
(***************************************************************************)
EXTENDS RadioNode, FiniteSetTheorems, TLAPS

TypeInv == TypeOK /\ IsFiniteSet(txQueue)

(* A waiting packet, reception or request has a thread on the way to its   *)
(* notification, a notification in the slot, or the worker busy before the *)
(* place where it looks.                                                   *)
PacketWatched ==
  txQueue # {} => posting \cap Senders # {} \/ slot # None \/ worker # "rest"

Receiving == worker \in {"preset", "complete", "receive", "greet"}

ReceptionWatched ==
  rx_q # <<>> =>
    \/ "rx" \in posting
    \/ slot \in {"ISR_RX", "TRANSMIT_DELAY_COMPLETED"}
    \/ Receiving /\ isr \in {"ISR_RX", "TRANSMIT_DELAY_COMPLETED"}

RequestWatched ==
  pending_preset # None => "control" \in posting \/ slot # None \/ worker = "preset"

(* At most one packet is on the air, and an ISR_TX that may complete it    *)
(* counts its airtime and no other's.                                      *)
Completing == worker \in {"preset", "complete"} /\ isr = "ISR_TX"

AirInv ==
  /\ aired \ ended \subseteq {sendingPacket}
  /\ worker = "send" => sendingPacket = None
  /\ worker # "rest" => slot # "ISR_TX"
  /\ slot = "ISR_TX" => sendingPacket \in ended \cup {None, timed}
  /\ Completing => sendingPacket \in ended \cup {None}

(* A packet more, or one for another: the queue stays within its bound.    *)
LEMMA EnqueueFits ==
  ASSUME TypeInv, NEW p \in Packets, Enqueue(p)
  PROVE  /\ used' \subseteq Packets /\ txQueue' \subseteq used'
         /\ used \subseteq used'
         /\ IsFiniteSet(txQueue') /\ Cardinality(txQueue') <= MAX_TX_QUEUE
<1>1. /\ IsFiniteSet(txQueue) /\ p \notin txQueue /\ Cardinality(txQueue) \in Nat
      /\ Cardinality(txQueue) <= MAX_TX_QUEUE
  BY FS_CardinalityType DEF TypeInv, TypeOK, Enqueue
<1>2. /\ IsFiniteSet(txQueue \cup {p})
      /\ Cardinality(txQueue \cup {p}) = Cardinality(txQueue) + 1
  BY <1>1, FS_AddElement
<1>3. /\ used' \subseteq Packets /\ txQueue' \subseteq used' /\ used \subseteq used'
  BY DEF TypeInv, TypeOK, Enqueue
<1>4. CASE Cardinality(txQueue) < MAX_TX_QUEUE
  <2>1. txQueue' = txQueue \cup {p}
    BY <1>4 DEF Enqueue
  <2> QED
    BY <1>1, <1>2, <1>3, <1>4, <2>1,
       RadioNodeAssumption DEF RadioNodeAssumption
<1>5. CASE ~(Cardinality(txQueue) < MAX_TX_QUEUE)
  <2>1. PICK q \in txQueue \cup {p} : txQueue' = (txQueue \cup {p}) \ {q}
    BY <1>5 DEF Enqueue
  <2>2. /\ IsFiniteSet((txQueue \cup {p}) \ {q})
        /\ Cardinality((txQueue \cup {p}) \ {q}) = Cardinality(txQueue \cup {p}) - 1
    BY <1>2, FS_RemoveElement
  <2>3. Cardinality((txQueue \cup {p}) \ {q}) = Cardinality(txQueue)
    BY <1>1, <1>2, <2>2
  <2> QED
    BY <1>1, <1>3, <2>1, <2>2, <2>3
<1> QED
  BY <1>4, <1>5

(* The initial state is well typed. *)
LEMMA TypeInit == Init => TypeInv
<1> SUFFICES ASSUME Init PROVE TypeInv
  OBVIOUS
<1>1. IsFiniteSet(txQueue) /\ Cardinality(txQueue) = 0
  BY FS_EmptySet DEF Init
<1>2. rx_q \in Seq(Frames)
  BY DEF Init
<1>3. Cardinality(txQueue) <= MAX_TX_QUEUE
  BY <1>1, RadioNodeAssumption DEF RadioNodeAssumption
<1>4. reboots \in BOOLEAN
  BY DEF Init
<1> QED
  BY <1>1, <1>2, <1>3, <1>4, RadioNodeAssumption DEF Init, TypeInv, TypeOK,
     RadioNodeAssumption

(* Every step keeps the types. *)
LEMMA TypeStep ==
  ASSUME TypeInv, [Next]_vars
  PROVE  TypeInv'
<1>1. ASSUME NEW t \in Senders, NEW p \in Packets, Send(t, p) PROVE TypeInv'
  BY <1>1, EnqueueFits, RadioNodeAssumption
     DEF TypeInv, TypeOK, Notes, Senders, Frames, Send, airVars, rxVars,
         presetVars, workerVars
<1>2. ASSUME NEW t \in Senders, SetTransmitDelay(t) PROVE TypeInv'
  BY <1>2, RadioNodeAssumption DEF TypeInv, TypeOK, Notes, Senders, Frames,
     RadioNodeAssumption, SetTransmitDelay, NotifyLater, vars, queueVars,
        airVars, rxVars, presetVars, workerVars
<1>3. ASSUME NEW p \in Packets, CancelSending(p) PROVE TypeInv'
  <2>1. PICK q \in txQueue : txQueue' = txQueue \ {q}
    BY <1>3 DEF CancelSending
  <2>2. IsFiniteSet(txQueue') /\ Cardinality(txQueue') <= Cardinality(txQueue)
    BY <2>1, FS_Subset DEF TypeInv
  <2>3. Cardinality(txQueue') <= MAX_TX_QUEUE
    BY <2>1, <2>2, FS_CardinalityType, RadioNodeAssumption
       DEF TypeInv, TypeOK, RadioNodeAssumption
  <2> QED
    BY <1>3, <2>1, <2>2, <2>3
       DEF TypeInv, TypeOK, CancelSending, airVars, rxVars, presetVars,
          workerVars
<1>4. ASSUME NEW f \in Frames, EnqueueRx(f) PROVE TypeInv'
  BY <1>4, RadioNodeAssumption DEF TypeInv, TypeOK, Notes, Senders, Frames,
     RadioNodeAssumption, EnqueueRx, vars, queueVars, airVars, rxVars,
        presetVars, workerVars
<1>5. ASSUME NotifyRx PROVE TypeInv'
  BY <1>5, RadioNodeAssumption DEF TypeInv, TypeOK, Notes, Senders, Frames,
     RadioNodeAssumption, NotifyRx, Notify, vars, queueVars, airVars, rxVars,
        presetVars, workerVars
<1>6. ASSUME NEW p \in Presets, SetPreset(p) PROVE TypeInv'
  BY <1>6, RadioNodeAssumption DEF TypeInv, TypeOK, Notes, Senders, Frames,
     RadioNodeAssumption, SetPreset, vars, queueVars, airVars, rxVars,
        presetVars, workerVars
<1>7. ASSUME NotifyPreset PROVE TypeInv'
  BY <1>7, RadioNodeAssumption DEF TypeInv, TypeOK, Notes, Senders, Frames,
     RadioNodeAssumption, NotifyPreset, Notify, vars, queueVars, airVars,
        rxVars, presetVars, workerVars
<1>8. ASSUME NEW p \in Presets \cup {Unsupported},
   Reconfigure(p) PROVE TypeInv'
  BY <1>8, RadioNodeAssumption
     DEF TypeInv, TypeOK, RadioNodeAssumption, Reconfigure, PushModemToPhy,
         queueVars, airVars, rxVars, workerVars
<1>9. ASSUME Reboot PROVE TypeInv'
  <2>1. IsFiniteSet(txQueue') /\ Cardinality(txQueue') = 0
    BY <1>9, FS_EmptySet DEF Reboot
  <2>2. rx_q' \in Seq(Frames)
    BY <1>9 DEF Reboot
  <2>3. Cardinality(txQueue') <= MAX_TX_QUEUE
    BY <2>1, RadioNodeAssumption DEF RadioNodeAssumption
  <2>4. reboots' \in BOOLEAN
    BY <1>9 DEF Reboot
  <2> QED
    BY <1>9, <2>1, <2>2, <2>3, <2>4, RadioNodeAssumption
       DEF TypeInv, TypeOK, RadioNodeAssumption, Reboot, PushModemToPhy,
          workerVars
<1>10. ASSUME Take PROVE TypeInv'
  BY <1>10, RadioNodeAssumption DEF TypeInv, TypeOK, Notes, Senders, Frames,
     RadioNodeAssumption, Take, vars, queueVars, airVars, rxVars, presetVars,
        workerVars
<1>11. ASSUME ApplyPresetRequest PROVE TypeInv'
  BY <1>11, RadioNodeAssumption, SMTT(30), ZenonT(30) DEF TypeInv, TypeOK, Notes, Senders, Frames,
     RadioNodeAssumption, ApplyPresetRequest, PushModemToPhy, vars, queueVars,
        airVars, rxVars, presetVars, workerVars
<1>12. ASSUME CompleteSending PROVE TypeInv'
  BY <1>12, RadioNodeAssumption DEF TypeInv, TypeOK, Notes, Senders, Frames,
     RadioNodeAssumption, CompleteSending, CheckTxComplete, vars, queueVars,
        airVars, rxVars, presetVars, workerVars
<1>13. ASSUME HandleFrame PROVE TypeInv'
  <2>1. /\ rx_q' \in Seq(Frames) /\ greeted_peers' \subseteq Peers
    BY <1>13 DEF TypeInv, TypeOK, HandleFrame
  <2>2. CASE \E p \in Packets : Enqueue(p) /\ worker' = "greet"
    BY <1>13, <2>1, <2>2, EnqueueFits
       DEF TypeInv, TypeOK, HandleFrame, airVars, presetVars
  <2>3. CASE UNCHANGED <<txQueue, used, worker>>
    BY <1>13, <2>1, <2>3 DEF TypeInv, TypeOK, HandleFrame, airVars, presetVars
  <2> QED
    BY <1>13, <2>2, <2>3 DEF HandleFrame
<1>14. ASSUME Greet PROVE TypeInv'
  BY <1>14, RadioNodeAssumption DEF TypeInv, TypeOK, Notes, Senders, Frames,
     RadioNodeAssumption, Greet, NotifyLater, vars, queueVars, airVars,
        rxVars, presetVars, workerVars
<1>15. ASSUME Received PROVE TypeInv'
  BY <1>15, RadioNodeAssumption DEF TypeInv, TypeOK, Notes, Senders, Frames,
     RadioNodeAssumption, Received, vars, queueVars, airVars, rxVars,
        presetVars, workerVars
<1>16. ASSUME Arm PROVE TypeInv'
  BY <1>16, RadioNodeAssumption DEF TypeInv, TypeOK, Notes, Senders, Frames,
     RadioNodeAssumption, Arm, NotifyLater, vars, queueVars, airVars, rxVars,
        presetVars, workerVars
<1>17. ASSUME TrySend PROVE TypeInv'
  BY <1>17, RadioNodeAssumption DEF TypeInv, TypeOK, Notes, Senders, Frames,
     RadioNodeAssumption, TrySend, CheckTxComplete, vars, queueVars, airVars,
        rxVars, presetVars, workerVars
<1>18. ASSUME StartSend PROVE TypeInv'
  <2>1. PICK p \in txQueue : /\ txQueue' = txQueue \ {p} /\ sendingPacket' = p
                         /\ aired' = aired \cup {p}
    BY <1>18 DEF StartSend
  <2>2. IsFiniteSet(txQueue') /\ Cardinality(txQueue') <= Cardinality(txQueue)
    BY <2>1, FS_Subset DEF TypeInv
  <2>3. Cardinality(txQueue') <= MAX_TX_QUEUE
    BY <2>1, <2>2, FS_CardinalityType, RadioNodeAssumption
       DEF TypeInv, TypeOK, RadioNodeAssumption
  <2> QED
    BY <1>18, <2>1, <2>2, <2>3
       DEF TypeInv, TypeOK, StartSend, airVars, rxVars, presetVars, workerVars
<1>19. ASSUME ArmIsrTx PROVE TypeInv'
  BY <1>19, RadioNodeAssumption DEF TypeInv, TypeOK, Notes, Senders, Frames,
     RadioNodeAssumption, ArmIsrTx, NotifyLater, vars, queueVars, airVars,
        rxVars, presetVars, workerVars
<1>20. ASSUME AirtimeEnds PROVE TypeInv'
  BY <1>20, RadioNodeAssumption DEF TypeInv, TypeOK, Notes, Senders, Frames,
     RadioNodeAssumption, AirtimeEnds, vars, queueVars, airVars, rxVars,
        presetVars, workerVars
<1>21. ASSUME UNCHANGED vars PROVE TypeInv'
  BY <1>21 DEF TypeInv, TypeOK, Notes, Senders, Frames, RadioNodeAssumption,
     vars, queueVars, airVars, rxVars, presetVars, workerVars
<1> QED
  BY <1>1, <1>2, <1>3, <1>4, <1>5, <1>6, <1>7, <1>8, <1>9, <1>10, <1>11,
     <1>12, <1>13, <1>14, <1>15, <1>16, <1>17, <1>18, <1>19, <1>20, <1>21
     DEF Next, Worker, Posts, Calls

(* A packet is not left without a notification to come. *)
LEMMA PacketStep ==
  ASSUME PacketWatched, [Next]_vars
  PROVE  PacketWatched'
<1>1. ASSUME NEW t \in Senders, NEW p \in Packets, Send(t,
   p) PROVE PacketWatched'
  BY <1>1, RadioNodeAssumption DEF PacketWatched, Senders, Notes,
     RadioNodeAssumption, Send, Enqueue, vars, queueVars, airVars, rxVars,
        presetVars, workerVars
<1>2. ASSUME NEW t \in Senders, SetTransmitDelay(t) PROVE PacketWatched'
  BY <1>2, RadioNodeAssumption DEF PacketWatched, Senders, Notes,
     RadioNodeAssumption, SetTransmitDelay, NotifyLater, vars, queueVars,
        airVars, rxVars, presetVars, workerVars
<1>3. ASSUME NEW p \in Packets, CancelSending(p) PROVE PacketWatched'
  BY <1>3, RadioNodeAssumption DEF PacketWatched, Senders, Notes,
     RadioNodeAssumption, CancelSending, vars, queueVars, airVars, rxVars,
        presetVars, workerVars
<1>4. ASSUME NEW f \in Frames, EnqueueRx(f) PROVE PacketWatched'
  BY <1>4, RadioNodeAssumption DEF PacketWatched, Senders, Notes,
     RadioNodeAssumption, EnqueueRx, vars, queueVars, airVars, rxVars,
        presetVars, workerVars
<1>5. ASSUME NotifyRx PROVE PacketWatched'
  BY <1>5, RadioNodeAssumption DEF PacketWatched, Senders, Notes,
     RadioNodeAssumption, NotifyRx, Notify, vars, queueVars, airVars, rxVars,
        presetVars, workerVars
<1>6. ASSUME NEW p \in Presets, SetPreset(p) PROVE PacketWatched'
  BY <1>6, RadioNodeAssumption DEF PacketWatched, Senders, Notes,
     RadioNodeAssumption, SetPreset, vars, queueVars, airVars, rxVars,
        presetVars, workerVars
<1>7. ASSUME NotifyPreset PROVE PacketWatched'
  BY <1>7, RadioNodeAssumption DEF PacketWatched, Senders, Notes,
     RadioNodeAssumption, NotifyPreset, Notify, vars, queueVars, airVars,
        rxVars, presetVars, workerVars
<1>8. ASSUME NEW p \in Presets \cup {Unsupported},
   Reconfigure(p) PROVE PacketWatched'
  BY <1>8, RadioNodeAssumption DEF PacketWatched, Senders, Notes,
     RadioNodeAssumption, Reconfigure, PushModemToPhy, vars, queueVars,
        airVars, rxVars, presetVars, workerVars
<1>9. ASSUME Reboot PROVE PacketWatched'
  BY <1>9, RadioNodeAssumption DEF PacketWatched, Senders, Notes,
     RadioNodeAssumption, Reboot, PushModemToPhy, vars, queueVars, airVars,
        rxVars, presetVars, workerVars
<1>10. ASSUME Take PROVE PacketWatched'
  BY <1>10, RadioNodeAssumption DEF PacketWatched, Senders, Notes,
     RadioNodeAssumption, Take, vars, queueVars, airVars, rxVars, presetVars,
        workerVars
<1>11. ASSUME ApplyPresetRequest PROVE PacketWatched'
  BY <1>11, RadioNodeAssumption DEF PacketWatched, Senders, Notes,
     RadioNodeAssumption, ApplyPresetRequest, PushModemToPhy, vars, queueVars,
        airVars, rxVars, presetVars, workerVars
<1>12. ASSUME CompleteSending PROVE PacketWatched'
  BY <1>12, RadioNodeAssumption DEF PacketWatched, Senders, Notes,
     RadioNodeAssumption, CompleteSending, CheckTxComplete, vars, queueVars,
        airVars, rxVars, presetVars, workerVars
<1>13. ASSUME HandleFrame PROVE PacketWatched'
  BY <1>13, RadioNodeAssumption DEF PacketWatched, Senders, Notes,
     RadioNodeAssumption, HandleFrame, Enqueue, vars, queueVars, airVars,
        rxVars, presetVars, workerVars
<1>14. ASSUME Greet PROVE PacketWatched'
  BY <1>14, RadioNodeAssumption DEF PacketWatched, Senders, Notes,
     RadioNodeAssumption, Greet, NotifyLater, vars, queueVars, airVars,
        rxVars, presetVars, workerVars
<1>15. ASSUME Received PROVE PacketWatched'
  BY <1>15, RadioNodeAssumption DEF PacketWatched, Senders, Notes,
     RadioNodeAssumption, Received, vars, queueVars, airVars, rxVars,
        presetVars, workerVars
<1>16. ASSUME Arm PROVE PacketWatched'
  BY <1>16, RadioNodeAssumption DEF PacketWatched, Senders, Notes,
     RadioNodeAssumption, Arm, NotifyLater, vars, queueVars, airVars, rxVars,
        presetVars, workerVars
<1>17. ASSUME TrySend PROVE PacketWatched'
  BY <1>17, RadioNodeAssumption DEF PacketWatched, Senders, Notes,
     RadioNodeAssumption, TrySend, CheckTxComplete, vars, queueVars, airVars,
        rxVars, presetVars, workerVars
<1>18. ASSUME StartSend PROVE PacketWatched'
  BY <1>18, RadioNodeAssumption DEF PacketWatched, Senders, Notes,
     RadioNodeAssumption, StartSend, vars, queueVars, airVars, rxVars,
        presetVars, workerVars
<1>19. ASSUME ArmIsrTx PROVE PacketWatched'
  BY <1>19, RadioNodeAssumption DEF PacketWatched, Senders, Notes,
     RadioNodeAssumption, ArmIsrTx, NotifyLater, vars, queueVars, airVars,
        rxVars, presetVars, workerVars
<1>20. ASSUME AirtimeEnds PROVE PacketWatched'
  BY <1>20, RadioNodeAssumption DEF PacketWatched, Senders, Notes,
     RadioNodeAssumption, AirtimeEnds, vars, queueVars, airVars, rxVars,
        presetVars, workerVars
<1>21. ASSUME UNCHANGED vars PROVE PacketWatched'
  BY <1>21 DEF PacketWatched, Senders, Notes, RadioNodeAssumption, vars,
     queueVars, airVars, rxVars, presetVars, workerVars
<1> QED
  BY <1>1, <1>2, <1>3, <1>4, <1>5, <1>6, <1>7, <1>8, <1>9, <1>10, <1>11,
     <1>12, <1>13, <1>14, <1>15, <1>16, <1>17, <1>18, <1>19, <1>20, <1>21
     DEF Next, Worker, Posts, Calls

(* Nor is a reception. *)
LEMMA ReceptionStep ==
  ASSUME TypeInv, ReceptionWatched, [Next]_vars
  PROVE  ReceptionWatched'
<1>1. ASSUME NEW t \in Senders, NEW p \in Packets, Send(t,
   p) PROVE ReceptionWatched'
  BY <1>1, RadioNodeAssumption DEF ReceptionWatched, Receiving, TypeInv,
     TypeOK, Notes, Senders, RadioNodeAssumption, Send, Enqueue, vars,
        queueVars, airVars, rxVars, presetVars, workerVars
<1>2. ASSUME NEW t \in Senders, SetTransmitDelay(t) PROVE ReceptionWatched'
  BY <1>2, RadioNodeAssumption DEF ReceptionWatched, Receiving, TypeInv,
     TypeOK, Notes, Senders, RadioNodeAssumption, SetTransmitDelay,
        NotifyLater, vars, queueVars, airVars, rxVars, presetVars, workerVars
<1>3. ASSUME NEW p \in Packets, CancelSending(p) PROVE ReceptionWatched'
  BY <1>3, RadioNodeAssumption DEF ReceptionWatched, Receiving, TypeInv,
     TypeOK, Notes, Senders, RadioNodeAssumption, CancelSending, vars,
        queueVars, airVars, rxVars, presetVars, workerVars
<1>4. ASSUME NEW f \in Frames, EnqueueRx(f) PROVE ReceptionWatched'
  BY <1>4, RadioNodeAssumption DEF ReceptionWatched, Receiving, TypeInv,
     TypeOK, Notes, Senders, RadioNodeAssumption, EnqueueRx, vars, queueVars,
        airVars, rxVars, presetVars, workerVars
<1>5. ASSUME NotifyRx PROVE ReceptionWatched'
  BY <1>5, RadioNodeAssumption DEF ReceptionWatched, Receiving, TypeInv,
     TypeOK, Notes, Senders, RadioNodeAssumption, NotifyRx, Notify, vars,
        queueVars, airVars, rxVars, presetVars, workerVars
<1>6. ASSUME NEW p \in Presets, SetPreset(p) PROVE ReceptionWatched'
  BY <1>6, RadioNodeAssumption DEF ReceptionWatched, Receiving, TypeInv,
     TypeOK, Notes, Senders, RadioNodeAssumption, SetPreset, vars, queueVars,
        airVars, rxVars, presetVars, workerVars
<1>7. ASSUME NotifyPreset PROVE ReceptionWatched'
  BY <1>7, RadioNodeAssumption DEF ReceptionWatched, Receiving, TypeInv,
     TypeOK, Notes, Senders, RadioNodeAssumption, NotifyPreset, Notify, vars,
        queueVars, airVars, rxVars, presetVars, workerVars
<1>8. ASSUME NEW p \in Presets \cup {Unsupported},
   Reconfigure(p) PROVE ReceptionWatched'
  BY <1>8, RadioNodeAssumption DEF ReceptionWatched, Receiving, TypeInv,
     TypeOK, Notes, Senders, RadioNodeAssumption, Reconfigure, PushModemToPhy,
        vars, queueVars, airVars, rxVars, presetVars, workerVars
<1>9. ASSUME Reboot PROVE ReceptionWatched'
  BY <1>9, RadioNodeAssumption DEF ReceptionWatched, Receiving, TypeInv,
     TypeOK, Notes, Senders, RadioNodeAssumption, Reboot, PushModemToPhy,
        vars, queueVars, airVars, rxVars, presetVars, workerVars
<1>10. ASSUME Take PROVE ReceptionWatched'
  BY <1>10, RadioNodeAssumption DEF ReceptionWatched, Receiving, TypeInv,
     TypeOK, Notes, Senders, RadioNodeAssumption, Take, vars, queueVars,
        airVars, rxVars, presetVars, workerVars
<1>11. ASSUME ApplyPresetRequest PROVE ReceptionWatched'
  BY <1>11, RadioNodeAssumption DEF ReceptionWatched, Receiving, TypeInv,
     TypeOK, Notes, Senders, RadioNodeAssumption, ApplyPresetRequest,
        PushModemToPhy, vars, queueVars, airVars, rxVars, presetVars,
           workerVars
<1>12. ASSUME CompleteSending PROVE ReceptionWatched'
  BY <1>12, RadioNodeAssumption DEF ReceptionWatched, Receiving, TypeInv,
     TypeOK, Notes, Senders, RadioNodeAssumption, CompleteSending,
        CheckTxComplete, vars, queueVars, airVars, rxVars, presetVars,
           workerVars
<1>13. ASSUME HandleFrame PROVE ReceptionWatched'
  BY <1>13, RadioNodeAssumption DEF ReceptionWatched, Receiving, TypeInv,
     TypeOK, Notes, Senders, RadioNodeAssumption, HandleFrame, Enqueue, vars,
        queueVars, airVars, rxVars, presetVars, workerVars
<1>14. ASSUME Greet PROVE ReceptionWatched'
  BY <1>14, RadioNodeAssumption DEF ReceptionWatched, Receiving, TypeInv,
     TypeOK, Notes, Senders, RadioNodeAssumption, Greet, NotifyLater, vars,
        queueVars, airVars, rxVars, presetVars, workerVars
<1>15. ASSUME Received PROVE ReceptionWatched'
  BY <1>15, RadioNodeAssumption DEF ReceptionWatched, Receiving, TypeInv,
     TypeOK, Notes, Senders, RadioNodeAssumption, Received, vars, queueVars,
        airVars, rxVars, presetVars, workerVars
<1>16. ASSUME Arm PROVE ReceptionWatched'
  BY <1>16, RadioNodeAssumption DEF ReceptionWatched, Receiving, TypeInv,
     TypeOK, Notes, Senders, RadioNodeAssumption, Arm, NotifyLater, vars,
        queueVars, airVars, rxVars, presetVars, workerVars
<1>17. ASSUME TrySend PROVE ReceptionWatched'
  BY <1>17, RadioNodeAssumption DEF ReceptionWatched, Receiving, TypeInv,
     TypeOK, Notes, Senders, RadioNodeAssumption, TrySend, CheckTxComplete,
        vars, queueVars, airVars, rxVars, presetVars, workerVars
<1>18. ASSUME StartSend PROVE ReceptionWatched'
  BY <1>18, RadioNodeAssumption DEF ReceptionWatched, Receiving, TypeInv,
     TypeOK, Notes, Senders, RadioNodeAssumption, StartSend, vars, queueVars,
        airVars, rxVars, presetVars, workerVars
<1>19. ASSUME ArmIsrTx PROVE ReceptionWatched'
  BY <1>19, RadioNodeAssumption DEF ReceptionWatched, Receiving, TypeInv,
     TypeOK, Notes, Senders, RadioNodeAssumption, ArmIsrTx, NotifyLater, vars,
        queueVars, airVars, rxVars, presetVars, workerVars
<1>20. ASSUME AirtimeEnds PROVE ReceptionWatched'
  BY <1>20, RadioNodeAssumption DEF ReceptionWatched, Receiving, TypeInv,
     TypeOK, Notes, Senders, RadioNodeAssumption, AirtimeEnds, vars,
        queueVars, airVars, rxVars, presetVars, workerVars
<1>21. ASSUME UNCHANGED vars PROVE ReceptionWatched'
  BY <1>21 DEF ReceptionWatched, Receiving, TypeInv, TypeOK, Notes, Senders,
     RadioNodeAssumption, vars, queueVars, airVars, rxVars, presetVars,
        workerVars
<1> QED
  BY <1>1, <1>2, <1>3, <1>4, <1>5, <1>6, <1>7, <1>8, <1>9, <1>10, <1>11,
     <1>12, <1>13, <1>14, <1>15, <1>16, <1>17, <1>18, <1>19, <1>20, <1>21
     DEF Next, Worker, Posts, Calls

(* Nor is a preset request. *)
LEMMA RequestStep ==
  ASSUME RequestWatched, [Next]_vars
  PROVE  RequestWatched'
<1>1. ASSUME NEW t \in Senders, NEW p \in Packets, Send(t,
   p) PROVE RequestWatched'
  BY <1>1, RadioNodeAssumption DEF RequestWatched, Senders, Notes,
     RadioNodeAssumption, Send, Enqueue, vars, queueVars, airVars, rxVars,
        presetVars, workerVars
<1>2. ASSUME NEW t \in Senders, SetTransmitDelay(t) PROVE RequestWatched'
  BY <1>2, RadioNodeAssumption DEF RequestWatched, Senders, Notes,
     RadioNodeAssumption, SetTransmitDelay, NotifyLater, vars, queueVars,
        airVars, rxVars, presetVars, workerVars
<1>3. ASSUME NEW p \in Packets, CancelSending(p) PROVE RequestWatched'
  BY <1>3, RadioNodeAssumption DEF RequestWatched, Senders, Notes,
     RadioNodeAssumption, CancelSending, vars, queueVars, airVars, rxVars,
        presetVars, workerVars
<1>4. ASSUME NEW f \in Frames, EnqueueRx(f) PROVE RequestWatched'
  BY <1>4, RadioNodeAssumption DEF RequestWatched, Senders, Notes,
     RadioNodeAssumption, EnqueueRx, vars, queueVars, airVars, rxVars,
        presetVars, workerVars
<1>5. ASSUME NotifyRx PROVE RequestWatched'
  BY <1>5, RadioNodeAssumption DEF RequestWatched, Senders, Notes,
     RadioNodeAssumption, NotifyRx, Notify, vars, queueVars, airVars, rxVars,
        presetVars, workerVars
<1>6. ASSUME NEW p \in Presets, SetPreset(p) PROVE RequestWatched'
  BY <1>6, RadioNodeAssumption DEF RequestWatched, Senders, Notes,
     RadioNodeAssumption, SetPreset, vars, queueVars, airVars, rxVars,
        presetVars, workerVars
<1>7. ASSUME NotifyPreset PROVE RequestWatched'
  BY <1>7, RadioNodeAssumption DEF RequestWatched, Senders, Notes,
     RadioNodeAssumption, NotifyPreset, Notify, vars, queueVars, airVars,
        rxVars, presetVars, workerVars
<1>8. ASSUME NEW p \in Presets \cup {Unsupported},
   Reconfigure(p) PROVE RequestWatched'
  BY <1>8, RadioNodeAssumption DEF RequestWatched, Senders, Notes,
     RadioNodeAssumption, Reconfigure, PushModemToPhy, vars, queueVars,
        airVars, rxVars, presetVars, workerVars
<1>9. ASSUME Reboot PROVE RequestWatched'
  BY <1>9, RadioNodeAssumption DEF RequestWatched, Senders, Notes,
     RadioNodeAssumption, Reboot, PushModemToPhy, vars, queueVars, airVars,
        rxVars, presetVars, workerVars
<1>10. ASSUME Take PROVE RequestWatched'
  BY <1>10, RadioNodeAssumption DEF RequestWatched, Senders, Notes,
     RadioNodeAssumption, Take, vars, queueVars, airVars, rxVars, presetVars,
        workerVars
<1>11. ASSUME ApplyPresetRequest PROVE RequestWatched'
  BY <1>11, RadioNodeAssumption DEF RequestWatched, Senders, Notes,
     RadioNodeAssumption, ApplyPresetRequest, PushModemToPhy, vars, queueVars,
        airVars, rxVars, presetVars, workerVars
<1>12. ASSUME CompleteSending PROVE RequestWatched'
  BY <1>12, RadioNodeAssumption DEF RequestWatched, Senders, Notes,
     RadioNodeAssumption, CompleteSending, CheckTxComplete, vars, queueVars,
        airVars, rxVars, presetVars, workerVars
<1>13. ASSUME HandleFrame PROVE RequestWatched'
  BY <1>13, RadioNodeAssumption DEF RequestWatched, Senders, Notes,
     RadioNodeAssumption, HandleFrame, Enqueue, vars, queueVars, airVars,
        rxVars, presetVars, workerVars
<1>14. ASSUME Greet PROVE RequestWatched'
  BY <1>14, RadioNodeAssumption DEF RequestWatched, Senders, Notes,
     RadioNodeAssumption, Greet, NotifyLater, vars, queueVars, airVars,
        rxVars, presetVars, workerVars
<1>15. ASSUME Received PROVE RequestWatched'
  BY <1>15, RadioNodeAssumption DEF RequestWatched, Senders, Notes,
     RadioNodeAssumption, Received, vars, queueVars, airVars, rxVars,
        presetVars, workerVars
<1>16. ASSUME Arm PROVE RequestWatched'
  BY <1>16, RadioNodeAssumption DEF RequestWatched, Senders, Notes,
     RadioNodeAssumption, Arm, NotifyLater, vars, queueVars, airVars, rxVars,
        presetVars, workerVars
<1>17. ASSUME TrySend PROVE RequestWatched'
  BY <1>17, RadioNodeAssumption DEF RequestWatched, Senders, Notes,
     RadioNodeAssumption, TrySend, CheckTxComplete, vars, queueVars, airVars,
        rxVars, presetVars, workerVars
<1>18. ASSUME StartSend PROVE RequestWatched'
  BY <1>18, RadioNodeAssumption DEF RequestWatched, Senders, Notes,
     RadioNodeAssumption, StartSend, vars, queueVars, airVars, rxVars,
        presetVars, workerVars
<1>19. ASSUME ArmIsrTx PROVE RequestWatched'
  BY <1>19, RadioNodeAssumption DEF RequestWatched, Senders, Notes,
     RadioNodeAssumption, ArmIsrTx, NotifyLater, vars, queueVars, airVars,
        rxVars, presetVars, workerVars
<1>20. ASSUME AirtimeEnds PROVE RequestWatched'
  BY <1>20, RadioNodeAssumption DEF RequestWatched, Senders, Notes,
     RadioNodeAssumption, AirtimeEnds, vars, queueVars, airVars, rxVars,
        presetVars, workerVars
<1>21. ASSUME UNCHANGED vars PROVE RequestWatched'
  BY <1>21 DEF RequestWatched, Senders, Notes, RadioNodeAssumption, vars,
     queueVars, airVars, rxVars, presetVars, workerVars
<1> QED
  BY <1>1, <1>2, <1>3, <1>4, <1>5, <1>6, <1>7, <1>8, <1>9, <1>10, <1>11,
     <1>12, <1>13, <1>14, <1>15, <1>16, <1>17, <1>18, <1>19, <1>20, <1>21
     DEF Next, Worker, Posts, Calls

(* One packet on the air at a time. *)
LEMMA AirStep ==
  ASSUME TypeInv, AirInv, [Next]_vars
  PROVE  AirInv'
<1>1. ASSUME NEW t \in Senders, NEW p \in Packets, Send(t, p) PROVE AirInv'
  BY <1>1, RadioNodeAssumption DEF AirInv, Completing, TypeInv, TypeOK, Notes,
     Senders, RadioNodeAssumption, Send, Enqueue, vars, queueVars, airVars,
        rxVars, presetVars, workerVars
<1>2. ASSUME NEW t \in Senders, SetTransmitDelay(t) PROVE AirInv'
  BY <1>2, RadioNodeAssumption DEF AirInv, Completing, TypeInv, TypeOK, Notes,
     Senders, RadioNodeAssumption, SetTransmitDelay, NotifyLater, vars,
        queueVars, airVars, rxVars, presetVars, workerVars
<1>3. ASSUME NEW p \in Packets, CancelSending(p) PROVE AirInv'
  BY <1>3, RadioNodeAssumption DEF AirInv, Completing, TypeInv, TypeOK, Notes,
     Senders, RadioNodeAssumption, CancelSending, vars, queueVars, airVars,
        rxVars, presetVars, workerVars
<1>4. ASSUME NEW f \in Frames, EnqueueRx(f) PROVE AirInv'
  BY <1>4, RadioNodeAssumption DEF AirInv, Completing, TypeInv, TypeOK, Notes,
     Senders, RadioNodeAssumption, EnqueueRx, vars, queueVars, airVars,
        rxVars, presetVars, workerVars
<1>5. ASSUME NotifyRx PROVE AirInv'
  BY <1>5, RadioNodeAssumption DEF AirInv, Completing, TypeInv, TypeOK, Notes,
     Senders, RadioNodeAssumption, NotifyRx, Notify, vars, queueVars, airVars,
        rxVars, presetVars, workerVars
<1>6. ASSUME NEW p \in Presets, SetPreset(p) PROVE AirInv'
  BY <1>6, RadioNodeAssumption DEF AirInv, Completing, TypeInv, TypeOK, Notes,
     Senders, RadioNodeAssumption, SetPreset, vars, queueVars, airVars,
        rxVars, presetVars, workerVars
<1>7. ASSUME NotifyPreset PROVE AirInv'
  BY <1>7, RadioNodeAssumption DEF AirInv, Completing, TypeInv, TypeOK, Notes,
     Senders, RadioNodeAssumption, NotifyPreset, Notify, vars, queueVars,
        airVars, rxVars, presetVars, workerVars
<1>8. ASSUME NEW p \in Presets \cup {Unsupported},
   Reconfigure(p) PROVE AirInv'
  BY <1>8, RadioNodeAssumption DEF AirInv, Completing, TypeInv, TypeOK, Notes,
     Senders, RadioNodeAssumption, Reconfigure, PushModemToPhy, vars,
        queueVars, airVars, rxVars, presetVars, workerVars
<1>9. ASSUME Reboot PROVE AirInv'
  BY <1>9, RadioNodeAssumption DEF AirInv, Completing, TypeInv, TypeOK, Notes,
     Senders, RadioNodeAssumption, Reboot, PushModemToPhy, vars, queueVars,
        airVars, rxVars, presetVars, workerVars
<1>10. ASSUME Take PROVE AirInv'
  BY <1>10, RadioNodeAssumption DEF AirInv, Completing, TypeInv, TypeOK,
     Notes, Senders, RadioNodeAssumption, Take, vars, queueVars, airVars,
        rxVars, presetVars, workerVars
<1>11. ASSUME ApplyPresetRequest PROVE AirInv'
  BY <1>11, RadioNodeAssumption DEF AirInv, Completing, TypeInv, TypeOK,
     Notes, Senders, RadioNodeAssumption, ApplyPresetRequest, PushModemToPhy,
        vars, queueVars, airVars, rxVars, presetVars, workerVars
<1>12. ASSUME CompleteSending PROVE AirInv'
  BY <1>12, RadioNodeAssumption DEF AirInv, Completing, TypeInv, TypeOK,
     Notes, Senders, RadioNodeAssumption, CompleteSending, CheckTxComplete,
        vars, queueVars, airVars, rxVars, presetVars, workerVars
<1>13. ASSUME HandleFrame PROVE AirInv'
  BY <1>13, RadioNodeAssumption DEF AirInv, Completing, TypeInv, TypeOK,
     Notes, Senders, RadioNodeAssumption, HandleFrame, Enqueue, vars,
        queueVars, airVars, rxVars, presetVars, workerVars
<1>14. ASSUME Greet PROVE AirInv'
  BY <1>14, RadioNodeAssumption DEF AirInv, Completing, TypeInv, TypeOK,
     Notes, Senders, RadioNodeAssumption, Greet, NotifyLater, vars, queueVars,
        airVars, rxVars, presetVars, workerVars
<1>15. ASSUME Received PROVE AirInv'
  BY <1>15, RadioNodeAssumption DEF AirInv, Completing, TypeInv, TypeOK,
     Notes, Senders, RadioNodeAssumption, Received, vars, queueVars, airVars,
        rxVars, presetVars, workerVars
<1>16. ASSUME Arm PROVE AirInv'
  BY <1>16, RadioNodeAssumption DEF AirInv, Completing, TypeInv, TypeOK,
     Notes, Senders, RadioNodeAssumption, Arm, NotifyLater, vars, queueVars,
        airVars, rxVars, presetVars, workerVars
<1>17. ASSUME TrySend PROVE AirInv'
  BY <1>17, RadioNodeAssumption DEF AirInv, Completing, TypeInv, TypeOK,
     Notes, Senders, RadioNodeAssumption, TrySend, CheckTxComplete, vars,
        queueVars, airVars, rxVars, presetVars, workerVars
<1>18. ASSUME StartSend PROVE AirInv'
  BY <1>18, RadioNodeAssumption DEF AirInv, Completing, TypeInv, TypeOK,
     Notes, Senders, RadioNodeAssumption, StartSend, vars, queueVars, airVars,
        rxVars, presetVars, workerVars
<1>19. ASSUME ArmIsrTx PROVE AirInv'
  BY <1>19, RadioNodeAssumption DEF AirInv, Completing, TypeInv, TypeOK,
     Notes, Senders, RadioNodeAssumption, ArmIsrTx, NotifyLater, vars,
        queueVars, airVars, rxVars, presetVars, workerVars
<1>20. ASSUME AirtimeEnds PROVE AirInv'
  BY <1>20, RadioNodeAssumption DEF AirInv, Completing, TypeInv, TypeOK,
     Notes, Senders, RadioNodeAssumption, AirtimeEnds, vars, queueVars,
        airVars, rxVars, presetVars, workerVars
<1>21. ASSUME UNCHANGED vars PROVE AirInv'
  BY <1>21 DEF AirInv, Completing, TypeInv, TypeOK, Notes, Senders,
     RadioNodeAssumption, vars, queueVars, airVars, rxVars, presetVars,
        workerVars
<1> QED
  BY <1>1, <1>2, <1>3, <1>4, <1>5, <1>6, <1>7, <1>8, <1>9, <1>10, <1>11,
     <1>12, <1>13, <1>14, <1>15, <1>16, <1>17, <1>18, <1>19, <1>20, <1>21
     DEF Next, Worker, Posts, Calls

IInv == TypeInv /\ PacketWatched /\ ReceptionWatched /\ RequestWatched /\ AirInv

(* The inductive invariant. *)
LEMMA Inductive == Spec => []IInv
<1>1. Init => IInv
  BY TypeInit DEF Init, IInv, PacketWatched, ReceptionWatched, RequestWatched,
     AirInv, Completing
<1>2. IInv /\ [Next]_vars => IInv'
  BY TypeStep, PacketStep, ReceptionStep, RequestStep, AirStep DEF IInv
<1> QED
  BY <1>1, <1>2, PTL DEF Spec

(* The variables of QuadRFRadio keep their types, and txQueue never holds  *)
(* more than its capacity.                                                 *)
THEOREM TypeCorrect == Spec => []TypeOK
<1>1. IInv => TypeOK
  BY DEF IInv, TypeInv
<1> QED
  BY <1>1, Inductive, PTL

(* However the threads overwrite the one notification slot, no packet, no  *)
(* reception and no preset request is left without a handler to come.      *)
THEOREM EverythingIsWatched == Spec => []Watched
<1>1. IInv => Watched
  BY DEF IInv, PacketWatched, ReceptionWatched, RequestWatched, Receiving,
     Watched,
     Resting
<1> QED
  BY <1>1, Inductive, PTL

(* The worker hands a frame to the PHY only when the airtime of the one    *)
(* before it is over.                                                      *)
THEOREM OneFrameAtATime == Spec => Paced
<1>1. ASSUME IInv, [Next]_vars
      PROVE  [aired' # aired /\ aired' # {} => aired \subseteq ended]_vars
  <2>1. StartSend => aired \subseteq ended
    BY <1>1, RadioNodeAssumption
       DEF IInv, AirInv, TypeInv, TypeOK, RadioNodeAssumption, StartSend
  <2>2. \/ StartSend \/ Reboot \/ aired' = aired
    BY <1>1
       DEF Next, Worker, Posts, Calls, vars, queueVars, airVars, Send,
           SetTransmitDelay, CancelSending, EnqueueRx, NotifyRx, SetPreset,
           NotifyPreset, Reconfigure, Take, ApplyPresetRequest,
              CompleteSending,
           HandleFrame, Greet, Received, Arm, TrySend, ArmIsrTx, AirtimeEnds
  <2>3. Reboot => aired' = {}
    BY DEF Reboot
  <2> QED
    BY <2>1, <2>2, <2>3
<1> QED
  BY <1>1, Inductive, PTL DEF Spec, Paced
=============================================================================
