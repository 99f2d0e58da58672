----------------------------- MODULE RadioNode -----------------------------
(***************************************************************************)
(* QuadRFRadio, the radio of the Meshtastic daemon: a worker with one      *)
(* notification slot, a queue of packets to send, the receptions that the  *)
(* RX thread hands over, preset requests of the control socket.  Packets   *)
(* are sent from the thread the worker runs on (the router) and from       *)
(* others (beacon, ping).  A delay is elapsed at any time after it began;  *)
(* only the airtime of a packet is told apart.  NotifiedWorkerThread and   *)
(* MeshPacketQueue are code of the firmware.                               *)
(***************************************************************************)
EXTENDS Integers, Sequences, FiniteSets

CONSTANTS
  Packets,      \* packets to send, each once
  Peers,        \* nodes heard
  MaxHeard,     \* bound: receptions
  MAX_TX_QUEUE, \* capacity of txQueue
  Presets,      \* presets the PHY implements
  ShortTurbo,   \* the one reverted to
  Unsupported,  \* a preset of the firmware that the PHY lacks
  MaxAsks,      \* bound: preset requests
  None

Senders == {"router", "beacon"}
Notes == {"ISR_RX", "ISR_TX", "TRANSMIT_DELAY_COMPLETED"}
Frames == Peers \cup {"dropped"}

ASSUME RadioNodeAssumption ==
  /\ ShortTurbo \in Presets /\ Unsupported \notin Presets
  /\ None \notin Packets \cup Presets \cup Notes \cup {Unsupported}
  /\ MAX_TX_QUEUE \in Nat \ {0} /\ MaxHeard \in Nat /\ MaxAsks \in Nat
  /\ "dropped" \notin Peers

VARIABLES
  slot,           \* the notification: one of Notes, or None
  txQueue,        \* packets waiting
  sendingPacket,  \* the packet on the air, or None
  rx_q,           \* receptions the worker has not handled
  greeted_peers,
  pending_preset,
  worker,         \* where the worker is: "rest" outside onNotify
  isr,            \* the notification it handles
  timed,          \* the packet whose airtime an ISR_TX timer counts
  posting,        \* threads between what they did and its notification
  config,         \* lora.modem_preset, saved
  phy_preset,     \* the preset of the last SetModem that reached the PHY
  reboots,        \* rebootAtMsec is set
  used,           \* history: packets passed to send()
  aired, ended,   \* history: packets begun since the start, and over
  heard,          \* history: receptions so far
  asks, asked     \* history: preset requests, the last one not overruled

airVars == <<sendingPacket, aired, ended>>
queueVars == <<txQueue, used, airVars>>
rxVars == <<rx_q, greeted_peers, heard>>
presetVars == <<pending_preset, config, phy_preset, reboots, asks, asked>>
workerVars == <<worker, isr, timed>>
vars == <<slot, posting, queueVars, rxVars, presetVars, workerVars>>

Init ==
  /\ slot = None /\ posting = {} /\ worker = "rest" /\ isr = None /\ timed = None
  /\ txQueue = {} /\ sendingPacket = None /\ used = {}
  /\ aired = {} /\ ended = {}
  /\ rx_q = <<>> /\ greeted_peers = {} /\ heard = 0
  /\ pending_preset = None /\ config = ShortTurbo /\ phy_preset = ShortTurbo
  /\ reboots = FALSE /\ asks = 0 /\ asked = None
-----------------------------------------------------------------------------
(* NotifiedWorkerThread: notify(v, true), and notifyLater(_, v, false). *)
Notify(v) == slot' = v
NotifyLater(v) == slot' = IF slot = None THEN v ELSE slot

(* MeshPacketQueue::enqueue: a full queue refuses the packet or drops a    *)
(* less urgent one for it.                                                 *)
Enqueue(p) ==
  /\ p \notin used /\ used' = used \cup {p}
  /\ IF Cardinality(txQueue) < MAX_TX_QUEUE
       THEN txQueue' = txQueue \cup {p}
       ELSE \E q \in txQueue \cup {p} : txQueue' = (txQueue \cup {p}) \ {q}

(* send(): the packet is queued, then (setTransmitDelay) a timer is set.   *)
(* The router runs on the worker's thread, so only while that one rests.   *)
Send(t, p) ==
  /\ t \notin posting /\ t = "router" => worker = "rest"
  /\ Enqueue(p)
  /\ posting' = IF p \in txQueue' THEN posting \cup {t} ELSE posting
  /\ UNCHANGED <<slot, airVars, rxVars, presetVars, workerVars>>

SetTransmitDelay(t) ==
  /\ t \in posting
  /\ IF txQueue # {} THEN NotifyLater("TRANSMIT_DELAY_COMPLETED")
                     ELSE UNCHANGED slot
  /\ posting' = posting \ {t}
  /\ UNCHANGED <<queueVars, rxVars, presetVars, workerVars>>

CancelSending(p) ==
  /\ worker = "rest" /\ "router" \notin posting
  /\ p \in txQueue /\ txQueue' = txQueue \ {p}
  /\ UNCHANGED <<slot, posting, used, airVars, rxVars, presetVars, workerVars>>

(* The RX thread: enqueueRx queues a reception, then notifies. *)
EnqueueRx(f) ==
  /\ "rx" \notin posting /\ heard < MaxHeard
  /\ heard' = heard + 1
  /\ rx_q' = Append(rx_q, f)
  /\ posting' = posting \cup {"rx"}
  /\ UNCHANGED <<slot, greeted_peers, queueVars, presetVars, workerVars>>

(* Mutant: the notification does not replace the one in the slot. *)
NotifyRx_Polite ==
  /\ "rx" \in posting
  /\ NotifyLater("ISR_RX")
  /\ posting' = posting \ {"rx"}
  /\ UNCHANGED <<queueVars, rxVars, presetVars, workerVars>>

NotifyRx ==
  /\ "rx" \in posting
  /\ Notify("ISR_RX")
  /\ posting' = posting \ {"rx"}
  /\ UNCHANGED <<queueVars, rxVars, presetVars, workerVars>>

(* The control thread: SET PRESET, then the same notification. *)
SetPreset(p) ==
  /\ "control" \notin posting /\ asks < MaxAsks
  /\ asks' = asks + 1 /\ asked' = p
  /\ pending_preset' = p
  /\ posting' = posting \cup {"control"}
  /\ UNCHANGED <<slot, config, phy_preset, reboots, queueVars, rxVars, workerVars>>

NotifyPreset ==
  /\ "control" \in posting
  /\ Notify("ISR_RX")
  /\ posting' = posting \ {"control"}
  /\ UNCHANGED <<queueVars, rxVars, presetVars, workerVars>>
-----------------------------------------------------------------------------
(* pushModemToPhy: an unsupported preset is reverted; the write may fail.  *)
PushModemToPhy(wanted) ==
  LET preset == IF wanted = Unsupported THEN ShortTurbo ELSE wanted
  IN  config' = preset /\ phy_preset' \in {phy_preset, preset}

(* reconfigure(), when a client writes the LoRa configuration. *)
Reconfigure(p) ==
  /\ worker = "rest" /\ "router" \notin posting
  /\ PushModemToPhy(p)
  /\ asked' = IF p = config THEN asked ELSE None
  /\ UNCHANGED <<slot, posting, pending_preset, reboots, asks, queueVars,
                 rxVars, workerVars>>

(* The daemon restarts: what was not saved is gone; init() pushes again.   *)
Reboot ==
  /\ reboots /\ worker = "rest" /\ "router" \notin posting
  /\ slot' = None /\ posting' = {} /\ reboots' = FALSE
  /\ txQueue' = {} /\ sendingPacket' = None /\ aired' = {} /\ ended' = {}
  /\ rx_q' = <<>> /\ greeted_peers' = {}
  /\ pending_preset' = None /\ asked' = None
  /\ PushModemToPhy(config)
  /\ UNCHANGED <<used, heard, asks, workerVars>>
-----------------------------------------------------------------------------
(* The worker: onNotify. *)

(* A timer for ISR_TX is set for the airtime of the packet. *)
Take ==
  /\ worker = "rest" /\ "router" \notin posting /\ slot # None
  /\ slot = "ISR_TX" => timed \in ended
  /\ isr' = slot /\ slot' = None
  /\ worker' = "preset"
  /\ UNCHANGED <<timed, posting, queueVars, rxVars, presetVars>>

(* Mutant: a request that comes while a packet is on the air is dropped. *)
ApplyPresetRequest_NotOnAir ==
  /\ worker = "preset" /\ worker' = "complete"
  /\ pending_preset' = None
  /\ IF pending_preset \notin {None, config} /\ sendingPacket = None
       THEN PushModemToPhy(pending_preset) /\ reboots' = TRUE
       ELSE UNCHANGED <<config, phy_preset, reboots>>
  /\ UNCHANGED <<slot, posting, isr, timed, asks, asked, queueVars, rxVars>>

ApplyPresetRequest ==
  /\ worker = "preset" /\ worker' = "complete"
  /\ pending_preset' = None
  /\ IF pending_preset \notin {None, config}
       THEN PushModemToPhy(pending_preset) /\ reboots' = TRUE
       ELSE UNCHANGED <<config, phy_preset, reboots>>
  /\ UNCHANGED <<slot, posting, isr, timed, asks, asked, queueVars, rxVars>>

(* Mutant: any notification completes the packet on the air. *)
CheckTxComplete_AtOnce == sendingPacket' = None

(* handleTransmitInterrupt, or checkTxComplete. *)
CheckTxComplete ==
  sendingPacket' = IF sendingPacket \in ended THEN None ELSE sendingPacket

CompleteSending ==
  /\ worker = "complete"
  /\ IF isr = "ISR_TX" THEN sendingPacket' = None /\ worker' = "arm"
                       ELSE CheckTxComplete /\ worker' = "receive"
  /\ UNCHANGED <<slot, posting, isr, timed, txQueue, used, aired, ended, rxVars, presetVars>>

(* One turn of handleReceiveInterrupt's loop.  A peer heard for the first  *)
(* time is greeted, by a packet sent from within the handler.              *)
HandleFrame ==
  /\ worker = "receive" /\ rx_q # <<>>
  /\ rx_q' = Tail(rx_q)
  /\ LET from == Head(rx_q)
     IN  /\ greeted_peers' = greeted_peers \cup ({from} \cap Peers)
         /\ \/ /\ from \in Peers \ greeted_peers
               /\ \E p \in Packets : Enqueue(p)
               /\ worker' = "greet"
            \/ /\ from \in Peers \ greeted_peers => used = Packets
               /\ UNCHANGED <<txQueue, used, worker>>
  /\ UNCHANGED <<slot, posting, isr, timed, airVars, heard, presetVars>>

Greet ==
  /\ worker = "greet" /\ worker' = "receive"
  /\ NotifyLater("TRANSMIT_DELAY_COMPLETED")
  /\ UNCHANGED <<posting, isr, timed, queueVars, rxVars, presetVars>>

Received ==
  /\ worker = "receive" /\ rx_q = <<>>
  /\ worker' = IF isr = "ISR_RX" THEN "arm" ELSE "try"
  /\ UNCHANGED <<slot, posting, isr, timed, queueVars, rxVars, presetVars>>

(* Mutant: ISR_RX does not set the timer it may have replaced. *)
Arm_NotAfterRx ==
  /\ worker = "arm" /\ worker' = "rest"
  /\ IF txQueue # {} /\ isr # "ISR_RX" THEN NotifyLater("TRANSMIT_DELAY_COMPLETED")
                                       ELSE UNCHANGED slot
  /\ UNCHANGED <<posting, isr, timed, queueVars, rxVars, presetVars>>

(* startTransmitTimer, or setTransmitDelay when the packet cannot go. *)
Arm ==
  /\ worker = "arm" /\ worker' = "rest"
  /\ IF txQueue # {} THEN NotifyLater("TRANSMIT_DELAY_COMPLETED")
                     ELSE UNCHANGED slot
  /\ UNCHANGED <<posting, isr, timed, queueVars, rxVars, presetVars>>

(* canSendImmediately and isChannelActive. *)
TrySend ==
  /\ worker = "try"
  /\ CheckTxComplete
  /\ worker' = IF txQueue = {} THEN "rest"
               ELSE IF sendingPacket' = None /\ rx_q = <<>> THEN "send" ELSE "arm"
  /\ UNCHANGED <<slot, posting, isr, timed, txQueue, used, aired, ended, rxVars, presetVars>>

(* startSend: whether the frame is written or not, its airtime runs. *)
StartSend ==
  /\ worker = "send" /\ worker' = "sent"
  /\ \E p \in txQueue :
       /\ txQueue' = txQueue \ {p}
       /\ sendingPacket' = p /\ aired' = aired \cup {p}
  /\ UNCHANGED <<slot, posting, isr, timed, used, ended, rxVars, presetVars>>

ArmIsrTx ==
  /\ worker = "sent" /\ worker' = "rest"
  /\ NotifyLater("ISR_TX") /\ timed' = sendingPacket
  /\ UNCHANGED <<posting, isr, queueVars, rxVars, presetVars>>

AirtimeEnds ==
  /\ worker # "sent"
  /\ \E p \in aired \ ended : ended' = ended \cup {p}
  /\ UNCHANGED <<slot, posting, txQueue, sendingPacket, used, aired, rxVars,
                 presetVars, workerVars>>
-----------------------------------------------------------------------------
Worker ==
  \/ Take \/ ApplyPresetRequest \/ CompleteSending \/ HandleFrame \/ Greet
  \/ Received \/ Arm \/ TrySend \/ StartSend \/ ArmIsrTx
Posts == NotifyRx \/ NotifyPreset \/ \E t \in Senders : SetTransmitDelay(t)
Calls ==
  \/ \E t \in Senders, p \in Packets : Send(t, p)
  \/ \E p \in Packets : CancelSending(p)
  \/ \E f \in Frames : EnqueueRx(f)
  \/ \E p \in Presets : SetPreset(p)
  \/ \E p \in Presets \cup {Unsupported} : Reconfigure(p)

Next == Worker \/ Posts \/ Calls \/ AirtimeEnds \/ Reboot

Spec == Init /\ [][Next]_vars

(* The scheduler runs the worker when its time has come, the threads go on *)
(* to their notification, and airtime passes.                              *)
FairSpec ==
  Spec /\ WF_vars(Worker) /\ WF_vars(AirtimeEnds) /\ WF_vars(NotifyRx)
       /\ WF_vars(NotifyPreset) /\ \A t \in Senders : WF_vars(SetTransmitDelay(t))
-----------------------------------------------------------------------------
TypeOK ==
  /\ slot \in Notes \cup {None} /\ isr \in Notes \cup {None}
  /\ posting \subseteq Senders \cup {"rx", "control"}
  /\ txQueue \subseteq used /\ used \subseteq Packets
  /\ Cardinality(txQueue) <= MAX_TX_QUEUE
  /\ ended \subseteq aired /\ aired \subseteq used
  /\ sendingPacket \in aired \cup {None} /\ timed \in Packets \cup {None}
  /\ rx_q \in Seq(Frames) /\ greeted_peers \subseteq Peers
  /\ heard \in 0..MaxHeard /\ asks \in 0..MaxAsks
  /\ pending_preset \in Presets \cup {None} /\ asked \in Presets \cup {None}
  /\ config \in Presets /\ phy_preset \in Presets /\ reboots \in BOOLEAN
  /\ worker \in {"rest", "preset", "complete", "receive", "greet", "arm", "try",
                 "send", "sent"}

(* Nobody is on the way to a notification. *)
Resting == worker = "rest" /\ posting = {}

(* What waits is waited for: with one slot that threads overwrite, a       *)
(* packet to send, a reception and a preset request still always have a    *)
(* notification coming whose handler looks at them (ISR_TX does not look   *)
(* at receptions).                                                         *)
Watched ==
  Resting =>
    /\ txQueue # {} => slot # None
    /\ rx_q # <<>> => slot \in {"ISR_RX", "TRANSMIT_DELAY_COMPLETED"}
    /\ pending_preset # None => slot # None

(* A frame is handed to the PHY only when the airtime of the one before it *)
(* is over, whichever notification finds that out.                         *)
Paced == [][aired' # aired /\ aired' # {} => aired \subseteq ended]_vars

(* A packet does not wait for ever, though packets are being received,     *)
(* frames fail to reach the PHY, and presets change.                       *)
NothingStalls == \A p \in Packets : p \in txQueue ~> p \notin txQueue

(* A preset request that was acknowledged is applied, unless another       *)
(* request or a client overrules it, or the daemon reboots.                *)
RequestApplied == \A p \in Presets : asked = p ~> asked # p \/ config = p
=============================================================================
