------------------------------ MODULE SelfEcho ------------------------------
(***************************************************************************)
(* The full-duplex radio hears its own bursts.  quadrf-lora-phy remembers  *)
(* the last MaxRecent frames it accepted for transmission and drops a      *)
(* received frame that equals one of them.                                 *)
(*                                                                         *)
(* A frame is remembered when it is accepted, not when it is sent: its     *)
(* echo comes after the frames accepted while it waited, was on the air    *)
(* and passed through the receive chain, and the code does not bound       *)
(* those.  The model gives each frame of our own its age: how many frames  *)
(* were accepted after it, counted up to MaxRecent.                        *)
(***************************************************************************)
EXTENDS Integers, Sequences

CONSTANTS
  EchoFrames,  \* air frames
  MaxRecent,   \* kMaxRecentTx
  MaxWaiting,  \* bound of the model: frames waiting in the transmitter
  MaxHeard     \* bound of the model: frames in the receive chain

ASSUME EchoAssumption ==
  /\ MaxRecent \in Nat \ {0}
  /\ MaxWaiting \in Nat
  /\ MaxHeard \in Nat

VARIABLES
  echoQueue,     \* frames waiting in the transmitter
  echoBurst,     \* the frame on the air, if any: a sequence of at most one
  echoHeard,     \* frames in the receive chain: chunk queue, DDC and Receiver
  echoRecent,    \* recent_tx, oldest first
  echoDelivered  \* history: the frame last handed to a client, at most one

echoVars == <<echoQueue, echoBurst, echoHeard, echoRecent, echoDelivered>>

Own == [frame : EchoFrames, from : {"us"}, age : 0..MaxRecent]
Foreigner == [frame : EchoFrames, from : {"them"}, age : {0}]

EchoTypeOK ==
  /\ echoQueue \in Seq(Own)
  /\ echoBurst \in Seq(Own)
  /\ echoHeard \in Seq(Own \cup Foreigner)
  /\ echoRecent \in Seq(EchoFrames) /\ Len(echoRecent) <= MaxRecent
  /\ echoDelivered \in Seq(Own \cup Foreigner)

EchoInit ==
  /\ echoQueue = <<>> /\ echoBurst = <<>> /\ echoHeard = <<>>
  /\ echoRecent = <<>>
  /\ echoDelivered = <<>>
-----------------------------------------------------------------------------
Older(a) ==
  IF a.from = "us" /\ a.age < MaxRecent THEN [a EXCEPT !.age = @ + 1] ELSE a
Aged(s) == [i \in 1..Len(s) |-> Older(s[i])]

(* Mutant: one frame too short. *)
RememberTx_Short(r, f) ==
  IF Len(r) < MaxRecent - 1 THEN Append(r, f) ELSE Append(Tail(r), f)

(* push_back, then pop_front down to kMaxRecentTx. *)
RememberTx(r, f) ==
  IF Len(r) < MaxRecent THEN Append(r, f) ELSE Append(Tail(r), f)

(* However many frames wait: MaxWaiting is no limit of the code.           *)
EnqueueAir(f) ==
  /\ Len(echoQueue) < MaxWaiting
  /\ echoQueue' = Append(Aged(echoQueue), [frame |-> f, from |-> "us", age |-> 0])
  /\ echoBurst' = Aged(echoBurst)
  /\ echoHeard' = Aged(echoHeard)
  /\ echoRecent' = RememberTx(echoRecent, f)
  /\ UNCHANGED echoDelivered

StartBurst ==
  /\ echoBurst = <<>> /\ echoQueue # <<>>
  /\ echoBurst' = <<Head(echoQueue)>>
  /\ echoQueue' = Tail(echoQueue)
  /\ UNCHANGED <<echoHeard, echoRecent, echoDelivered>>

(* The receive chain hears the burst, or loses it in noise or to the chunk *)
(* queue's limit.                                                          *)
FinishBurst ==
  /\ echoBurst # <<>>
  /\ echoBurst' = <<>>
  /\ \/ Len(echoHeard) < MaxHeard /\ echoHeard' = Append(echoHeard, Head(echoBurst))
     \/ UNCHANGED echoHeard
  /\ UNCHANGED <<echoQueue, echoRecent, echoDelivered>>

HearForeign(f) ==
  /\ Len(echoHeard) < MaxHeard
  /\ echoHeard' = Append(echoHeard, [frame |-> f, from |-> "them", age |-> 0])
  /\ UNCHANGED <<echoQueue, echoBurst, echoRecent, echoDelivered>>

IsRecentTxEcho(f) == \E i \in 1..Len(echoRecent) : echoRecent[i] = f

DrainRx ==
  /\ echoHeard # <<>>
  /\ echoHeard' = Tail(echoHeard)
  /\ echoDelivered' =
       IF IsRecentTxEcho(Head(echoHeard).frame) THEN <<>> ELSE <<Head(echoHeard)>>
  /\ UNCHANGED <<echoQueue, echoBurst, echoRecent>>

(* A new preset empties transmitter and receive chain, never the memory;   *)
(* one whose DDC cannot be built drops the queue alone.                    *)
ApplyModem ==
  /\ echoQueue' = <<>> /\ echoBurst' = <<>> /\ echoHeard' = <<>>
  /\ UNCHANGED <<echoRecent, echoDelivered>>

ApplyModemFails ==
  /\ echoQueue' = <<>>
  /\ UNCHANGED <<echoBurst, echoHeard, echoRecent, echoDelivered>>
-----------------------------------------------------------------------------
EchoNext ==
  \/ \E f \in EchoFrames : EnqueueAir(f) \/ HearForeign(f)
  \/ StartBurst \/ FinishBurst
  \/ DrainRx
  \/ ApplyModem \/ ApplyModemFails

EchoSpec == EchoInit /\ [][EchoNext]_echoVars
-----------------------------------------------------------------------------
(* "suppress matching RX so the RadioInterface never sees self-echoes"     *)
(* (quadrf_lora_phy.cpp:668-670).                                          *)
NoSelfEcho == \A i \in 1..Len(echoDelivered) : echoDelivered[i].from # "us"

(* What the memory does achieve: a frame of ours comes back to a client    *)
(* only if at least kMaxRecentTx frames were accepted between its own      *)
(* acceptance and its echo, whatever was lost, flushed, sent twice or      *)
(* heard from others in between (rememberTx, isRecentTxEcho).              *)
NoRecentSelfEcho ==
  \A i \in 1..Len(echoDelivered) :
    echoDelivered[i].from = "us" => echoDelivered[i].age >= MaxRecent
=============================================================================
