----------------------------- MODULE BleBridge ------------------------------
(***************************************************************************)
(* TcpBridge of the BLE bridge (src/tools/ble/quadrf_ble_bridge.py): a     *)
(* worker thread reads the byte stream of meshtasticd's phone API, cuts it *)
(* into frames and queues them; the main loop hands them to the phone one  *)
(* per read of FromRadio, tells it through FromNum that there are some,    *)
(* and writes what the phone sends.  One lock guards queue and socket; a   *)
(* send holds it until the last byte is taken.                             *)
(*                                                                         *)
(* meshtasticd and the phone are outside src/: the daemon may write, close *)
(* in the middle of a frame, die and come back, and stray bytes may lie    *)
(* between its frames; the phone, once subscribed or told, reads until it  *)
(* gets an empty answer.                                                   *)
(* A byte of the stream is a record: its value and, as history, the frame  *)
(* it was written in (the n-th of the daemon, over all connections; 0 for  *)
(* a stray byte) and its place there.                                      *)
(***************************************************************************)
EXTENDS Integers, Sequences, FiniteSets

CONSTANTS
  BlePayloads,  \* payloads the daemon writes: any bytes
  BleNoise,     \* strings of stray bytes
  BleFrames,    \* bound of the model: frames the daemon writes
  BleQueueMax,  \* 64, frames kept for the phone
  BleTroubles   \* bound: noise, closes, sends, subscriptions, together

ASSUME BleAssumption ==
  /\ \A p \in BlePayloads : p \in Seq(0..255) /\ Len(p) < 65536
  /\ BleNoise \subseteq Seq(0..255)
  /\ BleFrames \in Nat
  /\ BleQueueMax \in Nat \ {0}
  /\ BleTroubles \in Nat

VARIABLES
  bleWire,      \* bytes on their way from the daemon
  bleEof,       \* the daemon's end of the connection is closed
  bleSock,      \* self.sock: is there one
  bleWorker,    \* the worker: "top", "header", "payload", "append", "tell"
  bleGot,       \* the bytes of hdr and payload, as far as they have come
  bleQueue,     \* rx_queue
  bleNum,       \* from_num
  bleIdle,      \* how many calls idle_add has queued in the main loop
  bleSending,   \* the main loop is in sendall and holds the lock
  bleNotifying, \* FromNum: the phone is subscribed
  blePhone,     \* the phone: "away", "asleep", "reading"
  bleWritten,   \* history: the payloads the daemon wrote
  bleStray,     \* history: the values of the stray bytes
  bleNoisy,     \* history: the worker took a stray byte on this connection
  bleAppended,  \* history: every frame that was queued, in order
  bleDoubted,   \* history: the places in bleAppended of frames behind stray bytes
  bleRead,      \* history: every frame the phone read, in order
  bleTrouble    \* how much of BleTroubles is used

bleVars == <<bleWire, bleEof, bleSock, bleWorker, bleGot, bleQueue, bleNum,
             bleIdle, bleSending, bleNotifying, blePhone, bleWritten,
             bleStray, bleNoisy, bleAppended, bleDoubted, bleRead, bleTrouble>>

workerVars == <<bleWorker, bleGot, bleNoisy>>
queueVars == <<bleQueue, bleNum, bleAppended, bleDoubted>>
phoneVars == <<bleNotifying, blePhone, bleRead>>
wireVars == <<bleWire, bleEof, bleWritten, bleStray>>

BleInit ==
  /\ bleWire = <<>> /\ bleEof = FALSE /\ bleSock = FALSE
  /\ bleWorker = "top" /\ bleGot = <<>>
  /\ bleQueue = <<>> /\ bleNum = 0 /\ bleIdle = 0
  /\ bleSending = FALSE /\ bleNotifying = FALSE /\ blePhone = "away"
  /\ bleWritten = <<>> /\ bleStray = {} /\ bleNoisy = FALSE
  /\ bleAppended = <<>> /\ bleDoubted = {} /\ bleRead = <<>> /\ bleTrouble = 0
-----------------------------------------------------------------------------
Start1 == 148
Start2 == 195
Framed(p) == <<Start1, Start2, Len(p) \div 256, Len(p) % 256>> \o p
Size(p) == 4 + Len(p)
Frame(n, p) == [j \in 1..Size(p) |-> [byte |-> Framed(p)[j], of |-> n, at |-> j]]
Stray(bytes) == [j \in 1..Len(bytes) |-> [byte |-> bytes[j], of |-> 0, at |-> 0]]

Trouble == bleTrouble < BleTroubles /\ bleTrouble' = bleTrouble + 1

(* The daemon: it writes while the connection is open.                     *)
DaemonWrites ==
  /\ bleSock /\ ~bleEof /\ Len(bleWritten) < BleFrames
  /\ \E p \in BlePayloads :
       /\ bleWritten' = Append(bleWritten, p)
       /\ bleWire' = bleWire \o Frame(Len(bleWritten) + 1, p)
  /\ UNCHANGED <<bleEof, bleStray, bleSock, workerVars, queueVars, bleIdle, bleSending,
                 phoneVars, bleTrouble>>

DaemonNoise ==
  /\ Trouble
  /\ bleSock /\ ~bleEof
  /\ \E bytes \in BleNoise :
       /\ bleWire' = bleWire \o Stray(bytes)
       /\ bleStray' = bleStray \cup {bytes[j] : j \in 1..Len(bytes)}
  /\ UNCHANGED <<bleEof, bleWritten, bleSock, workerVars, queueVars, bleIdle,
                 bleSending, phoneVars>>

(* It closes or dies: what was on the way may be cut anywhere.             *)
DaemonCloses ==
  /\ Trouble
  /\ bleSock /\ ~bleEof
  /\ bleEof' = TRUE
  /\ \E k \in 0..Len(bleWire) : bleWire' = SubSeq(bleWire, 1, k)
  /\ UNCHANGED <<bleWritten, bleStray, bleSock, workerVars, queueVars, bleIdle,
                 bleSending, phoneVars>>
-----------------------------------------------------------------------------
(* _connect, and the loop around it.                                       *)
Connect ==
  /\ bleWorker = "top" /\ ~bleSock /\ ~bleSending
  /\ bleSock' = TRUE
  /\ bleWire' = <<>> /\ bleEof' = FALSE /\ bleNoisy' = FALSE
  /\ UNCHANGED <<bleWorker, bleGot, bleWritten, bleStray, queueVars, bleIdle, bleSending,
                 phoneVars, bleTrouble>>

(* The top of the loop: a new frame.  Mutant: the buffer outlives it.      *)
NextFrame_Keeps ==
  /\ bleWorker = "top" /\ bleSock
  /\ bleWorker' = "header"
  /\ UNCHANGED <<bleGot, bleNoisy, wireVars, bleSock, queueVars, bleIdle,
                 bleSending, phoneVars, bleTrouble>>

NextFrame ==
  /\ bleWorker = "top" /\ bleSock
  /\ bleWorker' = "header" /\ bleGot' = <<>>
  /\ UNCHANGED <<bleNoisy, wireVars, bleSock, queueVars, bleIdle, bleSending,
                 phoneVars, bleTrouble>>

(* recv returns what is there, at most what was asked for.                 *)
Recv(want) ==
  /\ bleSock /\ bleWire # <<>>
  /\ \E k \in 1..want :
       /\ k <= Len(bleWire)
       /\ bleGot' = bleGot \o SubSeq(bleWire, 1, k)
       /\ bleWire' = SubSeq(bleWire, k + 1, Len(bleWire))
       /\ bleNoisy' = (bleNoisy \/ \E i \in 1..k : bleWire[i].of = 0)
  /\ UNCHANGED <<bleEof, bleWritten, bleStray, bleSock, queueVars, bleIdle, bleSending,
                 phoneVars, bleTrouble>>

Payload(h) == 256 * h[3].byte + h[4].byte

(* Four bytes of header, then, behind good sync bytes, the payload.        *)
RecvHeader ==
  /\ bleWorker = "header"
  /\ Recv(4 - Len(bleGot))
  /\ bleWorker' = IF Len(bleGot') < 4 THEN "header"
                  ELSE IF bleGot'[1].byte # Start1 \/ bleGot'[2].byte # Start2 THEN "top"
                  ELSE IF Payload(bleGot') = 0 THEN "append"
                  ELSE "payload"

RecvPayload ==
  /\ bleWorker = "payload"
  /\ Recv(4 + Payload(bleGot) - Len(bleGot))
  /\ bleWorker' = IF Len(bleGot') < 4 + Payload(bleGot) THEN "payload" ELSE "append"

(* recv at the end of the stream, or on the socket the main loop closed.   *)
RecvFails ==
  /\ bleWorker \in {"header", "payload"}
  /\ ~bleSock \/ (bleEof /\ bleWire = <<>>)
  /\ ~bleSending
  /\ bleSock' = FALSE
  /\ bleWorker' = "top"
  /\ UNCHANGED <<bleGot, bleNoisy, wireVars, queueVars, bleIdle, bleSending, phoneVars,
                 bleTrouble>>

(* The payload goes to the queue, with the lock held.                      *)
(* Mutant: a queue that is full loses its newest frame.                    *)
Keep_Newest(q, x) ==
  IF Len(q) < BleQueueMax THEN Append(q, x)
  ELSE Append(SubSeq(q, 1, BleQueueMax - 1), x)

Keep(q, x) ==
  IF Len(q) < BleQueueMax THEN Append(q, x) ELSE Append(Tail(q), x)

AppendFrame ==
  /\ bleWorker = "append" /\ ~bleSending
  /\ LET payload == SubSeq(bleGot, 5, Len(bleGot))
     IN /\ bleQueue' = Keep(bleQueue, payload)
        /\ bleAppended' = Append(bleAppended, payload)
  /\ bleDoubted' = IF bleNoisy THEN bleDoubted \cup {Len(bleAppended) + 1}
                   ELSE bleDoubted
  /\ bleNum' = bleNum + 1
  /\ bleWorker' = "tell"
  /\ UNCHANGED <<bleGot, bleNoisy, wireVars, bleSock, bleIdle, bleSending, phoneVars,
                 bleTrouble>>

(* idle_add, behind the lock.  Mutant: only for every second frame.        *)
Tell_Batched ==
  /\ bleWorker = "tell"
  /\ bleIdle' = IF bleNum % 2 = 0 THEN bleIdle + 1 ELSE bleIdle
  /\ bleWorker' = "top"
  /\ UNCHANGED <<bleGot, bleNoisy, wireVars, bleSock, queueVars, bleSending, phoneVars,
                 bleTrouble>>

Tell ==
  /\ bleWorker = "tell"
  /\ bleIdle' = bleIdle + 1
  /\ bleWorker' = "top"
  /\ UNCHANGED <<bleGot, bleNoisy, wireVars, bleSock, queueVars, bleSending, phoneVars,
                 bleTrouble>>
-----------------------------------------------------------------------------
(* The main loop, one call at a time: none while it is in sendall.         *)
OnNewPacket ==
  /\ ~bleSending /\ bleIdle > 0
  /\ bleIdle' = bleIdle - 1
  /\ blePhone' = IF bleNotifying THEN "reading" ELSE blePhone
  /\ UNCHANGED <<bleNotifying, bleRead, wireVars, bleSock, workerVars,
                 queueVars, bleSending, bleTrouble>>

(* FromRadio.ReadValue: pop_from_radio, or an empty answer.                *)
ReadValue ==
  /\ ~bleSending /\ blePhone = "reading"
  /\ IF bleQueue = <<>>
     THEN /\ blePhone' = "asleep"
          /\ UNCHANGED <<bleQueue, bleRead>>
     ELSE /\ bleQueue' = Tail(bleQueue)
          /\ bleRead' = Append(bleRead, Head(bleQueue))
          /\ blePhone' = IF Head(bleQueue) = <<>> THEN "asleep" ELSE "reading"
  /\ UNCHANGED <<bleNum, bleAppended, bleDoubted, bleNotifying, wireVars, bleSock,
                 workerVars, bleIdle, bleSending, bleTrouble>>

StartNotify ==
  /\ Trouble
  /\ ~bleSending /\ blePhone = "away"
  /\ bleNotifying' = TRUE /\ blePhone' = "reading"
  /\ UNCHANGED <<bleRead, wireVars, bleSock, workerVars, queueVars, bleIdle,
                 bleSending>>

StopNotify ==
  /\ Trouble
  /\ ~bleSending /\ blePhone # "away"
  /\ bleNotifying' = FALSE /\ blePhone' = "away"
  /\ UNCHANGED <<bleRead, wireVars, bleSock, workerVars, queueVars, bleIdle,
                 bleSending>>

(* send_to_radio, from a write of the phone or from the heartbeat: dropped *)
(* without a socket; otherwise the lock is held until sendall returns or   *)
(* fails, which drops the connection.                                      *)
SendBegins ==
  /\ Trouble
  /\ ~bleSending /\ bleSock
  /\ bleSending' = TRUE
  /\ UNCHANGED <<wireVars, bleSock, workerVars, queueVars, bleIdle, phoneVars>>

SendEnds ==
  /\ bleSending
  /\ bleSending' = FALSE
  /\ UNCHANGED <<wireVars, bleSock, workerVars, queueVars, bleIdle, phoneVars,
                 bleTrouble>>

SendFails ==
  /\ bleSending /\ bleEof
  /\ bleSending' = FALSE /\ bleSock' = FALSE
  /\ UNCHANGED <<wireVars, workerVars, queueVars, bleIdle, phoneVars, bleTrouble>>

Worker ==
  Connect \/ NextFrame \/ RecvHeader \/ RecvPayload \/ RecvFails \/ AppendFrame \/ Tell

BleNext ==
  \/ DaemonWrites \/ DaemonNoise \/ DaemonCloses
  \/ Worker
  \/ OnNewPacket \/ ReadValue \/ StartNotify \/ StopNotify
  \/ SendBegins \/ SendEnds \/ SendFails

BleFairness ==
  /\ WF_bleVars(Worker) /\ WF_bleVars(OnNewPacket) /\ WF_bleVars(ReadValue)
  /\ WF_bleVars(SendEnds)

BleSpec == BleInit /\ [][BleNext]_bleVars /\ BleFairness
-----------------------------------------------------------------------------
(* No stray byte, and no byte of a frame but its first, is a sync byte.    *)
Harmless ==
  /\ Start1 \notin bleStray
  /\ \A n \in 1..Len(bleWritten) : \A j \in 2..Size(bleWritten[n]) :
       Framed(bleWritten[n])[j] # Start1

Vouched(i) == i \notin bleDoubted \/ Harmless

(* Only whole frames the daemon wrote reach the queue, each at most once   *)
(* and in the order of writing, whatever bytes they hold: partial reads,   *)
(* and what was kept of them over a reconnect, make no frame that was not. *)
(* Stray bytes put the bridge out of step, and it drops four bytes at a    *)
(* time: then this is claimed until the next connection only if no sync    *)
(* byte lies inside a frame, which the bridge would take for a header.     *)
Genuine ==
  /\ \A i \in 1..Len(bleAppended) : Vouched(i) =>
       \E n \in 1..Len(bleWritten) :
         bleAppended[i] = SubSeq(Frame(n, bleWritten[n]), 5, Size(bleWritten[n]))
  /\ \A i, k \in 1..Len(bleAppended) :
       (/\ i < k /\ Vouched(i) /\ Vouched(k)
        /\ bleAppended[i] # <<>> /\ bleAppended[k] # <<>>)
         => bleAppended[i][1].of < bleAppended[k][1].of

(* Popped by the phone at one end and cut to its limit at the same end,    *)
(* the queue is always the newest frames without a gap; FromNum counts     *)
(* them all; and a frame the phone never read is queued or was followed by *)
(* as many newer ones as the queue holds.                                  *)
QueueIsNewest ==
  LET n == Len(bleAppended)
      oldest == n - Len(bleQueue)
  IN /\ Len(bleQueue) <= BleQueueMax
     /\ Len(bleQueue) <= n
     /\ \A i \in 1..Len(bleQueue) : bleQueue[i] = bleAppended[oldest + i]
     /\ bleNum = n
     /\ \A i \in 1..oldest :
          \/ \E k \in 1..Len(bleRead) : bleRead[k] = bleAppended[i]
          \/ i + BleQueueMax <= n

(* A phone that stays subscribed reads on until the queue is empty,        *)
(* although it sleeps between notifications, reads one frame at a time,    *)
(* and callback, append and read interleave; only an empty frame, which it *)
(* takes for the end of the queue, makes it stop before (the daemon writes *)
(* none here, but a bridge out of step may cut one).                       *)
EmptyRead == bleRead # <<>> /\ bleRead[Len(bleRead)] = <<>>
PhoneCatchesUp == (bleQueue # <<>>) ~> (bleQueue = <<>> \/ blePhone = "away" \/ EmptyRead)
=============================================================================
