------------------------------ MODULE MCParts ------------------------------
(* The parts that share no state with the radio path or with each other,   *)
(* one after the other: a behaviour picks one of them and runs that one.   *)
(*   coding   LoRa coding of short payloads, every rate, two spreading     *)
(*            factors, one disturbance a block                             *)
(*   echo     recent_tx of 2, 3 frames waiting, 1 in the receive chain     *)
(*   ble      the BLE bridge: 3 frames, one of them full of sync bytes, a  *)
(*            queue of 2, 2 troubles                                       *)
(*   ping     the ping worker: interval set 3 times                        *)
(*   parrot   two parrots that hear each other, three users, 2 slots       *)
(*   station  control and beacon thread, two clients, two callsigns        *)
(*   bringup  start and end of the daemon in all its modes                 *)
(*   legacy   the PTY session: 3 messages, one write cut, one stray byte   *)
EXTENDS CodedLink, SelfEcho, BleBridge, PingWorker, Parrot, Station, Bringup, LegacySession

CONSTANTS p1, p2

VARIABLE part

Bits8(v) == Reverse(BitsOf(v, 8))
MCLinkParams == [sf : {7, 8}, cr : 1..4, ldro : BOOLEAN, crc : BOOLEAN]
MCPayloads == {<<Bits8(165)>>, <<Bits8(1), Bits8(200), Bits8(3)>>}
MCDrifts == -1..2
MCFlips == {<<1, 0, 0, 0>>, <<0, 1, 1, 0>>}
MCIntervals == 0..2
MCHears == p1 :> (Users \cup {p2}) @@ p2 :> {p1}

MCBlePayloads == {<<1>>, <<9, 148, 195, 0, 0>>}
MCBleNoise == {<<0, 0, 0>>}

Text(t) == [Data EXCEPT !.portnum = 1, !.payload = <<t>>]
PacketAsk(p, weight, head) ==
  [kind |-> "packet", wire |-> encodeMeshPacket(p), nonce |-> 0, weight |-> weight,
   head |-> head]
ConfigAsk(nonce) ==
  [kind |-> "want_config", wire |-> <<>>, nonce |-> nonce, weight |-> 1, head |-> 1]
BlankPacket == [MeshPacketZero EXCEPT !.decoded = <<Text("hi")>>]
FullPacket ==
  [MeshPacketZero EXCEPT
     !.from = 7, !.to = 300, !.id = 9, !.hop_limit = 2, !.hop_start = 5, !.want_ack = TRUE,
     !.next_hop = 18, !.decoded = <<[Text("yo") EXCEPT !.want_response = TRUE, !.reply_id = 4]>>]
MCAsked == <<ConfigAsk(5), PacketAsk(BlankPacket, 2, 1), PacketAsk(FullPacket, 3, 3)>>
MCChimeras == {PacketAsk([FullPacket EXCEPT !.id = 8, !.to = 0], 3, 3)}
Foreign ==
  packPacket([to |-> kBroadcastNode, from |-> 2, id |-> 1, hop_limit |-> 3, hop_start |-> 3,
              want_ack |-> FALSE, via_mqtt |-> TRUE, channel |-> "theirs", next_hop |-> 0,
              relay_node |-> 0],
             <<aesCtr("theirs", 1, 2, [plain |-> encodeData(Text("hey")), under |-> {}])>>)
MCAired == <<Foreign>>

codingRest == <<echoVars, bleVars, pingVars, parVars, stVars, buVars, lgVars>>
echoRest == <<codingVars, bleVars, pingVars, parVars, stVars, buVars, lgVars>>
bleRest == <<codingVars, echoVars, pingVars, parVars, stVars, buVars, lgVars>>
pingRest == <<codingVars, echoVars, bleVars, parVars, stVars, buVars, lgVars>>
parrotRest == <<codingVars, echoVars, bleVars, pingVars, stVars, buVars, lgVars>>
stationRest == <<codingVars, echoVars, bleVars, pingVars, parVars, buVars, lgVars>>
bringupRest == <<codingVars, echoVars, bleVars, pingVars, parVars, stVars, lgVars>>
legacyRest == <<codingVars, echoVars, bleVars, pingVars, parVars, stVars, buVars>>

Init ==
  /\ part \in {"coding", "echo", "ble", "ping", "parrot", "station", "bringup", "legacy"}
  /\ CodingInit /\ EchoInit /\ BleInit /\ PingInit /\ ParrotInit /\ StationInit
  /\ BringupInit /\ LegacyInit

Next ==
  /\ UNCHANGED part
  /\ \/ part = "coding" /\ CodingNext /\ UNCHANGED codingRest
     \/ part = "echo" /\ EchoNext /\ UNCHANGED echoRest
     \/ part = "ble" /\ BleNext /\ UNCHANGED bleRest
     \/ part = "ping" /\ PingNext /\ UNCHANGED pingRest
     \/ part = "parrot" /\ ParrotNext /\ UNCHANGED parrotRest
     \/ part = "station" /\ StationNext /\ UNCHANGED stationRest
     \/ part = "bringup" /\ BringupNext /\ UNCHANGED bringupRest
     \/ part = "legacy" /\ LegacyNext /\ UNCHANGED legacyRest

(* The fairness of each part, where it is the one that runs.               *)
Spec ==
  /\ Init /\ [][Next]_<<part, codingVars, codingRest>>
  /\ WF_bleVars(part = "ble" /\ Worker) /\ WF_bleVars(part = "ble" /\ OnNewPacket)
  /\ WF_bleVars(part = "ble" /\ ReadValue) /\ WF_bleVars(part = "ble" /\ SendEnds)
  /\ WF_pingVars(part = "ping" /\ PingThread) /\ WF_pingVars(part = "ping" /\ PingCaller)
  /\ WF_stVars(part = "station" /\ ControlThread)
  /\ WF_stVars(part = "station" /\ BeaconThread)
  /\ WF_stVars(part = "station" /\ Destructor)
  /\ WF_lgUp(part = "legacy" /\ TakesBytes)
  /\ WF_lgVars(part = "legacy" /\ FlushLegacyFromRadio)
  /\ WF_lgVars(part = "legacy" /\ HostReads)
=============================================================================
