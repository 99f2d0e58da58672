--------------------------- MODULE LegacySession ---------------------------
(***************************************************************************)
(* The legacy bridge of quadrf-lora-phy (--legacy): a host speaks the      *)
(* Meshtastic StreamAPI over a PTY, the main loop frames and deframes it   *)
(* (phy::stream), the Session answers ToRadio messages, turns the packets  *)
(* among them into air frames and the air frames received into FromRadio   *)
(* messages (phy::bridge, phy::mesh).                                      *)
(*                                                                         *)
(* A byte of the line is a record: its value, and the piece of a message   *)
(* it carries, if any.  A protobuf message is a function from the numbers  *)
(* of the fields written to their values; proto3 defaults are not written. *)
(* A text carries the set of key streams it was combined with: AES-CTR     *)
(* combines by exclusive or, so the same stream twice is none.             *)
(***************************************************************************)
EXTENDS Integers, Sequences, FiniteSets, SequencesExt

CONSTANTS
  Base,         \* values of a byte (256 in the code)
  START1, START2, MaxPayload,  \* 0x94, 0xC3, 512 in the code
  OurNode,      \* node_num of the session
  Relayers,     \* nodes that may relay a frame of ours
  LongTexts,    \* texts whose Data does not fit in kMaxEncryptedLength
  Asked,        \* ToRadio messages of the host, in the order it writes them
  Chimeras,     \* messages a payload mixed of several may parse as
  Aired,        \* air frames other nodes send, in this order
  Reads,        \* bytes one read() takes where it does not take all there are
  LegacyCuts,   \* bound: writes the host is killed in
  LegacyNoise,  \* bound: stray bytes between frames
  PtyRoom       \* bound: FromRadio frames the PTY holds for the host

(* A header that begins inside a header is refused by its length.          *)
ASSUME LegacyAssumption ==
  /\ Base \in Nat /\ MaxPayload \in Nat
  /\ {START1, START2} \subseteq 1..(Base - 1) /\ START1 # START2
  /\ START1 * Base + START1 > MaxPayload /\ START1 * Base + START2 > MaxPayload

VARIABLES
  lgRunning,  \* g_running
  lgUp,       \* bytes on the PTY towards the daemon
  lgDown,     \* FromRadio frames on the PTY towards the host
  lgDeframer, \* pty_deframer: [state, len, buf]
  lgSeq,      \* Session::from_seq_
  lgFrom,     \* Session::from_q_; the loop flushes it to the PTY before it goes on
  lgAir,      \* air frames given to enqueueAirTx; each with the packet the session
              \* read, and, as history, the number of the host's message, or 0
  lgGot,      \* history: FromRadio messages the host read
  lgWrote,    \* history: the places of the messages written whole
  lgHandled,  \* history: the messages that reached the session whole
  lgPlace,    \* history: bytes written
  lgCut,      \* history: the places where writes were cut short
  lgNoise,    \* history: stray bytes written
  lgHeard     \* air frames received so far

lgVars == <<lgRunning, lgUp, lgDown, lgDeframer, lgSeq, lgFrom, lgAir, lgGot,
            lgWrote, lgHandled, lgPlace, lgCut, lgNoise, lgHeard>>
-----------------------------------------------------------------------------
(* Protobuf.  0, FALSE and <<>> are the defaults of numbers, flags and     *)
(* strings; <<x>> is a byte string or an optional that holds x.            *)
kBroadcastNode == -1
Data == [portnum |-> 0, payload |-> <<>>, want_response |-> FALSE, dest |-> 0,
         source |-> 0, request_id |-> 0, reply_id |-> 0]
DataField == [portnum |-> 1, payload |-> 2, want_response |-> 3, dest |-> 4,
              source |-> 5, request_id |-> 6, reply_id |-> 7]
MeshPacketPb == [from |-> 0, to |-> kBroadcastNode, channel |-> 0, decoded |-> <<>>,
                 encrypted |-> <<>>, id |-> 0, rx_time |-> 0, rx_snr |-> 0,
                 hop_limit |-> 3, want_ack |-> FALSE, rx_rssi |-> 0,
                 via_mqtt |-> FALSE, hop_start |-> 0, next_hop |-> 0,
                 relay_node |-> 0]
MeshPacketZero == [MeshPacketPb EXCEPT !.to = 0, !.hop_limit = 0]
MeshPacketField ==
  [from |-> 1, to |-> 2, channel |-> 3, decoded |-> 4, encrypted |-> 5, id |-> 6,
   rx_time |-> 7, rx_snr |-> 8, hop_limit |-> 9, want_ack |-> 10, rx_rssi |-> 12,
   via_mqtt |-> 14, hop_start |-> 15, next_hop |-> 18, relay_node |-> 19]

(* f itself, evaluated once.                                               *)
Settled(f) == CHOOSE g \in {f} : g = f

(* writeU32, writeBool, writeFixed32, writeBytes, ... of every field.      *)
Written(m, zero, number) ==
  Settled([n \in {number[f] : f \in {f \in DOMAIN m : m[f] # zero[f]}} |->
             m[CHOOSE f \in DOMAIN m : number[f] = n]])
(* parseFields, and the switch over the numbers on top of the defaults.    *)
Parsed(wire, defaults, number) ==
  Settled([f \in DOMAIN defaults |->
             IF number[f] \in DOMAIN wire THEN wire[number[f]] ELSE defaults[f]])
Submessage(wire) == IF DOMAIN wire = {} THEN <<>> ELSE <<wire>>

encodeData(d) == Written(d, Data, DataField)
decodeData(wire) == Parsed(wire, Data, DataField)

encodeMeshPacket(p) ==
  LET once == IF p.decoded = <<>> THEN p
              ELSE [p EXCEPT !.decoded = Submessage(encodeData(@[1])), !.encrypted = <<>>]
  IN  Written(once, MeshPacketZero, MeshPacketField)

decodeMeshPacket(wire) ==
  LET p == Parsed(wire, MeshPacketPb, MeshPacketField)
  IN  IF p.decoded = <<>> THEN p ELSE [p EXCEPT !.decoded = <<decodeData(@[1])>>]

(* A text of the same length with other bytes in it.                      *)
Scrambled(text) == IF text \in LongTexts THEN text ELSE "scrambled"

(* The message with other bytes in its text; one that is none of the four. *)
Garbled(ask) ==
  [ask EXCEPT !.wire = [@ EXCEPT ![4] = <<[@[1] EXCEPT ![2] = <<Scrambled(@[1])>>]>>]]
Nothing == [kind |-> "none"]

(* A packet the session may read is as its protobuf says: flags and        *)
(* counts, a content that is text or is encrypted, under a key the daemon  *)
(* has not.                                                                *)
WellFormed(ask) ==
  ask.kind = "packet" =>
    LET p == decodeMeshPacket(ask.wire)
    IN  /\ p.hop_limit \in Nat /\ p.hop_start \in Nat
        /\ p.want_ack \in BOOLEAN /\ p.via_mqtt \in BOOLEAN
        /\ p.decoded = <<>> \/ p.encrypted = <<>>
        /\ p.encrypted # <<>> =>
             LET text == p.encrypted[1]
             IN  /\ text = [plain |-> text.plain, under |-> text.under]
                 /\ \A stream \in text.under : stream[1] # "ours"

(* What the host asks for: a message that is not empty and fits in a       *)
(* frame.  The bytes behind the first `head' are the text at its end, if   *)
(* it ends in one.                                                         *)
ASSUME AskedAssumption ==
  /\ OurNode # 0
  /\ Len(Asked) \in Nat /\ DOMAIN Asked = 1..Len(Asked)
  /\ \A i \in DOMAIN Asked :
       /\ Asked[i].weight \in 1..MaxPayload /\ Asked[i].head \in 1..Asked[i].weight
       /\ WellFormed(Asked[i])
       /\ Asked[i].head < Asked[i].weight => WellFormed(Garbled(Asked[i]))
  /\ \A ask \in Chimeras : WellFormed(ask)

(* Only a message with one of the four variants, and a packet with an      *)
(* origin, an id or a content, counts as decoded.                          *)
decodeToRadio(ask) ==
  CASE ask.kind = "packet" ->
         LET p == decodeMeshPacket(ask.wire)
         IN  IF p.from = 0 /\ p.id = 0 /\ p.decoded = <<>> /\ p.encrypted = <<>>
             THEN <<>> ELSE <<[kind |-> "packet", packet |-> p]>>
    [] ask.kind = "want_config" -> <<[kind |-> "want_config", nonce |-> ask.nonce]>>
    [] ask.kind \in {"heartbeat", "disconnect"} -> <<[kind |-> ask.kind]>>
    [] OTHER -> <<>>

(* A FromRadio message: a variant whose body is empty is not written.      *)
FromRadio(id, kind, body) ==
  [id |-> id, kind |-> IF body = {} THEN "none" ELSE kind, body |-> body]
Varint(n, v) == IF v = 0 THEN {} ELSE {<<n, v>>}
encodeMyInfo(node, version) == Varint(1, node) \cup Varint(11, version)
encodeNodeInfo(node) == Varint(1, node) \cup {<<2, "user">>}
encodeMetadata == {<<1, "firmware">>, <<2, 24>>}
encodeChannel == {<<2, "settings">>, <<3, 1>>}
encodeQueueStatus(free, maxlen, id) == Varint(2, free) \cup Varint(3, maxlen) \cup Varint(4, id)
-----------------------------------------------------------------------------
(* The air side.                                                           *)
kMaxHop == 8
nodeIdByte(node) == node % Base

packFlags(h) ==
  (h.hop_limit % kMaxHop) + (IF h.want_ack THEN 8 ELSE 0)
    + (IF h.via_mqtt THEN 16 ELSE 0) + 32 * (h.hop_start % kMaxHop)

unpackFlags(flags) ==
  [hop_limit |-> flags % kMaxHop, want_ack |-> (flags \div 8) % 2 = 1,
   via_mqtt |-> (flags \div 16) % 2 = 1, hop_start |-> (flags \div 32) % kMaxHop]

packPacket(h, encrypted) ==
  [to |-> h.to, from |-> h.from, id |-> h.id, flags |-> packFlags(h),
   channel |-> h.channel, next_hop |-> h.next_hop, relay_node |-> h.relay_node,
   encrypted |-> encrypted]

(* <<>> for a frame without an origin.                                     *)
unpackPacket(air) ==
  LET flags == unpackFlags(air.flags)
  IN  IF air.from = 0 THEN <<>>
      ELSE <<[to |-> air.to, from |-> air.from, id |-> air.id, channel |-> air.channel,
              hop_limit |-> flags.hop_limit, hop_start |-> flags.hop_start,
              want_ack |-> flags.want_ack, via_mqtt |-> flags.via_mqtt,
              next_hop |-> air.next_hop, relay_node |-> air.relay_node,
              encrypted |-> air.encrypted]>>

(* aesCtr(): the same key, id and origin twice give the text back.         *)
aesCtr(key, id, from, text) ==
  [text EXCEPT !.under = IF <<key, id, from>> \in @ THEN @ \ {<<key, id, from>>}
                         ELSE @ \cup {<<key, id, from>>}]

(* More than kMaxEncryptedLength bytes, here or in packPacket().           *)
TooLong(content) ==
  /\ content # <<>> /\ 2 \in DOMAIN content[1].plain
  /\ content[1].plain[2][1] \in LongTexts

meshPacketToAir(p) ==
  LET from == IF p.from # 0 THEN p.from ELSE OurNode
      header == [to |-> IF p.to # 0 THEN p.to ELSE kBroadcastNode, from |-> from,
                 id |-> p.id, hop_limit |-> p.hop_limit % kMaxHop,
                 hop_start |-> (IF p.hop_start # 0 THEN p.hop_start
                                ELSE p.hop_limit) % kMaxHop,
                 want_ack |-> p.want_ack, via_mqtt |-> p.via_mqtt,
                 channel |-> "ours", next_hop |-> nodeIdByte(p.next_hop),
                 relay_node |-> nodeIdByte(p.relay_node)]
      wire == IF p.decoded = <<>> THEN <<>> ELSE Submessage(encodeData(p.decoded[1]))
      text == IF wire = <<>> THEN <<>>
              ELSE <<aesCtr("ours", p.id, from, [plain |-> wire[1], under |-> {}])>>
      content == IF p.encrypted # <<>> THEN p.encrypted ELSE text
  IN  IF p.id = 0 \/ (p.encrypted = <<>> /\ p.decoded = <<>>) \/ TooLong(content) THEN <<>>
      ELSE <<packPacket(header, content)>>

(* What cannot be read as Data with a port stays encrypted.                *)
airToMeshPacket(air) ==
  LET text == aesCtr("ours", air.id, air.from, air.encrypted[1])
      data == decodeData(text.plain)
      read == text.under = {} /\ data.portnum # 0
  IN  [MeshPacketZero EXCEPT
         !.from = air.from, !.to = air.to, !.id = air.id, !.hop_limit = air.hop_limit,
         !.hop_start = air.hop_start, !.want_ack = air.want_ack,
         !.via_mqtt = air.via_mqtt, !.next_hop = air.next_hop,
         !.relay_node = air.relay_node,
         !.decoded = IF read THEN <<data>> ELSE <<>>,
         !.encrypted = IF read THEN <<>> ELSE air.encrypted]

shouldRelay(air, node) ==
  LET h == unpackPacket(air)[1]
  IN  h.from \notin {0, node} /\ h.to # node /\ h.hop_limit # 0 /\ h.id # 0
        /\ h.next_hop \in {0, nodeIdByte(node)}

(* Mutant: the hop is not taken off.                                       *)
prepareRelay_Free(air, node) ==
  LET h == unpackPacket(air)[1]
  IN  packPacket([h EXCEPT !.relay_node = nodeIdByte(node)], h.encrypted)

prepareRelay(air, node) ==
  LET h == unpackPacket(air)[1]
  IN  packPacket([h EXCEPT !.hop_limit = @ - 1, !.relay_node = nodeIdByte(node)],
                 h.encrypted)
-----------------------------------------------------------------------------
(* phy::stream.  Message number i of the host travels as Asked[i].weight   *)
(* bytes of payload, none of them a start byte.                            *)
Byte(v) == [byte |-> v, of |-> 0, piece |-> 0]
Pieces(i) == [j \in 1..Asked[i].weight |-> [byte |-> 0, of |-> i, piece |-> j]]
frame(payload) ==
  <<Byte(START1), Byte(START2), Byte(Len(payload) \div Base), Byte(Len(payload) % Base)>>
    \o payload

Scanning == [state |-> "kScanStart1", len |-> 0, buf |-> <<>>, out |-> <<>>]
Goes(d, state) == [d EXCEPT !.state = state]

(* Mutant: a repeated START1 starts the scan over.                         *)
ExpectStart2_Strict(d, b) == Goes(d, IF b = START2 THEN "kLenHi" ELSE "kScanStart1")

ExpectStart2(d, b) ==
  Goes(d, CASE b = START2 -> "kLenHi" [] b = START1 -> "kExpectStart2"
          [] OTHER -> "kScanStart1")

LenLo(d, b) ==
  LET len == d.len + b
  IN  IF len > MaxPayload THEN [Scanning EXCEPT !.out = d.out]
      ELSE IF len = 0 THEN [Scanning EXCEPT !.out = Append(d.out, <<>>)]
      ELSE [d EXCEPT !.state = "kPayload", !.len = len, !.buf = <<>>]

InPayload(d, unit) ==
  IF Len(d.buf) + 1 < d.len THEN [d EXCEPT !.buf = Append(@, unit)]
  ELSE [Scanning EXCEPT !.out = Append(d.out, Append(d.buf, unit))]

Deframed(d, unit) ==
  CASE d.state = "kScanStart1" -> Goes(d, IF unit.byte = START1 THEN "kExpectStart2" ELSE d.state)
    [] d.state = "kExpectStart2" -> ExpectStart2(d, unit.byte)
    [] d.state = "kLenHi" -> [d EXCEPT !.state = "kLenLo", !.len = unit.byte * Base]
    [] d.state = "kLenLo" -> LenLo(d, unit.byte)
    [] d.state = "kPayload" -> InPayload(d, unit)

(* step(s, seq[i]) over a sequence; each value is settled before the next. *)
Over(step(_, _), s, seq) ==
  LET after[k \in 0..Len(seq)] ==
        IF k = 0 THEN s
        ELSE CHOOSE y \in {step(x, seq[k]) : x \in {after[k - 1]}} : TRUE
  IN  after[Len(seq)]

(* A payload is a message of the host, or a write cut short and filled up  *)
(* by the bytes behind it.  Where these come in the text the message ends  *)
(* in, they are text; a start byte is a tag of a wire type parseFields()   *)
(* refuses; where they come at a tag, a length or a number further back,   *)
(* the model does not say what they parse as, if anything.                 *)
IsWhole(payload) ==
  payload # <<>> /\ payload[1].of \in DOMAIN Asked /\ payload = Pieces(payload[1].of)

IsGarbled(payload) ==
  /\ payload # <<>> /\ payload[1].of \in DOMAIN Asked /\ ~IsWhole(payload)
  /\ LET ask == Asked[payload[1].of]
     IN  /\ ask.head < ask.weight /\ Len(payload) = ask.weight
         /\ \A j \in 1..ask.head : payload[j] = Pieces(payload[1].of)[j]

IsRefused(payload) == payload = <<>> \/ payload[1].byte \in {START1, START2}

Mixed(payload) == ~IsWhole(payload) /\ ~IsGarbled(payload) /\ ~IsRefused(payload)

(* The message read, and whose it is; luck is what a mixed payload gives.  *)
Reading(payload, luck) ==
  IF IsWhole(payload) THEN [ask |-> Asked[payload[1].of], of |-> payload[1].of]
  ELSE [ask |-> IF IsGarbled(payload) THEN Garbled(Asked[payload[1].of])
                ELSE IF IsRefused(payload) THEN Nothing ELSE luck,
        of |-> 0]
-----------------------------------------------------------------------------
(* phy::bridge::Session.  s is [seq, from, air, handled].                  *)
enqueueFrom(s, kind, body) ==
  [s EXCEPT !.seq = @ + 1, !.from = Append(@, FromRadio(s.seq, kind, body))]

kNonceOnlyNodes == 69421

(* The answer to a want_config, <<kind, body>> of each message.            *)
startConfig(nonce) ==
  LET known == <<<<"my_info", encodeMyInfo(OurNode, 30200)>>,
                 <<"node_info", encodeNodeInfo(OurNode)>>>>
      settings == <<<<"metadata", encodeMetadata>>, <<"channel", encodeChannel>>,
                    <<"config", {<<1, "device">>}>>, <<"config", {<<6, "lora">>}>>>>
      done == <<<<"config_complete", Varint(7, nonce)>>>>
  IN  IF nonce = kNonceOnlyNodes THEN known \o done ELSE known \o settings \o done

(* enqueueFrom() of each, one after another.                               *)
SendAll(s, messages) ==
  [s EXCEPT !.seq = @ + Len(messages),
            !.from = @ \o [k \in DOMAIN messages |->
                             FromRadio(s.seq + k - 1, messages[k][1], messages[k][2])]]

(* The packet with what the host left blank, and the state behind it.      *)
Filled(s, p) ==
  [p EXCEPT !.from = IF @ = 0 THEN OurNode ELSE @,
            !.id = IF @ = 0 THEN s.seq ELSE @,
            !.hop_limit = IF @ = 0 THEN 3 ELSE @]

kTxQueueMaxlen == 16

SendPacket(s, i, p) ==
  LET pkt == Filled(s, p)
      sent == [s EXCEPT !.seq = IF p.id = 0 THEN @ + 1 ELSE @]
      air == meshPacketToAir(pkt)
  IN  IF air = <<>> THEN sent
      ELSE enqueueFrom([sent EXCEPT !.air = Append(@, [air |-> air[1], packet |-> p, ask |-> i])],
                       "queue_status", encodeQueueStatus(kTxQueueMaxlen - 1, kTxQueueMaxlen, pkt.id))

handleToRadio(s, got) ==
  LET seen == [s EXCEPT !.handled = IF got.of = 0 THEN @ ELSE Append(@, got.of)]
      msg == decodeToRadio(got.ask)
  IN  IF msg = <<>> THEN seen
      ELSE CASE msg[1].kind = "want_config" -> SendAll(seen, startConfig(msg[1].nonce))
             [] msg[1].kind = "packet" -> SendPacket(seen, got.of, msg[1].packet)
             [] OTHER -> seen

handleAirFrame(s, frameHeard) ==
  LET air == unpackPacket(frameHeard)
  IN  IF air = <<>> \/ air[1].encrypted = <<>> THEN s
      ELSE enqueueFrom(s, "packet", {<<2, encodeMeshPacket(airToMeshPacket(air[1]))>>})
-----------------------------------------------------------------------------
LegacyInit ==
  /\ lgRunning = TRUE
  /\ lgUp = <<>> /\ lgDown = <<>> /\ lgDeframer = Scanning
  /\ lgSeq = 1 /\ lgFrom = <<>> /\ lgAir = <<>>
  /\ lgGot = <<>> /\ lgWrote = <<>> /\ lgHandled = <<>>
  /\ lgPlace = 0 /\ lgCut = {} /\ lgNoise = 0 /\ lgHeard = 0

hostVars == <<lgRunning, lgDown, lgDeframer, lgSeq, lgFrom, lgAir, lgGot, lgHandled, lgHeard>>

Puts(bytes) == lgRunning /\ lgUp' = lgUp \o bytes /\ lgPlace' = lgPlace + Len(bytes)

(* The host, external: it writes its next message, ...                     *)
HostWrites ==
  /\ Len(lgWrote) < Len(Asked)
  /\ Puts(frame(Pieces(Len(lgWrote) + 1)))
  /\ lgWrote' = Append(lgWrote, lgPlace)
  /\ UNCHANGED <<lgCut, lgNoise>> /\ UNCHANGED hostVars

(* ... is killed in the middle of the write and comes back, ...            *)
HostCut ==
  /\ Cardinality(lgCut) < LegacyCuts /\ Len(lgWrote) < Len(Asked)
  /\ LET whole == frame(Pieces(Len(lgWrote) + 1))
     IN  \E k \in 1..(Len(whole) - 1) : Puts(SubSeq(whole, 1, k))
  /\ lgCut' = lgCut \cup {lgPlace'}
  /\ UNCHANGED <<lgWrote, lgNoise>> /\ UNCHANGED hostVars

(* ... or wakes the line up, or lets a console byte slip onto it.          *)
HostNoise ==
  /\ lgNoise < LegacyNoise /\ Len(lgWrote) < Len(Asked)
  /\ \E v \in {START1, 0} : Puts(<<Byte(v)>>)
  /\ lgNoise' = lgNoise + 1
  /\ UNCHANGED <<lgWrote, lgCut>> /\ UNCHANGED hostVars

HostReads ==
  /\ lgRunning /\ lgDown # <<>>
  /\ lgGot' = Append(lgGot, Head(lgDown)) /\ lgDown' = Tail(lgDown)
  /\ UNCHANGED <<lgRunning, lgUp, lgDeframer, lgSeq, lgFrom, lgAir, lgWrote, lgHandled,
                 lgPlace, lgCut, lgNoise, lgHeard>>

Session == [seq |-> lgSeq, from |-> lgFrom, air |-> lgAir, handled |-> lgHandled]
Becomes(after) ==
  \E s \in {after} :
    lgSeq' = s.seq /\ lgFrom' = s.from /\ lgAir' = s.air /\ lgHandled' = s.handled

(* read() of what is there, at any cut between two bytes.                  *)
TakesBytes ==
  /\ lgRunning /\ lgFrom = <<>>
  /\ \E n \in {n \in Reads \cup {Len(lgUp)} : n \in 1..Len(lgUp)} :
       lgUp' = SubSeq(lgUp, n + 1, Len(lgUp))

ReadPty ==
  /\ TakesBytes
  /\ \E fed \in {Over(Deframed, lgDeframer, SubSeq(lgUp, 1, Len(lgUp) - Len(lgUp')))} :
       /\ lgDeframer' = [fed EXCEPT !.out = <<>>]
       /\ \E luck \in [{n \in DOMAIN fed.out : Mixed(fed.out[n])} -> Chimeras \cup {Nothing}] :
            Becomes(Over(handleToRadio, Session,
                         [n \in DOMAIN fed.out |-> Reading(fed.out[n], luck[n])]))
  /\ UNCHANGED <<lgRunning, lgDown, lgGot, lgWrote, lgPlace, lgCut, lgNoise, lgHeard>>

(* drainRx(): a frame of another node was received.                        *)
AirHeard ==
  /\ lgRunning /\ lgFrom = <<>> /\ lgHeard < Len(Aired)
  /\ lgHeard' = lgHeard + 1
  /\ Becomes(handleAirFrame(Session, Aired[lgHeard + 1]))
  /\ UNCHANGED <<lgRunning, lgUp, lgDown, lgDeframer, lgGot, lgWrote, lgPlace, lgCut,
                 lgNoise>>

othersVars == <<lgUp, lgDeframer, lgSeq, lgAir, lgGot, lgWrote, lgHandled, lgPlace,
                lgCut, lgNoise, lgHeard>>

(* Mutant: a frame the PTY has no room for is given up.                    *)
FlushLegacyFromRadio_GivesUp ==
  /\ lgRunning /\ lgFrom # <<>>
  /\ lgFrom' = Tail(lgFrom)
  /\ lgDown' = IF Len(lgDown) < PtyRoom THEN Append(lgDown, Head(lgFrom)) ELSE lgDown
  /\ UNCHANGED lgRunning /\ UNCHANGED othersVars

(* flushLegacyFromRadio(): writeAll() waits until the frame fits, and the  *)
(* main loop with it ...                                                   *)
FlushLegacyFromRadio ==
  /\ lgRunning /\ lgFrom # <<>> /\ Len(lgDown) < PtyRoom
  /\ lgDown' = Append(lgDown, Head(lgFrom)) /\ lgFrom' = Tail(lgFrom)
  /\ UNCHANGED lgRunning /\ UNCHANGED othersVars

(* ... unless write() fails: the frame is lost, and the daemon stops.      *)
FlushFails ==
  /\ lgRunning /\ lgFrom # <<>>
  /\ lgFrom' = Tail(lgFrom) /\ lgRunning' = FALSE
  /\ UNCHANGED lgDown /\ UNCHANGED othersVars

LegacyNext ==
  \/ HostWrites \/ HostCut \/ HostNoise \/ HostReads
  \/ ReadPty \/ AirHeard \/ FlushLegacyFromRadio \/ FlushFails

(* The loop runs while the daemon does.  That the host reads what it is    *)
(* sent is an assumption: writeAll() holds the whole loop until it does.   *)
LegacyFairness ==
  WF_lgUp(TakesBytes) /\ WF_lgVars(FlushLegacyFromRadio) /\ WF_lgVars(HostReads)

LegacySpec == LegacyInit /\ [][LegacyNext]_lgVars /\ LegacyFairness
-----------------------------------------------------------------------------
(* Once the line is read, every message written whole has reached the      *)
(* session, in order, however the bytes were cut into reads, and with      *)
(* stray zeros and START1s between the frames; a write cut short costs the *)
(* messages that begin less than a payload behind it, and no others.  (For *)
(* payloads without start bytes; a stray START1 START2 may cost a message.)*)
LineResyncs ==
  /\ \A i, j \in DOMAIN lgHandled : i < j => lgHandled[i] < lgHandled[j]
  /\ lgUp = <<>> =>
       \A i \in DOMAIN lgWrote :
         (\A c \in lgCut : c <= lgWrote[i] => lgWrote[i] - c >= MaxPayload + 2)
           => \E j \in DOMAIN lgHandled : lgHandled[j] = i

(* What relays make of frames, and the frames an air frame may have become *)
(* after 0, 1, 2, ... relays.                                              *)
Relayed(airs) ==
  {prepareRelay(r[1], r[2]) : r \in {r \in airs \X Relayers : shouldRelay(r[1], r[2])}}

Relays(air) ==
  LET after[k \in 0..kMaxHop] == IF k = 0 THEN {air} ELSE Relayed(after[k - 1])
  IN  after

(* The packet a node on the channel reads after k relays is the host's:    *)
(* text, port, addressee, flags, the id the host was told, blanks filled   *)
(* in.                                                                     *)
ReadAsSent(h, p, k) ==
  /\ p.decoded # <<>> /\ p.decoded[1].portnum # 0 => h.decoded = p.decoded
  /\ p.decoded = <<>> => h.encrypted = p.encrypted
  /\ h.to = (IF p.to = 0 THEN kBroadcastNode ELSE p.to)
  /\ h.from = (IF p.from = 0 THEN OurNode ELSE p.from)
  /\ p.id # 0 => h.id = p.id
  /\ h.want_ack = p.want_ack /\ h.via_mqtt = p.via_mqtt
  /\ p.hop_start = 0 => h.hop_start - h.hop_limit = k

(* What goes on the air is heard by another node on the channel as the     *)
(* session read it from the host, after any number of relays; those show   *)
(* in the hops, and come to an end.  It is what the host asked for, but    *)
(* that each write cut short may put one packet on the air the host did    *)
(* not mean: the message, filled up by the bytes behind it, with a text    *)
(* that is garbled, or what such a mixture parses as.                      *)
HeardAsSent ==
  /\ \A i \in DOMAIN lgAir :
       /\ \A after \in {Relays(lgAir[i].air)} :
            /\ after[kMaxHop] = {}
            /\ \A k \in 0..(kMaxHop - 1) : \A air \in after[k] :
                 ReadAsSent(airToMeshPacket(unpackPacket(air)[1]), lgAir[i].packet, k)
       /\ lgAir[i].ask # 0 =>
            lgAir[i].packet = decodeToRadio(Asked[lgAir[i].ask])[1].packet
  /\ Cardinality({i \in DOMAIN lgAir : lgAir[i].ask = 0}) <= Cardinality(lgCut)

(* The kinds of the answer to a want_config.                               *)
AnswerKinds(nonce) ==
  IF nonce = kNonceOnlyNodes THEN <<"my_info", "node_info", "config_complete">>
  ELSE <<"my_info", "node_info", "metadata", "channel", "config", "config",
         "config_complete">>

QueueStatusOf(air) ==
  \E k \in DOMAIN lgGot :
    lgGot[k].kind = "queue_status" /\ <<4, air.id>> \in lgGot[k].body

ConfigSent(nonce) ==
  LET kinds == AnswerKinds(nonce)
  IN  \E k \in 1..(Len(lgGot) - Len(kinds) + 1) :
        /\ \A j \in DOMAIN kinds :
             /\ lgGot[k + j - 1].kind = kinds[j]
             /\ lgGot[k + j - 1].id = lgGot[k].id + j - 1
        /\ lgGot[k + Len(kinds) - 1].body = {<<7, nonce>>}

PacketRead(id) ==
  \E k \in DOMAIN lgGot :
    /\ lgGot[k].kind = "packet"
    /\ \E field \in lgGot[k].body : decodeMeshPacket(field[2]).id = id

(* While the daemon runs, the host gets what it is owed: the configuration *)
(* whole and in one piece with the nonce it asked with, a queue status for *)
(* every packet that goes on the air, every packet heard; again and again  *)
(* there is nothing left.                                                  *)
NothingOwed ==
  /\ \A j \in DOMAIN lgHandled :
       Asked[lgHandled[j]].kind = "want_config" => ConfigSent(Asked[lgHandled[j]].nonce)
  /\ \A n \in DOMAIN lgAir : QueueStatusOf(lgAir[n].air)
  /\ \A n \in 1..lgHeard :
       Aired[n].from # 0 /\ Aired[n].encrypted # <<>> => PacketRead(Aired[n].id)

HostServed == []<>(~lgRunning \/ NothingOwed)
=============================================================================
