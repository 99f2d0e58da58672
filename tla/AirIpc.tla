------------------------------- MODULE AirIpc -------------------------------
(***************************************************************************)
(* The Air-IPC v1 framing shared by quadrf-lora-phy and the Meshtastic     *)
(* backend: a byte stream of headers and bodies, and the Deframer that     *)
(* finds the frames again.  Bytes are naturals; lengths are constants so   *)
(* that frames of a few bytes show what frames of 279 do.                  *)
(***************************************************************************)
EXTENDS Integers, Sequences, SequencesExt

CONSTANTS
  kMagic0, kMagic1,       \* the first two bytes of every frame
  kTxMetaLen, kRxMetaLen, \* bytes of a body before its air frame
  kMinAirLen, kMaxAirLen  \* bytes of an air frame

ASSUME AirIpcAssumption ==
  /\ kMagic0 \in 0..255 /\ kMagic1 \in 0..255 /\ kMagic0 # kMagic1
  /\ kTxMetaLen \in Nat \ {0} /\ kRxMetaLen \in Nat /\ kTxMetaLen <= kRxMetaLen
  /\ kMinAirLen \in Nat /\ kMaxAirLen \in Nat /\ kMinAirLen <= kMaxAirLen
  /\ kRxMetaLen + kMaxAirLen <= 65535

kProtocolVersion == 1
kTxEnqueue == 1
kRxIndicate == 2
kSetModem == 3
kFrameHeaderLen == 6
kMaxBodyLen == kRxMetaLen + kMaxAirLen
MessageTypeKnown(type) == type \in {kTxEnqueue, kRxIndicate, kSetModem}
-----------------------------------------------------------------------------
(* A message is its type and body; the metadata of a body (frequency, SNR, *)
(* CFO, ...) is so many bytes of it.                                       *)
EncodeFrame(m) ==
  <<kMagic0, kMagic1, kProtocolVersion, m.type,
    Len(m.body) \div 256, Len(m.body) % 256>> \o m.body

(* decodeTx, decodeRx and decodeSetModem: what a body must look like. *)
AirLengthIsValid(n) == n \in kMinAirLen..kMaxAirLen
Decodes(m) ==
  \/ m.type = kTxEnqueue /\ AirLengthIsValid(Len(m.body) - kTxMetaLen)
  \/ m.type = kRxIndicate /\ AirLengthIsValid(Len(m.body) - kRxMetaLen)
  \/ m.type = kSetModem /\ Len(m.body) = 1
-----------------------------------------------------------------------------
(* The Deframer: where it is in a frame, and the messages it has produced. *)

Fresh == [state |-> "scan", type |-> kTxEnqueue, length |-> 0,
          body |-> <<>>, frames |-> <<>>]

(* Mutant: a byte that spoils a header starts no other. *)
RejectAndResync_Forgets(d, byte) == [d EXCEPT !.state = "scan"]

(* A byte that spoils a header may be the first of the next one. *)
RejectAndResync(d, byte) ==
  [d EXCEPT !.state = IF byte = kMagic0 THEN "magic1" ELSE "scan"]

AcceptLength(d, n) ==
  IF n \in 1..kMaxBodyLen
    THEN [d EXCEPT !.state = "body", !.length = n, !.body = <<>>]
    ELSE [d EXCEPT !.state = "scan", !.length = 0]

(* Mutant: the length is looked at before the byte is added. *)
AcceptBody_Late(d, byte) ==
  IF Len(d.body) = d.length
    THEN [d EXCEPT !.state = "scan", !.length = 0, !.body = <<>>,
                   !.frames = Append(@, [type |-> d.type, body |-> d.body])]
    ELSE [d EXCEPT !.body = Append(@, byte)]

AcceptBody(d, byte) ==
  LET body == Append(d.body, byte)
  IN  IF Len(body) = d.length
        THEN [d EXCEPT !.state = "scan", !.length = 0, !.body = <<>>,
                       !.frames = Append(@, [type |-> d.type, body |-> body])]
        ELSE [d EXCEPT !.body = body]

Byte == 0..255
Word == {n \in Nat : n < 2^16}
Messages == [type : {kTxEnqueue, kRxIndicate, kSetModem}, body : Seq(Byte)]
Deframers ==
  [state : {"scan", "magic1", "version", "type", "len_hi", "len_lo", "body"},
   type : {kTxEnqueue, kRxIndicate, kSetModem}, length : Word,
   body : Seq(Byte), frames : Seq(Messages)]

FeedByte(d, byte) ==
  CASE d.state \in {"scan", "magic1"} /\ byte = kMagic0 ->
         [d EXCEPT !.state = "magic1"]
    [] d.state = "scan" /\ byte # kMagic0 -> d
    [] d.state = "magic1" /\ byte # kMagic0 ->
         [d EXCEPT !.state = IF byte = kMagic1 THEN "version" ELSE "scan"]
    [] d.state = "version" ->
         IF byte = kProtocolVersion THEN [d EXCEPT !.state = "type"]
                                    ELSE RejectAndResync(d, byte)
    [] d.state = "type" ->
         IF MessageTypeKnown(byte)
           THEN [d EXCEPT !.state = "len_hi", !.type = byte]
           ELSE RejectAndResync(d, byte)
    [] d.state = "len_hi" -> [d EXCEPT !.state = "len_lo", !.length = 256 * byte]
    [] d.state = "len_lo" -> AcceptLength(d, d.length + byte)
    [] d.state = "body" -> AcceptBody(d, byte)

(* What take makes of x and the elements of s, one after another.          *)
After(take, x, s) ==
  LET y[i \in 0..Len(s)] == IF i = 0 THEN x ELSE take[y[i - 1]][s[i]]
  IN  y[Len(s)]

(* feed(): the deframer after these bytes, with the messages of this call. *)
Feeding == [d \in Deframers |-> [byte \in Byte |-> FeedByte(d, byte)]]
Feed(d, bytes) == After(Feeding, [d EXCEPT !.frames = <<>>], bytes)
=============================================================================
