----------------------------- MODULE CodedLink ------------------------------
(***************************************************************************)
(* One frame from encodeFrame to the two decoders.  On its way the channel *)
(* damages its symbols in one of the ways the coding is there for:         *)
(*   hit     one symbol of each block is read as some other value;         *)
(*   drift   every symbol is read a few chips off;                         *)
(*   erased  some symbols of each block are seen without any likelihood;   *)
(*   confused  some codewords are received as other codewords, weakly.     *)
(* Every symbol that is not damaged is received with full weight.          *)
(***************************************************************************)
EXTENDS LoraCoding, FiniteSets, FiniteSetsExt

CONSTANTS
  LinkParams,   \* the parameters a frame is sent with
  Payloads,     \* the payloads that are sent, sequences of bytes
  Offsets,      \* by how many chips a hit symbol is wrong
  Drifts,       \* by how many chips all symbols are wrong
  Flips,        \* how a confused nibble differs from the sent one
  Clear, Weak   \* the weight of an undamaged bit, of a confused one

Lossless == [kind |-> "none"]

ASSUME CodedAssumption ==
  /\ \A p \in LinkParams : p.sf \in 7..12 /\ p.cr \in 1..4
                           /\ p.ldro \in BOOLEAN /\ p.crc \in BOOLEAN
  /\ \A y \in Payloads : y \in Seq([1..8 -> Bit]) /\ Len(y) \in 1..255
  /\ Flips \subseteq [1..4 -> Bit] \ {<<0, 0, 0, 0>>}
  /\ Clear \in Nat /\ Weak \in Nat /\ 0 < Weak /\ 4 * Weak < Clear

VARIABLES
  codeStage,    \* "idle", "sent", "heard"
  codeParams,   \* the parameters of sender and receiver
  codePayload,  \* what was sent
  codeSymbols,  \* the symbols, [raw, weight]: as sent, then as received
  codeFault     \* what the channel did to them

codingVars == <<codeStage, codeParams, codePayload, codeSymbols, codeFault>>

CodingInit ==
  /\ codeStage = "idle"
  /\ codeParams \in {CHOOSE p \in LinkParams : TRUE}
  /\ codePayload = <<>> /\ codeSymbols = <<>> /\ codeFault = Lossless
-----------------------------------------------------------------------------
Sure(p, raw, w) == [raw |-> raw, weight |-> [j \in 1..p.sf |-> w]]
AsSent(p, raws) == [k \in DOMAIN raws |-> Sure(p, raws[k], Clear)]

(* The block of a symbol and its place in it.                              *)
BlockOf(p, k) == IF k <= 8 THEN 1 ELSE 2 + (k - 9) \div (4 + p.cr)
PlaceOf(p, k) == IF k <= 8 THEN k ELSE 1 + ((k - 9) % (4 + p.cr))

(* What is done with a frame's symbols.                                    *)
Shifted(p, s, d) == [s EXCEPT !.raw = (@ + d) % Chips(p)]

Hit(p, syms, place, off) ==
  [k \in DOMAIN syms |-> IF PlaceOf(p, k) = place
                         THEN Shifted(p, syms[k], off) ELSE syms[k]]

Drifted(p, syms, d) ==
  [k \in DOMAIN syms |-> Shifted(p, syms[k], d)]

Erased(p, syms, places) ==
  [k \in DOMAIN syms |-> IF PlaceOf(p, k) \in places
                         THEN Sure(p, syms[k].raw, 0) ELSE syms[k]]

(* Codewords n of the stream received, weakly, as those of other nibbles:  *)
(* flip[n] is what is added to nibble n.                                   *)
Confused(p, payload, flip) ==
  LET stream == NibbleStream(p, payload)
      wrong == [n \in DOMAIN stream |->
                  IF n \in DOMAIN flip THEN XorWords(stream[n], flip[n]) ELSE stream[n]]
      weak(k, j) ==
        LET b == BlockOf(p, k)
            m == Width(p, b)
        IN j <= m /\ NibblesBefore(p, b) + Diagonal(PlaceOf(p, k), j, m) \in DOMAIN flip
      raws == EncodeNibbles(p, wrong)
  IN [k \in DOMAIN raws |-> [raw |-> raws[k],
        weight |-> [j \in 1..p.sf |-> IF weak(k, j) THEN Weak ELSE Clear]]]
-----------------------------------------------------------------------------
(* transmitter.cpp: the payload becomes the chirps of the burst.           *)
CodingSend ==
  /\ codeStage = "idle"
  /\ codeStage' = "sent"
  /\ \E p \in LinkParams, y \in Payloads :
       /\ codeParams' = p /\ codePayload' = y
       /\ codeSymbols' = AsSent(p, EncodeFrame(p, y))
  /\ UNCHANGED codeFault

Arrives(fault, syms) ==
  /\ codeStage = "sent"
  /\ codeStage' = "heard"
  /\ codeFault' = fault
  /\ codeSymbols' = syms
  /\ UNCHANGED <<codeParams, codePayload>>

CodingHit ==
  \E place \in 1..8, off \in Offsets :
    Arrives([kind |-> "hit", place |-> place],
            Hit(codeParams, codeSymbols, place, off))

CodingDrift ==
  \E d \in Drifts :
    Arrives([kind |-> "drift", by |-> d],
            Drifted(codeParams, codeSymbols, d))

(* As many symbols of each block as its coding rate can do without.        *)
MayErase(cr) == <<1, 1, 2, 3>>[cr]

CodingErase ==
  \E places \in kSubset(MayErase(codeParams.cr), 1..(4 + codeParams.cr)) :
    Arrives([kind |-> "erased"], Erased(codeParams, codeSymbols, places))

(* One or two nibbles of payload and CRC.                                  *)
CodingConfuse ==
  /\ codeStage = "sent" /\ codeParams.crc
  /\ LET body == 6..NibblesIn(Len(codePayload), TRUE)
     IN \E n, k \in body, f, g \in Flips :
          /\ n < k
          /\ Arrives([kind |-> "confused"],
                     Confused(codeParams, codePayload, n :> f @@ k :> g))

CodingNext ==
  CodingSend \/ CodingHit \/ CodingDrift \/ CodingErase \/ CodingConfuse
-----------------------------------------------------------------------------
HardResult ==
  DecodeFrame(codeParams, Listed([k \in DOMAIN codeSymbols |-> codeSymbols[k].raw]))
SoftResult == DecodeFrameSoft(codeParams, codeSymbols)
Whole(res) == res.crcOk /\ res.payload = codePayload
Header(res) == [len |-> Len(codePayload), cr |-> codeParams.cr,
                crc |-> codeParams.crc, valid |-> TRUE] = res.header

(* The receiver that counts symbols and the sender that makes them agree   *)
(* (frameSymbolCount, encodeFrame); the hard decoder reads every symbol of *)
(* the frame; it survives one wrong symbol in each block, in the header at *)
(* any coding rate and in the data from 4/7 on, and, where all symbols are *)
(* reduced, a drift of -1..+2 chips, as coding.hpp says of reducedValue.   *)
(* The soft decoder does without as many symbols of each block as the      *)
(* distance of its code allows.                                            *)
Repaired ==
  /\ codeStage # "idle" /\ codeFault.kind \in {"none", "hit", "drift"} =>
       \A r \in {HardResult} :
         /\ codeFault.kind = "none" =>
              /\ Len(codeSymbols) = FrameSymbolCount(codeParams, Len(codePayload))
              /\ Whole(r) /\ r.consumed = Len(codeSymbols)
         /\ codeFault.kind = "hit" => Header(r) /\ (codeParams.cr >= 3 => Whole(r))
         /\ codeFault.kind = "drift" => Header(r) /\ (codeParams.ldro => Whole(r))
  /\ codeFault.kind = "erased" =>
       \A r \in {SoftResult.res} : Header(r) /\ Whole(r)

(* A frame whose CRC is right and whose payload is not, after one or two   *)
(* nibbles were taken for others, is one the tail margin tells: the flips  *)
(* were in a tail nibble and in its CRC partner, both weak (the comment on *)
(* DecodeResult::tail_margin).  An undamaged frame is never doubted.        *)
TailMarginTells ==
  codeStage # "idle" /\ codeFault.kind \in {"none", "confused"} =>
    \A r \in {SoftResult} :
      LET said == r.margin <= 4 * Weak
      IN  /\ codeFault.kind = "none" => ~said /\ Whole(r.res)
          /\ codeFault.kind = "confused" /\ r.res.crcOk /\ r.res.payload # codePayload
               => said
=============================================================================
