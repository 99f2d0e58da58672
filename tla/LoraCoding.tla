----------------------------- MODULE LoraCoding -----------------------------
(***************************************************************************)
(* The bit level coding of a LoRa frame (src/lora/coding.cpp): whitening,  *)
(* explicit header, payload CRC, Hamming code, diagonal interleaver, Gray  *)
(* map, chirp values, and the two ways back, from hard decisions and from  *)
(* log likelihood ratios.  Operators only: CodedLink sends frames through  *)
(* them.                                                                   *)
(*                                                                         *)
(* A word is a sequence of bits.  Nibbles, bytes and the CRC are least     *)
(* significant bit first, as the codeword sends them; symbols are most     *)
(* significant bit first.  Parameters are records                          *)
(* [sf, cr, ldro, crc]; a block is numbered from 1, the header's.          *)
(*                                                                         *)
(* The likelihoods are reduced to what the decoder does with them: a       *)
(* symbol has a value and, for each of its bits, a weight, and the ratio   *)
(* of a bit is plus or minus that weight.                                  *)
(***************************************************************************)
EXTENDS Integers, Sequences, FiniteSets, SequencesExt

Bit == {0, 1}
a ++ b == IF a = b THEN 0 ELSE 1
XorAll(s) == Cardinality({i \in DOMAIN s : s[i] = 1}) % 2
XorWords(s, t) == [i \in 1..Len(s) |-> s[i] ++ t[i]] \o <<>>

(* The value of a word, most significant bit first, and its bits.          *)
Value(s) ==
  LET first[k \in 0..Len(s)] == IF k = 0 THEN 0 ELSE 2 * first[k - 1] + s[k]
  IN first[Len(s)]
BitsOf(v, n) == [j \in 1..n |-> (v \div 2^(n - j)) % 2]
Nibble(v) == <<v % 2, (v \div 2) % 2, (v \div 4) % 2, (v \div 8) % 2>>

(* s itself; TLC evaluates the elements once and not at every use.         *)
Listed(s) == s \o <<>>
Chips(p) == 2^p.sf
-----------------------------------------------------------------------------
(* kWhiteningSeq, generated instead of listed: x^8 + x^6 + x^5 + x^4 + 1   *)
(* from 0xFF, index 0 first.                                               *)
Whitening[i \in 0..254] ==
  IF i = 0 THEN [k \in 1..8 |-> 1]
  ELSE LET w == Whitening[i - 1]
       IN <<w[8] ++ w[6] ++ w[5] ++ w[4]>> \o SubSeq(w, 1, 7)

Whiten(byte, i) == XorWords(byte, Whitening[i % 255])

(* One bit, then one byte into the CRC: x^16 + x^12 + x^5 + 1.             *)
CrcBit(crc, b) ==
  LET top == crc[16] ++ b
  IN [<<top>> \o SubSeq(crc, 1, 15) EXCEPT ![6] = @ ++ top, ![13] = @ ++ top]

Crc16(crc, byte) == FoldLeft(CrcBit, crc, Reverse(byte))

(* The last two bytes are only added to the CRC of those before them.      *)
PayloadCrc(payload) ==
  LET n == Len(payload)
      zero == [k \in 1..16 |-> 0]
  IN IF n < 2 THEN FoldLeft(Crc16, zero, payload)
     ELSE XorWords(FoldLeft(Crc16, zero, SubSeq(payload, 1, n - 2)),
                   payload[n] \o payload[n - 1])
-----------------------------------------------------------------------------
(* The five check bits over the three nibbles h of a header.               *)
HeaderChecksum(h) ==
  << h[1][1] ++ h[2][2] ++ h[3][4] ++ h[3][3] ++ h[3][2] ++ h[3][1],
     h[1][2] ++ h[2][3] ++ h[2][1] ++ h[3][3] ++ h[3][2] ++ h[3][1],
     h[1][3] ++ h[2][4] ++ h[2][1] ++ h[3][4] ++ h[3][2],
     h[1][4] ++ h[2][4] ++ h[2][3] ++ h[2][2] ++ h[3][1],
     h[1][4] ++ h[1][3] ++ h[1][2] ++ h[1][1] >>

BuildHeader(len, cr, crc) ==
  LET h == << Nibble(len \div 16), Nibble(len % 16),
              Nibble(2 * cr + (IF crc THEN 1 ELSE 0)) >>
      c == HeaderChecksum(h)
  IN h \o << <<c[5], 0, 0, 0>>, <<c[1], c[2], c[3], c[4]>> >>

ParseHeader(n) ==
  LET len == Value(Reverse(n[2] \o n[1]))
      cr == Value(Reverse(SubSeq(n[3], 2, 4)))
  IN [len |-> len, cr |-> cr, crc |-> n[3][1] = 1,
      valid |-> /\ n[5] \o <<n[4][1]>> = HeaderChecksum(n)
                /\ len # 0 /\ cr \in 1..4]
-----------------------------------------------------------------------------
(* A nibble d to a codeword of 4 + cr bits.                                *)
Checks(d) == << d[1] ++ d[2] ++ d[3], d[2] ++ d[3] ++ d[4],
                d[1] ++ d[2] ++ d[4], d[1] ++ d[3] ++ d[4] >>

HammingEncode(d, cr) ==
  [i \in 1..(4 + cr) |-> IF i <= 4 THEN d[i]
                         ELSE IF cr = 1 THEN d[1] ++ d[2] ++ d[3] ++ d[4]
                         ELSE Checks(d)[i - 4]]

Syndrome(c) == << c[1] ++ c[2] ++ c[3] ++ c[5],
                  c[2] ++ c[3] ++ c[4] ++ c[6],
                  c[1] ++ c[2] ++ c[4] ++ c[7] >>

(* The syndrome of each data bit alone.                                    *)
Blame == << <<1, 0, 1>>, <<1, 1, 1>>, <<1, 1, 0>>, <<0, 1, 1>> >>

(* With cr 4 only an odd number of flips is corrected.                     *)
OddWeight(c) ==
  c[1] ++ c[2] ++ c[3] ++ c[4] ++ c[5] ++ c[6] ++ c[7] ++ c[8] = 1
Corrects(c, cr) == cr = 3 \/ (cr = 4 /\ OddWeight(c))

HammingDecode(c, cr) ==
  [i \in 1..4 |-> IF Corrects(c, cr) /\ Syndrome(c) = Blame[i]
                  THEN 1 - c[i] ELSE c[i]]
-----------------------------------------------------------------------------
GrayDecode(g) == [j \in 1..Len(g) |-> XorAll(SubSeq(g, 1, j))]
GrayEncode(b) == [j \in 1..Len(b) |-> IF j = 1 THEN b[1] ELSE b[j] ++ b[j - 1]]

(* The codeword that bit j of symbol i belongs to, of m.                   *)
Diagonal(i, j, m) == ((i - j - 1) % m) + 1

(* m codewords of n bits to n symbols of m bits; a reduced symbol has two  *)
(* more, a parity bit and a zero.                                          *)
InterleaveBlock(cw, m, n, reduced) ==
  [i \in 1..n |->
    LET word == [j \in 1..m |-> cw[Diagonal(i, j, m)][i]]
    IN IF reduced THEN word \o <<XorAll(word), 0>> ELSE word]

DeinterleaveBlock(sym, m, n) ==
  [c \in 1..m |-> [i \in 1..n |->
    IF \E j \in 1..m : Diagonal(i, j, m) = c /\ sym[i][j] = 1 THEN 1 ELSE 0]]

(* A received chirp value to the m bits of its symbol.                     *)
(* Mutant: the reduced value as it once was, (raw - 1) >> 2.               *)
SymbolBits_Uncentred(p, raw, reduced) ==
  LET v == (raw - 1) % Chips(p)
  IN GrayEncode(IF reduced THEN BitsOf(v \div 4, p.sf - 2) ELSE BitsOf(v, p.sf))

SymbolBits(p, raw, reduced) ==
  GrayEncode(IF reduced THEN BitsOf((raw % Chips(p)) \div 4, p.sf - 2)
             ELSE BitsOf((raw - 1) % Chips(p), p.sf))
-----------------------------------------------------------------------------
(* The blocks of a frame: the first always reduced and with cr 4.          *)
Reduced(p, b) == b = 1 \/ p.ldro
BlockCr(p, b) == IF b = 1 THEN 4 ELSE p.cr
Width(p, b) == IF Reduced(p, b) THEN p.sf - 2 ELSE p.sf
NibblesBefore(p, b) == IF b = 1 THEN 0 ELSE Width(p, 1) + (b - 2) * Width(p, 2)
SymbolsBefore(p, b) == IF b = 1 THEN 0 ELSE 8 + (b - 2) * (4 + p.cr)

(* The block with which a loop over n nibbles ends.                        *)
LastBlock(p, n) ==
  CHOOSE b \in 1..(n + 1) : /\ NibblesBefore(p, b + 1) >= n
                            /\ b = 1 \/ NibblesBefore(p, b) < n

NibblesIn(len, crc) == 5 + 2 * len + (IF crc THEN 4 ELSE 0)

FrameSymbolCount(p, len) ==
  LET n == NibblesIn(len, p.crc) - (p.sf - 2)
      width == IF p.ldro THEN p.sf - 2 ELSE p.sf
  IN IF n <= 0 THEN 8 ELSE 8 + ((n + width - 1) \div width) * (p.cr + 4)

NibbleStream(p, payload) ==
  LET crc == PayloadCrc(payload)
      body == [i \in 1..Len(payload) |-> Whiten(payload[i], i - 1)]
      tail == [k \in 1..4 |-> SubSeq(crc, 4 * k - 3, 4 * k)]
  IN BuildHeader(Len(payload), p.cr, p.crc)
     \o FlattenSeq([i \in 1..Len(body) |->
                      <<SubSeq(body[i], 1, 4), SubSeq(body[i], 5, 8)>>])
     \o (IF p.crc THEN tail ELSE <<>>)

(* The chirp values of a nibble stream; the last block is filled with 0.   *)
EncodeBlock(p, nibbles, b) ==
  LET m == Width(p, b)
      nib(i) == LET k == NibblesBefore(p, b) + i
                IN IF k <= Len(nibbles) THEN nibbles[k] ELSE <<0, 0, 0, 0>>
      cw == Listed([i \in 1..m |-> Listed(HammingEncode(nib(i), BlockCr(p, b)))])
      sym == Listed(InterleaveBlock(cw, m, 4 + BlockCr(p, b), Reduced(p, b)))
  IN [i \in DOMAIN sym |-> (Value(GrayDecode(sym[i])) + 1) % Chips(p)]

EncodeNibbles(p, nibbles) ==
  FlattenSeq([b \in 1..LastBlock(p, Len(nibbles)) |-> EncodeBlock(p, nibbles, b)])

EncodeFrame(p, payload) == EncodeNibbles(p, NibbleStream(p, payload))
-----------------------------------------------------------------------------
(* The result of a decoder; payload and CRC once the nibbles are complete. *)
NoHeader == [len |-> 0, cr |-> 0, crc |-> FALSE, valid |-> FALSE]
Undecoded(h, n) ==
  [header |-> h, payload |-> <<>>, crcOk |-> FALSE, consumed |-> n]

FinishPayload(h, nibbles, n) ==
  LET payload == [i \in 1..h.len |->
                    Whiten(nibbles[4 + 2 * i] \o nibbles[5 + 2 * i], i - 1)]
      c == 5 + 2 * h.len
  IN [header |-> h, payload |-> payload, consumed |-> n,
      crcOk |-> h.crc =>
        nibbles[c + 1] \o nibbles[c + 2] \o nibbles[c + 3] \o nibbles[c + 4]
          = PayloadCrc(payload)]

(* The loop both decoders share, over nsym symbols: block(q, b) are the    *)
(* decoded codewords of a block, each with its nibble as .nib.  The coding *)
(* rate of the data blocks is the header's.                                *)
Nibs(cws) == [i \in DOMAIN cws |-> cws[i].nib]

(* The last block there are symbols for, of those the header asks for.     *)
LastHeard(q, h, nsym) ==
  CHOOSE b \in 1..LastBlock(q, NibblesIn(h.len, h.crc)) :
    /\ SymbolsBefore(q, b + 1) <= nsym
    /\ b = LastBlock(q, NibblesIn(h.len, h.crc)) \/ SymbolsBefore(q, b + 2) > nsym

Decoded(h, cws, n) ==
  [cws |-> cws,
   res |-> IF Len(cws) >= NibblesIn(h.len, h.crc) THEN FinishPayload(h, Nibs(cws), n)
           ELSE Undecoded(h, n)]

AfterHeader(p, h, nsym, first, block(_, _)) ==
  LET q == [p EXCEPT !.cr = h.cr]
      rest(last) ==
        Decoded(h, first \o FlattenSeq(Listed([b \in 1..(last - 1) |-> block(q, b + 1)])),
                SymbolsBefore(q, last + 1))
  IN IF h.valid THEN rest(LastHeard(q, h, nsym))
     ELSE [res |-> Undecoded(h, 8), cws |-> first]

FirstBlock(p, nsym, first, block(_, _)) ==
  AfterHeader(p, ParseHeader(Nibs(first)), nsym, first, block)

DecodeBlocks(p, nsym, block(_, _)) ==
  IF nsym < 8 THEN [res |-> Undecoded(NoHeader, 0), cws |-> <<>>]
  ELSE FirstBlock(p, nsym, Listed(block(p, 1)), block)

DecodeFrame(p, raw) ==
  LET block(q, b) ==
        LET at == SymbolsBefore(q, b)
            n == 4 + BlockCr(q, b)
            sym == Listed([i \in 1..n |->
                     Listed(SymbolBits(q, raw[at + i], Reduced(q, b)))])
            cw == DeinterleaveBlock(sym, Width(q, b), n)
        IN [c \in DOMAIN cw |->
              [nib |-> Listed(HammingDecode(Listed(cw[c]), BlockCr(q, b)))]]
  IN DecodeBlocks(p, Len(raw), block).res
-----------------------------------------------------------------------------
(* The log likelihood ratios of the bits of one symbol.                    *)
SymbolLlrs(p, s, reduced) ==
  LET bits == SymbolBits(p, s.raw, reduced)
  IN [j \in DOMAIN bits |-> IF bits[j] = 1 THEN s.weight[j] ELSE -s.weight[j]]

(* The most likely of the sixteen codewords, the lowest among equals, and  *)
(* by how much it leads.                                                   *)
HammingDecodeSoft(llr, cr) ==
  LET score == Listed([v \in 1..16 |->
                 LET cw == HammingEncode(Nibble(v - 1), cr)
                 IN SumFunctionOnSet(llr, {i \in DOMAIN cw : cw[i] = 1})])
      best == CHOOSE v \in 1..16 : \A w \in 1..16 :
                \/ score[w] < score[v]
                \/ score[w] = score[v] /\ v <= w
  IN [nib |-> Nibble(best - 1),
      margin |-> score[best] - Max({score[w] : w \in (1..16) \ {best}})]

(* An equal error in a tail nibble and in the CRC nibble it is added to    *)
(* passes the CRC: how sure the less sure of such a pair is, at least.     *)
(* Mutant: the bytes of the tail taken in the other order.                 *)
TailMargin_Crossed(h, cws) ==
  LET a == 2 * h.len + 1
      c == 2 * h.len + 5
      sure(i, k) == Max({cws[i + 1].margin, cws[k + 1].margin})
  IN Min({sure(a, c), sure(a + 1, c + 1), sure(a + 2, c + 2), sure(a + 3, c + 3)})

TailMargin(h, cws) ==
  LET a == 2 * h.len + 1
      c == 2 * h.len + 5
      sure(i, k) == Max({cws[i + 1].margin, cws[k + 1].margin})
  IN Min({sure(a + 2, c), sure(a + 3, c + 1), sure(a, c + 2), sure(a + 1, c + 3)})

NoMargin == 1000

WithMargin(d) ==
  LET h == d.res.header
      tail == d.res.payload # <<>> /\ h.crc /\ h.len >= 2
  IN [res |-> d.res, margin |-> IF tail THEN TailMargin(h, d.cws) ELSE NoMargin]

DecodeFrameSoft(p, soft) ==
  LET block(q, b) ==
        LET at == SymbolsBefore(q, b)
            n == 4 + BlockCr(q, b)
            m == Width(q, b)
            llr == Listed([i \in 1..n |->
                     Listed(SymbolLlrs(q, soft[at + i], Reduced(q, b)))])
            cw(c) == [i \in 1..n |->
                        llr[i][CHOOSE j \in 1..m : Diagonal(i, j, m) = c]]
        IN [c \in 1..m |-> HammingDecodeSoft(Listed(cw(c)), BlockCr(q, b))]
  IN WithMargin(DecodeBlocks(p, Len(soft), block))
=============================================================================
