----------------------------- MODULE PartsProofs -----------------------------
(***************************************************************************)
(* Proofs about the parts that stand alone: what the LoRa code withstands, *)
(* the queue and the frames of the BLE bridge, the parrots' restraint, how *)
(* the daemon ends, what the legacy session puts on the air, and how its   *)
(* line is resynchronised.                                                 *)
(***************************************************************************)
EXTENDS LoraCoding, BleBridge, Parrot, Bringup, LegacySession,
        FiniteSetTheorems, SequenceTheorems, TLAPS

(***************************************************************************)
(* LoRa coding.  What the code of a block withstands, for every spreading  *)
(* factor and every nibble: the Hamming decoder undoes any one flip of a   *)
(* codeword, the interleaver puts each bit of a symbol into another        *)
(* codeword, and so a block with one wrong symbol is decoded as it was     *)
(* sent.                                                                   *)
(***************************************************************************)
Nibbles == [1..4 -> Bit]

(* Bit i of a word taken for its opposite.                                 *)
Flip(c, i) == [c EXCEPT ![i] = 1 - @]

LEMMA XorBit ==
  ASSUME NEW a \in Bit, NEW b \in Bit
  PROVE  a ++ b \in Bit /\ (a ++ b = 0 <=> a = b)
BY DEF Bit, ++

(* A codeword is a word of bits that begins with its nibble.               *)
LEMMA EncodeType ==
  ASSUME NEW d \in Nibbles, NEW cr \in 1..4
  PROVE  /\ HammingEncode(d, cr) \in [1..(4 + cr) -> Bit]
         /\ \A i \in 1..4 : HammingEncode(d, cr)[i] = d[i]
<1>1. d[1] \in Bit /\ d[2] \in Bit /\ d[3] \in Bit /\ d[4] \in Bit
  BY DEF Nibbles
<1>2. /\ d[1] ++ d[2] ++ d[3] ++ d[4] \in Bit
      /\ \A k \in 1..4 : Checks(d)[k] \in Bit
  BY <1>1 DEF Checks, Bit, ++
<1>3. \A i \in 1..(4 + cr) : HammingEncode(d, cr)[i] \in Bit
  <2> SUFFICES ASSUME NEW i \in 1..(4 + cr) PROVE HammingEncode(d, cr)[i] \in Bit
    OBVIOUS
  <2>1. CASE i <= 4
    <3>1. i \in 1..4
      BY <2>1
    <3> QED  BY <2>1, <3>1 DEF HammingEncode, Nibbles
  <2>2. CASE ~(i <= 4)
    <3>1. i - 4 \in 1..4
      BY <2>2
    <3> QED  BY <1>2, <2>2, <3>1 DEF HammingEncode
  <2> QED  BY <2>1, <2>2
<1> QED  BY <1>3 DEF HammingEncode

(* A codeword as it was sent has no syndrome.                              *)
LEMMA NoSyndrome ==
  ASSUME NEW d \in Nibbles, NEW cr \in 3..4
  PROVE  LET c == HammingEncode(d, cr)
         IN /\ c[5] = d[1] ++ d[2] ++ d[3] /\ c[6] = d[2] ++ d[3] ++ d[4]
            /\ c[7] = d[1] ++ d[2] ++ d[4]
            /\ cr = 4 => c[8] = d[1] ++ d[3] ++ d[4]
BY DEF HammingEncode, Checks

(* The decoder leaves an undamaged codeword alone.                         *)
THEOREM HammingDecodes ==
  ASSUME NEW d \in Nibbles, NEW cr \in 1..4
  PROVE  HammingDecode(HammingEncode(d, cr), cr) = d
<1> DEFINE c == HammingEncode(d, cr)
<1>1. /\ c \in [1..(4 + cr) -> Bit]
      /\ \A i \in 1..4 : c[i] = d[i]
  BY EncodeType
<1>2. \A i \in 1..4 : ~(Corrects(c, cr) /\ Syndrome(c) = Blame[i])
  <2>1. CASE cr \in 3..4
    <3>1. /\ c[5] = d[1] ++ d[2] ++ d[3] /\ c[6] = d[2] ++ d[3] ++ d[4]
          /\ c[7] = d[1] ++ d[2] ++ d[4]
      BY <2>1, NoSyndrome
    <3>2. d[1] \in Bit /\ d[2] \in Bit /\ d[3] \in Bit /\ d[4] \in Bit
      BY DEF Nibbles
    <3>3. Syndrome(c) = <<0, 0, 0>>
      BY <1>1, <3>1, <3>2 DEF Syndrome, ++, Bit
    <3> QED  BY <3>3 DEF Blame
  <2>2. CASE ~(cr \in 3..4)
    BY <2>2 DEF Corrects
  <2> QED  BY <2>1, <2>2
<1>3. HammingDecode(c, cr) = [i \in 1..4 |-> d[i]]
  BY <1>1, <1>2 DEF HammingDecode
<1> QED  BY <1>3 DEF Nibbles

(* One flip anywhere in a codeword of rate 4/7 or 4/8 is undone.           *)
THEOREM HammingCorrects ==
  ASSUME NEW d \in Nibbles, NEW cr \in 3..4, NEW f \in 1..(4 + cr)
  PROVE  HammingDecode(Flip(HammingEncode(d, cr), f), cr) = d
<1> DEFINE c == HammingEncode(d, cr)
           e == Flip(c, f)
<1>1. /\ c \in [1..(4 + cr) -> Bit]
      /\ \A i \in 1..4 : c[i] = d[i]
  <2>1. cr \in 1..4
    OBVIOUS
  <2> QED  BY <2>1, EncodeType
<1>2. d[1] \in Bit /\ d[2] \in Bit /\ d[3] \in Bit /\ d[4] \in Bit
  BY DEF Nibbles
<1>3. /\ c[5] = d[1] ++ d[2] ++ d[3] /\ c[6] = d[2] ++ d[3] ++ d[4]
      /\ c[7] = d[1] ++ d[2] ++ d[4]
      /\ cr = 4 => c[8] = d[1] ++ d[3] ++ d[4]
  BY NoSyndrome
<1>4. \A i \in 1..(4 + cr) : e[i] = IF i = f THEN 1 - c[i] ELSE c[i]
  <2>1. ASSUME NEW w \in [1..(4 + cr) -> Bit]
        PROVE  \A i \in 1..(4 + cr) : Flip(w, f)[i] = IF i = f THEN 1 - w[i] ELSE w[i]
    BY DEF Flip
  <2> QED  BY <1>1, <2>1
<1> HIDE DEF c, e
<1>5. Corrects(e, cr)
  <2>1. CASE cr = 3
    BY <2>1 DEF Corrects
  <2>2. CASE cr = 4
    <3>1. \A i \in 1..8 : e[i] = IF i = f THEN 1 - c[i] ELSE c[i]
      BY <1>4, <2>2
    <3>2. f \in 1..8
      BY <2>2
    <3>3. OddWeight(e)
      BY <1>1, <1>2, <1>3, <2>2, <3>1, <3>2 DEF OddWeight, ++, Bit
    <3> QED  BY <2>2, <3>3 DEF Corrects
  <2> QED  BY <2>1, <2>2
<1>6. \A i \in 1..4 : Syndrome(e) = Blame[i] <=> i = f
  <2>1. \A i \in 1..7 : e[i] = IF i = f THEN 1 - c[i] ELSE c[i]
    BY <1>4
  <2>2. Syndrome(e) = IF f = 1 THEN <<1, 0, 1>> ELSE IF f = 2 THEN <<1, 1, 1>>
                      ELSE IF f = 3 THEN <<1, 1, 0>> ELSE IF f = 4 THEN <<0, 1, 1>>
                      ELSE IF f = 5 THEN <<1, 0, 0>> ELSE IF f = 6 THEN <<0, 1, 0>>
                      ELSE IF f = 7 THEN <<0, 0, 1>> ELSE <<0, 0, 0>>
    BY <1>1, <1>2, <1>3, <2>1 DEF Syndrome, ++, Bit
  <2> QED  BY <2>2 DEF Blame
<1>7. \A i \in 1..4 : HammingDecode(e, cr)[i] = d[i]
  <2> SUFFICES ASSUME NEW i \in 1..4 PROVE HammingDecode(e, cr)[i] = d[i]
    OBVIOUS
  <2>1. HammingDecode(e, cr)[i] = IF i = f THEN 1 - e[i] ELSE e[i]
    BY <1>5, <1>6 DEF HammingDecode
  <2>2. e[i] = IF i = f THEN 1 - c[i] ELSE c[i]
    BY <1>4
  <2>3. c[i] = d[i] /\ d[i] \in Bit
    BY <1>1 DEF Nibbles
  <2> QED  BY <2>1, <2>2, <2>3 DEF Bit
<1>8. HammingDecode(e, cr) = [i \in 1..4 |-> d[i]]
  BY <1>7 DEF HammingDecode
<1> QED  BY <1>8 DEF c, e, Nibbles
-----------------------------------------------------------------------------
(* The diagonal is its own inverse: bit j of symbol i is of codeword c     *)
(* exactly when bit c of symbol i would be of codeword j.                  *)
LEMMA Diagonals ==
  ASSUME NEW m \in Nat \ {0}, NEW i \in Int, NEW j \in 1..m
  PROVE  Diagonal(i, j, m) \in 1..m /\ Diagonal(i, Diagonal(i, j, m), m) = j
<1> DEFINE x == i - j - 1
           r == x % m
           q == x \div m
           y == i - (r + 1) - 1
<1>1. r \in 0..(m - 1) /\ q \in Int /\ x = m * q + r
  OBVIOUS
<1>2. y = m * q + (j - 1) /\ j - 1 \in 0..(m - 1)
  BY <1>1
<1>3. y % m = j - 1
  <2>1. ASSUME NEW a \in Int, NEW b \in 0..(m - 1)
        PROVE  (m * a + b) % m = b
    OBVIOUS
  <2> QED  BY <1>1, <1>2, <2>1
<1> QED  BY <1>1, <1>3 DEF Diagonal

(* Bit i of codeword c is at the place the diagonal names, with or without *)
(* the parity bit behind the symbol.                                       *)
LEMMA Placed ==
  ASSUME NEW m \in Nat \ {0}, NEW n \in Nat, NEW reduced \in BOOLEAN,
         NEW cw \in [1..m -> [1..n -> Bit]], NEW c \in 1..m, NEW i \in 1..n
  PROVE  InterleaveBlock(cw, m, n, reduced)[i][Diagonal(i, c, m)] = cw[c][i]
<1> DEFINE word == [k \in 1..m |-> cw[Diagonal(i, k, m)][i]]
           j == Diagonal(i, c, m)
<1>0. i \in Int
  OBVIOUS
<1>1. j \in 1..m /\ Diagonal(i, j, m) = c
  BY <1>0, Diagonals
<1>2. \A k \in 1..m : cw[Diagonal(i, k, m)][i] \in Bit
  <2> SUFFICES ASSUME NEW k \in 1..m PROVE cw[Diagonal(i, k, m)][i] \in Bit
    OBVIOUS
  <2>1. Diagonal(i, k, m) \in 1..m
    BY <1>0, Diagonals
  <2> QED  BY <2>1
<1> HIDE DEF j
<1>3. word \in Seq(Bit) /\ Len(word) = m /\ word[j] = cw[c][i]
  BY <1>1, <1>2
<1>4. InterleaveBlock(cw, m, n, reduced)[i]
        = IF reduced THEN word \o <<XorAll(word), 0>> ELSE word
  BY DEF InterleaveBlock
<1> HIDE DEF word
<1>5. ASSUME NEW x PROVE (word \o <<x, 0>>)[j] = word[j]
  BY <1>1, <1>3
<1> QED  BY <1>3, <1>4, <1>5 DEF j

(* Bit i of codeword c is read from the one place the diagonal names.      *)
LEMMA Deinterleaved ==
  ASSUME NEW m \in Nat \ {0}, NEW n \in Nat, NEW sym, NEW c \in 1..m, NEW i \in 1..n,
         sym[i][Diagonal(i, c, m)] \in Bit
  PROVE  DeinterleaveBlock(sym, m, n)[c][i] = sym[i][Diagonal(i, c, m)]
<1> DEFINE k == Diagonal(i, c, m)
<1>0. i \in Int
  OBVIOUS
<1>1. k \in 1..m /\ Diagonal(i, k, m) = c
  BY <1>0, Diagonals
<1>2. \A j \in 1..m : Diagonal(i, j, m) = c => j = k
  <2> SUFFICES ASSUME NEW j \in 1..m, Diagonal(i, j, m) = c PROVE j = k
    OBVIOUS
  <2>1. Diagonal(i, Diagonal(i, j, m), m) = j
    BY <1>0, Diagonals
  <2> QED  BY <2>1
<1>3. (\E j \in 1..m : Diagonal(i, j, m) = c /\ sym[i][j] = 1) <=> sym[i][k] = 1
  BY <1>1, <1>2
<1> QED  BY <1>3 DEF DeinterleaveBlock, Bit

(* The deinterleaver gives back the codewords the interleaver was given.   *)
THEOREM DeinterleaveInverse ==
  ASSUME NEW m \in Nat \ {0}, NEW n \in Nat, NEW reduced \in BOOLEAN,
         NEW cw \in [1..m -> [1..n -> Bit]]
  PROVE  DeinterleaveBlock(InterleaveBlock(cw, m, n, reduced), m, n) = cw
<1> DEFINE sym == InterleaveBlock(cw, m, n, reduced)
           got == DeinterleaveBlock(sym, m, n)
<1>1. \A c \in 1..m : \A i \in 1..n : got[c][i] = cw[c][i]
  <2> SUFFICES ASSUME NEW c \in 1..m, NEW i \in 1..n PROVE got[c][i] = cw[c][i]
    OBVIOUS
  <2>2. sym[i][Diagonal(i, c, m)] = cw[c][i]
    BY Placed, ZenonT(90)
  <2>3. cw[c][i] \in Bit
    OBVIOUS
  <2> QED  BY <2>2, <2>3, Deinterleaved
<1>2. got = [c \in 1..m |-> [i \in 1..n |-> got[c][i]]]
  BY DEF DeinterleaveBlock
<1> HIDE DEF got
<1>3. got = [c \in 1..m |-> [i \in 1..n |-> cw[c][i]]]
  BY <1>1, <1>2
<1>4. \A c \in 1..m : [i \in 1..n |-> cw[c][i]] = cw[c]
  OBVIOUS
<1> QED  BY <1>3, <1>4 DEF got

(* One symbol of a block read as any other value, with the bits w for its  *)
(* own: every nibble of the block is decoded as it was sent, from coding   *)
(* rate 4/7 on, so the header at every rate.                               *)
THEOREM BlockRepaired ==
  ASSUME NEW m \in Nat \ {0}, NEW cr \in 3..4, NEW reduced \in BOOLEAN,
         NEW nib \in [1..m -> Nibbles],
         NEW s \in 1..(4 + cr), NEW w, \A j \in 1..m : w[j] \in Bit,
         NEW c \in 1..m
  PROVE  LET cw == [k \in 1..m |-> HammingEncode(nib[k], cr)]
             sent == InterleaveBlock(cw, m, 4 + cr, reduced)
             heard == [sent EXCEPT ![s] = w]
         IN HammingDecode(DeinterleaveBlock(heard, m, 4 + cr)[c], cr) = nib[c]
<1> DEFINE n == 4 + cr
           cw == [k \in 1..m |-> HammingEncode(nib[k], cr)]
           sent == InterleaveBlock(cw, m, n, reduced)
           heard == [sent EXCEPT ![s] = w]
           got == DeinterleaveBlock(heard, m, n)[c]
           code == HammingEncode(nib[c], cr)
<1>1. cr \in 1..4 /\ n \in Nat
  OBVIOUS
<1>2. cw \in [1..m -> [1..n -> Bit]] /\ cw[c] = code
  <2>1. \A k \in 1..m : HammingEncode(nib[k], cr) \in [1..n -> Bit]
    BY <1>1, EncodeType
  <2> QED  BY <2>1
<1>3. sent = [i \in 1..n |-> sent[i]]
  BY DEF InterleaveBlock
<1>4. \A i \in 1..n : sent[i][Diagonal(i, c, m)] = code[i] /\ code[i] \in Bit
  <2> SUFFICES ASSUME NEW i \in 1..n
               PROVE  sent[i][Diagonal(i, c, m)] = code[i] /\ code[i] \in Bit
    OBVIOUS
  <2> HIDE DEF cw, n, code
  <2>2. sent[i][Diagonal(i, c, m)] = cw[c][i]
    BY <1>1, <1>2, Placed, ZenonT(90)
  <2> QED  BY <1>2, <2>2
<1>5. \A i \in 1..n : i # s => heard[i] = sent[i]
  BY <1>3
<1>6. heard[s] = w
  BY <1>3
<1> HIDE DEF heard, sent, cw, code
<1>7. \A i \in 1..n : i # s => got[i] = code[i]
  BY <1>1, <1>4, <1>5, Deinterleaved
<1>8. got[s] \in Bit
  <2>0. s \in Int
    OBVIOUS
  <2>1. Diagonal(s, c, m) \in 1..m
    BY <2>0, Diagonals
  <2> QED  BY <1>1, <1>6, <2>1, Deinterleaved
<1>9. got = [i \in 1..n |-> got[i]]
  BY DEF DeinterleaveBlock
<1>10. code \in [1..n -> Bit]
  BY <1>2
<1> HIDE DEF got, n
<1>11. got = code \/ got = Flip(code, s)
  <2>1. s \in 1..n
    BY DEF n
  <2>2. CASE got[s] = code[s]
    <3>1. \A i \in 1..n : got[i] = code[i]
      BY <1>7, <2>2
    <3> QED  BY <1>9, <1>10, <3>1
  <2>3. CASE got[s] # code[s]
    <3>1. got[s] = 1 - code[s]
      BY <1>8, <1>10, <2>1, <2>3 DEF Bit
    <3>2. \A i \in 1..n : got[i] = IF i = s THEN 1 - code[i] ELSE code[i]
      BY <1>7, <3>1
    <3>3. Flip(code, s) = [i \in 1..n |-> IF i = s THEN 1 - code[i] ELSE code[i]]
      BY <1>10 DEF Flip
    <3> QED  BY <1>9, <3>2, <3>3
  <2> QED  BY <2>2, <2>3
<1>12. HammingDecode(got, cr) = nib[c]
  <2>1. nib[c] \in Nibbles
    OBVIOUS
  <2>2. CASE got = code
    BY <1>1, <2>1, <2>2, HammingDecodes DEF code
  <2>3. CASE got = Flip(code, s)
    BY <2>1, <2>3, HammingCorrects DEF code
  <2> QED  BY <1>11, <2>2, <2>3
<1> QED  BY <1>12 DEF got, heard, sent, cw, n

(* A set that holds 0, and n + 1 with n, holds the natural numbers.        *)
LEMMA SetInduction ==
  ASSUME NEW S, 0 \in S, \A n \in Nat : n \in S => n + 1 \in S
  PROVE  Nat \subseteq S
<1>1. SUFFICES ASSUME NEW n \in Nat, n \notin S PROVE FALSE
  OBVIOUS
<1> DEFINE T == S \cap (0..n)
           f == [x \in T |-> x + 1]
<1>2. IsFiniteSet(T)
  <2>1. IsFiniteSet(0..n)
    BY FS_Interval
  <2> QED
    BY <2>1, FS_Subset
<1>3. f \in [T -> T]
  <2>1. ASSUME NEW x \in T PROVE x + 1 \in T
    <3>1. x \in Nat /\ x <= n /\ x \in S /\ x # n
      BY <1>1
    <3>2. x + 1 \in 0..n
      BY <3>1
    <3> QED
      BY <3>1, <3>2
  <2> QED
    BY <2>1
<1>4. \A x, y \in T : f[x] = f[y] => x = y
  <2>1. T \subseteq Int
    OBVIOUS
  <2> QED
    BY <2>1
<1>5. f \in Injection(T, T)
  BY <1>3, <1>4 DEF Injection, IsInjective
<1>6. f \in Surjection(T, T)
  BY <1>2, <1>5, FS_Injection
<1>7. 0 \in T
  OBVIOUS
<1>8. PICK x \in T : f[x] = 0
  BY <1>6, <1>7 DEF Surjection
<1> QED
  BY <1>8

(***************************************************************************)
(* BLE bridge.  The queue to the phone holds the newest frames, for any    *)
(* number of frames, any limit of the queue and any trouble: bytes may     *)
(* come in any pieces and connections may end anywhere.                    *)
(***************************************************************************)
Octets == [byte : Nat, of : Nat, at : Nat]
Bytes == Seq(Octets)

Types ==
  /\ bleWire \in Bytes /\ bleGot \in Bytes /\ bleWritten \in Seq(BlePayloads)
  /\ bleQueue \in Seq(Bytes) /\ bleAppended \in Seq(Bytes) /\ bleRead \in Seq(Bytes)

LEMMA Limit == BleQueueMax \in Nat /\ BleQueueMax >= 1
BY BleAssumption

(* What is written is octets.                                              *)
LEMMA ByteString ==
  ASSUME NEW b \in Seq(0..255)
  PROVE  b \in Seq(Nat) /\ Len(b) \in Nat /\ \A j \in 1..Len(b) : b[j] \in Nat
<1>1. ASSUME NEW S, NEW s \in Seq(S)
      PROVE  /\ Len(s) \in Nat /\ \A j \in 1..Len(s) : s[j] \in S
             /\ s \in [1..Len(s) -> S]
  OBVIOUS
<1> DEFINE S == 0..255
<1>2. S \subseteq Nat
  OBVIOUS
<1>3. b \in Seq(S)
  OBVIOUS
<1> HIDE DEF S
<1>4. /\ Len(b) \in Nat /\ \A j \in 1..Len(b) : b[j] \in S
      /\ b \in [1..Len(b) -> S]
  BY <1>1, <1>3
<1>5. \A j \in 1..Len(b) : b[j] \in Nat
  BY <1>2, <1>4
<1>6. b \in Seq(Nat)
  BY <1>4, <1>5
<1> QED  BY <1>4, <1>5, <1>6

LEMMA FramedIs ==
  ASSUME NEW p \in BlePayloads
  PROVE  /\ Len(p) \in Nat /\ Size(p) \in Nat /\ Size(p) >= 4
         /\ Len(Framed(p)) = Size(p)
         /\ \A j \in 1..Size(p) : Framed(p)[j] \in Nat
         /\ Framed(p)[1] = Start1 /\ Framed(p)[2] = Start2
         /\ Framed(p)[3] = Len(p) \div 256 /\ Framed(p)[4] = Len(p) % 256
<1> DEFINE h == <<Start1, Start2, Len(p) \div 256, Len(p) % 256>>
           F == h \o p
<1>1. p \in Seq(Nat) /\ Len(p) \in Nat
  <2>1. p \in Seq(0..255)
    BY BleAssumption
  <2> QED  BY <2>1, ByteString
<1>2. Len(p) \div 256 \in Nat /\ Len(p) % 256 \in Nat
  BY <1>1
<1>3. h \in Seq(Nat) /\ Len(h) = 4 /\ h[1] = Start1 /\ h[2] = Start2
      /\ h[3] = Len(p) \div 256 /\ h[4] = Len(p) % 256
  BY <1>2 DEF Start1, Start2
<1> HIDE DEF h
<1>4. /\ F \in Seq(Nat) /\ Len(F) = 4 + Len(p)
      /\ F[1] = h[1] /\ F[2] = h[2] /\ F[3] = h[3] /\ F[4] = h[4]
  <2>1. h \in Seq(Nat) /\ p \in Seq(Nat) /\ Len(h) = 4
    BY <1>1, <1>3
  <2>2. ASSUME NEW a \in Seq(Nat), NEW b \in Seq(Nat)
        PROVE  /\ a \o b \in Seq(Nat) /\ Len(a \o b) = Len(a) + Len(b)
               /\ \A j \in 1..Len(a) : (a \o b)[j] = a[j]
    BY ConcatProperties
  <2>3. /\ h \o p \in Seq(Nat) /\ Len(h \o p) = Len(h) + Len(p)
        /\ \A j \in 1..Len(h) : (h \o p)[j] = h[j]
    BY <2>1, <2>2, Zenon
  <2> QED  BY <2>1, <2>3
<1>5. Framed(p) = F
  BY DEF Framed, h
<1> HIDE DEF F
<1>6. \A j \in 1..(4 + Len(p)) : F[j] \in Nat
  BY <1>4
<1> QED  BY <1>1, <1>3, <1>4, <1>5, <1>6 DEF Size

LEMMA FrameType ==
  ASSUME NEW n \in Nat, NEW p \in BlePayloads
  PROVE  /\ Frame(n, p) \in Bytes /\ Len(Frame(n, p)) = Size(p)
         /\ \A j \in 1..Size(p) : Frame(n, p)[j] = [byte |-> Framed(p)[j], of |-> n, at |-> j]
<1> DEFINE N == Size(p)
           x(j) == [byte |-> Framed(p)[j], of |-> n, at |-> j]
<1>1. N \in Nat /\ \A j \in 1..N : x(j) \in Octets
  BY FramedIs DEF Octets
<1> HIDE DEF N, x
<1>2. [j \in 1..N |-> x(j)] \in Seq(Octets) /\ Len([j \in 1..N |-> x(j)]) = N
  BY <1>1
<1>3. Frame(n, p) = [j \in 1..N |-> x(j)]
  BY DEF Frame, N, x
<1>4. \A j \in 1..N : Frame(n, p)[j] = x(j)
  BY <1>3
<1> QED  BY <1>2, <1>3, <1>4 DEF Bytes, N, x

LEMMA StrayType ==
  ASSUME NEW b \in BleNoise
  PROVE  /\ Stray(b) \in Bytes /\ Len(Stray(b)) = Len(b) /\ Len(b) \in Nat
         /\ \A j \in 1..Len(b) : Stray(b)[j] = [byte |-> b[j], of |-> 0, at |-> 0]
<1> DEFINE N == Len(b)
           x(j) == [byte |-> b[j], of |-> 0, at |-> 0]
<1>1. N \in Nat /\ \A j \in 1..N : x(j) \in Octets
  <2>1. b \in Seq(0..255)
    BY BleAssumption
  <2>2. N \in Nat /\ \A j \in 1..N : b[j] \in Nat
    BY <2>1, ByteString
  <2> QED  BY <2>2 DEF Octets
<1> HIDE DEF N, x
<1>2. [j \in 1..N |-> x(j)] \in Seq(Octets) /\ Len([j \in 1..N |-> x(j)]) = N
  BY <1>1
<1>3. Stray(b) = [j \in 1..N |-> x(j)]
  BY DEF Stray, N, x
<1>4. \A j \in 1..N : Stray(b)[j] = x(j)
  BY <1>3
<1> QED  BY <1>1, <1>2, <1>3, <1>4 DEF Bytes, N, x

(* A piece of a byte string.                                               *)
LEMMA Piece ==
  ASSUME NEW s \in Bytes, NEW a \in Nat, a >= 1, NEW b \in Nat, b <= Len(s)
  PROVE  SubSeq(s, a, b) \in Bytes
<1>1. \A i \in a..b : s[i] \in Octets
  BY DEF Bytes
<1> QED  BY <1>1, SubSeqProperties DEF Bytes

(* The queue with x behind it: one longer, or as long and moved by one.    *)
LEMMA Kept ==
  ASSUME NEW S, NEW q \in Seq(S), NEW x \in S, Len(q) <= BleQueueMax
  PROVE  /\ Keep(q, x) \in Seq(S)
         /\ Len(q) < BleQueueMax =>
              /\ Len(Keep(q, x)) = Len(q) + 1
              /\ \A i \in 1..Len(q) : Keep(q, x)[i] = q[i]
              /\ Keep(q, x)[Len(q) + 1] = x
         /\ Len(q) = BleQueueMax =>
              /\ Len(Keep(q, x)) = Len(q)
              /\ \A i \in 1..(Len(q) - 1) : Keep(q, x)[i] = q[i + 1]
              /\ Keep(q, x)[Len(q)] = x
<1>1. CASE Len(q) < BleQueueMax
  BY <1>1, Limit DEF Keep
<1>2. CASE Len(q) = BleQueueMax
  <2>1. q # <<>>
    BY <1>2, Limit
  <2>2. Tail(q) \in Seq(S) /\ Len(Tail(q)) = Len(q) - 1
        /\ \A i \in 1..(Len(q) - 1) : Tail(q)[i] = q[i + 1]
    BY <2>1
  <2>3. Keep(q, x) = Append(Tail(q), x)
    BY <1>2, Limit DEF Keep
  <2> QED  BY <1>2, <2>2, <2>3, Limit
<1> QED  BY <1>1, <1>2, Limit

(* What QueueIsNewest says of a queue q, the frames a that were queued and *)
(* the frames r that were read, where o of a lie before the queue.         *)
Newest(q, a, r, o) ==
  /\ Len(q) <= BleQueueMax /\ Len(a) = o + Len(q)
  /\ \A i \in 1..Len(q) : q[i] = a[o + i]
  /\ \A i \in 1..o : \/ \E k \in 1..Len(r) : r[k] = a[i]
                     \/ i + BleQueueMax <= Len(a)

LEMMA AppendKeeps ==
  ASSUME NEW S, NEW q \in Seq(S), NEW a \in Seq(S), NEW r \in Seq(S), NEW x \in S,
         NEW o \in Nat, Newest(q, a, r, o)
  PROVE  \E p \in Nat : Newest(Keep(q, x), Append(a, x), r, p)
<1> DEFINE k == Keep(q, x)
           b == Append(a, x)
<1>1. /\ Len(q) <= BleQueueMax /\ Len(a) = o + Len(q) /\ Len(q) \in Nat
      /\ \A i \in 1..Len(q) : q[i] = a[o + i]
      /\ \A i \in 1..o : \/ \E j \in 1..Len(r) : r[j] = a[i]
                         \/ i + BleQueueMax <= Len(a)
  BY DEF Newest
<1>2. /\ b \in Seq(S) /\ Len(b) = o + Len(q) + 1
      /\ \A i \in 1..(o + Len(q)) : b[i] = a[i]
      /\ b[o + Len(q) + 1] = x
  <2>1. o + Len(q) \in Nat /\ Len(a) = o + Len(q)
    BY <1>1
  <2>2. /\ b \in Seq(S) /\ Len(b) = Len(a) + 1 /\ b[Len(a) + 1] = x
        /\ \A i \in 1..Len(a) : b[i] = a[i]
    BY AppendProperties
  <2> HIDE DEF b
  <2> QED  BY <2>1, <2>2
<1>3. /\ k \in Seq(S)
      /\ Len(q) < BleQueueMax =>
           /\ Len(k) = Len(q) + 1 /\ k[Len(q) + 1] = x
           /\ \A i \in 1..Len(q) : k[i] = q[i]
      /\ Len(q) = BleQueueMax =>
           /\ Len(k) = Len(q) /\ k[Len(q)] = x
           /\ \A i \in 1..(Len(q) - 1) : k[i] = q[i + 1]
  BY <1>1, Kept
<1>4. ASSUME NEW i \in 1..o
      PROVE  \/ \E j \in 1..Len(r) : r[j] = b[i]
             \/ i + BleQueueMax <= Len(b)
  <2>1. i \in 1..(o + Len(q))
    BY <1>1
  <2>2. b[i] = a[i]
    BY <1>2, <2>1
  <2>3. CASE i + BleQueueMax <= Len(a)
    BY <1>1, <1>2, <2>3, Limit
  <2>4. CASE \E j \in 1..Len(r) : r[j] = a[i]
    BY <2>2, <2>4
  <2> QED  BY <1>1, <2>3, <2>4
<1> HIDE DEF k, b
<1>5. CASE Len(q) < BleQueueMax
  <2>1. ASSUME NEW i \in 1..Len(k) PROVE k[i] = b[o + i]
    <3>1. CASE i = Len(q) + 1
      <4>1. o + i = o + Len(q) + 1
        BY <1>1, <3>1
      <4> QED  BY <1>2, <1>3, <1>5, <3>1, <4>1
    <3>2. CASE i # Len(q) + 1
      <4>1. i \in 1..Len(q) /\ o + i \in 1..(o + Len(q))
        BY <1>1, <1>3, <1>5, <3>2
      <4> QED  BY <1>1, <1>2, <1>3, <1>5, <4>1
    <3> QED  BY <3>1, <3>2
  <2>2. Len(k) <= BleQueueMax /\ Len(b) = o + Len(k)
    <3>1. Len(q) \in Nat
      BY <1>1
    <3>2. Len(k) = Len(q) + 1
      BY <1>3, <1>5
    <3>3. Len(b) = o + Len(q) + 1
      BY <1>2
    <3> QED  BY ONLY o \in Nat, <1>5, <3>1, <3>2, <3>3, Limit
  <2>3. Newest(k, b, r, o)
    BY <1>4, <2>1, <2>2 DEF Newest
  <2> QED  BY <2>3 DEF k, b
<1>6. CASE Len(q) = BleQueueMax
  <2>1. ASSUME NEW i \in 1..Len(k) PROVE k[i] = b[(o + 1) + i]
    <3>1. CASE i = Len(q)
      <4>1. (o + 1) + i = o + Len(q) + 1
        BY <1>1, <3>1
      <4> QED  BY <1>2, <1>3, <1>6, <3>1, <4>1
    <3>2. CASE i # Len(q)
      <4>1. /\ i \in 1..(Len(q) - 1) /\ i + 1 \in 1..Len(q)
            /\ (o + 1) + i \in 1..(o + Len(q)) /\ o + (i + 1) = (o + 1) + i
        BY <1>1, <1>3, <1>6, <3>2
      <4>2. q[i + 1] = a[(o + 1) + i]
        BY <1>1, <4>1
      <4> QED  BY <1>2, <1>3, <1>6, <4>1, <4>2
    <3> QED  BY <3>1, <3>2
  <2>2. Len(k) <= BleQueueMax /\ Len(b) = (o + 1) + Len(k)
    <3>1. Len(q) \in Nat
      BY <1>1
    <3>2. Len(k) = Len(q)
      BY <1>3, <1>6
    <3>3. Len(b) = o + Len(q) + 1
      BY <1>2
    <3> QED  BY ONLY o \in Nat, <1>6, <3>1, <3>2, <3>3, Limit
  <2>3. ASSUME NEW i \in 1..(o + 1)
        PROVE  \/ \E j \in 1..Len(r) : r[j] = b[i]
               \/ i + BleQueueMax <= Len(b)
    <3>1. CASE i = o + 1
      BY <1>1, <1>2, <1>6, <3>1
    <3>2. CASE i # o + 1
      <4>1. i \in 1..o
        BY <3>2
      <4> QED  BY <1>4, <4>1
    <3> QED  BY <3>1, <3>2
  <2>4. Newest(k, b, r, o + 1)
    BY <2>1, <2>2, <2>3 DEF Newest
  <2> QED  BY <2>4 DEF k, b
<1> QED  BY <1>1, <1>5, <1>6, Limit

LEMMA ReadKeeps ==
  ASSUME NEW S, NEW q \in Seq(S), NEW a \in Seq(S), NEW r \in Seq(S),
         NEW o \in Nat, Newest(q, a, r, o), q # <<>>
  PROVE  \E p \in Nat : Newest(Tail(q), a, Append(r, Head(q)), p)
<1> DEFINE k == Tail(q)
           s == Append(r, Head(q))
<1>1. /\ Len(q) <= BleQueueMax /\ Len(a) = o + Len(q) /\ Len(q) \in Nat /\ Len(q) >= 1
      /\ \A i \in 1..Len(q) : q[i] = a[o + i]
      /\ \A i \in 1..o : \/ \E j \in 1..Len(r) : r[j] = a[i]
                         \/ i + BleQueueMax <= Len(a)
  BY DEF Newest
<1>2. k \in Seq(S) /\ Len(k) = Len(q) - 1 /\ \A i \in 1..Len(k) : k[i] = q[i + 1]
  BY HeadTailProperties
<1>3. Head(q) \in S /\ Head(q) = a[o + 1]
  <2>1. Head(q) = q[1] /\ Head(q) \in S
    BY HeadTailProperties
  <2> QED  BY <1>1, <2>1
<1>4. /\ Len(s) = Len(r) + 1 /\ Len(r) \in Nat
      /\ \A i \in 1..Len(r) : s[i] = r[i]
      /\ s[Len(r) + 1] = a[o + 1]
  BY <1>3, AppendProperties
<1> HIDE DEF k, s
<1>5. ASSUME NEW i \in 1..Len(k) PROVE k[i] = a[(o + 1) + i]
  <2>1. i + 1 \in 1..Len(q) /\ o + (i + 1) = (o + 1) + i
    BY <1>1, <1>2
  <2> QED  BY <1>1, <1>2, <2>1
<1>6. ASSUME NEW i \in 1..(o + 1)
      PROVE  \/ \E j \in 1..Len(s) : s[j] = a[i]
             \/ i + BleQueueMax <= Len(a)
  <2>1. CASE i = o + 1
    <3>1. Len(r) + 1 \in 1..Len(s)
      BY <1>4
    <3> QED  BY <1>4, <2>1, <3>1
  <2>2. CASE i # o + 1
    <3>1. i \in 1..o
      BY <2>2
    <3>2. CASE \E j \in 1..Len(r) : r[j] = a[i]
      <4>1. PICK j \in 1..Len(r) : r[j] = a[i]
        BY <3>2
      <4>2. j \in 1..Len(s) /\ s[j] = a[i]
        BY <1>4, <4>1
      <4> QED  BY <4>2
    <3> QED  BY <1>1, <3>1, <3>2
  <2> QED  BY <2>1, <2>2
<1>7. Len(k) <= BleQueueMax /\ Len(a) = (o + 1) + Len(k)
  BY <1>1, <1>2, Limit
<1>8. Newest(k, a, s, o + 1)
  BY <1>5, <1>6, <1>7 DEF Newest
<1> QED  BY <1>8 DEF k, s
-----------------------------------------------------------------------------
(* QueueIsNewest, said with Newest.                                        *)
Queued == \E o \in Nat : Newest(bleQueue, bleAppended, bleRead, o)

(* The inductive invariant.                                                *)
QInv == Types /\ Queued /\ bleNum = Len(bleAppended)

(* The invariant says what QueueIsNewest says of the bridge's queue. *)
THEOREM QueuedIsNewest == QInv => QueueIsNewest
<1> SUFFICES ASSUME QInv PROVE QueueIsNewest
  OBVIOUS
<1>1. PICK o \in Nat : Newest(bleQueue, bleAppended, bleRead, o)
  BY DEF QInv, Queued
<1>2. Len(bleQueue) \in Nat /\ bleNum = Len(bleAppended)
  BY DEF QInv, Types
<1>3. Len(bleAppended) = o + Len(bleQueue) /\ Len(bleQueue) <= BleQueueMax
  BY <1>1 DEF Newest
<1>4. Len(bleAppended) - Len(bleQueue) = o /\ Len(bleQueue) <= Len(bleAppended)
  BY <1>2, <1>3
<1> QED  BY <1>1, <1>2, <1>3, <1>4 DEF QueueIsNewest, Newest

(* It holds of a bridge that starts. *)
THEOREM QueueInit == BleInit => QInv
<1> SUFFICES ASSUME BleInit PROVE QInv
  OBVIOUS
<1>1. Types
  BY DEF BleInit, Types, Bytes
<1>2. Newest(bleQueue, bleAppended, bleRead, 0) /\ bleNum = Len(bleAppended)
  BY Limit DEF BleInit, Newest
<1> QED  BY <1>1, <1>2 DEF QInv, Queued

(* Every step keeps the invariant: only the append and the read touch what *)
(* it is about, the others keep the bytes bytes.                           *)
THEOREM QueueStep == QInv /\ [BleNext]_bleVars => QInv'
<1> SUFFICES ASSUME QInv, [BleNext]_bleVars PROVE QInv'
  OBVIOUS
<1>1. /\ bleWire \in Bytes /\ bleGot \in Bytes /\ bleWritten \in Seq(BlePayloads)
      /\ bleQueue \in Seq(Bytes) /\ bleAppended \in Seq(Bytes) /\ bleRead \in Seq(Bytes)
      /\ bleNum = Len(bleAppended)
  BY DEF QInv, Types
<1>2. PICK o \in Nat : Newest(bleQueue, bleAppended, bleRead, o)
  BY DEF QInv, Queued
<1>3. ASSUME UNCHANGED <<bleQueue, bleAppended, bleRead, bleNum>>,
             bleWire' \in Bytes, bleGot' \in Bytes, bleWritten' \in Seq(BlePayloads)
      PROVE  QInv'
  BY <1>1, <1>2, <1>3 DEF QInv, Types, Queued
<1>4. CASE DaemonWrites
  <2> DEFINE n == Len(bleWritten) + 1
  <2>1. PICK p \in BlePayloads :
          /\ bleWritten' = Append(bleWritten, p)
          /\ bleWire' = bleWire \o Frame(n, p)
    BY <1>4 DEF DaemonWrites
  <2>2. n \in Nat
    BY <1>1
  <2> HIDE DEF n
  <2>3. Frame(n, p) \in Bytes
    BY <2>2, FrameType
  <2>4. bleWire' \in Bytes /\ bleWritten' \in Seq(BlePayloads)
    BY <1>1, <2>1, <2>3 DEF Bytes
  <2> QED  BY <1>1, <1>3, <1>4, <2>4 DEF DaemonWrites, queueVars, phoneVars, workerVars
<1>5. CASE DaemonNoise
  <2>1. PICK b \in BleNoise : bleWire' = bleWire \o Stray(b)
    BY <1>5 DEF DaemonNoise
  <2>2. bleWire' \in Bytes
    BY <1>1, <2>1, StrayType DEF Bytes
  <2> QED  BY <1>1, <1>3, <1>5, <2>2 DEF DaemonNoise, queueVars, phoneVars, workerVars
<1>6. CASE DaemonCloses
  <2>1. PICK k \in 0..Len(bleWire) : bleWire' = SubSeq(bleWire, 1, k)
    BY <1>6 DEF DaemonCloses
  <2>2. k \in Nat /\ k <= Len(bleWire)
    BY <1>1, <2>1 DEF Bytes
  <2>3. bleWire' \in Bytes
    BY <1>1, <2>1, <2>2, Piece
  <2> QED  BY <1>1, <1>3, <1>6, <2>3 DEF DaemonCloses, queueVars, phoneVars, workerVars
<1>7. CASE RecvHeader \/ RecvPayload
  <2>1. PICK want : Recv(want)
    BY <1>7 DEF RecvHeader, RecvPayload
  <2>2. PICK k \in 1..want :
          /\ k <= Len(bleWire)
          /\ bleGot' = bleGot \o SubSeq(bleWire, 1, k)
          /\ bleWire' = SubSeq(bleWire, k + 1, Len(bleWire))
    BY <2>1 DEF Recv
  <2>3. k \in Nat /\ k + 1 \in Nat /\ k + 1 >= 1 /\ Len(bleWire) \in Nat
    BY <1>1, <2>2 DEF Bytes
  <2>4. SubSeq(bleWire, 1, k) \in Bytes /\ bleWire' \in Bytes
    BY <1>1, <2>2, <2>3, Piece
  <2>5. bleGot' \in Bytes
    BY <1>1, <2>2, <2>4 DEF Bytes
  <2> QED  BY <1>1, <1>3, <2>1, <2>4, <2>5 DEF Recv, queueVars, phoneVars
<1>8. CASE AppendFrame
  <2> DEFINE x == SubSeq(bleGot, 5, Len(bleGot))
  <2>1. Len(bleGot) \in Nat
    BY <1>1 DEF Bytes
  <2>2. x \in Bytes
    BY <1>1, <2>1, Piece
  <2>3. /\ bleQueue' = Keep(bleQueue, x) /\ bleAppended' = Append(bleAppended, x)
        /\ bleNum' = bleNum + 1
        /\ UNCHANGED <<bleRead, bleWire, bleGot, bleWritten>>
    BY <1>8 DEF AppendFrame, phoneVars, wireVars
  <2> HIDE DEF x
  <2>4. Queued'
    <3>1. PICK p \in Nat : Newest(Keep(bleQueue, x), Append(bleAppended, x), bleRead, p)
      BY <1>1, <1>2, <2>2, AppendKeeps
    <3> QED  BY <2>3, <3>1 DEF Queued
  <2>5. bleQueue' \in Seq(Bytes)
    BY <1>1, <1>2, <2>2, <2>3, Kept DEF Newest
  <2>6. bleAppended' \in Seq(Bytes) /\ bleNum' = Len(bleAppended')
    BY <1>1, <2>2, <2>3, AppendProperties
  <2> QED  BY <1>1, <2>3, <2>4, <2>5, <2>6 DEF QInv, Types
<1>9. CASE ReadValue
  <2>1. UNCHANGED <<bleWire, bleGot, bleWritten, bleAppended, bleNum>>
    BY <1>9 DEF ReadValue, wireVars, workerVars
  <2>2. CASE bleQueue = <<>>
    BY <1>1, <1>3, <1>9, <2>1, <2>2 DEF ReadValue
  <2>3. CASE bleQueue # <<>>
    <3>1. bleQueue' = Tail(bleQueue) /\ bleRead' = Append(bleRead, Head(bleQueue))
      BY <1>9, <2>3 DEF ReadValue
    <3>2. Queued'
      <4>1. PICK p \in Nat : Newest(Tail(bleQueue), bleAppended,
                                    Append(bleRead, Head(bleQueue)), p)
        BY <1>1, <1>2, <2>3, ReadKeeps
      <4> QED  BY <2>1, <3>1, <4>1 DEF Queued
    <3>3. bleQueue' \in Seq(Bytes) /\ bleRead' \in Seq(Bytes)
      BY <1>1, <2>3, <3>1, HeadTailProperties, AppendProperties
    <3> QED  BY <1>1, <2>1, <3>2, <3>3 DEF QInv, Types
  <2> QED  BY <2>2, <2>3
<1>10. CASE Connect
  BY <1>1, <1>3, <1>10 DEF Connect, Bytes, queueVars, phoneVars
<1>11. CASE NextFrame
  BY <1>1, <1>3, <1>11 DEF NextFrame, Bytes, queueVars, phoneVars, wireVars
<1>12. CASE RecvFails \/ Tell
  BY <1>1, <1>3, <1>12 DEF RecvFails, Tell, queueVars, phoneVars, wireVars
<1>13. CASE OnNewPacket \/ StartNotify \/ StopNotify
  BY <1>1, <1>3, <1>13
     DEF OnNewPacket, StartNotify, StopNotify, queueVars, wireVars, workerVars
<1>14. CASE SendBegins \/ SendEnds \/ SendFails
  BY <1>1, <1>3, <1>14
     DEF SendBegins, SendEnds, SendFails, queueVars, phoneVars, wireVars, workerVars
<1>15. CASE UNCHANGED bleVars
  BY <1>1, <1>3, <1>15 DEF bleVars
<1> QED
  BY <1>4, <1>5, <1>6, <1>7, <1>8, <1>9, <1>10, <1>11, <1>12, <1>13, <1>14, <1>15
     DEF BleNext, Worker

(* Whatever the daemon, the connection and the phone do, the queue is the  *)
(* newest frames that came, FromNum counts them, and no frame is lost but  *)
(* to the limit of the queue.                                              *)
THEOREM BleSafe == BleSpec => []QueueIsNewest
<1>1. BleInit => QInv
  BY QueueInit
<1>2. QInv /\ [BleNext]_bleVars => QInv'
  BY QueueStep
<1>3. QInv => QueueIsNewest
  BY QueuedIsNewest
<1> QED  BY <1>1, <1>2, <1>3, PTL DEF BleSpec
-----------------------------------------------------------------------------
(* Frames of the daemon.  What the worker still has to cut into frames is  *)
(* the bytes of the frame it is at and those on the wire: frames of the    *)
(* daemon and stray bytes, the first cut in front, the last behind a       *)
(* closed connection cut at its end, and the numbers of the frames grow.   *)
(* A byte that begins something, and the last byte of something: the next  *)
(* byte goes on with the same frame or begins another.                     *)
Fresh(u) == u.of = 0 \/ u.at = 1
Ends(u, W) == u.of = 0 \/ u.at = Size(W[u.of])

(* A byte of the payloads W, or one of the stray bytes Z.                  *)
Sent(u, W, Z) ==
  IF u.of = 0 THEN u.at = 0 /\ u.byte \in Z
  ELSE /\ u.of \in 1..Len(W) /\ u.at \in 1..Size(W[u.of])
       /\ u.byte = Framed(W[u.of])[u.at]

Adjoins(u, v, W) == IF Ends(u, W) THEN Fresh(v) ELSE v.of = u.of /\ v.at = u.at + 1

(* Bytes s read from the daemon: frames of W, the first perhaps cut, stray *)
(* bytes between them, the frames that begin there newer than lo and newer *)
(* than whatever lies before them.                                         *)
Flow(s, W, Z, lo) ==
  /\ \A i \in 1..Len(s) : Sent(s[i], W, Z) /\ (s[i].at = 1 => lo < s[i].of)
  /\ \A i, k \in 1..Len(s) : k = i + 1 => Adjoins(s[i], s[k], W)
  /\ \A i, k \in 1..Len(s) : i < k /\ s[i].of # 0 /\ s[k].at = 1 => s[i].of < s[k].of

(* The last frame is not cut short.                                        *)
Whole(s, W) == s # <<>> => Ends(s[Len(s)], W)
LEMMA JoinedBytes ==
  ASSUME NEW a \in Bytes, NEW b \in Bytes
  PROVE  /\ a \o b \in Bytes /\ Len(a \o b) = Len(a) + Len(b)
         /\ Len(a) \in Nat /\ Len(b) \in Nat
         /\ \A j \in 1..Len(a) : (a \o b)[j] = a[j]
         /\ \A j \in 1..Len(b) : (a \o b)[Len(a) + j] = b[j]
BY ConcatProperties DEF Bytes

(* A byte string cut in two. *)
LEMMA BytesCut ==
  ASSUME NEW w \in Bytes, NEW k \in 0..Len(w)
  PROVE  /\ SubSeq(w, 1, k) \in Bytes /\ Len(SubSeq(w, 1, k)) = k
         /\ \A i \in 1..k : SubSeq(w, 1, k)[i] = w[i]
         /\ SubSeq(w, k + 1, Len(w)) \in Bytes
         /\ Len(SubSeq(w, k + 1, Len(w))) = Len(w) - k
         /\ \A i \in 1..(Len(w) - k) : SubSeq(w, k + 1, Len(w))[i] = w[k + i]
<1> DEFINE L == Len(w)
<1>1. L \in Nat /\ k \in Nat /\ k <= L /\ \A i \in 1..L : w[i] \in Octets
  BY DEF Bytes
<1> HIDE DEF L
<1>2. /\ SubSeq(w, 1, k) \in Seq(Octets) /\ Len(SubSeq(w, 1, k)) = k
      /\ \A i \in 1..k : SubSeq(w, 1, k)[i] = w[i]
  <2>1. \A i \in 1..k : w[i] \in Octets
    BY <1>1
  <2>2. /\ SubSeq(w, 1, k) \in Seq(Octets)
        /\ Len(SubSeq(w, 1, k)) = IF 1 <= k THEN k - 1 + 1 ELSE 0
        /\ \A i \in 1..(k - 1 + 1) : SubSeq(w, 1, k)[i] = w[1 + i - 1]
    BY <1>1, <2>1, SubSeqProperties
  <2>3. \A i \in 1..k : i \in 1..(k - 1 + 1) /\ 1 + i - 1 = i
    BY <1>1
  <2>4. Len(SubSeq(w, 1, k)) = k
    BY <1>1, <2>2
  <2> QED
    BY <2>2, <2>3, <2>4
<1>3. /\ SubSeq(w, k + 1, L) \in Seq(Octets) /\ Len(SubSeq(w, k + 1, L)) = L - k
      /\ \A i \in 1..(L - k) : SubSeq(w, k + 1, L)[i] = w[k + i]
  <2>1. \A i \in (k + 1)..L : w[i] \in Octets
    BY <1>1
  <2>2. /\ SubSeq(w, k + 1, L) \in Seq(Octets)
        /\ Len(SubSeq(w, k + 1, L)) = IF k + 1 <= L THEN L - (k + 1) + 1 ELSE 0
        /\ \A i \in 1..(L - (k + 1) + 1) : SubSeq(w, k + 1, L)[i] = w[(k + 1) + i - 1]
    BY <1>1, <2>1, SubSeqProperties
  <2>3. \A i \in 1..(L - k) : i \in 1..(L - (k + 1) + 1) /\ (k + 1) + i - 1 = k + i
    BY <1>1
  <2>4. Len(SubSeq(w, k + 1, L)) = L - k
    BY <1>1, <2>2
  <2> QED
    BY <2>2, <2>3, <2>4
<1> QED
  BY <1>2, <1>3 DEF L, Bytes

(* What recv moves from the wire to the buffer stays in place. *)
LEMMA BytesMove ==
  ASSUME NEW g \in Bytes, NEW w \in Bytes, NEW k \in 0..Len(w)
  PROVE  /\ SubSeq(w, 1, k) \in Bytes /\ Len(SubSeq(w, 1, k)) = k
         /\ SubSeq(w, k + 1, Len(w)) \in Bytes
         /\ g \o SubSeq(w, 1, k) \in Bytes
         /\ (g \o SubSeq(w, 1, k)) \o SubSeq(w, k + 1, Len(w)) = g \o w
<1> DEFINE x == SubSeq(w, 1, k)
           y == SubSeq(w, k + 1, Len(w))
<1>1. /\ x \in Bytes /\ Len(x) = k /\ \A i \in 1..k : x[i] = w[i]
      /\ y \in Bytes /\ Len(y) = Len(w) - k
      /\ \A i \in 1..(Len(w) - k) : y[i] = w[k + i]
      /\ Len(w) \in Nat
  <2>1. Len(w) \in Nat
    BY DEF Bytes
  <2> QED
    BY <2>1, BytesCut
<1> HIDE DEF x, y
<1>2. x \o y = w
  <2>1. /\ x \o y \in Bytes /\ Len(x \o y) = Len(x) + Len(y)
        /\ \A i \in 1..Len(x) : (x \o y)[i] = x[i]
        /\ \A i \in 1..Len(y) : (x \o y)[Len(x) + i] = y[i]
    BY <1>1, JoinedBytes
  <2>2. ASSUME NEW i \in 1..Len(w) PROVE (x \o y)[i] = w[i]
    <3>1. CASE i <= k
      <4>1. i \in 1..k
        BY <3>1
      <4> QED
        BY <1>1, <2>1, <4>1
    <3>2. CASE i > k
      <4>1. i - k \in 1..(Len(w) - k) /\ k + (i - k) = i
        BY <1>1, <3>2
      <4>2. y[i - k] = w[i]
        BY <1>1, <4>1
      <4>3. (x \o y)[k + (i - k)] = y[i - k]
        BY <1>1, <2>1, <4>1
      <4> QED
        BY <4>1, <4>2, <4>3
    <3> QED
      BY <1>1, <3>1, <3>2
  <2>3. x \o y \in Seq(Octets) /\ w \in Seq(Octets) /\ Len(x \o y) = Len(w)
    BY <1>1, <2>1 DEF Bytes
  <2> QED
    BY <2>2, <2>3, SeqEqual
<1>3. g \o x \in Bytes
  BY <1>1, JoinedBytes
<1>4. (g \o x) \o y = g \o (x \o y)
  <2>1. \A a, b, c \in Seq(Octets) : (a \o b) \o c = a \o (b \o c)
    <3>1. ASSUME NEW a \in Seq(Octets), NEW b \in Seq(Octets), NEW c \in Seq(Octets)
          PROVE  (a \o b) \o c = a \o (b \o c)
      BY ConcatAssociative, SMTT(30), ZenonT(30)
    <3> QED
      BY <3>1
  <2>2. g \in Seq(Octets) /\ x \in Seq(Octets) /\ y \in Seq(Octets)
    BY <1>1 DEF Bytes
  <2> QED
    BY <2>1, <2>2, Zenon
<1> QED
  BY <1>1, <1>2, <1>3, <1>4 DEF x, y

(* Dropping all of the buffer leaves the wire. *)
LEMMA FrontDropped ==
  ASSUME NEW g \in Bytes, NEW w \in Bytes
  PROVE  /\ SubSeq(g \o w, Len(g) + 1, Len(g \o w)) = w
         /\ Len(g) \in 0..Len(g \o w)
<1> DEFINE s == g \o w
<1>1. /\ s \in Bytes /\ Len(s) = Len(g) + Len(w) /\ Len(g) \in Nat /\ Len(w) \in Nat
      /\ \A j \in 1..Len(w) : s[Len(g) + j] = w[j]
  BY JoinedBytes
<1> HIDE DEF s
<1> DEFINE y == SubSeq(s, Len(g) + 1, Len(s))
<1>2. /\ y \in Seq(Octets) /\ Len(y) = Len(w)
      /\ \A j \in 1..Len(w) : y[j] = s[Len(g) + j]
  <2>1. Len(g) \in 0..Len(s) /\ Len(s) - Len(g) = Len(w)
    BY <1>1
  <2> QED
    <3> DEFINE k == Len(g)
    <3>1. k \in 0..Len(s) /\ s \in Bytes
      BY <1>1, <2>1
    <3> HIDE DEF k
    <3>2. /\ SubSeq(s, k + 1, Len(s)) \in Bytes
          /\ Len(SubSeq(s, k + 1, Len(s))) = Len(s) - k
          /\ \A i \in 1..(Len(s) - k) : SubSeq(s, k + 1, Len(s))[i] = s[k + i]
      BY <3>1, BytesCut
    <3> QED
      BY <2>1, <3>2 DEF k, Bytes
<1> HIDE DEF y
<1>3. y = w
  <2>1. w \in Seq(Octets) /\ \A j \in 1..Len(w) : y[j] = w[j]
    BY <1>1, <1>2 DEF Bytes
  <2> QED
    BY <1>2, <2>1, SeqEqual
<1> QED
  BY <1>1, <1>3 DEF s, y

(* A part of a flow is one; so is the rest that comes behind new frames.   *)
LEMMA FlowPart ==
  ASSUME NEW s \in Bytes, NEW t \in Bytes, NEW d \in Nat, d + Len(t) <= Len(s),
         \A i \in 1..Len(t) : t[i] = s[d + i],
         NEW W, NEW Z, NEW lo \in Nat, Flow(s, W, Z, lo), NEW new \in Nat,
         \A i \in 1..Len(t) : t[i].at = 1 => new < t[i].of
  PROVE  /\ Flow(t, W, Z, new)
         /\ d + Len(t) = Len(s) /\ Whole(s, W) => Whole(t, W)
<1> DEFINE L == Len(s)
           N == Len(t)
<1>1. /\ L \in Nat /\ N \in Nat /\ d + N <= L
      /\ \A i \in 1..N : t[i] = s[d + i]
      /\ \A i \in 1..N : t[i].at = 1 => new < t[i].of
  BY DEF Bytes
<1>2. /\ \A i \in 1..L : Sent(s[i], W, Z)
      /\ \A i, k \in 1..L : k = i + 1 => Adjoins(s[i], s[k], W)
      /\ \A i, k \in 1..L : i < k /\ s[i].of # 0 /\ s[k].at = 1 => s[i].of < s[k].of
  BY DEF Flow
<1>3. Whole(s, W) => (s # <<>> => Ends(s[L], W))
  BY DEF Whole
<1>4. t # <<>> => N # 0
  BY DEF Bytes
<1>5. s = <<>> => L = 0
  BY DEF Bytes
<1> HIDE DEF L, N
<1>6. \A i \in 1..N : d + i \in 1..L /\ i \in Nat
  BY <1>1
<1>7. \A i \in 1..N : Sent(t[i], W, Z) /\ (t[i].at = 1 => new < t[i].of)
  BY <1>1, <1>2, <1>6
<1>8. ASSUME NEW i \in 1..N, NEW k \in 1..N, k = i + 1
      PROVE  Adjoins(t[i], t[k], W)
  <2>1. d + k = (d + i) + 1
    BY <1>6, <1>8
  <2>2. Adjoins(s[d + i], s[d + k], W)
    BY <1>2, <1>6, <2>1
  <2> QED  BY <1>1, <2>2
<1>9. ASSUME NEW i \in 1..N, NEW k \in 1..N, i < k, t[i].of # 0, t[k].at = 1
      PROVE  t[i].of < t[k].of
  <2>1. d + i < d + k
    BY <1>6, <1>9
  <2>2. t[i] = s[d + i] /\ t[k] = s[d + k]
    BY <1>1
  <2> QED  BY <1>2, <1>6, <1>9, <2>1, <2>2
<1>10. ASSUME d + N = L, Whole(s, W), t # <<>> PROVE Ends(t[N], W)
  <2>1. N \in 1..N /\ L # 0
    BY <1>1, <1>4, <1>10
  <2>2. t[N] = s[L]
    BY <1>1, <1>10, <2>1
  <2> QED  BY <1>3, <1>5, <1>10, <2>1, <2>2
<1> QED  BY <1>7, <1>8, <1>9, <1>10 DEF Flow, Whole, L, N

(* More that the daemon wrote changes nothing of what is on the way.       *)
LEMMA FlowStays ==
  ASSUME NEW s \in Bytes, NEW W, NEW V, Len(W) \in Nat, Len(V) \in Nat, Len(W) <= Len(V),
         \A n \in 1..Len(W) : V[n] = W[n], NEW Y, NEW Z, Y \subseteq Z, NEW lo,
         Flow(s, W, Y, lo)
  PROVE  Flow(s, V, Z, lo) /\ (Whole(s, W) => Whole(s, V))
<1> DEFINE L == Len(s)
<1>1. ASSUME NEW u, Sent(u, W, Y)
      PROVE  Sent(u, V, Z) /\ (Ends(u, V) <=> Ends(u, W))
  <2>1. CASE u.of = 0
    BY <1>1, <2>1 DEF Sent, Ends
  <2>2. CASE u.of # 0
    <3>1. u.of \in 1..Len(W)
      BY <1>1, <2>2 DEF Sent
    <3>2. u.of \in 1..Len(V) /\ V[u.of] = W[u.of]
      BY <3>1
    <3> QED  BY <1>1, <2>2, <3>2 DEF Sent, Ends
  <2> QED  BY <2>1, <2>2
<1>a. L \in Nat
  BY DEF Bytes
<1>2. /\ \A i \in 1..L : Sent(s[i], W, Y) /\ (s[i].at = 1 => lo < s[i].of)
      /\ \A i, k \in 1..L : k = i + 1 => Adjoins(s[i], s[k], W)
      /\ \A i, k \in 1..L : i < k /\ s[i].of # 0 /\ s[k].at = 1 => s[i].of < s[k].of
  BY DEF Flow
<1>3. \A i \in 1..L : Sent(s[i], V, Z) /\ (Ends(s[i], V) <=> Ends(s[i], W))
  BY <1>1, <1>2
<1>4. \A i, k \in 1..L : k = i + 1 => Adjoins(s[i], s[k], V)
  BY <1>2, <1>3 DEF Adjoins
<1>5. ASSUME Whole(s, W), s # <<>> PROVE Ends(s[L], V)
  <2>1. L \in 1..L
    BY <1>5 DEF Bytes
  <2> QED  BY <1>3, <1>5, <2>1 DEF Whole
<1> QED  BY <1>2, <1>3, <1>4, <1>5 DEF Flow, Whole

(* Behind whole frames a flow goes on with a newer one.                    *)
LEMMA FlowJoins ==
  ASSUME NEW s \in Bytes, NEW t \in Bytes, NEW W, NEW Z, NEW lo,
         Flow(s, W, Z, lo), Whole(s, W), Flow(t, W, Z, lo), t # <<>> => Fresh(t[1]),
         \A i \in 1..Len(s), k \in 1..Len(t) :
           s[i].of # 0 /\ t[k].at = 1 => s[i].of < t[k].of
  PROVE  Flow(s \o t, W, Z, lo) /\ (Whole(t, W) => Whole(s \o t, W))
<1> DEFINE L == Len(s)
           N == Len(t)
           r == s \o t
           M == Len(r)
<1>1. /\ L \in Nat /\ N \in Nat /\ M = L + N /\ r \in Bytes
      /\ \A i \in 1..L : r[i] = s[i]
      /\ \A i \in 1..N : r[L + i] = t[i]
  BY JoinedBytes
<1>2. (s # <<>> <=> L # 0) /\ (t # <<>> <=> N # 0) /\ (r # <<>> <=> M # 0)
  BY <1>1 DEF Bytes
<1>3. /\ \A i \in 1..L : Sent(s[i], W, Z) /\ (s[i].at = 1 => lo < s[i].of)
      /\ \A i, k \in 1..L : k = i + 1 => Adjoins(s[i], s[k], W)
      /\ \A i, k \in 1..L : i < k /\ s[i].of # 0 /\ s[k].at = 1 => s[i].of < s[k].of
  BY DEF Flow
<1>4. /\ \A i \in 1..N : Sent(t[i], W, Z) /\ (t[i].at = 1 => lo < t[i].of)
      /\ \A i, k \in 1..N : k = i + 1 => Adjoins(t[i], t[k], W)
      /\ \A i, k \in 1..N : i < k /\ t[i].of # 0 /\ t[k].at = 1 => t[i].of < t[k].of
  BY DEF Flow
<1>5. (L # 0 => Ends(s[L], W)) /\ (N # 0 => Fresh(t[1]))
  BY <1>2 DEF Whole
<1>6. \A i \in 1..L, k \in 1..N : s[i].of # 0 /\ t[k].at = 1 => s[i].of < t[k].of
  OBVIOUS
<1>7. Whole(t, W) => (N # 0 => Ends(t[N], W))
  BY <1>2 DEF Whole
<1> HIDE DEF L, N, M, r
<1>8. \A i \in 1..M :
        \/ i \in 1..L /\ r[i] = s[i]
        \/ \E j \in 1..N : i = L + j /\ r[i] = t[j]
  <2> SUFFICES ASSUME NEW i \in 1..M
               PROVE  \/ i \in 1..L /\ r[i] = s[i]
                      \/ \E j \in 1..N : i = L + j /\ r[i] = t[j]
    OBVIOUS
  <2>1. CASE i <= L
    <3>1. i \in 1..L
      BY <1>1, <2>1
    <3> QED  BY <1>1, <3>1
  <2>2. CASE i > L
    <3> DEFINE j == i - L
    <3>1. j \in 1..N /\ i = L + j
      BY <1>1, <2>2
    <3> HIDE DEF j
    <3>2. r[L + j] = t[j]
      BY <1>1, <3>1
    <3> QED  BY <3>1, <3>2
  <2> QED  BY <1>1, <2>1, <2>2
<1>9. \A i \in 1..M : Sent(r[i], W, Z) /\ (r[i].at = 1 => lo < r[i].of)
  BY <1>3, <1>4, <1>8
<1>10. ASSUME NEW i \in 1..M, NEW k \in 1..M, k = i + 1
       PROVE  Adjoins(r[i], r[k], W)
  <2>1. CASE k \in 1..L
    <3>1. i \in 1..L
      BY <1>1, <1>10, <2>1
    <3> QED  BY <1>1, <1>3, <1>10, <2>1, <3>1
  <2>2. CASE i \notin 1..L
    <3>1. PICK j \in 1..N : i = L + j /\ r[i] = t[j]
      BY <1>8, <2>2
    <3>2. k \notin 1..L
      BY <1>1, <1>10, <3>1
    <3>3. PICK m \in 1..N : k = L + m /\ r[k] = t[m]
      BY <1>8, <3>2
    <3>4. m = j + 1
      BY <1>1, <1>10, <3>1, <3>3
    <3> QED  BY <1>4, <3>1, <3>3, <3>4
  <2>3. CASE i \in 1..L /\ k \notin 1..L
    <3>1. i = L /\ L # 0 /\ r[i] = s[L] /\ k = L + 1
      BY <1>1, <1>10, <2>3
    <3>2. 1 \in 1..N /\ N # 0
      BY <1>1, <3>1
    <3>3. r[k] = t[1]
      BY <1>1, <3>1, <3>2
    <3> QED  BY <1>5, <3>1, <3>2, <3>3 DEF Adjoins
  <2> QED  BY <2>1, <2>2, <2>3
<1>11. ASSUME NEW i \in 1..M, NEW k \in 1..M, i < k, r[i].of # 0, r[k].at = 1
       PROVE  r[i].of < r[k].of
  <2>1. CASE k \in 1..L
    <3>1. i \in 1..L
      BY <1>1, <1>11, <2>1
    <3> QED  BY <1>1, <1>3, <1>11, <2>1, <3>1
  <2>2. CASE k \notin 1..L
    <3>1. PICK m \in 1..N : k = L + m /\ r[k] = t[m]
      BY <1>8, <2>2
    <3>2. CASE i \in 1..L
      BY <1>1, <1>6, <1>11, <3>1, <3>2
    <3>3. CASE i \notin 1..L
      <4>1. PICK j \in 1..N : i = L + j /\ r[i] = t[j]
        BY <1>8, <3>3
      <4>2. j < m
        BY <1>1, <1>11, <3>1, <4>1
      <4> QED  BY <1>4, <1>11, <3>1, <4>1, <4>2
    <3> QED  BY <3>2, <3>3
  <2> QED  BY <2>1, <2>2
<1>12. ASSUME Whole(t, W), r # <<>> PROVE Ends(r[M], W)
  <2>1. CASE N = 0
    <3>1. M = L /\ L # 0 /\ L \in 1..L
      BY <1>1, <1>2, <1>12, <2>1
    <3> QED  BY <1>1, <1>5, <3>1
  <2>2. CASE N # 0
    <3>1. N \in 1..N
      BY <1>1, <2>2
    <3> QED  BY <1>1, <1>7, <1>12, <2>2, <3>1
  <2> QED  BY <2>1, <2>2
<1> QED  BY <1>9, <1>10, <1>11, <1>12 DEF Flow, Whole, M, r

(* What the daemon writes is such a flow.                                  *)
LEMMA FrameFlows ==
  ASSUME NEW W \in Seq(BlePayloads), NEW n \in 1..Len(W), NEW Z, NEW lo \in Nat, lo < n
  PROVE  /\ Frame(n, W[n]) \in Bytes
         /\ Flow(Frame(n, W[n]), W, Z, lo) /\ Whole(Frame(n, W[n]), W)
         /\ Fresh(Frame(n, W[n])[1])
         /\ \A j \in 1..Len(Frame(n, W[n])) : Frame(n, W[n])[j].of = n
<1> DEFINE p == W[n]
           F == Frame(n, p)
           N == Len(F)
<1>1. n \in Nat /\ n # 0 /\ p \in BlePayloads
  OBVIOUS
<1>2. /\ F \in Bytes /\ N = Size(p) /\ N \in Nat /\ N >= 4
      /\ \A j \in 1..N : F[j] = [byte |-> Framed(p)[j], of |-> n, at |-> j]
  <2>1. /\ F \in Bytes /\ N = Size(p)
        /\ \A j \in 1..Size(p) : F[j] = [byte |-> Framed(p)[j], of |-> n, at |-> j]
    BY Zenon, <1>1, FrameType
  <2>2. Size(p) \in Nat /\ Size(p) >= 4
    BY Zenon, <1>1, FramedIs
  <2> HIDE DEF F, N, p
  <2> QED  BY <2>1, <2>2
<1>3. F # <<>> => N # 0
  BY <1>2
<1> HIDE DEF F, N
<1>4. ASSUME NEW j \in 1..N
      PROVE  F[j].of = n /\ F[j].at = j /\ F[j].byte = Framed(p)[j]
  <2> DEFINE x == Framed(p)[j]
  <2>1. F[j] = [byte |-> x, of |-> n, at |-> j]
    BY <1>2
  <2> HIDE DEF x
  <2>2. F[j].of = n /\ F[j].at = j /\ F[j].byte = x
    BY <2>1
  <2> QED  BY <2>2 DEF x
<1>5. \A j \in 1..N : Sent(F[j], W, Z) /\ lo < F[j].of /\ (Ends(F[j], W) <=> j = N)
  BY <1>1, <1>2, <1>4 DEF Sent, Ends
<1>6. ASSUME NEW i \in 1..N, NEW k \in 1..N, k = i + 1
      PROVE  Adjoins(F[i], F[k], W)
  <2>1. i # N
    BY <1>2, <1>6
  <2> QED  BY <1>4, <1>5, <1>6, <2>1 DEF Adjoins
<1>7. ASSUME NEW i \in 1..N, NEW k \in 1..N, i < k PROVE F[k].at # 1
  BY <1>2, <1>4, <1>7
<1>8. 1 \in 1..N /\ N \in 1..N
  BY <1>2
<1>9. Fresh(F[1]) /\ Ends(F[N], W)
  BY <1>4, <1>5, <1>8 DEF Fresh
<1> QED  BY <1>2, <1>4, <1>5, <1>6, <1>7, <1>9 DEF Flow, Whole, F, N

LEMMA StrayFlows ==
  ASSUME NEW b \in BleNoise, NEW W, NEW Z, {b[j] : j \in 1..Len(b)} \subseteq Z, NEW lo
  PROVE  /\ Stray(b) \in Bytes /\ Flow(Stray(b), W, Z, lo) /\ Whole(Stray(b), W)
         /\ \A j \in 1..Len(Stray(b)) : Stray(b)[j].of = 0 /\ Stray(b)[j].at = 0
<1> DEFINE F == Stray(b)
           N == Len(F)
<1>1. /\ F \in Bytes /\ N = Len(b) /\ N \in Nat
      /\ \A j \in 1..N : F[j] = [byte |-> b[j], of |-> 0, at |-> 0]
  BY StrayType
<1>2. F # <<>> => N # 0
  BY <1>1 DEF Bytes
<1>3. \A j \in 1..N : b[j] \in Z
  BY <1>1
<1> HIDE DEF F, N
<1>4. ASSUME NEW j \in 1..N
      PROVE  F[j].of = 0 /\ F[j].at = 0 /\ F[j].byte = b[j]
  <2> DEFINE x == b[j]
  <2>1. F[j] = [byte |-> x, of |-> 0, at |-> 0]
    BY <1>1
  <2> HIDE DEF x
  <2>2. F[j].of = 0 /\ F[j].at = 0 /\ F[j].byte = x
    BY <2>1
  <2> QED  BY <2>2 DEF x
<1>5. \A j \in 1..N : Sent(F[j], W, Z) /\ F[j].at # 1 /\ Ends(F[j], W) /\ Fresh(F[j])
  BY <1>3, <1>4 DEF Sent, Ends, Fresh
<1>6. F # <<>> => N \in 1..N
  BY <1>1, <1>2
<1> QED  BY <1>1, <1>4, <1>5, <1>6 DEF Flow, Whole, Adjoins, F, N

(* Where a frame begins all of it follows, as far as there are bytes, and  *)
(* behind it a frame or a stray byte; the frames further on are newer.     *)
LEMMA FrameFollows ==
  ASSUME NEW s \in Bytes, NEW W \in Seq(BlePayloads), NEW Z, NEW lo \in Nat,
         Flow(s, W, Z, lo), Len(s) >= 1, s[1].of # 0, s[1].at = 1, NEW n, n = s[1].of
  PROVE  /\ n \in 1..Len(W) /\ lo < n
         /\ \A j \in 1..Len(s) : j <= Size(W[n]) => s[j] = Frame(n, W[n])[j]
         /\ \A j \in 1..Len(s) : j = Size(W[n]) + 1 => Fresh(s[j])
         /\ \A j \in 1..Len(s) : j > Size(W[n]) /\ s[j].at = 1 => n < s[j].of
<1> DEFINE L == Len(s)
           p == W[n]
           N == Size(p)
           F == Frame(n, p)
<1>1. L \in Nat /\ 1 \in 1..L /\ \A j \in 1..L : s[j] \in Octets
  BY DEF Bytes
<1>2. /\ \A i \in 1..L : Sent(s[i], W, Z) /\ (s[i].at = 1 => lo < s[i].of)
      /\ \A i, k \in 1..L : k = i + 1 => Adjoins(s[i], s[k], W)
      /\ \A i, k \in 1..L : i < k /\ s[i].of # 0 /\ s[k].at = 1 => s[i].of < s[k].of
  BY DEF Flow
<1>3. n \in 1..Len(W) /\ lo < n
  <2>1. Sent(s[1], W, Z)
    BY <1>1, <1>2
  <2> QED  BY <1>1, <1>2, <2>1 DEF Sent
<1>4. p \in BlePayloads /\ n \in Nat /\ n # 0
  BY <1>3
<1> HIDE DEF p
<1>5. /\ N \in Nat /\ N >= 4
      /\ \A j \in 1..N : F[j] = [byte |-> Framed(p)[j], of |-> n, at |-> j]
  BY <1>4, FramedIs, FrameType
<1> USE DEF p
<1> HIDE DEF L, N, F
<1> DEFINE S == {k \in Nat : k + 1 <= L /\ k + 1 <= N => s[k + 1].of = n /\ s[k + 1].at = k + 1}
<1>6. 0 \in S
  BY <1>1
<1>7. ASSUME NEW k \in Nat, k \in S PROVE k + 1 \in S
  <2> DEFINE i == k + 1
             m == i + 1
  <2>1. SUFFICES ASSUME m <= L, m <= N PROVE s[m].of = n /\ s[m].at = m
    OBVIOUS
  <2>2. i \in 1..L /\ m \in 1..L /\ m = i + 1 /\ i # N /\ i <= N /\ i <= L
    BY <1>1, <1>5, <2>1
  <2>3. s[i].of = n /\ s[i].at = i
    BY <1>7, <2>2
  <2> HIDE DEF i, m
  <2>4. Adjoins(s[i], s[m], W) /\ ~Ends(s[i], W)
    BY <1>2, <1>4, <2>2, <2>3 DEF Ends, N
  <2> QED  BY <2>2, <2>3, <2>4 DEF Adjoins
<1>8. Nat \subseteq S
  <2> HIDE DEF S
  <2> QED  BY <1>6, <1>7, SetInduction
<1>9. ASSUME NEW j \in 1..L, j <= N PROVE s[j].of = n /\ s[j].at = j
  <2>1. j - 1 \in S /\ (j - 1) + 1 = j
    BY <1>8
  <2> QED  BY <1>9, <2>1
<1>10. ASSUME NEW j \in 1..L, j <= N PROVE s[j] = F[j]
  <2>1. s[j].byte = Framed(p)[j]
    BY <1>2, <1>4, <1>9, <1>10 DEF Sent
  <2>2. s[j] = [byte |-> s[j].byte, of |-> s[j].of, at |-> s[j].at]
    BY <1>1 DEF Octets
  <2>3. j \in 1..N
    BY <1>5, <1>10
  <2> QED  BY <1>5, <1>9, <1>10, <2>1, <2>2, <2>3
<1>11. ASSUME NEW j \in 1..L, j = N + 1 PROVE Fresh(s[j])
  <2>1. N \in 1..L /\ N <= N
    BY <1>1, <1>5, <1>11
  <2>2. Ends(s[N], W)
    BY <1>9, <2>1 DEF Ends, N
  <2>3. Adjoins(s[N], s[j], W)
    BY <1>2, <1>11, <2>1
  <2> QED  BY <2>2, <2>3 DEF Adjoins
<1>12. ASSUME NEW j \in 1..L, j > N, s[j].at = 1 PROVE n < s[j].of
  <2>1. 1 < j
    BY <1>5, <1>12
  <2> QED  BY <1>1, <1>2, <1>12, <2>1
<1> QED  BY <1>3, <1>10, <1>11, <1>12 DEF L, N, F
-----------------------------------------------------------------------------
(* The bytes still to be cut into frames.                                  *)
MidFrame == bleWorker \in {"header", "payload", "append"}
Stream == IF MidFrame THEN bleGot \o bleWire ELSE bleWire

(* How far the worker is in a frame. *)
InTurn(w, g) ==
  /\ w \in {"top", "header", "payload", "append", "tell"}
  /\ w = "header" => Len(g) < 4
  /\ w \in {"payload", "append"} =>
       Len(g) >= 4 /\ g[1].byte = Start1 /\ Len(g) <= 4 + Payload(g)
  /\ w = "append" => Len(g) = 4 + Payload(g)
WorkerInTurn == InTurn(bleWorker, bleGot)

(* No frame that is vouched for is newer than lo. *)
Passed(lo) ==
  \A i \in 1..Len(bleAppended) :
    Vouched(i) /\ bleAppended[i] # <<>> => bleAppended[i][1].of <= lo

Numbered ==
  \E lo \in 0..Len(bleWritten) : Flow(Stream, bleWritten, bleStray, lo) /\ Passed(lo)

(* Until it takes a stray byte of a connection the worker is in step.      *)
Orderly ==
  ~bleNoisy /\ (bleSock \/ MidFrame) =>
    /\ Stream # <<>> => Fresh(Stream[1])
    /\ MidFrame => \A i \in 1..Len(bleGot) : bleGot[i].of # 0

FrameInv ==
  /\ WorkerInTurn /\ Numbered /\ Orderly /\ Genuine
  /\ ~bleEof => Whole(Stream, bleWritten)

(* The types, in the form the steps use them. *)
LEMMA BleTypes ==
  ASSUME Types
  PROVE  /\ bleWire \in Bytes /\ bleGot \in Bytes
         /\ bleWritten \in Seq(BlePayloads) /\ Len(bleWritten) \in Nat
         /\ bleAppended \in Seq(Bytes) /\ Len(bleGot) \in Nat /\ Len(bleWire) \in Nat
         /\ bleGot \o bleWire \in Bytes /\ Stream \in Bytes /\ Len(Stream) \in Nat
<1>1. /\ bleWire \in Bytes /\ bleGot \in Bytes /\ bleWritten \in Seq(BlePayloads)
      /\ bleAppended \in Seq(Bytes)
  BY DEF Types
<1>2. bleGot \o bleWire \in Bytes /\ Len(bleGot) \in Nat /\ Len(bleWire) \in Nat
  BY <1>1, JoinedBytes
<1>3. Len(bleWritten) \in Nat
  BY <1>1
<1>4. Stream \in Bytes
  BY <1>1, <1>2 DEF Stream
<1>5. Len(Stream) \in Nat
  BY <1>4 DEF Bytes
<1> QED
  BY <1>1, <1>2, <1>3, <1>4, <1>5

(* What was queued stays genuine when the daemon writes more: no frame is  *)
(* vouched for later that was not before.                                  *)
LEMMA StillGenuine ==
  ASSUME Genuine, NEW lo, Passed(lo), NEW V, NEW Y, bleWritten' = V, bleStray' = Y,
         Len(bleWritten) \in Nat, Len(V) \in Nat, Len(bleWritten) <= Len(V),
         \A n \in 1..Len(bleWritten) : V[n] = bleWritten[n], bleStray \subseteq Y,
         UNCHANGED <<bleAppended, bleDoubted>>
  PROVE  Genuine' /\ Passed(lo)'
<1> DEFINE W == bleWritten
           q == bleAppended
<1>1. \A n \in 1..Len(W) : n \in 1..Len(V) /\ V[n] = W[n]
  OBVIOUS
<1>2. Harmless' => Harmless
  <2>1. SUFFICES ASSUME Harmless' PROVE Harmless
    OBVIOUS
  <2>2. /\ Start1 \notin Y
        /\ \A n \in 1..Len(V) : \A j \in 2..Size(V[n]) : Framed(V[n])[j] # Start1
    BY <2>1 DEF Harmless
  <2>3. Start1 \notin bleStray
    BY <2>2
  <2>4. ASSUME NEW n \in 1..Len(W), NEW j \in 2..Size(W[n]) PROVE Framed(W[n])[j] # Start1
    <3>1. n \in 1..Len(V) /\ V[n] = W[n]
      BY <1>1
    <3> QED  BY <2>2, <3>1
  <2> QED  BY <2>3, <2>4 DEF Harmless
<1>3. q' = q /\ bleDoubted' = bleDoubted
  OBVIOUS
<1>4. \A i : Vouched(i)' => Vouched(i)
  BY <1>2, <1>3 DEF Vouched
<1>5. /\ \A i \in 1..Len(q) : Vouched(i) =>
           \E n \in 1..Len(W) : q[i] = SubSeq(Frame(n, W[n]), 5, Size(W[n]))
      /\ \A i, k \in 1..Len(q) :
           i < k /\ Vouched(i) /\ Vouched(k) /\ q[i] # <<>> /\ q[k] # <<>> =>
             q[i][1].of < q[k][1].of
  BY DEF Genuine
<1>6. ASSUME NEW i \in 1..Len(q), Vouched(i)'
      PROVE  \E n \in 1..Len(V) : q[i] = SubSeq(Frame(n, V[n]), 5, Size(V[n]))
  <2>1. PICK n \in 1..Len(W) : q[i] = SubSeq(Frame(n, W[n]), 5, Size(W[n]))
    BY <1>4, <1>5, <1>6
  <2>2. n \in 1..Len(V) /\ V[n] = W[n]
    BY <1>1
  <2> QED  BY <2>1, <2>2
<1>7. ASSUME NEW i \in 1..Len(q), NEW k \in 1..Len(q), i < k, Vouched(i)', Vouched(k)',
             q[i] # <<>>, q[k] # <<>>
      PROVE  q[i][1].of < q[k][1].of
  BY <1>4, <1>5, <1>7
<1>8. ASSUME NEW i \in 1..Len(q), Vouched(i)', q[i] # <<>>
      PROVE  q[i][1].of <= lo
  BY <1>4, <1>8 DEF Passed
<1> HIDE DEF q
<1>9. Genuine'
  <2>1. bleAppended' = q
    BY <1>3 DEF q
  <2> QED  BY <1>6, <1>7, <2>1 DEF Genuine
<1>10. Passed(lo)'
  BY <1>3, <1>8 DEF Passed, q
<1> QED  BY <1>9, <1>10

(* A step that leaves the stream as it was, and one that drops its front.  *)
LEMMA StreamDrops ==
  ASSUME Types, FrameInv,
         UNCHANGED <<bleAppended, bleDoubted, bleWritten, bleStray, bleEof>>,
         NEW k \in 0..Len(Stream), Stream' = SubSeq(Stream, k + 1, Len(Stream)),
         WorkerInTurn', Orderly'
  PROVE  FrameInv'
<1> DEFINE s == Stream
           W == bleWritten
           Z == bleStray
           t == SubSeq(s, k + 1, Len(s))
<1>1. s \in Bytes /\ Len(s) \in Nat /\ k \in 0..Len(s) /\ Len(W) \in Nat /\ k \in Nat
  BY BleTypes
<1>2. PICK lo \in 0..Len(W) : Flow(s, W, Z, lo) /\ Passed(lo)
  BY DEF FrameInv, Numbered
<1> HIDE DEF s
<1>3. t \in Bytes /\ Len(t) = Len(s) - k /\ \A i \in 1..(Len(s) - k) : t[i] = s[k + i]
  BY <1>1, BytesCut
<1> HIDE DEF t
<1>4. /\ lo \in Nat /\ k + Len(t) = Len(s) /\ k + Len(t) <= Len(s)
      /\ \A i \in 1..Len(t) : t[i] = s[k + i]
  BY <1>1, <1>2, <1>3
<1>5. ASSUME NEW i \in 1..Len(t), t[i].at = 1 PROVE lo < t[i].of
  <2>1. k + i \in 1..Len(s) /\ t[i] = s[k + i]
    BY <1>1, <1>3, <1>4
  <2>2. s[k + i].at = 1 => lo < s[k + i].of
    BY <1>2, <2>1 DEF Flow
  <2> QED  BY <1>5, <2>1, <2>2
<1>6. Flow(t, W, Z, lo) /\ (Whole(s, W) => Whole(t, W))
  BY <1>1, <1>2, <1>3, <1>4, <1>5, FlowPart
<1>7. Genuine' /\ Passed(lo)'
  <2> DEFINE V == bleWritten
             Y == bleStray
  <2>1. /\ bleWritten' = V /\ bleStray' = Y /\ Len(V) \in Nat /\ bleStray \subseteq Y
        /\ Len(bleWritten) <= Len(V) /\ \A n \in 1..Len(bleWritten) : V[n] = bleWritten[n]
        /\ UNCHANGED <<bleAppended, bleDoubted>> /\ Genuine
    BY <1>1 DEF FrameInv
  <2> QED  BY <1>1, <1>2, <2>1, StillGenuine
<1>8. Stream' = t /\ bleWritten' = W /\ bleStray' = Z
  BY DEF t, s
<1>9. Numbered'
  <2>1. \E l \in 0..Len(W) : Flow(t, W, Z, l) /\ Passed(l)'
    BY <1>2, <1>6, <1>7
  <2>2. Numbered' = \E l \in 0..Len(bleWritten') :
                      Flow(Stream', bleWritten', bleStray', l) /\ Passed(l)'
    BY DEF Numbered
  <2> QED  BY <1>8, <2>1, <2>2
<1>10. ~bleEof' => Whole(Stream, bleWritten)'
  <2>1. ~bleEof' => Whole(t, W)
    BY <1>6 DEF FrameInv, s
  <2>2. Whole(Stream, bleWritten)' = Whole(Stream', bleWritten')
    OBVIOUS
  <2> QED  BY <1>8, <2>1, <2>2
<1> QED
  BY <1>7, <1>9, <1>10 DEF FrameInv

LEMMA SameStream ==
  ASSUME Types, FrameInv,
         UNCHANGED <<bleAppended, bleDoubted, bleWritten, bleStray, bleEof>>,
         Stream' = Stream, WorkerInTurn', Orderly'
  PROVE  FrameInv'
<1> DEFINE s == Stream
           k == 0
<1>1. s \in Bytes /\ Len(s) \in Nat
  BY BleTypes
<1> HIDE DEF s
<1>2. k \in 0..Len(s) /\ SubSeq(s, k + 1, Len(s)) = s
  BY <1>1 DEF Bytes
<1> HIDE DEF k
<1>3. k \in 0..Len(Stream) /\ Stream' = SubSeq(Stream, k + 1, Len(Stream))
  BY <1>2 DEF s
<1> QED
  BY <1>3, StreamDrops

(* The daemon goes on with a frame or with stray bytes. *)
LEMMA WriteKeeps ==
  ASSUME Types, FrameInv, ~bleEof, NEW t \in Bytes, NEW V, NEW Y,
         bleWire' = bleWire \o t, bleWritten' = V, bleStray' = Y,
         UNCHANGED <<bleEof, bleSock, bleWorker, bleGot, bleNoisy, bleAppended, bleDoubted>>,
         Len(V) \in Nat, Len(bleWritten) <= Len(V),
         \A n \in 1..Len(bleWritten) : V[n] = bleWritten[n], bleStray \subseteq Y,
         \A lo \in 0..Len(bleWritten) : Flow(t, V, Y, lo), Whole(t, V),
         t # <<>> => Fresh(t[1]),
         \A k \in 1..Len(t) : t[k].at = 1 => Len(bleWritten) < t[k].of
  PROVE  FrameInv'
<1> DEFINE s == Stream
           W == bleWritten
           Z == bleStray
           r == s \o t
<1>1. s \in Bytes /\ Len(s) \in Nat /\ Len(W) \in Nat /\ bleGot \in Bytes /\ bleWire \in Bytes
  BY BleTypes
<1>2. PICK lo \in 0..Len(W) : Flow(s, W, Z, lo) /\ Passed(lo)
  BY DEF FrameInv, Numbered
<1>3. Whole(s, W)
  BY DEF FrameInv
<1>4. Stream' = r
  <2>1. ASSUME NEW a \in Bytes, NEW b \in Bytes, NEW c \in Bytes
        PROVE  (a \o b) \o c = a \o (b \o c)
    BY ConcatAssociative, SMTT(30), ZenonT(30) DEF Bytes
  <2>2. (bleGot \o bleWire) \o t = bleGot \o (bleWire \o t)
    BY <1>1, <2>1, Zenon
  <2> QED  BY <2>2 DEF Stream, MidFrame
<1> HIDE DEF s
<1>5. Flow(s, V, Y, lo) /\ Whole(s, V)
  BY <1>1, <1>2, <1>3, FlowStays
<1>6. \A i \in 1..Len(s), k \in 1..Len(t) :
        s[i].of # 0 /\ t[k].at = 1 => s[i].of < t[k].of
  <2> SUFFICES ASSUME NEW i \in 1..Len(s), NEW k \in 1..Len(t), s[i].of # 0, t[k].at = 1
               PROVE  s[i].of < t[k].of
    OBVIOUS
  <2>1. s[i].of \in 1..Len(W)
    BY <1>2 DEF Flow, Sent
  <2>2. t[k] \in Octets
    BY DEF Bytes
  <2>3. t[k].of \in Nat /\ Len(W) < t[k].of
    BY <2>2 DEF Octets
  <2> QED  BY <1>1, <2>1, <2>3
<1>7. Flow(t, V, Y, lo)
  BY <1>2
<1>8. Flow(r, V, Y, lo) /\ Whole(r, V)
  BY <1>1, <1>5, <1>6, <1>7, FlowJoins
<1>9. Genuine' /\ Passed(lo)'
  <2>1. Genuine
    BY DEF FrameInv
  <2> QED  BY <1>1, <1>2, <2>1, StillGenuine
<1>10. Numbered'
  <2>1. lo \in 0..Len(V)
    BY <1>1, <1>2
  <2>2. Flow(Stream', bleWritten', bleStray', lo) /\ Passed(lo)'
    BY <1>4, <1>8, <1>9
  <2> QED  BY <2>1, <2>2 DEF Numbered
<1>11. Whole(Stream, bleWritten)'
  BY <1>4, <1>8
<1>12. WorkerInTurn'
  BY DEF FrameInv, WorkerInTurn
<1>13. Orderly'
  <2>1. SUFFICES ASSUME ~bleNoisy, bleSock \/ MidFrame
                 PROVE  /\ r # <<>> => Fresh(r[1])
                        /\ MidFrame => \A i \in 1..Len(bleGot) : bleGot[i].of # 0
    BY <1>4 DEF Orderly, MidFrame, Fresh
  <2>2. /\ s # <<>> => Fresh(s[1])
        /\ MidFrame => \A i \in 1..Len(bleGot) : bleGot[i].of # 0
    BY <2>1 DEF FrameInv, Orderly, s
  <2>3. CASE s = <<>>
    <3>1. r = t
      BY <2>3 DEF Bytes
    <3> QED  BY <2>2, <3>1
  <2>4. CASE s # <<>>
    <3>1. 1 \in 1..Len(s)
      BY <1>1, <2>4 DEF Bytes
    <3>2. r[1] = s[1]
      BY <1>1, <3>1, JoinedBytes
    <3> QED  BY <2>2, <2>4, <3>2
  <2> QED  BY <2>3, <2>4
<1> QED
  BY <1>9, <1>10, <1>11, <1>12, <1>13 DEF FrameInv

LEMMA DaemonWritesFrame ==
  ASSUME Types, FrameInv, DaemonWrites
  PROVE  FrameInv'
<1> DEFINE n == Len(bleWritten) + 1
<1>1. PICK p \in BlePayloads :
        bleWritten' = Append(bleWritten, p) /\ bleWire' = bleWire \o Frame(n, p)
  BY DEF DaemonWrites
<1> DEFINE V == Append(bleWritten, p)
           t == Frame(n, p)
<1>2. /\ ~bleEof
      /\ UNCHANGED <<bleEof, bleSock, bleWorker, bleGot, bleNoisy, bleAppended, bleDoubted,
                     bleStray>>
  BY DEF DaemonWrites, workerVars, queueVars
<1>3. bleWritten \in Seq(BlePayloads) /\ Len(bleWritten) \in Nat
  BY BleTypes
<1>4. /\ V \in Seq(BlePayloads) /\ Len(V) = n /\ V[n] = p
      /\ \A i \in 1..Len(bleWritten) : V[i] = bleWritten[i]
  BY <1>3, AppendProperties
<1>5. n \in Nat /\ n \in 1..n /\ n # 0 /\ Len(bleWritten) <= n /\ Len(bleWritten) < n
      /\ \A lo \in 0..Len(bleWritten) : lo \in Nat /\ lo < n
  BY <1>3
<1> HIDE DEF n, V
<1>6. \A lo \in 0..Len(bleWritten) :
        /\ t \in Bytes /\ Flow(t, V, bleStray, lo) /\ Whole(t, V) /\ Fresh(t[1])
        /\ \A j \in 1..Len(t) : t[j].of = n
  <2> SUFFICES ASSUME NEW lo \in 0..Len(bleWritten)
               PROVE  /\ t \in Bytes /\ Flow(t, V, bleStray, lo) /\ Whole(t, V)
                      /\ Fresh(t[1]) /\ \A j \in 1..Len(t) : t[j].of = n
    OBVIOUS
  <2> DEFINE F == Frame(n, V[n])
  <2>1. lo \in Nat /\ lo < n /\ n \in 1..Len(V)
    BY <1>4, <1>5
  <2>2. /\ F \in Bytes /\ Flow(F, V, bleStray, lo) /\ Whole(F, V) /\ Fresh(F[1])
        /\ \A j \in 1..Len(F) : F[j].of = n
    BY <1>4, <2>1, FrameFlows
  <2>3. F = t
    BY <1>4
  <2> QED  BY <2>2, <2>3
<1>7. 0 \in 0..Len(bleWritten)
  BY <1>3
<1> HIDE DEF t
<1>8. /\ t \in Bytes /\ Whole(t, V) /\ (t # <<>> => Fresh(t[1]))
      /\ \A lo \in 0..Len(bleWritten) : Flow(t, V, bleStray, lo)
      /\ \A k \in 1..Len(t) : t[k].at = 1 => Len(bleWritten) < t[k].of
  BY <1>5, <1>6, <1>7
<1>9. bleWire' = bleWire \o t /\ bleWritten' = V /\ bleStray' = bleStray
  BY <1>1, <1>2 DEF t, V
<1>10. Len(V) \in Nat /\ Len(bleWritten) <= Len(V)
  BY <1>4, <1>5
<1> QED
  BY <1>2, <1>4, <1>8, <1>9, <1>10, WriteKeeps

LEMMA NoiseKeepsFrames ==
  ASSUME Types, FrameInv, DaemonNoise
  PROVE  FrameInv'
<1>1. PICK b \in BleNoise :
        /\ bleWire' = bleWire \o Stray(b)
        /\ bleStray' = bleStray \cup {b[j] : j \in 1..Len(b)}
  BY DEF DaemonNoise
<1> DEFINE t == Stray(b)
           V == bleWritten
           Y == bleStray \cup {b[j] : j \in 1..Len(b)}
<1>2. /\ ~bleEof
      /\ UNCHANGED <<bleEof, bleSock, bleWorker, bleGot, bleNoisy, bleAppended, bleDoubted,
                     bleWritten>>
  BY DEF DaemonNoise, workerVars, queueVars
<1>3. Len(V) \in Nat
  BY BleTypes
<1>4. {b[j] : j \in 1..Len(b)} \subseteq Y /\ bleStray \subseteq Y
  OBVIOUS
<1> HIDE DEF Y
<1>5. /\ t \in Bytes /\ \A lo : Flow(t, V, Y, lo)
      /\ Whole(t, V) /\ \A j \in 1..Len(t) : t[j].of = 0 /\ t[j].at = 0
  BY <1>4, StrayFlows
<1> HIDE DEF t
<1>6. t # <<>> => Fresh(t[1])
  <2>1. t # <<>> => 1 \in 1..Len(t)
    BY <1>5 DEF Bytes
  <2> QED  BY <1>5, <2>1 DEF Fresh
<1>7. \A k \in 1..Len(t) : t[k].at = 1 => Len(bleWritten) < t[k].of
  BY <1>5
<1>8. bleWire' = bleWire \o t /\ bleWritten' = V /\ bleStray' = Y
  BY <1>1, <1>2 DEF t, Y
<1>9. Len(bleWritten) <= Len(V) /\ \A n \in 1..Len(bleWritten) : V[n] = bleWritten[n]
  BY <1>3
<1> QED
  BY <1>2, <1>3, <1>4, <1>5, <1>6, <1>7, <1>8, <1>9, WriteKeeps

(* It closes in the middle of a frame. *)
LEMMA CloseKeepsFrames ==
  ASSUME Types, FrameInv, DaemonCloses
  PROVE  FrameInv'
<1> DEFINE s == Stream
           W == bleWritten
           Z == bleStray
<1>1. PICK k \in 0..Len(bleWire) : bleWire' = SubSeq(bleWire, 1, k)
  BY DEF DaemonCloses
<1>2. /\ bleEof'
      /\ UNCHANGED <<bleWritten, bleStray, bleSock, bleWorker, bleGot, bleNoisy,
                     bleAppended, bleDoubted>>
  BY DEF DaemonCloses, workerVars, queueVars
<1>3. /\ bleWire \in Bytes /\ bleGot \in Bytes /\ s \in Bytes /\ Len(W) \in Nat
      /\ Len(s) \in Nat
  BY BleTypes
<1>4. PICK lo \in 0..Len(W) : Flow(s, W, Z, lo) /\ Passed(lo)
  BY DEF FrameInv, Numbered
<1> DEFINE x == SubSeq(bleWire, 1, k)
<1>5. x \in Bytes /\ Len(x) = k /\ \A i \in 1..k : x[i] = bleWire[i]
  BY <1>3, BytesCut
<1> DEFINE t == IF MidFrame THEN bleGot \o x ELSE x
<1>6. Stream' = t
  BY <1>1, <1>2 DEF Stream, MidFrame
<1> HIDE DEF x
<1>7. t \in Bytes /\ Len(t) <= Len(s) /\ \A i \in 1..Len(t) : t[i] = s[i]
  <2>1. CASE MidFrame
    <3>1. s = bleGot \o bleWire /\ t = bleGot \o x
      BY <2>1 DEF Stream
    <3> HIDE DEF s, t
    <3>2. /\ t \in Bytes /\ Len(t) = Len(bleGot) + k
          /\ \A i \in 1..Len(bleGot) : t[i] = bleGot[i]
          /\ \A i \in 1..k : t[Len(bleGot) + i] = x[i]
      <4>1. bleGot \in Bytes /\ x \in Bytes /\ Len(x) = k
        BY <1>3, <1>5
      <4> QED
        BY <3>1, <4>1, JoinedBytes
    <3>3. /\ Len(s) = Len(bleGot) + Len(bleWire) /\ Len(bleGot) \in Nat /\ Len(bleWire) \in Nat
          /\ \A i \in 1..Len(bleGot) : s[i] = bleGot[i]
          /\ \A i \in 1..Len(bleWire) : s[Len(bleGot) + i] = bleWire[i]
      BY <1>3, <3>1, JoinedBytes
    <3>4. ASSUME NEW i \in 1..Len(t) PROVE t[i] = s[i]
      <4>1. CASE i <= Len(bleGot)
        <5>1. i \in 1..Len(bleGot)
          BY <3>3, <4>1
        <5> QED
          BY <3>2, <3>3, <5>1
      <4>2. CASE i > Len(bleGot)
        <5> DEFINE j == i - Len(bleGot)
        <5>1. j \in 1..k /\ j \in 1..Len(bleWire) /\ Len(bleGot) + j = i
          BY <3>2, <3>3, <4>2
        <5> HIDE DEF j
        <5>2. t[Len(bleGot) + j] = x[j] /\ s[Len(bleGot) + j] = bleWire[j]
          BY <3>2, <3>3, <5>1
        <5> QED
          BY <1>5, <5>1, <5>2
      <4> QED
        BY <3>2, <3>3, <4>1, <4>2
    <3> QED
      BY <3>2, <3>3, <3>4
  <2>2. CASE ~MidFrame
    <3>1. s = bleWire /\ t = x
      BY <2>2 DEF Stream
    <3>2. Len(bleWire) \in Nat
      BY <1>3 DEF Bytes
    <3> HIDE DEF s, t
    <3> QED
      BY <1>5, <3>1, <3>2
  <2> QED
    BY <2>1, <2>2
<1> HIDE DEF s, t
<1>8. Flow(t, W, Z, lo)
  <2> DEFINE d == 0
  <2>1. Len(t) \in Nat
    BY <1>7 DEF Bytes
  <2>2. /\ d \in Nat /\ d + Len(t) <= Len(s) /\ lo \in Nat
        /\ \A i \in 1..Len(t) : t[i] = s[d + i] /\ i \in 1..Len(s)
    BY <1>3, <1>4, <1>7, <2>1
  <2>3. \A i \in 1..Len(t) : t[i].at = 1 => lo < t[i].of
    BY <1>4, <1>7, <2>2 DEF Flow
  <2> HIDE DEF d
  <2> QED
    BY <1>3, <1>4, <1>7, <2>2, <2>3, FlowPart
<1>9. Genuine' /\ Passed(lo)'
  <2> DEFINE V == bleWritten
             Y == bleStray
  <2>1. /\ bleWritten' = V /\ bleStray' = Y /\ Len(V) \in Nat /\ bleStray \subseteq Y
        /\ Len(bleWritten) <= Len(V) /\ \A n \in 1..Len(bleWritten) : V[n] = bleWritten[n]
        /\ UNCHANGED <<bleAppended, bleDoubted>> /\ Genuine
    BY <1>2, <1>3 DEF FrameInv
  <2> QED  BY <1>3, <1>4, <2>1, StillGenuine
<1>10. Numbered'
  <2>1. Flow(Stream', bleWritten', bleStray', lo) /\ Passed(lo)' /\ lo \in 0..Len(bleWritten')
    BY <1>2, <1>4, <1>6, <1>8, <1>9
  <2> QED  BY <2>1 DEF Numbered
<1>11. WorkerInTurn'
  BY <1>2 DEF FrameInv, WorkerInTurn
<1>12. Orderly'
  <2>1. SUFFICES ASSUME ~bleNoisy, bleSock \/ MidFrame
                 PROVE  /\ t # <<>> => Fresh(t[1])
                        /\ MidFrame => \A i \in 1..Len(bleGot) : bleGot[i].of # 0
    BY <1>2, <1>6 DEF Orderly, MidFrame, Fresh
  <2>2. /\ s # <<>> => Fresh(s[1])
        /\ MidFrame => \A i \in 1..Len(bleGot) : bleGot[i].of # 0
    BY <2>1 DEF FrameInv, Orderly, s
  <2>3. ASSUME t # <<>> PROVE s # <<>> /\ t[1] = s[1]
    <3>1. 1 \in 1..Len(t) /\ Len(t) \in Nat
      BY <1>7, <2>3 DEF Bytes
    <3>2. Len(s) # 0
      BY <1>3, <1>7, <3>1
    <3> QED  BY <1>7, <3>1, <3>2
  <2> QED  BY <2>2, <2>3
<1> QED
  BY <1>2, <1>9, <1>10, <1>11, <1>12 DEF FrameInv

LEMMA ConnectKeepsFrames ==
  ASSUME Types, FrameInv, Connect
  PROVE  FrameInv'
<1>1. /\ bleWorker = "top" /\ bleWire' = <<>>
      /\ UNCHANGED <<bleWorker, bleGot, bleWritten, bleStray, bleAppended, bleDoubted>>
  BY DEF Connect, queueVars
<1>2. Stream' = <<>> /\ ~MidFrame'
  BY <1>1 DEF Stream, MidFrame
<1>3. PICK lo \in 0..Len(bleWritten) : Passed(lo)
  BY DEF FrameInv, Numbered
<1>4. Genuine' /\ Passed(lo)'
  <2> DEFINE V == bleWritten
             Y == bleStray
  <2>1. /\ bleWritten' = V /\ bleStray' = Y /\ Len(V) \in Nat /\ bleStray \subseteq Y
        /\ Len(bleWritten) <= Len(V) /\ \A n \in 1..Len(bleWritten) : V[n] = bleWritten[n]
        /\ UNCHANGED <<bleAppended, bleDoubted>> /\ Genuine
    BY <1>1, BleTypes DEF FrameInv
  <2> QED  BY <1>3, <2>1, StillGenuine
<1>5. Flow(<<>>, bleWritten, bleStray, lo) /\ Whole(<<>>, bleWritten)
  BY DEF Flow, Whole
<1>6. Numbered'
  <2>1. Flow(Stream', bleWritten', bleStray', lo) /\ lo \in 0..Len(bleWritten')
    BY <1>1, <1>2, <1>3, <1>5
  <2> QED  BY <1>4, <2>1 DEF Numbered
<1>7. Whole(Stream, bleWritten)'
  BY <1>1, <1>2, <1>5
<1>8. Orderly' /\ WorkerInTurn'
  BY <1>1, <1>2 DEF Orderly, FrameInv, WorkerInTurn
<1> QED
  BY <1>4, <1>6, <1>7, <1>8 DEF FrameInv

LEMMA NextFrameKeepsFrames ==
  ASSUME Types, FrameInv, NextFrame
  PROVE  FrameInv'
<1>1. /\ bleWorker = "top" /\ bleSock /\ bleWorker' = "header" /\ bleGot' = <<>>
      /\ UNCHANGED <<bleNoisy, bleWire, bleEof, bleWritten, bleStray, bleAppended, bleDoubted>>
  BY DEF NextFrame, queueVars, wireVars
<1>2. Stream' = Stream
  <2>1. <<>> \o bleWire = bleWire
    BY BleTypes DEF Bytes
  <2> QED
    BY <1>1, <2>1 DEF Stream, MidFrame
<1>3. WorkerInTurn'
  <2>1. InTurn("header", <<>>)
    BY DEF InTurn
  <2> QED
    BY <1>1, <2>1 DEF WorkerInTurn
<1>4. Orderly'
  BY <1>1, <1>2 DEF FrameInv, Orderly, Fresh
<1> QED
  BY <1>1, <1>2, <1>3, <1>4, SameStream

(* What a recv of at most want bytes does to buffer and wire.              *)
LEMMA Received ==
  ASSUME Types, NEW want \in Int, Recv(want)
  PROVE  \E g \in Bytes : \E w \in Bytes :
           /\ bleGot' = g /\ bleWire' = w /\ g \o w = bleGot \o bleWire
           /\ Len(g) \in Nat /\ Len(bleGot) < Len(g) /\ Len(g) <= Len(bleGot) + want
           /\ \A i \in 1..Len(bleGot) : g[i] = bleGot[i]
           /\ ~bleNoisy' => /\ ~bleNoisy
                            /\ (\A i \in 1..Len(bleGot) : bleGot[i].of # 0) =>
                                 \A i \in 1..Len(g) : g[i].of # 0
           /\ bleSock
           /\ UNCHANGED <<bleAppended, bleDoubted, bleWritten, bleStray, bleEof>>
<1>1. PICK k \in 1..want :
        /\ k <= Len(bleWire)
        /\ bleGot' = bleGot \o SubSeq(bleWire, 1, k)
        /\ bleWire' = SubSeq(bleWire, k + 1, Len(bleWire))
        /\ bleNoisy' = (bleNoisy \/ \E i \in 1..k : bleWire[i].of = 0)
  BY DEF Recv
<1>2. bleGot \in Bytes /\ bleWire \in Bytes /\ Len(bleGot) \in Nat /\ Len(bleWire) \in Nat
  BY BleTypes
<1>3. k \in 0..Len(bleWire) /\ k \in Nat
  BY <1>1, <1>2
<1> DEFINE x == SubSeq(bleWire, 1, k)
           w == SubSeq(bleWire, k + 1, Len(bleWire))
           g == bleGot \o x
<1>4. x \in Bytes /\ Len(x) = k /\ w \in Bytes /\ g \in Bytes /\ g \o w = bleGot \o bleWire
  BY <1>2, <1>3, BytesMove
<1>5. UNCHANGED <<bleAppended, bleDoubted, bleWritten, bleStray, bleEof>> /\ bleSock
  BY DEF Recv, queueVars
<1>6. bleGot' = g /\ bleWire' = w
  BY <1>1
<1>a. \A i \in 1..k : x[i] = bleWire[i]
  BY <1>2, <1>3, BytesCut
<1> HIDE DEF x, w
<1>7. /\ Len(g) = Len(bleGot) + k /\ \A i \in 1..Len(bleGot) : g[i] = bleGot[i]
      /\ \A i \in 1..k : g[Len(bleGot) + i] = x[i]
  <2>1. bleGot \in Bytes /\ x \in Bytes
    BY <1>2, <1>4
  <2> QED
    BY <1>4, <2>1, JoinedBytes
<1> HIDE DEF g
<1>8. Len(g) \in Nat /\ Len(bleGot) < Len(g) /\ Len(g) <= Len(bleGot) + want
  BY <1>1, <1>2, <1>7
<1>9. ASSUME ~bleNoisy' PROVE ~bleNoisy /\ \A i \in 1..k : x[i].of # 0
  BY <1>1, <1>9, <1>a
<1>10. ASSUME ~bleNoisy', \A i \in 1..Len(bleGot) : bleGot[i].of # 0, NEW i \in 1..Len(g)
       PROVE  g[i].of # 0
  <2>1. CASE i <= Len(bleGot)
    <3>1. i \in 1..Len(bleGot)
      BY <1>2, <2>1
    <3> QED  BY <1>7, <1>10, <3>1
  <2>2. CASE i > Len(bleGot)
    <3> DEFINE j == i - Len(bleGot)
    <3>1. j \in 1..k /\ Len(bleGot) + j = i
      BY <1>2, <1>3, <1>7, <2>2
    <3> HIDE DEF j
    <3>2. g[Len(bleGot) + j] = x[j]
      BY <1>7, <3>1
    <3> QED  BY <1>9, <1>10, <3>1, <3>2
  <2> QED  BY <1>2, <2>1, <2>2
<1> QED
  BY <1>4, <1>5, <1>6, <1>7, <1>8, <1>9, <1>10

(* The worker gives up what it has: the stream goes on behind it.          *)
LEMMA WorkerDrops ==
  ASSUME Types, FrameInv,
         UNCHANGED <<bleAppended, bleDoubted, bleWritten, bleStray, bleEof>>,
         NEW g \in Bytes, NEW w \in Bytes, Stream = g \o w,
         bleWire' = w, bleWorker' = "top", bleNoisy' \/ ~bleSock'
  PROVE  FrameInv'
<1>1. Len(g) \in 0..Len(Stream) /\ SubSeq(Stream, Len(g) + 1, Len(Stream)) = w
  BY FrontDropped
<1>2. Stream' = w /\ ~MidFrame'
  BY DEF Stream, MidFrame
<1>3. WorkerInTurn' /\ Orderly'
  BY <1>2 DEF WorkerInTurn, InTurn, Orderly
<1> DEFINE k == Len(g)
<1>4. k \in 0..Len(Stream) /\ Stream' = SubSeq(Stream, k + 1, Len(Stream))
  BY <1>1, <1>2
<1> HIDE DEF k
<1> QED
  BY <1>3, <1>4, StreamDrops

(* A buffer that ends no frame keeps the worker in step. *)
LEMMA StillOrderly ==
  ASSUME Types, FrameInv, MidFrame, MidFrame', NEW g, bleGot' = g, Stream' = Stream,
         ~bleNoisy' => /\ ~bleNoisy
                       /\ (\A i \in 1..Len(bleGot) : bleGot[i].of # 0) =>
                            \A i \in 1..Len(g) : g[i].of # 0
  PROVE  Orderly'
<1>1. SUFFICES ASSUME ~bleNoisy'
               PROVE  /\ Stream # <<>> => Fresh(Stream[1])
                      /\ \A i \in 1..Len(g) : g[i].of # 0
  BY DEF Orderly, Fresh
<1> QED
  BY <1>1 DEF FrameInv, Orderly

(* The buffer g begins with frame n of W, newer than lo, and the wire w    *)
(* goes on with it, or behind it with newer ones.                          *)
Leads(g, w, n, W, lo) ==
  /\ n \in 1..Len(W) /\ lo < n
  /\ \A j \in 1..Len(g) : j <= Size(W[n]) => g[j] = Frame(n, W[n])[j]
  /\ Len(g) = Size(W[n]) /\ w # <<>> => Fresh(w[1])
  /\ Len(g) >= Size(W[n]) => \A j \in 1..Len(w) : w[j].at = 1 => n < w[j].of

LEMMA AnOctet ==
  ASSUME NEW s \in Bytes
  PROVE  Len(s) \in Nat /\ \A j \in 1..Len(s) : s[j] \in Octets
BY DEF Bytes

(* In step, or among bytes that do no harm, a sync byte in front of the    *)
(* buffer begins a frame.                                                  *)
LEMMA FrameAhead ==
  ASSUME Types, FrameInv, MidFrame, NEW g \in Bytes, NEW w \in Bytes, Stream = g \o w,
         Len(g) >= 1,
         \/ Fresh(g[1]) /\ g[1].of # 0
         \/ Harmless /\ g[1].byte = Start1,
         NEW lo \in 0..Len(bleWritten), Flow(Stream, bleWritten, bleStray, lo),
         NEW n, n = g[1].of
  PROVE  Leads(g, w, n, bleWritten, lo)
<1> DEFINE s == g \o w
           W == bleWritten
           Z == bleStray
           N == Size(W[n])
           L == Len(g)
           M == Len(w)
<1>1. /\ s \in Bytes /\ Len(s) = L + M /\ L \in Nat /\ M \in Nat
      /\ \A j \in 1..L : s[j] = g[j]
      /\ \A j \in 1..M : s[L + j] = w[j]
  BY JoinedBytes
<1>2. W \in Seq(BlePayloads) /\ lo \in Nat /\ Flow(s, W, Z, lo)
  BY BleTypes
<1>3. w # <<>> => 1 \in 1..M
  BY DEF Bytes
<1> HIDE DEF s, L, M
<1>4. L >= 1 /\ 1 \in 1..L /\ 1 \in 1..Len(s) /\ s[1] = g[1] /\ Len(s) >= 1
  <2>1. L >= 1
    BY DEF L
  <2>2. 1 \in 1..L /\ 1 \in 1..Len(s) /\ Len(s) >= 1
    BY <1>1, <2>1
  <2> QED  BY <1>1, <2>1, <2>2
<1>5. Sent(s[1], W, Z)
  BY <1>2, <1>4 DEF Flow
<1>6. s[1].of # 0 /\ s[1].at = 1 /\ n = s[1].of
  <2>1. CASE Fresh(g[1]) /\ g[1].of # 0
    BY <1>4, <2>1 DEF Fresh
  <2>2. CASE Harmless /\ g[1].byte = Start1
    <3>1. /\ Start1 \notin Z
          /\ \A m \in 1..Len(W) : \A j \in 2..Size(W[m]) : Framed(W[m])[j] # Start1
      BY <2>2 DEF Harmless
    <3>2. s[1].of # 0
      BY <1>4, <1>5, <2>2, <3>1 DEF Sent
    <3>3. /\ n \in 1..Len(W) /\ s[1].at \in 1..Size(W[n])
          /\ Framed(W[n])[s[1].at] = Start1
      BY <1>4, <1>5, <2>2, <3>2 DEF Sent
    <3>4. s[1].at \notin 2..Size(W[n])
      BY <3>1, <3>3
    <3>5. Size(W[n]) \in Nat
      <4>1. W[n] \in BlePayloads
        BY <1>2, <3>3
      <4> QED  BY <4>1, FramedIs
    <3>6. s[1].at = 1
      BY <3>3, <3>4, <3>5
    <3> QED  BY <1>4, <3>2, <3>6
  <2> QED  BY <2>1, <2>2
<1> HIDE DEF N
<1>7. /\ n \in 1..Len(W) /\ lo < n
      /\ \A j \in 1..Len(s) : j <= N => s[j] = Frame(n, W[n])[j]
      /\ \A j \in 1..Len(s) : j = N + 1 => Fresh(s[j])
      /\ \A j \in 1..Len(s) : j > N /\ s[j].at = 1 => n < s[j].of
  <2>1. /\ n \in 1..Len(W) /\ lo < n
        /\ \A j \in 1..Len(s) : j <= Size(W[n]) => s[j] = Frame(n, W[n])[j]
        /\ \A j \in 1..Len(s) : j = Size(W[n]) + 1 => Fresh(s[j])
        /\ \A j \in 1..Len(s) : j > Size(W[n]) /\ s[j].at = 1 => n < s[j].of
    <3> HIDE DEF W, Z
    <3> QED  BY <1>1, <1>2, <1>4, <1>6, FrameFollows
  <2> QED  BY <2>1 DEF N
<1>8. \A j \in 1..L : j \in 1..Len(s)
  BY <1>1
<1>9. \A j \in 1..L : j <= N => g[j] = Frame(n, W[n])[j]
  BY <1>1, <1>7, <1>8
<1>10. N \in Nat
  <2>1. W[n] \in BlePayloads
    BY <1>2, <1>7
  <2> QED  BY <2>1, FramedIs DEF N
<1>11. ASSUME L = N, w # <<>> PROVE Fresh(w[1])
  <2>1. 1 \in 1..M /\ L + 1 \in 1..Len(s) /\ L + 1 = N + 1
    BY <1>1, <1>3, <1>11
  <2>2. s[L + 1] = w[1]
    BY <1>1, <2>1
  <2> QED  BY <1>7, <2>1, <2>2
<1>12. ASSUME L >= N, NEW j \in 1..M, w[j].at = 1 PROVE n < w[j].of
  <2>1. L + j \in 1..Len(s) /\ L + j > N
    BY <1>1, <1>10, <1>12
  <2>2. s[L + j] = w[j]
    BY <1>1
  <2> QED  BY <1>7, <1>12, <2>1, <2>2
<1> QED  BY <1>7, <1>9, <1>11, <1>12 DEF Leads, L, M, N

LEMMA HeaderKeepsFrames ==
  ASSUME Types, FrameInv, RecvHeader
  PROVE  FrameInv'
<1>1. bleWorker = "header" /\ MidFrame /\ Len(bleGot) < 4 /\ Len(bleGot) \in Nat
  BY BleTypes DEF RecvHeader, FrameInv, WorkerInTurn, InTurn, MidFrame
<1>2. PICK g \in Bytes, w \in Bytes :
        /\ bleGot' = g /\ bleWire' = w /\ g \o w = bleGot \o bleWire
        /\ Len(g) \in Nat /\ Len(bleGot) < Len(g) /\ Len(g) <= 4
        /\ ~bleNoisy' => /\ ~bleNoisy
                         /\ (\A i \in 1..Len(bleGot) : bleGot[i].of # 0) =>
                              \A i \in 1..Len(g) : g[i].of # 0
        /\ UNCHANGED <<bleAppended, bleDoubted, bleWritten, bleStray, bleEof>>
  <2> DEFINE want == 4 - Len(bleGot)
  <2>1. want \in Int /\ Recv(want) /\ Len(bleGot) + want = 4
    BY <1>1 DEF RecvHeader
  <2> HIDE DEF want
  <2> QED
    BY <2>1, Received
<1>3. bleWorker' = IF Len(g) < 4 THEN "header"
                   ELSE IF g[1].byte # Start1 \/ g[2].byte # Start2 THEN "top"
                   ELSE IF Payload(g) = 0 THEN "append"
                   ELSE "payload"
  BY <1>2 DEF RecvHeader
<1>4. Stream = g \o w
  BY <1>1, <1>2 DEF Stream
<1>5. ASSUME MidFrame', InTurn(bleWorker', g) PROVE FrameInv'
  <2>1. Stream' = Stream
    BY <1>2, <1>4, <1>5 DEF Stream
  <2>2. WorkerInTurn'
    BY <1>2, <1>5 DEF WorkerInTurn
  <2>3. Orderly'
    BY <1>1, <1>2, <1>5, <2>1, StillOrderly
  <2> QED
    BY <1>2, <2>1, <2>2, <2>3, SameStream
<1>6. CASE Len(g) < 4
  <2>1. bleWorker' = "header" /\ InTurn("header", g)
    BY <1>3, <1>6 DEF InTurn
  <2> QED
    BY <1>5, <2>1 DEF MidFrame
<1>7. CASE Len(g) >= 4 /\ (g[1].byte # Start1 \/ g[2].byte # Start2)
  <2>1. bleWorker' = "top"
    BY <1>2, <1>3, <1>7
  <2>2. bleNoisy'
    <3>1. SUFFICES ASSUME ~bleNoisy' PROVE g[1].byte = Start1 /\ g[2].byte = Start2
      BY <1>7
    <3>2. /\ Stream # <<>> => Fresh(Stream[1])
          /\ \A i \in 1..Len(g) : g[i].of # 0
      BY <1>1, <1>2, <3>1 DEF FrameInv, Orderly
    <3>3. 1 \in 1..Len(g) /\ 2 \in 1..Len(g) /\ Len(g) >= 1
      BY <1>2, <1>7
    <3>4. Fresh(g[1]) /\ g[1].of # 0
      <4>1. Len(g \o w) = Len(g) + Len(w) /\ Len(w) \in Nat /\ (g \o w)[1] = g[1]
        BY <3>3, JoinedBytes
      <4>2. g \o w # <<>>
        BY <1>2, <3>3, <4>1
      <4> QED  BY <1>4, <3>2, <3>3, <4>1, <4>2
    <3>5. PICK lo \in 0..Len(bleWritten) : Flow(Stream, bleWritten, bleStray, lo)
      BY DEF FrameInv, Numbered
    <3> DEFINE n == g[1].of
               p == bleWritten[n]
    <3>a. Leads(g, w, n, bleWritten, lo)
      BY <1>1, <1>4, <3>3, <3>4, <3>5, FrameAhead
    <3>6. /\ n \in 1..Len(bleWritten)
          /\ \A j \in 1..Len(g) : j <= Size(p) => g[j] = Frame(n, p)[j]
      <4> HIDE DEF n
      <4> QED  BY <3>a DEF Leads
    <3>7. n \in Nat /\ p \in BlePayloads
      BY <3>6, BleTypes
    <3> HIDE DEF n, p
    <3>b. p \in BlePayloads /\ n \in Nat
      BY <3>7
    <3>c. /\ Size(p) >= 4 /\ Size(p) \in Nat /\ Framed(p)[1] = Start1 /\ Framed(p)[2] = Start2
      BY <3>b, FramedIs
    <3>8. /\ Size(p) >= 4 /\ Size(p) \in Nat /\ Framed(p)[1] = Start1 /\ Framed(p)[2] = Start2
          /\ \A j \in 1..Size(p) : Frame(n, p)[j] = [byte |-> Framed(p)[j], of |-> n, at |-> j]
      BY <3>b, <3>c, FrameType
    <3>9. 1 \in 1..Size(p) /\ 2 \in 1..Size(p) /\ 1 <= Size(p) /\ 2 <= Size(p)
      BY <3>8
    <3>10. g[1] = [byte |-> Start1, of |-> n, at |-> 1] /\ g[2] = [byte |-> Start2, of |-> n, at |-> 2]
      BY <3>3, <3>6, <3>8, <3>9
    <3> QED  BY <3>10
  <2> QED
    BY <1>2, <1>4, <2>1, <2>2, WorkerDrops
<1>8. CASE Len(g) >= 4 /\ g[1].byte = Start1 /\ g[2].byte = Start2
  <2>1. Len(g) = 4
    <3> DEFINE l == Len(g)
    <3>1. l \in Nat /\ l <= 4
      BY <1>2
    <3>2. l >= 4
      BY <1>8
    <3> HIDE DEF l
    <3>3. l = 4
      BY <3>1, <3>2
    <3> QED
      BY <3>3 DEF l
  <2>2. Payload(g) \in Nat
    <3>1. g[3] \in Octets /\ g[4] \in Octets
      <4>1. 3 \in 1..Len(g) /\ 4 \in 1..Len(g)
        BY <2>1
      <4> QED  BY <4>1, AnOctet
    <3>2. g[3].byte \in Nat /\ g[4].byte \in Nat
      BY <3>1 DEF Octets
    <3> QED
      BY <3>2 DEF Payload
  <2>3. CASE Payload(g) = 0
    <3>1. bleWorker' = "append" /\ InTurn("append", g)
      BY <1>3, <1>8, <2>1, <2>3 DEF InTurn
    <3> QED
      BY <1>5, <3>1 DEF MidFrame
  <2>4. CASE Payload(g) # 0
    <3>1. bleWorker' = "payload"
      BY <1>3, <1>8, <2>1, <2>4
    <3>2. InTurn("payload", g)
      BY <1>8, <2>1, <2>2 DEF InTurn
    <3> QED
      BY <1>5, <3>1, <3>2 DEF MidFrame
  <2> QED
    BY <2>3, <2>4
<1> QED
  BY <1>2, <1>6, <1>7, <1>8

LEMMA PayloadKeepsFrames ==
  ASSUME Types, FrameInv, RecvPayload
  PROVE  FrameInv'
<1>1. /\ bleWorker = "payload" /\ MidFrame /\ Len(bleGot) \in Nat
      /\ Len(bleGot) >= 4 /\ bleGot[1].byte = Start1 /\ Len(bleGot) <= 4 + Payload(bleGot)
  BY BleTypes DEF RecvPayload, FrameInv, WorkerInTurn, InTurn, MidFrame
<1>2. Payload(bleGot) \in Nat
  <2>1. bleGot[3] \in Octets /\ bleGot[4] \in Octets
    BY <1>1, BleTypes DEF Bytes
  <2>2. bleGot[3].byte \in Nat /\ bleGot[4].byte \in Nat
    BY <2>1 DEF Octets
  <2> QED
    BY <2>2 DEF Payload
<1> DEFINE p == Payload(bleGot)
<1>3. PICK g \in Bytes, w \in Bytes :
        /\ bleGot' = g /\ bleWire' = w /\ g \o w = bleGot \o bleWire
        /\ Len(g) \in Nat /\ Len(bleGot) < Len(g) /\ Len(g) <= 4 + p
        /\ \A i \in 1..Len(bleGot) : g[i] = bleGot[i]
        /\ ~bleNoisy' => /\ ~bleNoisy
                         /\ (\A i \in 1..Len(bleGot) : bleGot[i].of # 0) =>
                              \A i \in 1..Len(g) : g[i].of # 0
        /\ UNCHANGED <<bleAppended, bleDoubted, bleWritten, bleStray, bleEof>>
  <2> DEFINE want == 4 + p - Len(bleGot)
  <2>1. Recv(want)
    BY DEF RecvPayload
  <2> HIDE DEF p
  <2>2. want \in Int /\ Len(bleGot) + want = 4 + p
    BY <1>1, <1>2 DEF p
  <2> HIDE DEF want
  <2> QED
    BY <2>1, <2>2, Received
<1>4. bleWorker' = IF Len(g) < 4 + p THEN "payload" ELSE "append"
  BY <1>3 DEF RecvPayload
<1>5. Payload(g) = p /\ g[1].byte = Start1 /\ Len(g) >= 4
  <2>1. g[1] = bleGot[1] /\ g[3] = bleGot[3] /\ g[4] = bleGot[4]
    BY <1>1, <1>3
  <2> QED
    BY <1>1, <1>3, <2>1 DEF Payload
<1> HIDE DEF p
<1>6. InTurn(bleWorker', g)
  <2>1. CASE Len(g) < 4 + p
    <3>1. bleWorker' = "payload"
      BY <1>4, <2>1
    <3>2. Len(g) <= 4 + Payload(g)
      <4>1. p \in Nat /\ Len(g) \in Nat
        BY <1>2, <1>3 DEF p
      <4> QED
        BY <1>5, <2>1, <4>1
    <3>3. InTurn("payload", g)
      BY <1>5, <3>2 DEF InTurn
    <3> QED
      BY <3>1, <3>3
  <2>2. CASE ~(Len(g) < 4 + p)
    <3>1. Len(g) = 4 + p
      BY <1>2, <1>3, <2>2 DEF p
    <3> QED
      BY <1>2, <1>4, <1>5, <2>2, <3>1 DEF InTurn, p
  <2> QED
    BY <2>1, <2>2
<1>7. WorkerInTurn'
  BY <1>3, <1>6 DEF WorkerInTurn
<1>8. Stream' = Stream /\ MidFrame'
  BY <1>1, <1>3, <1>4 DEF Stream, MidFrame
<1>9. Orderly'
  BY <1>1, <1>3, <1>8, StillOrderly
<1> QED
  BY <1>3, <1>7, <1>8, <1>9, SameStream

LEMMA FailKeepsFrames ==
  ASSUME Types, FrameInv, RecvFails
  PROVE  FrameInv'
<1>1. /\ bleWorker \in {"header", "payload"} /\ bleWorker' = "top" /\ bleWire' = bleWire
      /\ ~bleSock'
      /\ UNCHANGED <<bleAppended, bleDoubted, bleWritten, bleStray, bleEof>>
  BY DEF RecvFails, queueVars, wireVars
<1>2. Stream = bleGot \o bleWire /\ bleGot \in Bytes /\ bleWire \in Bytes
  BY <1>1, BleTypes DEF Stream, MidFrame
<1> QED
  BY <1>1, <1>2, WorkerDrops

LEMMA TellKeepsFrames ==
  ASSUME Types, FrameInv, Tell
  PROVE  FrameInv'
<1>1. /\ bleWorker = "tell" /\ bleWorker' = "top"
      /\ UNCHANGED <<bleAppended, bleDoubted, bleWritten, bleStray, bleEof, bleWire,
                     bleSock, bleNoisy>>
  BY DEF Tell, queueVars, wireVars, workerVars
<1>2. Stream' = Stream /\ ~MidFrame /\ ~MidFrame'
  BY <1>1 DEF Stream, MidFrame
<1>3. WorkerInTurn' /\ Orderly'
  BY <1>1, <1>2 DEF WorkerInTurn, InTurn, FrameInv, Orderly, Fresh
<1> QED
  BY <1>1, <1>2, <1>3, SameStream

(* A complete buffer the worker may be sure of is a frame of the daemon.   *)
LEMMA GotFrame ==
  ASSUME Types, NEW g \in Bytes, NEW w \in Bytes, NEW n, NEW lo \in Nat,
         Leads(g, w, n, bleWritten, lo), Len(g) >= 4, Len(g) = 4 + Payload(g)
  PROVE  /\ n \in 1..Len(bleWritten) /\ lo < n
         /\ Len(g) = Size(bleWritten[n]) /\ g = Frame(n, bleWritten[n])
         /\ w # <<>> => Fresh(w[1])
         /\ \A j \in 1..Len(w) : w[j].at = 1 => n < w[j].of
<1> DEFINE W == bleWritten
           p == W[n]
           F == Frame(n, p)
<1>1. /\ n \in 1..Len(W) /\ lo < n
      /\ \A j \in 1..Len(g) : j <= Size(p) => g[j] = F[j]
      /\ Len(g) = Size(p) /\ w # <<>> => Fresh(w[1])
      /\ Len(g) >= Size(p) => \A j \in 1..Len(w) : w[j].at = 1 => n < w[j].of
  BY DEF Leads
<1>2. p \in BlePayloads /\ n \in Nat
  BY <1>1, BleTypes
<1> HIDE DEF p
<1>3. /\ Len(p) \in Nat /\ Size(p) \in Nat /\ Size(p) >= 4
      /\ Framed(p)[3] = Len(p) \div 256 /\ Framed(p)[4] = Len(p) % 256
  BY <1>2, FramedIs
<1>4. /\ F \in Bytes /\ Len(F) = Size(p)
      /\ \A j \in 1..Size(p) : F[j] = [byte |-> Framed(p)[j], of |-> n, at |-> j]
  BY <1>2, FrameType
<1> HIDE DEF F
<1>5. Len(g) \in Nat /\ 3 \in 1..Len(g) /\ 4 \in 1..Len(g)
      /\ 3 \in 1..Size(p) /\ 4 \in 1..Size(p) /\ 3 <= Size(p) /\ 4 <= Size(p)
  BY <1>3, AnOctet
<1> DEFINE a == Len(p) \div 256
           b == Len(p) % 256
<1>a. 256 * a + b = Len(p)
  BY <1>3
<1> HIDE DEF a, b
<1>b. F[3] = [byte |-> a, of |-> n, at |-> 3] /\ F[4] = [byte |-> b, of |-> n, at |-> 4]
  BY <1>3, <1>4, <1>5 DEF a, b
<1>6. g[3].byte = a /\ g[4].byte = b
  BY <1>1, <1>5, <1>b
<1>7. Len(g) = Size(p)
  BY <1>a, <1>6 DEF Payload, Size
<1>8. g = F
  <2>1. \A j \in 1..Len(g) : g[j] = F[j]
    BY <1>1, <1>3, <1>5, <1>7
  <2>2. g \in Seq(Octets) /\ F \in Seq(Octets) /\ Len(g) = Len(F)
    BY <1>4, <1>7 DEF Bytes
  <2> QED
    BY <2>1, <2>2, SeqEqual
<1>9. Len(g) >= Size(p)
  BY <1>5, <1>7
<1> QED
  BY <1>1, <1>7, <1>8, <1>9 DEF F, p

(* The frame that is queued is one the daemon wrote, newer than the last,  *)
(* and everything behind it in the stream is newer still; or it is of      *)
(* bytes behind stray ones that nobody vouches for.                        *)
LEMMA AppendKeepsFrames ==
  ASSUME Types, FrameInv, AppendFrame
  PROVE  FrameInv'
<1> DEFINE g == bleGot
           w == bleWire
           s == g \o w
           W == bleWritten
           Z == bleStray
           q == bleAppended
           x == SubSeq(g, 5, Len(g))
<1>m. PICK m : m = Len(bleAppended) + 1
  OBVIOUS
<1>n. PICK n : n = bleGot[1].of
  OBVIOUS
<1>1. /\ bleWorker = "append" /\ bleWorker' = "tell" /\ MidFrame /\ ~MidFrame' /\ Stream = s
      /\ q' = Append(q, x)
      /\ bleDoubted' = (IF bleNoisy THEN bleDoubted \cup {m} ELSE bleDoubted)
      /\ UNCHANGED <<bleWire, bleEof, bleWritten, bleStray, bleNoisy, bleSock>>
      /\ Stream' = w
  BY <1>m DEF AppendFrame, wireVars, MidFrame, Stream
<1>2. /\ g \in Bytes /\ w \in Bytes /\ s \in Bytes /\ Len(g) \in Nat /\ q \in Seq(Bytes)
      /\ Len(W) \in Nat /\ W \in Seq(BlePayloads) /\ Len(s) \in Nat
  BY <1>1, BleTypes
<1>3. Len(g) >= 4 /\ g[1].byte = Start1 /\ Len(g) = 4 + Payload(g)
  BY <1>1 DEF FrameInv, WorkerInTurn, InTurn
<1>4. PICK lo \in 0..Len(W) : Flow(s, W, Z, lo) /\ Passed(lo)
  BY <1>1 DEF FrameInv, Numbered
<1>a. Genuine
  BY DEF FrameInv
<1>5. /\ Len(s) = Len(g) + Len(w) /\ Len(w) \in Nat
      /\ \A i \in 1..Len(g) : s[i] = g[i]
      /\ \A i \in 1..Len(w) : s[Len(g) + i] = w[i]
  BY <1>2, JoinedBytes
<1>6. ASSUME ~bleNoisy \/ Harmless
      PROVE  /\ n \in 1..Len(W) /\ lo < n /\ Len(g) = Size(W[n]) /\ g = Frame(n, W[n])
             /\ w # <<>> => Fresh(w[1])
             /\ \A j \in 1..Len(w) : w[j].at = 1 => n < w[j].of
  <2>1. \/ Fresh(g[1]) /\ g[1].of # 0
        \/ Harmless /\ g[1].byte = Start1
    <3>1. CASE Harmless
      BY <1>3, <3>1
    <3>2. CASE ~bleNoisy
      <4>1. 1 \in 1..Len(g) /\ Len(s) # 0
        BY <1>2, <1>3, <1>5
      <4>2. s # <<>>
        BY <1>2, <4>1
      <4>3. /\ Stream # <<>> => Fresh(Stream[1])
            /\ \A i \in 1..Len(g) : g[i].of # 0
        BY <1>1, <3>2 DEF FrameInv, Orderly
      <4>4. Fresh(s[1])
        BY <1>1, <4>2, <4>3
      <4>5. s[1] = g[1]
        BY <1>5, <4>1
      <4> QED  BY <4>1, <4>3, <4>4, <4>5
    <3> QED  BY <1>6, <3>1, <3>2
  <2>2. Len(g) >= 1 /\ Flow(Stream, bleWritten, bleStray, lo) /\ Stream = g \o w
    BY <1>1, <1>2, <1>3, <1>4
  <2>n. n = g[1].of
    BY <1>n
  <2> HIDE DEF g, w, s
  <2>3. Leads(g, w, n, bleWritten, lo)
    BY <1>1, <1>2, <1>4, <2>n, <2>1, <2>2, FrameAhead
  <2>4. lo \in Nat
    BY <1>2, <1>4
  <2> QED
    BY <1>2, <1>3, <2>3, <2>4, GotFrame
<1>7. /\ Len(q) \in Nat /\ m \in Nat /\ Len(q') = m /\ q'[m] = x
      /\ \A i \in 1..Len(q) : q'[i] = q[i] /\ i # m /\ i \in 1..m
      /\ \A i \in 1..m : i = m \/ i \in 1..Len(q)
  <2>1. x \in Bytes
    <3> DEFINE k == 4
    <3>1. k \in 0..Len(g) /\ k + 1 = 5
      BY <1>2, <1>3
    <3> HIDE DEF k, g
    <3>2. SubSeq(g, k + 1, Len(g)) \in Bytes
      BY <1>2, <3>1, BytesCut
    <3> QED  BY <3>1, <3>2
  <2> HIDE DEF q, x
  <2>2. /\ Len(q) \in Nat /\ Len(Append(q, x)) = Len(q) + 1 /\ Append(q, x)[Len(q) + 1] = x
        /\ \A i \in 1..Len(q) : Append(q, x)[i] = q[i]
    BY <1>2, <2>1, AppendProperties
  <2> QED
    BY <1>1, <1>2, <1>m, <2>2 DEF q
<1>8. Harmless' <=> Harmless
  BY <1>1 DEF Harmless
<1>9. \A i \in 1..Len(q) : Vouched(i)' => Vouched(i)
  BY <1>1, <1>7, <1>8 DEF Vouched
<1>10. Vouched(m)' => ~bleNoisy \/ Harmless
  BY <1>1, <1>8 DEF Vouched
<1>11. ASSUME ~bleNoisy \/ Harmless, x # <<>> PROVE x[1].of = n
  <2> DEFINE p == W[n]
             k == 4
             y == Framed(p)[5]
  <2>0. n \in 1..Len(W)
    BY <1>6, <1>11
  <2>1. n \in Nat /\ p \in BlePayloads
    BY <1>2, <2>0
  <2>2. g = Frame(n, p) /\ Len(g) = Size(p)
    BY <1>6, <1>11
  <2> HIDE DEF p
  <2>3. \A j \in 1..Size(p) : Frame(n, p)[j] = [byte |-> Framed(p)[j], of |-> n, at |-> j]
    BY <2>1, FrameType
  <2>4. k \in 0..Len(g) /\ k + 1 = 5
    BY <1>2, <1>3
  <2>5. SubSeq(g, k + 1, Len(g)) = x
    BY <2>4
  <2> HIDE DEF k, g, x
  <2>6. /\ SubSeq(g, k + 1, Len(g)) \in Bytes
        /\ Len(SubSeq(g, k + 1, Len(g))) = Len(g) - k
        /\ \A i \in 1..(Len(g) - k) : SubSeq(g, k + 1, Len(g))[i] = g[k + i]
    BY <1>2, <2>4, BytesCut
  <2>7. /\ x \in Bytes /\ Len(x) = Len(g) - k
        /\ \A i \in 1..(Len(g) - k) : x[i] = g[k + i]
    BY <2>5, <2>6
  <2>8. Len(x) # 0 /\ Len(x) \in Nat
    BY <1>11, <2>7 DEF Bytes
  <2>9. 1 \in 1..(Len(g) - k) /\ 5 \in 1..Len(g)
    BY <1>2, <2>4, <2>7, <2>8
  <2>10. x[1] = g[5]
    BY <2>4, <2>7, <2>9
  <2>11. g[5] = [byte |-> y, of |-> n, at |-> 5]
    BY <2>2, <2>3, <2>9
  <2> HIDE DEF y
  <2> QED  BY <2>10, <2>11
<1>12. ASSUME NEW i \in 1..m, Vouched(i)'
       PROVE  \E l \in 1..Len(W) : q'[i] = SubSeq(Frame(l, W[l]), 5, Size(W[l]))
  <2>1. CASE i \in 1..Len(q)
    <3>1. \E l \in 1..Len(W) : q[i] = SubSeq(Frame(l, W[l]), 5, Size(W[l]))
      BY <1>9, <1>12, <1>a, <2>1 DEF Genuine
    <3> QED  BY <1>7, <2>1, <3>1
  <2>2. CASE i = m
    <3>1. n \in 1..Len(W) /\ g = Frame(n, W[n]) /\ Len(g) = Size(W[n])
      BY <1>6, <1>10, <1>12, <2>2
    <3>2. x = SubSeq(Frame(n, W[n]), 5, Size(W[n]))
      BY <3>1
    <3> HIDE DEF x, q
    <3> QED  BY <1>7, <2>2, <3>1, <3>2
  <2> QED  BY <1>7, <2>1, <2>2
<1>13. ASSUME NEW i \in 1..m, NEW k \in 1..m, i < k, Vouched(i)', Vouched(k)',
              q'[i] # <<>>, q'[k] # <<>>
       PROVE  q'[i][1].of < q'[k][1].of
  <2>1. i \in 1..Len(q)
    BY <1>7, <1>13
  <2>2. Vouched(i) /\ q[i] # <<>> /\ q'[i] = q[i]
    BY <1>7, <1>9, <1>13, <2>1
  <2>3. CASE k \in 1..Len(q)
    <3>1. Vouched(k) /\ q[k] # <<>> /\ q'[k] = q[k]
      BY <1>7, <1>9, <1>13, <2>3
    <3> QED  BY <1>13, <1>a, <2>1, <2>2, <2>3, <3>1 DEF Genuine
  <2>4. CASE k = m
    <3>1. q'[k] = x /\ x # <<>> /\ (~bleNoisy \/ Harmless)
      BY <1>7, <1>10, <1>13, <2>4
    <3>2. x[1].of = n /\ lo < n /\ n \in 1..Len(W)
      BY <1>6, <1>11, <3>1
    <3>3. q[i][1].of <= lo
      BY <1>4, <2>1, <2>2 DEF Passed
    <3>4. q[i][1].of \in Nat
      <4>1. q[i] \in Bytes
        BY <1>2, <2>1
      <4>2. 1 \in 1..Len(q[i])
        BY <2>2, <4>1 DEF Bytes
      <4>3. q[i][1] \in Octets
        BY <4>1, <4>2, AnOctet
      <4> QED  BY <4>3 DEF Octets
    <3> HIDE DEF x, q
    <3>5. q[i][1].of < n
      BY <1>2, <1>4, <3>2, <3>3, <3>4
    <3> QED  BY <2>2, <3>1, <3>2, <3>5
  <2> QED  BY <1>7, <2>3, <2>4
<1>14. Genuine'
  <2>1. Len(bleAppended') = m /\ W' = W
    BY <1>1, <1>7
  <2> QED  BY <1>12, <1>13, <2>1 DEF Genuine
<1>15. Numbered'
  <2>1. ASSUME NEW l \in 0..Len(W), lo <= l, \A j \in 1..Len(w) : w[j].at = 1 => l < w[j].of
        PROVE  Flow(w, W, Z, l)
    <3> DEFINE d == Len(g)
    <3>1. d \in Nat /\ d + Len(w) <= Len(s) /\ \A i \in 1..Len(w) : w[i] = s[d + i]
      BY <1>2, <1>5
    <3>2. lo \in Nat /\ l \in Nat
      BY <1>2, <1>4, <2>1
    <3> HIDE DEF d, s, w
    <3> QED  BY <1>2, <1>4, <2>1, <3>1, <3>2, FlowPart
  <2>2. CASE ~bleNoisy \/ Harmless
    <3>1. n \in 1..Len(W) /\ lo < n /\ \A j \in 1..Len(w) : w[j].at = 1 => n < w[j].of
      BY <1>6, <2>2
    <3>2. n \in 0..Len(W) /\ lo <= n
      BY <1>2, <1>4, <3>1
    <3>3. Flow(w, W, Z, n)
      BY <2>1, <3>1, <3>2
    <3>4. ASSUME NEW i \in 1..m, Vouched(i)', q'[i] # <<>> PROVE q'[i][1].of <= n
      <4>1. CASE i = m
        <5>1. q'[i] = x /\ x # <<>>
          BY <1>7, <3>4, <4>1
        <5>2. x[1].of = n
          BY <1>11, <2>2, <5>1
        <5> HIDE DEF x, q
        <5> QED  BY <3>1, <5>1, <5>2
      <4>2. CASE i \in 1..Len(q)
        <5>1. Vouched(i) /\ q[i] # <<>> /\ q'[i] = q[i]
          BY <1>7, <1>9, <3>4, <4>2
        <5>2. q[i][1].of <= lo
          BY <1>4, <4>2, <5>1 DEF Passed
        <5>3. q[i][1].of \in Nat
          <6>1. q[i] \in Bytes
            BY <1>2, <4>2
          <6>2. 1 \in 1..Len(q[i])
            BY <5>1, <6>1 DEF Bytes
          <6>3. q[i][1] \in Octets
            BY <6>1, <6>2, AnOctet
          <6> QED  BY <6>3 DEF Octets
        <5> HIDE DEF q
        <5> QED  BY <1>2, <1>4, <3>1, <5>1, <5>2, <5>3
      <4> QED  BY <1>7, <4>1, <4>2
    <3>5. Passed(n)'
      <4>1. Len(bleAppended') = m
        BY <1>7
      <4>2. \A i \in 1..Len(bleAppended') :
              Vouched(i)' /\ bleAppended'[i] # <<>> => bleAppended'[i][1].of <= n
        BY <3>4, <4>1
      <4> QED  BY <4>2 DEF Passed
    <3> QED  BY <1>1, <3>2, <3>3, <3>5 DEF Numbered
  <2>3. CASE ~(~bleNoisy \/ Harmless)
    <3>1. \A j \in 1..Len(w) : w[j].at = 1 => lo < w[j].of
      <4>1. \A j \in 1..Len(w) : Len(g) + j \in 1..Len(s)
        BY <1>2, <1>5
      <4> QED  BY <1>4, <1>5, <4>1 DEF Flow
    <3>2. Flow(w, W, Z, lo)
      BY <1>2, <1>4, <2>1, <3>1
    <3>3. ASSUME NEW i \in 1..m, Vouched(i)', q'[i] # <<>> PROVE q'[i][1].of <= lo
      <4>1. i \in 1..Len(q)
        BY <1>7, <1>10, <2>3, <3>3
      <4>2. Vouched(i) /\ q[i] # <<>> /\ q'[i] = q[i]
        BY <1>7, <1>9, <3>3, <4>1
      <4> QED  BY <1>4, <4>1, <4>2 DEF Passed
    <3>4. Passed(lo)'
      <4>1. Len(bleAppended') = m
        BY <1>7
      <4> QED  BY <3>3, <4>1 DEF Passed
    <3> QED  BY <1>1, <1>4, <3>2, <3>4 DEF Numbered
  <2> QED  BY <2>2, <2>3
<1>16. Orderly'
  <2>1. ~bleNoisy => (w # <<>> => Fresh(w[1]))
    BY <1>6
  <2> QED  BY <1>1, <2>1 DEF Orderly, Fresh
<1>17. WorkerInTurn'
  BY <1>1 DEF WorkerInTurn, InTurn
<1>18. ~bleEof' => Whole(Stream, bleWritten)'
  <2>1. ASSUME ~bleEof PROVE Whole(w, W)
    <3>1. Whole(s, W)
      BY <1>1, <2>1 DEF FrameInv
    <3>2. CASE w = <<>>
      BY <3>2 DEF Whole
    <3>3. CASE w # <<>>
      <4>1. Len(w) \in 1..Len(w) /\ Len(w) # 0
        BY <1>2, <1>5, <3>3 DEF Bytes
      <4>2. s[Len(s)] = w[Len(w)] /\ Len(s) # 0
        BY <1>2, <1>5, <4>1
      <4>3. s # <<>>
        BY <1>2, <4>2
      <4> QED  BY <3>1, <4>2, <4>3 DEF Whole
    <3> QED  BY <3>2, <3>3
  <2> QED  BY <1>1, <2>1
<1> QED
  BY <1>14, <1>15, <1>16, <1>17, <1>18 DEF FrameInv

(* The steps of the main loop and of the phone do not touch the stream.    *)
LEMMA RestKeepsFrames ==
  ASSUME Types, FrameInv, bleSock' => bleSock,
         UNCHANGED <<bleWire, bleEof, bleWritten, bleStray, bleWorker, bleGot, bleNoisy,
                     bleAppended, bleDoubted>>
  PROVE  FrameInv'
<1>1. Stream' = Stream /\ (MidFrame' <=> MidFrame)
  BY DEF Stream, MidFrame
<1>2. WorkerInTurn' /\ Orderly'
  BY <1>1 DEF FrameInv, WorkerInTurn, Orderly, Fresh
<1> QED
  BY <1>1, <1>2, SameStream

(* FrameInv holds of a bridge that starts.                                 *)
THEOREM FrameStart == BleInit => FrameInv
<1> SUFFICES ASSUME BleInit PROVE FrameInv
  OBVIOUS
<1>1. Stream = <<>> /\ bleWritten = <<>> /\ bleAppended = <<>> /\ ~MidFrame /\ ~bleSock
  BY DEF BleInit, Stream, MidFrame
<1>2. Numbered
  <2>1. Flow(<<>>, <<>>, bleStray, 0) /\ Passed(0)
    BY <1>1 DEF Flow, Passed
  <2> QED
    BY <1>1, <2>1 DEF Numbered
<1>3. WorkerInTurn /\ Orderly
  BY <1>1 DEF BleInit, WorkerInTurn, InTurn, Orderly
<1> QED
  BY <1>1, <1>2, <1>3 DEF FrameInv, Genuine, Whole

(* Every step of the bridge, the daemon and the phone keeps FrameInv.      *)
THEOREM FrameStep == Types /\ FrameInv /\ [BleNext]_bleVars => FrameInv'
<1> SUFFICES ASSUME Types, FrameInv, [BleNext]_bleVars PROVE FrameInv'
  OBVIOUS
<1> USE DEF workerVars, queueVars, phoneVars, wireVars
<1>1. CASE DaemonWrites  BY <1>1, DaemonWritesFrame
<1>2. CASE DaemonNoise   BY <1>2, NoiseKeepsFrames
<1>3. CASE DaemonCloses  BY <1>3, CloseKeepsFrames
<1>4. CASE Connect       BY <1>4, ConnectKeepsFrames
<1>5. CASE NextFrame     BY <1>5, NextFrameKeepsFrames
<1>6. CASE RecvHeader    BY <1>6, HeaderKeepsFrames
<1>7. CASE RecvPayload   BY <1>7, PayloadKeepsFrames
<1>8. CASE RecvFails     BY <1>8, FailKeepsFrames
<1>9. CASE AppendFrame   BY <1>9, AppendKeepsFrames
<1>10. CASE Tell         BY <1>10, TellKeepsFrames
<1>11. CASE OnNewPacket  BY <1>11, RestKeepsFrames DEF OnNewPacket
<1>12. CASE ReadValue    BY <1>12, RestKeepsFrames DEF ReadValue
<1>13. CASE StartNotify  BY <1>13, RestKeepsFrames DEF StartNotify
<1>14. CASE StopNotify   BY <1>14, RestKeepsFrames DEF StopNotify
<1>15. CASE SendBegins   BY <1>15, RestKeepsFrames DEF SendBegins
<1>16. CASE SendEnds     BY <1>16, RestKeepsFrames DEF SendEnds
<1>17. CASE SendFails    BY <1>17, RestKeepsFrames DEF SendFails
<1>18. CASE UNCHANGED bleVars
  BY <1>18, RestKeepsFrames DEF bleVars
<1> QED
  BY <1>1, <1>2, <1>3, <1>4, <1>5, <1>6, <1>7, <1>8, <1>9, <1>10, <1>11, <1>12, <1>13,
     <1>14, <1>15, <1>16, <1>17, <1>18 DEF BleNext, Worker

(* Genuine for every payload, whatever bytes it holds, any stray bytes,    *)
(* any number of frames and closed connections and any length of the       *)
(* phone's queue: only frames the daemon wrote reach the queue, each at    *)
(* most once and in the order of writing - but for frames cut behind stray *)
(* bytes of the same connection while a sync byte may lie among the others.*)
THEOREM FramesAreGenuine == BleSpec => []Genuine
<1>1. BleInit => QInv /\ FrameInv
  BY QueueInit, FrameStart
<1>2. QInv /\ FrameInv /\ [BleNext]_bleVars => (QInv /\ FrameInv)'
  BY QueueStep, FrameStep DEF QInv
<1>3. QInv /\ FrameInv => Genuine
  BY DEF FrameInv
<1> QED
  BY <1>1, <1>2, <1>3, PTL DEF BleSpec

(***************************************************************************)
(* Parrot module.  ParrotQuiet for any number of stations, users, slots    *)
(* and texts, any range of millis() and any time: parrots do not answer    *)
(* each other, and the table of slots limits the rate over a wrap of the   *)
(* clock.                                                                  *)
(***************************************************************************)
Nodes == Parrots \cup Users
Message == [from : Nodes, text : BOOLEAN, prefix : BOOLEAN]
Answer == [to : Nodes, at : Nat]
Entry == [from : Nodes \cup {Nobody}, last : Int]

(* Whom the answers a went to.                                             *)
Dests(a) == {a[n].to : n \in 1..Len(a)}

LEMMA Constants ==
  /\ Slots \in Nat /\ Slots >= 1 /\ Cooldown \in Nat /\ Cooldown >= 1
  /\ Clock \in Nat /\ Clock > Cooldown /\ Clock > 0
  /\ Horizon \in Nat /\ Texts \in Nat
  /\ Hears \in [Parrots -> SUBSET Nodes] /\ Nobody \notin Nodes
BY ParrotAssumption DEF Nodes

(* The remainder of a number, and what there is beside it.                 *)
LEMMA Remainder ==
  ASSUME NEW x \in Nat, NEW c \in Nat, c > 0
  PROVE  \E q \in Int, r \in 0..(c - 1) : x = c * q + r /\ x % c = r
<1>1. x % c \in 0..(c - 1) /\ x \div c \in Int /\ x = c * (x \div c) + (x % c)
  OBVIOUS
<1> QED  BY <1>1

(* A difference of two readings of millis() is the time between them, as   *)
(* long as that is less than the range of the clock.                       *)
LEMMA Elapsed ==
  ASSUME NEW now \in Nat, NEW at \in Nat, NEW c \in Nat, c > 0,
         at <= now, now - at < c
  PROVE  ((now % c) - (at % c)) % c = now - at
<1>1. PICK p \in Int, r \in 0..(c - 1) : now = c * p + r /\ now % c = r
  BY Remainder
<1>2. PICK q \in Int, s \in 0..(c - 1) : at = c * q + s /\ at % c = s
  BY Remainder
<1>3. c * (q - p) = c * q - c * p /\ q - p \in Int /\ now - at \in 0..(c - 1)
  OBVIOUS
<1>4. r - s = c * (q - p) + (now - at)
  <2>1. ASSUME NEW u \in Int, NEW v \in Int, now = u + r, at = v + s
        PROVE  r - s = (v - u) + (now - at)
    BY <2>1
  <2>2. c * p \in Int /\ c * q \in Int
    OBVIOUS
  <2> QED  BY <1>1, <1>2, <1>3, <2>1, <2>2
<1>5. ASSUME NEW a \in Int, NEW b \in 0..(c - 1)
      PROVE  (c * a + b) % c = b
  OBVIOUS
<1>6. (c * (q - p) + (now - at)) % c = now - at
  BY <1>3, <1>5
<1>7. (r - s) % c = now - at
  BY <1>4, <1>6
<1> QED  BY <1>1, <1>2, <1>7
-----------------------------------------------------------------------------
(* How the texts bound the answers: c[k] is a bound of the answers there   *)
(* are once the first k - 1 messages that wait are handled; an answer has  *)
(* the prefix and raises nothing.                                          *)
Weight(m) == IF m.prefix THEN 0 ELSE 1

Bounds(c, h, a) ==
  /\ Len(a) <= c[1]
  /\ \A k \in 1..Len(h) : c[k] + Weight(h[k]) <= c[k + 1]

Paid(h, a, n) == \E c \in [1..(Len(h) + 1) -> 0..n] : Bounds(c, h, a)

LEMMA NothingPaid == Paid(<<>>, <<>>, 0)
<1>1. [k \in 1..1 |-> 0] \in [1..(Len(<<>>) + 1) -> 0..0]
  OBVIOUS
<1>2. Bounds([k \in 1..1 |-> 0], <<>>, <<>>)
  BY DEF Bounds
<1> QED  BY <1>1, <1>2 DEF Paid

(* A message that arrives: a text costs one more, an answer nothing.       *)
LEMMA PaidArrives ==
  ASSUME NEW h \in Seq(Message), NEW a \in Seq(Answer), NEW n \in Nat,
         NEW n2 \in Nat, NEW m \in Message, n2 = n + Weight(m), Paid(h, a, n)
  PROVE  Paid(Append(h, m), a, n2)
<1>1. PICK c \in [1..(Len(h) + 1) -> 0..n] : Bounds(c, h, a)
  BY DEF Paid
<1> DEFINE L == Len(h)
           g == Append(h, m)
           d == [k \in 1..(L + 2) |-> IF k <= L + 1 THEN c[k] ELSE n2]
<1>2. L \in Nat /\ Len(g) = L + 1 /\ g[L + 1] = m /\ \A k \in 1..L : g[k] = h[k]
  BY AppendProperties
<1>3. Weight(m) \in 0..1 /\ n <= n2
  BY DEF Weight
<1>4. \A k \in 1..(L + 1) : c[k] \in 0..n /\ d[k] = c[k]
  BY <1>2
<1>5. d[L + 2] = n2
  BY <1>2
<1>6. d \in [1..(Len(g) + 1) -> 0..n2]
  BY <1>2, <1>3, <1>4
<1>7. Len(a) <= d[1]
  BY <1>1, <1>2, <1>4 DEF Bounds
<1>8. ASSUME NEW k \in 1..Len(g)
      PROVE  d[k] + Weight(g[k]) <= d[k + 1]
  <2> HIDE DEF d, g
  <2>1. CASE k \in 1..L
    <3>1. k + 1 \in 1..(L + 1) /\ k \in 1..(L + 1)
      BY <1>2, <2>1
    <3>2. c[k] + Weight(h[k]) <= c[k + 1]
      BY <1>1, <2>1 DEF Bounds
    <3> QED  BY <1>2, <1>4, <2>1, <3>1, <3>2
  <2>2. CASE k = L + 1
    <3>1. d[L + 1] \in 0..n /\ d[L + 1] + Weight(m) <= n2
      BY <1>2, <1>3, <1>4
    <3> QED  BY <1>2, <1>5, <2>2, <3>1
  <2> QED  BY <1>2, <2>1, <2>2
<1> HIDE DEF d, g
<1> QED  BY <1>6, <1>7, <1>8 DEF Paid, Bounds, g

(* A message handled: an answer is made to a text only.                    *)
LEMMA PaidHandled ==
  ASSUME NEW h \in Seq(Message), h # <<>>, NEW a \in Seq(Answer), NEW n \in Nat,
         NEW b \in Seq(Answer), Len(b) <= Len(a) + Weight(Head(h)), Paid(h, a, n)
  PROVE  Paid(Tail(h), b, n)
<1>1. PICK c \in [1..(Len(h) + 1) -> 0..n] : Bounds(c, h, a)
  BY DEF Paid
<1> DEFINE L == Len(h)
           g == Tail(h)
           d == [k \in 1..L |-> c[k + 1]]
<1>2. L \in Nat /\ L >= 1 /\ Len(g) = L - 1 /\ Head(h) = h[1]
      /\ \A k \in 1..(L - 1) : g[k] = h[k + 1]
  BY HeadTailProperties, EmptySeq
<1>3. ASSUME NEW k \in 1..L
      PROVE  d[k] = c[k + 1] /\ c[k + 1] \in 0..n
  <2>1. k + 1 \in 1..(Len(h) + 1)
    BY <1>2
  <2> QED  BY <2>1
<1>4. d \in [1..(Len(g) + 1) -> 0..n]
  BY <1>2, <1>3
<1>5. Len(b) <= d[1]
  <2>1. Weight(h[1]) \in 0..1 /\ Len(a) \in Nat /\ Len(b) \in Nat
    BY DEF Weight
  <2>2. Len(a) <= c[1] /\ c[1] + Weight(h[1]) <= c[2] /\ c[1] \in 0..n /\ c[2] \in 0..n
    <3>1. 1 \in 1..Len(h) /\ 1 \in 1..(Len(h) + 1) /\ 2 \in 1..(Len(h) + 1) /\ 1 + 1 = 2
      BY <1>2
    <3> QED  BY <1>1, <3>1 DEF Bounds
  <2>3. d[1] = c[2]
    BY <1>2, <1>3
  <2> HIDE DEF d
  <2> QED  BY <1>2, <2>1, <2>2, <2>3
<1>6. ASSUME NEW k \in 1..Len(g)
      PROVE  d[k] + Weight(g[k]) <= d[k + 1]
  <2>1. k \in 1..L /\ k + 1 \in 1..L /\ k \in 1..(L - 1)
    BY <1>2
  <2>2. c[k + 1] + Weight(h[k + 1]) <= c[k + 2]
    BY <1>1, <2>1 DEF Bounds
  <2>3. d[k] = c[k + 1] /\ d[k + 1] = c[k + 2] /\ g[k] = h[k + 1]
    BY <1>2, <1>3, <2>1
  <2> HIDE DEF d, g
  <2> QED  BY <2>2, <2>3
<1> HIDE DEF d, g
<1> QED  BY <1>4, <1>5, <1>6 DEF Paid, Bounds, g

(* More texts pay for no fewer answers; and what is answered is paid.      *)
LEMMA PaidMore ==
  ASSUME NEW h \in Seq(Message), NEW a \in Seq(Answer), NEW n \in Nat,
         NEW n2 \in Nat, n <= n2, Paid(h, a, n)
  PROVE  Paid(h, a, n2)
<1>1. PICK c \in [1..(Len(h) + 1) -> 0..n] : Bounds(c, h, a)
  BY DEF Paid
<1>2. c \in [1..(Len(h) + 1) -> 0..n2]
  BY <1>1
<1> QED  BY <1>1, <1>2 DEF Paid

LEMMA PaidFor ==
  ASSUME NEW h \in Seq(Message), NEW a \in Seq(Answer), NEW n \in Nat, Paid(h, a, n)
  PROVE  Len(a) <= n
<1>1. PICK c \in [1..(Len(h) + 1) -> 0..n] : Bounds(c, h, a)
  BY DEF Paid
<1>2. 1 \in 1..(Len(h) + 1)
  OBVIOUS
<1>3. c[1] \in 0..n /\ Len(a) <= c[1] /\ Len(a) \in Nat
  BY <1>1, <1>2 DEF Bounds
<1> QED  BY <1>3
-----------------------------------------------------------------------------
(* What the table tells of the answers: the first k slots hold the nodes   *)
(* that were answered, one slot each, with the reading of the clock at the *)
(* latest answer to it, and the next slot in turn is the first free one.   *)
NextSlot(k) == IF k = Slots THEN 1 ELSE k + 1

Latest(e, a) ==
  \E n \in 1..Len(a) :
    /\ a[n].to = e.from /\ e.last = a[n].at % Clock
    /\ \A p \in 1..Len(a) : a[p].to = e.from => a[p].at <= a[n].at

SlotsFilled(t, x, a, k) ==
  /\ x = NextSlot(k)
  /\ Cardinality(Dests(a)) = k
  /\ \A i \in 1..Slots : i > k => t[i].from = Nobody
  /\ \A i \in 1..k : Latest(t[i], a)
  /\ \A i, j \in 1..k : t[i].from = t[j].from => i = j
  /\ \A n \in 1..Len(a) : \E i \in 1..k : t[i].from = a[n].to

Spaced(a) ==
  \A i, k \in 1..Len(a) : i < k /\ a[i].to = a[k].to => a[k].at >= a[i].at + Cooldown

Rate(t, x, a) ==
  \/ Cardinality(Dests(a)) > Slots
  \/ Spaced(a) /\ \E k \in 0..Slots : SlotsFilled(t, x, a, k)

(* One more answer: whom the answers went to.                              *)
LEMMA DestsGrow ==
  ASSUME NEW a \in Seq(Answer), NEW y \in Answer, IsFiniteSet(Dests(a))
  PROVE  /\ Dests(Append(a, y)) = Dests(a) \cup {y.to}
         /\ IsFiniteSet(Dests(Append(a, y)))
         /\ Cardinality(Dests(a)) \in Nat
         /\ Cardinality(Dests(Append(a, y))) =
              IF y.to \in Dests(a) THEN Cardinality(Dests(a)) ELSE Cardinality(Dests(a)) + 1
<1> DEFINE g == Append(a, y)
<1>1. Len(a) \in Nat /\ Len(g) = Len(a) + 1 /\ g[Len(a) + 1] = y
      /\ \A n \in 1..Len(a) : g[n] = a[n]
  BY AppendProperties
<1> HIDE DEF g
<1>2. Dests(g) = Dests(a) \cup {y.to}
  <2>1. ASSUME NEW d \in Dests(g)
        PROVE  d \in Dests(a) \cup {y.to}
    <3>1. PICK n \in 1..Len(g) : d = g[n].to
      BY DEF Dests
    <3>2. n \in 1..Len(a) \/ n = Len(a) + 1
      BY <1>1
    <3> QED  BY <1>1, <3>1, <3>2 DEF Dests
  <2>2. ASSUME NEW d \in Dests(a)
        PROVE  d \in Dests(g)
    <3>1. PICK n \in 1..Len(a) : d = a[n].to
      BY DEF Dests
    <3>2. n \in 1..Len(g) /\ g[n] = a[n]
      BY <1>1
    <3> QED  BY <3>1, <3>2 DEF Dests
  <2>3. y.to \in Dests(g)
    <3>1. Len(a) + 1 \in 1..Len(g)
      BY <1>1
    <3> QED  BY <1>1, <3>1 DEF Dests
  <2> QED  BY <2>1, <2>2, <2>3
<1>3. Cardinality(Dests(a)) \in Nat
  BY FS_CardinalityType
<1>4. ASSUME NEW S, NEW d, IsFiniteSet(S)
      PROVE  /\ IsFiniteSet(S \cup {d})
             /\ Cardinality(S \cup {d}) = IF d \in S THEN Cardinality(S) ELSE Cardinality(S) + 1
  BY <1>4, FS_AddElement
<1>5. /\ IsFiniteSet(Dests(g))
      /\ Cardinality(Dests(g)) =
           IF y.to \in Dests(a) THEN Cardinality(Dests(a)) ELSE Cardinality(Dests(a)) + 1
  BY <1>2, <1>4
<1> QED  BY <1>2, <1>3, <1>5 DEF g

(* The pairs of a sequence with one more element.                          *)
LEMMA SpacedGrows ==
  ASSUME NEW a \in Seq(Answer), NEW y \in Answer, Spaced(a),
         \A n \in 1..Len(a) : a[n].to = y.to => y.at >= a[n].at + Cooldown
  PROVE  Spaced(Append(a, y))
<1> DEFINE g == Append(a, y)
<1>1. Len(a) \in Nat /\ Len(g) = Len(a) + 1 /\ g[Len(a) + 1] = y
      /\ \A n \in 1..Len(a) : g[n] = a[n]
  BY AppendProperties
<1> HIDE DEF g
<1>2. ASSUME NEW i \in 1..Len(g), NEW k \in 1..Len(g), i < k, g[i].to = g[k].to
      PROVE  g[k].at >= g[i].at + Cooldown
  <2>1. i \in 1..Len(a) /\ (k \in 1..Len(a) \/ k = Len(a) + 1)
    BY <1>1, <1>2
  <2>2. CASE k \in 1..Len(a)
    BY <1>1, <1>2, <2>1, <2>2 DEF Spaced
  <2>3. CASE k = Len(a) + 1
    BY <1>1, <1>2, <2>1, <2>3
  <2> QED  BY <2>1, <2>2, <2>3
<1> QED  BY <1>2 DEF Spaced, g

(* A slot the answer does not touch tells what it told.                    *)
LEMMA LatestStays ==
  ASSUME NEW a \in Seq(Answer), NEW y \in Answer, NEW e \in Entry,
         e.from # y.to, Latest(e, a)
  PROVE  Latest(e, Append(a, y))
<1> DEFINE g == Append(a, y)
<1>1. Len(a) \in Nat /\ Len(g) = Len(a) + 1 /\ g[Len(a) + 1] = y
      /\ \A n \in 1..Len(a) : g[n] = a[n]
  BY AppendProperties
<1> HIDE DEF g
<1>2. PICK n \in 1..Len(a) : /\ a[n].to = e.from /\ e.last = a[n].at % Clock
                             /\ \A p \in 1..Len(a) : a[p].to = e.from => a[p].at <= a[n].at
  BY DEF Latest
<1>3. n \in 1..Len(g) /\ g[n] = a[n]
  BY <1>1
<1>4. ASSUME NEW p \in 1..Len(g), g[p].to = e.from
      PROVE  g[p].at <= g[n].at
  <2>1. p \in 1..Len(a) \/ p = Len(a) + 1
    BY <1>1
  <2> QED  BY <1>1, <1>2, <1>3, <1>4, <2>1
<1> QED  BY <1>2, <1>3, <1>4 DEF Latest, g

(* The slot of the node that is answered tells of that answer.             *)
LEMMA LatestIsNew ==
  ASSUME NEW a \in Seq(Answer), NEW y \in Answer, NEW e \in Entry,
         e.from = y.to, e.last = y.at % Clock,
         \A n \in 1..Len(a) : a[n].at <= y.at
  PROVE  Latest(e, Append(a, y))
<1> DEFINE g == Append(a, y)
<1>1. Len(a) \in Nat /\ Len(g) = Len(a) + 1 /\ g[Len(a) + 1] = y
      /\ \A n \in 1..Len(a) : g[n] = a[n]
  BY AppendProperties
<1> HIDE DEF g
<1>2. Len(a) + 1 \in 1..Len(g)
  BY <1>1
<1>3. y.at \in Nat
  BY DEF Answer
<1>4. ASSUME NEW p \in 1..Len(g)
      PROVE  g[p].at <= y.at
  <2>1. p \in 1..Len(a) \/ p = Len(a) + 1
    BY <1>1
  <2> QED  BY <1>1, <1>3, <2>1
<1> QED  BY <1>1, <1>2, <1>4 DEF Latest, g
-----------------------------------------------------------------------------
LEMMA NextSlotIs ==
  ASSUME NEW x \in 1..Slots
  PROVE  (x % Slots) + 1 = NextSlot(x)
<1>1. ASSUME NEW c \in Nat, NEW b \in 0..(c - 1)
      PROVE  b % c = b
  BY <1>1
<1>2. ASSUME NEW c \in Nat, c > 0
      PROVE  c % c = 0
  BY <1>2
<1> QED  BY <1>1, <1>2, Constants DEF NextSlot

(* The slot of a node that was answered lately is found, and it limits.    *)
LEMMA LimitHolds ==
  ASSUME parNow \in Nat, NEW t \in [1..Slots -> Entry], NEW from \in Nodes,
         NEW a \in Seq(Answer), NEW i \in 1..Slots,
         Known(t, from) = {i}, Latest(t[i], a),
         \A n \in 1..Len(a) : a[n].at <= parNow,
         ~Limited(t, from)
  PROVE  \A n \in 1..Len(a) : a[n].to = from => parNow >= a[n].at + Cooldown
<1>1. t[i].from = from
  BY DEF Known
<1>2. ~(Since(t[i]) < Cooldown)
  BY DEF Limited
<1>3. PICK m \in 1..Len(a) : /\ a[m].to = from /\ t[i].last = a[m].at % Clock
                             /\ \A p \in 1..Len(a) : a[p].to = from => a[p].at <= a[m].at
  BY <1>1 DEF Latest
<1>4. a[m].at \in Nat /\ a[m].at <= parNow /\ \A n \in 1..Len(a) : a[n].at \in Nat
  <2>1. \A n \in 1..Len(a) : a[n] \in Answer
    OBVIOUS
  <2> QED  BY <2>1 DEF Answer
<1>5. parNow >= a[m].at + Cooldown
  <2>1. CASE parNow - a[m].at < Clock
    <3>1. ((parNow % Clock) - (a[m].at % Clock)) % Clock = parNow - a[m].at
      BY <1>4, <2>1, Elapsed, Constants
    <3>2. ~(parNow - a[m].at < Cooldown)
      BY <1>2, <1>3, <3>1 DEF Since, Millis
    <3> QED  BY <1>4, <3>2, Constants
  <2>2. CASE ~(parNow - a[m].at < Clock)
    BY <1>4, <2>2, Constants
  <2> QED  BY <2>1, <2>2
<1>6. ASSUME NEW n \in 1..Len(a), a[n].to = from
      PROVE  parNow >= a[n].at + Cooldown
  <2>1. a[n].at <= a[m].at /\ a[n].at \in Nat /\ Cooldown \in Nat
    BY <1>3, <1>4, <1>6, Constants
  <2> QED  BY <1>4, <1>5, <2>1
<1> QED  BY <1>6

(* An answer the limit lets through keeps what the table tells.            *)
LEMMA RateAnswers ==
  ASSUME parNow \in Nat, NEW t \in [1..Slots -> Entry], NEW x \in 1..Slots,
         NEW from \in Nodes, NEW a \in Seq(Answer), IsFiniteSet(Dests(a)),
         \A n \in 1..Len(a) : a[n].at <= parNow,
         Rate(t, x, a), ~Limited(t, from)
  PROVE  Rate(Refresh(t, x, from), NextIndex(t, x, from),
              Append(a, [to |-> from, at |-> parNow]))
<1> DEFINE y == [to |-> from, at |-> parNow]
           g == Append(a, y)
           u == Refresh(t, x, from)
           z == NextIndex(t, x, from)
           entry == [from |-> from, last |-> Millis]
<1>1. y \in Answer /\ y.to = from /\ y.at = parNow
  BY DEF Answer
<1>2. Millis \in Int /\ entry \in Entry /\ entry.from = from /\ entry.last = parNow % Clock
  BY Constants DEF Entry, Millis
<1>3. from # Nobody
  BY Constants
<1>4. Len(a) \in Nat /\ Len(g) = Len(a) + 1 /\ g[Len(a) + 1] = y
      /\ \A n \in 1..Len(a) : g[n] = a[n]
  BY <1>1, AppendProperties
<1>5. /\ Dests(g) = Dests(a) \cup {from} /\ Cardinality(Dests(a)) \in Nat
      /\ Cardinality(Dests(g)) =
           IF from \in Dests(a) THEN Cardinality(Dests(a)) ELSE Cardinality(Dests(a)) + 1
  BY <1>1, DestsGrow
<1>6. Latest(entry, g)
  BY <1>1, <1>2, LatestIsNew
<1> HIDE DEF y, g, u, z, entry
<1>7. CASE Cardinality(Dests(a)) > Slots
  BY <1>5, <1>7, Constants DEF Rate, g, y
<1>8. ASSUME Spaced(a), NEW k \in 0..Slots, SlotsFilled(t, x, a, k)
      PROVE  Rate(u, z, g)
  <2>1. /\ x = NextSlot(k)
        /\ Cardinality(Dests(a)) = k
        /\ \A i \in 1..Slots : i > k => t[i].from = Nobody
        /\ \A i \in 1..k : Latest(t[i], a)
        /\ \A i, j \in 1..k : t[i].from = t[j].from => i = j
        /\ \A n \in 1..Len(a) : \E i \in 1..k : t[i].from = a[n].to
    BY <1>8 DEF SlotsFilled
  <2>2. \A i \in Known(t, from) : i \in 1..k
    BY <1>3, <2>1 DEF Known
  <2>3. k \in Nat /\ Slots \in Nat /\ \A i \in 1..k : i \in 1..Slots /\ t[i] \in Entry
    BY Constants
  <2>4. CASE Known(t, from) # {}
    <3>1. PICK i \in 1..k : i \in Known(t, from)
      BY <2>2, <2>4
    <3>2. Known(t, from) = {i} /\ t[i].from = from /\ i \in 1..Slots
      BY <2>1, <2>2, <2>3, <3>1 DEF Known
    <3>3. u = [t EXCEPT ![i] = entry] /\ z = x
      <4>1. (CHOOSE j \in {i} : \A l \in {i} : j <= l) = i
        <5>1. i <= i
          BY <3>2, Constants
        <5> QED  BY <5>1
      <4> QED  BY <2>4, <3>2, <4>1, SMTT(30), ZenonT(30) DEF u, z, Refresh, NextIndex, entry
    <3>4. u[i] = entry /\ \A j \in 1..Slots : j # i => u[j] = t[j]
      BY <3>2, <3>3
    <3>5. from \in Dests(a)
      <4>1. PICK n \in 1..Len(a) : a[n].to = t[i].from
        BY <2>1, <3>1 DEF Latest
      <4> QED  BY <3>2, <4>1 DEF Dests
    <3>6. Spaced(g)
      <4>1. \A n \in 1..Len(a) : a[n].to = from => parNow >= a[n].at + Cooldown
        BY <2>1, <3>1, <3>2, LimitHolds
      <4> QED  BY <1>1, <1>8, <4>1, SpacedGrows DEF g
    <3>7. SlotsFilled(u, z, g, k)
      <4>1. Cardinality(Dests(g)) = k
        BY <1>5, <2>1, <3>5
      <4>2. \A j \in 1..Slots : j > k => u[j].from = Nobody
        BY <2>1, <2>3, <3>1, <3>4
      <4>3. ASSUME NEW j \in 1..k
            PROVE  Latest(u[j], g) /\ u[j].from = t[j].from
        <5>1. CASE j = i
          BY <1>2, <1>6, <3>2, <3>4, <5>1
        <5>2. CASE j # i
          <6>1. u[j] = t[j] /\ t[j] \in Entry /\ t[j].from # from
            BY <2>1, <2>3, <3>1, <3>2, <3>4, <5>2
          <6> QED  BY <1>1, <2>1, <6>1, LatestStays DEF g
        <5> QED  BY <5>1, <5>2
      <4>4. \A j, l \in 1..k : u[j].from = u[l].from => j = l
        BY <2>1, <4>3
      <4>5. ASSUME NEW n \in 1..Len(g)
            PROVE  \E j \in 1..k : u[j].from = g[n].to
        <5>1. CASE n \in 1..Len(a)
          BY <1>4, <2>1, <4>3, <5>1
        <5>2. CASE n = Len(a) + 1
          BY <1>1, <1>4, <3>1, <3>2, <4>3, <5>2
        <5> QED  BY <1>4, <5>1, <5>2
      <4> QED  BY <2>1, <3>3, <4>1, <4>2, <4>3, <4>4, <4>5 DEF SlotsFilled
    <3> QED  BY <3>6, <3>7 DEF Rate
  <2>5. CASE Known(t, from) = {}
    <3>1. \A i \in 1..Slots : t[i].from # from
      BY <2>5 DEF Known
    <3>2. from \notin Dests(a)
      BY <2>1, <2>3, <3>1 DEF Dests
    <3>3. Cardinality(Dests(g)) = k + 1
      BY <1>5, <2>1, <3>2
    <3>4. CASE k = Slots
      BY <2>3, <3>3, <3>4 DEF Rate
    <3>5. CASE k # Slots
      <4>1. x = k + 1 /\ k + 1 \in 0..Slots /\ k + 1 \in 1..(k + 1)
        BY <2>1, <2>3, <3>5 DEF NextSlot
      <4>2. u = [t EXCEPT ![k + 1] = entry] /\ z = NextSlot(k + 1)
        BY <2>5, <4>1, NextSlotIs DEF u, z, Refresh, NextIndex, entry
      <4>3. u[k + 1] = entry /\ \A j \in 1..Slots : j # k + 1 => u[j] = t[j]
        BY <2>3, <4>1, <4>2
      <4>4. Spaced(g)
        <5>1. \A n \in 1..Len(a) : a[n].to # from
          BY <3>2 DEF Dests
        <5> QED  BY <1>1, <1>8, <5>1, SpacedGrows DEF g
      <4>5. \A j \in 1..Slots : j > k + 1 => u[j].from = Nobody
        BY <2>1, <2>3, <4>3
      <4>6. ASSUME NEW j \in 1..k
            PROVE  Latest(u[j], g) /\ u[j].from = t[j].from /\ u[j].from # from
        <5>1. u[j] = t[j] /\ t[j] \in Entry /\ t[j].from # from
          BY <2>3, <3>1, <4>3
        <5> QED  BY <1>1, <2>1, <5>1, LatestStays DEF g
      <4>7. \A j \in 1..(k + 1) : j \in 1..k \/ j = k + 1
        BY <2>3
      <4>8. \A j \in 1..(k + 1) : Latest(u[j], g)
        BY <1>6, <4>3, <4>6, <4>7
      <4>9. \A j, l \in 1..(k + 1) : u[j].from = u[l].from => j = l
        BY <1>2, <2>1, <4>3, <4>6, <4>7, SMTT(30), ZenonT(30)
      <4>10. ASSUME NEW n \in 1..Len(g)
             PROVE  \E j \in 1..(k + 1) : u[j].from = g[n].to
        <5>1. CASE n \in 1..Len(a)
          <6>1. PICK j \in 1..k : t[j].from = a[n].to
            BY <2>1, <5>1
          <6>2. j \in 1..(k + 1)
            BY <2>3
          <6> QED  BY <1>4, <4>6, <5>1, <6>1, <6>2
        <5>2. CASE n = Len(a) + 1
          BY <1>1, <1>2, <1>4, <4>1, <4>3, <5>2
        <5> QED  BY <1>4, <5>1, <5>2
      <4>11. SlotsFilled(u, z, g, k + 1)
        BY <3>3, <4>2, <4>5, <4>8, <4>9, <4>10 DEF SlotsFilled
      <4> QED  BY <4>1, <4>4, <4>11 DEF Rate
    <3> QED  BY <3>4, <3>5
  <2> QED  BY <2>4, <2>5
<1>9. Cardinality(Dests(a)) > Slots \/ (Spaced(a) /\ \E k \in 0..Slots : SlotsFilled(t, x, a, k))
  BY DEF Rate
<1> QED  BY <1>7, <1>8, <1>9 DEF u, z, g, y
-----------------------------------------------------------------------------
(* The inductive invariant: the types, the texts pay for the answers, and  *)
(* the tables tell of the answers.                                         *)
ParrotTypes ==
  /\ parNow \in Nat /\ parTexts \in Nat
  /\ parHeard \in [Parrots -> Seq(Message)]
  /\ parTable \in [Parrots -> [1..Slots -> Entry]]
  /\ parIndex \in [Parrots -> 1..Slots]
  /\ parAnswered \in [Parrots -> Seq(Answer)]

Accounted ==
  \A s \in Parrots : Paid(parHeard[s], parAnswered[s], parTexts)

Told ==
  \A s \in Parrots :
    /\ IsFiniteSet(Dests(parAnswered[s]))
    /\ \A n \in 1..Len(parAnswered[s]) : parAnswered[s][n].at <= parNow
    /\ Rate(parTable[s], parIndex[s], parAnswered[s])

ParrotInv == ParrotTypes /\ Accounted /\ Told

LEMMA ParrotStarts == ParrotInit => ParrotInv
<1> SUFFICES ASSUME ParrotInit PROVE ParrotInv
  OBVIOUS
<1> USE DEF ParrotInit
<1>1. ParrotTypes
  BY Constants DEF ParrotTypes, Entry
<1>2. Accounted
  BY NothingPaid DEF Accounted
<1>3. Dests(<<>>) = {}
  BY DEF Dests
<1>4. IsFiniteSet(Dests(<<>>)) /\ Cardinality(Dests(<<>>)) = 0
  BY <1>3, FS_EmptySet
<1>5. ASSUME NEW s \in Parrots
      PROVE  SlotsFilled(parTable[s], parIndex[s], <<>>, 0)
  BY <1>4, Constants DEF SlotsFilled, NextSlot
<1>6. Spaced(<<>>) /\ 0 \in 0..Slots
  BY Constants DEF Spaced
<1>7. ASSUME NEW s \in Parrots
      PROVE  parAnswered[s] = <<>> /\ Rate(parTable[s], parIndex[s], <<>>)
  BY <1>5, <1>6 DEF Rate
<1>8. 1..Len(<<>>) = {}
  OBVIOUS
<1>9. Told
  BY <1>4, <1>7, <1>8 DEF Told
<1> QED  BY <1>1, <1>2, <1>9 DEF ParrotInv

(* A message that is broadcast costs each station at most its weight.      *)
LEMMA BroadcastPaid ==
  ASSUME NEW heard \in [Parrots -> Seq(Message)], NEW ans \in [Parrots -> Seq(Answer)],
         NEW n \in Nat, NEW n2 \in Nat, NEW m \in Message, n2 = n + Weight(m),
         \A s \in Parrots : Paid(heard[s], ans[s], n)
  PROVE  /\ Broadcast(heard, m) \in [Parrots -> Seq(Message)]
         /\ \A s \in Parrots : Paid(Broadcast(heard, m)[s], ans[s], n2)
<1>1. Weight(m) \in 0..1 /\ n <= n2
  BY DEF Weight
<1>2. ASSUME NEW s \in Parrots
      PROVE  /\ Broadcast(heard, m)[s] \in Seq(Message)
             /\ Paid(Broadcast(heard, m)[s], ans[s], n2)
  <2>1. CASE m.from \in Hears[s]
    <3>1. Broadcast(heard, m)[s] = Append(heard[s], m)
      BY <2>1 DEF Broadcast
    <3>2. heard[s] \in Seq(Message) /\ ans[s] \in Seq(Answer)
      OBVIOUS
    <3> QED  BY <1>1, <3>1, <3>2, PaidArrives, AppendProperties
  <2>2. CASE m.from \notin Hears[s]
    <3>1. Broadcast(heard, m)[s] = heard[s]
      BY <2>2 DEF Broadcast
    <3>2. heard[s] \in Seq(Message) /\ ans[s] \in Seq(Answer)
      OBVIOUS
    <3> QED  BY <1>1, <3>1, <3>2, PaidMore
  <2> QED  BY <2>1, <2>2
<1> QED  BY <1>2 DEF Broadcast

LEMMA UserSendsKeeps ==
  ASSUME ParrotInv, UserSends
  PROVE  ParrotInv'
<1> USE DEF UserSends, ParrotInv
<1>1. PICK u \in Users, text \in BOOLEAN :
        parHeard' = Broadcast(parHeard, [from |-> u, text |-> text, prefix |-> FALSE])
  OBVIOUS
<1> DEFINE m == [from |-> u, text |-> text, prefix |-> FALSE]
<1>2. m \in Message /\ Weight(m) = 1 /\ parTexts' = parTexts + Weight(m)
  BY DEF Message, Nodes, Weight
<1>3. parTexts \in Nat /\ parTexts' \in Nat
  BY DEF ParrotTypes
<1> HIDE DEF m
<1>4. /\ parHeard' \in [Parrots -> Seq(Message)]
      /\ \A s \in Parrots : Paid(parHeard'[s], parAnswered[s], parTexts')
  <2>1. parHeard' = Broadcast(parHeard, m)
    BY <1>1 DEF m
  <2>2. /\ parHeard \in [Parrots -> Seq(Message)] /\ parAnswered \in [Parrots -> Seq(Answer)]
        /\ \A s \in Parrots : Paid(parHeard[s], parAnswered[s], parTexts)
    BY DEF ParrotTypes, Accounted
  <2> QED  BY <1>2, <1>3, <2>1, <2>2, BroadcastPaid
<1>5. ParrotTypes'
  BY <1>3, <1>4 DEF ParrotTypes
<1>6. Accounted'
  BY <1>4 DEF Accounted
<1>7. Told'
  BY DEF Told
<1> QED  BY <1>5, <1>6, <1>7

LEMMA TimePassesKeeps ==
  ASSUME ParrotInv, TimePasses
  PROVE  ParrotInv'
<1> USE DEF TimePasses, ParrotInv
<1>1. ParrotTypes'
  BY DEF ParrotTypes
<1>2. Accounted'
  BY DEF Accounted
<1>3. ASSUME NEW s \in Parrots, NEW n \in 1..Len(parAnswered[s])
      PROVE  parAnswered[s][n].at <= parNow + 1
  <2>1. parAnswered[s][n] \in Answer /\ parNow \in Nat
    BY DEF ParrotTypes
  <2>2. parAnswered[s][n].at \in Nat
    BY <2>1 DEF Answer
  <2> QED  BY <2>1, <2>2 DEF Told
<1>4. Told'
  BY <1>3 DEF Told
<1> QED  BY <1>1, <1>2, <1>4

LEMMA HandleReceivedKeeps ==
  ASSUME ParrotInv, NEW s \in Parrots, HandleReceived(s)
  PROVE  ParrotInv'
<1> DEFINE m == Head(parHeard[s])
           t == parTable[s]
           x == parIndex[s]
           a == parAnswered[s]
           y == [to |-> m.from, at |-> parNow]
           reply == [from |-> s, text |-> TRUE, prefix |-> TRUE]
           ok == Answers(s, m) /\ ~Limited(t, m.from)
           popped == Pop(parHeard, s)
<1>1. /\ parNow \in Nat /\ parTexts \in Nat
      /\ parHeard[s] \in Seq(Message) /\ parHeard[s] # <<>>
      /\ t \in [1..Slots -> Entry] /\ x \in 1..Slots /\ a \in Seq(Answer)
  BY DEF ParrotInv, ParrotTypes, HandleReceived
<1>2. m \in Message /\ Tail(parHeard[s]) \in Seq(Message)
  BY <1>1, HeadTailProperties
<1>3. m.from \in Nodes /\ y \in Answer
  BY <1>1, <1>2 DEF Message, Answer
<1>4. reply \in Message /\ Weight(reply) = 0
  BY DEF Message, Weight, Nodes
<1>5. popped \in [Parrots -> Seq(Message)] /\ popped[s] = Tail(parHeard[s])
      /\ \A r \in Parrots : r # s => popped[r] = parHeard[r]
  BY <1>2 DEF Pop, ParrotInv, ParrotTypes
<1>6. parNow' = parNow /\ parTexts' = parTexts
  BY DEF HandleReceived
<1>7. CASE ~ok
  <2>1. parHeard' = popped /\ UNCHANGED <<parTable, parIndex, parAnswered>>
    BY <1>7 DEF HandleReceived
  <2> HIDE DEF m, popped
  <2>2. ASSUME NEW r \in Parrots
        PROVE  Paid(popped[r], parAnswered[r], parTexts)
    <3>1. CASE r = s
      <4>1. Weight(m) \in 0..1 /\ Len(a) <= Len(a) + Weight(m)
        <5>1. Weight(m) \in 0..1
          BY DEF Weight
        <5>2. Len(a) \in Nat
          BY <1>1
        <5> QED  BY <5>1, <5>2
      <4>2. Paid(parHeard[s], a, parTexts)
        BY DEF ParrotInv, Accounted
      <4> QED  BY <1>1, <1>5, <3>1, <4>1, <4>2, PaidHandled DEF m
    <3>2. CASE r # s
      BY <1>5, <3>2 DEF ParrotInv, Accounted
    <3> QED  BY <3>1, <3>2
  <2>3. ParrotTypes'
    BY <1>5, <1>6, <2>1 DEF ParrotInv, ParrotTypes
  <2>4. Accounted'
    BY <1>6, <2>1, <2>2 DEF Accounted
  <2>5. Told'
    BY <1>6, <2>1 DEF ParrotInv, Told
  <2> QED  BY <2>3, <2>4, <2>5 DEF ParrotInv
<1>8. CASE ok
  <2> DEFINE ans == [parAnswered EXCEPT ![s] = Append(a, y)]
  <2>1. /\ parTable' = [parTable EXCEPT ![s] = Refresh(t, x, m.from)]
        /\ parIndex' = [parIndex EXCEPT ![s] = NextIndex(t, x, m.from)]
        /\ parAnswered' = ans
        /\ parHeard' = Broadcast(popped, reply) \/ parHeard' = popped
    BY <1>8 DEF HandleReceived
  <2>2. Weight(m) = 1
    BY <1>8 DEF Answers, Weight
  <2> HIDE DEF m, popped, reply, y
  <2>3. Append(a, y) \in Seq(Answer) /\ Len(Append(a, y)) = Len(a) + 1
        /\ Append(a, y)[Len(a) + 1] = y /\ \A n \in 1..Len(a) : Append(a, y)[n] = a[n]
    BY <1>1, <1>3, AppendProperties
  <2>4. ans \in [Parrots -> Seq(Answer)] /\ ans[s] = Append(a, y)
        /\ \A r \in Parrots : r # s => ans[r] = parAnswered[r]
    BY <2>3 DEF ParrotInv, ParrotTypes
  <2>5. Refresh(t, x, m.from) \in [1..Slots -> Entry] /\ NextIndex(t, x, m.from) \in 1..Slots
    <3>1. Millis \in Int
      BY <1>1, Constants DEF Millis
    <3>2. [from |-> m.from, last |-> Millis] \in Entry
      BY <1>3, <3>1 DEF Entry
    <3>3. (x % Slots) + 1 \in 1..Slots
      BY <1>1, NextSlotIs, Constants DEF NextSlot
    <3> QED  BY <1>1, <3>2, <3>3 DEF Refresh, NextIndex
  <2> HIDE DEF ans
  <2>6. ASSUME NEW r \in Parrots
        PROVE  Paid(popped[r], ans[r], parTexts)
    <3>1. CASE r = s
      <4>1. Len(Append(a, y)) <= Len(a) + Weight(m)
        BY <1>1, <2>2, <2>3
      <4>2. Paid(parHeard[s], a, parTexts)
        BY DEF ParrotInv, Accounted
      <4> QED  BY <1>1, <1>5, <2>3, <2>4, <3>1, <4>1, <4>2, PaidHandled DEF m
    <3>2. CASE r # s
      BY <1>5, <2>4, <3>2 DEF ParrotInv, Accounted
    <3> QED  BY <3>1, <3>2
  <2>7. /\ parHeard' \in [Parrots -> Seq(Message)]
        /\ \A r \in Parrots : Paid(parHeard'[r], ans[r], parTexts)
    <3>1. CASE parHeard' = popped
      BY <1>5, <2>6, <3>1
    <3>2. CASE parHeard' = Broadcast(popped, reply)
      <4>1. parTexts = parTexts + Weight(reply)
        BY <1>1, <1>4
      <4> QED  BY <1>1, <1>4, <1>5, <2>4, <2>6, <3>2, <4>1, BroadcastPaid
    <3> QED  BY <2>1, <3>1, <3>2
  <2>8. ParrotTypes'
    BY <1>6, <2>1, <2>4, <2>5, <2>7 DEF ParrotInv, ParrotTypes
  <2>9. Accounted'
    BY <1>6, <2>1, <2>7 DEF Accounted
  <2>10. ASSUME NEW r \in Parrots
         PROVE  /\ IsFiniteSet(Dests(ans[r]))
                /\ \A n \in 1..Len(ans[r]) : ans[r][n].at <= parNow
                /\ Rate(parTable'[r], parIndex'[r], ans[r])
    <3>1. CASE r = s
      <4>1. /\ IsFiniteSet(Dests(a)) /\ Rate(t, x, a)
            /\ \A n \in 1..Len(a) : a[n].at <= parNow
        BY DEF ParrotInv, Told
      <4>2. IsFiniteSet(Dests(Append(a, y)))
        BY <1>1, <1>3, <4>1, DestsGrow
      <4>3. ASSUME NEW n \in 1..Len(Append(a, y))
            PROVE  Append(a, y)[n].at <= parNow
        <5>1. n \in 1..Len(a) \/ n = Len(a) + 1
          BY <1>1, <2>3
        <5>2. y.at = parNow /\ parNow <= parNow
          BY <1>1 DEF y
        <5> QED  BY <2>3, <4>1, <5>1, <5>2
      <4>4. Rate(Refresh(t, x, m.from), NextIndex(t, x, m.from), Append(a, y))
        BY <1>1, <1>3, <1>8, <4>1, RateAnswers DEF y
      <4>5. parTable'[s] = Refresh(t, x, m.from) /\ parIndex'[s] = NextIndex(t, x, m.from)
        BY <2>1 DEF ParrotInv, ParrotTypes
      <4> QED  BY <2>4, <3>1, <4>2, <4>3, <4>4, <4>5
    <3>2. CASE r # s
      <4>1. parTable'[r] = parTable[r] /\ parIndex'[r] = parIndex[r]
        BY <2>1, <3>2 DEF ParrotInv, ParrotTypes
      <4> QED  BY <2>4, <3>2, <4>1 DEF ParrotInv, Told
    <3> QED  BY <3>1, <3>2
  <2>11. Told'
    BY <1>6, <2>1, <2>10 DEF Told
  <2> QED  BY <2>8, <2>9, <2>11 DEF ParrotInv
<1> QED  BY <1>7, <1>8

(* The invariant bounds the answers by the texts and spaces them.          *)
LEMMA ParrotInvQuiet == ParrotInv => ParrotQuiet
<1> SUFFICES ASSUME ParrotInv, NEW s \in Parrots
             PROVE  LET a == parAnswered[s]
                    IN /\ Len(a) <= parTexts
                       /\ \A i, k \in 1..Len(a) :
                            i < k /\ a[i].to = a[k].to /\ a[k].at < a[i].at + Cooldown
                              => Cardinality(Dests(a)) > Slots
  BY DEF ParrotQuiet, Dests
<1> DEFINE a == parAnswered[s]
<1>1. a \in Seq(Answer) /\ parHeard[s] \in Seq(Message) /\ parTexts \in Nat
  BY DEF ParrotInv, ParrotTypes
<1>2. Len(a) <= parTexts
  BY <1>1, PaidFor DEF ParrotInv, Accounted
<1>3. \A n \in 1..Len(a) : a[n].at \in Nat
  <2>1. \A n \in 1..Len(a) : a[n] \in Answer
    BY <1>1
  <2> QED  BY <2>1 DEF Answer
<1>4. Cardinality(Dests(a)) > Slots \/ Spaced(a)
  BY DEF ParrotInv, Told, Rate
<1>5. CASE Spaced(a)
  BY <1>2, <1>3, <1>5, Constants DEF Spaced
<1> QED  BY <1>2, <1>4, <1>5

(* Parrots that hear each other never send more answers than there were    *)
(* texts, and a station answers no node twice within the second unless it  *)
(* has answered more nodes than it has slots: for any set of stations, any *)
(* number of slots, any range of millis() longer than the second, and any  *)
(* loss of the answers in the packet pool (handleReceived, isRateLimited). *)
THEOREM QuietAlways == ParrotSpec => []ParrotQuiet
<1>1. ParrotInit => ParrotInv
  BY ParrotStarts
<1>2. ParrotInv /\ [ParrotNext]_parVars => ParrotInv'
  <2> SUFFICES ASSUME ParrotInv, [ParrotNext]_parVars
               PROVE  ParrotInv'
    OBVIOUS
  <2>1. CASE UserSends
    BY <2>1, UserSendsKeeps
  <2>2. CASE SetEnabled
    BY <2>2 DEF SetEnabled, ParrotInv, ParrotTypes, Accounted, Told
  <2>3. CASE TimePasses
    BY <2>3, TimePassesKeeps
  <2>4. ASSUME NEW s \in Parrots, HandleReceived(s)
        PROVE  ParrotInv'
    BY <2>4, HandleReceivedKeeps
  <2>5. CASE UNCHANGED parVars
    BY <2>5 DEF parVars, ParrotInv, ParrotTypes, Accounted, Told
  <2> QED  BY <2>1, <2>2, <2>3, <2>4, <2>5 DEF ParrotNext
<1>3. ParrotInv => ParrotQuiet
  BY ParrotInvQuiet
<1> QED  BY <1>1, <1>2, <1>3, PTL DEF ParrotSpec

(***************************************************************************)
(* Start and end of the daemon: OrderlyExit, in every mode, whatever step  *)
(* fails and whenever a signal comes.                                      *)
(***************************************************************************)
BringupTypes ==
  /\ buMode \in Modes
  /\ buRf \in [tx : BOOLEAN, rx : BOOLEAN, bias : BOOLEAN, disabled : BOOLEAN,
               readback : BOOLEAN]
  /\ buHeld \subseteq Locals \cup Sockets \cup Threads \cup {"pty", "link"}

(* What is held at a step: nothing at first, threads between their start   *)
(* and their end.                                                          *)
HeldInTurn ==
  /\ buAt \in {"options", "pty"} => buHeld = {}
  /\ buAt = "listen" => buHeld \subseteq {"pty", "link"}
  /\ buHeld \cap Threads # {} => buAt \in {"activate", "run", "join", "terminated"}

(* The modes that come to a step. *)
ModeAt ==
  /\ buAt \in {"configureTx", "muteBias", "muteDisable", "mute"} =>
       buMode.ota /\ Transmits
  /\ buAt \in {"rxOnly", "configureRx", "vco", "txOff"} => buMode.ota

(* The transmitter: off until it is configured, which only --ota without   *)
(* --rx-only does; muted from then on until the loop; off behind it.       *)
PaInTurn ==
  /\ buRf.tx => buMode.ota /\ Transmits
  /\ buAt \in {"options", "pty", "listen", "telemetry", "save", "device", "rates",
               "loopback", "rxOnly", "configureTx", "restore", "cleanup"} => ~buRf.tx
  /\ buAt = "muteDisable" => ~buRf.bias
  /\ buAt \in {"vco", "streams", "threads", "activate", "txOff"} => ~Radiating

(* What is said of the failures: none before the first, and those that     *)
(* leave the PA on are the ones OrderlyExit names.                         *)
BlameInTurn ==
  /\ buAt \notin {"caught", "cleanupError", "exited", "terminated"} => buBlame = "none"
  /\ buAt \in {"caught", "cleanupError"} /\ Radiating =>
       buBlame \in {"configureTx", "configureRx", "muteBias", "mute"}

BringupInv ==
  BringupTypes /\ HeldInTurn /\ ModeAt /\ PaInTurn /\ BlameInTurn /\ OrderlyExit

LEMMA BringupStarts == BringupInit => BringupInv
BY DEF BringupInit, BringupInv, BringupTypes, HeldInTurn, ModeAt, PaInTurn, BlameInTurn,
       OrderlyExit, Modes, Radiating, Threads, Locals, Sockets, Transmits

(* The steps that may fail. *)
Failing == {"device", "rates", "loopback", "rxOnly", "configureTx", "configureRx",
            "muteBias", "muteDisable", "streams", "activate", "mute", "txOff"}

(* A failure, with the front end as it was or not radiating more.          *)
LEMMA RaiseKeeps ==
  ASSUME BringupInv, Raise, buAt \in Failing,
         buRf' \in [tx : BOOLEAN, rx : BOOLEAN, bias : BOOLEAN, disabled : BOOLEAN,
                    readback : BOOLEAN],
         buRf'.tx => buMode.ota /\ Transmits,
         Radiating' => buAt \in {"configureTx", "configureRx", "muteBias", "mute"}
  PROVE  BringupInv'
<1>1. buMode' = buMode /\ buBlame' = buAt
  BY DEF Raise
<1>2. CASE buHeld \cap Threads # {}
  <2>1. buAt' = "terminated" /\ buHeld' = buHeld
    BY <1>2 DEF Raise
  <2>2. buAt = "activate"
    BY <1>2 DEF BringupInv, HeldInTurn, Failing
  <2> QED
    BY <1>1, <2>1, <2>2
       DEF BringupInv, BringupTypes, HeldInTurn, ModeAt, PaInTurn, BlameInTurn,
           OrderlyExit, Radiating, Transmits, Failing
<1>3. CASE buHeld \cap Threads = {}
  <2>1. buAt' = "caught" /\ buHeld' = buHeld \ Locals
    BY <1>3 DEF Raise
  <2> QED
    BY SMTT(30), <1>1, <1>3, <2>1
       DEF BringupInv, BringupTypes, HeldInTurn, ModeAt, PaInTurn, BlameInTurn,
           OrderlyExit, Radiating, Transmits, Failing
<1> QED
  BY <1>2, <1>3

LEMMA BringupStep == BringupInv /\ [BringupNext]_buVars => BringupInv'
<1> SUFFICES ASSUME BringupInv, [BringupNext]_buVars PROVE BringupInv'
  OBVIOUS
<1> USE DEF BringupInv, BringupTypes, HeldInTurn, ModeAt, PaInTurn, BlameInTurn, Modes,
            OrderlyExit, Radiating, Transmits, To, Leave, Holds, Radio, SameRf, SameRadio,
            Threads, Locals, Sockets
<1>1. CASE ParseOptions
  BY <1>1 DEF ParseOptions
<1>2. CASE OpenPty
  BY <1>2, SMTT(30), ZenonT(30) DEF OpenPty
<1>3. CASE ListenUnix
  BY <1>3, SMTT(30), ZenonT(30) DEF ListenUnix
<1>4. CASE ListenTelemetry
  BY <1>4, SMTT(30), ZenonT(30) DEF ListenTelemetry
<1>5. CASE SaveRegister
  BY <1>5 DEF SaveRegister
<1>6. CASE OpenDevice
  <2>1. CASE Raise
    BY <1>6, <2>1, RaiseKeeps DEF OpenDevice, Failing
  <2> QED
    BY <1>6, <2>1 DEF OpenDevice
<1>7. CASE SetRates
  <2>1. CASE Raise
    BY <1>7, <2>1, RaiseKeeps DEF SetRates, Failing
  <2> QED
    BY <1>7, <2>1 DEF SetRates
<1>8. CASE SetLoopback
  <2>1. CASE Raise /\ SameRf
    BY <1>8, <2>1, RaiseKeeps DEF SetLoopback, Failing
  <2> QED
    BY <1>8, <2>1 DEF SetLoopback
<1>9. CASE TxOffRxOnly
  <2>1. CASE Raise
    BY <1>9, <2>1, RaiseKeeps DEF TxOffRxOnly, Jtag, Failing
  <2> QED
    BY <1>9, <2>1 DEF TxOffRxOnly, Jtag
<1>10. CASE ConfigureTx
  <2>1. CASE Raise
    BY <1>10, <2>1, RaiseKeeps DEF ConfigureTx, Jtag, Failing
  <2> QED
    BY <1>10, <2>1 DEF ConfigureTx, Jtag
<1>11. CASE ConfigureRx
  <2>1. CASE Raise
    BY <1>11, <2>1, RaiseKeeps DEF ConfigureRx, Jtag, Failing
  <2> QED
    BY <1>11, <2>1 DEF ConfigureRx, Jtag
<1>12. CASE PaMuteBias
  <2>1. CASE Raise
    BY <1>12, <2>1, RaiseKeeps DEF PaMuteBias, Jtag, Failing
  <2> QED
    BY <1>12, <2>1 DEF PaMuteBias, Jtag
<1>13. CASE PaMuteDisable
  <2>1. CASE Raise
    BY <1>13, <2>1, RaiseKeeps DEF PaMuteDisable, Jtag, Failing
  <2> QED
    BY <1>13, <2>1 DEF PaMuteDisable, Jtag
<1>14. CASE CheckVco
  BY <1>14 DEF CheckVco
<1>15. CASE SetupStreams
  <2>1. CASE Raise
    BY <1>15, <2>1, RaiseKeeps DEF SetupStreams, Failing
  <2> QED
    BY <1>15, <2>1 DEF SetupStreams
<1>16. CASE StartThreads
  BY <1>16 DEF StartThreads
<1>17. CASE Activate
  <2>1. CASE Raise
    BY <1>17, <2>1, RaiseKeeps DEF Activate, Failing
  <2> QED
    BY <1>17, <2>1 DEF Activate
<1>18. CASE RunBurst
  BY <1>18 DEF RunBurst
<1>19. CASE Signal
  BY <1>19 DEF Signal
<1>20. CASE Stop
  BY <1>20 DEF Stop
<1>21. CASE JoinThreads
  BY <1>21 DEF JoinThreads
<1>22. CASE MuteAtEnd
  <2>1. CASE Raise
    BY <1>22, <2>1, RaiseKeeps DEF MuteAtEnd, Jtag, Failing
  <2> QED
    BY <1>22, <2>1 DEF MuteAtEnd, Jtag
<1>23. CASE TxOff
  <2>1. CASE Raise
    BY <1>23, <2>1, RaiseKeeps DEF TxOff, Jtag, Failing
  <2> QED
    BY <1>23, <2>1 DEF TxOff, Jtag
<1>24. CASE RestoreRegister
  BY <1>24 DEF RestoreRegister
<1>25. CASE CleanupSocks
  BY <1>25 DEF CleanupSocks
<1>26. CASE UNCHANGED buVars
  BY <1>26 DEF buVars
<1> QED
  BY <1>1, <1>2, <1>3, <1>4, <1>5, <1>6, <1>7, <1>8, <1>9, <1>10, <1>11, <1>12,
     <1>13, <1>14, <1>15, <1>16, <1>17, <1>18, <1>19, <1>20, <1>21, <1>22, <1>23,
     <1>24, <1>25, <1>26
     DEF BringupNext

(* However the daemon ends - a refused option, a step that fails, a signal *)
(* at any moment - it has given back what it took, with the exceptions     *)
(* OrderlyExit names, and the PA stays on only behind the failures it      *)
(* names (main of quadrf_lora_phy).                                        *)
THEOREM EndsInOrder == BringupInit /\ [][BringupNext]_buVars => []OrderlyExit
<1>1. BringupInv => OrderlyExit
  BY DEF BringupInv
<1> QED
  BY <1>1, BringupStarts, BringupStep, PTL
-----------------------------------------------------------------------------
(***************************************************************************)
(* The legacy session.  Every frame of lgAir is what meshPacketToAir()     *)
(* makes of a packet the host asked for; the flags, the protobuf and the   *)
(* key stream are read back as they were written, a relay takes one hop    *)
(* off and leaves the rest; so a node on the channel reads what the host   *)
(* meant, after any number of relays, and the eighth finds no hop left.    *)
(***************************************************************************)
LEMMA SettledIs ==
  ASSUME NEW f
  PROVE  Settled(f) = f
BY DEF Settled

(* What is written of a message is read back.                              *)
LEMMA WrittenIsRead ==
  ASSUME NEW m, NEW zero, NEW number, NEW D,
         m = [f \in D |-> m[f]], DOMAIN zero = D,
         \A f, g \in D : number[f] = number[g] => f = g
  PROVE  Parsed(Written(m, zero, number), zero, number) = m
<1> DEFINE W == {number[f] : f \in {f \in D : m[f] # zero[f]}}
           w == [n \in W |-> m[CHOOSE f \in D : number[f] = n]]
           r == [f \in D |-> IF number[f] \in DOMAIN w THEN w[number[f]] ELSE zero[f]]
<1>1. DOMAIN m = D
  OBVIOUS
<1>2. Written(m, zero, number) = w
  <2>1. w = [n \in W |-> w[n]]
    OBVIOUS
  <2>2. Written(m, zero, number) = Settled(w)
    BY <1>1 DEF Written
  <2> HIDE DEF w, W
  <2> QED  BY <2>1, <2>2, SettledIs
<1>3. Parsed(w, zero, number) = r
  <2>1. r = [f \in D |-> r[f]]
    OBVIOUS
  <2>2. Parsed(w, zero, number) = Settled(r)
    BY DEF Parsed
  <2> HIDE DEF r, w
  <2> QED  BY <2>1, <2>2, SettledIs
<1>4. ASSUME NEW f \in D PROVE r[f] = m[f]
  <2>1. (CHOOSE g \in D : number[g] = number[f]) = f
    OBVIOUS
  <2>2. number[f] \in W <=> m[f] # zero[f]
    OBVIOUS
  <2>3. DOMAIN w = W
    OBVIOUS
  <2>4. m[f] # zero[f] => w[number[f]] = m[f]
    BY <2>1, <2>2
  <2> HIDE DEF w, W
  <2> QED  BY <2>2, <2>3, <2>4
<1>5. r = m
  <2>1. r = [f \in D |-> r[f]]
    OBVIOUS
  <2> HIDE DEF r
  <2> QED  BY <2>1, <1>4
<1> QED  BY <1>2, <1>3, <1>5

LEMMA DataIsRead ==
  ASSUME NEW wire
  PROVE  decodeData(encodeData(decodeData(wire))) = decodeData(wire)
<1> DEFINE d == decodeData(wire)
           D == DOMAIN Data
<1>1. d = [f \in D |-> d[f]]
  <2> DEFINE e == [f \in D |-> IF DataField[f] \in DOMAIN wire THEN wire[DataField[f]] ELSE Data[f]]
  <2>1. e = [f \in D |-> e[f]]
    OBVIOUS
  <2>2. d = Settled(e)
    BY DEF decodeData, Parsed
  <2> HIDE DEF e
  <2> QED  BY <2>1, <2>2, SettledIs
<1>2. \A f, g \in D : DataField[f] = DataField[g] => f = g
  BY DEF Data, DataField
<1> HIDE DEF d
<1>3. Parsed(Written(d, Data, DataField), Data, DataField) = d
  BY <1>1, <1>2, WrittenIsRead
<1> QED  BY <1>3 DEF decodeData, encodeData, d

(* A decoded Data has the fields of Data, and its port is written.         *)
LEMMA DataShape ==
  ASSUME NEW wire
  PROVE  decodeData(wire) = [f \in DOMAIN Data |-> decodeData(wire)[f]]
<1> DEFINE e == [f \in DOMAIN Data |-> IF DataField[f] \in DOMAIN wire THEN wire[DataField[f]]
                                       ELSE Data[f]]
<1>1. e = [f \in DOMAIN Data |-> e[f]]
  OBVIOUS
<1>2. decodeData(wire) = Settled(e)
  BY DEF decodeData, Parsed
<1> HIDE DEF e
<1> QED  BY <1>1, <1>2, SettledIs

LEMMA PortWritten ==
  ASSUME NEW d, d = [f \in DOMAIN Data |-> d[f]], d.portnum # 0
  PROVE  DOMAIN encodeData(d) # {}
<1> DEFINE w == [n \in {DataField[f] : f \in {f \in DOMAIN d : d[f] # Data[f]}} |->
                   d[CHOOSE f \in DOMAIN d : DataField[f] = n]]
<1>1. "portnum" \in DOMAIN d /\ Data["portnum"] = 0 /\ DataField["portnum"] = 1
  BY DEF Data, DataField
<1>2. 1 \in DOMAIN w
  BY <1>1
<1>3. w = [n \in DOMAIN w |-> w[n]]
  OBVIOUS
<1>4. encodeData(d) = Settled(w)
  BY DEF encodeData, Written
<1> HIDE DEF w
<1>5. Settled(w) = w
  BY <1>3, SettledIs
<1> QED  BY <1>2, <1>4, <1>5

(* The flags of a frame are the header's.                                  *)
LEMMA FlagsAreRead ==
  ASSUME NEW l \in 0..7, NEW s \in 0..7, NEW a \in BOOLEAN, NEW q \in BOOLEAN
  PROVE  LET flags == l + (IF a THEN 8 ELSE 0) + (IF q THEN 16 ELSE 0) + 32 * s
             h == unpackFlags(flags)
         IN  h = [hop_limit |-> l, want_ack |-> a, via_mqtt |-> q, hop_start |-> s]
<1> DEFINE x == IF a THEN 8 ELSE 0
           y == IF q THEN 16 ELSE 0
           flags == l + x + y + 32 * s
<1>1. flags % 8 = l
  OBVIOUS
<1>2. (flags \div 8) % 2 = (IF a THEN 1 ELSE 0)
  <2>1. flags \div 8 = (IF a THEN 1 ELSE 0) + (IF q THEN 2 ELSE 0) + 4 * s
    OBVIOUS
  <2> QED  BY <2>1
<1>3. (flags \div 16) % 2 = (IF q THEN 1 ELSE 0)
  <2>1. flags \div 16 = (IF q THEN 1 ELSE 0) + 2 * s
    OBVIOUS
  <2> QED  BY <2>1
<1>4. (flags \div 32) % 8 = s
  <2>1. flags \div 32 = s
    OBVIOUS
  <2> QED  BY <2>1
<1> QED  BY <1>1, <1>2, <1>3, <1>4 DEF unpackFlags, kMaxHop

LEMMA PackedFlags ==
  ASSUME NEW h, h.hop_limit \in 0..7, h.hop_start \in 0..7,
         h.want_ack \in BOOLEAN, h.via_mqtt \in BOOLEAN
  PROVE  unpackFlags(packFlags(h)) =
           [hop_limit |-> h.hop_limit, want_ack |-> h.want_ack,
            via_mqtt |-> h.via_mqtt, hop_start |-> h.hop_start]
<1>1. h.hop_limit % kMaxHop = h.hop_limit /\ h.hop_start % kMaxHop = h.hop_start
  BY DEF kMaxHop
<1>2. packFlags(h) = h.hop_limit + (IF h.want_ack THEN 8 ELSE 0)
                       + (IF h.via_mqtt THEN 16 ELSE 0) + 32 * h.hop_start
  BY <1>1 DEF packFlags
<1>3. \A l, s \in 0..7, a, q \in BOOLEAN :
        unpackFlags(l + (IF a THEN 8 ELSE 0) + (IF q THEN 16 ELSE 0) + 32 * s)
          = [hop_limit |-> l, want_ack |-> a, via_mqtt |-> q, hop_start |-> s]
  BY FlagsAreRead
<1> DEFINE F(l, a, q, s) == unpackFlags(l + (IF a THEN 8 ELSE 0) + (IF q THEN 16 ELSE 0) + 32 * s)
           R(l, a, q, s) == [hop_limit |-> l, want_ack |-> a, via_mqtt |-> q, hop_start |-> s]
<1>4. F(h.hop_limit, h.want_ack, h.via_mqtt, h.hop_start)
        = R(h.hop_limit, h.want_ack, h.via_mqtt, h.hop_start)
  <2>1. \A l, s \in 0..7, a, q \in BOOLEAN : F(l, a, q, s) = R(l, a, q, s)
    BY <1>3
  <2> HIDE DEF F, R
  <2> QED  BY Zenon, <2>1
<1> QED  BY <1>2, <1>4

(* What the session may read: a message of the host, whole or with its     *)
(* text garbled, or what several of them mixed may parse as.               *)
Readable ==
  {Asked[i] : i \in DOMAIN Asked} \cup Chimeras \cup {Nothing}
    \cup {Garbled(Asked[i]) : i \in {i \in DOMAIN Asked : Asked[i].head < Asked[i].weight}}

LEMMA ReadableForms ==
  ASSUME NEW ask \in Readable
  PROVE  WellFormed(ask)
<1>1. \A i \in DOMAIN Asked :
        /\ WellFormed(Asked[i])
        /\ Asked[i].head < Asked[i].weight => WellFormed(Garbled(Asked[i]))
  BY Zenon, AskedAssumption
<1>2. \A c \in Chimeras : WellFormed(c)
  BY Zenon, AskedAssumption
<1>3. WellFormed(Nothing)
  BY DEF WellFormed, Nothing
<1> QED  BY <1>1, <1>2, <1>3 DEF Readable

Packet(ask) == decodeMeshPacket(ask.wire)
Packets == {ask \in Readable : ask.kind = "packet"}

(* A decoded packet has the fields of a MeshPacket.                        *)
LEMMA PacketShape ==
  ASSUME NEW wire
  PROVE  LET p == decodeMeshPacket(wire)
         IN  /\ p = [f \in DOMAIN MeshPacketPb |-> p[f]]
             /\ p.decoded = <<>> \/ \E w : p.decoded = <<decodeData(w)>>
<1> DEFINE q == Parsed(wire, MeshPacketPb, MeshPacketField)
           D == DOMAIN MeshPacketPb
           e == [f \in D |-> IF MeshPacketField[f] \in DOMAIN wire THEN wire[MeshPacketField[f]]
                             ELSE MeshPacketPb[f]]
           p == decodeMeshPacket(wire)
<1>1. q = [f \in D |-> q[f]]
  <2>1. e = [f \in D |-> e[f]]
    OBVIOUS
  <2>2. q = Settled(e)
    BY DEF Parsed
  <2> HIDE DEF e, q
  <2> QED  BY <2>1, <2>2, SettledIs
<1>2. "decoded" \in D
  BY DEF MeshPacketPb
<1>3. p = IF q.decoded = <<>> THEN q ELSE [q EXCEPT !.decoded = <<decodeData(@[1])>>]
  BY DEF decodeMeshPacket
<1> HIDE DEF q, p, D
<1>4. p = [f \in D |-> p[f]]
  <2>1. CASE q.decoded = <<>>
    BY <1>1, <1>3, <2>1
  <2>2. CASE q.decoded # <<>>
    <3> DEFINE r == [q EXCEPT !["decoded"] = <<decodeData(q.decoded[1])>>]
    <3>1. p = r
      BY <1>3, <2>2
    <3>2. r = [f \in D |-> r[f]]
      BY <1>1
    <3> HIDE DEF r
    <3> QED  BY <3>1, <3>2
  <2> QED  BY <2>1, <2>2
<1>5. p.decoded = <<>> \/ \E w : p.decoded = <<decodeData(w)>>
  <2>1. CASE q.decoded = <<>>
    BY <1>3, <2>1
  <2>2. CASE q.decoded # <<>>
    <3>1. p.decoded = <<decodeData(q.decoded[1])>>
      BY <1>1, <1>2, <1>3, <2>2
    <3> QED  BY <3>1
  <2> QED  BY <2>1, <2>2
<1> QED  BY <1>4, <1>5 DEF p, D

(* A frame of the packet p, after k relays.                                *)
Hops(h, p, k) ==
  \E l, s \in 0..7 :
    /\ h = [hop_limit |-> l, want_ack |-> p.want_ack, via_mqtt |-> p.via_mqtt,
            hop_start |-> s]
    /\ l + k <= 7 /\ (p.hop_start = 0 => s - l = k)

Text(air, p) ==
  /\ p.decoded # <<>> /\ p.decoded[1].portnum # 0 =>
       air.encrypted = <<[plain |-> encodeData(p.decoded[1]),
                          under |-> {<<"ours", air.id, air.from>>}]>>
  /\ p.decoded = <<>> => air.encrypted = p.encrypted

Carries(air, p, k) ==
  /\ air.from = (IF p.from = 0 THEN OurNode ELSE p.from)
  /\ air.to = (IF p.to = 0 THEN kBroadcastNode ELSE p.to)
  /\ p.id # 0 => air.id = p.id
  /\ p.decoded = <<>> => p.encrypted # <<>>
  /\ Hops(unpackFlags(air.flags), p, k)
  /\ Text(air, p)

(* The frame a packet becomes where the session's counter is q.            *)
First(ask, q) == meshPacketToAir(Filled([seq |-> q], Packet(ask)))

(* The first frame of a packet carries it.                                 *)
LEMMA FirstCarries ==
  ASSUME NEW ask \in Packets, NEW q, First(ask, q) # <<>>
  PROVE  Carries(First(ask, q)[1], Packet(ask), 0)
<1> DEFINE p == Packet(ask)
           f == Filled([seq |-> q], p)
           from == IF p.from = 0 THEN OurNode ELSE p.from
           to == IF p.to = 0 THEN kBroadcastNode ELSE p.to
           limit == IF p.hop_limit = 0 THEN 3 ELSE p.hop_limit
           l == limit % 8
           s == (IF p.hop_start # 0 THEN p.hop_start ELSE limit) % 8
           header == [to |-> to, from |-> from, id |-> f.id, hop_limit |-> l, hop_start |-> s,
                      want_ack |-> p.want_ack, via_mqtt |-> p.via_mqtt, channel |-> "ours",
                      next_hop |-> nodeIdByte(p.next_hop),
                      relay_node |-> nodeIdByte(p.relay_node)]
           wire == IF p.decoded = <<>> THEN <<>> ELSE Submessage(encodeData(p.decoded[1]))
           text == IF wire = <<>> THEN <<>>
                   ELSE <<aesCtr("ours", f.id, from, [plain |-> wire[1], under |-> {}])>>
           content == IF p.encrypted # <<>> THEN p.encrypted ELSE text
           a == First(ask, q)[1]
<1>1. /\ p = [x \in DOMAIN MeshPacketPb |-> p[x]]
      /\ p.decoded = <<>> \/ \E w : p.decoded = <<decodeData(w)>>
  BY PacketShape DEF Packet
<1>2. /\ p.hop_limit \in Nat /\ p.hop_start \in Nat
      /\ p.want_ack \in BOOLEAN /\ p.via_mqtt \in BOOLEAN
      /\ p.decoded = <<>> \/ p.encrypted = <<>>
      /\ OurNode # 0
  <2>1. ask \in Readable /\ ask.kind = "packet"
    BY DEF Packets
  <2>2. WellFormed(ask)
    BY <2>1, ReadableForms
  <2>3. OurNode # 0
    BY Zenon, AskedAssumption
  <2> QED  BY <2>1, <2>2, <2>3 DEF WellFormed, Packet
<1> HIDE DEF p
<1>3. /\ f.from = from /\ f.to = p.to /\ f.hop_limit = limit
      /\ f.id = (IF p.id = 0 THEN q ELSE p.id)
      /\ f.hop_start = p.hop_start /\ f.want_ack = p.want_ack /\ f.via_mqtt = p.via_mqtt
      /\ f.decoded = p.decoded /\ f.encrypted = p.encrypted
      /\ f.next_hop = p.next_hop /\ f.relay_node = p.relay_node
  BY <1>1 DEF Filled, MeshPacketPb
<1>4. from # 0 /\ limit \in Nat /\ l \in 0..7 /\ s \in 0..7
  BY <1>2
<1>5. First(ask, q) = meshPacketToAir(f)
  BY DEF First, p
<1> HIDE DEF f, from
<1>6. /\ ~(f.encrypted = <<>> /\ f.decoded = <<>>)
      /\ a = packPacket(header, content)
  <2> DEFINE F == IF f.from # 0 THEN f.from ELSE OurNode
             H == [to |-> IF f.to # 0 THEN f.to ELSE kBroadcastNode, from |-> F,
                   id |-> f.id, hop_limit |-> f.hop_limit % kMaxHop,
                   hop_start |-> (IF f.hop_start # 0 THEN f.hop_start
                                  ELSE f.hop_limit) % kMaxHop,
                   want_ack |-> f.want_ack, via_mqtt |-> f.via_mqtt,
                   channel |-> "ours", next_hop |-> nodeIdByte(f.next_hop),
                   relay_node |-> nodeIdByte(f.relay_node)]
             W == IF f.decoded = <<>> THEN <<>> ELSE Submessage(encodeData(f.decoded[1]))
             X == IF W = <<>> THEN <<>>
                  ELSE <<aesCtr("ours", f.id, F, [plain |-> W[1], under |-> {}])>>
             C == IF f.encrypted # <<>> THEN f.encrypted ELSE X
  <2>1. F = from
    BY <1>3, <1>4
  <2>2. H = header /\ W = wire
    BY <2>1, <1>3 DEF kMaxHop
  <2>3. X = text
    BY <2>1, <2>2
  <2>4. meshPacketToAir(f) =
          IF f.id = 0 \/ (f.encrypted = <<>> /\ f.decoded = <<>>) \/ TooLong(C) THEN <<>>
          ELSE <<packPacket(H, C)>>
    BY Zenon DEF meshPacketToAir
  <2> HIDE DEF F, H, W, X, header, wire, text
  <2>5. C = content
    BY <1>3, <2>3
  <2> HIDE DEF C, content
  <2>6. /\ ~(f.encrypted = <<>> /\ f.decoded = <<>>)
        /\ First(ask, q) = <<packPacket(H, C)>>
    BY <1>5, <2>4
  <2> QED  BY <2>2, <2>5, <2>6
<1>7. Hops(unpackFlags(packFlags(header)), p, 0)
  <2>1. /\ header.hop_limit = l /\ header.hop_start = s
        /\ header.want_ack = p.want_ack /\ header.via_mqtt = p.via_mqtt
    OBVIOUS
  <2>2. p.hop_start = 0 => s = l
    OBVIOUS
  <2> HIDE DEF header, l, s
  <2>3. unpackFlags(packFlags(header)) =
          [hop_limit |-> l, want_ack |-> p.want_ack, via_mqtt |-> p.via_mqtt, hop_start |-> s]
    BY <1>2, <1>4, <2>1, PackedFlags
  <2>4. l + 0 <= 7 /\ (p.hop_start = 0 => s - l = 0)
    BY <1>4, <2>2
  <2> QED  BY <1>4, <2>3, <2>4 DEF Hops
<1>8. /\ a.from = from /\ a.to = to /\ a.id = f.id /\ a.flags = packFlags(header)
      /\ a.encrypted = content
  BY <1>6 DEF packPacket
<1> HIDE DEF header
<1>9. Text(a, p)
  <2>1. ASSUME p.decoded # <<>>, p.decoded[1].portnum # 0
        PROVE  a.encrypted = <<[plain |-> encodeData(p.decoded[1]),
                                under |-> {<<"ours", a.id, a.from>>}]>>
    <3> DEFINE e == encodeData(p.decoded[1])
    <3>1. PICK w : p.decoded = <<decodeData(w)>>
      BY <1>1, <2>1
    <3>2. p.decoded[1] = decodeData(w)
      BY <3>1
    <3>3. DOMAIN e # {}
      BY <2>1, <3>2, DataShape, PortWritten
    <3> HIDE DEF e
    <3>4. wire = <<e>>
      BY <2>1, <3>3 DEF Submessage, e
    <3> HIDE DEF wire
    <3>5. text = <<aesCtr("ours", f.id, from, [plain |-> e, under |-> {}])>>
      <4>1. wire # <<>> /\ wire[1] = e
        BY <3>4
      <4> QED  BY <4>1
    <3>6. aesCtr("ours", f.id, from, [plain |-> e, under |-> {}])
            = [plain |-> e, under |-> {<<"ours", f.id, from>>}]
      BY DEF aesCtr
    <3> HIDE DEF text
    <3>7. a.encrypted = text
      BY <1>2, <1>8, <2>1
    <3> QED  BY <1>8, <3>5, <3>6, <3>7 DEF e
  <2>2. p.decoded = <<>> => a.encrypted = p.encrypted
    BY <1>3, <1>6, <1>8
  <2> QED  BY <2>1, <2>2 DEF Text
<1>10. /\ p.id # 0 => a.id = p.id
       /\ p.decoded = <<>> => p.encrypted # <<>>
  BY <1>3, <1>6, <1>8
<1>11. Carries(a, p, 0)
  <2> HIDE DEF a
  <2> QED  BY <1>7, <1>8, <1>9, <1>10 DEF Carries, from
<1> QED  BY <1>11 DEF p, a

(* A relay takes one hop off a frame and leaves the rest of it.            *)
LEMMA RelayCarries ==
  ASSUME NEW ask \in Packets, NEW air, NEW k \in Nat, NEW node,
         Carries(air, Packet(ask), k), shouldRelay(air, node)
  PROVE  Carries(prepareRelay(air, node), Packet(ask), k + 1)
<1> DEFINE p == Packet(ask)
           h == unpackPacket(air)[1]
           g == [h EXCEPT !.hop_limit = @ - 1, !.relay_node = nodeIdByte(node)]
           r == prepareRelay(air, node)
<1>1. p.want_ack \in BOOLEAN /\ p.via_mqtt \in BOOLEAN /\ OurNode # 0
  <2>1. WellFormed(ask) /\ ask.kind = "packet"
    BY ReadableForms DEF Packets
  <2>2. OurNode # 0
    BY Zenon, AskedAssumption
  <2> QED  BY <2>1, <2>2 DEF WellFormed, Packet
<1> HIDE DEF p
<1>2. Carries(air, p, k)
  BY DEF p
<1>3. air.from # 0
  BY <1>1, <1>2 DEF Carries
<1>4. PICK l \in 0..7, s \in 0..7 :
        /\ unpackFlags(air.flags) = [hop_limit |-> l, want_ack |-> p.want_ack,
                                     via_mqtt |-> p.via_mqtt, hop_start |-> s]
        /\ l + k <= 7 /\ (p.hop_start = 0 => s - l = k)
  BY <1>2 DEF Carries, Hops
<1>5. h = [to |-> air.to, from |-> air.from, id |-> air.id, channel |-> air.channel,
           hop_limit |-> l, hop_start |-> s, want_ack |-> p.want_ack,
           via_mqtt |-> p.via_mqtt, next_hop |-> air.next_hop,
           relay_node |-> air.relay_node, encrypted |-> air.encrypted]
  BY <1>3, <1>4 DEF unpackPacket
<1> HIDE DEF h
<1>6. l # 0
  BY <1>5 DEF shouldRelay, h
<1>7. /\ g.to = air.to /\ g.from = air.from /\ g.id = air.id /\ g.hop_limit = l - 1
      /\ g.hop_start = s /\ g.want_ack = p.want_ack /\ g.via_mqtt = p.via_mqtt
      /\ h.encrypted = air.encrypted
  BY <1>5
<1>8. r = packPacket(g, h.encrypted)
  BY DEF prepareRelay, h
<1> HIDE DEF g, r
<1>9. /\ r.to = air.to /\ r.from = air.from /\ r.id = air.id
      /\ r.encrypted = air.encrypted /\ r.flags = packFlags(g)
  BY <1>7, <1>8 DEF packPacket
<1>10. l - 1 \in 0..7
  BY <1>6
<1>11. unpackFlags(packFlags(g)) =
         [hop_limit |-> l - 1, want_ack |-> p.want_ack, via_mqtt |-> p.via_mqtt,
          hop_start |-> s]
  <2>1. g.hop_limit \in 0..7 /\ g.hop_start \in 0..7
        /\ g.want_ack \in BOOLEAN /\ g.via_mqtt \in BOOLEAN
    BY <1>1, <1>7, <1>10
  <2> QED  BY <1>7, <2>1, PackedFlags
<1>12. l - 1 + (k + 1) <= 7 /\ (p.hop_start = 0 => s - (l - 1) = k + 1)
  BY <1>4
<1>13. Hops(unpackFlags(r.flags), p, k + 1)
  BY <1>9, <1>10, <1>11, <1>12 DEF Hops
<1>14. Text(r, p)
  BY <1>2, <1>9 DEF Carries, Text
<1>15. Carries(r, p, k + 1)
  BY <1>2, <1>9, <1>13, <1>14 DEF Carries
<1> QED  BY <1>15 DEF r, p

(* What another node on the channel makes of a frame.                      *)
LEMMA CarriedIsHeard ==
  ASSUME NEW ask \in Packets, NEW air, NEW k \in Nat, Carries(air, Packet(ask), k)
  PROVE  k <= 7 /\ ReadAsSent(airToMeshPacket(unpackPacket(air)[1]), Packet(ask), k)
<1> DEFINE p == Packet(ask)
           u == unpackPacket(air)[1]
           h == airToMeshPacket(u)
           text == aesCtr("ours", u.id, u.from, u.encrypted[1])
           data == decodeData(text.plain)
           read == text.under = {} /\ data.portnum # 0
<1>1. /\ OurNode # 0
      /\ p.decoded = <<>> \/ \E w : p.decoded = <<decodeData(w)>>
      /\ p.encrypted # <<>> =>
           LET e == p.encrypted[1]
           IN  /\ e = [plain |-> e.plain, under |-> e.under]
               /\ \A stream \in e.under : stream[1] # "ours"
  <2>1. WellFormed(ask) /\ ask.kind = "packet"
    BY ReadableForms DEF Packets
  <2>2. OurNode # 0
    BY Zenon, AskedAssumption
  <2>3. p.decoded = <<>> \/ \E w : p.decoded = <<decodeData(w)>>
    BY PacketShape DEF Packet
  <2> QED  BY <2>1, <2>2, <2>3 DEF WellFormed, Packet
<1> HIDE DEF p
<1>2. Carries(air, p, k)
  BY DEF p
<1>3. air.from # 0
  BY <1>1, <1>2 DEF Carries
<1>4. PICK l \in 0..7, s \in 0..7 :
        /\ unpackFlags(air.flags) = [hop_limit |-> l, want_ack |-> p.want_ack,
                                     via_mqtt |-> p.via_mqtt, hop_start |-> s]
        /\ l + k <= 7 /\ (p.hop_start = 0 => s - l = k)
  BY <1>2 DEF Carries, Hops
<1>5. /\ u.to = air.to /\ u.from = air.from /\ u.id = air.id
      /\ u.hop_limit = l /\ u.hop_start = s /\ u.want_ack = p.want_ack
      /\ u.via_mqtt = p.via_mqtt /\ u.encrypted = air.encrypted
  BY <1>3, <1>4 DEF unpackPacket
<1> HIDE DEF u
<1>6. h = [MeshPacketZero EXCEPT
             !.from = u.from, !.to = u.to, !.id = u.id, !.hop_limit = u.hop_limit,
             !.hop_start = u.hop_start, !.want_ack = u.want_ack,
             !.via_mqtt = u.via_mqtt, !.next_hop = u.next_hop,
             !.relay_node = u.relay_node,
             !.decoded = IF read THEN <<data>> ELSE <<>>,
             !.encrypted = IF read THEN <<>> ELSE u.encrypted]
  BY DEF airToMeshPacket
<1> HIDE DEF h, read, data
<1>7. /\ h.to = u.to /\ h.from = u.from /\ h.id = u.id
      /\ h.hop_limit = u.hop_limit /\ h.hop_start = u.hop_start
      /\ h.want_ack = u.want_ack /\ h.via_mqtt = u.via_mqtt
      /\ read => h.decoded = <<data>>
      /\ ~read => h.encrypted = u.encrypted
  BY <1>6 DEF MeshPacketZero, MeshPacketPb
<1>8. ASSUME p.decoded # <<>>, p.decoded[1].portnum # 0
      PROVE  h.decoded = p.decoded
  <2>1. PICK w : p.decoded = <<decodeData(w)>>
    BY <1>1, <1>8
  <2>2. p.decoded[1] = decodeData(w)
    BY <2>1
  <2>3. u.encrypted[1] = [plain |-> encodeData(p.decoded[1]),
                          under |-> {<<"ours", u.id, u.from>>}]
    <3> DEFINE r == [plain |-> encodeData(p.decoded[1]),
                     under |-> {<<"ours", air.id, air.from>>}]
    <3>1. air.encrypted = <<r>>
      BY <1>2, <1>8 DEF Carries, Text
    <3> HIDE DEF r
    <3>2. u.encrypted[1] = r
      BY <1>5, <3>1
    <3> QED  BY <1>5, <3>2 DEF r
  <2>4. text = [plain |-> encodeData(p.decoded[1]), under |-> {}]
    BY <2>3 DEF aesCtr
  <2> HIDE DEF text
  <2>5. data = decodeData(encodeData(decodeData(w))) /\ text.under = {}
    BY <2>2, <2>4 DEF data
  <2>6. data = p.decoded[1]
    BY <2>2, <2>5, DataIsRead
  <2>7. read
    BY <1>8, <2>5, <2>6 DEF read
  <2> QED  BY <1>7, <2>1, <2>2, <2>6, <2>7
<1>9. ASSUME p.decoded = <<>> PROVE h.encrypted = p.encrypted
  <2>1. p.encrypted # <<>> /\ u.encrypted = p.encrypted
    BY <1>2, <1>5, <1>9 DEF Carries, Text
  <2> DEFINE e == p.encrypted[1]
             key == <<"ours", u.id, u.from>>
  <2>2. e = [plain |-> e.plain, under |-> e.under] /\ \A stream \in e.under : stream[1] # "ours"
    BY <1>1, <2>1
  <2>3. key[1] = "ours"
    OBVIOUS
  <2>4. key \notin e.under
    BY <2>2, <2>3
  <2>5. text = aesCtr("ours", u.id, u.from, e)
    BY <2>1
  <2> HIDE DEF key, e
  <2>6. text = [e EXCEPT !.under = IF key \in @ THEN @ \ {key} ELSE @ \cup {key}]
    BY <2>5 DEF aesCtr, key
  <2> HIDE DEF text
  <2>7. text.under = e.under \cup {key}
    BY <2>2, <2>4, <2>6
  <2>8. text.under # {}
    BY <2>7
  <2>9. ~read
    BY <2>8 DEF read
  <2> QED  BY <1>7, <2>1, <2>9
<1>10. /\ h.to = (IF p.to = 0 THEN kBroadcastNode ELSE p.to)
       /\ h.from = (IF p.from = 0 THEN OurNode ELSE p.from)
       /\ p.id # 0 => h.id = p.id
  BY <1>2, <1>5, <1>7 DEF Carries
<1>11. /\ h.want_ack = p.want_ack /\ h.via_mqtt = p.via_mqtt
       /\ p.hop_start = 0 => h.hop_start - h.hop_limit = k
       /\ k <= 7
  BY <1>4, <1>5, <1>7
<1>12. ReadAsSent(h, p, k)
  BY <1>8, <1>9, <1>10, <1>11 DEF ReadAsSent
<1> QED  BY <1>11, <1>12 DEF h, u, p
-----------------------------------------------------------------------------
(* What the recursive functions of the module do one step at a time.       *)
Step(what, x, e) ==
  CASE what = "line" -> Deframed(x, e)
    [] what = "session" -> handleToRadio(x, e)
    [] what = "relay" -> Relayed(x)

(* h goes from x over the first m elements of s.                           *)
Runs(h, what, x, s, m) ==
  /\ h = [k \in 0..m |-> h[k]]
  /\ h[0] = x
  /\ \A k \in 1..m : h[k] = Step(what, h[k - 1], s[k])

(* It can go on as far as it likes, ...                                    *)
LEMMA RunsOn ==
  ASSUME NEW what, NEW x, NEW s, NEW N \in Nat
  PROVE  \E h : Runs(h, what, x, s, N)
<1> DEFINE S == {m \in Nat : \E h : Runs(h, what, x, s, m)}
<1>1. 0 \in S
  <2>1. Runs([k \in 0..0 |-> x], what, x, s, 0)
    BY DEF Runs
  <2> QED  BY <2>1
<1>2. ASSUME NEW m \in Nat, m \in S PROVE m + 1 \in S
  <2>1. PICK g : Runs(g, what, x, s, m)
    BY <1>2
  <2> DEFINE next == Step(what, g[m], s[m + 1])
             h == [k \in 0..(m + 1) |-> IF k = m + 1 THEN next ELSE g[k]]
  <2>2. h[m + 1] = next /\ \A k \in 0..m : h[k] = g[k]
    OBVIOUS
  <2>3. h = [k \in 0..(m + 1) |-> h[k]]
    OBVIOUS
  <2> HIDE DEF h
  <2>4. h[0] = x
    BY <2>1, <2>2 DEF Runs
  <2>5. ASSUME NEW k \in 1..(m + 1) PROVE h[k] = Step(what, h[k - 1], s[k])
    <3>1. CASE k = m + 1
      <4>1. k - 1 = m /\ m \in 0..m
        BY <3>1
      <4> QED  BY <2>2, <3>1, <4>1
    <3>2. CASE k \in 1..m
      <4>1. k \in 0..m /\ k - 1 \in 0..m
        BY <3>2
      <4>2. g[k] = Step(what, g[k - 1], s[k])
        BY <2>1, <3>2 DEF Runs
      <4> QED  BY <2>2, <4>1, <4>2
    <3> QED  BY <3>1, <3>2
  <2>6. Runs(h, what, x, s, m + 1)
    BY <2>3, <2>4, <2>5 DEF Runs
  <2> QED  BY <2>6
<1>3. Nat \subseteq S
  <2> HIDE DEF S
  <2> QED  BY <1>1, <1>2, SetInduction
<1> QED  BY <1>3

Stepped(y, what, x, s, N) ==
  [k \in 0..N |-> IF k = 0 THEN x ELSE Step(what, y[k - 1], s[k])]

(* The recursion has a solution, and what solves it takes these steps.     *)
LEMMA Recursion ==
  ASSUME NEW what, NEW x, NEW s, NEW N \in Nat
  PROVE  /\ \E y : y = Stepped(y, what, x, s, N)
         /\ \A y : y = Stepped(y, what, x, s, N) => Runs(y, what, x, s, N)
<1>1. PICK g : Runs(g, what, x, s, N)
  BY RunsOn
<1>2. g = Stepped(g, what, x, s, N)
  <2>1. \A k \in 0..N : k # 0 => k \in 1..N
    OBVIOUS
  <2> QED  BY <1>1, <2>1 DEF Runs, Stepped
<1>3. ASSUME NEW y, y = Stepped(y, what, x, s, N) PROVE Runs(y, what, x, s, N)
  <2>1. y = [k \in 0..N |-> IF k = 0 THEN x ELSE Step(what, y[k - 1], s[k])]
    BY <1>3 DEF Stepped
  <2>2. y[0] = x /\ y = [k \in 0..N |-> y[k]]
    BY <2>1
  <2>3. \A k \in 1..N : y[k] = Step(what, y[k - 1], s[k])
    BY <2>1
  <2> QED  BY <2>2, <2>3 DEF Runs
<1> QED  BY <1>2, <1>3

(* ... and so Over() and Relays() are the last of such steps.              *)
LEMMA OverLine ==
  ASSUME NEW x, NEW s, Len(s) \in Nat
  PROVE  \E h : Runs(h, "line", x, s, Len(s)) /\ Over(Deframed, x, s) = h[Len(s)]
<1> DEFINE N == Len(s)
           Def(y) == [k \in 0..N |->
                        IF k = 0 THEN x
                        ELSE CHOOSE z \in {Deframed(v, s[k]) : v \in {y[k - 1]}} : TRUE]
           y0 == CHOOSE y : y = Def(y)
<1>1. Over(Deframed, x, s) = y0[N]
  BY DEF Over
<1> HIDE DEF N
<1>2. ASSUME NEW y PROVE Def(y) = Stepped(y, "line", x, s, N)
  <2>1. ASSUME NEW k \in 0..N
        PROVE  (CHOOSE z \in {Deframed(v, s[k]) : v \in {y[k - 1]}} : TRUE)
                 = Step("line", y[k - 1], s[k])
    <3>1. {Deframed(v, s[k]) : v \in {y[k - 1]}} = {Deframed(y[k - 1], s[k])}
      OBVIOUS
    <3> QED  BY <3>1 DEF Step
  <2> QED  BY <2>1 DEF Stepped
<1> HIDE DEF Def
<1>3. N \in Nat
  BY DEF N
<1>4. y0 = Def(y0)
  <2>1. \E y : y = Def(y)
    BY <1>2, <1>3, Recursion
  <2> QED  BY <2>1
<1> HIDE DEF y0
<1>5. Runs(y0, "line", x, s, N)
  BY <1>2, <1>3, <1>4, Recursion
<1> QED  BY <1>1, <1>5 DEF N

LEMMA OverSession ==
  ASSUME NEW x, NEW s, Len(s) \in Nat
  PROVE  \E h : Runs(h, "session", x, s, Len(s)) /\ Over(handleToRadio, x, s) = h[Len(s)]
<1> DEFINE N == Len(s)
           Def(y) == [k \in 0..N |->
                        IF k = 0 THEN x
                        ELSE CHOOSE z \in {handleToRadio(v, s[k]) : v \in {y[k - 1]}} : TRUE]
           y0 == CHOOSE y : y = Def(y)
<1>1. Over(handleToRadio, x, s) = y0[N]
  BY DEF Over
<1> HIDE DEF N
<1>2. ASSUME NEW y PROVE Def(y) = Stepped(y, "session", x, s, N)
  <2>1. ASSUME NEW k \in 0..N
        PROVE  (CHOOSE z \in {handleToRadio(v, s[k]) : v \in {y[k - 1]}} : TRUE)
                 = Step("session", y[k - 1], s[k])
    <3>1. {handleToRadio(v, s[k]) : v \in {y[k - 1]}} = {handleToRadio(y[k - 1], s[k])}
      OBVIOUS
    <3> QED  BY <3>1 DEF Step
  <2> QED  BY <2>1 DEF Stepped
<1> HIDE DEF Def
<1>3. N \in Nat
  BY DEF N
<1>4. y0 = Def(y0)
  <2>1. \E y : y = Def(y)
    BY <1>2, <1>3, Recursion
  <2> QED  BY <2>1
<1> HIDE DEF y0
<1>5. Runs(y0, "session", x, s, N)
  BY <1>2, <1>3, <1>4, Recursion
<1> QED  BY <1>1, <1>5 DEF N

LEMMA RelaysRun ==
  ASSUME NEW air
  PROVE  Runs(Relays(air), "relay", {air}, <<>>, kMaxHop)
<1> DEFINE N == kMaxHop
           Def(y) == [k \in 0..N |-> IF k = 0 THEN {air} ELSE Relayed(y[k - 1])]
           y0 == CHOOSE y : y = Def(y)
<1>1. Relays(air) = y0
  BY DEF Relays
<1>2. ASSUME NEW y PROVE Def(y) = Stepped(y, "relay", {air}, <<>>, N)
  BY DEF Stepped, Step
<1>3. N \in Nat
  BY DEF kMaxHop
<1> HIDE DEF Def, N
<1>4. y0 = Def(y0)
  <2>1. \E y : y = Def(y)
    BY <1>2, <1>3, Recursion
  <2> QED  BY <2>1
<1> HIDE DEF y0
<1>5. Runs(y0, "relay", {air}, <<>>, N)
  BY <1>2, <1>3, <1>4, Recursion
<1> QED  BY <1>1, <1>5 DEF N
-----------------------------------------------------------------------------
(* The deframer and the session keep their shapes, and what goes on the    *)
(* air is made of packets the host asked for.                              *)
Units == [byte : Nat, of : Nat, piece : Nat]

LineOk(d) ==
  /\ d = [f \in {"state", "len", "buf", "out"} |-> d[f]]
  /\ d.state \in {"kScanStart1", "kExpectStart2", "kLenHi", "kLenLo", "kPayload"}
  /\ d.buf \in Seq(Units) /\ d.out \in Seq(Seq(Units))

(* The frames the packets become, the packets, and the messages they are.  *)
Airs ==
  {[air |-> First(x[1], x[2])[1], packet |-> Packet(x[1]), ask |-> x[3]] :
     x \in {x \in Packets \X Nat \X (DOMAIN Asked \cup {0}) :
              First(x[1], x[2]) # <<>> /\ (x[3] # 0 => x[1] = Asked[x[3]])}}

SessionOk(s) ==
  /\ s = [f \in {"seq", "from", "air", "handled"} |-> s[f]]
  /\ s.seq \in Nat /\ s.air \in Seq(Airs)

(* The session t has read and sent what s has.                             *)
Same(t, s) == SessionOk(t) /\ t.handled = s.handled /\ t.air = s.air

(* What the session gets for a payload.                                    *)
GotOk(got) ==
  /\ got.ask \in Readable /\ got.of \in DOMAIN Asked \cup {0}
  /\ got.of # 0 => got.ask = Asked[got.of]

(* The session t is s after it has read got.                               *)
Took(s, got, t) ==
  /\ SessionOk(t)
  /\ t.handled = IF got.of = 0 THEN s.handled ELSE Append(s.handled, got.of)
  /\ \/ t.air = s.air
     \/ \E e \in Airs :
          t.air = Append(s.air, e) /\ e.ask = got.of /\ got.ask.kind = "packet"

Gots(o, luck) == [n \in DOMAIN o |-> Reading(o[n], luck[n])]

(* w is what the session gets for the payloads o: of a payload that is     *)
(* empty no packet, of a message its number.                               *)
GotsFor(w, o) ==
  /\ Len(w) = Len(o) /\ Len(w) \in Nat
  /\ \A k \in 1..Len(w) :
       /\ GotOk(w[k])
       /\ w[k].of = IF IsWhole(o[k]) THEN o[k][1].of ELSE 0
       /\ w[k].of = 0 <=> ~IsWhole(o[k])
       /\ o[k] = <<>> => w[k].ask.kind # "packet"

LEMMA LineBecomes ==
  /\ \A o \in Seq(Seq(Units)) : LineOk([Scanning EXCEPT !.out = o])
  /\ \A d : LineOk(d) =>
       /\ \A a \in {"kScanStart1", "kExpectStart2", "kLenHi", "kLenLo", "kPayload"} :
            LineOk([d EXCEPT !.state = a])
       /\ \A n : LineOk([d EXCEPT !.state = "kLenLo", !.len = n])
       /\ \A n : LineOk([d EXCEPT !.state = "kPayload", !.len = n, !.buf = <<>>])
       /\ \A b \in Seq(Units) : LineOk([d EXCEPT !.buf = b])
<1>1. <<>> \in Seq(Units)
  OBVIOUS
<1>2. \A o \in Seq(Seq(Units)) : LineOk([Scanning EXCEPT !.out = o])
  BY <1>1 DEF LineOk, Scanning
<1>3. ASSUME NEW d, LineOk(d)
      PROVE  /\ \A a \in {"kScanStart1", "kExpectStart2", "kLenHi", "kLenLo", "kPayload"} :
                  LineOk([d EXCEPT !.state = a])
             /\ \A n : LineOk([d EXCEPT !.state = "kLenLo", !.len = n])
             /\ \A n : LineOk([d EXCEPT !.state = "kPayload", !.len = n, !.buf = <<>>])
             /\ \A b \in Seq(Units) : LineOk([d EXCEPT !.buf = b])
  <2>1. ASSUME NEW a \in {"kScanStart1", "kExpectStart2", "kLenHi", "kLenLo", "kPayload"}
        PROVE  LineOk([d EXCEPT !.state = a])
    BY <1>3 DEF LineOk
  <2>2. ASSUME NEW n PROVE LineOk([d EXCEPT !.state = "kLenLo", !.len = n])
    <3> DEFINE r == [d EXCEPT !.state = "kLenLo", !.len = n]
    <3>1. /\ r = [f \in {"state", "len", "buf", "out"} |-> r[f]]
          /\ r.state = "kLenLo" /\ r.buf = d.buf /\ r.out = d.out
      BY <1>3 DEF LineOk
    <3>2. d.buf \in Seq(Units) /\ d.out \in Seq(Seq(Units))
      BY <1>3 DEF LineOk
    <3> HIDE DEF r
    <3>3. LineOk(r)
      BY <3>1, <3>2 DEF LineOk
    <3> QED  BY <3>3 DEF r
  <2>3. ASSUME NEW n
        PROVE  LineOk([d EXCEPT !.state = "kPayload", !.len = n, !.buf = <<>>])
    <3> DEFINE r == [d EXCEPT !.state = "kPayload", !.len = n, !.buf = <<>>]
    <3>1. /\ r = [f \in {"state", "len", "buf", "out"} |-> r[f]]
          /\ r.state = "kPayload" /\ r.buf = <<>> /\ r.out = d.out
      BY <1>3 DEF LineOk
    <3>2. d.out \in Seq(Seq(Units))
      BY <1>3 DEF LineOk
    <3> HIDE DEF r
    <3>3. LineOk(r)
      BY <1>1, <3>1, <3>2 DEF LineOk
    <3> QED  BY <3>3 DEF r
  <2>4. ASSUME NEW b \in Seq(Units) PROVE LineOk([d EXCEPT !.buf = b])
    BY <1>3 DEF LineOk
  <2> QED  BY <2>1, <2>2, <2>3, <2>4
<1> QED  BY <1>2, <1>3

LEMMA SessionBecomes ==
  ASSUME NEW s, SessionOk(s)
  PROVE  /\ \A q \in Nat : Same([s EXCEPT !.seq = q], s)
         /\ \A q \in Nat : \A f : Same([s EXCEPT !.seq = q, !.from = f], s)
         /\ \A a \in Seq(Airs) :
              LET t == [s EXCEPT !.air = a]
              IN  SessionOk(t) /\ t.handled = s.handled /\ t.air = a
         /\ \A n :
              LET t == [s EXCEPT !.handled = n]
              IN  SessionOk(t) /\ t.handled = n /\ t.air = s.air
<1>1. ASSUME NEW q \in Nat PROVE Same([s EXCEPT !.seq = q], s)
  BY DEF SessionOk, Same
<1>2. ASSUME NEW q \in Nat, NEW f PROVE Same([s EXCEPT !.seq = q, !.from = f], s)
  <2> DEFINE r == [s EXCEPT !.seq = q, !.from = f]
  <2>1. /\ r = [x \in {"seq", "from", "air", "handled"} |-> r[x]]
        /\ r.seq = q /\ r.air = s.air /\ r.handled = s.handled
    BY DEF SessionOk
  <2>2. s.air \in Seq(Airs)
    BY DEF SessionOk
  <2> HIDE DEF r
  <2>3. Same(r, s)
    BY <2>1, <2>2 DEF SessionOk, Same
  <2> QED  BY <2>3 DEF r
<1>3. ASSUME NEW a \in Seq(Airs)
      PROVE  LET t == [s EXCEPT !.air = a]
             IN  SessionOk(t) /\ t.handled = s.handled /\ t.air = a
  BY DEF SessionOk
<1>4. ASSUME NEW n
      PROVE  LET t == [s EXCEPT !.handled = n]
             IN  SessionOk(t) /\ t.handled = n /\ t.air = s.air
  BY DEF SessionOk
<1> QED  BY <1>1, <1>2, <1>3, <1>4

LEMMA LineStep ==
  ASSUME NEW d, LineOk(d), NEW u \in Units
  PROVE  LineOk(Deframed(d, u))
<1>1. d.buf \in Seq(Units) /\ d.out \in Seq(Seq(Units))
  BY DEF LineOk
<1>2. ASSUME NEW state \in {"kScanStart1", "kExpectStart2", "kLenHi", "kLenLo", "kPayload"}
      PROVE  LineOk(Goes(d, state))
  BY LineBecomes DEF Goes
<1>3. CASE d.state = "kScanStart1"
  BY <1>2, <1>3 DEF Deframed
<1>4. CASE d.state = "kExpectStart2"
  BY <1>2, <1>4 DEF Deframed, ExpectStart2
<1>5. CASE d.state = "kLenHi"
  <2>1. Deframed(d, u) = [d EXCEPT !.state = "kLenLo", !.len = u.byte * Base]
    BY <1>5 DEF Deframed
  <2> DEFINE n == u.byte * Base
  <2> HIDE DEF n
  <2>2. LineOk([d EXCEPT !.state = "kLenLo", !.len = n])
    BY LineBecomes
  <2> QED  BY <2>1, <2>2 DEF n
<1>6. CASE d.state = "kLenLo"
  <2>1. Deframed(d, u) = LenLo(d, u.byte)
    BY <1>6 DEF Deframed
  <2> DEFINE o == Append(d.out, <<>>)
             n == d.len + u.byte
  <2>2. o \in Seq(Seq(Units))
    BY <1>1
  <2>3. LenLo(d, u.byte) =
          IF n > MaxPayload THEN [Scanning EXCEPT !.out = d.out]
          ELSE IF n = 0 THEN [Scanning EXCEPT !.out = o]
          ELSE [d EXCEPT !.state = "kPayload", !.len = n, !.buf = <<>>]
    BY Zenon DEF LenLo
  <2> HIDE DEF o, n
  <2>4. /\ LineOk([Scanning EXCEPT !.out = d.out])
        /\ LineOk([Scanning EXCEPT !.out = o])
        /\ LineOk([d EXCEPT !.state = "kPayload", !.len = n, !.buf = <<>>])
    BY <1>1, <2>2, LineBecomes
  <2> QED  BY <2>1, <2>3, <2>4
<1>7. CASE d.state = "kPayload"
  <2>1. Deframed(d, u) = InPayload(d, u)
    BY <1>7 DEF Deframed
  <2> DEFINE b == Append(d.buf, u)
             o == Append(d.out, b)
  <2>2. b \in Seq(Units)
    BY <1>1
  <2>3. o \in Seq(Seq(Units))
    BY <1>1, <2>2
  <2>4. InPayload(d, u) = IF Len(d.buf) + 1 < d.len THEN [d EXCEPT !.buf = b]
                          ELSE [Scanning EXCEPT !.out = o]
    BY Zenon DEF InPayload
  <2> HIDE DEF b, o
  <2>5. LineOk([d EXCEPT !.buf = b]) /\ LineOk([Scanning EXCEPT !.out = o])
    BY <2>2, <2>3, LineBecomes
  <2> QED  BY <2>1, <2>4, <2>5
<1> QED  BY <1>3, <1>4, <1>5, <1>6, <1>7 DEF LineOk

LEMMA FromKeeps ==
  ASSUME NEW s, SessionOk(s), NEW kind, NEW body
  PROVE  Same(enqueueFrom(s, kind, body), s)
<1> DEFINE q == s.seq + 1
           f == Append(s.from, FromRadio(s.seq, kind, body))
<1>1. enqueueFrom(s, kind, body) = [s EXCEPT !.seq = q, !.from = f]
  BY Zenon DEF enqueueFrom
<1>2. q \in Nat
  BY DEF SessionOk
<1> HIDE DEF q, f
<1>3. Same([s EXCEPT !.seq = q, !.from = f], s)
  BY Zenon, <1>2, SessionBecomes
<1> QED  BY <1>1, <1>3

LEMMA PacketDecoded ==
  ASSUME NEW ask \in Readable, decodeToRadio(ask) # <<>>
  PROVE  LET msg == decodeToRadio(ask)
         IN  msg[1].kind = "packet" => ask \in Packets /\ msg[1].packet = Packet(ask)
<1> DEFINE msg == decodeToRadio(ask)
<1>1. CASE ask.kind = "packet"
  <2>1. msg = <<[kind |-> "packet", packet |-> Packet(ask)]>>
    BY <1>1 DEF decodeToRadio, Packet
  <2> QED  BY <1>1, <2>1 DEF Packets
<1>2. CASE ask.kind = "want_config"
  <2>1. msg = <<[kind |-> "want_config", nonce |-> ask.nonce]>>
    BY <1>2 DEF decodeToRadio
  <2> QED  BY <2>1
<1>3. CASE ask.kind \in {"heartbeat", "disconnect"}
  <2>1. msg = <<[kind |-> ask.kind]>>
    BY <1>3 DEF decodeToRadio
  <2> QED  BY <1>3, <2>1
<1>4. CASE ask.kind \notin {"packet", "want_config", "heartbeat", "disconnect"}
  <2>1. msg = <<>>
    BY <1>4 DEF decodeToRadio
  <2> QED  BY <2>1
<1> QED  BY <1>1, <1>2, <1>3, <1>4

(* The session t is s, and a frame for got may have gone on the air.       *)
MaySend(s, got, t) ==
  /\ SessionOk(t) /\ t.handled = s.handled
  /\ \/ t.air = s.air
     \/ \E e \in Airs : t.air = Append(s.air, e) /\ e.ask = got.of

(* A packet goes on the air as the frame it becomes, if it becomes one.    *)
LEMMA PacketSent ==
  ASSUME NEW s, SessionOk(s), NEW got, GotOk(got), got.ask \in Packets,
         NEW p, p = Packet(got.ask)
  PROVE  MaySend(s, got, SendPacket(s, got.of, p))
<1> DEFINE pkt == Filled(s, p)
           sent == [s EXCEPT !.seq = IF p.id = 0 THEN @ + 1 ELSE @]
           air == meshPacketToAir(pkt)
           e == [air |-> air[1], packet |-> p, ask |-> got.of]
           gone == [sent EXCEPT !.air = Append(@, e)]
           t == SendPacket(s, got.of, p)
<1>1. Same(sent, s)
  <2> DEFINE q == IF p.id = 0 THEN s.seq + 1 ELSE s.seq
  <2>1. sent = [s EXCEPT !.seq = q]
    BY Zenon
  <2>2. q \in Nat
    BY DEF SessionOk
  <2> HIDE DEF q, sent
  <2> QED  BY <2>1, <2>2, SessionBecomes
<1>2. pkt = Filled([seq |-> s.seq], p)
  BY DEF Filled
<1>3. s.seq \in Nat /\ air = First(got.ask, s.seq)
  BY <1>2 DEF First, SessionOk
<1>4. t = IF air = <<>> THEN sent
          ELSE enqueueFrom(gone, "queue_status",
                           encodeQueueStatus(kTxQueueMaxlen - 1, kTxQueueMaxlen, pkt.id))
  BY Zenon DEF SendPacket
<1> HIDE DEF sent, air, pkt
<1>5. CASE air = <<>>
  <2>1. t = sent
    BY <1>4, <1>5
  <2> HIDE DEF t
  <2> QED  BY <1>1, <2>1 DEF MaySend, Same, t
<1>6. CASE air # <<>>
  <2>1. e \in Airs
    <3> DEFINE y == <<got.ask, s.seq, got.of>>
               Y == {x \in Packets \X Nat \X (DOMAIN Asked \cup {0}) :
                      First(x[1], x[2]) # <<>> /\ (x[3] # 0 => x[1] = Asked[x[3]])}
    <3>1. /\ y \in Packets \X Nat \X (DOMAIN Asked \cup {0})
          /\ y[1] = got.ask /\ y[2] = s.seq /\ y[3] = got.of
      BY <1>3 DEF GotOk
    <3> HIDE DEF y
    <3>2. First(y[1], y[2]) # <<>> /\ air = First(y[1], y[2]) /\ p = Packet(y[1])
      BY <1>3, <1>6, <3>1
    <3>3. y[3] # 0 => y[1] = Asked[y[3]]
      BY <3>1 DEF GotOk
    <3>4. y \in Y
      BY <3>1, <3>2, <3>3
    <3>5. e = [air |-> First(y[1], y[2])[1], packet |-> Packet(y[1]), ask |-> y[3]]
      BY <3>1, <3>2
    <3> HIDE DEF Y, e
    <3>6. Airs = {[air |-> First(x[1], x[2])[1], packet |-> Packet(x[1]), ask |-> x[3]] :
                    x \in Y}
      BY Zenon DEF Airs, Y
    <3> QED  BY <3>4, <3>5, <3>6
  <2>2. e.ask = got.of
    OBVIOUS
  <2> DEFINE a == Append(sent.air, e)
  <2>3. gone = [sent EXCEPT !.air = a]
    BY Zenon
  <2> HIDE DEF e
  <2>4. a \in Seq(Airs)
    BY <1>1, <2>1 DEF SessionOk, Same
  <2>5. a = Append(s.air, e)
    BY <1>1 DEF Same
  <2> HIDE DEF a, gone
  <2>6. SessionOk(gone) /\ gone.handled = s.handled /\ gone.air = a
    BY <1>1, <2>3, <2>4, SessionBecomes DEF Same
  <2>7. Same(t, gone)
    BY <1>4, <1>6, <2>6, FromKeeps
  <2> HIDE DEF t
  <2>8. SessionOk(t) /\ t.handled = s.handled /\ t.air = Append(s.air, e)
    BY <2>5, <2>6, <2>7 DEF Same
  <2> QED  BY <2>1, <2>2, <2>8 DEF MaySend, t
<1> QED  BY <1>5, <1>6

LEMMA SessionStep ==
  ASSUME NEW s, SessionOk(s), NEW got, GotOk(got)
  PROVE  Took(s, got, handleToRadio(s, got))
<1> DEFINE h == IF got.of = 0 THEN s.handled ELSE Append(s.handled, got.of)
           seen == [s EXCEPT !.handled = h]
           msg == decodeToRadio(got.ask)
           k == msg[1].kind
           p == msg[1].packet
           t == handleToRadio(s, got)
<1>1. seen = [s EXCEPT !.handled = IF got.of = 0 THEN @ ELSE Append(@, got.of)]
  BY Zenon
<1>2. t = IF msg = <<>> THEN seen
          ELSE CASE k = "want_config" -> SendAll(seen, startConfig(msg[1].nonce))
                 [] k = "packet" -> SendPacket(seen, got.of, p)
                 [] OTHER -> seen
  BY Zenon, <1>1 DEF handleToRadio
<1> HIDE DEF h
<1>3. SessionOk(seen) /\ seen.handled = h /\ seen.air = s.air
  BY Zenon, SessionBecomes DEF seen
<1> HIDE DEF seen, t
<1>4. SessionOk(t) /\ t.handled = h /\ t.air = s.air => Took(s, got, t)
  BY DEF Took, h
<1>5. CASE t = seen
  BY <1>3, <1>4, <1>5 DEF t
<1>6. CASE t = SendAll(seen, startConfig(msg[1].nonce))
  <2> DEFINE messages == startConfig(msg[1].nonce)
  <2>1. Len(messages) \in Nat
    BY DEF startConfig
  <2> HIDE DEF messages
  <2> DEFINE q == seen.seq + Len(messages)
             f == seen.from \o [j \in DOMAIN messages |->
                    FromRadio(seen.seq + j - 1, messages[j][1], messages[j][2])]
  <2>2. SendAll(seen, messages) = [seen EXCEPT !.seq = q, !.from = f]
    BY Zenon DEF SendAll
  <2>3. q \in Nat
    BY <1>3, <2>1 DEF SessionOk
  <2> HIDE DEF q, f
  <2>4. Same([seen EXCEPT !.seq = q, !.from = f], seen)
    BY Zenon, <1>3, <2>3, SessionBecomes
  <2>5. Same(t, seen)
    BY <1>6, <2>2, <2>4 DEF messages
  <2> QED  BY <1>3, <1>4, <2>5 DEF Same, t
<1>7. CASE msg # <<>> /\ k = "packet" /\ t = SendPacket(seen, got.of, p)
  <2>1. got.ask \in Packets /\ p = Packet(got.ask)
    BY <1>7, PacketDecoded DEF GotOk
  <2>2. got.ask.kind = "packet"
    BY <2>1 DEF Packets
  <2> HIDE DEF p
  <2> DEFINE z == SendPacket(seen, got.of, p)
  <2>z. MaySend(seen, got, z)
    BY <1>3, <2>1, PacketSent
  <2>t. t = z
    BY <1>7
  <2> HIDE DEF z
  <2>3. /\ SessionOk(t) /\ t.handled = h
        /\ \/ t.air = s.air
           \/ \E e \in Airs : t.air = Append(s.air, e) /\ e.ask = got.of
    BY <1>3, <2>t, <2>z DEF MaySend
  <2>4. Took(s, got, t)
    BY <2>2, <2>3 DEF Took, h
  <2> QED  BY <2>4 DEF t
<1>8. \/ t = seen
      \/ t = SendAll(seen, startConfig(msg[1].nonce))
      \/ msg # <<>> /\ k = "packet" /\ t = SendPacket(seen, got.of, p)
  BY <1>2 DEF t
<1> QED  BY <1>5, <1>6, <1>7, <1>8

(* What the session gets for a payload is readable, and no packet if the   *)
(* payload is empty.                                                       *)
LEMMA ReadingOk ==
  ASSUME NEW x, NEW luck, Mixed(x) => luck \in Chimeras \cup {Nothing}
  PROVE  LET got == Reading(x, luck)
         IN  /\ GotOk(got)
             /\ got.of = IF IsWhole(x) THEN x[1].of ELSE 0
             /\ got.of = 0 <=> ~IsWhole(x)
             /\ x = <<>> => got.ask.kind # "packet"
<1> DEFINE got == Reading(x, luck)
           i == x[1].of
<1>1. DOMAIN Asked = 1..Len(Asked) /\ Len(Asked) \in Nat
  BY Zenon, AskedAssumption
<1>2. Nothing.kind # "packet" /\ Nothing \in Readable
  BY DEF Nothing, Readable
<1>3. CASE IsWhole(x)
  <2>1. got = [ask |-> Asked[i], of |-> i]
    BY <1>3 DEF Reading
  <2>i. i \in DOMAIN Asked /\ x # <<>>
    BY <1>3 DEF IsWhole
  <2>2. i \in DOMAIN Asked /\ i # 0 /\ x # <<>>
    <3> HIDE DEF i
    <3> QED  BY <1>1, <2>i
  <2> HIDE DEF i
  <2>3. got.ask = Asked[i] /\ got.of = i
    BY <2>1
  <2> HIDE DEF got
  <2> QED  BY <1>3, <2>2, <2>3 DEF GotOk, Readable, got, i
<1>4. CASE ~IsWhole(x) /\ IsGarbled(x)
  <2>1. got = [ask |-> Garbled(Asked[i]), of |-> 0]
    BY <1>4 DEF Reading
  <2>2. i \in DOMAIN Asked /\ x # <<>> /\ Asked[i].head < Asked[i].weight
    BY Zenon, <1>4 DEF IsGarbled
  <2> HIDE DEF i
  <2>3. got.ask = Garbled(Asked[i]) /\ got.of = 0
    BY <2>1
  <2>4. Garbled(Asked[i]) \in Readable
    BY <2>2 DEF Readable
  <2> HIDE DEF got
  <2> QED  BY <1>4, <2>2, <2>3, <2>4 DEF GotOk, got
<1>5. CASE ~IsWhole(x) /\ ~IsGarbled(x) /\ IsRefused(x)
  <2>1. got = [ask |-> Nothing, of |-> 0]
    BY <1>5 DEF Reading
  <2>2. got.ask = Nothing /\ got.of = 0
    BY <2>1
  <2> HIDE DEF got
  <2> QED  BY <1>2, <1>5, <2>2 DEF GotOk, got
<1>6. CASE ~IsWhole(x) /\ ~IsGarbled(x) /\ ~IsRefused(x)
  <2>1. got = [ask |-> luck, of |-> 0]
    BY <1>6 DEF Reading
  <2>2. luck \in Readable /\ x # <<>>
    BY <1>2, <1>6 DEF Mixed, IsRefused, Readable
  <2>3. got.ask = luck /\ got.of = 0
    BY <2>1
  <2> HIDE DEF got
  <2> QED  BY <1>6, <2>2, <2>3 DEF GotOk, got
<1> QED  BY <1>3, <1>4, <1>5, <1>6

LEMMA NextRun ==
  ASSUME NEW h, NEW what, NEW x, NEW s, NEW m \in Nat, Runs(h, what, x, s, m),
         NEW k \in Nat, k + 1 \in 1..m
  PROVE  h[k + 1] = Step(what, h[k], s[k + 1])
<1>1. \A j \in 1..m : h[j] = Step(what, h[j - 1], s[j])
  BY DEF Runs
<1> DEFINE n == k + 1
<1>2. n \in 1..m /\ n - 1 = k
  OBVIOUS
<1> HIDE DEF n
<1>3. h[n] = Step(what, h[n - 1], s[n])
  BY <1>1, <1>2
<1> QED  BY <1>2, <1>3 DEF n

LEMMA LineRuns ==
  ASSUME NEW x, LineOk(x), NEW s \in Seq(Units)
  PROVE  LineOk(Over(Deframed, x, s))
<1> DEFINE N == Len(s)
<1>1. N \in Nat /\ \A k \in 1..N : s[k] \in Units
  OBVIOUS
<1>2. PICK h : Runs(h, "line", x, s, N) /\ Over(Deframed, x, s) = h[N]
  BY <1>1, OverLine
<1> DEFINE S == {k \in Nat : k <= N => LineOk(h[k])}
<1> HIDE DEF N
<1>3. 0 \in S
  BY <1>2 DEF Runs
<1>4. ASSUME NEW k \in Nat, k \in S PROVE k + 1 \in S
  <2>1. SUFFICES ASSUME k + 1 <= N PROVE LineOk(h[k + 1])
    OBVIOUS
  <2>2. k + 1 \in 1..N /\ k + 1 - 1 = k /\ k <= N
    BY <1>1, <2>1
  <2>3. LineOk(h[k]) /\ s[k + 1] \in Units
    BY <1>1, <1>4, <2>2
  <2>4. h[k + 1] = Deframed(h[k], s[k + 1])
    <3>1. h[k + 1] = Step("line", h[k], s[k + 1])
      BY <1>1, <1>2, <2>2, NextRun
    <3> QED  BY <3>1 DEF Step
  <2> QED  BY <2>3, <2>4, LineStep
<1>5. Nat \subseteq S
  <2> HIDE DEF S
  <2> QED  BY <1>3, <1>4, SetInduction
<1> QED  BY <1>1, <1>2, <1>5

LEMMA SessionRuns ==
  ASSUME NEW x, SessionOk(x), NEW s, Len(s) \in Nat, \A k \in 1..Len(s) : GotOk(s[k])
  PROVE  SessionOk(Over(handleToRadio, x, s))
<1> DEFINE N == Len(s)
<1>1. N \in Nat /\ \A k \in 1..N : GotOk(s[k])
  OBVIOUS
<1>2. PICK h : Runs(h, "session", x, s, N) /\ Over(handleToRadio, x, s) = h[N]
  BY <1>1, OverSession
<1> DEFINE S == {k \in Nat : k <= N => SessionOk(h[k])}
<1> HIDE DEF N
<1>3. 0 \in S
  BY <1>2 DEF Runs
<1>4. ASSUME NEW k \in Nat, k \in S PROVE k + 1 \in S
  <2>1. SUFFICES ASSUME k + 1 <= N PROVE SessionOk(h[k + 1])
    OBVIOUS
  <2>2. k + 1 \in 1..N /\ k + 1 - 1 = k /\ k <= N
    BY <1>1, <2>1
  <2>3. SessionOk(h[k]) /\ GotOk(s[k + 1])
    BY <1>1, <1>4, <2>2
  <2>4. h[k + 1] = handleToRadio(h[k], s[k + 1])
    <3>1. h[k + 1] = Step("session", h[k], s[k + 1])
      BY <1>1, <1>2, <2>2, NextRun
    <3> QED  BY <3>1 DEF Step
  <2>5. Took(h[k], s[k + 1], h[k + 1])
    BY <2>3, <2>4, SessionStep
  <2> QED  BY <2>5 DEF Took
<1>5. Nat \subseteq S
  <2> HIDE DEF S
  <2> QED  BY <1>3, <1>4, SetInduction
<1> QED  BY <1>1, <1>2, <1>5

(* A frame after k relays carries the packet with k hops taken off.        *)
LEMMA RelaysCarry ==
  ASSUME NEW ask \in Packets, NEW air, Carries(air, Packet(ask), 0)
  PROVE  \A k \in 0..kMaxHop : \A a \in Relays(air)[k] : Carries(a, Packet(ask), k)
<1> DEFINE h == Relays(air)
           N == kMaxHop
           S == {k \in Nat : k <= N => \A a \in h[k] : Carries(a, Packet(ask), k)}
<1>1. N \in Nat
  BY DEF kMaxHop
<1>2. Runs(h, "relay", {air}, <<>>, N)
  BY RelaysRun
<1> HIDE DEF h, N
<1>3. 0 \in S
  BY <1>2 DEF Runs
<1>4. ASSUME NEW k \in Nat, k \in S PROVE k + 1 \in S
  <2>1. SUFFICES ASSUME k + 1 <= N, NEW a \in h[k + 1] PROVE Carries(a, Packet(ask), k + 1)
    OBVIOUS
  <2>2. k + 1 \in 1..N /\ k + 1 - 1 = k /\ k <= N
    BY <1>1, <2>1
  <2>3. h[k + 1] = Relayed(h[k])
    <3>1. h[k + 1] = Step("relay", h[k], <<>>[k + 1])
      BY <1>1, <1>2, <2>2, NextRun
    <3> QED  BY <3>1 DEF Step
  <2>4. PICK r \in h[k] \X Relayers : shouldRelay(r[1], r[2]) /\ a = prepareRelay(r[1], r[2])
    BY <2>1, <2>3 DEF Relayed
  <2>5. r[1] \in h[k]
    BY <2>4
  <2>6. Carries(r[1], Packet(ask), k)
    BY <1>4, <2>2, <2>5
  <2> QED  BY <2>4, <2>6, RelayCarries
<1>5. Nat \subseteq S
  <2> HIDE DEF S
  <2> QED  BY <1>3, <1>4, SetInduction
<1> QED  BY <1>1, <1>5 DEF h, N

LegacyInv ==
  /\ lgUp \in Seq(Units) /\ LineOk(lgDeframer) /\ lgDeframer.out = <<>>
  /\ lgSeq \in Nat /\ lgAir \in Seq(Airs)
  /\ lgWrote \in Seq(Nat) /\ lgPlace \in Nat /\ IsFiniteSet(lgCut)

(* A frame on the air carries the packet the session read, which is the    *)
(* one of the host's message if it is one.                                 *)
LEMMA AiredCarries ==
  ASSUME NEW x \in Airs
  PROVE  /\ \E ask \in Packets : x.packet = Packet(ask) /\ Carries(x.air, Packet(ask), 0)
         /\ x.ask # 0 => x.packet = decodeToRadio(Asked[x.ask])[1].packet
<1>1. PICK y \in Packets \X Nat \X (DOMAIN Asked \cup {0}) :
        /\ First(y[1], y[2]) # <<>> /\ (y[3] # 0 => y[1] = Asked[y[3]])
        /\ x = [air |-> First(y[1], y[2])[1], packet |-> Packet(y[1]), ask |-> y[3]]
  BY DEF Airs
<1> DEFINE ask == y[1]
           q == y[2]
           i == y[3]
           p == Packet(ask)
           a == First(ask, q)[1]
<1>2. /\ ask \in Packets /\ First(ask, q) # <<>> /\ (i # 0 => ask = Asked[i])
      /\ x = [air |-> a, packet |-> p, ask |-> i]
  BY <1>1
<1> HIDE DEF ask, q, i, p, a
<1>3. x.ask = i /\ x.air = a /\ x.packet = p
  BY <1>2
<1>4. Carries(a, p, 0)
  BY <1>2, FirstCarries DEF a, p
<1>5. p.decoded = <<>> => p.encrypted # <<>>
  BY <1>4 DEF Carries
<1>6. decodeToRadio(ask) = <<[kind |-> "packet", packet |-> p]>>
  BY <1>2, <1>5 DEF decodeToRadio, Packets, Packet, p
<1>7. decodeToRadio(ask)[1].packet = p
  BY <1>6
<1> QED  BY <1>2, <1>3, <1>4, <1>7 DEF p

(* What is heard of a frame on the air.                                    *)
HeardBack(x) ==
  /\ \A after \in {Relays(x.air)} :
       /\ after[kMaxHop] = {}
       /\ \A k \in 0..(kMaxHop - 1) : \A air \in after[k] :
            ReadAsSent(airToMeshPacket(unpackPacket(air)[1]), x.packet, k)
  /\ x.ask # 0 => x.packet = decodeToRadio(Asked[x.ask])[1].packet

LEMMA InvHeard ==
  ASSUME LegacyInv
  PROVE  \A i \in DOMAIN lgAir : HeardBack(lgAir[i])
<1> SUFFICES ASSUME NEW x \in Airs PROVE HeardBack(x)
  BY DEF LegacyInv
<1> DEFINE after == Relays(x.air)
<1>1. PICK ask \in Packets : x.packet = Packet(ask) /\ Carries(x.air, Packet(ask), 0)
  BY AiredCarries
<1>2. x.ask # 0 => x.packet = decodeToRadio(Asked[x.ask])[1].packet
  BY AiredCarries
<1>3. \A k \in 0..kMaxHop : \A a \in after[k] : Carries(a, Packet(ask), k)
  BY <1>1, RelaysCarry
<1> HIDE DEF after
<1>4. ASSUME NEW k \in 0..kMaxHop, NEW a \in after[k]
      PROVE  k <= 7 /\ ReadAsSent(airToMeshPacket(unpackPacket(a)[1]), x.packet, k)
  <2>1. Carries(a, Packet(ask), k) /\ k \in Nat
    BY <1>3, <1>4
  <2> QED  BY <1>1, <2>1, CarriedIsHeard
<1>5. after[kMaxHop] = {}
  <2>1. kMaxHop = 8 /\ kMaxHop \in 0..kMaxHop
    BY DEF kMaxHop
  <2> QED  BY <1>4, <2>1
<1>6. \A k \in 0..(kMaxHop - 1) : k \in 0..kMaxHop
  BY DEF kMaxHop
<1>7. \A k \in 0..(kMaxHop - 1) : \A a \in after[k] :
        ReadAsSent(airToMeshPacket(unpackPacket(a)[1]), x.packet, k)
  BY <1>4, <1>6
<1> QED  BY <1>2, <1>5, <1>7 DEF after, HeardBack

LEMMA LegacyStarts == LegacyInit => LegacyInv
<1> SUFFICES ASSUME LegacyInit PROVE LegacyInv
  OBVIOUS
<1>1. /\ lgUp \in Seq(Units) /\ lgAir \in Seq(Airs) /\ lgWrote \in Seq(Nat)
      /\ lgSeq \in Nat /\ lgPlace \in Nat /\ IsFiniteSet(lgCut)
  BY FS_EmptySet DEF LegacyInit
<1>2. LineOk(Scanning) /\ Scanning.out = <<>>
  BY DEF LineOk, Scanning
<1> QED  BY <1>1, <1>2 DEF LegacyInit, LegacyInv

(* What the host writes is bytes.                                          *)
LEMMA FrameIsBytes ==
  ASSUME NEW i \in DOMAIN Asked
  PROVE  frame(Pieces(i)) \in Seq(Units)
<1>1. Asked[i].weight \in Nat /\ i \in Nat
  <2>1. Asked[i].weight \in 1..MaxPayload /\ MaxPayload \in Nat
    BY Zenon, AskedAssumption, LegacyAssumption
  <2>2. DOMAIN Asked = 1..Len(Asked) /\ Len(Asked) \in Nat
    BY Zenon, AskedAssumption
  <2> QED  BY <2>1, <2>2
<1>2. Pieces(i) \in Seq(Units) /\ Len(Pieces(i)) \in Nat
  <2>1. PICK w \in Nat : w = Asked[i].weight
    BY <1>1
  <2>2. \A j \in 1..w : [byte |-> 0, of |-> i, piece |-> j] \in Units
    BY <1>1, <2>1 DEF Units
  <2>3. [j \in 1..w |-> [byte |-> 0, of |-> i, piece |-> j]] \in Seq(Units)
    BY <2>1, <2>2
  <2>4. Pieces(i) \in Seq(Units)
    BY <2>1, <2>3 DEF Pieces
  <2> QED  BY <2>4
<1>3. START1 \in Nat /\ START2 \in Nat /\ Base \in Nat /\ Base > 0
  BY LegacyAssumption
<1> DEFINE n == Len(Pieces(i))
<1>4. n \div Base \in Nat /\ n % Base \in Nat
  BY <1>2, <1>3
<1>5. \A v \in Nat : Byte(v) \in Units
  BY DEF Byte, Units
<1>6. <<Byte(START1), Byte(START2), Byte(n \div Base), Byte(n % Base)>> \in Seq(Units)
  <2> HIDE DEF n
  <2>1. /\ Byte(START1) \in Units /\ Byte(START2) \in Units
        /\ Byte(n \div Base) \in Units /\ Byte(n % Base) \in Units
    BY <1>3, <1>4, <1>5
  <2> QED  BY <2>1
<1> QED  BY <1>2, <1>6 DEF frame

LEMMA HostPuts ==
  ASSUME LegacyInv, NEW bytes \in Seq(Units), Puts(bytes)
  PROVE  lgUp' \in Seq(Units) /\ lgPlace' \in Nat
<1>1. lgUp \o bytes \in Seq(Units) /\ lgPlace + Len(bytes) \in Nat
  BY DEF LegacyInv
<1> QED  BY <1>1 DEF Puts

(* The payloads of a read give the session readable messages.              *)
LEMMA GotsOk ==
  ASSUME NEW o \in Seq(Seq(Units)),
         NEW luck \in [{n \in DOMAIN o : Mixed(o[n])} -> Chimeras \cup {Nothing}]
  PROVE  GotsFor(Gots(o, luck), o)
<1> DEFINE g == Gots(o, luck)
<1>1. Len(o) \in Nat /\ DOMAIN o = 1..Len(o)
  OBVIOUS
<1>2. /\ DOMAIN g = 1..Len(o) /\ Len(g) = Len(o)
      /\ \A k \in 1..Len(o) : g[k] = Reading(o[k], luck[k])
  BY <1>1 DEF Gots
<1>3. ASSUME NEW k \in 1..Len(o)
      PROVE  /\ GotOk(g[k])
             /\ g[k].of = IF IsWhole(o[k]) THEN o[k][1].of ELSE 0
             /\ g[k].of = 0 <=> ~IsWhole(o[k])
             /\ o[k] = <<>> => g[k].ask.kind # "packet"
  <2>1. Mixed(o[k]) => luck[k] \in Chimeras \cup {Nothing}
    BY <1>1
  <2> HIDE DEF g
  <2> QED  BY <1>2, <2>1, ReadingOk
<1> HIDE DEF g
<1>4. GotsFor(g, o)
  BY <1>1, <1>2, <1>3 DEF GotsFor
<1> QED  BY <1>4 DEF g

LEMMA ReadKeepsAir ==
  ASSUME LegacyInv, ReadPty
  PROVE  LegacyInv'
<1>1. PICK n \in 1..Len(lgUp) : lgUp' = SubSeq(lgUp, n + 1, Len(lgUp))
  BY DEF ReadPty, TakesBytes
<1> DEFINE up == SubSeq(lgUp, n + 1, Len(lgUp))
           taken == SubSeq(lgUp, 1, Len(lgUp) - Len(up))
           fed == Over(Deframed, lgDeframer, taken)
<1>2. lgUp \in Seq(Units) /\ Len(lgUp) \in Nat /\ n \in Nat
  BY DEF LegacyInv
<1>3. up \in Seq(Units) /\ Len(up) = Len(lgUp) - n
  BY <1>2
<1>4. taken \in Seq(Units)
  <2> HIDE DEF up
  <2>1. Len(lgUp) - Len(up) \in 0..Len(lgUp)
    BY <1>2, <1>3
  <2> QED  BY <1>2, <2>1
<1>5. lgUp' = up
  BY <1>1
<1>6. PICK luck \in [{m \in DOMAIN fed.out : Mixed(fed.out[m])} -> Chimeras \cup {Nothing}] :
        /\ lgDeframer' = [fed EXCEPT !.out = <<>>]
        /\ Becomes(Over(handleToRadio, Session, Gots(fed.out, luck)))
        /\ lgWrote' = lgWrote /\ lgPlace' = lgPlace /\ lgCut' = lgCut
  BY <1>5 DEF ReadPty, Gots
<1> DEFINE s == Over(handleToRadio, Session, Gots(fed.out, luck))
<1>s. lgSeq' = s.seq /\ lgAir' = s.air
  BY <1>6 DEF Becomes
<1> HIDE DEF up, taken
<1>7. LineOk(fed)
  BY <1>4, LineRuns DEF LegacyInv
<1> HIDE DEF fed
<1>8. LineOk([fed EXCEPT !.out = <<>>]) /\ [fed EXCEPT !.out = <<>>].out = <<>>
  <2> DEFINE r == [fed EXCEPT !.out = <<>>]
  <2>1. /\ r = [f \in {"state", "len", "buf", "out"} |-> r[f]]
        /\ r.state = fed.state /\ r.buf = fed.buf /\ r.out = <<>>
    BY <1>7 DEF LineOk
  <2>2. <<>> \in Seq(Seq(Units))
    OBVIOUS
  <2> HIDE DEF r
  <2>3. LineOk(r)
    BY <1>7, <2>1, <2>2 DEF LineOk
  <2> QED  BY <2>1, <2>3 DEF r
<1>8g. GotsFor(Gots(fed.out, luck), fed.out)
  BY <1>6, <1>7, GotsOk DEF LineOk
<1>9. Len(Gots(fed.out, luck)) \in Nat /\ \A k \in 1..Len(Gots(fed.out, luck)) : GotOk(Gots(fed.out, luck)[k])
  BY <1>8g DEF GotsFor
<1>10. SessionOk(Session)
  BY DEF SessionOk, Session, LegacyInv
<1>11. SessionOk(s)
  BY Zenon, <1>9, <1>10, SessionRuns
<1> HIDE DEF s
<1>12. s.seq \in Nat /\ s.air \in Seq(Airs)
  BY <1>11 DEF SessionOk
<1> QED  BY <1>3, <1>5, <1>6, <1>s, <1>8, <1>12 DEF LegacyInv

LEMMA LegacyStep == LegacyInv /\ [LegacyNext]_lgVars => LegacyInv'
<1> SUFFICES ASSUME LegacyInv, [LegacyNext]_lgVars PROVE LegacyInv'
  OBVIOUS
<1>1. CASE HostWrites
  <2>1. /\ Puts(frame(Pieces(Len(lgWrote) + 1))) /\ lgWrote' = Append(lgWrote, lgPlace)
        /\ Len(lgWrote) + 1 \in DOMAIN Asked
        /\ UNCHANGED <<lgDeframer, lgSeq, lgAir, lgCut>>
    BY <1>1, AskedAssumption DEF HostWrites, hostVars, LegacyInv
  <2>2. lgUp' \in Seq(Units) /\ lgPlace' \in Nat
    BY <2>1, FrameIsBytes, HostPuts
  <2>3. lgWrote' \in Seq(Nat)
    BY <2>1 DEF LegacyInv
  <2> QED  BY <2>1, <2>2, <2>3 DEF LegacyInv
<1>2. CASE HostCut
  <2> DEFINE whole == frame(Pieces(Len(lgWrote) + 1))
  <2>1. /\ Len(lgWrote) + 1 \in DOMAIN Asked
        /\ UNCHANGED <<lgDeframer, lgSeq, lgAir, lgWrote>>
    BY <1>2, AskedAssumption DEF HostCut, hostVars, LegacyInv
  <2>2. whole \in Seq(Units)
    BY <2>1, FrameIsBytes
  <2>3. PICK k \in 1..(Len(whole) - 1) : Puts(SubSeq(whole, 1, k))
    BY <1>2 DEF HostCut
  <2> HIDE DEF whole
  <2>4. SubSeq(whole, 1, k) \in Seq(Units)
    BY <2>2, <2>3
  <2>5. lgUp' \in Seq(Units) /\ lgPlace' \in Nat
    BY <2>3, <2>4, HostPuts
  <2>6. lgCut' = lgCut \cup {lgPlace'}
    BY <1>2 DEF HostCut
  <2>7. IsFiniteSet(lgCut')
    BY <2>6, FS_AddElement DEF LegacyInv
  <2> QED  BY <2>1, <2>5, <2>7 DEF LegacyInv
<1>3. CASE HostNoise
  <2>1. PICK v \in {START1, 0} : Puts(<<Byte(v)>>)
    BY <1>3 DEF HostNoise
  <2>2. v \in Nat
    BY <2>1, LegacyAssumption
  <2>3. Byte(v) \in Units
    BY <2>2 DEF Byte, Units
  <2>4. <<Byte(v)>> \in Seq(Units)
    BY <2>3
  <2>5. lgUp' \in Seq(Units) /\ lgPlace' \in Nat
    BY <2>1, <2>4, HostPuts
  <2>6. UNCHANGED <<lgDeframer, lgSeq, lgAir, lgWrote, lgCut>>
    BY <1>3 DEF HostNoise, hostVars
  <2> QED  BY <2>5, <2>6 DEF LegacyInv
<1>4. CASE HostReads
  BY <1>4 DEF HostReads, LegacyInv
<1>5. CASE ReadPty
  BY <1>5, ReadKeepsAir
<1>6. CASE AirHeard
  <2> DEFINE s == handleAirFrame(Session, Aired[lgHeard + 1])
  <2>1. /\ lgSeq' = s.seq /\ lgAir' = s.air
        /\ UNCHANGED <<lgUp, lgDeframer, lgWrote, lgPlace, lgCut>>
    BY <1>6 DEF AirHeard, Becomes
  <2>2. SessionOk(Session)
    BY DEF SessionOk, Session, LegacyInv
  <2>3. SessionOk(s)
    BY <2>2, FromKeeps DEF handleAirFrame, Same
  <2> HIDE DEF s
  <2>4. s.seq \in Nat /\ s.air \in Seq(Airs)
    BY <2>3 DEF SessionOk
  <2> QED  BY <2>1, <2>4 DEF LegacyInv
<1>7. CASE FlushLegacyFromRadio
  BY <1>7 DEF FlushLegacyFromRadio, othersVars, LegacyInv
<1>8. CASE FlushFails
  BY <1>8 DEF FlushFails, othersVars, LegacyInv
<1>10. CASE UNCHANGED lgVars
  BY <1>10 DEF lgVars, LegacyInv
<1> QED  BY <1>1, <1>2, <1>3, <1>4, <1>5, <1>6, <1>7, <1>8, <1>10 DEF LegacyNext

-----------------------------------------------------------------------------
(***************************************************************************)
(* The line of the legacy session.  T is every byte the host wrote so far, *)
(* P how many of them are read.  T is cut into segments: a message written *)
(* whole, a message cut short, a stray byte (Laid).  The deframer's state  *)
(* tells where in T it is: it holds a header that is there, and has        *)
(* collected the bytes behind it (Tracks).  A header that is not a         *)
(* message's own cannot begin in a payload, and so begins less than a      *)
(* payload behind a place where a write was cut short: a message with no   *)
(* such place near is met by a deframer that scans, or holds a stray start *)
(* byte (Calm), and from there on keeps step with it (Sync) until it comes *)
(* out whole (Heard).                                                      *)
(***************************************************************************)
LEMMA JoinedUnits ==
  ASSUME NEW a \in Seq(Units), NEW b \in Seq(Units)
  PROVE  /\ a \o b \in Seq(Units) /\ Len(a \o b) = Len(a) + Len(b)
         /\ Len(a) \in Nat /\ Len(b) \in Nat
         /\ \A j \in 1..Len(a) : (a \o b)[j] = a[j]
         /\ \A j \in 1..Len(b) : (a \o b)[Len(a) + j] = b[j]
BY ConcatProperties

(* The bytes of message number i on the line, and how many they are.       *)
Wire(i) == frame(Pieces(i))
Span(i) == 4 + Asked[i].weight

LEMMA WireBytes ==
  ASSUME NEW i \in DOMAIN Asked
  PROVE  /\ i \in Nat /\ i > 0
         /\ Asked[i].weight \in 1..MaxPayload /\ Span(i) \in Nat
         /\ Wire(i) \in Seq(Units) /\ Len(Wire(i)) = Span(i)
         /\ Wire(i)[1] = Byte(START1) /\ Wire(i)[2] = Byte(START2)
         /\ \A q \in 1..4 : Wire(i)[q].of = 0
         /\ Wire(i)[3].byte * Base + Wire(i)[4].byte = Asked[i].weight
         /\ ~(Wire(i)[3].byte = START1 /\ Wire(i)[4].byte = START2)
         /\ \A q \in 5..Span(i) :
              Wire(i)[q] = [byte |-> 0, of |-> i, piece |-> q - 4]
         /\ Pieces(i) = [j \in 1..Asked[i].weight |-> [byte |-> 0, of |-> i, piece |-> j]]
<1>1. i \in Nat /\ i > 0
  <2>1. DOMAIN Asked = 1..Len(Asked) /\ Len(Asked) \in Nat
    BY Zenon, AskedAssumption
  <2> QED  BY <2>1
<1>2. /\ Base \in Nat /\ START1 \in 1..(Base - 1) /\ START2 \in 1..(Base - 1)
      /\ START1 * Base + START2 > MaxPayload /\ MaxPayload \in Nat
  BY LegacyAssumption
<1>3. Asked[i].weight \in 1..MaxPayload
  BY Zenon, AskedAssumption
<1>4. PICK w \in 1..MaxPayload : w = Asked[i].weight
  BY <1>3
<1>5. Pieces(i) = [j \in 1..w |-> [byte |-> 0, of |-> i, piece |-> j]]
  BY <1>4 DEF Pieces
<1> DEFINE p == Pieces(i)
           hi == w \div Base
           lo == w % Base
           head == <<Byte(START1), Byte(START2), Byte(hi), Byte(lo)>>
<1>6. Len(p) = w /\ p \in Seq(Units)
  <2>1. \A j \in 1..w : [byte |-> 0, of |-> i, piece |-> j] \in Units
    BY <1>1, <1>2, <1>4 DEF Units
  <2> QED  BY <1>2, <1>4, <1>5, <2>1
<1>7. Wire(i) = head \o p
  BY <1>6 DEF Wire, frame
<1>8. hi \in Nat /\ lo \in Nat /\ hi * Base + lo = w /\ w \in Nat
  <2>1. w \in Nat /\ w > 0 /\ Base \in Nat /\ Base > 0
    BY <1>2, <1>4
  <2>2. w % Base \in 0..(Base - 1) /\ w \div Base \in Int /\ w = Base * (w \div Base) + (w % Base)
    BY <2>1
  <2>3. w \div Base >= 0
    BY <2>1
  <2> QED  BY <2>1, <2>2, <2>3
<1>9. Byte(START1) \in Units /\ Byte(START2) \in Units /\ Byte(hi) \in Units /\ Byte(lo) \in Units
  <2> HIDE DEF hi, lo
  <2> QED  BY <1>2, <1>8 DEF Byte, Units
<1>10. head \in Seq(Units) /\ Len(head) = 4
  <2> HIDE DEF hi, lo
  <2> QED  BY <1>9
<1> HIDE DEF hi, lo
<1>11. /\ head[1] = Byte(START1) /\ head[2] = Byte(START2)
       /\ head[3] = Byte(hi) /\ head[4] = Byte(lo)
  OBVIOUS
<1> HIDE DEF head, p
<1>h. w \in Nat
  BY <1>8
<1>t. /\ Wire(i) \in Seq(Units) /\ Len(Wire(i)) = 4 + w
      /\ \A j \in 1..4 : Wire(i)[j] = head[j]
      /\ \A j \in 1..w : Wire(i)[4 + j] = p[j]
  <2>1. head \in Seq(Units)
    BY <1>10
  <2>2. p \in Seq(Units) /\ Len(p) = w
    BY <1>6
  <2>3. Wire(i) = head \o p
    BY <1>7
  <2>4. /\ head \o p \in Seq(Units) /\ Len(head \o p) = Len(head) + Len(p)
        /\ \A j \in 1..Len(head) : (head \o p)[j] = head[j]
        /\ \A j \in 1..Len(p) : (head \o p)[Len(head) + j] = p[j]
    BY <2>1, <2>2, JoinedUnits
  <2> QED  BY <2>2, <2>3, <2>4, <1>10
<1>12. Wire(i) \in Seq(Units) /\ Len(Wire(i)) = 4 + w
  BY <1>t
<1>13. \A q \in 1..4 : Wire(i)[q] = head[q]
  BY <1>t
<1>14. \A q \in 5..(4 + w) : Wire(i)[q] = p[q - 4]
  <2>1. ASSUME NEW q \in 5..(4 + w) PROVE Wire(i)[q] = p[q - 4]
    <3> DEFINE j == q - 4
    <3>1. j \in 1..w /\ q = 4 + j
      BY <1>h
    <3> HIDE DEF j
    <3>2. Wire(i)[q] = p[j]
      BY <1>t, <3>1
    <3> QED  BY <3>2 DEF j
  <2> QED  BY <2>1
<1>15. \A q \in 5..(4 + w) : Wire(i)[q] = [byte |-> 0, of |-> i, piece |-> q - 4]
  BY <1>2, <1>4, <1>5, <1>14 DEF p
<1>16. \A v : Byte(v).byte = v /\ Byte(v).of = 0
  BY DEF Byte
<1>17. \A q \in 1..4 : Wire(i)[q].of = 0
  <2>1. /\ Wire(i)[1] = Byte(START1) /\ Wire(i)[2] = Byte(START2)
        /\ Wire(i)[3] = Byte(hi) /\ Wire(i)[4] = Byte(lo)
    BY <1>11, <1>13
  <2>2. 1..4 = {1, 2, 3, 4}
    OBVIOUS
  <2> QED  BY <1>16, <2>1, <2>2
<1>18. Wire(i)[3].byte = hi /\ Wire(i)[4].byte = lo
  BY <1>11, <1>13, <1>16
<1>19. ~(hi = START1 /\ lo = START2)
  BY <1>2, <1>4, <1>8
<1>20. Span(i) = 4 + w /\ Span(i) \in Nat
  BY <1>2, <1>4 DEF Span
<1>21. Wire(i)[1] = Byte(START1) /\ Wire(i)[2] = Byte(START2)
  BY <1>11, <1>13
<1> QED  BY <1>1, <1>3, <1>4, <1>5, <1>8, <1>12, <1>15, <1>17, <1>18, <1>19, <1>20, <1>21
-----------------------------------------------------------------------------
(* T is all that was written on the line, in order.  It consists of        *)
(* segments: a message, whole or cut short, or a stray byte (msg is 0).    *)
SegmentOk(T, s, wrote, cut) ==
  /\ s.first \in Nat /\ s.last \in Nat
  /\ 1 <= s.first /\ s.first <= s.last /\ s.last <= Len(T)
  /\ \/ s.msg = 0 /\ s.last = s.first /\ T[s.first] \in {Byte(START1), Byte(0)}
     \/ /\ s.msg \in DOMAIN Asked
        /\ s.last < s.first + Span(s.msg)
        /\ \A q \in s.first..s.last : T[q] = Wire(s.msg)[q - s.first + 1]
        /\ \/ /\ s.msg \in DOMAIN wrote /\ wrote[s.msg] = s.first - 1
              /\ s.last = s.first + Span(s.msg) - 1
           \/ s.last \in cut /\ s.last < s.first + Span(s.msg) - 1

Laid(T, G, wrote, cut) ==
  /\ T \in Seq(Units) /\ wrote \in Seq(Nat) /\ cut \subseteq Nat
  /\ Len(wrote) <= Len(Asked)
  /\ \A s \in G : SegmentOk(T, s, wrote, cut)
  /\ \A q \in 1..Len(T) : \E s \in G : s.first <= q /\ q <= s.last
  /\ \A s, t \in G : s.first <= t.last /\ t.first <= s.last => s = t
  /\ \A i \in DOMAIN wrote :
       \E s \in G : /\ s.msg = i /\ s.first = wrote[i] + 1
                    /\ s.last = wrote[i] + Span(i)
  /\ \A i, j \in DOMAIN wrote : i < j => wrote[i] + Span(i) <= wrote[j]

(* What LineResyncs says a message needs behind the cuts before it.        *)
Safe(i, wrote, cut) ==
  \A c \in cut : c <= wrote[i] => wrote[i] - c >= MaxPayload + 2

(* A header seems to begin at h.                                           *)
Begins(T, h) == h \in Nat /\ h >= 1 /\ T[h].byte = START1 /\ T[h + 1].byte = START2

(* What the deframer d makes of the first P bytes of T.                    *)
InBuffer(d, T, h) ==
  /\ Begins(T, h)
  /\ d.len = T[h + 2].byte * Base + T[h + 3].byte
  /\ d.len \in 1..MaxPayload /\ Len(d.buf) < d.len
  /\ \A j \in 1..Len(d.buf) : d.buf[j] = T[h + 3 + j]

Tracks(d, T, P) ==
  /\ d.state = "kExpectStart2" => P >= 1 /\ T[P].byte = START1
  /\ d.state = "kLenHi" => \E h : Begins(T, h) /\ P = h + 1
  /\ d.state = "kLenLo" =>
       \E h : Begins(T, h) /\ P = h + 2 /\ d.len = T[h + 2].byte * Base
  /\ d.state = "kPayload" => \E h : InBuffer(d, T, h) /\ P = h + 3 + Len(d.buf)

(* In the midst of a message n bytes of which are read.                    *)
InFrame(d, n) ==
  /\ n = 1 => d.state = "kExpectStart2"
  /\ n = 2 => d.state = "kLenHi"
  /\ n = 3 => d.state = "kLenLo"
  /\ n >= 4 => d.state = "kPayload" /\ Len(d.buf) = n - 4

InStep(d, P, i, at) == at < P /\ P < at + Span(i) => InFrame(d, P - at)

Sync(d, P, wrote, cut) ==
  \A i \in DOMAIN wrote : Safe(i, wrote, cut) => InStep(d, P, i, wrote[i])

LEMMA LaidTypes ==
  ASSUME NEW T, NEW G, NEW wrote, NEW cut, Laid(T, G, wrote, cut)
  PROVE  /\ T \in Seq(Units) /\ Len(T) \in Nat
         /\ \A q \in 1..Len(T) : T[q] \in Units /\ T[q].byte \in Nat
         /\ \A i \in DOMAIN wrote : i \in DOMAIN Asked /\ wrote[i] \in Nat /\ i \in Nat
         /\ \A c \in cut : c \in Nat
<1>1. T \in Seq(Units) /\ wrote \in Seq(Nat) /\ cut \subseteq Nat /\ Len(wrote) <= Len(Asked)
  BY DEF Laid
<1>2. DOMAIN Asked = 1..Len(Asked) /\ Len(Asked) \in Nat
  BY Zenon, AskedAssumption
<1>3. \A q \in 1..Len(T) : T[q] \in Units
  BY <1>1
<1>4. \A u \in Units : u.byte \in Nat
  BY DEF Units
<1>5. \A i \in DOMAIN wrote : i \in DOMAIN Asked /\ wrote[i] \in Nat /\ i \in Nat
  BY <1>1, <1>2
<1> QED  BY <1>1, <1>3, <1>4, <1>5

(* A message of the line that is whole is there.                           *)
LEMMA MessageThere ==
  ASSUME NEW T, NEW G, NEW wrote, NEW cut, Laid(T, G, wrote, cut),
         NEW i \in DOMAIN wrote
  PROVE  /\ wrote[i] + Span(i) <= Len(T)
         /\ \A q \in 1..Span(i) : T[wrote[i] + q] = Wire(i)[q]
<1>1. PICK s \in G : /\ s.msg = i /\ s.first = wrote[i] + 1
                     /\ s.last = wrote[i] + Span(i)
  BY DEF Laid
<1>2. i \in DOMAIN Asked /\ wrote[i] \in Nat /\ i \in Nat /\ i > 0 /\ Span(i) \in Nat
  BY LaidTypes, WireBytes
<1>3. SegmentOk(T, s, wrote, cut)
  BY DEF Laid
<1>4. \A q \in s.first..s.last : T[q] = Wire(s.msg)[q - s.first + 1]
  BY <1>1, <1>2, <1>3 DEF SegmentOk
<1>5. ASSUME NEW q \in 1..Span(i) PROVE T[wrote[i] + q] = Wire(i)[q]
  <2> DEFINE r == wrote[i] + q
  <2>1. r \in s.first..s.last /\ r - s.first + 1 = q
    BY <1>1, <1>2
  <2> HIDE DEF r
  <2>2. T[r] = Wire(i)[q]
    BY <1>1, <1>4, <2>1
  <2> QED  BY <2>2 DEF r
<1>6. s.last <= Len(T)
  BY <1>3 DEF SegmentOk
<1> QED  BY <1>1, <1>5, <1>6

(* A byte of a segment is one of its message.                              *)
LEMMA SegmentAt ==
  ASSUME NEW T, NEW G, NEW wrote, NEW cut, Laid(T, G, wrote, cut),
         NEW s \in G, s.msg \in DOMAIN Asked,
         NEW q \in Nat, s.first <= q, q <= s.last, NEW n, n = q - s.first + 1
  PROVE  /\ T[q] = Wire(s.msg)[n]
         /\ n \in 1..Span(s.msg) /\ q = s.first + n - 1
<1>1. SegmentOk(T, s, wrote, cut)
  BY DEF Laid
<1>2. s.first \in Nat /\ s.last \in Nat
  BY <1>1 DEF SegmentOk
<1>3. s.msg # 0 /\ Span(s.msg) \in Nat
  BY WireBytes
<1>4. /\ \A r \in s.first..s.last : T[r] = Wire(s.msg)[r - s.first + 1]
      /\ s.last < s.first + Span(s.msg)
  BY <1>1, <1>3 DEF SegmentOk
<1>5. q \in s.first..s.last
  BY <1>2
<1> QED  BY <1>2, <1>3, <1>4, <1>5

(* START1 and START2 stand next to each other where a message begins, and  *)
(* nowhere else.                                                           *)
LEMMA Adjacent ==
  ASSUME NEW T, NEW G, NEW wrote, NEW cut, Laid(T, G, wrote, cut),
         NEW h, Begins(T, h), h + 1 <= Len(T)
  PROVE  \E s \in G : s.first = h /\ h + 1 <= s.last /\ s.msg \in DOMAIN Asked
<1>1. h \in Nat /\ h >= 1 /\ T[h].byte = START1 /\ T[h + 1].byte = START2
  BY DEF Begins
<1>2. Len(T) \in Nat
  BY LaidTypes
<1>3. PICK s \in G : s.first <= h /\ h <= s.last
  <2>1. h \in 1..Len(T)
    BY <1>1, <1>2
  <2> QED  BY <2>1 DEF Laid
<1>4. PICK t \in G : t.first <= h + 1 /\ h + 1 <= t.last
  <2> DEFINE q == h + 1
  <2>1. q \in 1..Len(T)
    BY <1>1, <1>2
  <2> HIDE DEF q
  <2>2. \E t \in G : t.first <= q /\ q <= t.last
    BY <2>1 DEF Laid
  <2> QED  BY <2>2 DEF q
<1>5. START1 \in Nat /\ START2 \in Nat /\ START1 > 0 /\ START2 > 0 /\ START1 # START2
  BY LegacyAssumption
<1>6. \A v : Byte(v).byte = v
  BY DEF Byte
<1>7. SegmentOk(T, s, wrote, cut) /\ SegmentOk(T, t, wrote, cut)
  BY DEF Laid
<1>8. /\ s.first \in Nat /\ s.last \in Nat /\ s.last <= Len(T)
      /\ t.first \in Nat /\ t.last \in Nat
  BY <1>7 DEF SegmentOk
<1>9. CASE s = t
  <2>1. h + 1 <= s.last
    BY <1>4, <1>9
  <2>2. /\ s.msg \in DOMAIN Asked /\ s.last < s.first + Span(s.msg)
        /\ \A q \in s.first..s.last : T[q] = Wire(s.msg)[q - s.first + 1]
    BY <1>1, <1>3, <1>7, <1>8, <2>1 DEF SegmentOk
  <2> DEFINE m == s.msg
             n == h - s.first + 1
  <2>3. n \in Nat /\ n >= 1 /\ h = s.first + n - 1
    BY <1>1, <1>3, <1>8
  <2>5. Span(m) \in Nat /\ n + 1 <= Span(m)
    <3>1. Span(m) \in Nat
      BY <2>2, WireBytes
    <3> QED  BY <1>1, <1>8, <2>1, <2>2, <2>3, <3>1
  <2>6. T[h] = Wire(m)[n] /\ T[h + 1] = Wire(m)[n + 1]
    <3>1. T[h] = Wire(m)[n]
      BY <1>1, <1>3, <2>2, SegmentAt
    <3> HIDE DEF n, m
    <3> DEFINE r == h + 1
               k == n + 1
    <3>2. r \in Nat /\ s.first <= r /\ r <= s.last /\ k = r - s.first + 1
      BY <1>1, <1>3, <1>8, <2>1, <2>3
    <3> HIDE DEF r, k
    <3>3. T[r] = Wire(m)[k]
      BY <2>2, <3>2, SegmentAt DEF m
    <3> QED  BY <3>1, <3>3 DEF r, k
  <2> HIDE DEF m, n
  <2>7. m \in DOMAIN Asked
    BY <2>2 DEF m
  <2>8. Wire(m)[n].byte = START1 /\ Wire(m)[n + 1].byte = START2
    BY <1>1, <2>6
  <2>9. \A q \in 5..Span(m) : Wire(m)[q].byte = 0
    <3>1. \A q \in 5..Span(m) : Wire(m)[q] = [byte |-> 0, of |-> m, piece |-> q - 4]
      BY <2>7, WireBytes
    <3>2. \A q : [byte |-> 0, of |-> m, piece |-> q - 4].byte = 0
      OBVIOUS
    <3> QED  BY Zenon, <3>1, <3>2
  <2>10. n < 5
    <3>1. SUFFICES ASSUME n >= 5 PROVE FALSE
      BY <2>3
    <3>2. n \in 5..Span(m)
      BY <2>3, <2>5, <3>1
    <3> QED  BY <1>5, <2>8, <2>9, <3>2
  <2>11. n # 4
    <3>1. SUFFICES ASSUME n = 4 PROVE FALSE
      OBVIOUS
    <3>2. 5 \in 5..Span(m) /\ n + 1 = 5
      BY <2>5, <3>1
    <3> QED  BY <1>5, <2>8, <2>9, <3>2
  <2>12. n # 3
    <3>1. SUFFICES ASSUME n = 3 PROVE FALSE
      OBVIOUS
    <3>2. n + 1 = 4
      BY <3>1
    <3>3. ~(Wire(m)[3].byte = START1 /\ Wire(m)[4].byte = START2)
      BY <2>7, WireBytes
    <3> QED  BY <2>8, <3>1, <3>2, <3>3
  <2>13. n # 2
    BY <1>5, <1>6, <2>7, <2>8, WireBytes
  <2>14. s.first = h
    BY <1>8, <2>3, <2>10, <2>11, <2>12, <2>13
  <2> QED  BY <2>1, <2>7, <2>14 DEF m
<1>10. CASE s # t
  <2>1. ~(s.first <= t.last /\ t.first <= s.last)
    BY <1>10 DEF Laid
  <2>2. t.first = h + 1
    BY <1>1, <1>3, <1>4, <1>8, <2>1
  <2>3. T[t.first].byte = START1 \/ T[t.first].byte = 0
    <3>1. CASE t.msg = 0 /\ T[t.first] \in {Byte(START1), Byte(0)}
      BY <1>6, <3>1
    <3>2. CASE /\ t.msg \in DOMAIN Asked
               /\ \A q \in t.first..t.last : T[q] = Wire(t.msg)[q - t.first + 1]
      <4>1. t.first \in t.first..t.last /\ t.first - t.first + 1 = 1
        BY <1>1, <1>4, <1>8, <2>2
      <4>2. T[t.first] = Wire(t.msg)[1]
        BY <3>2, <4>1
      <4> QED  BY <1>6, <3>2, <4>2, WireBytes
    <3> QED  BY <1>7, <3>1, <3>2 DEF SegmentOk
  <2> QED  BY <1>1, <1>5, <2>2, <2>3
<1> QED  BY <1>9, <1>10

(* What the message of a header is in the buffer.                          *)
LEMMA HeaderTells ==
  ASSUME NEW T, NEW G, NEW wrote, NEW cut, Laid(T, G, wrote, cut),
         NEW s \in G, s.msg \in DOMAIN Asked, s.first + 3 <= s.last
  PROVE  T[s.first + 2].byte * Base + T[s.first + 3].byte = Asked[s.msg].weight
<1>1. SegmentOk(T, s, wrote, cut)
  BY DEF Laid
<1>2. s.first \in Nat /\ s.last \in Nat
  BY <1>1 DEF SegmentOk
<1> DEFINE q == s.first + 2
           r == s.first + 3
<1>3. /\ q \in Nat /\ s.first <= q /\ q <= s.last /\ 3 = q - s.first + 1
      /\ r \in Nat /\ s.first <= r /\ r <= s.last /\ 4 = r - s.first + 1
  BY <1>2
<1> HIDE DEF q, r
<1>4. T[q] = Wire(s.msg)[3] /\ T[r] = Wire(s.msg)[4]
  BY <1>3, SegmentAt
<1>5. T[s.first + 2] = Wire(s.msg)[3] /\ T[s.first + 3] = Wire(s.msg)[4]
  BY <1>4 DEF q, r
<1> QED  BY <1>5, WireBytes

(* Where a message begins that no cut is near, nothing is pending.         *)
LEMMA Calm ==
  ASSUME NEW T, NEW G, NEW wrote, NEW cut, Laid(T, G, wrote, cut),
         NEW i \in DOMAIN wrote, Safe(i, wrote, cut),
         NEW d, LineOk(d), Tracks(d, T, wrote[i])
  PROVE  d.state \in {"kScanStart1", "kExpectStart2"}
<1> DEFINE P == wrote[i]
<1>1. P \in Nat /\ P < Len(T) /\ Len(T) \in Nat /\ Span(i) \in Nat /\ Span(i) > 0
  <2>1. i \in DOMAIN Asked /\ P \in Nat /\ Len(T) \in Nat
    BY LaidTypes
  <2>2. Asked[i].weight \in 1..MaxPayload /\ MaxPayload \in Nat
    BY <2>1, WireBytes, LegacyAssumption
  <2>3. Span(i) \in Nat /\ Span(i) > 0
    BY <2>2 DEF Span
  <2>4. P + Span(i) <= Len(T)
    BY MessageThere
  <2> QED  BY <2>1, <2>3, <2>4
<1>2. PICK g \in G : g.msg = i /\ g.first = P + 1 /\ g.last = P + Span(i)
  BY DEF Laid
<1>m. MaxPayload \in Nat
  BY LegacyAssumption
<1>n. Tracks(d, T, P)
  OBVIOUS
<1>w. \A c \in cut : c <= P => P - c >= MaxPayload + 2
  BY DEF Safe
<1> HIDE DEF P
<1>3. ASSUME NEW h, Begins(T, h), h + 1 <= P, P <= h + 2 + MaxPayload,
             P >= h + 3 => P - h - 3 < T[h + 2].byte * Base + T[h + 3].byte
      PROVE  FALSE
  <2>1. h \in Nat
    BY <1>3 DEF Begins
  <2>2. h + 1 <= Len(T)
    BY <1>1, <1>3, <2>1
  <2>3. PICK s \in G : s.first = h /\ h + 1 <= s.last /\ s.msg \in DOMAIN Asked
    BY <1>3, <2>2, Adjacent
  <2>4. SegmentOk(T, s, wrote, cut)
    BY DEF Laid
  <2>5. s.first \in Nat /\ s.last \in Nat
    BY <2>4 DEF SegmentOk
  <2>6. s.last <= P
    <3>1. s # g
      BY <1>1, <1>2, <1>3, <2>1, <2>3
    <3>2. ~(s.first <= g.last /\ g.first <= s.last)
      BY <3>1 DEF Laid
    <3> QED  BY <1>1, <1>2, <1>3, <2>1, <2>3, <2>5, <3>2
  <2>7. CASE s.last \in cut
    <3>1. P - s.last >= MaxPayload + 2
      BY <1>w, <2>6, <2>7
    <3> QED  BY <1>1, <1>3, <1>m, <2>1, <2>3, <2>5, <3>1
  <2>8. CASE s.last = s.first + Span(s.msg) - 1
    <3>1. Asked[s.msg].weight \in 1..MaxPayload /\ Span(s.msg) = 4 + Asked[s.msg].weight
      BY <2>3, WireBytes DEF Span
    <3>2. s.last = h + 3 + Asked[s.msg].weight /\ Asked[s.msg].weight \in Nat
      BY <1>m, <2>1, <2>3, <2>8, <3>1
    <3>3. s.first + 3 <= s.last
      BY <2>1, <2>3, <3>2
    <3>4. T[h + 2].byte * Base + T[h + 3].byte = Asked[s.msg].weight
      BY <2>3, <3>3, HeaderTells
    <3> QED  BY <1>1, <1>3, <2>1, <2>6, <3>2, <3>4
  <2>9. s.msg # 0
    BY <2>3, WireBytes
  <2> QED  BY <2>4, <2>7, <2>8, <2>9 DEF SegmentOk
<1>4. d.state # "kLenHi"
  <2>1. SUFFICES ASSUME NEW h, Begins(T, h), P = h + 1 PROVE FALSE
    BY <1>n DEF Tracks
  <2>2. h \in Nat
    BY <2>1 DEF Begins
  <2>3. P <= h + 2 + MaxPayload /\ h + 1 <= P /\ ~(P >= h + 3)
    BY <1>m, <2>1, <2>2
  <2> QED  BY <1>3, <2>1, <2>3
<1>5. d.state # "kLenLo"
  <2>1. SUFFICES ASSUME NEW h, Begins(T, h), P = h + 2 PROVE FALSE
    BY <1>n DEF Tracks
  <2>2. h \in Nat
    BY <2>1 DEF Begins
  <2>3. P <= h + 2 + MaxPayload /\ h + 1 <= P /\ ~(P >= h + 3)
    BY <1>m, <2>1, <2>2
  <2> QED  BY <1>3, <2>1, <2>3
<1>6. d.state # "kPayload"
  <2>1. SUFFICES ASSUME NEW h, InBuffer(d, T, h), P = h + 3 + Len(d.buf) PROVE FALSE
    BY <1>n DEF Tracks
  <2> DEFINE n == Len(d.buf)
  <2>2. n \in Nat
    BY DEF LineOk
  <2>3. Begins(T, h) /\ d.len = T[h + 2].byte * Base + T[h + 3].byte
        /\ d.len \in 1..MaxPayload /\ n < d.len
    BY <2>1 DEF InBuffer
  <2>4. P = h + 3 + n
    BY <2>1
  <2> HIDE DEF n
  <2>5. h \in Nat
    BY <2>3 DEF Begins
  <2>6. h + 1 <= P /\ P <= h + 2 + MaxPayload /\ P - h - 3 = n
    BY <1>m, <2>2, <2>3, <2>4, <2>5
  <2> QED  BY <1>3, <2>3, <2>6
<1> QED  BY <1>4, <1>5, <1>6 DEF LineOk
-----------------------------------------------------------------------------
(* What the deframer does with the byte u, to its output o and its state.  *)
Quiet(d, e, state) == e.state = state /\ e.out = d.out

ByteTaken(d, u, e) ==
  CASE d.state = "kScanStart1" ->
         Quiet(d, e, IF u.byte = START1 THEN "kExpectStart2" ELSE "kScanStart1")
    [] d.state = "kExpectStart2" ->
         Quiet(d, e, IF u.byte = START2 THEN "kLenHi"
                     ELSE IF u.byte = START1 THEN "kExpectStart2" ELSE "kScanStart1")
    [] d.state = "kLenHi" -> Quiet(d, e, "kLenLo") /\ e.len = u.byte * Base
    [] d.state = "kLenLo" ->
         LET n == d.len + u.byte
         IN  IF n > MaxPayload THEN Quiet(d, e, "kScanStart1")
             ELSE IF n = 0 THEN e.state = "kScanStart1" /\ e.out = Append(d.out, <<>>)
             ELSE Quiet(d, e, "kPayload") /\ e.len = n /\ e.buf = <<>>
    [] d.state = "kPayload" ->
         IF Len(d.buf) + 1 < d.len
         THEN Quiet(d, e, "kPayload") /\ e.len = d.len /\ e.buf = Append(d.buf, u)
         ELSE e.state = "kScanStart1" /\ e.out = Append(d.out, Append(d.buf, u))

LEMMA DeframedTakes ==
  ASSUME NEW d, LineOk(d), NEW u
  PROVE  ByteTaken(d, u, Deframed(d, u))
<1>1. \A state : Quiet(d, Goes(d, state), state)
  BY DEF LineOk, Goes, Quiet
<1>2. \A o : [Scanning EXCEPT !.out = o].state = "kScanStart1" /\ [Scanning EXCEPT !.out = o].out = o
  BY DEF Scanning
<1>3. CASE d.state = "kScanStart1"
  BY <1>1, <1>3 DEF Deframed, ByteTaken
<1>4. CASE d.state = "kExpectStart2"
  <2>1. START1 # START2
    BY LegacyAssumption
  <2> QED  BY <1>1, <1>4, <2>1 DEF Deframed, ExpectStart2, ByteTaken
<1>5. CASE d.state = "kLenHi"
  <2> DEFINE n == u.byte * Base
             e == [d EXCEPT !.state = "kLenLo", !.len = n]
  <2>1. Deframed(d, u) = e
    BY <1>5 DEF Deframed
  <2> HIDE DEF n
  <2>2. Quiet(d, e, "kLenLo") /\ e.len = n
    BY DEF LineOk, Quiet
  <2> HIDE DEF e
  <2> QED  BY <1>5, <2>1, <2>2 DEF ByteTaken, n
<1>6. CASE d.state = "kLenLo"
  <2> DEFINE n == d.len + u.byte
             o == Append(d.out, <<>>)
             f == [Scanning EXCEPT !.out = d.out]
             g == [Scanning EXCEPT !.out = o]
             e == [d EXCEPT !.state = "kPayload", !.len = n, !.buf = <<>>]
  <2>1. Deframed(d, u) = LenLo(d, u.byte)
    BY <1>6 DEF Deframed
  <2>2. LenLo(d, u.byte) = IF n > MaxPayload THEN f ELSE IF n = 0 THEN g ELSE e
    BY Zenon DEF LenLo
  <2> HIDE DEF n, o
  <2>3. Quiet(d, f, "kScanStart1") /\ g.state = "kScanStart1" /\ g.out = o
    BY <1>2 DEF Quiet
  <2>4. Quiet(d, e, "kPayload") /\ e.len = n /\ e.buf = <<>>
    BY DEF LineOk, Quiet
  <2> HIDE DEF e, f, g
  <2> QED  BY <1>6, <2>1, <2>2, <2>3, <2>4 DEF ByteTaken, n, o
<1>7. CASE d.state = "kPayload"
  <2> DEFINE b == Append(d.buf, u)
             o == Append(d.out, b)
             e == [d EXCEPT !.buf = b]
             g == [Scanning EXCEPT !.out = o]
  <2>1. Deframed(d, u) = InPayload(d, u)
    BY <1>7 DEF Deframed
  <2>2. InPayload(d, u) = IF Len(d.buf) + 1 < d.len THEN e ELSE g
    BY Zenon DEF InPayload
  <2> HIDE DEF b, o
  <2>3. g.state = "kScanStart1" /\ g.out = o
    BY <1>2
  <2>4. Quiet(d, e, "kPayload") /\ e.len = d.len /\ e.buf = b
    BY <1>7 DEF LineOk, Quiet
  <2> HIDE DEF e, g
  <2> QED  BY <1>7, <2>1, <2>2, <2>3, <2>4 DEF ByteTaken, b, o
<1> QED  BY <1>3, <1>4, <1>5, <1>6, <1>7 DEF LineOk

(* The deframer follows the line.                                          *)
LEMMA TracksStep ==
  ASSUME NEW T \in Seq(Units), NEW P \in Nat, P < Len(T),
         NEW d, LineOk(d), Tracks(d, T, P), NEW e, ByteTaken(d, T[P + 1], e)
  PROVE  Tracks(e, T, P + 1)
<1> DEFINE R == P + 1
           u == T[R]
<1>1. R \in Nat /\ R >= 1 /\ R = P + 1 /\ u \in Units /\ u.byte \in Nat
  <2>1. R \in 1..Len(T) /\ u \in Units
    OBVIOUS
  <2> QED  BY <2>1 DEF Units
<1> HIDE DEF R
<1>2. ByteTaken(d, u, e)
  BY DEF R
<1>3. d.state \in {"kScanStart1", "kExpectStart2", "kLenHi", "kLenLo", "kPayload"}
      /\ d.buf \in Seq(Units) /\ Len(d.buf) \in Nat
  BY DEF LineOk
<1>4. CASE d.state = "kScanStart1"
  BY <1>1, <1>2, <1>4 DEF ByteTaken, Quiet, Tracks
<1>5. CASE d.state = "kExpectStart2"
  <2>1. P >= 1 /\ T[P].byte = START1
    BY <1>5 DEF Tracks
  <2>2. Quiet(d, e, IF u.byte = START2 THEN "kLenHi"
                    ELSE IF u.byte = START1 THEN "kExpectStart2" ELSE "kScanStart1")
    BY <1>2, <1>5 DEF ByteTaken
  <2>3. u.byte = START2 => Begins(T, P)
    BY <1>1, <2>1 DEF Begins
  <2>4. e.state = "kLenHi" => \E h : Begins(T, h) /\ R = h + 1
    BY <1>1, <2>2, <2>3 DEF Quiet
  <2>5. Tracks(e, T, R)
    BY <1>1, <2>2, <2>4 DEF Tracks, Quiet
  <2> QED  BY <2>5 DEF R
<1>6. CASE d.state = "kLenHi"
  <2>1. PICK h : Begins(T, h) /\ P = h + 1
    BY <1>6 DEF Tracks
  <2>2. e.state = "kLenLo" /\ e.len = u.byte * Base
    BY <1>2, <1>6 DEF ByteTaken, Quiet
  <2>3. R = h + 2 /\ u = T[h + 2]
    <3>1. h \in Nat
      BY <2>1 DEF Begins
    <3> QED  BY <1>1, <2>1, <3>1
  <2>4. Tracks(e, T, R)
    BY <2>1, <2>2, <2>3 DEF Tracks
  <2> QED  BY <2>4 DEF R
<1>7. CASE d.state = "kLenLo"
  <2>1. PICK h : Begins(T, h) /\ P = h + 2 /\ d.len = T[h + 2].byte * Base
    BY <1>7 DEF Tracks
  <2>2. h \in Nat /\ R = h + 3 /\ u = T[h + 3] /\ T[h + 2].byte \in Nat
    <3>1. h \in Nat
      BY <2>1 DEF Begins
    <3>2. P \in 1..Len(T)
      BY <2>1, <3>1
    <3>3. T[P] \in Units
      BY <3>2
    <3>4. T[P].byte \in Nat
      BY <3>3 DEF Units
    <3> QED  BY <1>1, <2>1, <3>1, <3>4
  <2> DEFINE n == d.len + u.byte
  <2>3. n \in Nat /\ n = T[h + 2].byte * Base + T[h + 3].byte
    <3>1. Base \in Nat
      BY LegacyAssumption
    <3>2. d.len \in Nat
      BY <2>1, <2>2, <3>1
    <3> QED  BY <1>1, <2>1, <2>2, <3>2
  <2>4. IF n > MaxPayload THEN e.state = "kScanStart1"
        ELSE IF n = 0 THEN e.state = "kScanStart1"
        ELSE e.state = "kPayload" /\ e.len = n /\ e.buf = <<>>
    BY <1>2, <1>7 DEF ByteTaken, Quiet
  <2> HIDE DEF n
  <2>5. CASE e.state = "kScanStart1"
    <3>1. Tracks(e, T, R)
      BY <2>5 DEF Tracks
    <3> QED  BY <3>1 DEF R
  <2>6. CASE e.state = "kPayload" /\ e.len = n /\ e.buf = <<>> /\ n # 0 /\ n <= MaxPayload
    <3>1. n \in 1..MaxPayload /\ Len(e.buf) = 0
      BY <2>3, <2>6, LegacyAssumption
    <3>2. InBuffer(e, T, h) /\ R = h + 3 + Len(e.buf)
      BY <2>1, <2>2, <2>3, <2>6, <3>1 DEF InBuffer
    <3>3. Tracks(e, T, R)
      BY <2>6, <3>2 DEF Tracks
    <3> QED  BY <3>3 DEF R
  <2>7. n > MaxPayload \/ n <= MaxPayload
    BY <2>3, LegacyAssumption
  <2> QED  BY <2>4, <2>5, <2>6, <2>7
<1>8. CASE d.state = "kPayload"
  <2>1. PICK h : InBuffer(d, T, h) /\ P = h + 3 + Len(d.buf)
    BY <1>8 DEF Tracks
  <2>2. h \in Nat
    BY <2>1 DEF InBuffer, Begins
  <2>3. CASE Len(d.buf) + 1 < d.len
    <3>1. e.state = "kPayload" /\ e.len = d.len /\ e.buf = Append(d.buf, u)
      BY <1>2, <1>8, <2>3 DEF ByteTaken, Quiet
    <3> DEFINE n == Len(d.buf)
    <3>2. /\ Len(e.buf) = n + 1 /\ e.buf[n + 1] = u
          /\ \A j \in 1..n : e.buf[j] = d.buf[j]
      BY <1>1, <1>3, <3>1
    <3>4. n \in Nat /\ n + 1 < d.len /\ P = h + 3 + n
      BY <1>3, <2>1, <2>3
    <3>5. \A j \in 1..n : d.buf[j] = T[h + 3 + j]
      BY <2>1 DEF InBuffer
    <3> HIDE DEF n
    <3>3. R = h + 3 + (n + 1)
      BY <1>1, <2>2, <3>4
    <3>6. ASSUME NEW j \in 1..Len(e.buf) PROVE e.buf[j] = T[h + 3 + j]
      <4>1. CASE j = n + 1
        BY <3>2, <3>3, <4>1
      <4>2. CASE j \in 1..n
        BY <3>2, <3>5, <4>2
      <4> QED  BY <3>2, <3>4, <4>1, <4>2
    <3>7. InBuffer(e, T, h)
      <4>1. /\ Begins(T, h) /\ d.len \in 1..MaxPayload
            /\ d.len = T[h + 2].byte * Base + T[h + 3].byte
        BY <2>1 DEF InBuffer
      <4>2. Len(e.buf) < d.len /\ e.len = d.len
        BY <3>1, <3>2, <3>4
      <4> QED  BY <3>6, <4>1, <4>2 DEF InBuffer
    <3>8. Tracks(e, T, R)
      BY <3>1, <3>2, <3>3, <3>7 DEF Tracks
    <3> QED  BY <3>8 DEF R
  <2>4. CASE ~(Len(d.buf) + 1 < d.len)
    <3>1. e.state = "kScanStart1"
      BY <1>2, <1>8, <2>4 DEF ByteTaken
    <3>2. Tracks(e, T, R)
      BY <3>1 DEF Tracks
    <3> QED  BY <3>2 DEF R
  <2> QED  BY <2>3, <2>4
<1> QED  BY <1>3, <1>4, <1>5, <1>6, <1>7, <1>8

(* In the payload of a message in step: the buffer is its.                 *)
LEMMA InMidst ==
  ASSUME NEW T, NEW G, NEW wrote, NEW cut, Laid(T, G, wrote, cut),
         NEW i \in DOMAIN wrote, NEW P \in Nat,
         NEW n \in Nat, P = wrote[i] + n, n >= 4, n < Span(i),
         NEW d, LineOk(d), Tracks(d, T, P), InFrame(d, n)
  PROVE  /\ d.state = "kPayload" /\ Len(d.buf) = n - 4 /\ d.len = Asked[i].weight
         /\ \A j \in 1..(n - 4) : d.buf[j] = Wire(i)[4 + j]
<1>1. d.state = "kPayload" /\ Len(d.buf) = n - 4
  BY DEF InFrame
<1>2. PICK h : InBuffer(d, T, h) /\ P = h + 3 + Len(d.buf)
  BY <1>1 DEF Tracks
<1>3. h \in Nat
  BY <1>2 DEF InBuffer, Begins
<1>4. i \in DOMAIN Asked /\ wrote[i] \in Nat
  BY LaidTypes
<1>5. h = wrote[i] + 1
  BY <1>1, <1>2, <1>3, <1>4
<1>6. Span(i) \in Nat /\ Span(i) = 4 + Asked[i].weight /\ Asked[i].weight \in Nat
  <2>1. Asked[i].weight \in 1..MaxPayload /\ MaxPayload \in Nat
    BY <1>4, WireBytes, LegacyAssumption
  <2> QED  BY <2>1 DEF Span
<1>7. \A q \in 1..Span(i) : T[wrote[i] + q] = Wire(i)[q]
  BY MessageThere
<1>8. d.len = T[h + 2].byte * Base + T[h + 3].byte
  BY <1>2 DEF InBuffer
<1>9. T[h + 2] = Wire(i)[3] /\ T[h + 3] = Wire(i)[4]
  <2>1. 3 \in 1..Span(i) /\ 4 \in 1..Span(i)
    BY <1>6
  <2>2. T[wrote[i] + 3] = Wire(i)[3] /\ T[wrote[i] + 4] = Wire(i)[4]
    BY <1>7, <2>1
  <2>3. h + 2 = wrote[i] + 3 /\ h + 3 = wrote[i] + 4
    BY <1>4, <1>5
  <2> QED  BY <2>2, <2>3
<1>10. d.len = Asked[i].weight
  BY <1>4, <1>8, <1>9, WireBytes
<1>11. ASSUME NEW j \in 1..(n - 4) PROVE d.buf[j] = Wire(i)[4 + j]
  <2>1. d.buf[j] = T[h + 3 + j]
    BY <1>1, <1>2 DEF InBuffer
  <2> DEFINE q == 4 + j
  <2>2. q \in 1..Span(i) /\ h + 3 + j = wrote[i] + q
    BY <1>4, <1>5, <1>6
  <2> HIDE DEF q
  <2>3. d.buf[j] = Wire(i)[q]
    BY <1>7, <2>1, <2>2
  <2> QED  BY <2>3 DEF q
<1> QED  BY <1>1, <1>10, <1>11

(* The deframer stays in step with the messages no cut is near.            *)
LEMMA SyncStep ==
  ASSUME NEW T, NEW G, NEW wrote, NEW cut, Laid(T, G, wrote, cut),
         NEW P \in Nat, P < Len(T), NEW d, LineOk(d), Tracks(d, T, P),
         Sync(d, P, wrote, cut), NEW e, ByteTaken(d, T[P + 1], e)
  PROVE  Sync(e, P + 1, wrote, cut)
<1> SUFFICES ASSUME NEW i \in DOMAIN wrote, Safe(i, wrote, cut)
             PROVE  InStep(e, P + 1, i, wrote[i])
  BY Zenon DEF Sync
<1>1. i \in DOMAIN Asked /\ wrote[i] \in Nat
  BY LaidTypes
<1>2. Span(i) = 4 + Asked[i].weight /\ Asked[i].weight \in 1..MaxPayload /\ MaxPayload \in Nat
  BY <1>1, WireBytes, LegacyAssumption DEF Span
<1>k. Span(i) \in Nat
  BY <1>2
<1> SUFFICES wrote[i] < P + 1 /\ P + 1 < wrote[i] + Span(i)
               => InFrame(e, P + 1 - wrote[i])
  BY <1>1, <1>k DEF InStep
<1> HAVE wrote[i] < P + 1 /\ P + 1 < wrote[i] + Span(i)
<1> DEFINE n == P - wrote[i]
           m == n + 1
           u == T[P + 1]
<1>3. /\ n \in Nat /\ P = wrote[i] + n /\ m < Span(i) /\ P + 1 = wrote[i] + m
      /\ P + 1 - wrote[i] = m /\ m \in 1..Span(i) /\ m = n + 1 /\ Span(i) \in Nat
  <2>1. Span(i) \in Nat
    BY <1>2
  <2>2. n \in Nat /\ P = wrote[i] + n /\ P + 1 = wrote[i] + m /\ P + 1 - wrote[i] = m
    BY <1>1
  <2>3. m < Span(i)
    BY <1>1, <2>1
  <2> QED  BY <2>1, <2>2, <2>3
<1>4. u = Wire(i)[m]
  <2>1. \A q \in 1..Span(i) : T[wrote[i] + q] = Wire(i)[q]
    BY MessageThere
  <2> HIDE DEF m, n
  <2> QED  BY <1>3, <2>1
<1>5. ByteTaken(d, u, e)
  OBVIOUS
<1>6. n = 0 \/ InFrame(d, n)
  <2>1. n # 0 => wrote[i] < P /\ P < wrote[i] + Span(i)
    BY <1>1, <1>3
  <2> QED  BY <2>1 DEF Sync, InStep
<1> HIDE DEF n, m, u
<1>7. \A v : Byte(v).byte = v
  BY DEF Byte
<1>8. CASE n = 0
  <2>1. m = 1 /\ wrote[i] = P
    BY <1>1, <1>3, <1>8
  <2>2. d.state \in {"kScanStart1", "kExpectStart2"}
    BY <2>1, Calm
  <2>3. u.byte = START1 /\ START1 # START2
    BY <1>1, <1>4, <1>7, <2>1, WireBytes, LegacyAssumption
  <2>4. e.state = "kExpectStart2"
    BY <1>5, <2>2, <2>3 DEF ByteTaken, Quiet
  <2>5. InFrame(e, m)
    BY <2>1, <2>4 DEF InFrame
  <2> QED  BY <1>3, <2>5
<1>9. CASE n = 1
  <2>1. m = 2 /\ d.state = "kExpectStart2"
    BY <1>3, <1>6, <1>9 DEF InFrame
  <2>2. u.byte = START2
    BY <1>1, <1>4, <1>7, <2>1, WireBytes
  <2>3. e.state = "kLenHi"
    BY <1>5, <2>1, <2>2 DEF ByteTaken, Quiet
  <2>4. InFrame(e, m)
    BY <2>1, <2>3 DEF InFrame
  <2> QED  BY <1>3, <2>4
<1>10. CASE n = 2
  <2>1. m = 3 /\ d.state = "kLenHi"
    BY <1>3, <1>6, <1>10 DEF InFrame
  <2>2. e.state = "kLenLo"
    BY <1>5, <2>1 DEF ByteTaken, Quiet
  <2>3. InFrame(e, m)
    BY <2>1, <2>2 DEF InFrame
  <2> QED  BY <1>3, <2>3
<1>11. CASE n = 3
  <2>1. m = 4 /\ d.state = "kLenLo"
    BY <1>3, <1>6, <1>11 DEF InFrame
  <2>2. PICK h : Begins(T, h) /\ P = h + 2 /\ d.len = T[h + 2].byte * Base
    BY <2>1 DEF Tracks
  <2>3. h + 2 = wrote[i] + 3
    BY <1>3, <1>11, <2>2
  <2>4. T[wrote[i] + 3] = Wire(i)[3]
    <3>1. 3 \in 1..Span(i)
      BY <1>2
    <3> QED  BY <3>1, MessageThere
  <2>5. d.len + u.byte = Asked[i].weight
    <3>1. Wire(i)[3].byte * Base + Wire(i)[4].byte = Asked[i].weight
      BY <1>1, WireBytes
    <3> QED  BY <1>4, <2>1, <2>2, <2>3, <2>4, <3>1
  <2>6. e.state = "kPayload" /\ e.buf = <<>>
    BY <1>2, <1>5, <2>1, <2>5 DEF ByteTaken, Quiet
  <2>7. Len(e.buf) = m - 4
    BY <2>1, <2>6
  <2>8. InFrame(e, m)
    BY <2>1, <2>6, <2>7 DEF InFrame
  <2> QED  BY <1>3, <2>8
<1>12. CASE n >= 4
  <2>1. InFrame(d, n) /\ n < Span(i)
    BY <1>3, <1>6, <1>12
  <2>2. d.state = "kPayload" /\ Len(d.buf) = n - 4 /\ d.len = Asked[i].weight
    BY <1>3, <1>12, <2>1, InMidst
  <2>3. Len(d.buf) + 1 < d.len
    BY <1>2, <1>3, <2>2
  <2>4. e.state = "kPayload" /\ e.buf = Append(d.buf, u)
    BY <1>5, <2>2, <2>3 DEF ByteTaken, Quiet
  <2>5. Len(e.buf) = m - 4
    BY <1>3, <2>2, <2>4 DEF LineOk
  <2>6. InFrame(e, m)
    BY <1>3, <1>12, <2>4, <2>5 DEF InFrame
  <2> QED  BY <1>3, <2>6
<1> QED  BY <1>3, <1>8, <1>9, <1>10, <1>11, <1>12

(* A piece of message i is where its number says, behind its header.       *)
LEMMA PieceAt ==
  ASSUME NEW T, NEW G, NEW wrote, NEW cut, Laid(T, G, wrote, cut),
         NEW q \in 1..Len(T), NEW i \in DOMAIN Asked, T[q].of = i
  PROVE  \E s \in G : /\ s.msg = i /\ s.first <= q /\ q <= s.last
                      /\ q = s.first + 3 + T[q].piece
<1>1. PICK s \in G : s.first <= q /\ q <= s.last
  BY DEF Laid
<1>2. SegmentOk(T, s, wrote, cut) /\ q \in Nat
  BY LaidTypes DEF Laid
<1>3. s.first \in Nat /\ s.last \in Nat
  BY <1>2 DEF SegmentOk
<1>4. i # 0 /\ \A v : Byte(v).of = 0
  BY WireBytes DEF Byte
<1>5. s.msg \in DOMAIN Asked
  <2>1. SUFFICES ASSUME s.msg = 0, s.last = s.first, T[s.first] \in {Byte(START1), Byte(0)}
                 PROVE  FALSE
    BY <1>2 DEF SegmentOk
  <2>2. q = s.first
    BY <1>1, <1>2, <1>3, <2>1
  <2> QED  BY <1>4, <2>1, <2>2
<1> DEFINE m == s.msg
           n == q - s.first + 1
<1>6. T[q] = Wire(m)[n] /\ n \in 1..Span(m) /\ q = s.first + n - 1
  BY <1>1, <1>2, <1>5, SegmentAt
<1>7. m \in DOMAIN Asked
  BY <1>5
<1> HIDE DEF m, n
<1>8. Span(m) \in Nat /\ \A k \in 1..4 : Wire(m)[k].of = 0
  BY <1>7, WireBytes
<1>9. ~(n \in 1..4)
  <2>1. n \in 1..4 => Wire(m)[n].of = 0
    BY <1>8
  <2> QED  BY <1>4, <1>6, <2>1
<1>10. n \in 5..Span(m)
  BY <1>6, <1>8, <1>9
<1>11. Wire(m)[n] = [byte |-> 0, of |-> m, piece |-> n - 4]
  BY <1>7, <1>10, WireBytes
<1> DEFINE k == n - 4
           y == T[q]
<1>k. n \in Nat /\ n = k + 4 /\ k \in Nat
  BY <1>8, <1>10
<1>y. y = [byte |-> 0, of |-> m, piece |-> k]
  BY <1>6, <1>11
<1> HIDE DEF k, y
<1>12. y.of = m /\ y.piece = k
  BY <1>y
<1>13. q = s.first + 3 + k
  BY <1>2, <1>3, <1>6, <1>k
<1>14. m = i /\ q = s.first + 3 + T[q].piece
  BY <1>12, <1>13 DEF y
<1> QED  BY <1>1, <1>14 DEF m

(* A payload that is a message of the host whole is one it wrote whole,    *)
(* and it ends where that ends.                                            *)
EndsAt(x, R, wrote) ==
  IsWhole(x) => x[1].of \in DOMAIN wrote /\ wrote[x[1].of] + Span(x[1].of) = R

LEMMA WholeEnds ==
  ASSUME NEW T, NEW G, NEW wrote, NEW cut, Laid(T, G, wrote, cut),
         NEW h, Begins(T, h), NEW w \in Nat, w >= 1, h + 3 + w <= Len(T),
         NEW x \in Seq(Units), Len(x) = w, \A j \in 1..w : x[j] = T[h + 3 + j]
  PROVE  EndsAt(x, h + 3 + w, wrote)
<1> SUFFICES ASSUME IsWhole(x)
             PROVE  x[1].of \in DOMAIN wrote /\ wrote[x[1].of] + Span(x[1].of) = h + 3 + w
  BY DEF EndsAt
<1> DEFINE i == x[1].of
           a == h + 3 + 1
           z == h + 3 + w
<1>1. i \in DOMAIN Asked /\ x = Pieces(i)
  BY DEF IsWhole
<1>2. h \in Nat /\ Len(T) \in Nat
  BY LaidTypes DEF Begins
<1>3. a \in 1..Len(T) /\ z \in 1..Len(T) /\ a = h + 4 /\ z = h + 3 + w
  BY <1>2
<1>4. x[1] = T[a] /\ x[w] = T[z]
  <2>1. 1 \in 1..w /\ w \in 1..w
    OBVIOUS
  <2> QED  BY <2>1
<1> HIDE DEF a, z
<1>5. PICK v \in 1..MaxPayload : v = Asked[i].weight
  BY <1>1, WireBytes
<1>6. x = [j \in 1..v |-> [byte |-> 0, of |-> i, piece |-> j]]
  <2> HIDE DEF i
  <2>1. Pieces(i) = [j \in 1..v |-> [byte |-> 0, of |-> i, piece |-> j]]
    BY <1>5 DEF Pieces
  <2> QED  BY <1>1, <2>1
<1>7. v = w
  <2>1. DOMAIN x = 1..v /\ DOMAIN x = 1..w
    BY <1>6
  <2>2. v \in Nat /\ v >= 1
    BY <1>5, LegacyAssumption
  <2> QED  BY <2>1, <2>2
<1> HIDE DEF i
<1>8. x[1].of = i /\ x[1].piece = 1 /\ x[w].of = i /\ x[w].piece = w
  <2>1. 1 \in 1..v /\ w \in 1..v
    BY <1>7
  <2> QED  BY <1>6, <2>1
<1>9. PICK s \in G : s.msg = i /\ s.first <= a /\ a <= s.last /\ a = s.first + 3 + 1
  BY <1>1, <1>3, <1>4, <1>8, PieceAt
<1>10. PICK t \in G : t.msg = i /\ t.first <= z /\ z <= t.last /\ z = t.first + 3 + w
  BY <1>1, <1>3, <1>4, <1>8, PieceAt
<1>11. /\ SegmentOk(T, s, wrote, cut) /\ SegmentOk(T, t, wrote, cut)
       /\ s.first \in Nat /\ s.last \in Nat /\ t.first \in Nat /\ t.last \in Nat
  BY DEF Laid, SegmentOk
<1>12. s.first = h /\ t.first = h
  BY <1>2, <1>3, <1>9, <1>10, <1>11
<1>13. s = t
  <2>1. s.first <= t.last /\ t.first <= s.last
    BY <1>9, <1>10, <1>11, <1>12
  <2> QED  BY <2>1 DEF Laid
<1>14. Span(i) = 4 + w
  BY <1>5, <1>7 DEF Span
<1>15. s.last >= s.first + Span(s.msg) - 1
  BY <1>2, <1>3, <1>9, <1>10, <1>12, <1>13, <1>14
<1>16. ~(s.last < s.first + Span(s.msg) - 1)
  <2>1. Span(s.msg) \in Nat
    BY <1>9, <1>14
  <2> QED  BY <1>11, <1>15, <2>1
<1>17. s.msg # 0
  BY <1>1, <1>9, WireBytes
<1>18. s.msg \in DOMAIN wrote /\ wrote[s.msg] = s.first - 1
  BY <1>11, <1>16, <1>17 DEF SegmentOk
<1>19. i \in DOMAIN wrote /\ wrote[i] = h - 1
  BY <1>9, <1>12, <1>18
<1>20. wrote[i] + Span(i) = h + 3 + w
  BY <1>2, <1>14, <1>19
<1> QED  BY <1>19, <1>20 DEF i

(* What the deframer gives out with byte number R.                         *)
Emits(o, p, R, wrote, cut) ==
  \/ /\ p = o
     /\ \A i \in DOMAIN wrote : Safe(i, wrote, cut) => wrote[i] + Span(i) # R
  \/ \E x \in Seq(Units) :
       /\ p = Append(o, x) /\ EndsAt(x, R, wrote)
       /\ \A i \in DOMAIN wrote :
            Safe(i, wrote, cut) /\ wrote[i] + Span(i) = R => x = Pieces(i)

LEMMA EmitStep ==
  ASSUME NEW T, NEW G, NEW wrote, NEW cut, Laid(T, G, wrote, cut),
         NEW P \in Nat, P < Len(T), NEW d, LineOk(d), Tracks(d, T, P),
         Sync(d, P, wrote, cut), NEW e, ByteTaken(d, T[P + 1], e)
  PROVE  Emits(d.out, e.out, P + 1, wrote, cut)
<1> DEFINE R == P + 1
           u == T[R]
<1>1. Len(T) \in Nat /\ R \in Nat /\ R = P + 1 /\ R \in 1..Len(T) /\ u \in Units
  <2>1. Len(T) \in Nat /\ R \in 1..Len(T)
    BY LaidTypes
  <2> QED  BY <2>1, LaidTypes
<1>2. ByteTaken(d, u, e)
  OBVIOUS
<1> HIDE DEF R, u
(* A message in step that ends here is in the buffer but for this byte.    *)
<1>3. ASSUME NEW i \in DOMAIN wrote, Safe(i, wrote, cut), wrote[i] + Span(i) = R
      PROVE  /\ d.state = "kPayload" /\ Len(d.buf) + 1 = d.len
             /\ Append(d.buf, u) = Pieces(i)
  <2> DEFINE n == P - wrote[i]
             w == Asked[i].weight
  <2>1. i \in DOMAIN Asked /\ wrote[i] \in Nat
    BY LaidTypes
  <2>2. w \in Nat /\ w >= 1 /\ Span(i) = 4 + w
    <3>1. w \in 1..MaxPayload /\ MaxPayload \in Nat
      BY <2>1, WireBytes, LegacyAssumption
    <3> QED  BY <3>1 DEF Span
  <2>3. n \in Nat /\ n = 3 + w /\ P = wrote[i] + n
    BY <1>1, <1>3, <2>1, <2>2
  <2>4. wrote[i] < P /\ P < wrote[i] + Span(i)
    BY <1>1, <1>3, <2>1, <2>2
  <2>5. InFrame(d, n)
    BY <1>3, <2>4 DEF Sync, InStep
  <2>6. Pieces(i) = [j \in 1..w |-> [byte |-> 0, of |-> i, piece |-> j]]
    BY <2>1, WireBytes
  <2> HIDE DEF n, w
  <2>7. n >= 4 /\ n < Span(i) /\ n - 4 = w - 1
    BY <2>2, <2>3
  <2>8. /\ d.state = "kPayload" /\ Len(d.buf) = n - 4 /\ d.len = w
        /\ \A j \in 1..(n - 4) : d.buf[j] = Wire(i)[4 + j]
    BY <2>3, <2>5, <2>7, InMidst DEF w
  <2>9. Len(d.buf) + 1 = d.len
    BY <2>2, <2>7, <2>8
  <2>10. \A q \in 5..Span(i) : Wire(i)[q] = [byte |-> 0, of |-> i, piece |-> q - 4]
    BY <2>1, WireBytes
  <2>11. \A j \in 1..w : Wire(i)[4 + j] = [byte |-> 0, of |-> i, piece |-> j]
    <3> SUFFICES ASSUME NEW j \in 1..w
                 PROVE  Wire(i)[4 + j] = [byte |-> 0, of |-> i, piece |-> j]
      OBVIOUS
    <3> DEFINE q == 4 + j
    <3>1. q \in 5..Span(i) /\ q - 4 = j
      BY <2>2
    <3> HIDE DEF q
    <3>2. Wire(i)[q] = [byte |-> 0, of |-> i, piece |-> j]
      BY <2>10, <3>1
    <3> QED  BY <3>2 DEF q
  <2>12. u = [byte |-> 0, of |-> i, piece |-> w]
    <3> DEFINE q == 4 + w
    <3>1. q \in 1..Span(i) /\ R = wrote[i] + q
      BY <1>3, <2>1, <2>2
    <3> HIDE DEF q
    <3>2. T[R] = Wire(i)[q]
      BY <3>1, MessageThere
    <3>3. w \in 1..w
      BY <2>2
    <3> QED  BY <2>11, <3>2, <3>3 DEF u, q
  <2> DEFINE x == Append(d.buf, u)
  <2>13. d.buf \in Seq(Units) /\ Len(d.buf) = w - 1
    BY <2>7, <2>8 DEF LineOk
  <2>14. /\ x \in Seq(Units) /\ Len(x) = w /\ x[w] = u
         /\ \A j \in 1..(w - 1) : x[j] = d.buf[j]
    BY <1>1, <2>2, <2>13
  <2> HIDE DEF x
  <2>15. ASSUME NEW j \in 1..w PROVE x[j] = [byte |-> 0, of |-> i, piece |-> j]
    <3>1. CASE j = w
      BY <2>12, <2>14, <3>1
    <3>2. CASE j \in 1..(w - 1)
      BY <2>7, <2>8, <2>11, <2>14, <3>2
    <3> QED  BY <2>2, <3>1, <3>2
  <2>16. x = [j \in 1..w |-> x[j]]
    BY <2>14
  <2>17. x = Pieces(i)
    BY <2>6, <2>15, <2>16
  <2> QED  BY <2>8, <2>9, <2>17 DEF x
<1>4. CASE e.out = d.out /\ ~(d.state = "kPayload" /\ Len(d.buf) + 1 = d.len)
  <2>1. Emits(d.out, e.out, R, wrote, cut)
    BY <1>3, <1>4 DEF Emits
  <2> QED  BY <2>1 DEF R
<1>5. CASE e.out = Append(d.out, <<>>) /\ d.state = "kLenLo"
  <2>1. EndsAt(<<>>, R, wrote) /\ <<>> \in Seq(Units)
    BY DEF EndsAt, IsWhole
  <2>2. \A i \in DOMAIN wrote : Safe(i, wrote, cut) => wrote[i] + Span(i) # R
    BY <1>3, <1>5
  <2>3. Emits(d.out, e.out, R, wrote, cut)
    BY <1>5, <2>1, <2>2 DEF Emits
  <2> QED  BY <2>3 DEF R
<1>6. CASE /\ e.out = Append(d.out, Append(d.buf, u))
           /\ d.state = "kPayload" /\ ~(Len(d.buf) + 1 < d.len)
  <2> DEFINE x == Append(d.buf, u)
             n == Len(d.buf)
  <2>1. PICK h : InBuffer(d, T, h) /\ P = h + 3 + n
    BY <1>6 DEF Tracks
  <2>2. /\ Begins(T, h) /\ h \in Nat /\ d.len \in 1..MaxPayload /\ n < d.len
        /\ \A j \in 1..n : d.buf[j] = T[h + 3 + j]
    BY <2>1 DEF InBuffer, Begins
  <2>3. n \in Nat /\ d.buf \in Seq(Units) /\ d.len \in Int
    BY <2>2, LegacyAssumption DEF LineOk
  <2>4. /\ x \in Seq(Units) /\ Len(x) = n + 1 /\ x[n + 1] = u
        /\ \A j \in 1..n : x[j] = d.buf[j]
    BY <1>1, <2>3
  <2>5. ~(n + 1 < d.len)
    BY <1>6
  <2>6. e.out = Append(d.out, x)
    BY <1>6
  <2>7. \A i \in DOMAIN wrote :
          Safe(i, wrote, cut) /\ wrote[i] + Span(i) = R => x = Pieces(i)
    BY <1>3
  <2> HIDE DEF x, n
  <2> DEFINE w == n + 1
  <2>8. w \in Nat /\ w >= 1 /\ R = h + 3 + w /\ h + 3 + w <= Len(T) /\ w = n + 1
    BY <1>1, <2>1, <2>2, <2>3
  <2> HIDE DEF w
  <2>9. ASSUME NEW j \in 1..w PROVE x[j] = T[h + 3 + j]
    <3>1. CASE j = w
      BY <2>4, <2>8, <3>1 DEF u
    <3>2. CASE j \in 1..n
      BY <2>2, <2>4, <3>2
    <3> QED  BY <2>3, <2>8, <3>1, <3>2
  <2>10. EndsAt(x, h + 3 + w, wrote)
    BY <2>2, <2>4, <2>8, <2>9, WholeEnds
  <2>11. Emits(d.out, e.out, R, wrote, cut)
    BY <2>4, <2>6, <2>7, <2>8, <2>10 DEF Emits
  <2> QED  BY <2>11 DEF R
<1>7. \/ e.out = d.out /\ ~(d.state = "kPayload" /\ Len(d.buf) + 1 = d.len)
      \/ e.out = Append(d.out, <<>>) /\ d.state = "kLenLo"
      \/ /\ e.out = Append(d.out, Append(d.buf, u))
         /\ d.state = "kPayload" /\ ~(Len(d.buf) + 1 < d.len)
  <2>1. d.state \in {"kScanStart1", "kExpectStart2", "kLenHi", "kLenLo", "kPayload"}
        /\ Len(d.buf) \in Nat
    BY DEF LineOk
  <2>2. CASE d.state \notin {"kLenLo", "kPayload"}
    BY <1>2, <2>1, <2>2 DEF ByteTaken, Quiet
  <2>3. CASE d.state = "kLenLo"
    BY <1>2, <2>3 DEF ByteTaken, Quiet
  <2>4. CASE d.state = "kPayload"
    <3>1. CASE Len(d.buf) + 1 < d.len
      <4>1. Len(d.buf) + 1 # d.len
        BY <2>1, <3>1
      <4> QED  BY <1>2, <2>4, <3>1, <4>1 DEF ByteTaken, Quiet
    <3>2. CASE ~(Len(d.buf) + 1 < d.len)
      BY <1>2, <2>4, <3>2 DEF ByteTaken
    <3> QED  BY <3>1, <3>2
  <2> QED  BY <2>2, <2>3, <2>4
<1> QED  BY <1>4, <1>5, <1>6, <1>7
-----------------------------------------------------------------------------
(* Messages that end earlier were written earlier.                         *)
LEMMA EndsOrder ==
  ASSUME NEW T, NEW G, NEW wrote, NEW cut, Laid(T, G, wrote, cut),
         NEW i \in DOMAIN wrote, NEW j \in DOMAIN wrote,
         wrote[i] + Span(i) < wrote[j] + Span(j)
  PROVE  i < j
<1>1. /\ i \in Nat /\ j \in Nat /\ wrote[i] \in Nat /\ wrote[j] \in Nat
      /\ Span(i) \in Nat /\ Span(j) \in Nat
  BY LaidTypes, WireBytes
<1>2. j < i => wrote[j] + Span(j) <= wrote[i]
  BY DEF Laid
<1>3. i # j
  BY <1>1
<1> QED  BY <1>1, <1>2, <1>3

(* What the deframer gave out while it read byte P0 + 1 to byte P.         *)
OutOk(o, P0, P, wrote, cut) ==
  /\ \A n \in 1..Len(o) :
       IsWhole(o[n]) => /\ o[n][1].of \in DOMAIN wrote
                        /\ P0 < wrote[o[n][1].of] + Span(o[n][1].of)
                        /\ wrote[o[n][1].of] + Span(o[n][1].of) <= P
  /\ \A n, m \in 1..Len(o) :
       n < m /\ IsWhole(o[n]) /\ IsWhole(o[m]) => o[n][1].of < o[m][1].of
  /\ \A i \in DOMAIN wrote :
       Safe(i, wrote, cut) /\ P0 < wrote[i] + Span(i) /\ wrote[i] + Span(i) <= P
         => \E n \in 1..Len(o) : o[n] = Pieces(i)

LEMMA OutGrows ==
  ASSUME NEW T, NEW G, NEW wrote, NEW cut, Laid(T, G, wrote, cut),
         NEW P0 \in Nat, NEW P \in Nat, P0 <= P, NEW o \in Seq(Seq(Units)), NEW p,
         OutOk(o, P0, P, wrote, cut), Emits(o, p, P + 1, wrote, cut)
  PROVE  OutOk(p, P0, P + 1, wrote, cut)
<1> DEFINE R == P + 1
<1>1. \A i \in DOMAIN wrote : wrote[i] + Span(i) \in Nat
  <2>1. \A i \in DOMAIN wrote : i \in DOMAIN Asked /\ wrote[i] \in Nat
    BY LaidTypes
  <2>2. \A i \in DOMAIN wrote : Span(i) \in Nat
    BY <2>1, WireBytes
  <2> QED  BY <2>1, <2>2
<1>2. R \in Nat /\ P < R /\ P0 < R /\ \A n \in Nat : n <= R => n <= P \/ n = R
  OBVIOUS
<1>3. Emits(o, p, R, wrote, cut)
  OBVIOUS
<1> HIDE DEF R
<1>4. \A n \in Nat : n <= P => n <= R
  BY <1>2
<1>5. CASE /\ p = o
           /\ \A i \in DOMAIN wrote : Safe(i, wrote, cut) => wrote[i] + Span(i) # R
  <2>1. ASSUME NEW n \in 1..Len(o), IsWhole(o[n])
        PROVE  /\ o[n][1].of \in DOMAIN wrote
               /\ P0 < wrote[o[n][1].of] + Span(o[n][1].of)
               /\ wrote[o[n][1].of] + Span(o[n][1].of) <= R
    BY <1>1, <1>4, <2>1 DEF OutOk
  <2>2. ASSUME NEW i \in DOMAIN wrote, Safe(i, wrote, cut), P0 < wrote[i] + Span(i),
               wrote[i] + Span(i) <= R
        PROVE  \E n \in 1..Len(o) : o[n] = Pieces(i)
    <3>1. wrote[i] + Span(i) <= P
      BY <1>1, <1>2, <1>5, <2>2
    <3> QED  BY <2>2, <3>1 DEF OutOk
  <2>3. OutOk(o, P0, R, wrote, cut)
    BY <2>1, <2>2 DEF OutOk
  <2> QED  BY <1>5, <2>3 DEF R
<1>6. ASSUME NEW x \in Seq(Units), p = Append(o, x), EndsAt(x, R, wrote),
             \A i \in DOMAIN wrote :
               Safe(i, wrote, cut) /\ wrote[i] + Span(i) = R => x = Pieces(i)
      PROVE  OutOk(p, P0, P + 1, wrote, cut)
  <2> DEFINE N == Len(o)
             M == Len(p)
  <2>1. /\ N \in Nat /\ M = N + 1 /\ p[M] = x /\ M \in 1..M
        /\ \A n \in 1..N : p[n] = o[n] /\ n \in 1..M
    BY <1>6
  <2>o. OutOk(o, P0, P, wrote, cut)
    OBVIOUS
  <2>2. /\ \A n \in 1..N :
             IsWhole(o[n]) => /\ o[n][1].of \in DOMAIN wrote
                              /\ P0 < wrote[o[n][1].of] + Span(o[n][1].of)
                              /\ wrote[o[n][1].of] + Span(o[n][1].of) <= P
        /\ \A n, m \in 1..N :
             n < m /\ IsWhole(o[n]) /\ IsWhole(o[m]) => o[n][1].of < o[m][1].of
    BY <2>o DEF OutOk
  <2>3. \A i \in DOMAIN wrote :
          Safe(i, wrote, cut) /\ P0 < wrote[i] + Span(i) /\ wrote[i] + Span(i) <= P
            => \E n \in 1..N : o[n] = Pieces(i)
    BY <2>o DEF OutOk
  <2>x. IsWhole(x) => x[1].of \in DOMAIN wrote /\ wrote[x[1].of] + Span(x[1].of) = R
    BY <1>6 DEF EndsAt
  <2> HIDE DEF N, M
  <2>4. \A n \in 1..M : n = M \/ n \in 1..N
    BY <2>1
  <2>5. ASSUME NEW n \in 1..M, IsWhole(p[n])
        PROVE  /\ p[n][1].of \in DOMAIN wrote
               /\ P0 < wrote[p[n][1].of] + Span(p[n][1].of)
               /\ wrote[p[n][1].of] + Span(p[n][1].of) <= R
    <3>1. CASE n = M
      BY <1>2, <2>1, <2>5, <2>x, <3>1
    <3>2. CASE n \in 1..N
      BY <1>1, <1>4, <2>1, <2>2, <2>5, <3>2
    <3> QED  BY <2>4, <3>1, <3>2
  <2>6. ASSUME NEW n \in 1..M, NEW m \in 1..M, n < m, IsWhole(p[n]), IsWhole(p[m])
        PROVE  p[n][1].of < p[m][1].of
    <3>1. n \in 1..N
      BY <2>1, <2>6
    <3>2. CASE m \in 1..N
      BY <2>1, <2>2, <2>6, <3>1, <3>2
    <3>3. CASE m = M
      <4> DEFINE i == o[n][1].of
                 j == x[1].of
      <4>1. /\ i \in DOMAIN wrote /\ wrote[i] + Span(i) <= P
            /\ j \in DOMAIN wrote /\ wrote[j] + Span(j) = R
        BY <2>1, <2>2, <2>6, <2>x, <3>1, <3>3
      <4>2. p[n][1].of = i /\ p[m][1].of = j
        BY <2>1, <3>1, <3>3
      <4> HIDE DEF i, j
      <4>3. wrote[i] + Span(i) < wrote[j] + Span(j)
        BY <1>1, <1>2, <4>1
      <4> QED  BY <4>1, <4>2, <4>3, EndsOrder
    <3> QED  BY <2>4, <3>2, <3>3
  <2>7. ASSUME NEW i \in DOMAIN wrote, Safe(i, wrote, cut), P0 < wrote[i] + Span(i),
               wrote[i] + Span(i) <= R
        PROVE  \E n \in 1..M : p[n] = Pieces(i)
    <3>1. CASE wrote[i] + Span(i) = R
      BY <1>6, <2>1, <2>7, <3>1
    <3>2. CASE wrote[i] + Span(i) <= P
      BY <2>1, <2>3, <2>7, <3>2
    <3> QED  BY <1>1, <1>2, <2>7, <3>1, <3>2
  <2>8. OutOk(p, P0, R, wrote, cut)
    BY <2>5, <2>6, <2>7 DEF OutOk, M
  <2> QED  BY <2>8 DEF R
<1> QED  BY <1>3, <1>5, <1>6 DEF Emits

(* The deframer in the midst of a read that began behind byte P0.          *)
Following(d, T, P0, P, wrote, cut) ==
  /\ LineOk(d) /\ Tracks(d, T, P) /\ Sync(d, P, wrote, cut)
  /\ OutOk(d.out, P0, P, wrote, cut)

LEMMA FollowStep ==
  ASSUME NEW T, NEW G, NEW wrote, NEW cut, Laid(T, G, wrote, cut),
         NEW P0 \in Nat, NEW P \in Nat, P0 <= P, P < Len(T), NEW d,
         Following(d, T, P0, P, wrote, cut)
  PROVE  Following(Deframed(d, T[P + 1]), T, P0, P + 1, wrote, cut)
<1> DEFINE e == Deframed(d, T[P + 1])
<1>1. /\ LineOk(d) /\ Tracks(d, T, P) /\ Sync(d, P, wrote, cut)
      /\ OutOk(d.out, P0, P, wrote, cut)
  BY DEF Following
<1>2. ByteTaken(d, T[P + 1], e)
  BY <1>1, DeframedTakes
<1>3. T \in Seq(Units) /\ T[P + 1] \in Units
  <2> DEFINE R == P + 1
  <2>1. R \in 1..Len(T) /\ T \in Seq(Units)
    BY LaidTypes
  <2> HIDE DEF R
  <2>2. T[R] \in Units
    BY <2>1
  <2> QED  BY <2>1, <2>2 DEF R
<1>4. LineOk(e)
  BY <1>1, <1>3, LineStep
<1> HIDE DEF e
<1>5. Tracks(e, T, P + 1)
  BY <1>1, <1>2, <1>3, TracksStep
<1>6. Sync(e, P + 1, wrote, cut)
  BY <1>1, <1>2, SyncStep
<1>7. Emits(d.out, e.out, P + 1, wrote, cut)
  BY <1>1, <1>2, EmitStep
<1>8. d.out \in Seq(Seq(Units))
  BY <1>1 DEF LineOk
<1>9. OutOk(e.out, P0, P + 1, wrote, cut)
  BY <1>1, <1>7, <1>8, OutGrows
<1> QED  BY <1>4, <1>5, <1>6, <1>9 DEF Following, e

LEMMA LineFollows ==
  ASSUME NEW T, NEW G, NEW wrote, NEW cut, Laid(T, G, wrote, cut),
         NEW P \in Nat, NEW s, Len(s) \in Nat, P + Len(s) <= Len(T),
         \A j \in 1..Len(s) : s[j] = T[P + j],
         NEW d, Following(d, T, P, P, wrote, cut)
  PROVE  Following(Over(Deframed, d, s), T, P, P + Len(s), wrote, cut)
<1> DEFINE N == Len(s)
<1>1. N \in Nat /\ P + N <= Len(T) /\ \A j \in 1..N : s[j] = T[P + j]
  OBVIOUS
<1>2. PICK h : Runs(h, "line", d, s, N) /\ Over(Deframed, d, s) = h[N]
  BY <1>1, OverLine
<1>3. Len(T) \in Nat
  BY LaidTypes
<1> DEFINE S == {k \in Nat : k <= N => Following(h[k], T, P, P + k, wrote, cut)}
<1> HIDE DEF N
<1>4. 0 \in S
  <2>1. h[0] = d /\ P + 0 = P
    BY <1>2 DEF Runs
  <2> QED  BY <2>1
<1>5. ASSUME NEW k \in Nat, k \in S PROVE k + 1 \in S
  <2>1. SUFFICES ASSUME k + 1 <= N PROVE Following(h[k + 1], T, P, P + (k + 1), wrote, cut)
    OBVIOUS
  <2>2. k + 1 \in 1..N /\ k <= N
    BY <1>1, <2>1
  <2> DEFINE R == P + k
             m == k + 1
  <2>3. /\ Following(h[k], T, P, R, wrote, cut)
        /\ R \in Nat /\ P <= R /\ R < Len(T) /\ P + m = R + 1
    BY <1>1, <1>3, <1>5, <2>2
  <2>4. h[m] = Deframed(h[k], s[m])
    <3>1. h[k + 1] = Step("line", h[k], s[k + 1])
      BY <1>1, <1>2, <2>2, NextRun
    <3> QED  BY <3>1 DEF Step
  <2>5. m \in 1..N
    BY <2>2
  <2> HIDE DEF R, m
  <2>6. s[m] = T[R + 1]
    BY <1>1, <2>3, <2>5
  <2>7. Following(Deframed(h[k], T[R + 1]), T, P, R + 1, wrote, cut)
    BY <2>3, FollowStep
  <2>8. Following(h[m], T, P, P + m, wrote, cut)
    BY <2>3, <2>4, <2>6, <2>7
  <2> QED  BY <2>8 DEF m
<1>6. Nat \subseteq S
  <2> HIDE DEF S
  <2> QED  BY <1>4, <1>5, SetInduction
<1>7. Following(h[N], T, P, P + N, wrote, cut)
  BY <1>1, <1>6
<1> QED  BY <1>2, <1>7 DEF N
-----------------------------------------------------------------------------
(* The messages handled once P bytes are read.                             *)
Heard(h, P, wrote, cut) ==
  /\ h \in Seq(Nat)
  /\ \A a, b \in DOMAIN h : a < b => h[a] < h[b]
  /\ \A a \in DOMAIN h : h[a] \in DOMAIN wrote /\ wrote[h[a]] + Span(h[a]) <= P
  /\ \A i \in DOMAIN wrote :
       Safe(i, wrote, cut) /\ wrote[i] + Span(i) <= P => \E a \in DOMAIN h : h[a] = i

(* h is g, the messages handled before, and the messages among the first n *)
(* of the payloads o.                                                      *)
Collected(g, o, n, h) ==
  /\ h \in Seq(Nat)
  /\ \A a, b \in DOMAIN h : a < b => h[a] < h[b]
  /\ \A a \in DOMAIN h :
       \/ \E b \in DOMAIN g : h[a] = g[b]
       \/ \E m \in 1..n : IsWhole(o[m]) /\ h[a] = o[m][1].of
  /\ \A b \in DOMAIN g : \E a \in DOMAIN h : h[a] = g[b]
  /\ \A m \in 1..n : IsWhole(o[m]) => \E a \in DOMAIN h : h[a] = o[m][1].of

LEMMA CollectStep ==
  ASSUME NEW T, NEW G, NEW wrote, NEW cut, Laid(T, G, wrote, cut),
         NEW P0 \in Nat, NEW P \in Nat, NEW o, Len(o) \in Nat, NEW g,
         Heard(g, P0, wrote, cut), OutOk(o, P0, P, wrote, cut),
         NEW n \in Nat, n + 1 <= Len(o), NEW h, Collected(g, o, n, h)
  PROVE  Collected(g, o, n + 1,
                   IF IsWhole(o[n + 1]) THEN Append(h, o[n + 1][1].of) ELSE h)
<1> DEFINE N == n + 1
<1>1. N \in 1..Len(o) /\ N \in Nat /\ N = n + 1 /\ N \in 1..N
      /\ \A m \in 1..N : m = N \/ m \in 1..n
  OBVIOUS
<1>s. \A m \in 1..n : m \in 1..N /\ m \in 1..Len(o) /\ m < N
  OBVIOUS
<1>2. h \in Seq(Nat) /\ \A a, b \in DOMAIN h : a < b => h[a] < h[b]
  BY DEF Collected
<1>3. /\ \A a \in DOMAIN h :
           \/ \E b \in DOMAIN g : h[a] = g[b]
           \/ \E m \in 1..n : IsWhole(o[m]) /\ h[a] = o[m][1].of
      /\ \A b \in DOMAIN g : \E a \in DOMAIN h : h[a] = g[b]
      /\ \A m \in 1..n : IsWhole(o[m]) => \E a \in DOMAIN h : h[a] = o[m][1].of
  BY DEF Collected
<1> HIDE DEF N
<1>4. CASE ~IsWhole(o[N])
  <2>1. \A m \in 1..N : IsWhole(o[m]) => m \in 1..n
    BY <1>1, <1>4
  <2>2. \A m \in 1..N : IsWhole(o[m]) => \E a \in DOMAIN h : h[a] = o[m][1].of
    BY <1>3, <2>1
  <2>3. \A a \in DOMAIN h :
          \/ \E b \in DOMAIN g : h[a] = g[b]
          \/ \E m \in 1..N : IsWhole(o[m]) /\ h[a] = o[m][1].of
    BY <1>3, <1>s
  <2>4. Collected(g, o, N, h)
    BY <1>2, <1>3, <2>2, <2>3 DEF Collected
  <2> QED  BY <1>4, <2>4 DEF N
<1>5. CASE IsWhole(o[N])
  <2> DEFINE i == o[N][1].of
             f == Append(h, i)
             M == Len(h) + 1
  <2>1. /\ i \in DOMAIN wrote /\ P0 < wrote[i] + Span(i)
    BY <1>1, <1>5 DEF OutOk
  <2>2. i \in Nat
    BY <2>1, LaidTypes
  <2>3. /\ \A m \in 1..n : IsWhole(o[m]) => o[m][1].of < i
    BY <1>1, <1>5, <1>s DEF OutOk
  <2>4. ASSUME NEW b \in DOMAIN g PROVE g[b] < i
    <3> DEFINE j == g[b]
    <3>1. j \in DOMAIN wrote /\ wrote[j] + Span(j) <= P0
      BY DEF Heard
    <3> HIDE DEF i, j
    <3>2. wrote[i] + Span(i) \in Nat /\ wrote[j] + Span(j) \in Nat
      <4>1. i \in DOMAIN Asked /\ j \in DOMAIN Asked /\ wrote[i] \in Nat /\ wrote[j] \in Nat
        BY <2>1, <3>1, LaidTypes
      <4>2. Span(i) \in Nat /\ Span(j) \in Nat
        BY <4>1, WireBytes
      <4> QED  BY <4>1, <4>2
    <3>3. wrote[j] + Span(j) < wrote[i] + Span(i)
      BY <2>1, <3>1, <3>2
    <3>4. j < i
      BY <2>1, <3>1, <3>3, EndsOrder
    <3> QED  BY <3>4 DEF j
  <2> HIDE DEF i
  <2>5. \A a \in DOMAIN h : h[a] < i
    BY <1>3, <2>3, <2>4
  <2>6. /\ f \in Seq(Nat) /\ DOMAIN f = 1..M /\ f[M] = i /\ M \in 1..M /\ M \in Nat
        /\ DOMAIN h = 1..(M - 1)
        /\ \A a \in 1..(M - 1) : f[a] = h[a] /\ a \in 1..M /\ a < M
        /\ \A a \in 1..M : a = M \/ a \in 1..(M - 1)
    BY <1>2, <2>2
  <2> HIDE DEF f, M
  <2>7. ASSUME NEW a \in DOMAIN f, NEW b \in DOMAIN f, a < b PROVE f[a] < f[b]
    <3>1. a \in 1..(M - 1)
      BY <2>6, <2>7
    <3>2. CASE b = M
      BY <2>5, <2>6, <3>1, <3>2
    <3>3. CASE b \in 1..(M - 1)
      BY <1>2, <2>6, <2>7, <3>1, <3>3
    <3> QED  BY <2>6, <3>2, <3>3
  <2>8. ASSUME NEW a \in DOMAIN f
        PROVE  \/ \E b \in DOMAIN g : f[a] = g[b]
               \/ \E m \in 1..N : IsWhole(o[m]) /\ f[a] = o[m][1].of
    <3>1. CASE a = M
      BY <1>1, <1>5, <2>6, <3>1 DEF i
    <3>2. CASE a \in 1..(M - 1)
      <4>1. f[a] = h[a] /\ a \in DOMAIN h
        BY <2>6, <3>2
      <4>2. \/ \E b \in DOMAIN g : h[a] = g[b]
            \/ \E m \in 1..n : IsWhole(o[m]) /\ h[a] = o[m][1].of
        BY <1>3, <4>1
      <4>3. (\E m \in 1..n : IsWhole(o[m]) /\ h[a] = o[m][1].of)
              => \E m \in 1..N : IsWhole(o[m]) /\ h[a] = o[m][1].of
        BY <1>s
      <4> QED  BY <4>1, <4>2, <4>3
    <3> QED  BY <2>6, <3>1, <3>2
  <2>9. \A b \in DOMAIN g : \E a \in DOMAIN f : f[a] = g[b]
    BY <1>3, <2>6
  <2>10. ASSUME NEW m \in 1..N, IsWhole(o[m]) PROVE \E a \in DOMAIN f : f[a] = o[m][1].of
    <3>1. CASE m = N
      BY <2>6, <3>1 DEF i
    <3>2. CASE m \in 1..n
      BY <1>3, <2>6, <2>10, <3>2
    <3> QED  BY <1>1, <3>1, <3>2
  <2>11. Collected(g, o, N, f)
    BY <2>6, <2>7, <2>8, <2>9, <2>10 DEF Collected
  <2> QED  BY <1>5, <2>11 DEF N, f, i
<1> QED  BY <1>4, <1>5 DEF N

LEMMA PiecesWhole ==
  ASSUME NEW i \in DOMAIN Asked
  PROVE  IsWhole(Pieces(i)) /\ Pieces(i)[1].of = i
<1>1. PICK w \in 1..MaxPayload : w = Asked[i].weight
  BY WireBytes
<1> DEFINE x == [j \in 1..w |-> [byte |-> 0, of |-> i, piece |-> j]]
<1>2. Pieces(i) = x
  BY <1>1 DEF Pieces
<1>3. 1 \in 1..w
  BY <1>1, LegacyAssumption
<1>4. x # <<>> /\ x[1] = [byte |-> 0, of |-> i, piece |-> 1]
  BY <1>3
<1> HIDE DEF x
<1>5. x[1].of = i
  BY <1>4
<1> QED  BY <1>2, <1>4, <1>5 DEF IsWhole

(* Once the payloads o are handled, h is what a reader of P bytes handled. *)
LEMMA CollectedHeard ==
  ASSUME NEW T, NEW G, NEW wrote, NEW cut, Laid(T, G, wrote, cut),
         NEW P0 \in Nat, NEW P \in Nat, P0 <= P, NEW o, Len(o) \in Nat, NEW g,
         Heard(g, P0, wrote, cut), OutOk(o, P0, P, wrote, cut),
         NEW h, Collected(g, o, Len(o), h)
  PROVE  Heard(h, P, wrote, cut)
<1>1. \A i \in DOMAIN wrote : wrote[i] + Span(i) \in Nat /\ i \in DOMAIN Asked
  <2>1. \A i \in DOMAIN wrote : i \in DOMAIN Asked /\ wrote[i] \in Nat
    BY LaidTypes
  <2>2. \A i \in DOMAIN wrote : Span(i) \in Nat
    BY <2>1, WireBytes
  <2> QED  BY <2>1, <2>2
<1>2. /\ h \in Seq(Nat)
      /\ \A a, b \in DOMAIN h : a < b => h[a] < h[b]
      /\ \A a \in DOMAIN h :
           \/ \E b \in DOMAIN g : h[a] = g[b]
           \/ \E m \in 1..Len(o) : IsWhole(o[m]) /\ h[a] = o[m][1].of
      /\ \A b \in DOMAIN g : \E a \in DOMAIN h : h[a] = g[b]
      /\ \A m \in 1..Len(o) : IsWhole(o[m]) => \E a \in DOMAIN h : h[a] = o[m][1].of
  BY DEF Collected
<1>3. ASSUME NEW a \in DOMAIN h
      PROVE  h[a] \in DOMAIN wrote /\ wrote[h[a]] + Span(h[a]) <= P
  <2>1. CASE \E b \in DOMAIN g : h[a] = g[b]
    <3>1. h[a] \in DOMAIN wrote /\ wrote[h[a]] + Span(h[a]) <= P0
      BY <2>1 DEF Heard
    <3> DEFINE n == wrote[h[a]] + Span(h[a])
    <3>2. n \in Nat /\ n <= P0
      BY <1>1, <3>1
    <3> HIDE DEF n
    <3>3. n <= P
      BY <3>2
    <3> QED  BY <3>1, <3>3 DEF n
  <2>2. CASE \E m \in 1..Len(o) : IsWhole(o[m]) /\ h[a] = o[m][1].of
    BY <2>2 DEF OutOk
  <2> QED  BY <1>2, <2>1, <2>2
<1>4. ASSUME NEW i \in DOMAIN wrote, Safe(i, wrote, cut), wrote[i] + Span(i) <= P
      PROVE  \E a \in DOMAIN h : h[a] = i
  <2>1. CASE wrote[i] + Span(i) <= P0
    <3>1. \E b \in DOMAIN g : g[b] = i
      BY <1>4, <2>1 DEF Heard
    <3> QED  BY <1>2, <3>1
  <2>2. CASE P0 < wrote[i] + Span(i)
    <3>1. PICK m \in 1..Len(o) : o[m] = Pieces(i)
      BY <1>4, <2>2 DEF OutOk
    <3>2. IsWhole(o[m]) /\ o[m][1].of = i
      BY <1>1, <3>1, PiecesWhole
    <3> QED  BY <1>2, <3>2
  <2> QED  BY <1>1, <2>1, <2>2
<1> QED  BY <1>2, <1>3, <1>4 DEF Heard

(* The session over what it gets for the payloads of one read.             *)
LEMMA SessionHears ==
  ASSUME NEW T, NEW G, NEW wrote, NEW cut, Laid(T, G, wrote, cut),
         NEW P0 \in Nat, NEW P \in Nat, P0 <= P, NEW o, Len(o) \in Nat,
         OutOk(o, P0, P, wrote, cut), NEW s, SessionOk(s),
         Heard(s.handled, P0, wrote, cut), NEW w, GotsFor(w, o)
  PROVE  Heard(Over(handleToRadio, s, w).handled, P, wrote, cut)
<1> DEFINE N == Len(o)
           g == s.handled
<1>1. /\ N \in Nat /\ Len(w) = N
      /\ \A k \in 1..N :
           /\ GotOk(w[k])
           /\ w[k].of = IF IsWhole(o[k]) THEN o[k][1].of ELSE 0
           /\ w[k].of = 0 <=> ~IsWhole(o[k])
  BY DEF GotsFor
<1>2. PICK h : Runs(h, "session", s, w, N) /\ Over(handleToRadio, s, w) = h[N]
  BY <1>1, OverSession
<1> DEFINE S == {k \in Nat : k <= N => SessionOk(h[k]) /\ Collected(g, o, k, h[k].handled)}
<1>3. 0 \in S
  <2>1. h[0] = s
    BY <1>2 DEF Runs
  <2>2. g \in Seq(Nat) /\ \A a, b \in DOMAIN g : a < b => g[a] < g[b]
    BY DEF Heard
  <2>3. Collected(g, o, 0, g)
    <3> HIDE DEF g
    <3>1. \A m \in 1..0 : FALSE
      OBVIOUS
    <3>2. \A m \in 1..0 : IsWhole(o[m]) => \E a \in DOMAIN g : g[a] = o[m][1].of
      BY <3>1
    <3>3. /\ \A a \in DOMAIN g :
               \/ \E b \in DOMAIN g : g[a] = g[b]
               \/ \E m \in 1..0 : IsWhole(o[m]) /\ g[a] = o[m][1].of
          /\ \A b \in DOMAIN g : \E a \in DOMAIN g : g[a] = g[b]
      BY Zenon
    <3> QED  BY Zenon, <2>2, <3>2, <3>3 DEF Collected
  <2> QED  BY <2>1, <2>3
<1> HIDE DEF N
<1>4. ASSUME NEW k \in Nat, k \in S PROVE k + 1 \in S
  <2> DEFINE m == k + 1
             x == o[m]
             got == w[m]
  <2>1. SUFFICES ASSUME m <= N
                 PROVE  SessionOk(h[m]) /\ Collected(g, o, m, h[m].handled)
    OBVIOUS
  <2>2. k + 1 \in 1..N /\ k <= N
    BY <1>1, <2>1
  <2>3. SessionOk(h[k]) /\ Collected(g, o, k, h[k].handled)
    BY <1>4, <2>2
  <2>4. h[m] = handleToRadio(h[k], got)
    <3>1. h[k + 1] = Step("session", h[k], w[k + 1])
      BY <1>1, <1>2, <2>2, NextRun
    <3> QED  BY <3>1 DEF Step
  <2> HIDE DEF g
  <2>5. Collected(g, o, m,
                  IF IsWhole(x) THEN Append(h[k].handled, x[1].of) ELSE h[k].handled)
    BY <2>1, <2>3, CollectStep DEF N, g
  <2>g. /\ GotOk(got) /\ got.of = (IF IsWhole(x) THEN x[1].of ELSE 0)
        /\ got.of = 0 <=> ~IsWhole(x)
    BY <1>1, <2>2
  <2> HIDE DEF x, got, m
  <2>6. Took(h[k], got, h[m])
    BY <2>3, <2>4, <2>g, SessionStep
  <2>7. SessionOk(h[m])
    BY <2>6 DEF Took
  <2>8. h[m].handled = IF IsWhole(x) THEN Append(h[k].handled, x[1].of) ELSE h[k].handled
    BY <2>6, <2>g DEF Took
  <2> QED  BY <2>5, <2>7, <2>8
<1>5. Nat \subseteq S
  <2> HIDE DEF S
  <2> QED  BY <1>3, <1>4, SetInduction
<1>6. Collected(g, o, N, h[N].handled)
  BY <1>1, <1>5
<1> HIDE DEF g
<1>7. Heard(h[N].handled, P, wrote, cut)
  BY <1>6, CollectedHeard DEF N, g
<1> QED  BY <1>2, <1>7
-----------------------------------------------------------------------------
(* Bytes b of message m are put on the line behind T.                      *)
PutSegment(T, b, m) == [first |-> Len(T) + 1, last |-> Len(T) + Len(b), msg |-> m]

(* What that may change of the history.                                    *)
Extends(T, b, m, wrote, cut, wrote2, cut2) ==
  /\ wrote2 \in Seq(Nat) /\ Len(wrote2) <= Len(Asked)
  /\ cut \subseteq cut2 /\ cut2 \subseteq Nat
  /\ \A i \in DOMAIN wrote : i \in DOMAIN wrote2 /\ wrote2[i] = wrote[i]
  /\ \A i \in DOMAIN wrote2 :
       \/ i \in DOMAIN wrote
       \/ /\ i = m /\ wrote2[i] = Len(T) /\ Span(i) = Len(b)
          /\ \A j \in DOMAIN wrote : j < i

LEMMA PutLaid ==
  ASSUME NEW T, NEW G, NEW wrote, NEW cut, Laid(T, G, wrote, cut),
         NEW b \in Seq(Units), Len(b) >= 1, NEW m, NEW wrote2, NEW cut2,
         Extends(T, b, m, wrote, cut, wrote2, cut2),
         SegmentOk(T \o b, PutSegment(T, b, m), wrote2, cut2)
  PROVE  Laid(T \o b, G \cup {PutSegment(T, b, m)}, wrote2, cut2)
<1> DEFINE U == T \o b
           s == PutSegment(T, b, m)
           H == G \cup {s}
           L == Len(T)
           K == Len(b)
<1>1. T \in Seq(Units) /\ L \in Nat /\ K \in Nat /\ K >= 1
  BY LaidTypes
<1>2. /\ U \in Seq(Units) /\ Len(U) = L + K
      /\ \A q \in 1..L : U[q] = T[q]
  BY <1>1, JoinedUnits
<1>3. s.first = L + 1 /\ s.last = L + K /\ s.msg = m
  BY DEF PutSegment
<1>4. SegmentOk(U, s, wrote2, cut2)
  OBVIOUS
<1> HIDE DEF U, s, L, K
<1>5. /\ wrote2 \in Seq(Nat) /\ Len(wrote2) <= Len(Asked)
      /\ cut \subseteq cut2 /\ cut2 \subseteq Nat
      /\ \A i \in DOMAIN wrote : i \in DOMAIN wrote2 /\ wrote2[i] = wrote[i]
      /\ \A i \in DOMAIN wrote2 :
           \/ i \in DOMAIN wrote
           \/ /\ i = m /\ wrote2[i] = L /\ Span(i) = K
              /\ \A j \in DOMAIN wrote : j < i
  BY DEF Extends, L, K
<1>6. ASSUME NEW t \in G
      PROVE  /\ SegmentOk(U, t, wrote2, cut2)
             /\ t.first \in Nat /\ t.last \in Nat /\ t.first <= t.last /\ t.last <= L
  <2>1. SegmentOk(T, t, wrote, cut)
    BY DEF Laid
  <2>2. /\ t.first \in Nat /\ t.last \in Nat
        /\ 1 <= t.first /\ t.first <= t.last /\ t.last <= L
    BY <2>1 DEF SegmentOk, L
  <2>3. t.last <= Len(U)
    BY <1>1, <1>2, <2>2
  <2>4. CASE t.msg = 0 /\ t.last = t.first /\ T[t.first] \in {Byte(START1), Byte(0)}
    <3>1. t.first \in 1..L
      BY <1>1, <2>2
    <3>2. U[t.first] = T[t.first]
      BY <1>2, <3>1
    <3> QED  BY <2>2, <2>3, <2>4, <3>2 DEF SegmentOk
  <2>5. CASE /\ t.msg \in DOMAIN Asked
             /\ t.last < t.first + Span(t.msg)
             /\ \A q \in t.first..t.last : T[q] = Wire(t.msg)[q - t.first + 1]
             /\ \/ /\ t.msg \in DOMAIN wrote /\ wrote[t.msg] = t.first - 1
                   /\ t.last = t.first + Span(t.msg) - 1
                \/ t.last \in cut /\ t.last < t.first + Span(t.msg) - 1
    <3>1. \A q \in t.first..t.last : q \in 1..L
      BY <1>1, <2>2
    <3>2. \A q \in t.first..t.last : U[q] = Wire(t.msg)[q - t.first + 1]
      BY <1>2, <2>5, <3>1
    <3>3. \/ /\ t.msg \in DOMAIN wrote2 /\ wrote2[t.msg] = t.first - 1
             /\ t.last = t.first + Span(t.msg) - 1
          \/ t.last \in cut2 /\ t.last < t.first + Span(t.msg) - 1
      BY <1>5, <2>5
    <3> QED  BY <2>2, <2>3, <2>5, <3>2, <3>3 DEF SegmentOk
  <2> QED  BY <2>1, <2>2, <2>4, <2>5 DEF SegmentOk
<1>7. \A t \in H : SegmentOk(U, t, wrote2, cut2)
  BY <1>4, <1>6
<1>8. ASSUME NEW q \in 1..Len(U) PROVE \E t \in H : t.first <= q /\ q <= t.last
  <2>1. CASE q \in 1..L
    BY <2>1 DEF Laid, L
  <2>2. CASE q \in (L + 1)..(L + K)
    BY <1>1, <1>3, <2>2
  <2> QED  BY <1>1, <1>2, <2>1, <2>2
<1>9. ASSUME NEW t \in H, NEW r \in H, t.first <= r.last, r.first <= t.last PROVE t = r
  <2>1. CASE t \in G /\ r \in G
    BY <1>9, <2>1 DEF Laid
  <2>2. CASE t \in G /\ r = s
    BY <1>1, <1>3, <1>6, <1>9, <2>2
  <2>3. CASE t = s /\ r \in G
    BY <1>1, <1>3, <1>6, <1>9, <2>3
  <2> QED  BY <2>1, <2>2, <2>3
<1>10. ASSUME NEW i \in DOMAIN wrote2
       PROVE  \E t \in H : /\ t.msg = i /\ t.first = wrote2[i] + 1
                           /\ t.last = wrote2[i] + Span(i)
  <2>1. CASE i \in DOMAIN wrote
    <3>1. wrote2[i] = wrote[i]
      BY <1>5, <2>1
    <3>2. \E t \in G : /\ t.msg = i /\ t.first = wrote[i] + 1
                       /\ t.last = wrote[i] + Span(i)
      BY <2>1 DEF Laid
    <3> QED  BY <3>1, <3>2
  <2>2. CASE i = m /\ wrote2[i] = L /\ Span(i) = K
    <3>1. s.msg = i /\ s.first = wrote2[i] + 1 /\ s.last = wrote2[i] + Span(i)
      BY <1>3, <2>2
    <3> QED  BY <3>1
  <2> QED  BY <1>5, <2>1, <2>2
<1>11. ASSUME NEW i \in DOMAIN wrote2, NEW j \in DOMAIN wrote2, i < j
       PROVE  wrote2[i] + Span(i) <= wrote2[j]
  <2>1. CASE i \in DOMAIN wrote /\ j \in DOMAIN wrote
    <3>1. wrote[i] + Span(i) <= wrote[j]
      BY <1>11, <2>1 DEF Laid
    <3> QED  BY <1>5, <2>1, <3>1
  <2>2. CASE i \in DOMAIN wrote /\ wrote2[j] = L
    <3>1. wrote[i] + Span(i) <= L
      BY <2>2, MessageThere DEF L
    <3> QED  BY <1>5, <2>2, <3>1
  <2>3. CASE i = m /\ \A k \in DOMAIN wrote : k < i
    <3>1. i \in Nat /\ j \in Nat
      BY <1>5
    <3>2. j \notin DOMAIN wrote
      <4>1. j \in DOMAIN wrote => j < i
        BY <2>3
      <4> QED  BY <1>11, <3>1, <4>1
    <3>3. j = i
      BY <1>5, <2>3, <3>2
    <3> QED  BY <1>11, <3>1, <3>3
  <2> QED  BY <1>5, <2>1, <2>2, <2>3
<1>12. Laid(U, H, wrote2, cut2)
  <2> HIDE DEF H
  <2> QED  BY <1>2, <1>5, <1>7, <1>8, <1>9, <1>10, <1>11 DEF Laid
<1> QED  BY <1>12 DEF U, s

LEMMA TracksOn ==
  ASSUME NEW T, NEW U, Len(T) \in Nat, \A q \in 1..Len(T) : U[q] = T[q],
         NEW P \in Nat, P <= Len(T), NEW d, LineOk(d), Tracks(d, T, P)
  PROVE  Tracks(d, U, P)
<1>1. \A q \in Nat : 1 <= q /\ q <= P => U[q] = T[q]
  <2>1. \A q \in Nat : 1 <= q /\ q <= P => q \in 1..Len(T)
    OBVIOUS
  <2> QED  BY <2>1
<1>2. ASSUME NEW h, Begins(T, h), h + 1 <= P PROVE Begins(U, h)
  <2>1. h \in Nat /\ 1 <= h /\ h <= P
    BY <1>2 DEF Begins
  <2>2. U[h] = T[h]
    BY <1>1, <2>1
  <2> DEFINE q == h + 1
  <2>3. q \in Nat /\ 1 <= q /\ q <= P
    BY <1>2, <2>1
  <2> HIDE DEF q
  <2>4. U[q] = T[q]
    BY <1>1, <2>3
  <2> QED  BY <1>2, <2>2, <2>4 DEF Begins, q
<1>3. CASE d.state \in {"kScanStart1", "kExpectStart2"}
  BY <1>1, <1>3 DEF Tracks
<1>4. CASE d.state = "kLenHi"
  <2>1. PICK h : Begins(T, h) /\ P = h + 1
    BY <1>4 DEF Tracks
  <2>2. h + 1 <= P
    BY <2>1 DEF Begins
  <2> QED  BY <1>2, <1>4, <2>1, <2>2 DEF Tracks
<1>5. CASE d.state = "kLenLo"
  <2>1. PICK h : Begins(T, h) /\ P = h + 2 /\ d.len = T[h + 2].byte * Base
    BY <1>5 DEF Tracks
  <2>2. h + 1 <= P /\ P >= 1
    BY <2>1 DEF Begins
  <2>3. Begins(U, h)
    BY <1>2, <2>1, <2>2
  <2>4. U[P] = T[P]
    BY <1>1, <2>2
  <2>5. d.len = U[h + 2].byte * Base
    BY <2>1, <2>4
  <2> QED  BY <1>5, <2>1, <2>3, <2>5 DEF Tracks
<1>6. CASE d.state = "kPayload"
  <2>1. PICK h : InBuffer(d, T, h) /\ P = h + 3 + Len(d.buf)
    BY <1>6 DEF Tracks
  <2> DEFINE n == Len(d.buf)
             a == h + 2
             z == h + 3
  <2>2. /\ Begins(T, h) /\ h \in Nat /\ d.len = T[a].byte * Base + T[z].byte
        /\ d.len \in 1..MaxPayload /\ n < d.len
        /\ \A j \in 1..n : d.buf[j] = T[h + 3 + j]
    BY <2>1 DEF InBuffer, Begins
  <2>3. n \in Nat /\ P = h + 3 + n
    BY <2>1 DEF LineOk
  <2>h. h \in Nat
    BY <2>2
  <2> HIDE DEF n
  <2>4. h + 1 <= P /\ a \in Nat /\ 1 <= a /\ a <= P /\ z \in Nat /\ 1 <= z /\ z <= P
    BY <2>3, <2>h
  <2>5. Begins(U, h)
    BY <1>2, <2>2, <2>4
  <2> HIDE DEF a, z
  <2>6. U[a] = T[a] /\ U[z] = T[z]
    BY <1>1, <2>4
  <2>7. ASSUME NEW j \in 1..n PROVE d.buf[j] = U[h + 3 + j]
    <3> DEFINE q == h + 3 + j
    <3>1. q \in Nat /\ 1 <= q /\ q <= P
      BY <2>2, <2>3
    <3>2. d.buf[j] = T[q]
      BY <2>2
    <3> HIDE DEF q
    <3>3. U[q] = T[q]
      BY <1>1, <3>1
    <3> QED  BY <3>2, <3>3 DEF q
  <2>8. d.len = U[a].byte * Base + U[z].byte
    BY <2>2, <2>6
  <2>9. InBuffer(d, U, h)
    BY <2>2, <2>5, <2>7, <2>8 DEF InBuffer, n, a, z
  <2> QED  BY <1>6, <2>1, <2>9 DEF Tracks
<1> QED  BY <1>3, <1>4, <1>5, <1>6 DEF LineOk
-----------------------------------------------------------------------------
(* The line as the bytes of T in the segments G, of which P are read: what *)
(* is still on the PTY, what the deframer makes of the others, and what    *)
(* was handled of them.                                                    *)
Follows(T, G, P, up, place, wrote, cut, d, h) ==
  /\ Laid(T, G, wrote, cut)
  /\ P \in Nat /\ P <= Len(T) /\ place = Len(T)
  /\ Len(up) = Len(T) - P /\ \A j \in 1..Len(up) : up[j] = T[P + j]
  /\ Tracks(d, T, P) /\ Sync(d, P, wrote, cut)
  /\ Heard(h, P, wrote, cut)

ResyncInv ==
  \E T, G, P : Follows(T, G, P, lgUp, lgPlace, lgWrote, lgCut, lgDeframer, lgHandled)

(* Whatever the host puts on the line, nothing is lost of what was there.  *)
LEMMA FollowsPut ==
  ASSUME NEW T, NEW G, NEW P, NEW up \in Seq(Units), NEW place, NEW wrote, NEW cut,
         NEW d, LineOk(d), NEW h,
         Follows(T, G, P, up, place, wrote, cut, d, h),
         NEW b \in Seq(Units), Len(b) >= 1, NEW m, NEW wrote2, NEW cut2,
         Extends(T, b, m, wrote, cut, wrote2, cut2),
         SegmentOk(T \o b, PutSegment(T, b, m), wrote2, cut2)
  PROVE  Follows(T \o b, G \cup {PutSegment(T, b, m)}, P, up \o b, place + Len(b),
                 wrote2, cut2, d, h)
<1> DEFINE U == T \o b
           H == G \cup {PutSegment(T, b, m)}
           v == up \o b
           L == Len(T)
           K == Len(b)
           N == Len(up)
<1>1. /\ Laid(T, G, wrote, cut)
      /\ P \in Nat /\ P <= L /\ place = L
      /\ N = L - P /\ \A j \in 1..N : up[j] = T[P + j]
      /\ Tracks(d, T, P) /\ Sync(d, P, wrote, cut)
      /\ Heard(h, P, wrote, cut)
  BY DEF Follows
<1>2. Laid(U, H, wrote2, cut2)
  BY <1>1, PutLaid
<1>3. T \in Seq(Units) /\ L \in Nat /\ N \in Nat /\ K \in Nat /\ K >= 1
  BY <1>1, LaidTypes
<1>4. /\ Len(U) = L + K /\ Len(v) = N + K
      /\ \A q \in 1..L : U[q] = T[q]
      /\ \A q \in 1..K : U[L + q] = b[q]
      /\ \A q \in 1..N : v[q] = up[q]
      /\ \A q \in 1..K : v[N + q] = b[q]
  BY <1>3, JoinedUnits
<1>e. /\ \A i \in DOMAIN wrote : i \in DOMAIN wrote2 /\ wrote2[i] = wrote[i]
      /\ \A i \in DOMAIN wrote2 : i \in DOMAIN wrote \/ wrote2[i] = L
      /\ cut \subseteq cut2
  BY DEF Extends
<1> HIDE DEF U, H, v, K, N
<1>5. ASSUME NEW j \in 1..(N + K) PROVE v[j] = U[P + j]
  <2>1. CASE j \in 1..N
    <3> DEFINE q == P + j
    <3>1. q \in 1..L
      BY <1>1, <1>3, <2>1
    <3>2. v[j] = T[q]
      BY <1>1, <1>4, <2>1
    <3> HIDE DEF q
    <3>3. U[q] = T[q]
      BY <1>4, <3>1
    <3> QED  BY <3>2, <3>3 DEF q
  <2>2. CASE j \in (N + 1)..(N + K)
    <3> DEFINE q == j - N
    <3>1. q \in 1..K /\ j = N + q /\ P + j = L + q
      BY <1>1, <1>3, <2>2
    <3> HIDE DEF q, L
    <3>2. v[N + q] = b[q] /\ U[L + q] = b[q]
      BY <1>4, <3>1
    <3> QED  BY <3>1, <3>2
  <2> QED  BY <1>3, <2>1, <2>2
<1>6. Tracks(d, U, P)
  BY <1>1, <1>3, <1>4, TracksOn
<1>7. ASSUME NEW i \in DOMAIN wrote2, Safe(i, wrote2, cut2), i \in DOMAIN wrote
      PROVE  Safe(i, wrote, cut) /\ wrote2[i] = wrote[i]
  BY <1>7, <1>e DEF Safe
<1>8. ASSUME NEW i \in DOMAIN wrote2, Safe(i, wrote2, cut2)
      PROVE  InStep(d, P, i, wrote2[i])
  <2>1. CASE i \in DOMAIN wrote
    <3>1. Safe(i, wrote, cut) /\ wrote2[i] = wrote[i]
      BY <1>7, <1>8, <2>1
    <3>2. InStep(d, P, i, wrote[i])
      BY <1>1, <2>1, <3>1 DEF Sync
    <3> QED  BY <3>1, <3>2
  <2>2. CASE wrote2[i] = L
    <3>1. ~(wrote2[i] < P)
      BY <1>1, <1>3, <2>2
    <3> QED  BY <3>1 DEF InStep
  <2> QED  BY <1>e, <2>1, <2>2
<1>9. Sync(d, P, wrote2, cut2)
  BY <1>8 DEF Sync
<1>10. /\ h \in Seq(Nat)
       /\ \A a, c \in DOMAIN h : a < c => h[a] < h[c]
       /\ \A a \in DOMAIN h : h[a] \in DOMAIN wrote /\ wrote[h[a]] + Span(h[a]) <= P
       /\ \A i \in DOMAIN wrote :
            Safe(i, wrote, cut) /\ wrote[i] + Span(i) <= P => \E a \in DOMAIN h : h[a] = i
  BY <1>1 DEF Heard
<1>11. \A a \in DOMAIN h : h[a] \in DOMAIN wrote2 /\ wrote2[h[a]] + Span(h[a]) <= P
  BY <1>10, <1>e
<1>12. ASSUME NEW i \in DOMAIN wrote2, Safe(i, wrote2, cut2), wrote2[i] + Span(i) <= P
       PROVE  \E a \in DOMAIN h : h[a] = i
  <2>1. CASE i \in DOMAIN wrote
    BY <1>7, <1>10, <1>12, <2>1
  <2>2. CASE wrote2[i] = L
    <3>1. Asked[i].weight \in 1..MaxPayload /\ Span(i) \in Nat /\ MaxPayload \in Nat
      BY <1>2, LaidTypes, WireBytes, LegacyAssumption
    <3>2. Span(i) = 4 + Asked[i].weight /\ Asked[i].weight \in Nat
      BY <3>1 DEF Span
    <3> QED  BY <1>1, <1>3, <1>12, <2>2, <3>2
  <2> QED  BY <1>e, <2>1, <2>2
<1>13. Heard(h, P, wrote2, cut2)
  BY <1>10, <1>11, <1>12 DEF Heard
<1>14. P <= Len(U) /\ place + K = Len(U) /\ Len(v) = Len(U) - P
  BY <1>1, <1>3, <1>4
<1>15. Follows(U, H, P, v, place + K, wrote2, cut2, d, h)
  BY <1>1, <1>2, <1>4, <1>5, <1>6, <1>9, <1>13, <1>14 DEF Follows
<1> QED  BY <1>15 DEF U, H, v, K

(* The three things the host puts there.                                   *)
LEMMA WritesWhole ==
  ASSUME NEW T, NEW G, NEW wrote, NEW cut, Laid(T, G, wrote, cut),
         NEW m, m = Len(wrote) + 1, m \in DOMAIN Asked
  PROVE  /\ Extends(T, Wire(m), m, wrote, cut, Append(wrote, Len(T)), cut)
         /\ SegmentOk(T \o Wire(m), PutSegment(T, Wire(m), m), Append(wrote, Len(T)), cut)
<1> DEFINE b == Wire(m)
           L == Len(T)
           w == Append(wrote, L)
           s == PutSegment(T, b, m)
           U == T \o b
           K == Span(m)
<1>1. T \in Seq(Units) /\ L \in Nat /\ wrote \in Seq(Nat) /\ cut \subseteq Nat
  BY LaidTypes DEF Laid
<1>2. b \in Seq(Units) /\ Len(b) = K /\ K \in Nat /\ K >= 4
  <2>1. Asked[m].weight \in 1..MaxPayload /\ MaxPayload \in Nat
    BY WireBytes, LegacyAssumption
  <2>2. K \in Nat /\ K >= 4
    BY <2>1 DEF Span
  <2> QED  BY <2>2, WireBytes
<1>3. m <= Len(Asked)
  <2>1. DOMAIN Asked = 1..Len(Asked) /\ Len(Asked) \in Nat
    BY Zenon, AskedAssumption
  <2> QED  BY <2>1
<1>4. /\ w \in Seq(Nat) /\ Len(w) = m /\ DOMAIN w = 1..m /\ w[m] = L /\ m \in Nat
      /\ DOMAIN wrote = 1..(m - 1) /\ m \in 1..m
      /\ \A i \in 1..(m - 1) : i \in 1..m /\ w[i] = wrote[i] /\ i < m
      /\ \A i \in 1..m : i \in 1..(m - 1) \/ i = m
  BY <1>1
<1> HIDE DEF w
<1>5. Extends(T, b, m, wrote, cut, w, cut)
  BY <1>1, <1>2, <1>3, <1>4 DEF Extends
<1>6. /\ Len(U) = L + K
      /\ \A q \in 1..K : U[L + q] = b[q]
  BY <1>1, <1>2, JoinedUnits
<1>7. s.first = L + 1 /\ s.last = L + K /\ s.msg = m
  BY <1>2 DEF PutSegment
<1> HIDE DEF L, K, s, U, b
<1>8. ASSUME NEW q \in s.first..s.last PROVE U[q] = b[q - s.first + 1]
  <2> DEFINE n == q - L
  <2>1. n \in 1..K /\ q = L + n /\ q - s.first + 1 = n
    BY <1>1, <1>2, <1>7 DEF L
  <2> HIDE DEF n
  <2> QED  BY <1>6, <2>1
<1>9. SegmentOk(U, s, w, cut)
  <2>1. /\ s.first \in Nat /\ s.last \in Nat
        /\ 1 <= s.first /\ s.first <= s.last /\ s.last <= Len(U)
        /\ s.last < s.first + K /\ s.last = s.first + K - 1
    BY <1>1, <1>2, <1>6, <1>7 DEF L
  <2>2. /\ s.msg \in DOMAIN Asked /\ s.msg \in DOMAIN w /\ w[s.msg] = s.first - 1
    BY <1>1, <1>4, <1>7 DEF L
  <2>3. K = Span(s.msg) /\ b = Wire(s.msg)
    BY <1>7 DEF K, b
  <2> QED  BY <1>8, <2>1, <2>2, <2>3 DEF SegmentOk
<1> QED  BY <1>5, <1>9 DEF b, w, L, s, U

(* The first k bytes of message number m.                                  *)
CutShort(b, m, k) ==
  m \in DOMAIN Asked /\ k \in 1..(Span(m) - 1) /\ b = SubSeq(Wire(m), 1, k)

LEMMA WritesCut ==
  ASSUME NEW T, NEW G, NEW wrote, NEW cut, Laid(T, G, wrote, cut),
         NEW m, NEW k, NEW b, CutShort(b, m, k)
  PROVE  /\ b \in Seq(Units) /\ Len(b) = k /\ k >= 1
         /\ Extends(T, b, m, wrote, cut, wrote, cut \cup {Len(T) + k})
         /\ SegmentOk(T \o b, PutSegment(T, b, m), wrote, cut \cup {Len(T) + k})
<1>m. m \in DOMAIN Asked /\ k \in 1..(Span(m) - 1) /\ b = SubSeq(Wire(m), 1, k)
  BY DEF CutShort
<1> DEFINE L == Len(T)
           s == PutSegment(T, b, m)
           U == T \o b
           K == Span(m)
           c == cut \cup {L + k}
<1>1. /\ T \in Seq(Units) /\ L \in Nat /\ wrote \in Seq(Nat) /\ cut \subseteq Nat
      /\ Len(wrote) <= Len(Asked)
  BY LaidTypes DEF Laid
<1>2. Wire(m) \in Seq(Units) /\ Len(Wire(m)) = K /\ K \in Nat
  BY <1>m, WireBytes
<1>3. k \in Nat /\ k >= 1 /\ k < K
  BY <1>2, <1>m
<1> HIDE DEF K
<1>4. b \in Seq(Units) /\ Len(b) = k /\ \A q \in 1..k : b[q] = Wire(m)[q]
  BY <1>2, <1>3, <1>m
<1>5. Extends(T, b, m, wrote, cut, wrote, c)
  <2>1. L + k \in Nat
    BY <1>1, <1>3
  <2> HIDE DEF L
  <2>2. cut \subseteq c /\ c \subseteq Nat
    BY <1>1, <2>1
  <2> HIDE DEF c
  <2> QED  BY <1>1, <2>2 DEF Extends
<1>6. Len(U) = L + k /\ \A q \in 1..k : U[L + q] = b[q]
  BY <1>1, <1>4, JoinedUnits
<1>7. s.first = L + 1 /\ s.last = L + k /\ s.msg = m /\ L + k \in c
  BY <1>4 DEF PutSegment
<1> HIDE DEF L, s, U, c
<1>8. ASSUME NEW q \in s.first..s.last PROVE U[q] = Wire(m)[q - s.first + 1]
  <2> DEFINE n == q - L
  <2>t. L \in Nat /\ k \in Nat
    BY <1>1, <1>3
  <2>q. q \in (L + 1)..(L + k) /\ s.first = L + 1
    BY <1>7
  <2>1. n \in 1..k /\ q = L + n /\ q - s.first + 1 = n
    BY <2>t, <2>q
  <2> HIDE DEF n
  <2> QED  BY <1>4, <1>6, <2>1
<1>9. SegmentOk(U, s, wrote, c)
  <2>1. /\ s.first \in Nat /\ s.last \in Nat
        /\ 1 <= s.first /\ s.first <= s.last /\ s.last <= Len(U)
        /\ s.last < s.first + K /\ s.last < s.first + K - 1
    BY <1>1, <1>2, <1>3, <1>6, <1>7
  <2>2. s.msg \in DOMAIN Asked /\ s.last \in c /\ K = Span(s.msg) /\ s.msg = m
    BY <1>7, <1>m DEF K
  <2> QED  BY <1>8, <2>1, <2>2 DEF SegmentOk
<1> QED  BY <1>3, <1>4, <1>5, <1>9 DEF L, s, U, c

LEMMA WritesNoise ==
  ASSUME NEW T, NEW G, NEW wrote, NEW cut, Laid(T, G, wrote, cut),
         NEW v \in {START1, 0}, NEW b, b = <<Byte(v)>>
  PROVE  /\ b \in Seq(Units) /\ Len(b) = 1
         /\ Extends(T, b, 0, wrote, cut, wrote, cut)
         /\ SegmentOk(T \o b, PutSegment(T, b, 0), wrote, cut)
<1> DEFINE L == Len(T)
           s == PutSegment(T, b, 0)
           U == T \o b
<1>1. /\ T \in Seq(Units) /\ L \in Nat /\ wrote \in Seq(Nat) /\ cut \subseteq Nat
      /\ Len(wrote) <= Len(Asked)
  BY LaidTypes DEF Laid
<1>2. Byte(v) \in Units
  BY LegacyAssumption DEF Byte, Units
<1>3. b \in Seq(Units) /\ Len(b) = 1 /\ b[1] = Byte(v)
  BY <1>2
<1>4. Extends(T, b, 0, wrote, cut, wrote, cut)
  BY <1>1 DEF Extends
<1>5. Len(U) = L + 1 /\ U[L + 1] = b[1]
  <2>1. 1 \in 1..Len(b)
    BY <1>3
  <2> QED  BY <1>1, <1>3, <2>1, JoinedUnits
<1>6. s.first = L + 1 /\ s.last = L + 1 /\ s.msg = 0
  BY <1>3 DEF PutSegment
<1> HIDE DEF L, s, U
<1>7. U[s.first] \in {Byte(START1), Byte(0)}
  BY <1>3, <1>5, <1>6
<1>8. SegmentOk(U, s, wrote, cut)
  BY <1>1, <1>5, <1>6, <1>7 DEF SegmentOk
<1> QED  BY <1>3, <1>4, <1>8 DEF s, U
-----------------------------------------------------------------------------
LEMMA ResyncStarts == LegacyInit => ResyncInv
<1> SUFFICES ASSUME LegacyInit PROVE ResyncInv
  OBVIOUS
<1>1. /\ lgUp = <<>> /\ lgPlace = 0 /\ lgWrote = <<>> /\ lgCut = {}
      /\ lgDeframer = Scanning /\ lgHandled = <<>>
  BY DEF LegacyInit
<1>2. Len(Asked) \in Nat
  BY Zenon, AskedAssumption
<1>3. Laid(<<>>, {}, <<>>, {})
  BY <1>2 DEF Laid
<1>4. Scanning.state = "kScanStart1"
  BY DEF Scanning
<1>5. Tracks(Scanning, <<>>, 0)
  BY <1>4 DEF Tracks
<1>6. Sync(Scanning, 0, <<>>, {}) /\ Heard(<<>>, 0, <<>>, {})
  BY DEF Sync, Heard
<1>7. Follows(<<>>, {}, 0, <<>>, 0, <<>>, {}, Scanning, <<>>)
  BY <1>3, <1>5, <1>6 DEF Follows
<1>8. Follows(<<>>, {}, 0, lgUp, lgPlace, lgWrote, lgCut, lgDeframer, lgHandled)
  BY <1>1, <1>7
<1> QED  BY <1>8 DEF ResyncInv

(* The first n bytes are read.                                             *)
LEMMA FollowsRead ==
  ASSUME NEW T, NEW G, NEW P, NEW up \in Seq(Units), NEW place, NEW wrote, NEW cut,
         NEW d, LineOk(d), d.out = <<>>, NEW s, SessionOk(s),
         Follows(T, G, P, up, place, wrote, cut, d, s.handled),
         NEW n \in 1..Len(up), NEW taken, taken = SubSeq(up, 1, n),
         NEW fed, fed = Over(Deframed, d, taken), NEW w, GotsFor(w, fed.out),
         NEW rest, rest = [fed EXCEPT !.out = <<>>]
  PROVE  Follows(T, G, P + n, SubSeq(up, n + 1, Len(up)), place, wrote, cut, rest,
                 Over(handleToRadio, s, w).handled)
<1> DEFINE L == Len(T)
           N == Len(up)
           left == SubSeq(up, n + 1, N)
           R == P + n
           g == s.handled
           h == Over(handleToRadio, s, w).handled
<1>1. /\ Laid(T, G, wrote, cut)
      /\ P \in Nat /\ P <= L /\ place = L
      /\ N = L - P /\ \A j \in 1..N : up[j] = T[P + j]
      /\ Tracks(d, T, P) /\ Sync(d, P, wrote, cut)
      /\ Heard(g, P, wrote, cut)
  BY DEF Follows
<1>2. L \in Nat /\ N \in Nat /\ n \in Nat /\ 1 <= n /\ n <= N
  BY <1>1, LaidTypes
<1>3. taken \in Seq(Units) /\ Len(taken) = n /\ \A j \in 1..n : taken[j] = up[j]
  BY <1>2
<1>4. left \in Seq(Units) /\ Len(left) = N - n /\ \A j \in 1..(N - n) : left[j] = up[n + j]
  BY <1>2
<1>5. R \in Nat /\ P <= R /\ R <= L /\ N - n = L - R
  BY <1>1, <1>2
<1> HIDE DEF left, N, L
<1>6. ASSUME NEW j \in 1..n PROVE taken[j] = T[P + j]
  BY <1>1, <1>2, <1>3
<1>7. ASSUME NEW j \in 1..(N - n) PROVE left[j] = T[R + j]
  <2> DEFINE k == n + j
  <2>1. k \in 1..N /\ P + k = R + j
    BY <1>1, <1>2
  <2>2. left[j] = up[k]
    BY <1>4
  <2> HIDE DEF k, R
  <2> QED  BY <1>1, <2>1, <2>2
<1>8. OutOk(d.out, P, P, wrote, cut)
  <2>1. ASSUME NEW i \in DOMAIN wrote, P < wrote[i] + Span(i), wrote[i] + Span(i) <= P
        PROVE  FALSE
    <3>1. i \in DOMAIN Asked /\ wrote[i] \in Nat
      BY <1>1, LaidTypes
    <3>2. Span(i) \in Nat
      BY <3>1, WireBytes
    <3> DEFINE a == wrote[i] + Span(i)
    <3>3. a \in Nat /\ P < a /\ a <= P
      BY <2>1, <3>1, <3>2
    <3> HIDE DEF a
    <3> QED  BY <1>1, <3>3
  <2>2. Len(d.out) = 0
    OBVIOUS
  <2> QED  BY <2>1, <2>2 DEF OutOk
<1>9. Following(d, T, P, P, wrote, cut)
  BY <1>1, <1>8 DEF Following
<1>10. Following(Over(Deframed, d, taken), T, P, P + Len(taken), wrote, cut)
  <2>1. Len(taken) \in Nat /\ P + Len(taken) <= Len(T)
    BY <1>2, <1>3, <1>5 DEF L
  <2>2. \A j \in 1..Len(taken) : taken[j] = T[P + j]
    BY <1>3, <1>6
  <2> QED  BY <1>1, <1>9, <2>1, <2>2, LineFollows
<1>11. Following(fed, T, P, R, wrote, cut)
  BY <1>3, <1>10
<1> HIDE DEF R
<1>12. /\ LineOk(fed) /\ Tracks(fed, T, R) /\ Sync(fed, R, wrote, cut)
       /\ OutOk(fed.out, P, R, wrote, cut)
  BY <1>11 DEF Following
<1>13. Len(fed.out) \in Nat
  BY <1>12 DEF LineOk
<1>14. Heard(h, R, wrote, cut)
  BY <1>1, <1>5, <1>12, <1>13, SessionHears
<1>15. rest.state = fed.state /\ rest.len = fed.len /\ rest.buf = fed.buf
  BY <1>12 DEF LineOk
<1>16. Tracks(rest, T, R)
  BY <1>12, <1>15 DEF Tracks, InBuffer
<1>17. Sync(rest, R, wrote, cut)
  BY <1>12, <1>15 DEF Sync, InStep, InFrame
<1> HIDE DEF h
<1>18. Follows(T, G, R, left, place, wrote, cut, rest, h)
  <2>1. Len(left) = Len(T) - R /\ R <= Len(T) /\ place = Len(T)
    BY <1>1, <1>4, <1>5 DEF L
  <2>2. \A j \in 1..Len(left) : left[j] = T[R + j]
    BY <1>4, <1>7
  <2> QED  BY <1>1, <1>5, <1>14, <1>16, <1>17, <2>1, <2>2 DEF Follows
<1> QED  BY <1>18 DEF left, N, R, h

(* What ResyncInv says of the line that is read.                           *)
LEMMA ResyncSays == ResyncInv => LineResyncs
<1> SUFFICES ASSUME ResyncInv PROVE LineResyncs
  OBVIOUS
<1>1. PICK T, G, P : Follows(T, G, P, lgUp, lgPlace, lgWrote, lgCut, lgDeframer, lgHandled)
  BY DEF ResyncInv
<1>2. /\ Laid(T, G, lgWrote, lgCut)
      /\ P \in Nat /\ P <= Len(T) /\ Len(lgUp) = Len(T) - P
      /\ Heard(lgHandled, P, lgWrote, lgCut)
  BY <1>1 DEF Follows
<1>3. /\ \A i, j \in DOMAIN lgHandled : i < j => lgHandled[i] < lgHandled[j]
      /\ \A i \in DOMAIN lgWrote :
           Safe(i, lgWrote, lgCut) /\ lgWrote[i] + Span(i) <= P
             => \E a \in DOMAIN lgHandled : lgHandled[a] = i
  BY <1>2 DEF Heard
<1>4. ASSUME lgUp = <<>>, NEW i \in DOMAIN lgWrote, Safe(i, lgWrote, lgCut)
      PROVE  \E j \in DOMAIN lgHandled : lgHandled[j] = i
  <2>1. Len(T) \in Nat /\ Len(lgUp) = 0
    BY <1>2, <1>4, LaidTypes
  <2>2. P = Len(T)
    BY <1>2, <2>1
  <2>3. lgWrote[i] + Span(i) <= Len(T)
    BY <1>2, MessageThere
  <2> QED  BY <1>3, <1>4, <2>2, <2>3
<1> QED  BY <1>3, <1>4 DEF LineResyncs, Safe

LEMMA ResyncNow ==
  ASSUME NEW T, NEW G, NEW P, NEW up, NEW place, NEW wrote, NEW cut, NEW d, NEW h,
         Follows(T, G, P, up, place, wrote, cut, d, h),
         lgUp' = up, lgPlace' = place, lgWrote' = wrote, lgCut' = cut,
         lgDeframer' = d, lgHandled' = h
  PROVE  ResyncInv'
<1>1. Follows(T, G, P, lgUp', lgPlace', lgWrote', lgCut', lgDeframer', lgHandled')
  BY Zenon
<1> QED  BY Zenon, <1>1 DEF ResyncInv

LEMMA ResyncStep == LegacyInv /\ ResyncInv /\ [LegacyNext]_lgVars => ResyncInv'
<1> SUFFICES ASSUME LegacyInv, ResyncInv, [LegacyNext]_lgVars PROVE ResyncInv'
  OBVIOUS
<1>1. PICK T, G, P : Follows(T, G, P, lgUp, lgPlace, lgWrote, lgCut, lgDeframer, lgHandled)
  BY DEF ResyncInv
<1>2. Laid(T, G, lgWrote, lgCut) /\ lgPlace = Len(T)
  BY <1>1 DEF Follows
<1>3. /\ lgUp \in Seq(Units) /\ LineOk(lgDeframer) /\ lgDeframer.out = <<>>
      /\ SessionOk(Session) /\ Session.handled = lgHandled
  BY DEF LegacyInv, SessionOk, Session
<1> DEFINE m == Len(lgWrote) + 1
<1>4. ASSUME Len(lgWrote) < Len(Asked)
      PROVE  m \in DOMAIN Asked /\ Wire(m) \in Seq(Units) /\ Len(Wire(m)) = Span(m)
             /\ Span(m) \in Nat /\ Span(m) >= 4
  <2>1. DOMAIN Asked = 1..Len(Asked) /\ Len(Asked) \in Nat
    BY Zenon, AskedAssumption
  <2>2. m \in DOMAIN Asked
    BY <1>4, <2>1 DEF LegacyInv
  <2> HIDE DEF m
  <2>3. Asked[m].weight \in 1..MaxPayload /\ MaxPayload \in Nat
    BY <2>2, WireBytes, LegacyAssumption
  <2>4. Span(m) \in Nat /\ Span(m) >= 4
    BY <2>3 DEF Span
  <2> QED  BY <2>2, <2>4, WireBytes
<1>5. CASE HostWrites
  <2> DEFINE b == Wire(m)
             w == Append(lgWrote, Len(T))
             up == lgUp \o b
             at == lgPlace + Len(b)
             U == T \o b
             H == G \cup {PutSegment(T, b, m)}
  <2>1. m \in DOMAIN Asked /\ b \in Seq(Units) /\ Len(b) = Span(m) /\ Span(m) \in Nat
        /\ Span(m) >= 4
    BY <1>4, <1>5 DEF HostWrites
  <2>2. /\ lgUp' = up /\ lgPlace' = at
        /\ lgWrote' = w
        /\ UNCHANGED <<lgCut, lgDeframer, lgHandled>>
    BY <1>2, <1>5 DEF HostWrites, hostVars, Puts, Wire
  <2>3. /\ Extends(T, b, m, lgWrote, lgCut, w, lgCut)
        /\ SegmentOk(U, PutSegment(T, b, m), w, lgCut)
    BY <1>2, <2>1, WritesWhole
  <2>4. Len(b) >= 1
    BY <2>1
  <2> HIDE DEF m, b, w
  <2>5. Follows(U, H, P, up, at, w, lgCut, lgDeframer, lgHandled)
    BY <1>1, <1>3, <2>1, <2>3, <2>4, FollowsPut
  <2> HIDE DEF U, H, up, at
  <2> QED  BY <2>2, <2>5, ResyncNow
<1>6. CASE HostCut
  <2>1. m \in DOMAIN Asked /\ Len(Wire(m)) = Span(m)
    BY <1>4, <1>6 DEF HostCut
  <2>2. PICK k \in 1..(Len(Wire(m)) - 1) : Puts(SubSeq(Wire(m), 1, k))
    BY <1>6 DEF HostCut, Wire
  <2> DEFINE b == SubSeq(Wire(m), 1, k)
             c == lgCut \cup {Len(T) + k}
             up == lgUp \o b
             at == lgPlace + Len(b)
             U == T \o b
             H == G \cup {PutSegment(T, b, m)}
  <2>3. k \in 1..(Span(m) - 1)
    BY <2>1, <2>2
  <2>b. CutShort(b, m, k)
    BY <2>1, <2>3 DEF CutShort
  <2> HIDE DEF m, b
  <2>4. /\ b \in Seq(Units) /\ Len(b) = k /\ k >= 1
        /\ Extends(T, b, m, lgWrote, lgCut, lgWrote, c)
        /\ SegmentOk(U, PutSegment(T, b, m), lgWrote, c)
    BY <1>2, <2>b, WritesCut
  <2>5. lgUp' = up /\ lgPlace' = at /\ lgCut' = lgCut \cup {lgPlace'}
        /\ UNCHANGED <<lgWrote, lgDeframer, lgHandled>>
    BY <1>6, <2>2 DEF HostCut, hostVars, Puts, b, m
  <2>6. lgCut' = c
    BY <1>2, <2>4, <2>5
  <2> HIDE DEF c
  <2>7. Follows(U, H, P, up, at, lgWrote, c, lgDeframer, lgHandled)
    BY <1>1, <1>3, <2>4, FollowsPut DEF U
  <2> HIDE DEF U, H, up, at
  <2> QED  BY <2>5, <2>6, <2>7, ResyncNow
<1>7. CASE HostNoise
  <2>1. PICK v \in {START1, 0} : Puts(<<Byte(v)>>)
    BY <1>7 DEF HostNoise
  <2> DEFINE b == <<Byte(v)>>
             up == lgUp \o b
             at == lgPlace + Len(b)
             U == T \o b
             H == G \cup {PutSegment(T, b, 0)}
  <2>2. lgUp' = up /\ lgPlace' = at
        /\ UNCHANGED <<lgWrote, lgCut, lgDeframer, lgHandled>>
    BY <1>7, <2>1 DEF HostNoise, hostVars, Puts
  <2>3. /\ b \in Seq(Units) /\ Len(b) = 1
        /\ Extends(T, b, 0, lgWrote, lgCut, lgWrote, lgCut)
        /\ SegmentOk(U, PutSegment(T, b, 0), lgWrote, lgCut)
    BY <1>2, WritesNoise
  <2> HIDE DEF b
  <2>4. Len(b) >= 1
    BY <2>3
  <2>5. Follows(U, H, P, up, at, lgWrote, lgCut, lgDeframer, lgHandled)
    BY <1>1, <1>3, <2>3, <2>4, FollowsPut
  <2> HIDE DEF U, H, up, at
  <2> QED  BY <2>2, <2>5, ResyncNow
<1>8. CASE ReadPty
  <2>1. PICK n \in 1..Len(lgUp) : lgUp' = SubSeq(lgUp, n + 1, Len(lgUp))
    BY <1>8 DEF ReadPty, TakesBytes
  <2>s. SubSeq(lgUp, 1, n) \in Seq(Units)
    BY <1>3
  <2> DEFINE up == SubSeq(lgUp, n + 1, Len(lgUp))
             k == Len(lgUp) - Len(up)
             taken == SubSeq(lgUp, 1, k)
             fed == Over(Deframed, lgDeframer, taken)
             rest == [fed EXCEPT !.out = <<>>]
             R == P + n
  <2>2. lgUp' = up
    BY <2>1
  <2>3. PICK luck \in [{j \in DOMAIN fed.out : Mixed(fed.out[j])} -> Chimeras \cup {Nothing}] :
          /\ lgDeframer' = rest /\ Becomes(Over(handleToRadio, Session, Gots(fed.out, luck)))
          /\ lgPlace' = lgPlace /\ lgWrote' = lgWrote /\ lgCut' = lgCut
    BY <1>8, <2>2 DEF ReadPty, Gots
  <2> DEFINE w == Gots(fed.out, luck)
             h == Over(handleToRadio, Session, w).handled
  <2>h. lgHandled' = h
    BY <2>3 DEF Becomes
  <2>4. k = n
    BY <1>3
  <2> HIDE DEF k
  <2>5. taken = SubSeq(lgUp, 1, n)
    BY <2>4
  <2> HIDE DEF taken
  <2>t. taken \in Seq(Units)
    BY <2>s, <2>5
  <2>6. Follows(T, G, P, lgUp, lgPlace, lgWrote, lgCut, lgDeframer, Session.handled)
    BY <1>1, <1>3
  <2>f. LineOk(fed)
    BY <1>3, <2>t, LineRuns
  <2> HIDE DEF fed
  <2>7. fed = Over(Deframed, lgDeframer, taken)
    BY DEF fed
  <2>w. GotsFor(w, fed.out)
    BY <2>3, <2>f, GotsOk DEF LineOk
  <2> HIDE DEF w, rest
  <2>8. rest = [fed EXCEPT !.out = <<>>]
    BY DEF rest
  <2>9. Follows(T, G, R, up, lgPlace, lgWrote, lgCut, rest, h)
    BY <1>3, <2>5, <2>6, <2>7, <2>8, <2>w, FollowsRead
  <2> HIDE DEF up, R, h
  <2> QED  BY <2>2, <2>3, <2>h, <2>9, ResyncNow
<1>9. CASE AirHeard
  <2> DEFINE s == handleAirFrame(Session, Aired[lgHeard + 1])
  <2>1. /\ lgHandled' = s.handled
        /\ UNCHANGED <<lgUp, lgDeframer, lgWrote, lgPlace, lgCut>>
    BY <1>9 DEF AirHeard, Becomes
  <2>2. s.handled = Session.handled
    BY <1>3, FromKeeps DEF handleAirFrame, Same
  <2> HIDE DEF s
  <2>3. lgHandled' = lgHandled
    BY <1>3, <2>1, <2>2
  <2> QED  BY <1>1, <2>1, <2>3, ResyncNow
<1>10. CASE HostReads
  <2>1. UNCHANGED <<lgUp, lgPlace, lgWrote, lgCut, lgDeframer, lgHandled>>
    BY <1>10 DEF HostReads
  <2> QED  BY <1>1, <2>1, ResyncNow
<1>11. CASE FlushLegacyFromRadio
  <2>1. UNCHANGED <<lgUp, lgPlace, lgWrote, lgCut, lgDeframer, lgHandled>>
    BY <1>11 DEF FlushLegacyFromRadio, othersVars
  <2> QED  BY <1>1, <2>1, ResyncNow
<1>13. CASE FlushFails
  <2>1. UNCHANGED <<lgUp, lgPlace, lgWrote, lgCut, lgDeframer, lgHandled>>
    BY <1>13 DEF FlushFails, othersVars
  <2> QED  BY <1>1, <2>1, ResyncNow
<1>12. CASE UNCHANGED lgVars
  <2>1. UNCHANGED <<lgUp, lgPlace, lgWrote, lgCut, lgDeframer, lgHandled>>
    BY <1>12 DEF lgVars
  <2> QED  BY <1>1, <2>1, ResyncNow
<1> QED  BY <1>5, <1>6, <1>7, <1>8, <1>9, <1>10, <1>11, <1>12, <1>13 DEF LegacyNext

-----------------------------------------------------------------------------
(***************************************************************************)
(* The packets that go on the air and are none of the host's.  Each comes  *)
(* of a payload that is no message of the host; such a payload holds the   *)
(* end of a write cut short, behind all that the deframer held before it   *)
(* (Yields), so that every one of them has a cut of its own (Spent).       *)
(***************************************************************************)
Unmeant(a) == {i \in DOMAIN a : a[i].ask = 0}
Spoiled(o, k) == {n \in 1..k : o[n] # <<>> /\ ~IsWhole(o[n])}
CutBy(cut, q) == {c \in cut : c <= q}

(* The bytes the deframer holds of a frame that is not complete.           *)
Held(d) ==
  CASE d.state = "kScanStart1" -> 0
    [] d.state = "kExpectStart2" -> 1
    [] d.state = "kLenHi" -> 2
    [] d.state = "kLenLo" -> 3
    [] d.state = "kPayload" -> 4 + Len(d.buf)

(* From output o with q bytes behind it to p with r.                       *)
Yields(o, p, q, r, cut) ==
  /\ q <= r
  /\ \/ p = o
     \/ \E x \in Seq(Units) :
          /\ p = Append(o, x)
          /\ x # <<>> /\ ~IsWhole(x) => \E c \in cut : q < c /\ c <= r

Spent(n0, o, cut, q) ==
  n0 + Cardinality(Spoiled(o, Len(o))) <= Cardinality(CutBy(cut, q))

LEMMA OneMore ==
  ASSUME NEW S, IsFiniteSet(S), NEW x, NEW U, U \subseteq S \cup {x}
  PROVE  /\ IsFiniteSet(U) /\ Cardinality(U) \in Nat /\ Cardinality(S) \in Nat
         /\ Cardinality(U) <= Cardinality(S) + 1
<1> DEFINE V == S \cup {x}
<1>1. Cardinality(S) \in Nat
  BY FS_CardinalityType
<1>2. IsFiniteSet(V) /\ Cardinality(V) <= Cardinality(S) + 1
  <2>1. IsFiniteSet(V) /\ Cardinality(V) = IF x \in S THEN Cardinality(S) ELSE Cardinality(S) + 1
    BY FS_AddElement
  <2> HIDE DEF V
  <2> QED  BY <1>1, <2>1
<1>3. U \in SUBSET V
  OBVIOUS
<1> HIDE DEF V
<1>4. IsFiniteSet(U) /\ Cardinality(U) <= Cardinality(V)
  BY <1>2, <1>3, FS_Subset
<1>5. Cardinality(U) \in Nat /\ Cardinality(V) \in Nat
  BY <1>2, <1>4, FS_CardinalityType
<1> QED  BY <1>1, <1>2, <1>4, <1>5

(* U has an element more than S.                                           *)
LEMMA OneLess ==
  ASSUME NEW U, IsFiniteSet(U), NEW S, S \subseteq U
  PROVE  /\ IsFiniteSet(S) /\ Cardinality(S) \in Nat /\ Cardinality(U) \in Nat
         /\ Cardinality(S) <= Cardinality(U)
         /\ \A c \in U : c \notin S => Cardinality(S) + 1 <= Cardinality(U)
<1>1. IsFiniteSet(S) /\ Cardinality(S) <= Cardinality(U)
      /\ (Cardinality(U) = Cardinality(S) => U = S)
  BY FS_Subset
<1>2. Cardinality(S) \in Nat /\ Cardinality(U) \in Nat
  BY <1>1, FS_CardinalityType
<1>3. ASSUME NEW c \in U, c \notin S PROVE Cardinality(S) + 1 <= Cardinality(U)
  <2>1. Cardinality(S) # Cardinality(U)
    BY <1>1, <1>3
  <2> QED  BY <1>1, <1>2, <2>1
<1> QED  BY <1>1, <1>2, <1>3

LEMMA SpoiledFinite ==
  ASSUME NEW o, NEW k \in Nat
  PROVE  IsFiniteSet(Spoiled(o, k)) /\ Cardinality(Spoiled(o, k)) \in Nat
<1>1. IsFiniteSet(1..k)
  BY FS_Interval
<1>2. Spoiled(o, k) \in SUBSET (1..k)
  BY DEF Spoiled
<1>3. IsFiniteSet(Spoiled(o, k))
  BY <1>1, <1>2, FS_Subset
<1> QED  BY <1>3, FS_CardinalityType

LEMMA UnmeantFinite ==
  ASSUME NEW a, Len(a) \in Nat, DOMAIN a = 1..Len(a)
  PROVE  IsFiniteSet(Unmeant(a)) /\ Cardinality(Unmeant(a)) \in Nat
<1>1. IsFiniteSet(1..Len(a))
  BY FS_Interval
<1>2. Unmeant(a) \in SUBSET (1..Len(a))
  BY DEF Unmeant
<1>3. IsFiniteSet(Unmeant(a))
  BY <1>1, <1>2, FS_Subset
<1> QED  BY <1>3, FS_CardinalityType

(* Every payload that is spoiled has a cut of its own.                     *)
LEMMA SpentGrows ==
  ASSUME NEW cut, IsFiniteSet(cut), cut \subseteq Nat, NEW o \in Seq(Seq(Units)), NEW p,
         NEW n0 \in Nat, NEW q \in Int, NEW r \in Int,
         Spent(n0, o, cut, q), Yields(o, p, q, r, cut)
  PROVE  Spent(n0, p, cut, r)
<1> DEFINE M == Spoiled(o, Len(o))
           C == CutBy(cut, q)
           D == CutBy(cut, r)
<1>1. Len(o) \in Nat /\ q <= r
  BY DEF Yields
<1>2. IsFiniteSet(M) /\ Cardinality(M) \in Nat
  BY <1>1, SpoiledFinite
<1>3. D \subseteq cut
  BY DEF CutBy
<1>4. IsFiniteSet(D)
  BY <1>3, OneLess
<1>5. C \subseteq D
  <2>1. SUFFICES ASSUME NEW c \in C PROVE c \in D
    OBVIOUS
  <2>2. c \in cut /\ c <= q
    BY DEF CutBy
  <2>3. c \in Nat
    BY <2>2
  <2>4. c <= r
    BY <1>1, <2>2, <2>3
  <2> QED  BY <2>2, <2>4 DEF CutBy
<1>6. /\ Cardinality(C) \in Nat /\ Cardinality(D) \in Nat
      /\ Cardinality(C) <= Cardinality(D)
      /\ \A c \in D : c \notin C => Cardinality(C) + 1 <= Cardinality(D)
  BY <1>4, <1>5, OneLess
<1>7. n0 + Cardinality(M) <= Cardinality(C)
  BY DEF Spent
<1>8. CASE p = o
  <2> HIDE DEF M, C, D
  <2>1. n0 + Cardinality(M) <= Cardinality(D)
    BY <1>2, <1>6, <1>7
  <2> QED  BY <1>8, <2>1 DEF Spent, M, D
<1>9. ASSUME NEW x \in Seq(Units), p = Append(o, x),
             x # <<>> /\ ~IsWhole(x) => \E c \in cut : q < c /\ c <= r
      PROVE  Spent(n0, p, cut, r)
  <2> DEFINE N == Len(o) + 1
             K == Spoiled(p, Len(p))
  <2>1. /\ Len(p) = N /\ p[N] = x
        /\ \A n \in 1..Len(o) : p[n] = o[n]
    BY <1>9
  <2>2. \A n \in 1..N : n = N \/ n \in 1..Len(o)
    BY <1>1
  <2>3. K \subseteq M \cup {N}
    <3> SUFFICES ASSUME NEW n \in K, n # N PROVE n \in M
      OBVIOUS
    <3>1. n \in 1..N /\ p[n] # <<>> /\ ~IsWhole(p[n])
      BY <2>1 DEF Spoiled
    <3>2. n \in 1..Len(o)
      BY <2>2, <3>1
    <3>3. p[n] = o[n]
      BY <2>1, <3>2
    <3> QED  BY <3>1, <3>2, <3>3 DEF Spoiled
  <2>4. CASE x # <<>> /\ ~IsWhole(x)
    <3>1. PICK c \in cut : q < c /\ c <= r
      BY <1>9, <2>4
    <3>2. c \in D /\ c \notin C
      BY <3>1 DEF CutBy
    <3>3. Cardinality(C) + 1 <= Cardinality(D)
      BY <1>6, <3>2
    <3> HIDE DEF M, C, D, K, N
    <3>4. Cardinality(K) \in Nat /\ Cardinality(K) <= Cardinality(M) + 1
      BY <1>2, <2>3, OneMore
    <3>5. n0 + Cardinality(K) <= Cardinality(D)
      BY <1>2, <1>6, <1>7, <3>3, <3>4
    <3> QED  BY <3>5 DEF Spent, K, D
  <2>5. CASE ~(x # <<>> /\ ~IsWhole(x))
    <3>1. N \notin K
      BY <2>1, <2>5 DEF Spoiled
    <3>2. K \subseteq M
      BY <2>3, <3>1
    <3> HIDE DEF M, C, D, K, N
    <3>3. Cardinality(K) \in Nat /\ Cardinality(K) <= Cardinality(M)
      BY <1>2, <3>2, OneLess
    <3>4. n0 + Cardinality(K) <= Cardinality(D)
      BY <1>2, <1>6, <1>7, <3>3
    <3> QED  BY <3>4 DEF Spent, K, D
  <2> QED  BY <2>4, <2>5
<1> QED  BY <1>8, <1>9 DEF Yields

(* A payload begins behind the bytes held, and if it is none of the host's *)
(* a write was cut short in it.                                            *)
LEMMA YieldStep ==
  ASSUME NEW T, NEW G, NEW wrote, NEW cut, Laid(T, G, wrote, cut),
         NEW P \in Nat, P < Len(T), NEW d, LineOk(d), Tracks(d, T, P),
         NEW e, ByteTaken(d, T[P + 1], e)
  PROVE  Yields(d.out, e.out, P - Held(d), (P + 1) - Held(e), cut)
<1> DEFINE R == P + 1
           u == T[R]
           q == P - Held(d)
           r == R - Held(e)
<1>1. Len(T) \in Nat /\ R \in Nat /\ R = P + 1 /\ R \in 1..Len(T) /\ u \in Units
  <2>1. Len(T) \in Nat /\ R \in 1..Len(T)
    BY LaidTypes
  <2> QED  BY <2>1, LaidTypes
<1>2. ByteTaken(d, u, e)
  OBVIOUS
<1>k. /\ e.state = "kScanStart1" => r = R
      /\ e.state = "kExpectStart2" => r = R - 1
      /\ e.state = "kLenHi" => r = R - 2
      /\ e.state = "kLenLo" => r = R - 3
      /\ e.state = "kPayload" => r = R - (4 + Len(e.buf))
  BY <1>1 DEF Held
<1>s. SUFFICES Yields(d.out, e.out, q, r, cut)
  OBVIOUS
<1> HIDE DEF R, u, q, r
<1>3. CASE d.state = "kScanStart1"
  <2>1. q = P
    BY <1>3 DEF Held, q
  <2>2. e.out = d.out /\ e.state \in {"kScanStart1", "kExpectStart2"}
    BY <1>2, <1>3 DEF ByteTaken, Quiet
  <2>3. q <= r
    BY <1>1, <1>k, <2>1, <2>2
  <2> QED  BY <2>2, <2>3 DEF Yields
<1>4. CASE d.state = "kExpectStart2"
  <2>1. q = P - 1
    BY <1>4 DEF Held, q
  <2>2. e.out = d.out /\ e.state \in {"kScanStart1", "kExpectStart2", "kLenHi"}
    BY <1>2, <1>4 DEF ByteTaken, Quiet
  <2>3. q <= r
    BY <1>1, <1>k, <2>1, <2>2
  <2> QED  BY <2>2, <2>3 DEF Yields
<1>5. CASE d.state = "kLenHi"
  <2>1. q = P - 2
    BY <1>5 DEF Held, q
  <2>2. e.out = d.out /\ e.state = "kLenLo"
    BY <1>2, <1>5 DEF ByteTaken, Quiet
  <2>3. q <= r
    BY <1>1, <1>k, <2>1, <2>2
  <2> QED  BY <2>2, <2>3 DEF Yields
<1>6. CASE d.state = "kLenLo"
  <2>1. q = P - 3
    BY <1>6 DEF Held, q
  <2>2. \/ e.out = d.out /\ e.state = "kScanStart1"
        \/ e.out = Append(d.out, <<>>) /\ e.state = "kScanStart1"
        \/ e.out = d.out /\ e.state = "kPayload" /\ e.buf = <<>>
    BY <1>2, <1>6 DEF ByteTaken, Quiet
  <2>3. Len(<<>>) = 0 /\ <<>> \in Seq(Units)
    OBVIOUS
  <2>4. q <= r
    <3>1. CASE e.state = "kScanStart1"
      BY <1>1, <1>k, <2>1, <3>1
    <3>2. CASE e.state = "kPayload" /\ e.buf = <<>>
      <4>1. Len(e.buf) = 0
        BY <2>3, <3>2
      <4>2. r = R - 4
        BY <1>1, <1>k, <3>2, <4>1
      <4> QED  BY <1>1, <2>1, <4>2
    <3> QED  BY <2>2, <3>1, <3>2
  <2>5. \/ e.out = d.out
        \/ \E x \in Seq(Units) :
             /\ e.out = Append(d.out, x)
             /\ x # <<>> /\ ~IsWhole(x) => \E c \in cut : q < c /\ c <= r
    BY <2>2, <2>3
  <2> QED  BY <2>4, <2>5 DEF Yields
<1>7. CASE d.state = "kPayload" /\ Len(d.buf) + 1 < d.len
  <2> DEFINE n == Len(d.buf)
  <2>1. q = P - (4 + n)
    BY <1>7 DEF Held, q
  <2>2. e.out = d.out /\ e.state = "kPayload" /\ e.buf = Append(d.buf, u)
    BY <1>2, <1>7 DEF ByteTaken, Quiet
  <2>3. n \in Nat /\ Len(e.buf) = n + 1
    BY <2>2 DEF LineOk
  <2> HIDE DEF n
  <2>4. q <= r
    BY <1>1, <1>k, <2>1, <2>2, <2>3
  <2> QED  BY <2>2, <2>4 DEF Yields
<1>8. CASE d.state = "kPayload" /\ ~(Len(d.buf) + 1 < d.len)
  <2> DEFINE x == Append(d.buf, u)
             n == Len(d.buf)
  <2>1. PICK h : InBuffer(d, T, h) /\ P = h + 3 + n
    BY <1>8 DEF Tracks
  <2>2. /\ Begins(T, h) /\ h \in Nat /\ d.len \in 1..MaxPayload /\ n < d.len
        /\ \A j \in 1..n : d.buf[j] = T[h + 3 + j]
    BY <2>1 DEF InBuffer, Begins
  <2>l. d.len = T[h + 2].byte * Base + T[h + 3].byte
    BY <2>1 DEF InBuffer
  <2>3. n \in Nat /\ d.buf \in Seq(Units) /\ d.len \in Nat
    BY <2>2, LegacyAssumption DEF LineOk
  <2>4. /\ x \in Seq(Units) /\ Len(x) = n + 1 /\ x[n + 1] = u
        /\ \A j \in 1..n : x[j] = d.buf[j]
    BY <1>1, <2>3
  <2>5. ~(n + 1 < d.len)
    BY <1>8
  <2>6. e.out = Append(d.out, x) /\ e.state = "kScanStart1"
    BY <1>2, <1>8 DEF ByteTaken
  <2>7. q = P - (4 + n)
    BY <1>8 DEF Held, q
  <2> HIDE DEF x, n
  <2> DEFINE w == n + 1
  <2>8. w \in Nat /\ w >= 1 /\ R = h + 3 + w /\ w = n + 1 /\ w = d.len
    BY <1>1, <2>1, <2>2, <2>3, <2>5
  <2>9. q = h - 1 /\ r = R /\ q <= r
    BY <1>1, <1>k, <2>1, <2>2, <2>3, <2>6, <2>7
  <2> HIDE DEF w
  <2>10. ASSUME NEW j \in 1..w PROVE x[j] = T[h + 3 + j]
    <3>1. CASE j = w
      BY <2>4, <2>8, <3>1 DEF u
    <3>2. CASE j \in 1..n
      BY <2>2, <2>4, <3>2
    <3> QED  BY <2>3, <2>8, <3>1, <3>2
  <2>11. h + 1 <= Len(T)
    BY <1>1, <2>2, <2>8
  <2>12. PICK s \in G : s.first = h /\ h + 1 <= s.last /\ s.msg \in DOMAIN Asked
    BY <2>2, <2>11, Adjacent
  <2> DEFINE m == s.msg
             v == Asked[m].weight
  <2>13. v \in Nat /\ v >= 1 /\ Span(m) = 4 + v
    <3>1. v \in 1..MaxPayload /\ MaxPayload \in Nat
      BY <2>12, WireBytes, LegacyAssumption
    <3> QED  BY <3>1 DEF Span
  <2>14. SegmentOk(T, s, wrote, cut) /\ m # 0
    BY <2>12, WireBytes DEF Laid
  <2>15. /\ s.last \in Nat
         /\ \A z \in s.first..s.last : T[z] = Wire(m)[z - s.first + 1]
         /\ \/ s.last = h + Span(m) - 1
            \/ s.last \in cut /\ s.last < h + Span(m) - 1
    BY <2>12, <2>14 DEF SegmentOk
  <2>16. h + 3 <= s.last => w = v
    BY <2>8, <2>12, <2>l, HeaderTells
  <2> HIDE DEF v
  <2>17. CASE s.last \in cut /\ s.last < h + Span(m) - 1
    <3>1. s.last <= R
      <4>1. SUFFICES ASSUME R < s.last PROVE FALSE
        BY <1>1, <2>15
      <4>2. w = v
        BY <1>1, <2>2, <2>8, <2>15, <2>16, <4>1
      <4> QED  BY <1>1, <2>2, <2>8, <2>13, <2>15, <2>17, <4>1, <4>2
    <3>2. q < s.last /\ s.last <= r
      BY <2>2, <2>9, <2>12, <2>15, <3>1
    <3> QED  BY <2>4, <2>6, <2>9, <2>17, <3>2 DEF Yields
  <2>18. CASE s.last = h + Span(m) - 1
    <3>1. w = v
      BY <2>2, <2>13, <2>16, <2>18
    <3>2. x = Pieces(m)
      <4>1. Pieces(m) = [j \in 1..w |-> [byte |-> 0, of |-> m, piece |-> j]]
        BY <3>1 DEF Pieces, v
      <4>2. \A z \in 5..Span(m) : Wire(m)[z] = [byte |-> 0, of |-> m, piece |-> z - 4]
        BY <2>12, WireBytes
      <4> HIDE DEF m
      <4>3. ASSUME NEW j \in 1..w PROVE x[j] = [byte |-> 0, of |-> m, piece |-> j]
        <5> DEFINE z == h + 3 + j
                   k == 4 + j
        <5>1. /\ z \in s.first..s.last /\ z - s.first + 1 = k
              /\ k \in 5..Span(m) /\ k - 4 = j
          BY <2>2, <2>8, <2>12, <2>13, <2>18, <3>1
        <5>2. x[j] = T[z]
          BY <2>10
        <5> HIDE DEF z, k
        <5>3. T[z] = Wire(m)[k]
          BY <2>15, <5>1
        <5>4. Wire(m)[k] = [byte |-> 0, of |-> m, piece |-> j]
          BY <4>2, <5>1
        <5> QED  BY <5>2, <5>3, <5>4
      <4>4. x = [j \in 1..w |-> x[j]]
        BY <2>4, <2>8
      <4> QED  BY <4>1, <4>3, <4>4
    <3>3. IsWhole(x)
      BY <2>12, <3>2, PiecesWhole
    <3> QED  BY <2>4, <2>6, <2>9, <3>3 DEF Yields
  <2> QED  BY <2>15, <2>17, <2>18
<1> QED  BY <1>3, <1>4, <1>5, <1>6, <1>7, <1>8 DEF LineOk

(* The deframer over a part of the line.                                   *)
Spends(d, T, P, cut, n0) ==
  LineOk(d) /\ Tracks(d, T, P) /\ Spent(n0, d.out, cut, P - Held(d))

LEMMA HeldInt ==
  ASSUME NEW d, LineOk(d)
  PROVE  Held(d) \in Nat
BY DEF LineOk, Held

LEMMA SpendStep ==
  ASSUME NEW T, NEW G, NEW wrote, NEW cut, Laid(T, G, wrote, cut), IsFiniteSet(cut),
         NEW P \in Nat, P < Len(T), NEW n0 \in Nat, NEW d, Spends(d, T, P, cut, n0)
  PROVE  Spends(Deframed(d, T[P + 1]), T, P + 1, cut, n0)
<1> DEFINE e == Deframed(d, T[P + 1])
           q == P - Held(d)
           r == (P + 1) - Held(e)
<1>1. LineOk(d) /\ Tracks(d, T, P) /\ Spent(n0, d.out, cut, q)
  BY DEF Spends
<1>2. ByteTaken(d, T[P + 1], e)
  BY <1>1, DeframedTakes
<1>3. T \in Seq(Units) /\ T[P + 1] \in Units
  <2> DEFINE R == P + 1
  <2>1. R \in 1..Len(T) /\ T \in Seq(Units)
    BY LaidTypes
  <2> HIDE DEF R
  <2>2. T[R] \in Units
    BY <2>1
  <2> QED  BY <2>1, <2>2 DEF R
<1>4. LineOk(e)
  BY <1>1, <1>3, LineStep
<1> HIDE DEF e
<1>5. Tracks(e, T, P + 1)
  BY <1>1, <1>2, <1>3, TracksStep
<1>6. Yields(d.out, e.out, q, r, cut)
  BY <1>1, <1>2, YieldStep
<1>7. q \in Int /\ r \in Int
  BY <1>1, <1>4, HeldInt
<1>8. d.out \in Seq(Seq(Units)) /\ cut \subseteq Nat
  BY <1>1 DEF LineOk, Laid
<1> HIDE DEF q, r
<1>9. Spent(n0, e.out, cut, r)
  BY <1>1, <1>6, <1>7, <1>8, SpentGrows
<1> QED  BY <1>4, <1>5, <1>9 DEF Spends, e, r

LEMMA LineSpends ==
  ASSUME NEW T, NEW G, NEW wrote, NEW cut, Laid(T, G, wrote, cut), IsFiniteSet(cut),
         NEW P \in Nat, NEW s, Len(s) \in Nat, P + Len(s) <= Len(T),
         \A j \in 1..Len(s) : s[j] = T[P + j],
         NEW n0 \in Nat, NEW d, Spends(d, T, P, cut, n0)
  PROVE  Spends(Over(Deframed, d, s), T, P + Len(s), cut, n0)
<1> DEFINE N == Len(s)
<1>1. N \in Nat /\ P + N <= Len(T) /\ \A j \in 1..N : s[j] = T[P + j]
  OBVIOUS
<1>2. PICK h : Runs(h, "line", d, s, N) /\ Over(Deframed, d, s) = h[N]
  BY <1>1, OverLine
<1>3. Len(T) \in Nat
  BY LaidTypes
<1> DEFINE S == {k \in Nat : k <= N => Spends(h[k], T, P + k, cut, n0)}
<1> HIDE DEF N
<1>4. 0 \in S
  <2>1. h[0] = d /\ P + 0 = P
    BY <1>2 DEF Runs
  <2> QED  BY <2>1
<1>5. ASSUME NEW k \in Nat, k \in S PROVE k + 1 \in S
  <2>1. SUFFICES ASSUME k + 1 <= N PROVE Spends(h[k + 1], T, P + (k + 1), cut, n0)
    OBVIOUS
  <2>2. k + 1 \in 1..N /\ k <= N
    BY <1>1, <2>1
  <2> DEFINE R == P + k
             m == k + 1
  <2>3. /\ Spends(h[k], T, R, cut, n0)
        /\ R \in Nat /\ R < Len(T) /\ P + m = R + 1
    BY <1>1, <1>3, <1>5, <2>2
  <2>4. h[m] = Deframed(h[k], s[m])
    <3>1. h[k + 1] = Step("line", h[k], s[k + 1])
      BY <1>1, <1>2, <2>2, NextRun
    <3> QED  BY <3>1 DEF Step
  <2>5. m \in 1..N
    BY <2>2
  <2> HIDE DEF R, m
  <2>6. s[m] = T[R + 1]
    BY <1>1, <2>3, <2>5
  <2>7. Spends(Deframed(h[k], T[R + 1]), T, R + 1, cut, n0)
    BY <2>3, SpendStep
  <2>8. Spends(h[m], T, P + m, cut, n0)
    BY <2>3, <2>4, <2>6, <2>7
  <2> QED  BY <2>8 DEF m
<1>6. Nat \subseteq S
  <2> HIDE DEF S
  <2> QED  BY <1>4, <1>5, SetInduction
<1>7. Spends(h[N], T, P + N, cut, n0)
  BY <1>1, <1>6
<1> QED  BY <1>2, <1>7 DEF N

LEMMA SpoiledGrows ==
  ASSUME NEW o, NEW k \in Nat
  PROVE  /\ IsFiniteSet(Spoiled(o, k)) /\ Cardinality(Spoiled(o, k)) \in Nat
         /\ Cardinality(Spoiled(o, k + 1)) \in Nat
         /\ Cardinality(Spoiled(o, k)) <= Cardinality(Spoiled(o, k + 1))
         /\ o[k + 1] # <<>> /\ ~IsWhole(o[k + 1]) =>
              Cardinality(Spoiled(o, k)) + 1 <= Cardinality(Spoiled(o, k + 1))
<1> DEFINE m == k + 1
           S == Spoiled(o, k)
           U == Spoiled(o, m)
<1>1. m \in Nat /\ m \in 1..m /\ m \notin 1..k /\ \A n \in 1..k : n \in 1..m
  OBVIOUS
<1>2. IsFiniteSet(S) /\ IsFiniteSet(U)
  BY <1>1, SpoiledFinite
<1>3. S \subseteq U
  BY <1>1 DEF Spoiled
<1>4. o[m] # <<>> /\ ~IsWhole(o[m]) => m \in U /\ m \notin S
  BY <1>1 DEF Spoiled
<1> HIDE DEF S, U
<1>5. /\ Cardinality(S) \in Nat /\ Cardinality(U) \in Nat /\ Cardinality(S) <= Cardinality(U)
      /\ \A c \in U : c \notin S => Cardinality(S) + 1 <= Cardinality(U)
  BY <1>2, <1>3, OneLess
<1> QED  BY <1>2, <1>4, <1>5 DEF S, U, m

(* What goes on the air that the host did not mean came of such a payload. *)
LEMMA SessionSpoils ==
  ASSUME NEW s, SessionOk(s), NEW o, Len(o) \in Nat, NEW w, GotsFor(w, o)
  PROVE  Cardinality(Unmeant(Over(handleToRadio, s, w).air))
           <= Cardinality(Unmeant(s.air)) + Cardinality(Spoiled(o, Len(o)))
<1> DEFINE N == Len(o)
           a0 == Cardinality(Unmeant(s.air))
<1>1. /\ N \in Nat /\ Len(w) = N
      /\ \A k \in 1..N :
           /\ GotOk(w[k])
           /\ w[k].of = 0 <=> ~IsWhole(o[k])
           /\ o[k] = <<>> => w[k].ask.kind # "packet"
  BY DEF GotsFor
<1>2. PICK h : Runs(h, "session", s, w, N) /\ Over(handleToRadio, s, w) = h[N]
  BY <1>1, OverSession
<1>a. ASSUME NEW t, SessionOk(t)
      PROVE  /\ t.air \in Seq(Airs) /\ IsFiniteSet(Unmeant(t.air))
             /\ Cardinality(Unmeant(t.air)) \in Nat
  <2>1. t.air \in Seq(Airs)
    BY <1>a DEF SessionOk
  <2> QED  BY <2>1, UnmeantFinite
<1>b. a0 \in Nat
  BY <1>a
<1> DEFINE Bound(k) == /\ SessionOk(h[k])
                       /\ Cardinality(Unmeant(h[k].air)) <= a0 + Cardinality(Spoiled(o, k))
           S == {k \in Nat : k <= N => Bound(k)}
<1> HIDE DEF N
<1>3. 0 \in S
  <2>1. h[0] = s
    BY <1>2 DEF Runs
  <2>2. Cardinality(Spoiled(o, 0)) \in Nat
    BY SpoiledFinite
  <2>3. a0 <= a0 + Cardinality(Spoiled(o, 0))
    BY <1>b, <2>2
  <2> QED  BY <2>1, <2>3
<1>4. ASSUME NEW k \in Nat, k \in S PROVE k + 1 \in S
  <2> DEFINE m == k + 1
             x == o[m]
             got == w[m]
  <2>1. SUFFICES ASSUME m <= N PROVE Bound(m)
    OBVIOUS
  <2>2. m \in 1..N /\ k <= N
    BY <1>1, <2>1
  <2>3. SessionOk(h[k]) /\ Cardinality(Unmeant(h[k].air)) <= a0 + Cardinality(Spoiled(o, k))
    BY <1>4, <2>2
  <2>4. h[m] = handleToRadio(h[k], got)
    <3>1. h[k + 1] = Step("session", h[k], w[k + 1])
      BY <1>1, <1>2, <2>2, NextRun
    <3> QED  BY <3>1 DEF Step
  <2>5. /\ GotOk(got)
        /\ got.of = 0 <=> ~IsWhole(x)
        /\ x = <<>> => got.ask.kind # "packet"
    BY <1>1, <2>2
  <2>6. Took(h[k], got, h[m])
    BY <2>3, <2>4, <2>5, SessionStep
  <2>7. SessionOk(h[m])
    BY <2>6 DEF Took
  <2> DEFINE A == Unmeant(h[k].air)
             B == Unmeant(h[m].air)
             p == Cardinality(Spoiled(o, k))
             q == Cardinality(Spoiled(o, m))
  <2>8. /\ p \in Nat /\ q \in Nat /\ p <= q
        /\ x # <<>> /\ ~IsWhole(x) => p + 1 <= q
    BY SpoiledGrows
  <2>9. IsFiniteSet(A) /\ Cardinality(A) \in Nat /\ IsFiniteSet(B) /\ Cardinality(B) \in Nat
        /\ h[k].air \in Seq(Airs)
    BY <1>a, <2>3, <2>7
  <2> HIDE DEF m, x, got, p, q, a0
  <2>10. Cardinality(B) <= a0 + q
    <3>1. CASE h[m].air = h[k].air
      <4>1. A = B
        BY <3>1
      <4> HIDE DEF A, B
      <4> QED  BY <1>b, <2>3, <2>8, <2>9, <4>1 DEF A, p
    <3>2. ASSUME NEW e \in Airs, h[m].air = Append(h[k].air, e), e.ask = got.of,
                 got.ask.kind = "packet"
          PROVE  Cardinality(B) <= a0 + q
      <4> DEFINE l == h[k].air
                 f == Append(l, e)
                 n == Len(l) + 1
      <4>1. /\ n \in Nat /\ DOMAIN l = 1..Len(l) /\ DOMAIN f = 1..n /\ f[n] = e
            /\ \A i \in 1..Len(l) : f[i] = l[i]
            /\ \A i \in 1..n : i = n \/ i \in 1..Len(l)
        BY <2>9
      <4> HIDE DEF f, n
      <4>2. B = {i \in DOMAIN f : f[i].ask = 0}
        BY <3>2 DEF Unmeant, f
      <4>3. B \subseteq A \cup {n}
        BY <4>1, <4>2 DEF Unmeant
      <4>4. n \in B => got.of = 0
        BY <3>2, <4>1, <4>2
      <4> HIDE DEF A, B
      <4>5. CASE got.of = 0
        <5>1. x # <<>> /\ ~IsWhole(x)
          BY <2>5, <3>2, <4>5
        <5>2. Cardinality(B) <= Cardinality(A) + 1
          BY <2>9, <4>3, OneMore
        <5> QED  BY <1>b, <2>3, <2>8, <2>9, <5>1, <5>2 DEF A, p
      <4>6. CASE got.of # 0
        <5>1. B \subseteq A
          BY <4>3, <4>4, <4>6
        <5>2. Cardinality(B) <= Cardinality(A)
          BY <2>9, <5>1, OneLess
        <5> QED  BY <1>b, <2>3, <2>8, <2>9, <5>2 DEF A, p
      <4> QED  BY <4>5, <4>6
    <3> QED  BY <2>6, <3>1, <3>2 DEF Took
  <2> QED  BY <2>7, <2>10 DEF q
<1>5. Nat \subseteq S
  <2> HIDE DEF S
  <2> QED  BY <1>3, <1>4, SetInduction
<1>6. Bound(N)
  BY <1>1, <1>5
<1> QED  BY <1>2, <1>6 DEF N

(* The invariant: as many packets the host did not mean as there are cuts  *)
(* in what the deframer is through with.                                   *)
CountInv ==
  Spent(Cardinality(Unmeant(lgAir)), <<>>, lgCut, lgPlace - Len(lgUp) - Held(lgDeframer))

LEMMA NoneSpoiled == Cardinality(Spoiled(<<>>, Len(<<>>))) = 0
<1>1. Spoiled(<<>>, Len(<<>>)) = {}
  BY DEF Spoiled
<1> QED  BY <1>1, FS_EmptySet

LEMMA CountStarts == LegacyInit => CountInv
<1> SUFFICES ASSUME LegacyInit PROVE CountInv
  OBVIOUS
<1>1. lgAir = <<>> /\ lgCut = {}
  BY DEF LegacyInit
<1> DEFINE q == lgPlace - Len(lgUp) - Held(lgDeframer)
<1>2. Unmeant(<<>>) = {} /\ CutBy({}, q) = {}
  BY DEF Unmeant, CutBy
<1> HIDE DEF q
<1>3. Spent(Cardinality(Unmeant(<<>>)), <<>>, {}, q)
  BY <1>2, NoneSpoiled, FS_EmptySet DEF Spent
<1> QED  BY <1>1, <1>3 DEF CountInv, q

LEMMA CountSays ==
  ASSUME LegacyInv, CountInv
  PROVE  Cardinality(Unmeant(lgAir)) <= Cardinality(lgCut)
<1> DEFINE q == lgPlace - Len(lgUp) - Held(lgDeframer)
           n == Cardinality(Unmeant(lgAir))
           C == CutBy(lgCut, q)
<1>1. n + 0 <= Cardinality(C)
  BY NoneSpoiled DEF CountInv, Spent
<1>2. C \subseteq lgCut
  BY DEF CutBy
<1>3. IsFiniteSet(lgCut) /\ lgAir \in Seq(Airs)
  BY DEF LegacyInv
<1>4. n \in Nat
  BY <1>3, UnmeantFinite
<1> HIDE DEF n, C
<1>5. Cardinality(C) \in Nat /\ Cardinality(lgCut) \in Nat /\ Cardinality(C) <= Cardinality(lgCut)
  BY <1>2, <1>3, OneLess
<1> QED  BY <1>1, <1>4, <1>5 DEF n

(* The state with other bytes on the line and more cuts is no worse.       *)
LEMMA CountNow ==
  ASSUME NEW a, NEW n0, n0 = Cardinality(Unmeant(a)), NEW cut, NEW cut2,
         cut \subseteq cut2, IsFiniteSet(cut2), NEW q, Spent(n0, <<>>, cut, q),
         n0 \in Nat
  PROVE  Spent(n0, <<>>, cut2, q)
<1> DEFINE C == CutBy(cut, q)
           D == CutBy(cut2, q)
<1>1. C \subseteq D /\ D \subseteq cut2
  BY DEF CutBy
<1> HIDE DEF C, D
<1>2. IsFiniteSet(D)
  BY <1>1, OneLess
<1>3. Cardinality(C) \in Nat /\ Cardinality(D) \in Nat /\ Cardinality(C) <= Cardinality(D)
  BY <1>1, <1>2, OneLess
<1>4. n0 + 0 <= Cardinality(C)
  BY NoneSpoiled DEF Spent, C
<1>5. n0 + 0 <= Cardinality(D)
  BY <1>3, <1>4
<1> QED  BY <1>5, NoneSpoiled DEF Spent, D

(* The first n bytes are read.                                             *)
LEMMA CountRead ==
  ASSUME LegacyInv, NEW T, NEW G, NEW P,
         Follows(T, G, P, lgUp, lgPlace, lgWrote, lgCut, lgDeframer, lgHandled), CountInv,
         NEW n \in 1..Len(lgUp), NEW taken, taken = SubSeq(lgUp, 1, n),
         NEW fed, fed = Over(Deframed, lgDeframer, taken), NEW w, GotsFor(w, fed.out),
         NEW rest, rest = [fed EXCEPT !.out = <<>>]
  PROVE  Spent(Cardinality(Unmeant(Over(handleToRadio, Session, w).air)), <<>>, lgCut,
               lgPlace - (Len(lgUp) - n) - Held(rest))
<1> DEFINE L == Len(T)
           N == Len(lgUp)
           R == P + n
           n0 == Cardinality(Unmeant(lgAir))
           after == Over(handleToRadio, Session, w)
           a == Cardinality(Unmeant(after.air))
           M == Cardinality(Spoiled(fed.out, Len(fed.out)))
           C == CutBy(lgCut, R - Held(fed))
<1>1. /\ Laid(T, G, lgWrote, lgCut)
      /\ P \in Nat /\ P <= L /\ lgPlace = L
      /\ N = L - P /\ \A j \in 1..N : lgUp[j] = T[P + j]
      /\ Tracks(lgDeframer, T, P)
  BY DEF Follows
<1>2. L \in Nat /\ N \in Nat /\ n \in Nat /\ 1 <= n /\ n <= N
  BY <1>1, LaidTypes DEF LegacyInv
<1>3. /\ lgUp \in Seq(Units) /\ LineOk(lgDeframer) /\ lgDeframer.out = <<>>
      /\ SessionOk(Session) /\ Session.air = lgAir /\ IsFiniteSet(lgCut)
      /\ lgAir \in Seq(Airs)
  BY DEF LegacyInv, SessionOk, Session
<1>4. Len(taken) = n /\ \A j \in 1..n : taken[j] = T[P + j]
  <2>1. taken \in Seq(Units) /\ Len(taken) = n /\ \A j \in 1..n : taken[j] = lgUp[j]
    BY <1>2, <1>3
  <2> QED  BY <1>1, <1>2, <2>1
<1>5. R \in Nat /\ R <= L /\ lgPlace - N = P /\ lgPlace - (N - n) = R
  BY <1>1, <1>2
<1>6. n0 \in Nat
  BY <1>3, UnmeantFinite
<1>7. Spends(lgDeframer, T, P, lgCut, n0)
  <2>1. Spent(n0, <<>>, lgCut, P - Held(lgDeframer))
    BY <1>5 DEF CountInv
  <2> QED  BY <1>1, <1>3, <2>1 DEF Spends
<1> HIDE DEF n0, R
<1>8. Spends(fed, T, R, lgCut, n0)
  <2>1. Len(taken) \in Nat /\ P + Len(taken) <= Len(T) /\ P + Len(taken) = R
    BY <1>2, <1>4, <1>5 DEF R
  <2>2. \A j \in 1..Len(taken) : taken[j] = T[P + j]
    BY <1>4
  <2>3. Spends(Over(Deframed, lgDeframer, taken), T, P + Len(taken), lgCut, n0)
    BY <1>1, <1>3, <1>6, <1>7, <2>1, <2>2, LineSpends
  <2> QED  BY <2>1, <2>3
<1>9. LineOk(fed) /\ n0 + M <= Cardinality(C)
  BY <1>8 DEF Spends, Spent
<1>10. Len(fed.out) \in Nat
  BY <1>9 DEF LineOk
<1>11. M \in Nat
  BY <1>10, SpoiledFinite
<1>12. a <= n0 + M
  BY <1>3, <1>10, SessionSpoils DEF n0
<1>13. SessionOk(after)
  <2>1. Len(w) \in Nat /\ \A k \in 1..Len(w) : GotOk(w[k])
    BY DEF GotsFor
  <2> QED  BY <1>3, <2>1, SessionRuns
<1>14. a \in Nat
  <2>1. after.air \in Seq(Airs)
    BY <1>13 DEF SessionOk
  <2> HIDE DEF after
  <2> QED  BY <2>1, UnmeantFinite
<1>15. Cardinality(C) \in Nat
  <2>1. C \subseteq lgCut
    BY DEF CutBy
  <2> HIDE DEF C
  <2> QED  BY <1>3, <2>1, OneLess
<1>16. Held(rest) = Held(fed)
  <2>1. rest.state = fed.state /\ rest.buf = fed.buf
    BY <1>9 DEF LineOk
  <2> QED  BY <2>1 DEF Held
<1> HIDE DEF a, M, C, after
<1>17. a + 0 <= Cardinality(C)
  BY <1>6, <1>9, <1>11, <1>12, <1>14, <1>15
<1>18. Spent(a, <<>>, lgCut, R - Held(rest))
  BY <1>16, <1>17, NoneSpoiled DEF Spent, C
<1> QED  BY <1>5, <1>18 DEF a, after, N

LEMMA CountStep == LegacyInv /\ ResyncInv /\ CountInv /\ [LegacyNext]_lgVars => CountInv'
<1> SUFFICES ASSUME LegacyInv, ResyncInv, CountInv, [LegacyNext]_lgVars PROVE CountInv'
  OBVIOUS
<1> DEFINE n0 == Cardinality(Unmeant(lgAir))
           q == lgPlace - Len(lgUp) - Held(lgDeframer)
<1>1. /\ lgUp \in Seq(Units) /\ Len(lgUp) \in Nat /\ lgPlace \in Nat /\ IsFiniteSet(lgCut)
      /\ SessionOk(Session) /\ Session.air = lgAir /\ n0 \in Nat
      /\ LineOk(lgDeframer)
  BY UnmeantFinite DEF LegacyInv, SessionOk, Session
<1>2. Spent(n0, <<>>, lgCut, q)
  BY DEF CountInv
<1>3. ASSUME UNCHANGED <<lgUp, lgPlace, lgCut, lgDeframer, lgAir>> PROVE CountInv'
  BY <1>2, <1>3 DEF CountInv
<1>4. ASSUME NEW b \in Seq(Units), Puts(b), lgCut \subseteq lgCut', IsFiniteSet(lgCut'),
             UNCHANGED <<lgDeframer, lgAir>>
      PROVE  CountInv'
  <2>1. PICK up, place, cut2 : up = lgUp' /\ place = lgPlace' /\ cut2 = lgCut'
    BY Zenon
  <2>2. up = lgUp \o b /\ place = lgPlace + Len(b)
    BY <1>4, <2>1 DEF Puts
  <2>3. Len(up) = Len(lgUp) + Len(b) /\ Len(b) \in Nat
    BY <1>1, <2>2, JoinedUnits
  <2>4. place - Len(up) = lgPlace - Len(lgUp)
    BY <1>1, <2>2, <2>3
  <2>5. lgCut \subseteq cut2 /\ IsFiniteSet(cut2)
    BY <1>4, <2>1
  <2> HIDE DEF q
  <2>6. Spent(n0, <<>>, cut2, q)
    BY <1>1, <1>2, <2>5, CountNow
  <2>7. Spent(n0, <<>>, cut2, place - Len(up) - Held(lgDeframer))
    BY <2>4, <2>6 DEF q
  <2> QED  BY <1>4, <2>1, <2>7 DEF CountInv
<1>5. CASE HostWrites
  <2>1. Len(lgWrote) + 1 \in DOMAIN Asked
    BY <1>5, AskedAssumption DEF HostWrites, LegacyInv
  <2>2. frame(Pieces(Len(lgWrote) + 1)) \in Seq(Units)
    BY <2>1, FrameIsBytes
  <2>3. /\ Puts(frame(Pieces(Len(lgWrote) + 1))) /\ lgCut' = lgCut
        /\ UNCHANGED <<lgDeframer, lgAir>>
    BY <1>5 DEF HostWrites, hostVars
  <2> QED  BY <1>1, <1>4, <2>2, <2>3
<1>6. CASE HostCut
  <2> DEFINE whole == frame(Pieces(Len(lgWrote) + 1))
  <2>1. Len(lgWrote) + 1 \in DOMAIN Asked
    BY <1>6, AskedAssumption DEF HostCut, LegacyInv
  <2>2. whole \in Seq(Units)
    BY <2>1, FrameIsBytes
  <2>3. PICK k \in 1..(Len(whole) - 1) : Puts(SubSeq(whole, 1, k))
    BY <1>6 DEF HostCut
  <2> HIDE DEF whole
  <2>4. SubSeq(whole, 1, k) \in Seq(Units)
    BY <2>2, <2>3
  <2>5. lgCut' = lgCut \cup {lgPlace'} /\ UNCHANGED <<lgDeframer, lgAir>>
    BY <1>6 DEF HostCut, hostVars
  <2>6. lgCut \subseteq lgCut' /\ IsFiniteSet(lgCut')
    BY <1>1, <2>5, FS_AddElement
  <2> QED  BY <1>4, <2>3, <2>4, <2>5, <2>6
<1>7. CASE HostNoise
  <2>1. PICK v \in {START1, 0} : Puts(<<Byte(v)>>)
    BY <1>7 DEF HostNoise
  <2>2. v \in Nat
    BY <2>1, LegacyAssumption
  <2>3. Byte(v) \in Units
    BY <2>2 DEF Byte, Units
  <2>4. <<Byte(v)>> \in Seq(Units)
    BY <2>3
  <2>5. lgCut' = lgCut /\ UNCHANGED <<lgDeframer, lgAir>>
    BY <1>7 DEF HostNoise, hostVars
  <2> QED  BY <1>1, <1>4, <2>1, <2>4, <2>5
<1>8. CASE ReadPty
  <2>1. PICK n \in 1..Len(lgUp) : lgUp' = SubSeq(lgUp, n + 1, Len(lgUp))
    BY <1>8 DEF ReadPty, TakesBytes
  <2>2. PICK T, G, P : Follows(T, G, P, lgUp, lgPlace, lgWrote, lgCut, lgDeframer, lgHandled)
    BY DEF ResyncInv
  <2>s. SubSeq(lgUp, 1, n) \in Seq(Units)
    BY <1>1
  <2> DEFINE up == SubSeq(lgUp, n + 1, Len(lgUp))
             k == Len(lgUp) - Len(up)
             taken == SubSeq(lgUp, 1, k)
             fed == Over(Deframed, lgDeframer, taken)
             rest == [fed EXCEPT !.out = <<>>]
  <2>3. lgUp' = up
    BY <2>1
  <2>4. PICK luck \in [{j \in DOMAIN fed.out : Mixed(fed.out[j])} -> Chimeras \cup {Nothing}] :
          /\ lgDeframer' = rest /\ Becomes(Over(handleToRadio, Session, Gots(fed.out, luck)))
          /\ lgPlace' = lgPlace /\ lgCut' = lgCut
    BY <1>8, <2>3 DEF ReadPty, Gots
  <2> DEFINE w == Gots(fed.out, luck)
             air == Over(handleToRadio, Session, w).air
  <2>a. lgAir' = air
    BY <2>4 DEF Becomes
  <2>5. k = n /\ Len(up) = Len(lgUp) - n
    BY <1>1
  <2> HIDE DEF k
  <2>6. taken = SubSeq(lgUp, 1, n)
    BY <2>5
  <2> HIDE DEF taken
  <2>t. taken \in Seq(Units)
    BY <2>s, <2>6
  <2>7. LineOk(fed)
    BY <1>1, <2>t, LineRuns
  <2> HIDE DEF fed
  <2>8. fed = Over(Deframed, lgDeframer, taken)
    BY DEF fed
  <2>9. GotsFor(w, fed.out)
    BY <2>4, <2>7, GotsOk DEF LineOk
  <2> HIDE DEF w, rest
  <2>10. rest = [fed EXCEPT !.out = <<>>]
    BY DEF rest
  <2>11. Spent(Cardinality(Unmeant(air)), <<>>, lgCut, lgPlace - (Len(lgUp) - n) - Held(rest))
    BY <2>2, <2>6, <2>8, <2>9, <2>10, CountRead
  <2> HIDE DEF air, up
  <2>12. Spent(Cardinality(Unmeant(air)), <<>>, lgCut, lgPlace - Len(up) - Held(rest))
    BY <2>5, <2>11
  <2> QED  BY <2>3, <2>4, <2>a, <2>12 DEF CountInv
<1>9. CASE AirHeard
  <2> DEFINE s == handleAirFrame(Session, Aired[lgHeard + 1])
  <2>1. /\ lgAir' = s.air
        /\ UNCHANGED <<lgUp, lgDeframer, lgPlace, lgCut>>
    BY <1>9 DEF AirHeard, Becomes
  <2>2. s.air = Session.air
    BY <1>1, FromKeeps DEF handleAirFrame, Same
  <2> HIDE DEF s
  <2> QED  BY <1>1, <1>3, <2>1, <2>2
<1>10. CASE HostReads
  BY <1>3, <1>10 DEF HostReads
<1>11. CASE FlushLegacyFromRadio
  BY <1>3, <1>11 DEF FlushLegacyFromRadio, othersVars
<1>12. CASE FlushFails
  BY <1>3, <1>12 DEF FlushFails, othersVars
<1>13. CASE UNCHANGED lgVars
  BY <1>3, <1>13 DEF lgVars
<1> QED  BY <1>5, <1>6, <1>7, <1>8, <1>9, <1>10, <1>11, <1>12, <1>13 DEF LegacyNext

(* LineResyncs holds in every behaviour of the session, for every list of  *)
(* messages, every number of writes cut short and stray bytes between the  *)
(* frames, and every way read() cuts the bytes: phy::stream finds its way  *)
(* back to the frames of the host.                                         *)
THEOREM LineAlwaysResyncs == LegacySpec => []LineResyncs
<1>1. LegacySpec => [](LegacyInv /\ ResyncInv)
  BY LegacyStarts, LegacyStep, ResyncStarts, ResyncStep, PTL DEF LegacySpec
<1> QED  BY <1>1, ResyncSays, PTL

(* HeardAsSent holds in every behaviour of the session, for every message  *)
(* of the host and every number of writes cut short, whatever node relays  *)
(* a frame and whatever a payload mixed of several parses as: encoding,    *)
(* encryption and relays leave the packet the session read as it was, and  *)
(* a packet the host did not mean takes a write cut short of its own.      *)
THEOREM PacketsHeardAsSent == LegacySpec => []HeardAsSent
<1>1. LegacySpec => [](LegacyInv /\ ResyncInv /\ CountInv)
  BY LegacyStarts, LegacyStep, ResyncStarts, ResyncStep, CountStarts, CountStep, PTL
     DEF LegacySpec
<1>2. LegacyInv /\ CountInv => HeardAsSent
  <2>1. SUFFICES ASSUME LegacyInv, CountInv PROVE HeardAsSent
    OBVIOUS
  <2>2. \A i \in DOMAIN lgAir : HeardBack(lgAir[i])
    BY <2>1, InvHeard
  <2>3. Cardinality(Unmeant(lgAir)) <= Cardinality(lgCut)
    BY <2>1, CountSays
  <2> QED  BY Zenon, <2>2, <2>3 DEF HeardAsSent, HeardBack, Unmeant
<1> QED  BY <1>1, <1>2, PTL
=============================================================================
