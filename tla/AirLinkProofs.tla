--------------------------- MODULE AirLinkProofs ---------------------------
(***************************************************************************)
(* The Air-IPC link: for any messages, any capacity of the socket, any     *)
(* size of a read and any number of connections, what either end acts on   *)
(* is what the other has begun to send, in order and without a gap, up to  *)
(* a frame that writeFrame gave up.                                        *)
(*                                                                         *)
(* The proof follows the bytes.  While no frame of a connection was cut,   *)
(* the bytes still to be read are those of the messages begun, from a      *)
(* certain byte of a certain message on (Plan), the Deframer is in the     *)
(* state which the bytes of that message before it lead to (InFrame), and  *)
(* the messages before it are what was acted on (Tracks).                  *)
(***************************************************************************)
EXTENDS AirLink, SequenceTheorems, FiniteSetTheorems, TLAPS

Good == {m \in Messages : Len(m.body) \in 1..kMaxBodyLen}

LEMMA Constants ==
  /\ kMagic0 \in Byte /\ kMagic1 \in Byte /\ kMagic0 # kMagic1
  /\ kMaxBodyLen \in Nat /\ kMaxBodyLen >= 1 /\ kMaxBodyLen <= 65535
  /\ MaxConns \in Nat /\ Capacity \in Nat \ {0} /\ ReadLen \in Nat \ {0}
<1>1. /\ kRxMetaLen \in Nat /\ kMaxAirLen \in Nat /\ kRxMetaLen + kMaxAirLen <= 65535
      /\ kRxMetaLen >= 1
  BY AirIpcAssumption
<1>2. kMagic0 \in Byte /\ kMagic1 \in Byte /\ kMagic0 # kMagic1
  BY AirIpcAssumption DEF Byte
<1>3. MaxConns \in Nat /\ Capacity \in Nat \ {0} /\ ReadLen \in Nat \ {0}
  BY AirLinkAssumption
<1> QED
  BY <1>1, <1>2, <1>3 DEF kMaxBodyLen

(* What decodes fits a frame. *)
LEMMA MessagesGood == Uplink \subseteq Good /\ Downlink \subseteq Good
<1>1. ASSUME NEW m \in Messages, Decodes(m) PROVE m \in Good
  <2> DEFINE n == Len(m.body)
  <2>1. n \in Nat
    BY DEF Messages
  <2>2. /\ kTxMetaLen \in Nat \ {0} /\ kRxMetaLen \in Nat /\ kTxMetaLen <= kRxMetaLen
        /\ kMinAirLen \in Nat /\ kMaxAirLen \in Nat
    BY AirIpcAssumption
  <2>3. \/ n - kTxMetaLen \in kMinAirLen..kMaxAirLen
        \/ n - kRxMetaLen \in kMinAirLen..kMaxAirLen
        \/ n = 1
    BY <1>1 DEF Decodes, AirLengthIsValid
  <2> HIDE DEF n
  <2>4. n \in 1..(kRxMetaLen + kMaxAirLen)
    BY <2>1, <2>2, <2>3
  <2> QED
    BY <2>4 DEF Good, kMaxBodyLen, n
<1> QED
  BY <1>1, AirLinkAssumption

(* Bytes in a row, and what a read cuts off. *)
LEMMA Joined ==
  ASSUME NEW a \in Seq(Byte), NEW b \in Seq(Byte)
  PROVE  /\ a \o b \in Seq(Byte) /\ Len(a \o b) = Len(a) + Len(b)
         /\ Len(a) \in Nat /\ Len(b) \in Nat
         /\ \A j \in 1..Len(a) : (a \o b)[j] = a[j]
         /\ \A j \in 1..Len(b) : (a \o b)[Len(a) + j] = b[j]
BY ConcatProperties, SMTT(30)

LEMMA Associates ==
  \A a, b, c \in Seq(Byte) : (a \o b) \o c = a \o (b \o c)
<1>1. ASSUME NEW a \in Seq(Byte), NEW b \in Seq(Byte), NEW c \in Seq(Byte)
      PROVE  (a \o b) \o c = a \o (b \o c)
  BY ConcatAssociative, SMTT(30), ZenonT(30)
<1> QED
  BY <1>1

LEMMA Cut ==
  ASSUME NEW S, NEW s \in Seq(S), NEW k \in 0..Len(s)
  PROVE  /\ SubSeq(s, 1, k) \in Seq(S) /\ Len(SubSeq(s, 1, k)) = k
         /\ \A i \in 1..k : SubSeq(s, 1, k)[i] = s[i]
         /\ SubSeq(s, k + 1, Len(s)) \in Seq(S)
         /\ Len(SubSeq(s, k + 1, Len(s))) = Len(s) - k
         /\ \A i \in 1..(Len(s) - k) : SubSeq(s, k + 1, Len(s))[i] = s[k + i]
<1> DEFINE n == Len(s)
<1>1. n \in Nat /\ k \in Nat /\ k <= n /\ \A i \in 1..n : s[i] \in S
  OBVIOUS
<1> HIDE DEF n
<1>2. /\ SubSeq(s, 1, k) \in Seq(S) /\ Len(SubSeq(s, 1, k)) = k
      /\ \A i \in 1..k : SubSeq(s, 1, k)[i] = s[i]
  <2>1. \A i \in 1..k : s[i] \in S
    BY <1>1
  <2>2. /\ SubSeq(s, 1, k) \in Seq(S)
        /\ Len(SubSeq(s, 1, k)) = IF 1 <= k THEN k - 1 + 1 ELSE 0
        /\ \A i \in 1..(k - 1 + 1) : SubSeq(s, 1, k)[i] = s[1 + i - 1]
    BY <1>1, <2>1, SubSeqProperties
  <2>3. k - 1 + 1 = k /\ \A i \in 1..k : 1 + i - 1 = i
    BY <1>1
  <2> QED
    BY <1>1, <2>2, <2>3
<1>3. /\ SubSeq(s, k + 1, n) \in Seq(S)
      /\ Len(SubSeq(s, k + 1, n)) = n - k
      /\ \A i \in 1..(n - k) : SubSeq(s, k + 1, n)[i] = s[k + i]
  <2> DEFINE m == k + 1
  <2>1. m \in Nat /\ \A i \in m..n : s[i] \in S
    BY <1>1
  <2>2. /\ SubSeq(s, m, n) \in Seq(S)
        /\ Len(SubSeq(s, m, n)) = IF m <= n THEN n - m + 1 ELSE 0
        /\ \A i \in 1..(n - m + 1) : SubSeq(s, m, n)[i] = s[m + i - 1]
    <3> HIDE DEF m
    <3> QED
      BY <1>1, <2>1, SubSeqProperties
  <2>3. n - m + 1 = n - k /\ \A i \in Int : m + i - 1 = k + i
    BY <1>1
  <2>4. (IF m <= n THEN n - m + 1 ELSE 0) = n - k
    BY <1>1
  <2>5. ASSUME NEW i \in 1..(n - k) PROVE SubSeq(s, m, n)[i] = s[k + i]
    BY <2>2, <2>3
  <2> QED
    BY <2>2, <2>4, <2>5
<1> QED
  BY <1>2, <1>3 DEF n

(* The bytes of a frame. *)
Size(m) == 6 + Len(m.body)

LEMMA Encoded ==
  ASSUME NEW m \in Good
  PROVE  /\ EncodeFrame(m) \in Seq(Byte) /\ Len(EncodeFrame(m)) = Size(m)
         /\ Len(m.body) \in Nat /\ Len(m.body) \in 1..kMaxBodyLen
         /\ Size(m) \in Nat /\ Size(m) >= 7
         /\ EncodeFrame(m)[1] = kMagic0 /\ EncodeFrame(m)[2] = kMagic1
         /\ EncodeFrame(m)[3] = 1 /\ EncodeFrame(m)[4] = m.type
         /\ EncodeFrame(m)[5] = Len(m.body) \div 256
         /\ EncodeFrame(m)[6] = Len(m.body) % 256
         /\ \A j \in 1..Len(m.body) : EncodeFrame(m)[6 + j] = m.body[j]
<1> DEFINE n == Len(m.body)
           a == <<kMagic0, kMagic1, kProtocolVersion, m.type, n \div 256, n % 256>>
           b == m.body
<1>1. /\ b \in Seq(Byte) /\ n \in 1..kMaxBodyLen /\ n \in Nat
      /\ m.type \in {1, 2, 3}
  BY Constants DEF Good, Messages, Byte, kTxEnqueue, kRxIndicate, kSetModem
<1>2. EncodeFrame(m) = a \o b
  BY DEF EncodeFrame
<1>3. n \div 256 \in Byte /\ n % 256 \in Byte
  <2>1. n \in Nat /\ n <= 65535
    BY <1>1, Constants
  <2> HIDE DEF n
  <2> QED
    BY <2>1 DEF Byte
<1>4. /\ a \in Seq(Byte) /\ Len(a) = 6
      /\ a[1] = kMagic0 /\ a[2] = kMagic1 /\ a[3] = 1 /\ a[4] = m.type
      /\ a[5] = n \div 256 /\ a[6] = n % 256
  <2> DEFINE hi == n \div 256
             lo == n % 256
  <2> HIDE DEF hi, lo, n
  <2>1. a = <<kMagic0, kMagic1, kProtocolVersion, m.type, hi, lo>>
    BY DEF hi, lo
  <2>2. /\ kMagic0 \in Byte /\ kMagic1 \in Byte /\ kProtocolVersion \in Byte
        /\ m.type \in Byte /\ hi \in Byte /\ lo \in Byte
    BY <1>1, <1>3, Constants DEF hi, lo, kProtocolVersion, Byte
  <2> QED
    BY <2>1, <2>2 DEF hi, lo, kProtocolVersion
<1> HIDE DEF a
<1>5. /\ a \o b \in Seq(Byte) /\ Len(a \o b) = 6 + n
      /\ \A j \in 1..6 : (a \o b)[j] = a[j]
      /\ \A j \in 1..n : (a \o b)[6 + j] = b[j]
  <2>1. a \in Seq(Byte) /\ b \in Seq(Byte) /\ Len(a) = 6 /\ Len(b) = n
    BY <1>1, <1>4
  <2> HIDE DEF b, n
  <2>2. /\ a \o b \in Seq(Byte) /\ Len(a \o b) = Len(a) + Len(b)
        /\ \A j \in 1..Len(a) : (a \o b)[j] = a[j]
        /\ \A j \in 1..Len(b) : (a \o b)[Len(a) + j] = b[j]
    BY <2>1, Joined
  <2> QED
    BY <2>1, <2>2
<1> DEFINE e == a \o b
<1>6. e[1] = a[1] /\ e[2] = a[2] /\ e[3] = a[3] /\ e[4] = a[4] /\ e[5] = a[5] /\ e[6] = a[6]
  <2> HIDE DEF e
  <2>1. \A j \in 1..6 : e[j] = a[j]
    BY <1>5 DEF e
  <2> QED
    BY <2>1
<1>7. n >= 1
  BY <1>1
<1> HIDE DEF e, n
<1>8. Size(m) = 6 + n /\ Size(m) \in Nat /\ Size(m) >= 7
  BY <1>1, <1>7 DEF Size, n
<1>9. EncodeFrame(m) = e
  BY <1>2 DEF e
<1> QED
  BY <1>1, <1>4, <1>5, <1>6, <1>8, <1>9, SMTT(30), ZenonT(30) DEF e, n

(* What After computes, step by step. *)
LEMMA SetInduction ==
  ASSUME NEW S, 0 \in S, \A n \in Nat : n \in S => n + 1 \in S
  PROVE  Nat \subseteq S
<1>1. SUFFICES ASSUME NEW n \in Nat, n \notin S PROVE FALSE
  OBVIOUS
<1> DEFINE T == S \cap (0..n)
           f == [x \in T |-> x + 1]
<1>2. IsFiniteSet(T)
  <2>1. IsFiniteSet(0..n)
    BY FS_Interval
  <2> QED
    BY <2>1, FS_Subset
<1>3. f \in [T -> T]
  <2>1. ASSUME NEW x \in T PROVE x + 1 \in T
    <3>1. x \in Nat /\ x <= n /\ x \in S /\ x # n
      BY <1>1
    <3>2. x + 1 \in 0..n
      BY <3>1
    <3> QED
      BY <3>1, <3>2
  <2> QED
    BY <2>1
<1>4. \A x, y \in T : f[x] = f[y] => x = y
  <2>1. T \subseteq Int
    OBVIOUS
  <2> QED
    BY <2>1
<1>5. f \in Injection(T, T)
  BY <1>3, <1>4 DEF Injection, IsInjective
<1>6. f \in Surjection(T, T)
  BY <1>2, <1>5, FS_Injection
<1>7. 0 \in T
  OBVIOUS
<1>8. PICK x \in T : f[x] = 0
  BY <1>6, <1>7 DEF Surjection
<1> QED
  BY <1>8

(* h goes from x over the first m elements of s. *)
Goes(h, take, x, s, m) ==
  /\ h = [i \in 0..m |-> h[i]]
  /\ h[0] = x
  /\ \A i \in 1..m : h[i] = take[h[i - 1]][s[i]]

LEMMA GoesOn ==
  ASSUME NEW take, NEW x, NEW s, NEW N \in Nat
  PROVE  \E h : Goes(h, take, x, s, N)
<1> DEFINE S == {m \in Nat : \E h : Goes(h, take, x, s, m)}
<1>1. 0 \in S
  <2>1. Goes([i \in 0..0 |-> x], take, x, s, 0)
    BY DEF Goes
  <2> QED
    BY <2>1
<1>2. ASSUME NEW m \in Nat, m \in S PROVE m + 1 \in S
  <2>1. PICK g : Goes(g, take, x, s, m)
    BY <1>2
  <2> DEFINE next == take[g[m]][s[m + 1]]
             h == [i \in 0..(m + 1) |-> IF i = m + 1 THEN next ELSE g[i]]
  <2>2. h[m + 1] = next /\ \A i \in 0..m : h[i] = g[i]
    OBVIOUS
  <2>3. h = [i \in 0..(m + 1) |-> h[i]]
    OBVIOUS
  <2> HIDE DEF h
  <2>4. h[0] = x
    BY <2>1, <2>2 DEF Goes
  <2>5. ASSUME NEW i \in 1..(m + 1) PROVE h[i] = take[h[i - 1]][s[i]]
    <3>1. CASE i = m + 1
      <4>1. i - 1 = m /\ m \in 0..m
        BY <3>1
      <4> QED
        BY <2>2, <3>1, <4>1
    <3>2. CASE i \in 1..m
      <4>1. i \in 0..m /\ i - 1 \in 0..m
        BY <3>2
      <4>2. g[i] = take[g[i - 1]][s[i]]
        BY <2>1, <3>2 DEF Goes
      <4> QED
        BY <2>2, <4>1, <4>2
    <3> QED
      BY <3>1, <3>2
  <2>6. Goes(h, take, x, s, m + 1)
    BY <2>3, <2>4, <2>5 DEF Goes
  <2> QED
    BY <2>6
<1>3. Nat \subseteq S
  <2> HIDE DEF S
  <2> QED
    BY <1>1, <1>2, SetInduction
<1> QED
  BY <1>3

LEMMA AfterGoes ==
  ASSUME NEW take, NEW x, NEW s, Len(s) \in Nat
  PROVE  \E h : Goes(h, take, x, s, Len(s)) /\ After(take, x, s) = h[Len(s)]
<1> DEFINE N == Len(s)
           Def(y) == [i \in 0..N |-> IF i = 0 THEN x ELSE take[y[i - 1]][s[i]]]
           y0 == CHOOSE y : y = Def(y)
<1>1. After(take, x, s) = y0[N]
  BY DEF After
<1>2. PICK g : Goes(g, take, x, s, N)
  BY GoesOn
<1> HIDE DEF N
<1>3. g = Def(g)
  <2>1. ASSUME NEW i \in 0..N PROVE g[i] = Def(g)[i]
    <3>1. CASE i = 0
      BY <3>1, <1>2 DEF Goes
    <3>2. CASE i \in 1..N
      BY <3>2, <1>2 DEF Goes
    <3> QED
      BY <3>1, <3>2
  <2>2. g = [i \in 0..N |-> g[i]]
    BY <1>2 DEF Goes
  <2> QED
    BY <2>1, <2>2
<1>4. y0 = Def(y0)
  <2> HIDE DEF Def
  <2> QED
    BY <1>3
<1> HIDE DEF y0
<1>5. Goes(y0, take, x, s, N)
  <2>0. N \in Nat
    BY DEF N
  <2>1. y0[0] = x /\ y0 = [i \in 0..N |-> y0[i]]
    BY <1>4, <2>0
  <2>2. ASSUME NEW i \in 1..N PROVE y0[i] = take[y0[i - 1]][s[i]]
    BY <1>4, <2>0
  <2> QED
    BY <2>1, <2>2 DEF Goes
<1> QED
  BY <1>1, <1>5 DEF N

DeframerStates == {"scan", "magic1", "version", "type", "len_hi", "len_lo", "body"}

LEMMA SetOne ==
  ASSUME NEW d \in Deframers
  PROVE  /\ \A s \in DeframerStates : [d EXCEPT !.state = s] \in Deframers
         /\ \A s \in {1, 2, 3} : [d EXCEPT !.type = s] \in Deframers
         /\ \A s \in Word : [d EXCEPT !.length = s] \in Deframers
         /\ \A s \in Seq(Byte) : [d EXCEPT !.body = s] \in Deframers
         /\ \A s \in Seq(Messages) : [d EXCEPT !.frames = s] \in Deframers
<1> DEFINE T == {1, 2, 3}
<1>1. Deframers = [state : DeframerStates, type : T, length : Word, body : Seq(Byte),
                   frames : Seq(Messages)]
  BY DEF Deframers, DeframerStates, kTxEnqueue, kRxIndicate, kSetModem
<1> HIDE DEF T
<1>2. \A s \in DeframerStates : [d EXCEPT !.state = s] \in Deframers
  BY <1>1
<1>3. \A s \in T : [d EXCEPT !.type = s] \in Deframers
  BY <1>1
<1>4. \A s \in Word : [d EXCEPT !.length = s] \in Deframers
  BY <1>1
<1>5. \A s \in Seq(Byte) : [d EXCEPT !.body = s] \in Deframers
  BY <1>1
<1>6. \A s \in Seq(Messages) : [d EXCEPT !.frames = s] \in Deframers
  BY <1>1
<1> QED
  BY <1>2, <1>3, <1>4, <1>5, <1>6 DEF T

(* The deframer has read the bytes of frame m before its j-th.             *)
InFrame(d, m, j) ==
  /\ d \in Deframers
  /\ j = 1 => d.state = "scan"
  /\ j = 2 => d.state = "magic1"
  /\ j = 3 => d.state = "version"
  /\ j = 4 => d.state = "type"
  /\ j = 5 => d.state = "len_hi"
  /\ j = 6 => d.state = "len_lo" /\ d.length = 256 * (Len(m.body) \div 256)
  /\ j \in {5, 6} => d.type = m.type
  /\ j > 6 => /\ d.state = "body" /\ d.type = m.type
              /\ d.length = Len(m.body) /\ Len(d.body) = j - 7
              /\ \A i \in 1..(j - 7) : d.body[i] = m.body[i]

LEMMA Feeds ==
  ASSUME NEW d \in Deframers, NEW byte \in Byte
  PROVE  Feeding[d][byte] = FeedByte(d, byte)
BY DEF Feeding

LEMMA FirstBytes ==
  ASSUME NEW m \in Good, NEW j \in 1..3, NEW d, InFrame(d, m, j)
  PROVE  /\ InFrame(Feeding[d][EncodeFrame(m)[j]], m, j + 1)
         /\ Feeding[d][EncodeFrame(m)[j]].frames = d.frames
<1> DEFINE e == Feeding[d][EncodeFrame(m)[j]]
<1>1. d \in Deframers
  BY DEF InFrame
<1>2. /\ EncodeFrame(m)[1] = kMagic0 /\ EncodeFrame(m)[2] = kMagic1
      /\ EncodeFrame(m)[3] = 1
  BY Encoded, SMTT(30), ZenonT(30)
<1>3. kMagic0 \in Byte /\ kMagic1 \in Byte /\ kMagic0 # kMagic1 /\ 1 \in Byte
  BY Constants DEF Byte
<1>4. /\ [d EXCEPT !.state = "magic1"] \in Deframers
      /\ [d EXCEPT !.state = "version"] \in Deframers
      /\ [d EXCEPT !.state = "type"] \in Deframers
  BY <1>1, SetOne DEF DeframerStates
<1>5. CASE j = 1
  <2>1. e = FeedByte(d, kMagic0) /\ d.state = "scan"
    BY <1>1, <1>2, <1>3, <1>5, Feeds DEF InFrame
  <2>2. e = [d EXCEPT !.state = "magic1"]
    BY <2>1 DEF FeedByte
  <2> HIDE DEF e
  <2>3. e.state = "magic1" /\ e.frames = d.frames
    BY <1>1, <2>2 DEF Deframers
  <2> QED
    BY <1>4, <1>5, <2>2, <2>3 DEF InFrame, e
<1>6. CASE j = 2
  <2>1. e = FeedByte(d, kMagic1) /\ d.state = "magic1"
    BY <1>1, <1>2, <1>3, <1>6, Feeds DEF InFrame
  <2>2. e = [d EXCEPT !.state = "version"]
    BY <1>3, <2>1 DEF FeedByte
  <2> HIDE DEF e
  <2>3. e.state = "version" /\ e.frames = d.frames
    BY <1>1, <2>2 DEF Deframers
  <2> QED
    BY <1>4, <1>6, <2>2, <2>3 DEF InFrame, e
<1>7. CASE j = 3
  <2>1. e = FeedByte(d, 1) /\ d.state = "version"
    BY <1>1, <1>2, <1>3, <1>7, Feeds DEF InFrame
  <2>2. e = [d EXCEPT !.state = "type"]
    BY <1>3, <2>1 DEF FeedByte, kProtocolVersion
  <2> HIDE DEF e
  <2>3. e.state = "type" /\ e.frames = d.frames
    BY <1>1, <2>2 DEF Deframers
  <2> QED
    BY <1>4, <1>7, <2>2, <2>3 DEF InFrame, e
<1> QED
  BY <1>5, <1>6, <1>7

LEMMA LastOfHeader ==
  ASSUME NEW m \in Good, NEW j \in 4..6, NEW d, InFrame(d, m, j)
  PROVE  /\ InFrame(Feeding[d][EncodeFrame(m)[j]], m, j + 1)
         /\ Feeding[d][EncodeFrame(m)[j]].frames = d.frames
<1> DEFINE e == Feeding[d][EncodeFrame(m)[j]]
           n == Len(m.body)
           hi == n \div 256
           lo == n % 256
<1>1. d \in Deframers
  BY DEF InFrame
<1>2. /\ EncodeFrame(m)[4] = m.type /\ EncodeFrame(m)[5] = hi
      /\ EncodeFrame(m)[6] = lo /\ n \in 1..kMaxBodyLen
  BY Encoded, SMTT(30), ZenonT(30)
<1>3. m.type \in {1, 2, 3}
  BY DEF Good, Messages, kTxEnqueue, kRxIndicate, kSetModem
<1>4. m.type \in Byte /\ hi \in Byte /\ lo \in Byte /\ n = 256 * hi + lo /\ n \in Nat
      /\ n \in Word /\ 256 * hi \in Word
  <2>1. n \in Nat /\ n <= 65535
    BY <1>2, Constants
  <2>2. 2^16 = 65536
    OBVIOUS
  <2>3. m.type \in Byte
    BY <1>3 DEF Byte
  <2> HIDE DEF n
  <2>4. hi \in Nat /\ hi <= 255 /\ lo \in Nat /\ lo <= 255 /\ n = 256 * hi + lo
    BY <2>1
  <2> QED
    BY <2>1, <2>2, <2>3, <2>4 DEF Byte, Word
<1> HIDE DEF n, hi, lo
<1>5. CASE j = 4
  <2>1. e = FeedByte(d, m.type) /\ d.state = "type"
    BY <1>1, <1>2, <1>4, <1>5, Feeds DEF InFrame
  <2> DEFINE x == [d EXCEPT !.state = "len_hi"]
  <2>2. e = [x EXCEPT !.type = m.type]
    BY <1>3, <2>1 DEF FeedByte, MessageTypeKnown, kTxEnqueue, kRxIndicate, kSetModem
  <2>3. x \in Deframers
    BY <1>1, SetOne DEF DeframerStates
  <2>4. x.state = "len_hi" /\ x.frames = d.frames
    BY <1>1 DEF Deframers
  <2> HIDE DEF x, e
  <2>5. e \in Deframers
    BY <1>3, <2>2, <2>3, SetOne
  <2>6. e.state = "len_hi" /\ e.frames = d.frames /\ e.type = m.type
    BY <2>2, <2>3, <2>4 DEF Deframers
  <2> QED
    BY <1>5, <2>5, <2>6 DEF InFrame, e
<1>6. CASE j = 5
  <2>1. e = FeedByte(d, hi) /\ d.state = "len_hi" /\ d.type = m.type
    BY <1>1, <1>2, <1>4, <1>6, Feeds DEF InFrame
  <2> DEFINE x == [d EXCEPT !.state = "len_lo"]
  <2>2. e = [x EXCEPT !.length = 256 * hi]
    BY <2>1 DEF FeedByte
  <2>3. x \in Deframers
    BY <1>1, SetOne DEF DeframerStates
  <2>4. x.state = "len_lo" /\ x.frames = d.frames /\ x.type = d.type
    BY <1>1 DEF Deframers
  <2> HIDE DEF x, e
  <2>5. e \in Deframers
    BY <1>4, <2>2, <2>3, SetOne, SMTT(30), ZenonT(30)
  <2>6. e.state = "len_lo" /\ e.frames = d.frames /\ e.type = m.type /\ e.length = 256 * hi
    BY <2>1, <2>2, <2>3, <2>4 DEF Deframers
  <2> QED
    BY <1>6, <2>5, <2>6 DEF InFrame, e, hi, n
<1>7. CASE j = 6
  <2>1. e = FeedByte(d, lo) /\ d.state = "len_lo" /\ d.type = m.type /\ d.length = 256 * hi
    BY <1>1, <1>2, <1>4, <1>7, Feeds, SMTT(30), ZenonT(30) DEF InFrame, hi, n
  <2>2. e = AcceptLength(d, n)
    <3>1. e = AcceptLength(d, d.length + lo)
      BY <2>1 DEF FeedByte
    <3> QED
      BY <1>4, <2>1, <3>1
  <2> DEFINE x == [d EXCEPT !.state = "body"]
             y == [x EXCEPT !.length = n]
  <2>3. e = [y EXCEPT !.body = <<>>]
    BY <1>2, <2>2 DEF AcceptLength
  <2>4. x \in Deframers
    BY <1>1, SetOne DEF DeframerStates
  <2>5. x.state = "body" /\ x.frames = d.frames /\ x.type = d.type
    BY <1>1 DEF Deframers
  <2> HIDE DEF x, e
  <2>6. y \in Deframers
    BY <1>4, <2>4, SetOne, SMTT(30), ZenonT(30)
  <2>7. y.state = "body" /\ y.frames = d.frames /\ y.type = d.type /\ y.length = n
    BY <2>4, <2>5 DEF Deframers
  <2> HIDE DEF y
  <2>8. <<>> \in Seq(Byte)
    OBVIOUS
  <2>9. e \in Deframers
    BY <2>3, <2>6, <2>8, SetOne
  <2>10. /\ e.state = "body" /\ e.frames = d.frames /\ e.type = m.type /\ e.length = n
         /\ e.body = <<>>
    BY <2>1, <2>3, <2>6, <2>7 DEF Deframers
  <2> QED
    BY <1>7, <2>9, <2>10 DEF InFrame, e, n
<1> QED
  BY <1>5, <1>6, <1>7

LEMMA BodyByte ==
  ASSUME NEW m \in Good, NEW j \in 7..Size(m), NEW d, InFrame(d, m, j)
  PROVE  IF j = Size(m)
           THEN /\ InFrame(Feeding[d][EncodeFrame(m)[j]], m, 1)
                /\ Feeding[d][EncodeFrame(m)[j]].frames = Append(d.frames, m)
           ELSE /\ InFrame(Feeding[d][EncodeFrame(m)[j]], m, j + 1)
                /\ Feeding[d][EncodeFrame(m)[j]].frames = d.frames
<1> DEFINE e == Feeding[d][EncodeFrame(m)[j]]
           n == Len(m.body)
           k == j - 6
           byte == m.body[k]
           b == Append(d.body, byte)
<1>1. /\ d \in Deframers /\ d.body \in Seq(Byte) /\ d.frames \in Seq(Messages)
      /\ j > 6
  BY Encoded DEF InFrame, Deframers
<1>2. /\ d.state = "body" /\ d.type = m.type /\ d.length = n /\ Len(d.body) = j - 7
      /\ \A i \in 1..(j - 7) : d.body[i] = m.body[i]
  BY <1>1 DEF InFrame
<1>3. n \in Nat /\ k \in 1..n /\ j = 6 + k /\ j - 7 = k - 1 /\ (j = Size(m) <=> k = n)
      /\ n \in 1..kMaxBodyLen /\ k \in Nat
  <2>1. n \in Nat /\ n \in 1..kMaxBodyLen
    BY Encoded
  <2> HIDE DEF n
  <2>2. Size(m) = 6 + n
    BY DEF Size, n
  <2> QED
    BY <2>1, <2>2
<1>4. EncodeFrame(m)[j] = byte /\ byte \in Byte /\ m.body \in Seq(Byte)
  <2>1. m.body \in Seq(Byte)
    BY DEF Good, Messages
  <2>2. \A i \in 1..n : EncodeFrame(m)[6 + i] = m.body[i]
    BY Encoded
  <2>3. byte \in Byte
    BY <1>3, <2>1, ElementOfSeq
  <2> QED
    BY <1>3, <2>1, <2>2, <2>3
<1>5. /\ b \in Seq(Byte) /\ Len(b) = k
      /\ \A i \in 1..k : b[i] = m.body[i]
  <2>1. /\ b \in Seq(Byte) /\ Len(b) = Len(d.body) + 1
        /\ \A i \in 1..Len(d.body) : b[i] = d.body[i]
        /\ b[Len(d.body) + 1] = byte
    BY <1>1, <1>4, AppendProperties
  <2> HIDE DEF b, n
  <2>2. Len(d.body) + 1 = k
    BY <1>2, <1>3
  <2>3. ASSUME NEW i \in 1..k PROVE b[i] = m.body[i]
    <3>1. CASE i = k
      BY <2>1, <2>2, <3>1
    <3>2. CASE i \in 1..Len(d.body)
      BY <1>2, <1>3, <2>1, <3>2
    <3> QED
      BY <2>2, <3>1, <3>2, <1>3
  <2> QED
    BY <2>1, <2>2, <2>3
<1>6. e = AcceptBody(d, byte)
  <2>1. e = FeedByte(d, byte)
    BY <1>1, <1>4, Feeds
  <2> QED
    BY <1>2, <2>1 DEF FeedByte
<1>7. CASE j = Size(m)
  <2> DEFINE w == [type |-> d.type, body |-> b]
             x == [d EXCEPT !.state = "scan"]
             y == [x EXCEPT !.length = 0]
             z == [y EXCEPT !.body = <<>>]
             fs == Append(d.frames, w)
  <2>1. Len(b) = d.length
    BY <1>2, <1>3, <1>5, <1>7
  <2>2. e = [z EXCEPT !.frames = fs]
    BY <1>6, <2>1 DEF AcceptBody
  <2>3. b = m.body
    <3>1. Len(b) = Len(m.body)
      BY <1>2, <2>1
    <3> HIDE DEF b
    <3> QED
      BY <1>3, <1>4, <1>5, <1>7, <3>1, SeqEqual
  <2>4. w = m /\ m \in Messages
    <3>1. m \in [type : {kTxEnqueue, kRxIndicate, kSetModem}, body : Seq(Byte)]
      BY DEF Good, Messages
    <3> HIDE DEF b
    <3> QED
      BY <1>2, <2>3, <3>1 DEF Messages
  <2> HIDE DEF w
  <2>5. fs = Append(d.frames, m) /\ fs \in Seq(Messages)
    BY <1>1, <2>4
  <2>6. x \in Deframers /\ x.state = "scan"
    <3>1. x \in Deframers
      BY <1>1, SetOne DEF DeframerStates
    <3>2. x.state = "scan"
      BY <1>1 DEF Deframers
    <3> QED
      BY <3>1, <3>2
  <2> HIDE DEF x, e, fs
  <2>7. y \in Deframers /\ y.state = "scan"
    <3>1. 0 \in Word
      BY DEF Word
    <3>2. y \in Deframers
      BY <2>6, <3>1, SetOne
    <3> QED
      BY <2>6, <3>2 DEF Deframers
  <2> HIDE DEF y
  <2>8. z \in Deframers /\ z.state = "scan"
    <3>1. <<>> \in Seq(Byte)
      OBVIOUS
    <3>2. z \in Deframers
      BY <2>7, <3>1, SetOne
    <3> QED
      BY <2>7, <3>2 DEF Deframers
  <2> HIDE DEF z
  <2>9. e \in Deframers
    BY <2>2, <2>5, <2>8, SetOne
  <2>10. e.state = "scan" /\ e.frames = fs
    BY <2>2, <2>8 DEF Deframers
  <2>11. InFrame(e, m, 1)
    BY <2>9, <2>10 DEF InFrame
  <2> QED
    BY <1>7, <2>5, <2>10, <2>11 DEF e
<1>8. CASE j # Size(m)
  <2>1. Len(b) # d.length
    BY <1>2, <1>3, <1>5, <1>8
  <2>2. e = [d EXCEPT !.body = b]
    BY <1>6, <2>1 DEF AcceptBody
  <2> HIDE DEF b, e
  <2>3. e \in Deframers
    BY <1>1, <1>5, <2>2, SetOne
  <2>4. /\ e.state = "body" /\ e.frames = d.frames /\ e.type = m.type /\ e.length = n
        /\ e.body = b
    BY <1>1, <1>2, <2>2 DEF Deframers
  <2>5. j + 1 > 6 /\ j + 1 - 7 = k /\ j + 1 \notin {1, 2, 3, 4, 5, 6}
    BY <1>1, <1>3
  <2>6. InFrame(e, m, j + 1)
    BY <1>5, <2>3, <2>4, <2>5 DEF InFrame, n
  <2> QED
    BY <1>8, <2>4, <2>6 DEF e
<1> QED
  BY <1>7, <1>8

(* One byte of a frame, which ends it or does not.                         *)
LEMMA OneByte ==
  ASSUME NEW m \in Good, NEW j \in 1..Size(m), NEW d, InFrame(d, m, j)
  PROVE  IF j = Size(m)
           THEN /\ InFrame(Feeding[d][EncodeFrame(m)[j]], m, 1)
                /\ Feeding[d][EncodeFrame(m)[j]].frames = Append(d.frames, m)
           ELSE /\ InFrame(Feeding[d][EncodeFrame(m)[j]], m, j + 1)
                /\ Feeding[d][EncodeFrame(m)[j]].frames = d.frames
<1>1. Size(m) \in Nat /\ Size(m) >= 7
  BY Encoded
<1>2. CASE j \in 1..3
  BY <1>1, <1>2, FirstBytes
<1>3. CASE j \in 4..6
  BY <1>1, <1>3, LastOfHeader
<1>4. CASE j \in 7..Size(m)
  BY <1>4, BodyByte
<1>5. j \in 1..3 \/ j \in 4..6 \/ j \in 7..Size(m)
  BY <1>1
<1> QED
  BY <1>2, <1>3, <1>4, <1>5

(* The bytes r still to be read are those of the messages M: byte i is the *)
(* g[i]-th of message f[i].                                                *)
At(M, i, j) == i \in 1..Len(M) /\ j \in 1..Size(M[i])

(* The byte after the j-th of message i. *)
NextMsg(M, i, j) == IF j = Size(M[i]) THEN i + 1 ELSE i
NextPos(M, i, j) == IF j = Size(M[i]) THEN 1 ELSE j + 1

Plan(r, M, f, g) ==
  \A i \in 1..Len(r) :
    /\ At(M, f[i], g[i])
    /\ r[i] = EncodeFrame(M[f[i]])[g[i]]
    /\ f[i + 1] = NextMsg(M, f[i], g[i]) /\ g[i + 1] = NextPos(M, f[i], g[i])

(* h is how M begins, up to but not with its n-th message.                 *)
UpTo(h, M, n) ==
  /\ n \in 1..(Len(M) + 1) /\ Len(h) = n - 1
  /\ \A i \in 1..(n - 1) : h[i] = M[i]

(* Deframer d, at the byte j of message n. *)
Where(d, M, n, j) ==
  /\ d \in Deframers /\ n \in 1..(Len(M) + 1) /\ j \in Nat
  /\ InFrame(d, M[n], j)
  /\ n = Len(M) + 1 => j = 1

(* With d the Deframer and h what was acted on, r is what M goes on with,  *)
(* to its end or not.                                                      *)
Follows(d, r, M, h, toEnd) ==
  \E f, g : /\ Plan(r, M, f, g)
            /\ Where(d, M, f[1], g[1]) /\ UpTo(h, M, f[1])
            /\ toEnd => f[Len(r) + 1] = Len(M) + 1 /\ g[Len(r) + 1] = 1
Tracks(d, r, M, h) == Follows(d, r, M, h, TRUE)

LEMMA Between ==
  ASSUME NEW d, NEW m, NEW w, InFrame(d, m, 1)
  PROVE  InFrame(d, w, 1)
BY DEF InFrame

(* The messages that d has produced are those of M from the a-th up to but *)
(* not with the n-th.                                                      *)
Passed(d, M, a, n) ==
  /\ a \in Nat /\ n \in Nat /\ a >= 1
  /\ d.frames \in Seq(Messages) /\ Len(d.frames) = n - a
  /\ \A i \in 1..(n - a) : d.frames[i] = M[a + i - 1]

LEMMA OneMore ==
  ASSUME NEW M \in Seq(Good), NEW e, NEW a, NEW n, NEW j,
         At(M, n, j), Where(e, M, n, j), Passed(e, M, a, n)
  PROVE  /\ Where(Feeding[e][EncodeFrame(M[n])[j]], M, NextMsg(M, n, j), NextPos(M, n, j))
         /\ Passed(Feeding[e][EncodeFrame(M[n])[j]], M, a, NextMsg(M, n, j))
<1> DEFINE m == M[n]
           x == Feeding[e][EncodeFrame(m)[j]]
<1>1. /\ n \in 1..Len(M) /\ j \in 1..Size(m) /\ m \in Good /\ InFrame(e, m, j)
      /\ e \in Deframers /\ Len(M) \in Nat /\ Size(m) \in Nat
  <2>1. n \in 1..Len(M) /\ j \in 1..Size(m)
    BY DEF At
  <2>2. m \in Good
    BY <2>1, ElementOfSeq
  <2>3. InFrame(e, m, j) /\ e \in Deframers
    BY DEF Where
  <2>4. Size(m) \in Nat
    <3> HIDE DEF m
    <3> QED
      BY <2>2, Encoded
  <2> QED
    BY <2>1, <2>2, <2>3, <2>4
<1>2. IF j = Size(m)
        THEN InFrame(x, m, 1) /\ x.frames = Append(e.frames, m)
        ELSE InFrame(x, m, j + 1) /\ x.frames = e.frames
  <2> HIDE DEF m
  <2> QED
    BY <1>1, OneByte
<1> HIDE DEF x
<1>3. CASE j = Size(m)
  <2>1. NextMsg(M, n, j) = n + 1 /\ NextPos(M, n, j) = 1
    BY <1>3 DEF NextMsg, NextPos
  <2>2. InFrame(x, M[n + 1], 1) /\ x \in Deframers
    <3>1. InFrame(x, M[n + 1], 1)
      BY <1>2, <1>3, Between
    <3> QED
      BY <3>1 DEF InFrame
  <2>3. Where(x, M, n + 1, 1)
    BY <1>1, <2>2 DEF Where
  <2>4. Passed(x, M, a, n + 1)
    <3> DEFINE s == e.frames
               l == Len(s)
    <3>1. /\ s \in Seq(Messages) /\ l = n - a /\ a \in Nat /\ n \in Nat /\ a >= 1
          /\ \A i \in 1..(n - a) : s[i] = M[a + i - 1]
      BY DEF Passed
    <3>2. m \in Messages
      BY <1>1 DEF Good
    <3>3. /\ Append(s, m) \in Seq(Messages) /\ Len(Append(s, m)) = l + 1
          /\ \A i \in 1..l : Append(s, m)[i] = s[i]
          /\ Append(s, m)[l + 1] = m
      <4> HIDE DEF s, m
      <4> QED
        BY <3>1, <3>2, AppendProperties, SMTT(30), ZenonT(30)
    <3>4. l \in Nat /\ n \in Nat /\ a \in Nat /\ l = n - a
      BY <3>1
    <3> HIDE DEF s, l
    <3>5. l + 1 = n + 1 - a /\ a + (l + 1) - 1 = n
      BY <3>4
    <3>6. ASSUME NEW i \in 1..(n + 1 - a) PROVE Append(s, m)[i] = M[a + i - 1]
      <4>1. CASE i = l + 1
        BY <3>3, <3>5, <4>1
      <4>2. CASE i \in 1..l
        BY <3>1, <3>3, <4>2
      <4>3. i = l + 1 \/ i \in 1..l
        BY <3>4
      <4> QED
        BY <4>1, <4>2, <4>3
    <3>7. x.frames = Append(s, m) /\ n + 1 \in Nat /\ a \in Nat /\ a >= 1
      BY <1>2, <1>3, <3>1 DEF s
    <3> HIDE DEF m
    <3>8. Len(x.frames) = n + 1 - a /\ x.frames \in Seq(Messages)
      BY <3>3, <3>5, <3>7
    <3> QED
      BY <3>6, <3>7, <3>8 DEF Passed
  <2> QED
    BY <2>1, <2>3, <2>4 DEF x
<1>4. CASE j # Size(m)
  <2>1. NextMsg(M, n, j) = n /\ NextPos(M, n, j) = j + 1
    BY <1>4 DEF NextMsg, NextPos
  <2>2. InFrame(x, m, j + 1) /\ x \in Deframers
    BY <1>2, <1>4 DEF InFrame
  <2>3. Where(x, M, n, j + 1)
    BY <1>1, <2>2 DEF Where
  <2>4. Passed(x, M, a, n)
    BY <1>2, <1>4 DEF Passed
  <2> QED
    BY <2>1, <2>3, <2>4 DEF x
<1> QED
  BY <1>3, <1>4

(* A call of feed() with the first k of the bytes to be read.              *)
LEMMA Chunk ==
  ASSUME NEW M \in Seq(Good), NEW r \in Seq(Byte), NEW k \in 0..Len(r),
         NEW f, NEW g, Plan(r, M, f, g),
         NEW d, Where(d, M, f[1], g[1]),
         NEW b \in Seq(Byte), Len(b) = k, \A i \in 1..k : b[i] = r[i]
  PROVE  /\ Where(Feed(d, b), M, f[k + 1], g[k + 1])
         /\ Passed(Feed(d, b), M, f[1], f[k + 1])
<1> DEFINE d0 == [d EXCEPT !.frames = <<>>]
<1>1. d \in Deframers /\ InFrame(d, M[f[1]], g[1]) /\ f[1] \in 1..(Len(M) + 1)
  BY DEF Where
<1>2. d0 \in Deframers
  <2>1. <<>> \in Seq(Messages)
    OBVIOUS
  <2> QED
    BY <1>1, <2>1, SetOne
<1>3. /\ d0.state = d.state /\ d0.type = d.type /\ d0.length = d.length
      /\ d0.body = d.body /\ d0.frames = <<>>
  BY <1>1 DEF Deframers
<1>4. PICK y : Goes(y, Feeding, d0, b, k) /\ Feed(d, b) = y[k]
  <2>1. Len(b) \in Nat
    OBVIOUS
  <2>2. \E y : Goes(y, Feeding, d0, b, Len(b)) /\ After(Feeding, d0, b) = y[Len(b)]
    <3> HIDE DEF d0
    <3> QED
      BY <2>1, AfterGoes
  <2> QED
    BY <2>2 DEF Feed
<1> HIDE DEF d0
<1>5. InFrame(d0, M[f[1]], g[1])
  BY <1>1, <1>2, <1>3, SMTT(30), ZenonT(30) DEF InFrame
<1>6. Where(d0, M, f[1], g[1]) /\ Passed(d0, M, f[1], f[1])
  <2>1. Where(d0, M, f[1], g[1])
    BY <1>2, <1>5 DEF Where
  <2>2. f[1] \in Nat /\ f[1] >= 1 /\ f[1] - f[1] = 0
    <3>1. Len(M) \in Nat
      OBVIOUS
    <3> QED
      BY <1>1, <3>1
  <2>3. Len(d0.frames) = 0 /\ d0.frames \in Seq(Messages)
    BY <1>3
  <2> QED
    BY <2>1, <2>2, <2>3 DEF Passed
<1> DEFINE S == {i \in Nat : i <= k => /\ Where(y[i], M, f[i + 1], g[i + 1])
                                       /\ Passed(y[i], M, f[1], f[i + 1])}
<1>7. 0 \in S
  <2>1. y[0] = d0
    BY <1>4 DEF Goes
  <2> QED
    BY <1>6, <2>1
<1>8. ASSUME NEW i \in Nat, i \in S PROVE i + 1 \in S
  <2>1. SUFFICES ASSUME i + 1 <= k
                 PROVE  /\ Where(y[i + 1], M, f[i + 1 + 1], g[i + 1 + 1])
                        /\ Passed(y[i + 1], M, f[1], f[i + 1 + 1])
    OBVIOUS
  <2>2. i + 1 \in 1..k /\ i + 1 \in 1..Len(r) /\ i + 1 - 1 = i /\ i <= k
    BY <2>1
  <2>3. y[i + 1] = Feeding[y[i]][b[i + 1]]
    <3>1. \A l \in 1..k : y[l] = Feeding[y[l - 1]][b[l]]
      BY <1>4 DEF Goes
    <3> HIDE DEF S
    <3> QED
      BY <2>2, <3>1
  <2> DEFINE n == f[i + 1]
             j == g[i + 1]
  <2>4. Where(y[i], M, n, j) /\ Passed(y[i], M, f[1], n)
    BY <1>8, <2>2
  <2>5. At(M, n, j) /\ r[i + 1] = EncodeFrame(M[n])[j]
        /\ f[i + 1 + 1] = NextMsg(M, n, j) /\ g[i + 1 + 1] = NextPos(M, n, j)
    BY <2>2 DEF Plan
  <2>6. y[i + 1] = Feeding[y[i]][EncodeFrame(M[n])[j]]
    BY <2>2, <2>3, <2>5
  <2> HIDE DEF n, j
  <2>7. /\ Where(Feeding[y[i]][EncodeFrame(M[n])[j]], M, NextMsg(M, n, j), NextPos(M, n, j))
        /\ Passed(Feeding[y[i]][EncodeFrame(M[n])[j]], M, f[1], NextMsg(M, n, j))
    BY <2>4, <2>5, OneMore
  <2> QED
    BY <2>5, <2>6, <2>7
<1>9. Nat \subseteq S
  <2> HIDE DEF S
  <2> QED
    BY <1>7, <1>8, SetInduction
<1> QED
  BY <1>4, <1>9

(* A reader that acts on every message of M.                               *)
TakesAll(take, M) ==
  \A done \in Seq(Messages) : \A i \in 1..Len(M) : take[done][M[i]] = Append(done, M[i])

LEMMA Acted ==
  ASSUME NEW M \in Seq(Good), NEW take, TakesAll(take, M),
         NEW d, NEW h \in Seq(Messages), NEW a, NEW n \in 1..(Len(M) + 1),
         UpTo(h, M, a), Passed(d, M, a, n)
  PROVE  /\ After(take, h, d.frames) \in Seq(Messages)
         /\ UpTo(After(take, h, d.frames), M, n)
<1> DEFINE F == d.frames
           k == n - a
<1>1. /\ a \in Nat /\ n \in Nat /\ a >= 1 /\ F \in Seq(Messages) /\ Len(F) = k
      /\ \A i \in 1..k : F[i] = M[a + i - 1]
  BY DEF Passed
<1>2. /\ k \in Nat /\ a + k = n /\ Len(M) \in Nat /\ n <= Len(M) + 1 /\ a >= 1
      /\ a \in Nat
  <2>1. Len(F) \in Nat
    BY <1>1
  <2> HIDE DEF F
  <2> QED
    BY <1>1, <2>1
<1>3. Len(h) = a - 1 /\ \A i \in 1..(a - 1) : h[i] = M[i]
  BY DEF UpTo
<1>4. PICK y : Goes(y, take, h, F, k) /\ After(take, h, F) = y[k]
  <2>1. Len(F) \in Nat /\ Len(F) = k
    BY <1>1, <1>2
  <2>2. \E y : Goes(y, take, h, F, Len(F)) /\ After(take, h, F) = y[Len(F)]
    <3> HIDE DEF F
    <3> QED
      BY <2>1, AfterGoes
  <2> HIDE DEF F, k
  <2> QED
    BY <2>1, <2>2
<1>5. \A l \in 1..k : y[l] = take[y[l - 1]][F[l]]
  BY <1>4 DEF Goes
<1>6. y[0] = h
  BY <1>4 DEF Goes
<1> HIDE DEF F, k
<1> DEFINE S == {i \in Nat : i <= k => y[i] \in Seq(Messages) /\ UpTo(y[i], M, a + i)}
<1>7. 0 \in S
  <2>1. a + 0 = a
    BY <1>2
  <2> QED
    BY <1>6, <2>1
<1>8. ASSUME NEW i \in Nat, i \in S PROVE i + 1 \in S
  <2>1. SUFFICES ASSUME i + 1 <= k
                 PROVE  y[i + 1] \in Seq(Messages) /\ UpTo(y[i + 1], M, a + (i + 1))
    OBVIOUS
  <2>2. y[i] \in Seq(Messages) /\ UpTo(y[i], M, a + i)
    BY <1>2, <1>8, <2>1
  <2> HIDE DEF S
  <2> DEFINE l == a + i
             m == M[l]
  <2>3. /\ i + 1 \in 1..k /\ i + 1 - 1 = i /\ l \in 1..Len(M) /\ a + (i + 1) - 1 = l
        /\ a + (i + 1) = l + 1 /\ l \in Nat /\ l + 1 \in 1..(Len(M) + 1) /\ l + 1 - 1 = l
    BY <1>2, <2>1
  <2> HIDE DEF l
  <2>4. y[i + 1] = take[y[i]][m]
    <3>1. F[i + 1] = M[a + (i + 1) - 1]
      BY <1>1, <2>3 DEF F, k
    <3>2. F[i + 1] = m
      BY <2>3, <3>1
    <3>3. y[i + 1] = take[y[i + 1 - 1]][F[i + 1]]
      BY <1>5, <2>3
    <3> HIDE DEF m
    <3> QED
      BY <2>3, <3>2, <3>3
  <2>5. y[i + 1] = Append(y[i], m)
    BY <2>2, <2>3, <2>4 DEF TakesAll
  <2>6. m \in Messages
    <3>1. m \in Good
      BY <2>3, ElementOfSeq
    <3> QED
      BY <3>1 DEF Good
  <2>7. Len(y[i]) = l - 1 /\ \A x \in 1..(l - 1) : y[i][x] = M[x]
    BY <2>2 DEF UpTo, l
  <2> DEFINE z == y[i]
  <2>8. /\ Append(z, m) \in Seq(Messages) /\ Len(Append(z, m)) = Len(z) + 1
        /\ \A x \in 1..Len(z) : Append(z, m)[x] = z[x]
        /\ Append(z, m)[Len(z) + 1] = m
    <3>1. z \in Seq(Messages)
      BY <2>2
    <3> HIDE DEF z, m
    <3> QED
      BY <2>6, <3>1, AppendProperties
  <2>9. Len(z) = l - 1 /\ l - 1 + 1 = l
    BY <2>3, <2>7
  <2> HIDE DEF z
  <2>10. ASSUME NEW x \in 1..l PROVE Append(z, m)[x] = M[x]
    <3>1. CASE x = l
      BY <2>8, <2>9, <3>1
    <3>2. CASE x \in 1..(l - 1)
      BY <2>7, <2>8, <2>9, <3>2 DEF z
    <3>3. l \in Nat
      BY <2>3
    <3>4. x = l \/ x \in 1..(l - 1)
      BY <3>3
    <3> QED
      BY <3>1, <3>2, <3>4
  <2>11. Len(Append(z, m)) = l
    BY <2>8, <2>9
  <2>12. UpTo(Append(z, m), M, l + 1)
    BY <2>3, <2>10, <2>11 DEF UpTo
  <2> QED
    BY <2>3, <2>5, <2>8, <2>12 DEF z
<1>9. Nat \subseteq S
  <2> HIDE DEF S
  <2> QED
    BY <1>7, <1>8, SetInduction
<1>10. y[k] \in Seq(Messages) /\ UpTo(y[k], M, a + k)
  BY <1>2, <1>9
<1> QED
  BY <1>2, <1>4, <1>10 DEF F

(* A connection on which nothing was sent.                                 *)
LEMMA Nothing ==
  ASSUME NEW d \in Deframers, d.state = "scan"
  PROVE  Tracks(d, <<>>, <<>>, <<>>)
<1> DEFINE f == [i \in {1} |-> 1]
<1>1. f[1] = 1 /\ Len(<<>>) = 0
  OBVIOUS
<1>2. InFrame(d, <<>>[1], 1)
  BY DEF InFrame
<1>3. Where(d, <<>>, 1, 1)
  BY <1>2 DEF Where
<1>4. UpTo(<<>>, <<>>, 1)
  BY DEF UpTo
<1>5. Plan(<<>>, <<>>, f, f)
  BY DEF Plan
<1> HIDE DEF f
<1>6. f[Len(<<>>) + 1] = Len(<<>>) + 1 /\ f[Len(<<>>) + 1] = 1
  BY <1>1
<1> QED
  BY <1>1, <1>3, <1>4, <1>5, <1>6 DEF Tracks, Follows

(* The end of the stream is lost.                                          *)
LEMMA Shorter ==
  ASSUME NEW a \in Seq(Byte), NEW b \in Seq(Byte), NEW d, NEW M, NEW h,
         NEW toEnd, Follows(d, a \o b, M, h, toEnd)
  PROVE  Follows(d, a, M, h, FALSE)
<1>1. PICK f, g : /\ Plan(a \o b, M, f, g)
                  /\ Where(d, M, f[1], g[1]) /\ UpTo(h, M, f[1])
  BY DEF Follows
<1>2. /\ Len(a \o b) = Len(a) + Len(b) /\ Len(a) \in Nat /\ Len(b) \in Nat
      /\ \A j \in 1..Len(a) : (a \o b)[j] = a[j]
  BY Joined
<1>3. \A i \in 1..Len(a) : i \in 1..Len(a \o b)
  BY <1>2
<1>4. Plan(a, M, f, g)
  BY <1>1, <1>2, <1>3 DEF Plan
<1> QED
  BY <1>1, <1>4 DEF Follows

(* What a read of k of the bytes a starts from, and where it leaves the    *)
(* reader; w is what is still to be written behind them.                   *)
AtRead(take, M, a, w, k, d, h, toEnd) ==
  /\ M \in Seq(Good) /\ a \in Seq(Byte) /\ w \in Seq(Byte) /\ k \in 0..Len(a)
  /\ h \in Seq(Messages) /\ toEnd \in BOOLEAN /\ TakesAll(take, M)
  /\ Follows(d, a \o w, M, h, toEnd)

AfterRead(take, M, a, w, k, d, h, toEnd) ==
  LET e == Feed(d, SubSeq(a, 1, k))
  IN  Follows([e EXCEPT !.frames = <<>>], SubSeq(a, k + 1, Len(a)) \o w, M,
              After(take, h, e.frames), toEnd)

(* A read takes the first k bytes of a, which the bytes w follow.          *)
LEMMA ReadOn ==
  ASSUME NEW take, NEW M, NEW a, NEW w, NEW k, NEW d, NEW h, NEW toEnd,
         AtRead(take, M, a, w, k, d, h, toEnd)
  PROVE  AfterRead(take, M, a, w, k, d, h, toEnd)
<1> DEFINE e == Feed(d, SubSeq(a, 1, k))
           t == SubSeq(a, k + 1, Len(a)) \o w
<1>a. /\ M \in Seq(Good) /\ a \in Seq(Byte) /\ w \in Seq(Byte) /\ k \in 0..Len(a)
      /\ h \in Seq(Messages) /\ TakesAll(take, M) /\ Follows(d, a \o w, M, h, toEnd)
  BY DEF AtRead
<1>b. e = Feed(d, SubSeq(a, 1, k)) /\ t = SubSeq(a, k + 1, Len(a)) \o w
  OBVIOUS
<1> USE <1>a
<1> HIDE DEF e, t
<1>0. PICK f, g : /\ Plan(a \o w, M, f, g)
                  /\ Where(d, M, f[1], g[1]) /\ UpTo(h, M, f[1])
                  /\ toEnd => /\ f[Len(a \o w) + 1] = Len(M) + 1
                              /\ g[Len(a \o w) + 1] = 1
  BY DEF Follows
<1> DEFINE r == a \o w
           b == SubSeq(a, 1, k)
           c == SubSeq(a, k + 1, Len(a))
           n == Len(r)
           l == Len(a)
<1>1. /\ r \in Seq(Byte) /\ n = l + Len(w) /\ l \in Nat /\ Len(w) \in Nat /\ n \in Nat
      /\ \A j \in 1..l : r[j] = a[j]
      /\ \A j \in 1..Len(w) : r[l + j] = w[j]
  BY Joined
<1>2. /\ b \in Seq(Byte) /\ Len(b) = k /\ \A i \in 1..k : b[i] = a[i]
      /\ c \in Seq(Byte) /\ Len(c) = l - k
      /\ \A i \in 1..(l - k) : c[i] = a[k + i]
  BY Cut
<1>3. k \in Nat /\ k <= l /\ k \in 0..n
  BY <1>1
<1> HIDE DEF r, b, c, n, l
<1>4. \A i \in 1..k : b[i] = r[i]
  <2>1. \A i \in 1..k : i \in 1..l
    BY <1>1, <1>3
  <2> QED
    BY <1>1, <1>2, <2>1
<1>5. /\ Where(e, M, f[k + 1], g[k + 1]) /\ Passed(e, M, f[1], f[k + 1])
  <2>1. Plan(r, M, f, g) /\ k \in 0..Len(r)
    BY <1>0, <1>3 DEF r, n
  <2>2. r \in Seq(Byte) /\ b \in Seq(Byte) /\ Len(b) = k
    BY <1>1, <1>2
  <2>3. /\ Where(Feed(d, b), M, f[k + 1], g[k + 1])
        /\ Passed(Feed(d, b), M, f[1], f[k + 1])
    BY <1>0, <1>4, <2>1, <2>2, Chunk
  <2> QED
    BY <1>b, <2>3 DEF b
<1>6. f[k + 1] \in 1..(Len(M) + 1)
  BY <1>5 DEF Where
<1>7. /\ After(take, h, e.frames) \in Seq(Messages)
      /\ UpTo(After(take, h, e.frames), M, f[k + 1])
  <2> DEFINE x == f[1]
             y == f[k + 1]
  <2>1. UpTo(h, M, x) /\ Passed(e, M, x, y) /\ y \in 1..(Len(M) + 1)
    BY <1>0, <1>5, <1>6
  <2> HIDE DEF x, y
  <2>2. /\ After(take, h, e.frames) \in Seq(Messages)
        /\ UpTo(After(take, h, e.frames), M, y)
    BY <2>1, Acted
  <2> QED
    BY <2>2 DEF y
<1>8. Where([e EXCEPT !.frames = <<>>], M, f[k + 1], g[k + 1])
  <2> DEFINE o == [e EXCEPT !.frames = <<>>]
  <2>1. e \in Deframers /\ InFrame(e, M[f[k + 1]], g[k + 1])
    BY <1>5 DEF Where
  <2>2. <<>> \in Seq(Messages)
    OBVIOUS
  <2>3. o \in Deframers
    BY <2>1, <2>2, SetOne
  <2>4. /\ o.state = e.state /\ o.type = e.type /\ o.length = e.length
        /\ o.body = e.body
    BY <2>1 DEF Deframers
  <2> HIDE DEF o
  <2>5. InFrame(o, M[f[k + 1]], g[k + 1])
    BY <2>1, <2>3, <2>4, SMTT(30), ZenonT(30) DEF InFrame
  <2> QED
    BY <1>5, <2>3, <2>5 DEF Where, o
<1>9. /\ t \in Seq(Byte) /\ Len(t) = n - k
      /\ \A i \in 1..(n - k) : t[i] = r[k + i]
  <2>0. t = c \o w
    BY <1>b DEF c
  <2>1. /\ t \in Seq(Byte) /\ Len(t) = Len(c) + Len(w)
        /\ \A j \in 1..Len(c) : t[j] = c[j]
        /\ \A j \in 1..Len(w) : t[Len(c) + j] = w[j]
    <3>1. c \in Seq(Byte)
      BY <1>2
    <3>2. /\ c \o w \in Seq(Byte) /\ Len(c \o w) = Len(c) + Len(w)
          /\ \A j \in 1..Len(c) : (c \o w)[j] = c[j]
          /\ \A j \in 1..Len(w) : (c \o w)[Len(c) + j] = w[j]
      BY <3>1, Joined
    <3> QED
      BY <2>0, <3>2
  <2>2. Len(t) = n - k
    BY <1>1, <1>2, <1>3, <2>1
  <2>3. ASSUME NEW i \in 1..(n - k) PROVE t[i] = r[k + i]
    <3>1. CASE i <= l - k
      <4>1. i \in 1..Len(c) /\ k + i \in 1..l /\ i \in 1..(l - k)
        BY <1>1, <1>2, <1>3, <3>1, SMTT(30), ZenonT(30)
      <4> QED
        BY <1>1, <1>2, <2>1, <4>1
    <3>2. CASE i > l - k
      <4> DEFINE j == i - (l - k)
      <4>1. j \in 1..Len(w) /\ i = Len(c) + j /\ k + i = l + j
        BY <1>1, <1>2, <1>3, <3>2
      <4> HIDE DEF j
      <4> QED
        BY <1>1, <2>1, <4>1
    <3>3. i \in Int /\ l - k \in Int
      BY <1>1, <1>3
    <3>4. i <= l - k \/ i > l - k
      BY <3>3
    <3> QED
      BY <3>1, <3>2, <3>4
  <2> QED
    BY <2>1, <2>2, <2>3
<1> DEFINE q == Len(t)
           f2 == [i \in 1..(q + 1) |-> f[k + i]]
           g2 == [i \in 1..(q + 1) |-> g[k + i]]
<1>10. q \in Nat /\ \A i \in 1..q : i \in 1..(q + 1) /\ i + 1 \in 1..(q + 1)
                               /\ k + i \in 1..n /\ k + (i + 1) = k + i + 1
  <2>1. q \in Nat /\ q = n - k
    BY <1>9
  <2> HIDE DEF q
  <2> QED
    BY <1>1, <1>3, <2>1
<1>11. Plan(t, M, f2, g2)
  <2>0. \A i \in 1..n : /\ At(M, f[i], g[i]) /\ r[i] = EncodeFrame(M[f[i]])[g[i]]
                        /\ f[i + 1] = NextMsg(M, f[i], g[i])
                        /\ g[i + 1] = NextPos(M, f[i], g[i])
    BY <1>0 DEF Plan, r, n
  <2>1. ASSUME NEW i \in 1..q
        PROVE  /\ At(M, f2[i], g2[i]) /\ t[i] = EncodeFrame(M[f2[i]])[g2[i]]
               /\ f2[i + 1] = NextMsg(M, f2[i], g2[i])
               /\ g2[i + 1] = NextPos(M, f2[i], g2[i])
    <3>1. f2[i] = f[k + i] /\ g2[i] = g[k + i]
          /\ f2[i + 1] = f[k + i + 1] /\ g2[i + 1] = g[k + i + 1]
      <4>1. i \in 1..(q + 1) /\ i + 1 \in 1..(q + 1) /\ k + (i + 1) = k + i + 1
        BY <1>10
      <4> HIDE DEF q
      <4> QED
        BY <4>1
    <3>2. t[i] = r[k + i] /\ k + i \in 1..n
      BY <1>9, <1>10
    <3> HIDE DEF f2, g2
    <3> QED
      BY <2>0, <3>1, <3>2
  <2> HIDE DEF f2, g2
  <2> QED
    BY <2>1 DEF Plan, q
<1>12. /\ f2[1] = f[k + 1] /\ g2[1] = g[k + 1]
       /\ f2[q + 1] = f[n + 1] /\ g2[q + 1] = g[n + 1]
  <2>1. q \in Nat /\ q = n - k
    BY <1>9, <1>10
  <2> HIDE DEF q
  <2>2. k + (q + 1) = n + 1 /\ 1 \in 1..(q + 1) /\ q + 1 \in 1..(q + 1)
    BY <1>1, <1>3, <2>1
  <2> QED
    BY <2>2
<1> HIDE DEF f2, g2
<1>13. Follows([e EXCEPT !.frames = <<>>], t, M, After(take, h, e.frames), toEnd)
  BY <1>0, <1>7, <1>8, <1>11, <1>12 DEF Follows, q, r, n
<1> QED
  BY <1>13 DEF AfterRead, e, t

(* What was acted on is how M begins.                                      *)
LEMMA FollowsBegins ==
  ASSUME NEW M \in Seq(Good), NEW d, NEW r, NEW h, NEW toEnd, Follows(d, r, M, h, toEnd)
  PROVE  UpTo(h, M, Len(h) + 1)
<1>1. PICK n : UpTo(h, M, n)
  BY DEF Follows
<1>2. n \in 1..(Len(M) + 1) /\ Len(h) = n - 1 /\ Len(M) \in Nat
  BY <1>1 DEF UpTo
<1>3. Len(h) + 1 = n
  BY <1>2
<1> QED
  BY <1>1, <1>3

LEMMA StillBegins ==
  ASSUME NEW M \in Seq(Good), NEW m \in Good, NEW h \in Seq(Messages), NEW n, UpTo(h, M, n)
  PROVE  UpTo(h, Append(M, m), n)
<1>1. /\ n \in 1..(Len(M) + 1) /\ Len(h) = n - 1 /\ Len(M) \in Nat
      /\ \A i \in 1..(n - 1) : h[i] = M[i]
  BY DEF UpTo
<1>2. /\ Len(Append(M, m)) = Len(M) + 1
      /\ \A i \in 1..Len(M) : Append(M, m)[i] = M[i]
  BY AppendProperties
<1>3. /\ \A i \in 1..(n - 1) : i \in 1..Len(M)
      /\ n \in 1..(Len(M) + 1 + 1)
  BY <1>1
<1> QED
  BY <1>1, <1>2, <1>3 DEF UpTo

LEMMA BeginsIsPrefix ==
  ASSUME NEW M \in Seq(Good), NEW h \in Seq(Messages), UpTo(h, M, Len(h) + 1)
  PROVE  IsPrefix(h, M)
<1> DEFINE n == Len(h)
<1>1. n \in Nat
  OBVIOUS
<1>2. n + 1 \in 1..(Len(M) + 1) /\ Len(M) \in Nat
      /\ \A i \in 1..(n + 1 - 1) : h[i] = M[i]
  BY DEF UpTo
<1> HIDE DEF n
<1>3. n \in 0..Len(M) /\ n + 1 - 1 = n /\ n <= Len(M) /\ n \in 0..n
  BY <1>1, <1>2
<1>4. M \in Seq(Messages)
  <2>1. Good \subseteq Messages
    BY DEF Good
  <2> QED
    BY <2>1, SeqMonotonic
<1>5. /\ SubSeq(M, 1, n) \in Seq(Messages) /\ Len(SubSeq(M, 1, n)) = n
      /\ \A i \in 1..n : SubSeq(M, 1, n)[i] = M[i]
  BY <1>3, <1>4, Cut
<1>6. /\ SubSeq(h, 1, n) \in Seq(Messages) /\ Len(SubSeq(h, 1, n)) = n
      /\ \A i \in 1..n : SubSeq(h, 1, n)[i] = h[i]
  BY <1>3, Cut DEF n
<1>7. SubSeq(h, 1, n) = SubSeq(M, 1, n)
  <2> DEFINE x == SubSeq(h, 1, n)
             y == SubSeq(M, 1, n)
  <2>1. /\ x \in Seq(Messages) /\ y \in Seq(Messages) /\ Len(x) = n /\ Len(y) = n
        /\ \A i \in 1..n : x[i] = y[i]
    BY <1>2, <1>3, <1>5, <1>6
  <2> HIDE DEF x, y
  <2>2. x = y
    BY <2>1, SeqEqual
  <2> QED
    BY <2>2 DEF x, y
<1> QED
  BY <1>3, <1>7 DEF IsPrefix, n

(* A message more is begun.                                                *)
LEMMA Sending ==
  ASSUME NEW M \in Seq(Good), NEW m \in Good, NEW r \in Seq(Byte), NEW d,
         NEW h \in Seq(Messages), Tracks(d, r, M, h)
  PROVE  Tracks(d, r \o EncodeFrame(m), Append(M, m), h)
<1>1. PICK f, g : /\ Plan(r, M, f, g)
                  /\ Where(d, M, f[1], g[1]) /\ UpTo(h, M, f[1])
                  /\ f[Len(r) + 1] = Len(M) + 1 /\ g[Len(r) + 1] = 1
  BY DEF Tracks, Follows
<1> DEFINE w == EncodeFrame(m)
           M2 == Append(M, m)
           r2 == r \o w
           L == Len(r)
           z == Size(m)
           K == Len(M)
           f2 == [i \in 1..(L + z + 1) |-> IF i <= L THEN f[i]
                                           ELSE IF i <= L + z THEN K + 1 ELSE K + 2]
           g2 == [i \in 1..(L + z + 1) |-> IF i <= L THEN g[i]
                                           ELSE IF i <= L + z THEN i - L ELSE 1]
<1>2. w \in Seq(Byte) /\ Len(w) = z /\ z \in Nat /\ z >= 7
  BY Encoded
<1>3. /\ r2 \in Seq(Byte) /\ Len(r2) = L + z /\ L \in Nat
      /\ \A j \in 1..L : r2[j] = r[j]
      /\ \A j \in 1..z : r2[L + j] = w[j]
  <2> HIDE DEF w, z
  <2> QED
    BY <1>2, Joined
<1>4. /\ M2 \in Seq(Good) /\ Len(M2) = K + 1 /\ K \in Nat
      /\ \A i \in 1..K : M2[i] = M[i]
      /\ M2[K + 1] = m
  BY AppendProperties
<1> HIDE DEF M2, r2, w, z, L, K
<1>5. /\ \A i \in 1..L : f2[i] = f[i] /\ g2[i] = g[i]
      /\ \A j \in 1..z : f2[L + j] = K + 1 /\ g2[L + j] = j
      /\ f2[L + z + 1] = K + 2 /\ g2[L + z + 1] = 1
  <2>1. \A i \in 1..L : i \in 1..(L + z + 1) /\ i <= L
    BY <1>2, <1>3
  <2>3. L + z + 1 \in 1..(L + z + 1) /\ ~(L + z + 1 <= L) /\ ~(L + z + 1 <= L + z)
    BY <1>2, <1>3
  <2>4. \A i \in 1..L : f2[i] = f[i] /\ g2[i] = g[i]
    BY <2>1
  <2>5. ASSUME NEW j \in 1..z PROVE f2[L + j] = K + 1 /\ g2[L + j] = j
    <3> DEFINE x == L + j
    <3>1. x \in 1..(L + z + 1) /\ ~(x <= L) /\ x <= L + z /\ x - L = j
      BY <1>2, <1>3
    <3> HIDE DEF x
    <3>2. f2[x] = K + 1 /\ g2[x] = j
      BY <3>1
    <3> QED
      BY <3>2 DEF x
  <2>6. f2[L + z + 1] = K + 2 /\ g2[L + z + 1] = 1
    BY <2>3
  <2> QED
    BY <2>4, <2>5, <2>6
<1> HIDE DEF f2, g2
<1>6. f2[L + 1] = K + 1 /\ g2[L + 1] = 1
  BY <1>2, <1>5
<1>7. /\ \A i \in 1..L : i + 1 \in 1..L \/ i + 1 = L + 1
      /\ \A i \in 1..(L + z) : i \in 1..L \/ \E j \in 1..z : i = L + j
  <2>1. \A i \in 1..L : i + 1 \in 1..L \/ i + 1 = L + 1
    BY <1>3
  <2>2. ASSUME NEW i \in 1..(L + z) PROVE i \in 1..L \/ \E j \in 1..z : i = L + j
    <3>1. CASE i <= L
      BY <1>3, <3>1
    <3>2. CASE i > L
      <4>1. i - L \in 1..z /\ i = L + (i - L)
        BY <1>2, <1>3, <3>2
      <4> QED
        BY <4>1
    <3> QED
      BY <1>3, <3>1, <3>2
  <2> QED
    BY <2>1, <2>2
<1>8. \A i \in 1..(L + 1) : f2[i] = f[i] /\ g2[i] = g[i]
  <2>1. \A i \in 1..(L + 1) : i \in 1..L \/ i = L + 1
    BY <1>3
  <2>2. f[L + 1] = K + 1 /\ g[L + 1] = 1
    BY <1>1 DEF L, K
  <2> QED
    BY <1>5, <1>6, <2>1, <2>2
<1>9. ASSUME NEW i \in 1..(L + z)
      PROVE  /\ At(M2, f2[i], g2[i]) /\ r2[i] = EncodeFrame(M2[f2[i]])[g2[i]]
             /\ f2[i + 1] = NextMsg(M2, f2[i], g2[i])
             /\ g2[i + 1] = NextPos(M2, f2[i], g2[i])
  <2>1. CASE i \in 1..L
    <3> DEFINE n == f[i]
               j == g[i]
    <3>1. /\ At(M, n, j) /\ r[i] = EncodeFrame(M[n])[j]
          /\ f[i + 1] = NextMsg(M, n, j) /\ g[i + 1] = NextPos(M, n, j)
      BY <1>1, <2>1 DEF Plan, L
    <3>2. n \in 1..K /\ j \in 1..Size(M[n])
      BY <3>1 DEF At, K
    <3>3. i \in 1..(L + 1) /\ i + 1 \in 1..(L + 1)
      BY <1>3, <2>1
    <3>4. f2[i] = n /\ g2[i] = j /\ f2[i + 1] = f[i + 1] /\ g2[i + 1] = g[i + 1]
      BY <1>8, <3>3
    <3> HIDE DEF n, j
    <3>5. M2[n] = M[n] /\ n \in 1..(K + 1)
      BY <1>4, <3>2
    <3>6. At(M2, n, j) /\ r2[i] = EncodeFrame(M2[n])[j]
      BY <1>3, <1>4, <2>1, <3>1, <3>2, <3>5 DEF At
    <3>7. NextMsg(M2, n, j) = NextMsg(M, n, j) /\ NextPos(M2, n, j) = NextPos(M, n, j)
      BY <3>5 DEF NextMsg, NextPos
    <3> QED
      BY <3>1, <3>4, <3>6, <3>7
  <2>2. ASSUME NEW j \in 1..z, i = L + j
        PROVE  /\ At(M2, f2[i], g2[i]) /\ r2[i] = EncodeFrame(M2[f2[i]])[g2[i]]
               /\ f2[i + 1] = NextMsg(M2, f2[i], g2[i])
               /\ g2[i + 1] = NextPos(M2, f2[i], g2[i])
    <3>1. f2[i] = K + 1 /\ g2[i] = j
      BY <1>5, <2>2
    <3>2. At(M2, K + 1, j)
      <4>1. K + 1 \in 1..(K + 1)
        BY <1>4
      <4> QED
        BY <1>4, <4>1 DEF At, z
    <3>3. r2[i] = EncodeFrame(M2[K + 1])[j]
      BY <1>3, <1>4, <2>2 DEF w
    <3>4. f2[i + 1] = NextMsg(M2, K + 1, j) /\ g2[i + 1] = NextPos(M2, K + 1, j)
      <4>1. CASE j = z
        <5>1. i + 1 = L + z + 1
          BY <2>2, <4>1
        <5>2. NextMsg(M2, K + 1, j) = K + 1 + 1 /\ NextPos(M2, K + 1, j) = 1
          BY <1>4, <4>1 DEF NextMsg, NextPos, z
        <5>3. K + 1 + 1 = K + 2
          BY <1>4
        <5> QED
          BY <1>5, <5>1, <5>2, <5>3
      <4>2. CASE j # z
        <5>1. j + 1 \in 1..z /\ i + 1 = L + (j + 1)
          BY <1>2, <1>3, <2>2, <4>2
        <5>2. NextMsg(M2, K + 1, j) = K + 1 /\ NextPos(M2, K + 1, j) = j + 1
          BY <1>4, <4>2 DEF NextMsg, NextPos, z
        <5> QED
          BY <1>5, <5>1, <5>2
      <4> QED
        BY <4>1, <4>2
    <3> QED
      BY <3>1, <3>2, <3>3, <3>4
  <2> QED
    BY <1>7, <2>1, <2>2
<1>10. Plan(r2, M2, f2, g2)
  BY <1>3, <1>9 DEF Plan
<1>11. f2[1] = f[1] /\ g2[1] = g[1]
  <2>1. 1 \in 1..(L + 1)
    BY <1>3
  <2> QED
    BY <1>8, <2>1
<1>12. UpTo(h, M2, f2[1])
  BY <1>1, <1>11, StillBegins DEF M2
<1>13. Where(d, M2, f2[1], g2[1])
  <2> DEFINE n == f[1]
             j == g[1]
  <2>1. /\ d \in Deframers /\ n \in 1..(K + 1) /\ j \in Nat
        /\ InFrame(d, M[n], j) /\ (n = K + 1 => j = 1)
    BY <1>1 DEF Where, K
  <2> HIDE DEF n, j
  <2>2. InFrame(d, M2[n], j)
    <3>1. CASE n = K + 1
      <4>1. InFrame(d, M[n], 1)
        BY <2>1, <3>1
      <4>2. InFrame(d, M2[n], 1)
        BY <4>1, Between
      <4> QED
        BY <2>1, <3>1, <4>2
    <3>2. CASE n \in 1..K
      BY <1>4, <2>1, <3>2
    <3> QED
      BY <1>4, <2>1, <3>1, <3>2
  <2>3. n \in 1..(K + 1 + 1) /\ n # K + 1 + 1
    BY <1>4, <2>1
  <2>4. Where(d, M2, n, j)
    BY <1>4, <2>1, <2>2, <2>3 DEF Where
  <2> QED
    BY <1>11, <2>4 DEF n, j
<1>14. f2[Len(r2) + 1] = Len(M2) + 1 /\ g2[Len(r2) + 1] = 1
  <2>1. K + 1 + 1 = K + 2
    BY <1>4
  <2> QED
    BY <1>3, <1>4, <1>5, <2>1
<1> QED
  BY <1>10, <1>12, <1>13, <1>14 DEF Tracks, Follows, r2, M2, w
-----------------------------------------------------------------------------
(* Types: After keeps them, and so do feed() and the readers.              *)
LEMMA AfterType ==
  ASSUME NEW D, NEW B, NEW take, \A y \in D : \A z \in B : take[y][z] \in D,
         NEW x \in D, NEW s \in Seq(B)
  PROVE  After(take, x, s) \in D
<1>1. Len(s) \in Nat /\ \A i \in 1..Len(s) : s[i] \in B
  OBVIOUS
<1>2. PICK h : Goes(h, take, x, s, Len(s)) /\ After(take, x, s) = h[Len(s)]
  BY <1>1, AfterGoes
<1> DEFINE k == Len(s)
           S == {i \in Nat : i <= k => h[i] \in D}
<1>3. h[0] = x /\ \A i \in 1..k : h[i] = take[h[i - 1]][s[i]]
  BY <1>2 DEF Goes
<1>4. 0 \in S
  BY <1>3
<1>5. ASSUME NEW i \in Nat, i \in S PROVE i + 1 \in S
  <2>1. SUFFICES ASSUME i + 1 <= k PROVE h[i + 1] \in D
    OBVIOUS
  <2>2. i + 1 \in 1..k /\ i + 1 - 1 = i /\ i <= k
    BY <1>1, <2>1
  <2>3. h[i] \in D
    BY <1>5, <2>2
  <2>4. s[i + 1] \in B
    BY <1>1, <2>2
  <2> HIDE DEF S, k
  <2>5. h[i + 1] = take[h[i]][s[i + 1]]
    BY <1>3, <2>2
  <2> QED
    BY <2>3, <2>4, <2>5
<1>6. Nat \subseteq S
  <2> HIDE DEF S
  <2> QED
    BY <1>4, <1>5, SetInduction
<1> QED
  BY <1>1, <1>2, <1>6

LEMMA FedType ==
  ASSUME NEW d \in Deframers, NEW byte \in Byte
  PROVE  Feeding[d][byte] \in Deframers
<1>1. /\ d.type \in {1, 2, 3} /\ d.length \in Word /\ d.body \in Seq(Byte)
      /\ d.frames \in Seq(Messages)
  BY DEF Deframers, kTxEnqueue, kRxIndicate, kSetModem
<1>2. Feeding[d][byte] = FeedByte(d, byte)
  BY Feeds
<1>3. /\ [d EXCEPT !.state = "scan"] \in Deframers
      /\ [d EXCEPT !.state = "magic1"] \in Deframers
      /\ [d EXCEPT !.state = "version"] \in Deframers
      /\ [d EXCEPT !.state = "type"] \in Deframers
      /\ [d EXCEPT !.state = "len_hi"] \in Deframers
      /\ [d EXCEPT !.state = "len_lo"] \in Deframers
      /\ [d EXCEPT !.state = "body"] \in Deframers
  BY SetOne DEF DeframerStates
<1>4. RejectAndResync(d, byte) \in Deframers
  BY <1>3 DEF RejectAndResync
<1>5. CASE d.state = "scan" \/ d.state = "magic1" \/ d.state = "version"
  <2>1. CASE d.state = "scan"
    BY <1>2, <1>3, <2>1 DEF FeedByte
  <2>2. CASE d.state = "magic1"
    BY <1>2, <1>3, <2>2 DEF FeedByte
  <2>3. CASE d.state = "version"
    BY <1>2, <1>3, <1>4, <2>3 DEF FeedByte
  <2> QED
    BY <1>2, <1>5, <2>1, <2>2, <2>3
<1>6. CASE d.state = "type"
  <2> DEFINE e == [d EXCEPT !.state = "len_hi"]
  <2>1. e \in Deframers
    BY <1>3
  <2>2. MessageTypeKnown(byte) => byte \in {1, 2, 3}
    BY DEF MessageTypeKnown, kTxEnqueue, kRxIndicate, kSetModem
  <2>3. FeedByte(d, byte) = IF MessageTypeKnown(byte) THEN [e EXCEPT !.type = byte]
                                                     ELSE RejectAndResync(d, byte)
    BY <1>6 DEF FeedByte
  <2> HIDE DEF e
  <2>4. MessageTypeKnown(byte) => [e EXCEPT !.type = byte] \in Deframers
    BY <2>1, <2>2, SetOne
  <2> QED
    BY <1>2, <1>4, <2>3, <2>4
<1>7. CASE d.state = "len_hi"
  <2> DEFINE e == [d EXCEPT !.state = "len_lo"]
  <2>1. e \in Deframers
    BY <1>3
  <2>2. 256 * byte \in Word
    <3>1. 256 * byte \in Nat /\ 256 * byte < 65536 /\ 2^16 = 65536
      BY DEF Byte
    <3> QED
      BY <3>1 DEF Word
  <2>3. FeedByte(d, byte) = [e EXCEPT !.length = 256 * byte]
    BY <1>7 DEF FeedByte
  <2> HIDE DEF e
  <2>4. [e EXCEPT !.length = 256 * byte] \in Deframers
    BY <2>1, <2>2, SetOne, SMTT(30), ZenonT(30)
  <2> QED
    BY <1>2, <2>3, <2>4
<1>8. CASE d.state = "len_lo"
  <2> DEFINE n == d.length + byte
             e == [d EXCEPT !.state = "body"]
             f == [e EXCEPT !.length = n]
             g == [d EXCEPT !.state = "scan"]
  <2>1. (n \in 1..kMaxBodyLen => n \in Word) /\ 0 \in Word
    <3>1. kMaxBodyLen \in Nat /\ kMaxBodyLen <= 65535 /\ 2^16 = 65536
      BY Constants
    <3>2. n \in 1..kMaxBodyLen => n \in Nat /\ n < 65536
      <4> HIDE DEF n
      <4> QED
        BY <3>1
    <3> HIDE DEF n
    <3> QED
      BY <3>1, <3>2 DEF Word
  <2>2. e \in Deframers /\ g \in Deframers
    BY <1>3
  <2>3. FeedByte(d, byte) = IF n \in 1..kMaxBodyLen THEN [f EXCEPT !.body = <<>>]
                            ELSE [g EXCEPT !.length = 0]
    BY <1>8 DEF AcceptLength, FeedByte
  <2> HIDE DEF n, e, g
  <2>5. n \in 1..kMaxBodyLen => f \in Deframers
    BY <2>1, <2>2, SetOne
  <2>6. [g EXCEPT !.length = 0] \in Deframers
    BY <2>1, <2>2, SetOne
  <2> HIDE DEF f
  <2>7. n \in 1..kMaxBodyLen => [f EXCEPT !.body = <<>>] \in Deframers
    <3>1. <<>> \in Seq(Byte)
      OBVIOUS
    <3> QED
      BY <2>5, <3>1, SetOne
  <2> QED
    BY <1>2, <2>3, <2>6, <2>7
<1>9. CASE d.state = "body"
  <2> DEFINE b == Append(d.body, byte)
             m == [type |-> d.type, body |-> b]
             fs == Append(d.frames, m)
             e == [d EXCEPT !.state = "scan"]
             f == [e EXCEPT !.length = 0]
             g == [f EXCEPT !.body = <<>>]
  <2>1. b \in Seq(Byte) /\ <<>> \in Seq(Byte) /\ 0 \in Word
    <3>1. 0 \in Word
      BY DEF Word
    <3> QED
      BY <1>1, <3>1
  <2>2. m \in Messages
    BY <1>1, <2>1 DEF Messages, kTxEnqueue, kRxIndicate, kSetModem
  <2>3. FeedByte(d, byte) =
          IF Len(b) = d.length THEN [g EXCEPT !.frames = fs] ELSE [d EXCEPT !.body = b]
    <3>1. FeedByte(d, byte) = AcceptBody(d, byte)
      BY <1>9 DEF FeedByte
    <3> QED
      BY <3>1 DEF AcceptBody
  <2> HIDE DEF m
  <2>4. fs \in Seq(Messages)
    BY <1>1, <2>2
  <2>5. e \in Deframers
    BY <1>3
  <2> HIDE DEF b, fs, e
  <2>6. f \in Deframers
    BY <2>1, <2>5, SetOne
  <2> HIDE DEF f
  <2>7. g \in Deframers /\ [d EXCEPT !.body = b] \in Deframers
    BY <2>1, <2>6, SetOne
  <2> HIDE DEF g
  <2>8. [g EXCEPT !.frames = fs] \in Deframers
    BY <2>4, <2>7, SetOne
  <2> QED
    BY <1>2, <2>3, <2>7, <2>8
<1>10. d.state \in DeframerStates
  BY DEF Deframers, DeframerStates
<1> QED
  BY <1>5, <1>6, <1>7, <1>8, <1>9, <1>10 DEF DeframerStates

LEMMA FeedType ==
  ASSUME NEW d \in Deframers, NEW b \in Seq(Byte)
  PROVE  Feed(d, b) \in Deframers
<1> DEFINE e == [d EXCEPT !.frames = <<>>]
<1>1. e \in Deframers
  <2>1. <<>> \in Seq(Messages)
    OBVIOUS
  <2> QED
    BY <2>1, SetOne
<1>2. \A x \in Deframers : \A z \in Byte : Feeding[x][z] \in Deframers
  BY FedType
<1> HIDE DEF e
<1>3. After(Feeding, e, b) \in Deframers
  BY <1>1, <1>2, AfterType
<1> QED
  BY <1>3 DEF Feed, e

LEMMA ReaderType ==
  ASSUME NEW h \in Seq(Messages), NEW F \in Seq(Messages)
  PROVE  After(PassOn, h, F) \in Seq(Messages) /\ After(Handle, h, F) \in Seq(Messages)
<1>1. \A x \in Seq(Messages) : \A z \in Messages : PassOn[x][z] \in Seq(Messages)
  BY DEF PassOn
<1>2. \A x \in Seq(Messages) : \A z \in Messages : Handle[x][z] \in Seq(Messages)
  BY DEF Handle
<1>3. After(PassOn, h, F) \in Seq(Messages)
  BY <1>1, AfterType
<1>4. After(Handle, h, F) \in Seq(Messages)
  BY <1>2, AfterType
<1> QED
  BY <1>3, <1>4

(* First and Rest cut a sequence in two.                                   *)
LEMMA Halves ==
  ASSUME NEW s \in Seq(Byte), NEW k \in 0..Len(s)
  PROVE  SubSeq(s, 1, k) \o SubSeq(s, k + 1, Len(s)) = s
<1> DEFINE a == SubSeq(s, 1, k)
           b == SubSeq(s, k + 1, Len(s))
           n == Len(s)
<1>1. /\ a \in Seq(Byte) /\ Len(a) = k /\ \A i \in 1..k : a[i] = s[i]
      /\ b \in Seq(Byte) /\ Len(b) = n - k /\ \A i \in 1..(n - k) : b[i] = s[k + i]
  BY Cut, SMTT(30), ZenonT(30)
<1>2. n \in Nat /\ k \in Nat /\ k <= n
  OBVIOUS
<1> HIDE DEF a, b, n
<1>3. /\ a \o b \in Seq(Byte) /\ Len(a \o b) = Len(a) + Len(b)
      /\ \A j \in 1..Len(a) : (a \o b)[j] = a[j]
      /\ \A j \in 1..Len(b) : (a \o b)[Len(a) + j] = b[j]
  <2>1. a \in Seq(Byte) /\ b \in Seq(Byte)
    BY <1>1
  <2> QED
    BY <2>1, Joined
<1>4. Len(a \o b) = n
  BY <1>1, <1>2, <1>3
<1>5. ASSUME NEW i \in 1..n PROVE (a \o b)[i] = s[i]
  <2>1. CASE i <= k
    <3>1. i \in 1..k
      BY <1>2, <2>1
    <3> QED
      BY <1>1, <1>3, <3>1
  <2>2. CASE i > k
    <3> DEFINE j == i - k
    <3>1. j \in 1..(n - k) /\ i = k + j
      BY <1>2, <2>2
    <3> HIDE DEF j
    <3> QED
      BY <1>1, <1>3, <3>1
  <2>3. i <= k \/ i > k
    BY <1>2
  <2> QED
    BY <2>1, <2>2, <2>3
<1> DEFINE c == a \o b
<1>6. c \in Seq(Byte) /\ Len(c) = Len(s) /\ \A i \in 1..Len(c) : c[i] = s[i]
  BY <1>3, <1>4, <1>5 DEF n
<1> HIDE DEF c
<1>7. c = s
  BY <1>6, SeqEqual
<1> QED
  BY <1>7 DEF a, b, c, n

LEMMA Smaller ==
  ASSUME NEW a \in Int, NEW b \in Int
  PROVE  Min({a, b}) = IF a <= b THEN a ELSE b
<1>1. CASE a <= b
  <2>1. a \in {a, b} /\ \A y \in {a, b} : a <= y
    BY <1>1
  <2>2. \A x \in {a, b} : (\A y \in {a, b} : x <= y) => x = a
    BY <1>1
  <2>3. Min({a, b}) \in {a, b} /\ \A y \in {a, b} : Min({a, b}) <= y
    BY <2>1 DEF Min
  <2> QED
    BY <1>1, <2>2, <2>3
<1>2. CASE ~(a <= b)
  <2>1. b \in {a, b} /\ \A y \in {a, b} : b <= y
    BY <1>2
  <2>2. \A x \in {a, b} : (\A y \in {a, b} : x <= y) => x = b
    BY <1>2
  <2>3. Min({a, b}) \in {a, b} /\ \A y \in {a, b} : Min({a, b}) <= y
    BY <2>1 DEF Min
  <2> QED
    BY <1>2, <2>2, <2>3
<1> QED
  BY <1>1, <1>2

LEMMA FirstCuts ==
  ASSUME NEW s \in Seq(Byte), NEW n \in Int
  PROVE  \E k \in 0..Len(s) :
           /\ First(n, s) = SubSeq(s, 1, k)
           /\ n \in Nat => Rest(n, s) = SubSeq(s, k + 1, Len(s))
<1> DEFINE l == Len(s)
<1>1. l \in Nat
  OBVIOUS
<1>2. First(n, s) = SubSeq(s, 1, IF n <= l THEN n ELSE l)
  <2>1. Min({n, l}) = IF n <= l THEN n ELSE l
    BY <1>1, Smaller
  <2> QED
    BY <2>1 DEF First
<1>3. CASE n \in 0..l
  <2>1. n <= l
    BY <1>1, <1>3
  <2> QED
    BY <1>2, <1>3, <2>1 DEF Rest
<1>4. CASE n < 0
  <2>1. SubSeq(s, 1, n) = <<>> /\ SubSeq(s, 1, 0) = <<>> /\ n <= l /\ n \notin Nat
    BY <1>1, <1>4, SubSeqEmpty
  <2>2. 0 \in 0..l
    BY <1>1
  <2> QED
    BY <1>2, <2>1, <2>2
<1>5. CASE n > l
  <2>1. ~(n <= l) /\ l \in 0..l
    BY <1>1, <1>5
  <2>2. SubSeq(s, n + 1, l) = <<>> /\ SubSeq(s, l + 1, l) = <<>>
    <3> HIDE DEF l
    <3>1. l < n + 1 /\ l < l + 1 /\ n + 1 \in Int /\ l + 1 \in Int
      BY <1>1, <1>5
    <3> QED
      BY <1>1, <3>1, SubSeqEmpty
  <2> QED
    BY <1>2, <2>1, <2>2 DEF Rest
<1> QED
  BY <1>1, <1>3, <1>4, <1>5

-----------------------------------------------------------------------------
(* The state.  What writeFrame has begun on a connection, what is missing  *)
(* of its i-th frame, and whether none was given up: busy says that the    *)
(* last is still being written.                                            *)
SentRec == [msg : Uplink, put : Nat]
MsgsOf(S) == [i \in DOMAIN S |-> S[i].msg]
Lacks(S, i) == Len(EncodeFrame(S[i].msg)) - S[i].put
Intact(S, busy) == \A i \in DOMAIN S : ~(Lacks(S, i) > 0 /\ (i < Len(S) \/ ~busy))

LEMMA MsgsOfSent ==
  ASSUME NEW S \in Seq(SentRec)
  PROVE  /\ MsgsOf(S) \in Seq(Uplink) /\ MsgsOf(S) \in Seq(Good)
         /\ Len(MsgsOf(S)) = Len(S) /\ DOMAIN S = 1..Len(S) /\ Len(S) \in Nat
         /\ \A i \in 1..Len(S) : S[i] \in SentRec /\ MsgsOf(S)[i] = S[i].msg
<1> DEFINE n == Len(S)
<1>1. DOMAIN S = 1..n /\ n \in Nat /\ \A i \in 1..n : S[i] \in SentRec
  OBVIOUS
<1>2. MsgsOf(S) = [i \in 1..n |-> S[i].msg]
  BY <1>1 DEF MsgsOf
<1>3. \A i \in 1..n : S[i].msg \in Uplink /\ S[i].msg \in Good
  BY <1>1, MessagesGood DEF SentRec
<1>4. MsgsOf(S) \in [1..n -> Uplink] /\ MsgsOf(S) \in [1..n -> Good]
  BY <1>2, <1>3
<1> HIDE DEF n
<1>5. MsgsOf(S) \in Seq(Uplink) /\ MsgsOf(S) \in Seq(Good) /\ Len(MsgsOf(S)) = n
  BY <1>1, <1>4
<1> QED
  BY <1>1, <1>2, <1>5 DEF n

LEMMA MsgsOfMore ==
  ASSUME NEW S \in Seq(SentRec), NEW m \in Uplink
  PROVE  /\ Append(S, [msg |-> m, put |-> 0]) \in Seq(SentRec)
         /\ MsgsOf(Append(S, [msg |-> m, put |-> 0])) = Append(MsgsOf(S), m)
         /\ Append(S, [msg |-> m, put |-> 0]) # <<>>
         /\ Lacks(Append(S, [msg |-> m, put |-> 0]), Len(Append(S, [msg |-> m, put |-> 0])))
              = Len(EncodeFrame(m))
         /\ Intact(Append(S, [msg |-> m, put |-> 0]), TRUE) => Intact(S, FALSE)
<1> DEFINE e == [msg |-> m, put |-> 0]
           T == Append(S, e)
           n == Len(S)
           A == MsgsOf(S)
<1>1. e \in SentRec /\ e.msg = m /\ e.put = 0
  BY DEF SentRec
<1>2. /\ T \in Seq(SentRec) /\ Len(T) = n + 1 /\ T # <<>> /\ n \in Nat
      /\ \A i \in 1..n : T[i] = S[i]
      /\ T[n + 1] = e
  <2> HIDE DEF e
  <2> QED
    BY <1>1, AppendProperties
<1> HIDE DEF e, T
<1>3. /\ A \in Seq(Uplink) /\ Len(A) = n /\ DOMAIN S = 1..n
      /\ \A i \in 1..n : A[i] = S[i].msg
  BY MsgsOfSent
<1>4. /\ MsgsOf(T) \in Seq(Uplink) /\ Len(MsgsOf(T)) = n + 1 /\ DOMAIN T = 1..(n + 1)
      /\ \A i \in 1..(n + 1) : MsgsOf(T)[i] = T[i].msg
  BY <1>2, MsgsOfSent
<1>5. /\ Append(A, m) \in Seq(Uplink) /\ Len(Append(A, m)) = n + 1
      /\ \A i \in 1..n : Append(A, m)[i] = A[i]
      /\ Append(A, m)[n + 1] = m
  <2> HIDE DEF A
  <2> QED
    BY <1>3, AppendProperties
<1> HIDE DEF n, A
<1>6. ASSUME NEW i \in 1..(n + 1) PROVE MsgsOf(T)[i] = Append(A, m)[i]
  <2>1. CASE i = n + 1
    BY <1>1, <1>2, <1>4, <1>5, <2>1
  <2>2. CASE i \in 1..n
    BY <1>2, <1>3, <1>4, <1>5, <2>2
  <2>3. i = n + 1 \/ i \in 1..n
    BY <1>2
  <2> QED
    BY <2>1, <2>2, <2>3
<1>7. MsgsOf(T) = Append(A, m)
  <2> DEFINE x == MsgsOf(T)
             y == Append(A, m)
  <2>1. x \in Seq(Uplink) /\ y \in Seq(Uplink) /\ Len(x) = Len(y)
        /\ \A i \in 1..Len(x) : x[i] = y[i]
    BY <1>4, <1>5, <1>6
  <2> HIDE DEF x, y
  <2>2. x = y
    BY <2>1, SeqEqual
  <2> QED
    BY <2>2 DEF x, y
<1>8. Lacks(T, Len(T)) = Len(EncodeFrame(m))
  <2>1. m \in Good
    BY MessagesGood
  <2>2. Len(EncodeFrame(m)) \in Nat
    BY <2>1, Encoded
  <2>3. Lacks(T, Len(T)) = Len(EncodeFrame(m)) - 0
    BY <1>1, <1>2 DEF Lacks
  <2> QED
    BY <2>2, <2>3
<1>9. ASSUME Intact(T, TRUE) PROVE Intact(S, FALSE)
  <2>1. ASSUME NEW i \in 1..n PROVE ~(Lacks(S, i) > 0)
    <3>1. i \in 1..(n + 1) /\ i < n + 1
      BY <1>2
    <3>2. Lacks(T, i) = Lacks(S, i)
      BY <1>2 DEF Lacks
    <3> QED
      BY <1>2, <1>4, <1>9, <3>1, <3>2 DEF Intact
  <2> QED
    BY <1>3, <2>1 DEF Intact
<1> QED
  BY <1>2, <1>7, <1>8, <1>9 DEF T, e, A

LEMMA MsgsOfPut ==
  ASSUME NEW S \in Seq(SentRec), S # <<>>, NEW x \in Nat,
         NEW e, e = [msg |-> S[Len(S)].msg, put |-> S[Len(S)].put + x],
         NEW T, T = [S EXCEPT ![Len(S)] = e]
  PROVE  /\ T \in Seq(SentRec) /\ T # <<>>
         /\ MsgsOf(T) = MsgsOf(S)
         /\ Lacks(T, Len(T)) = Lacks(S, Len(S)) - x
         /\ Intact(T, TRUE) \/ Intact(T, FALSE) => Intact(S, TRUE)
<1> DEFINE n == Len(S)
<1>1. /\ n \in Nat /\ n >= 1 /\ n \in 1..n /\ DOMAIN S = 1..n
      /\ \A i \in 1..n : S[i] \in SentRec
  <2>1. n # 0
    BY EmptySeq
  <2> QED
    BY <2>1
<1>2. e \in SentRec /\ e.msg = S[n].msg /\ e.put = S[n].put + x /\ S[n].put \in Nat
  <2>1. S[n] \in [msg : Uplink, put : Nat]
    BY <1>1 DEF SentRec
  <2>2. S[n].put + x \in Nat
    BY <2>1
  <2> QED
    BY <2>1, <2>2 DEF SentRec
<1>3. T = [S EXCEPT ![n] = e]
  OBVIOUS
<1>4. /\ T \in Seq(SentRec) /\ Len(T) = n
      /\ \A i \in 1..n : T[i] = IF i = n THEN e ELSE S[i]
  BY <1>1, <1>2, <1>3, ExceptSeq
<1>5. T # <<>>
  BY <1>1, <1>4, EmptySeq
<1>6. /\ MsgsOf(S) \in Seq(Uplink) /\ Len(MsgsOf(S)) = n
      /\ \A i \in 1..n : MsgsOf(S)[i] = S[i].msg
  BY MsgsOfSent
<1>7. /\ MsgsOf(T) \in Seq(Uplink) /\ Len(MsgsOf(T)) = n /\ DOMAIN T = 1..n
      /\ \A i \in 1..n : MsgsOf(T)[i] = T[i].msg
  BY <1>4, MsgsOfSent
<1>8. MsgsOf(T) = MsgsOf(S)
  <2> DEFINE y == MsgsOf(T)
             z == MsgsOf(S)
  <2>1. \A i \in 1..n : y[i] = z[i]
    BY <1>2, <1>4, <1>6, <1>7
  <2>2. y \in Seq(Uplink) /\ z \in Seq(Uplink) /\ Len(y) = Len(z) /\ Len(y) = n
    BY <1>6, <1>7
  <2> HIDE DEF y, z
  <2>3. y = z
    BY <2>1, <2>2, SeqEqual
  <2> QED
    BY <2>3 DEF y, z
<1>9. Lacks(T, Len(T)) = Lacks(S, n) - x
  <2>1. S[n].msg \in Good
    BY <1>1, MessagesGood DEF SentRec
  <2> DEFINE l == Len(EncodeFrame(S[n].msg))
             p == S[n].put
  <2>2. l \in Nat
    BY <2>1, Encoded
  <2>3. Lacks(T, Len(T)) = l - (p + x) /\ Lacks(S, n) = l - p /\ p \in Nat
    BY <1>1, <1>2, <1>4 DEF Lacks
  <2> HIDE DEF l, p
  <2> QED
    BY <2>2, <2>3
<1>10. ASSUME Intact(T, TRUE) \/ Intact(T, FALSE) PROVE Intact(S, TRUE)
  <2>1. ASSUME NEW i \in 1..n, i < n PROVE ~(Lacks(S, i) > 0)
    <3>1. Lacks(T, i) = Lacks(S, i)
      <4>1. i # n
        <5> HIDE DEF n
        <5>1. n \in Int /\ i \in Int /\ i < n
          BY <1>1, <2>1
        <5> QED
          BY <5>1
      <4> QED
        BY <1>4, <4>1 DEF Lacks
    <3> QED
      BY <1>4, <1>7, <1>10, <2>1, <3>1 DEF Intact
  <2> QED
    BY <1>1, <2>1 DEF Intact
<1> QED
  BY <1>4, <1>5, <1>8, <1>9, <1>10 DEF n

LEMMA GivenUp ==
  ASSUME NEW S \in Seq(SentRec), S # <<>>, Lacks(S, Len(S)) > 0
  PROVE  ~Intact(S, FALSE)
<1>1. Len(S) \in DOMAIN S
  <2>1. Len(S) # 0 /\ Len(S) \in Nat /\ DOMAIN S = 1..Len(S)
    BY EmptySeq
  <2> QED
    BY <2>1
<1> QED
  BY <1>1 DEF Intact

(* Connections waiting in turn.                                            *)
In(c, b) == \E i \in 1..Len(b) : b[i] = c
InTurn(b, lo, hi) ==
  \A i \in 1..Len(b) : /\ lo < b[i] /\ b[i] <= hi
                       /\ \A j \in 1..Len(b) : i < j => b[i] < b[j]

LEMMA TurnAppend ==
  ASSUME NEW b \in Seq(Nat), NEW lo \in Nat, NEW hi \in Nat, lo <= hi, InTurn(b, lo, hi)
  PROVE  /\ InTurn(Append(b, hi + 1), lo, hi + 1)
         /\ \A c : In(c, Append(b, hi + 1)) <=> In(c, b) \/ c = hi + 1
<1> DEFINE x == hi + 1
           e == Append(b, x)
           n == Len(b)
<1>1. /\ e \in Seq(Nat) /\ Len(e) = n + 1 /\ n \in Nat
      /\ \A i \in 1..n : e[i] = b[i] /\ b[i] \in Nat
      /\ e[n + 1] = x /\ x \in Nat
  <2>1. x \in Nat
    OBVIOUS
  <2> HIDE DEF x
  <2> QED
    BY <2>1, AppendProperties
<1>2. \A i \in 1..n : /\ lo < b[i] /\ b[i] <= hi
                      /\ \A j \in 1..n : i < j => b[i] < b[j]
  BY DEF InTurn
<1>3. x > hi /\ x > lo
  OBVIOUS
<1>4. \A i \in 1..(n + 1) : i \in 1..n \/ i = n + 1
  BY <1>1
<1> HIDE DEF e, n
<1>5. \A i \in 1..n : b[i] < x /\ b[i] <= x
  BY <1>1, <1>2
<1> HIDE DEF x
<1>6. ASSUME NEW i \in 1..(n + 1)
      PROVE  lo < e[i] /\ e[i] <= x /\ \A j \in 1..(n + 1) : i < j => e[i] < e[j]
  <2>1. CASE i \in 1..n
    <3>1. ASSUME NEW j \in 1..(n + 1), i < j PROVE e[i] < e[j]
      <4>1. CASE j \in 1..n
        BY <1>1, <1>2, <2>1, <3>1, <4>1
      <4>2. CASE j = n + 1
        BY <1>1, <1>5, <2>1, <4>2
      <4> QED
        BY <1>4, <4>1, <4>2
    <3> QED
      BY <1>1, <1>2, <1>5, <2>1, <3>1
  <2>2. CASE i = n + 1
    <3>1. \A j \in 1..(n + 1) : ~(i < j)
      BY <1>1, <2>2
    <3> QED
      BY <1>1, <1>3, <2>2, <3>1
  <2> QED
    BY <1>4, <2>1, <2>2
<1>7. ASSUME NEW c PROVE In(c, e) <=> In(c, b) \/ c = x
  <2>1. \A i \in 1..n : i \in 1..(n + 1)
    BY <1>1
  <2>2. n + 1 \in 1..(n + 1)
    BY <1>1
  <2> QED
    BY <1>1, <1>4, <2>1, <2>2 DEF In, n
<1>8. InTurn(e, lo, x)
  BY <1>1, <1>6 DEF InTurn
<1> QED
  BY <1>7, <1>8 DEF e, x

LEMMA TurnTail ==
  ASSUME NEW b \in Seq(Nat), b # <<>>, NEW lo \in Nat, NEW hi \in Nat, InTurn(b, lo, hi)
  PROVE  /\ InTurn(Tail(b), Head(b), hi)
         /\ lo < Head(b) /\ Head(b) <= hi /\ Head(b) \in Nat
         /\ \A c : In(c, b) <=> c = Head(b) \/ In(c, Tail(b))
         /\ ~In(Head(b), Tail(b))
<1> DEFINE t == Tail(b)
           n == Len(b)
           m == Len(t)
<1>1. n \in Nat /\ n >= 1
  <2>1. n # 0
    BY EmptySeq
  <2> QED
    BY <2>1
<1>2. /\ Head(b) = b[1] /\ t \in Seq(Nat) /\ m = n - 1
      /\ \A i \in 1..m : t[i] = b[i + 1]
      /\ \A i \in 1..n : b[i] \in Nat
  BY HeadTailProperties
<1>3. \A i \in 1..n : /\ lo < b[i] /\ b[i] <= hi
                      /\ \A j \in 1..n : i < j => b[i] < b[j]
  BY DEF InTurn
<1> HIDE DEF t, n, m
<1>4. /\ 1 \in 1..n /\ \A i \in 1..m : i + 1 \in 1..n /\ 1 < i + 1
      /\ \A i \in 1..n : i = 1 \/ (i - 1 \in 1..m /\ i - 1 + 1 = i)
  BY <1>1, <1>2
<1>5. \A i \in 1..m : \A j \in 1..m : i < j => i + 1 < j + 1
  BY <1>1, <1>2
<1>6. ASSUME NEW i \in 1..m
      PROVE  b[1] < t[i] /\ t[i] <= hi /\ \A j \in 1..m : i < j => t[i] < t[j]
  BY <1>2, <1>3, <1>4, <1>5, SMTT(30), ZenonT(30)
<1>7. InTurn(t, b[1], hi)
  BY <1>6 DEF InTurn, m
<1>8. \A c : In(c, b) <=> c = b[1] \/ In(c, t)
  <2>1. ASSUME NEW c, In(c, b) PROVE c = b[1] \/ In(c, t)
    <3>1. PICK i \in 1..n : b[i] = c
      BY <2>1 DEF In, n
    <3>2. i = 1 \/ (i - 1 \in 1..m /\ t[i - 1] = b[i])
      BY <1>2, <1>4
    <3> QED
      BY <3>1, <3>2 DEF In, m
  <2>2. ASSUME NEW c, c = b[1] \/ In(c, t) PROVE In(c, b)
    BY <1>2, <1>4, <2>2 DEF In, m, n
  <2> QED
    BY <2>1, <2>2
<1>9. ~In(b[1], t)
  <2>1. \A i \in 1..m : b[1] < t[i] /\ t[i] \in Nat /\ b[1] \in Nat
    BY <1>2, <1>4, <1>6
  <2>2. \A i \in 1..m : t[i] # b[1]
    BY <2>1
  <2> QED
    BY <2>2 DEF In, m
<1>10. lo < b[1] /\ b[1] <= hi /\ b[1] \in Nat
  BY <1>2, <1>3, <1>4
<1> QED
  BY <1>2, <1>7, <1>8, <1>9, <1>10 DEF t

-----------------------------------------------------------------------------
(* The inductive invariant.                                                *)
LinkTypes ==
  /\ node \in {"up", "down"} /\ conn \in 0..MaxConns /\ client \in 0..MaxConns
  /\ writing \in Seq(Byte) /\ out \in Seq(Byte)
  /\ rx_thread \in {"reads", "gone"} /\ g_running \in BOOLEAN
  /\ pc \in {"accept", "read", "drain", "write", "exit"}
  /\ deframer \in Deframers /\ node_deframer \in Deframers
  /\ up \in [Conns -> Seq(Byte)] /\ down \in [Conns -> Seq(Byte)]
  /\ node_end \in [Conns -> {"none", "open", "closed"}]
  /\ phy_end \in [Conns -> {"none", "open", "closed"}]
  /\ backlog \in Seq(Conns)
  /\ sent \in [Conns -> Seq(SentRec)] /\ told \in [Conns -> Seq(Downlink)]
  /\ handled \in [Conns -> Seq(Messages)] /\ got \in [Conns -> Seq(Messages)]

Unused(c) ==
  /\ up[c] = <<>> /\ sent[c] = <<>> /\ handled[c] = <<>>
  /\ down[c] = <<>> /\ told[c] = <<>> /\ got[c] = <<>>

(* What is still to be written lacks to the last frame begun; connections  *)
(* are accepted in the order in which they were made.                      *)
LinkShape ==
  /\ node = "up" => conn # 0
  /\ node = "down" => writing = <<>> /\ rx_thread = "gone"
  /\ writing # <<>> => /\ node = "up" /\ sent[conn] # <<>>
                       /\ Lacks(sent[conn], Len(sent[conn])) = Len(writing)
  /\ pc = "write" => client # 0
  /\ pc # "write" => out = <<>>
  /\ \A c \in Conns : c > conn => Unused(c)
  /\ client <= conn /\ InTurn(backlog, client, conn)

(* The connections that the daemon still reads or will read.               *)
Open(c) == c = client \/ In(c, backlog)

(* What the node has written or is about to write, and the daemon has not  *)
(* read; and the other way round.                                          *)
Busy(c) == c = conn /\ writing # <<>>
Phy(c) == IF c = client THEN deframer ELSE Fresh
UpStream(c) == up[c] \o (IF c = conn THEN writing ELSE <<>>)
DownStream(c) == down[c] \o (IF c = client THEN out ELSE <<>>)

Going(open, d, r, M, h) ==
  UpTo(h, M, Len(h) + 1) /\ (open => Tracks(d, r, M, h))
UpIn(c) ==
  Intact(sent[c], Busy(c)) =>
    Going(Open(c), Phy(c), UpStream(c), MsgsOf(sent[c]), handled[c])
DownIn(c) ==
  /\ UpTo(got[c], told[c], Len(got[c]) + 1)
  /\ c = conn /\ rx_thread = "reads" =>
       Follows(node_deframer, DownStream(c), told[c], got[c], Open(c))

LinkInv ==
  /\ LinkTypes /\ LinkShape
  /\ \A c \in Conns : UpIn(c) /\ DownIn(c)

LEMMA FreshType == Fresh \in Deframers /\ Fresh.state = "scan"
<1>1. 0 \in Word
  <2>1. 0 < 65536 /\ 2^16 = 65536
    OBVIOUS
  <2> QED
    BY <2>1 DEF Word
<1>2. <<>> \in Seq(Byte) /\ <<>> \in Seq(Messages)
  OBVIOUS
<1> QED
  BY <1>1, <1>2 DEF Fresh, Deframers

LEMMA FollowsLess ==
  ASSUME NEW d, NEW r, NEW M, NEW h, NEW a, NEW b, b => a, Follows(d, r, M, h, a)
  PROVE  Follows(d, r, M, h, b)
BY DEF Follows

LEMMA UpKept ==
  ASSUME NEW c, UpIn(c),
         Intact(sent[c], Busy(c))' => Intact(sent[c], Busy(c)),
         MsgsOf(sent[c])' = MsgsOf(sent[c]), handled[c]' = handled[c],
         Open(c)' => Open(c) /\ Phy(c)' = Phy(c) /\ UpStream(c)' = UpStream(c)
  PROVE  UpIn(c)'
BY DEF UpIn, Going

LEMMA DownKept ==
  ASSUME NEW c, DownIn(c), told[c]' = told[c], got[c]' = got[c],
         c = conn' /\ rx_thread' = "reads" =>
           /\ c = conn /\ rx_thread = "reads" /\ node_deframer' = node_deframer
           /\ DownStream(c)' = DownStream(c) /\ (Open(c)' => Open(c))
  PROVE  DownIn(c)'
BY FollowsLess DEF DownIn

(* A connection that was never used.                                       *)
LEMMA NothingSent ==
  ASSUME NEW d \in Deframers, d.state = "scan"
  PROVE  /\ MsgsOf(<<>>) = <<>> /\ UpTo(<<>>, <<>>, Len(<<>>) + 1)
         /\ <<>> \o <<>> = <<>>
         /\ Tracks(d, <<>>, <<>>, <<>>)
         /\ Follows(d, <<>>, <<>>, <<>>, TRUE)
<1>1. Tracks(d, <<>>, <<>>, <<>>)
  BY Nothing
<1>2. MsgsOf(<<>>) = <<>>
  BY DEF MsgsOf
<1>3. UpTo(<<>>, <<>>, Len(<<>>) + 1)
  BY DEF UpTo
<1>4. <<>> \o <<>> = <<>>
  OBVIOUS
<1> QED
  BY <1>1, <1>2, <1>3, <1>4 DEF Tracks

LEMMA InitInv ==
  ASSUME Init
  PROVE  LinkInv
<1>1. LinkTypes
  BY FreshType, Constants DEF Init, LinkTypes
<1>2. LinkShape
  <2>1. InTurn(<<>>, 0, 0)
    BY DEF InTurn
  <2> QED
    BY <2>1 DEF Init, LinkShape, Unused
<1>3. ASSUME NEW c \in Conns PROVE UpIn(c) /\ DownIn(c)
  <2>1. c # 0
    BY Constants DEF Conns
  <2>2. ~In(c, <<>>)
    BY DEF In
  <2>3. ~Open(c)
    BY <2>1, <2>2 DEF Init, Open
  <2>4. UpTo(<<>>, <<>>, Len(<<>>) + 1) /\ MsgsOf(<<>>) = <<>>
    BY NothingSent, FreshType
  <2> QED
    BY <2>1, <2>3, <2>4 DEF Init, UpIn, DownIn, Going
<1> QED
  BY <1>1, <1>2, <1>3 DEF LinkInv

LEMMA UpSame ==
  ASSUME NEW c, UpIn(c),
         UNCHANGED <<sent, conn, writing, handled, client, backlog, deframer, up>>
  PROVE  UpIn(c)'
BY DEF UpIn, Busy, Open, Phy, UpStream

LEMMA DownSame ==
  ASSUME NEW c, DownIn(c),
         UNCHANGED <<conn, rx_thread, got, told, node_deframer, down, client, out, backlog>>
  PROVE  DownIn(c)'
BY DEF DownIn, Open, DownStream

LEMMA ConnectKeeps ==
  ASSUME LinkInv, Connect
  PROVE  LinkInv'
<1> DEFINE k == conn + 1
<1>1. LinkTypes /\ LinkShape
  BY DEF LinkInv
<1>2. /\ node = "down" /\ conn < MaxConns /\ writing = <<>> /\ rx_thread = "gone"
      /\ conn \in Nat /\ MaxConns \in Nat /\ k \in Conns /\ k \in 0..MaxConns /\ k # 0
      /\ client \in Nat /\ client <= conn /\ client # k
  BY <1>1, Constants DEF Connect, LinkTypes, LinkShape, Conns
<1>3. /\ conn' = k /\ node' = "up" /\ rx_thread' = "reads" /\ node_deframer' = Fresh
      /\ backlog' = Append(backlog, k) /\ node_end' = [node_end EXCEPT ![k] = "open"]
      /\ UNCHANGED <<writing, sent, got, up, down, phy_end>>
      /\ UNCHANGED <<client, pc, deframer, out, g_running, handled, told>>
  BY DEF Connect, phyVars
<1>4. Unused(k)
  BY <1>1, <1>2 DEF LinkShape
<1>5. /\ backlog \in Seq(Nat) /\ backlog \in Seq(Conns)
      /\ InTurn(backlog, client, conn)
  <2>1. backlog \in Seq(Conns) /\ Conns \subseteq Nat
    BY <1>1 DEF LinkTypes, Conns
  <2> QED
    BY <1>1, <2>1, SeqMonotonic DEF LinkShape
<1>6. /\ InTurn(Append(backlog, k), client, k)
      /\ \A c : In(c, Append(backlog, k)) <=> In(c, backlog) \/ c = k
  BY <1>2, <1>5, TurnAppend
<1>7. Append(backlog, k) \in Seq(Conns)
  <2> HIDE DEF k
  <2> QED
    BY <1>2, <1>5
<1>8. LinkTypes'
  <2>1. [node_end EXCEPT ![k] = "open"] \in [Conns -> {"none", "open", "closed"}]
    BY <1>1 DEF LinkTypes
  <2> HIDE DEF k
  <2> QED
    BY <1>1, <1>2, <1>3, <1>7, <2>1, FreshType DEF LinkTypes
<1>9. LinkShape'
  <2>1. \A c \in Conns : c > k => c > conn
    BY <1>2 DEF Conns
  <2>2. \A c \in Conns : c > k => Unused(c)'
    BY <1>1, <1>3, <2>1 DEF LinkShape, Unused
  <2>3. client <= k
    BY <1>2
  <2> HIDE DEF k
  <2> QED
    BY <1>1, <1>2, <1>3, <1>6, <2>2, <2>3 DEF LinkShape
<1> HIDE DEF k
<1>10. ASSUME NEW c \in Conns PROVE UpIn(c)' /\ DownIn(c)'
  <2>1. UpIn(c) /\ DownIn(c)
    BY DEF LinkInv
  <2>2. CASE c # k
    <3>1. Intact(sent[c], Busy(c))' <=> Intact(sent[c], Busy(c))
      BY <1>2, <1>3 DEF Busy
    <3>2. Open(c)' <=> Open(c)
      BY <1>3, <1>6, <2>2 DEF Open
    <3>3. Phy(c)' = Phy(c) /\ UpStream(c)' = UpStream(c)
      BY <1>2, <1>3 DEF Phy, UpStream
    <3>4. UpIn(c)'
      BY <1>3, <2>1, <3>1, <3>2, <3>3, UpKept
    <3>5. DownIn(c)'
      BY <1>3, <2>1, <2>2, DownKept
    <3> QED
      BY <3>4, <3>5
  <2>3. CASE c = k
    <3>1. /\ sent'[c] = <<>> /\ handled'[c] = <<>> /\ up'[c] = <<>>
          /\ down'[c] = <<>> /\ told'[c] = <<>> /\ got'[c] = <<>>
      BY <1>3, <1>4, <2>3 DEF Unused
    <3>2. c # client' /\ writing' = <<>>
      BY <1>2, <1>3, <2>3
    <3>3. Phy(c)' = Fresh /\ UpStream(c)' = <<>> \o <<>>
      BY <3>1, <3>2 DEF Phy, UpStream
    <3>4. DownStream(c)' = <<>> \o <<>>
      BY <3>1, <3>2 DEF DownStream
    <3>5. /\ MsgsOf(<<>>) = <<>> /\ UpTo(<<>>, <<>>, Len(<<>>) + 1)
          /\ <<>> \o <<>> = <<>>
          /\ Tracks(Fresh, <<>>, <<>>, <<>>) /\ Follows(Fresh, <<>>, <<>>, <<>>, TRUE)
      BY NothingSent, FreshType
    <3>6. UpIn(c)'
      BY <3>1, <3>3, <3>5 DEF UpIn, Going
    <3>7. Follows(Fresh, <<>>, <<>>, <<>>, Open(c)')
      BY <3>5, FollowsLess
    <3>8. DownIn(c)'
      BY <1>3, <3>1, <3>4, <3>5, <3>7 DEF DownIn
    <3> QED
      BY <3>6, <3>8
  <2> QED
    BY <2>2, <2>3
<1> QED
  BY <1>8, <1>9, <1>10 DEF LinkInv

LEMMA NodeDiesKeeps ==
  ASSUME LinkInv, NodeDies
  PROVE  LinkInv'
<1>1. LinkTypes /\ LinkShape
  BY DEF LinkInv
<1>2. /\ node' = "down" /\ writing' = <<>> /\ rx_thread' = "gone"
      /\ node_end' = [node_end EXCEPT ![conn] = "closed"]
      /\ UNCHANGED <<conn, node_deframer, sent, got, up, down, phy_end, backlog>>
      /\ UNCHANGED <<client, pc, deframer, out, g_running, handled, told>>
  BY DEF NodeDies, phyVars
<1>3. LinkTypes'
  <2>1. [node_end EXCEPT ![conn] = "closed"] \in [Conns -> {"none", "open", "closed"}]
    BY <1>1 DEF LinkTypes
  <2>2. <<>> \in Seq(Byte)
    OBVIOUS
  <2> QED
    BY <1>1, <1>2, <2>1, <2>2 DEF LinkTypes
<1>4. LinkShape'
  BY <1>1, <1>2 DEF LinkShape, Unused
<1>5. ASSUME NEW c \in Conns PROVE UpIn(c)' /\ DownIn(c)'
  <2>1. UpIn(c) /\ DownIn(c)
    BY DEF LinkInv
  <2>2. DownIn(c)'
    BY <1>2, <2>1, DownKept
  <2>3. CASE writing = <<>>
    BY <1>2, <2>1, <2>2, <2>3, UpSame
  <2>4. CASE writing # <<>> /\ c = conn
    <3>1. /\ sent[c] \in Seq(SentRec) /\ sent[c] # <<>>
          /\ Lacks(sent[c], Len(sent[c])) = Len(writing) /\ writing \in Seq(Byte)
      BY <1>1, <2>4 DEF LinkShape, LinkTypes
    <3>2. Len(writing) > 0
      BY <2>4, <3>1, EmptySeq
    <3>3. ~Intact(sent[c], FALSE)
      BY <3>1, <3>2, GivenUp
    <3>4. sent'[c] = sent[c] /\ Busy(c)' = FALSE
      BY <1>2 DEF Busy
    <3>5. UpIn(c)'
      BY <3>3, <3>4 DEF UpIn
    <3> QED
      BY <2>2, <3>5
  <2>5. CASE c # conn
    <3>1. Busy(c)' = Busy(c) /\ Open(c)' = Open(c) /\ Phy(c)' = Phy(c)
          /\ UpStream(c)' = UpStream(c)
      BY <1>2, <2>5 DEF Busy, Open, Phy, UpStream
    <3>2. UpIn(c)'
      BY <1>2, <2>1, <3>1, UpKept
    <3> QED
      BY <2>2, <3>2
  <2> QED
    BY <2>2, <2>3, <2>4, <2>5
<1> QED
  BY <1>3, <1>4, <1>5 DEF LinkInv

LEMMA GiveUpKeeps ==
  ASSUME LinkInv, GiveUp
  PROVE  LinkInv'
<1>1. LinkTypes /\ LinkShape
  BY DEF LinkInv
<1>2. /\ writing # <<>> /\ writing' = <<>>
      /\ UNCHANGED <<node, conn, rx_thread, node_deframer, sent, got>>
      /\ UNCHANGED <<up, down, node_end, phy_end, backlog>>
      /\ UNCHANGED <<client, pc, deframer, out, g_running, handled, told>>
  BY DEF GiveUp, phyVars, sockVars
<1>3. LinkTypes'
  <2>2. <<>> \in Seq(Byte)
    OBVIOUS
  <2> QED
    BY <1>1, <1>2, <2>2 DEF LinkTypes
<1>4. LinkShape'
  BY <1>1, <1>2 DEF LinkShape, Unused
<1>5. ASSUME NEW c \in Conns PROVE UpIn(c)' /\ DownIn(c)'
  <2>1. UpIn(c) /\ DownIn(c)
    BY DEF LinkInv
  <2>2. DownIn(c)'
    BY <1>2, <2>1, DownSame
  <2>4. CASE c = conn
    <3>1. /\ sent[c] \in Seq(SentRec) /\ sent[c] # <<>>
          /\ Lacks(sent[c], Len(sent[c])) = Len(writing) /\ writing \in Seq(Byte)
      BY <1>1, <1>2, <2>4 DEF LinkShape, LinkTypes
    <3>2. Len(writing) > 0
      BY <1>2, <3>1, EmptySeq
    <3>3. ~Intact(sent[c], FALSE)
      BY <3>1, <3>2, GivenUp
    <3>4. sent'[c] = sent[c] /\ Busy(c)' = FALSE
      BY <1>2 DEF Busy
    <3>5. UpIn(c)'
      BY <3>3, <3>4 DEF UpIn
    <3> QED
      BY <2>2, <3>5
  <2>5. CASE c # conn
    <3>1. Busy(c)' = Busy(c) /\ Open(c)' = Open(c) /\ Phy(c)' = Phy(c)
          /\ UpStream(c)' = UpStream(c)
      BY <1>2, <2>5 DEF Busy, Open, Phy, UpStream
    <3>2. UpIn(c)'
      BY <1>2, <2>1, <3>1, UpKept
    <3> QED
      BY <2>2, <3>2
  <2> QED
    BY <2>4, <2>5
<1> QED
  BY <1>3, <1>4, <1>5 DEF LinkInv

LEMMA WriteFrameKeeps ==
  ASSUME LinkInv, NEW m \in Uplink, WriteFrame(m)
  PROVE  LinkInv'
<1> DEFINE S == sent[conn]
           T == Append(S, [msg |-> m, put |-> 0])
           w == EncodeFrame(m)
<1>1. LinkTypes /\ LinkShape
  BY DEF LinkInv
<1>2. /\ node = "up" /\ writing = <<>> /\ writing' = w
      /\ sent' = [sent EXCEPT ![conn] = T]
      /\ UNCHANGED <<node, conn, rx_thread, node_deframer, got>>
      /\ UNCHANGED <<up, down, node_end, phy_end, backlog>>
      /\ UNCHANGED <<client, pc, deframer, out, g_running, handled, told>>
  BY DEF WriteFrame, phyVars, sockVars
<1>3. conn \in Conns /\ S \in Seq(SentRec)
  <2>1. conn \in Conns
    BY <1>1, <1>2, Constants DEF LinkShape, LinkTypes, Conns
  <2> QED
    BY <1>1, <2>1 DEF LinkTypes
<1>4. m \in Good /\ w \in Seq(Byte)
  <2>1. m \in Good
    BY MessagesGood
  <2> QED
    BY <2>1, Encoded
<1>5. /\ T \in Seq(SentRec) /\ MsgsOf(T) = Append(MsgsOf(S), m) /\ T # <<>>
      /\ Lacks(T, Len(T)) = Len(w)
      /\ Intact(T, TRUE) => Intact(S, FALSE)
  BY <1>3, MsgsOfMore
<1>6. /\ sent'[conn] = T /\ \A c \in Conns : c # conn => sent'[c] = sent[c]
      /\ sent' \in [Conns -> Seq(SentRec)]
  <2> HIDE DEF T, S
  <2> QED
    BY <1>1, <1>2, <1>3, <1>5 DEF LinkTypes
<1> HIDE DEF S, T, w
<1>7. LinkTypes'
  BY <1>1, <1>2, <1>4, <1>6 DEF LinkTypes
<1>8. LinkShape'
  <2>1. \A c \in Conns : c > conn => c # conn
    BY <1>1 DEF LinkTypes, Conns
  <2>2. \A c \in Conns : c > conn => Unused(c)'
    BY <1>1, <1>2, <1>6, <2>1 DEF LinkShape, Unused
  <2>3. node' # "down"
    BY <1>2
  <2> QED
    BY <1>1, <1>2, <1>5, <1>6, <2>2, <2>3 DEF LinkShape
<1>9. ASSUME NEW c \in Conns PROVE UpIn(c)' /\ DownIn(c)'
  <2>1. UpIn(c) /\ DownIn(c)
    BY DEF LinkInv
  <2>2. DownIn(c)'
    BY <1>2, <2>1, DownSame
  <2>3. CASE c # conn
    <3>1. Busy(c)' = Busy(c) /\ Open(c)' = Open(c) /\ Phy(c)' = Phy(c)
          /\ UpStream(c)' = UpStream(c) /\ sent'[c] = sent[c]
      BY <1>2, <1>6, <2>3 DEF Busy, Open, Phy, UpStream
    <3>2. UpIn(c)'
      BY <1>2, <2>1, <3>1, UpKept
    <3> QED
      BY <2>2, <3>2
  <2>4. CASE c = conn
    <3> DEFINE r == UpStream(c)
               M == MsgsOf(S)
               h == handled[c]
    <3>1. Busy(c) = FALSE /\ Phy(c)' = Phy(c) /\ Open(c)' = Open(c) /\ handled'[c] = h
      BY <1>2 DEF Busy, Phy, Open
    <3>2. Intact(sent[c], Busy(c))' => Intact(S, FALSE)
      <4>1. w # <<>>
        <5>1. Len(w) >= 7 /\ Len(w) \in Nat
          BY <1>4, Encoded, SMTT(30), ZenonT(30) DEF w
        <5>2. Len(w) # 0
          BY <5>1
        <5> QED
          BY <5>2
      <4>2. Busy(c)' = TRUE /\ sent'[c] = T
        BY <1>2, <1>6, <2>4, <4>1 DEF Busy
      <4> QED
        BY <1>5, <4>2
    <3>3. ASSUME Intact(S, FALSE) PROVE Going(Open(c), Phy(c), r, M, h)
      BY <2>1, <2>4, <3>1, <3>3 DEF UpIn, S
    <3>4. r \in Seq(Byte) /\ M \in Seq(Good) /\ h \in Seq(Messages)
      <4>1. up[c] \in Seq(Byte) /\ <<>> \in Seq(Byte) /\ h \in Seq(Messages)
        BY <1>1 DEF LinkTypes
      <4>2. r = up[c] \o <<>>
        BY <1>2 DEF UpStream
      <4> QED
        BY <1>3, <4>1, <4>2, MsgsOfSent, Joined
    <3>5. UpStream(c)' = r \o w
      <4>1. up[c] \in Seq(Byte) /\ <<>> \in Seq(Byte)
        BY <1>1 DEF LinkTypes
      <4>2. r = up[c]
        <5>1. r = up[c] \o <<>>
          BY <1>2 DEF UpStream
        <5> QED
          BY <4>1, <5>1, ConcatEmptySeq
      <4>3. UpStream(c)' = up[c] \o w
        BY <1>2, <2>4 DEF UpStream
      <4> QED
        BY <4>2, <4>3
    <3> HIDE DEF r, M, h
    <3>6. ASSUME Intact(S, FALSE)
          PROVE  Going(Open(c), Phy(c), r \o w, Append(M, m), h)
      <4> DEFINE n == Len(h) + 1
      <4>1. UpTo(h, M, n) /\ (Open(c) => Tracks(Phy(c), r, M, h))
        BY <3>3, <3>6 DEF Going
      <4> HIDE DEF n
      <4>2. UpTo(h, Append(M, m), n)
        BY <1>4, <3>4, <4>1, StillBegins
      <4>3. ASSUME Open(c) PROVE Tracks(Phy(c), r \o w, Append(M, m), h)
        BY <1>4, <3>4, <4>1, <4>3, Sending DEF w
      <4> QED
        BY <4>2, <4>3 DEF Going, n
    <3>7. MsgsOf(sent[c])' = Append(M, m)
      BY <1>5, <1>6, <2>4 DEF M
    <3>8. UpIn(c)'
      BY <3>1, <3>2, <3>5, <3>6, <3>7 DEF UpIn
    <3> QED
      BY <2>2, <3>8
  <2> QED
    BY <2>3, <2>4
<1> QED
  BY <1>7, <1>8, <1>9 DEF LinkInv

LEMMA WriteSomeKeeps ==
  ASSUME LinkInv, WriteSome
  PROVE  LinkInv'
<1> DEFINE S == sent[conn]
           n == Capacity - Len(up[conn])
           some == First(n, writing)
           x == Len(some)
           T == [S EXCEPT ![Len(S)].put = @ + x]
<1>1. LinkTypes /\ LinkShape
  BY DEF LinkInv
<1>2. /\ writing # <<>> /\ some # <<>>
      /\ writing' = Rest(x, writing)
      /\ up' = [up EXCEPT ![conn] = @ \o some]
      /\ sent' = [sent EXCEPT ![conn][Len(sent[conn])].put = @ + x]
      /\ UNCHANGED <<node, conn, rx_thread, node_deframer, got>>
      /\ UNCHANGED <<down, node_end, phy_end, backlog>>
      /\ UNCHANGED <<client, pc, deframer, out, g_running, handled, told>>
  BY DEF WriteSome, phyVars
<1>3. /\ conn \in Conns /\ S \in Seq(SentRec) /\ S # <<>> /\ writing \in Seq(Byte)
      /\ Lacks(S, Len(S)) = Len(writing) /\ up[conn] \in Seq(Byte) /\ node = "up"
  <2>1. conn \in Conns
    BY <1>1, <1>2, Constants DEF LinkShape, LinkTypes, Conns
  <2> QED
    BY <1>1, <1>2, <2>1 DEF LinkTypes, LinkShape
<1>4. PICK k \in 0..Len(writing) : some = SubSeq(writing, 1, k)
  <2>1. n \in Int
    BY <1>3, Constants
  <2> HIDE DEF n
  <2> QED
    BY <1>3, <2>1, FirstCuts
<1>5. /\ some \in Seq(Byte) /\ x = k /\ x \in Nat
      /\ writing' = SubSeq(writing, k + 1, Len(writing))
      /\ writing' \in Seq(Byte) /\ Len(writing') = Len(writing) - x
      /\ some \o writing' = writing
  <2>1. some \in Seq(Byte) /\ x = k
    <3>1. /\ SubSeq(writing, 1, k) \in Seq(Byte)
          /\ Len(SubSeq(writing, 1, k)) = k
      BY <1>3, Cut
    <3> HIDE DEF some
    <3> QED
      BY <1>4, <3>1
  <2>2. writing' = SubSeq(writing, k + 1, Len(writing))
    BY <1>2, <2>1 DEF Rest
  <2>3. writing' \in Seq(Byte) /\ Len(writing') = Len(writing) - k
    BY <1>3, <2>2, Cut
  <2>4. SubSeq(writing, 1, k) \o SubSeq(writing, k + 1, Len(writing)) = writing
    BY <1>3, Halves
  <2>5. x \in Nat
    BY <2>1
  <2>6. some \o writing' = writing
    BY <1>4, <2>2, <2>4
  <2>7. Len(writing') = Len(writing) - x
    BY <2>1, <2>3
  <2> HIDE DEF some, x
  <2> QED
    BY <2>1, <2>2, <2>3, <2>5, <2>6, <2>7
<1> HIDE DEF some, x, n
<1>6. /\ T \in Seq(SentRec) /\ T # <<>> /\ MsgsOf(T) = MsgsOf(S)
      /\ Lacks(T, Len(T)) = Lacks(S, Len(S)) - x
      /\ Intact(T, TRUE) \/ Intact(T, FALSE) => Intact(S, TRUE)
  <2> DEFINE f == S[Len(S)]
             e == [msg |-> f.msg, put |-> f.put + x]
  <2>1. S \in Seq(SentRec) /\ S # <<>> /\ x \in Nat
    BY <1>3, <1>5
  <2>2. T = [S EXCEPT ![Len(S)] = [f EXCEPT !.put = @ + x]]
    OBVIOUS
  <2> HIDE DEF S, T
  <2>3. f \in SentRec
    <3>1. Len(S) # 0 /\ Len(S) \in Nat
      BY <2>1, EmptySeq
    <3> QED
      BY <2>1, <3>1
  <2> HIDE DEF f
  <2>4. [f EXCEPT !.put = @ + x] = e
    BY <2>3 DEF SentRec
  <2>5. T = [S EXCEPT ![Len(S)] = e]
    BY <2>2, <2>4
  <2> HIDE DEF e
  <2>6. e = [msg |-> S[Len(S)].msg, put |-> S[Len(S)].put + x]
    BY DEF e, f
  <2>7. \A e0 : e0 = [msg |-> S[Len(S)].msg, put |-> S[Len(S)].put + x] =>
          \A T0 : T0 = [S EXCEPT ![Len(S)] = e0] =>
            /\ T0 \in Seq(SentRec) /\ T0 # <<>> /\ MsgsOf(T0) = MsgsOf(S)
            /\ Lacks(T0, Len(T0)) = Lacks(S, Len(S)) - x
            /\ Intact(T0, TRUE) \/ Intact(T0, FALSE) => Intact(S, TRUE)
    BY <2>1, MsgsOfPut
  <2> QED
    BY <2>5, <2>6, <2>7
<1>7. sent' = [sent EXCEPT ![conn] = T]
  BY <1>2
<1> HIDE DEF T
<1>8. /\ sent'[conn] = T /\ \A c \in Conns : c # conn => sent'[c] = sent[c]
      /\ sent' \in [Conns -> Seq(SentRec)]
  BY <1>1, <1>3, <1>6, <1>7 DEF LinkTypes
<1> HIDE DEF S
<1>9. /\ up'[conn] = up[conn] \o some /\ \A c \in Conns : c # conn => up'[c] = up[c]
      /\ up' \in [Conns -> Seq(Byte)]
  <2>1. up[conn] \o some \in Seq(Byte)
    BY <1>3, <1>5, Joined
  <2> QED
    BY <1>1, <1>2, <1>3, <2>1 DEF LinkTypes
<1>10. LinkTypes'
  BY <1>1, <1>2, <1>5, <1>8, <1>9 DEF LinkTypes
<1>11. LinkShape'
  <2>1. \A c \in Conns : c > conn => c # conn
    BY <1>1 DEF LinkTypes, Conns
  <2>2. \A c \in Conns : c > conn => Unused(c)'
    BY <1>1, <1>2, <1>8, <1>9, <2>1 DEF LinkShape, Unused
  <2>3. Lacks(T, Len(T)) = Len(writing')
    BY <1>3, <1>5, <1>6
  <2>4. writing' # <<>> => /\ node' = "up" /\ sent'[conn'] # <<>>
                           /\ Lacks(sent'[conn'], Len(sent'[conn'])) = Len(writing')
    BY <1>2, <1>3, <1>6, <1>8, <2>3
  <2>5. (Lacks(sent[conn], Len(sent[conn])))' = Lacks(sent'[conn'], Len(sent'[conn']))
    BY DEF Lacks
  <2> QED
    BY <1>1, <1>2, <1>3, <2>2, <2>4, <2>5 DEF LinkShape
<1>12. ASSUME NEW c \in Conns PROVE UpIn(c)' /\ DownIn(c)'
  <2>1. UpIn(c) /\ DownIn(c)
    BY DEF LinkInv
  <2>2. DownIn(c)'
    BY <1>2, <2>1, DownSame
  <2>3. CASE c # conn
    <3>1. Busy(c)' = Busy(c) /\ Open(c)' = Open(c) /\ Phy(c)' = Phy(c)
          /\ UpStream(c)' = UpStream(c) /\ sent'[c] = sent[c]
      BY <1>2, <1>8, <1>9, <2>3 DEF Busy, Open, Phy, UpStream
    <3>2. UpIn(c)'
      BY <1>2, <2>1, <3>1, UpKept
    <3> QED
      BY <2>2, <3>2
  <2>4. CASE c = conn
    <3>1. Phy(c)' = Phy(c) /\ Open(c)' = Open(c) /\ handled'[c] = handled[c] /\ Busy(c) = TRUE
      BY <1>2, <2>4 DEF Busy, Phy, Open
    <3>2. Intact(sent[c], Busy(c))' => Intact(sent[c], Busy(c))
      <4>1. Busy(c)' = TRUE \/ Busy(c)' = FALSE
        BY DEF Busy
      <4>2. sent'[c] = T /\ sent[c] = S
        BY <1>8, <2>4 DEF S
      <4> QED
        BY <1>6, <3>1, <4>1, <4>2
    <3>3. UpStream(c)' = UpStream(c)
      <4>1. UpStream(c)' = (up[conn] \o some) \o writing'
        BY <1>2, <1>9, <2>4 DEF UpStream
      <4>2. (up[conn] \o some) \o writing' = up[conn] \o (some \o writing')
        BY <1>3, <1>5, Associates
      <4>3. UpStream(c) = up[conn] \o writing
        BY <2>4 DEF UpStream
      <4> QED
        BY <1>5, <4>1, <4>2, <4>3
    <3>4. MsgsOf(sent[c])' = MsgsOf(sent[c])
      BY <1>6, <1>8, <2>4 DEF S
    <3>5. UpIn(c)'
      BY <2>1, <3>1, <3>2, <3>3, <3>4, UpKept
    <3> QED
      BY <2>2, <3>5
  <2> QED
    BY <2>3, <2>4
<1> QED
  BY <1>10, <1>11, <1>12 DEF LinkInv

LEMMA AllTaken ==
  /\ \A S \in Seq(SentRec) : TakesAll(Handle, MsgsOf(S)) /\ MsgsOf(S) \in Seq(Good)
  /\ \A M \in Seq(Downlink) : TakesAll(PassOn, M) /\ M \in Seq(Good)
<1>1. \A m \in Uplink : m \in Messages /\ m.type # kRxIndicate /\ Decodes(m)
  BY AirLinkAssumption
<1>2. \A m \in Downlink : m \in Messages /\ m.type = kRxIndicate /\ Decodes(m)
  BY AirLinkAssumption
<1>3. ASSUME NEW done \in Seq(Messages), NEW m \in Uplink
      PROVE  Handle[done][m] = Append(done, m)
  BY <1>1 DEF Handle
<1>4. ASSUME NEW done \in Seq(Messages), NEW m \in Downlink
      PROVE  PassOn[done][m] = Append(done, m)
  BY <1>2 DEF PassOn
<1>5. ASSUME NEW S \in Seq(SentRec)
      PROVE  TakesAll(Handle, MsgsOf(S)) /\ MsgsOf(S) \in Seq(Good)
  <2> DEFINE M == MsgsOf(S)
  <2>1. M \in Seq(Uplink) /\ M \in Seq(Good)
    BY MsgsOfSent
  <2> HIDE DEF M
  <2>2. \A i \in 1..Len(M) : M[i] \in Uplink
    BY <2>1
  <2> QED
    BY <1>3, <2>1, <2>2 DEF TakesAll, M
<1>6. ASSUME NEW M \in Seq(Downlink) PROVE TakesAll(PassOn, M) /\ M \in Seq(Good)
  <2>1. \A i \in 1..Len(M) : M[i] \in Downlink
    OBVIOUS
  <2>2. M \in Seq(Good)
    BY MessagesGood, SeqMonotonic
  <2> QED
    BY <1>4, <2>1, <2>2 DEF TakesAll
<1> QED
  BY <1>5, <1>6

LEMMA RxThreadKeeps ==
  ASSUME LinkInv, RxThread
  PROVE  LinkInv'
<1> DEFINE a == down[conn]
           e == Feed(node_deframer, First(ReadLen, a))
           o == [e EXCEPT !.frames = <<>>]
           h == got[conn]
           h2 == After(PassOn, h, e.frames)
<1>1. LinkTypes /\ LinkShape
  BY DEF LinkInv
<1>2. /\ rx_thread = "reads" /\ node_deframer' = o
      /\ got' = [got EXCEPT ![conn] = h2]
      /\ down' = [down EXCEPT ![conn] = Rest(ReadLen, a)]
      /\ UNCHANGED <<node, conn, writing, rx_thread, sent>>
      /\ UNCHANGED <<up, node_end, phy_end, backlog>>
      /\ UNCHANGED <<client, pc, deframer, out, g_running, handled, told>>
  BY DEF RxThread, phyVars
<1>3. /\ conn \in Conns /\ a \in Seq(Byte) /\ h \in Seq(Messages)
      /\ node_deframer \in Deframers /\ told[conn] \in Seq(Downlink)
  <2>1. conn \in Conns
    BY <1>1, <1>2, Constants DEF LinkShape, LinkTypes, Conns
  <2> QED
    BY <1>1, <2>1 DEF LinkTypes
<1>4. PICK k \in 0..Len(a) : /\ First(ReadLen, a) = SubSeq(a, 1, k)
                             /\ Rest(ReadLen, a) = SubSeq(a, k + 1, Len(a))
  <2>1. ReadLen \in Int /\ ReadLen \in Nat
    BY Constants
  <2> HIDE DEF a
  <2> QED
    BY <1>3, <2>1, FirstCuts
<1> DEFINE a2 == SubSeq(a, k + 1, Len(a))
<1>5. SubSeq(a, 1, k) \in Seq(Byte) /\ a2 \in Seq(Byte)
  <2> HIDE DEF a
  <2> QED
    BY <1>3, Cut
<1>6. e = Feed(node_deframer, SubSeq(a, 1, k)) /\ e \in Deframers
  BY <1>3, <1>4, <1>5, FeedType
<1> HIDE DEF a, e, o, h, h2, a2
<1>7. o \in Deframers
  <2>1. <<>> \in Seq(Messages)
    OBVIOUS
  <2> QED
    BY <1>6, <2>1, SetOne DEF o
<1>8. h2 \in Seq(Messages)
  <2>1. e.frames \in Seq(Messages)
    BY <1>6 DEF Deframers
  <2> QED
    BY <1>3, <2>1, ReaderType DEF h2
<1>9. /\ got'[conn] = h2 /\ \A c \in Conns : c # conn => got'[c] = got[c]
      /\ got' \in [Conns -> Seq(Messages)]
      /\ down'[conn] = a2 /\ \A c \in Conns : c # conn => down'[c] = down[c]
      /\ down' \in [Conns -> Seq(Byte)]
  <2>1. down' = [down EXCEPT ![conn] = a2]
    BY <1>2, <1>4 DEF a2
  <2> QED
    BY <1>1, <1>2, <1>3, <1>5, <1>8, <2>1 DEF LinkTypes
<1>10. LinkTypes'
  BY <1>1, <1>2, <1>7, <1>9 DEF LinkTypes
<1>11. LinkShape'
  <2>1. \A c \in Conns : c > conn => c # conn
    BY <1>1 DEF LinkTypes, Conns
  <2>2. \A c \in Conns : c > conn => Unused(c)'
    BY <1>1, <1>2, <1>9, <2>1 DEF LinkShape, Unused
  <2> QED
    BY <1>1, <1>2, <2>2 DEF LinkShape
<1>12. ASSUME NEW c \in Conns PROVE UpIn(c)' /\ DownIn(c)'
  <2>1. UpIn(c) /\ DownIn(c)
    BY DEF LinkInv
  <2>2. UpIn(c)'
    BY <1>2, <2>1, UpSame
  <2>3. CASE c # conn
    <3>1. DownIn(c)'
      BY <1>2, <1>9, <2>1, <2>3, DownKept
    <3> QED
      BY <2>2, <3>1
  <2>4. CASE c = conn
    <3> DEFINE w == IF c = client THEN out ELSE <<>>
               M == told[c]
               open == Open(c)
    <3>1. w \in Seq(Byte) /\ M \in Seq(Good) /\ TakesAll(PassOn, M)
      <4>1. out \in Seq(Byte) /\ <<>> \in Seq(Byte)
        BY <1>1 DEF LinkTypes
      <4> QED
        BY <1>3, <2>4, <4>1, AllTaken
    <3>2. Follows(node_deframer, a \o w, M, h, open)
      BY <1>2, <2>1, <2>4 DEF DownIn, DownStream, a, h
    <3>3. open = TRUE \/ open = FALSE
      BY DEF Open
    <3> HIDE DEF w, M, open
    <3>4. Follows(o, a2 \o w, M, h2, open)
      <4>1. AtRead(PassOn, M, a, w, k, node_deframer, h, open)
        BY <1>3, <1>4, <3>1, <3>2, <3>3 DEF AtRead
      <4>2. AfterRead(PassOn, M, a, w, k, node_deframer, h, open)
        BY <4>1, ReadOn
      <4> QED
        BY <1>6, <4>2 DEF AfterRead, a2, o, h2
    <3>5. UpTo(h2, M, Len(h2) + 1)
      BY <3>1, <3>4, FollowsBegins
    <3>6. /\ DownStream(c)' = a2 \o w /\ told'[c] = M /\ got'[c] = h2 /\ Open(c)' = open
          /\ node_deframer' = o
      BY <1>2, <1>9, <2>4 DEF DownStream, Open, w, M, open
    <3>7. DownIn(c)'
      BY <3>4, <3>5, <3>6 DEF DownIn
    <3> QED
      BY <2>2, <3>7
  <2> QED
    BY <2>3, <2>4
<1> QED
  BY <1>10, <1>11, <1>12 DEF LinkInv

LEMMA RxThreadEndsKeeps ==
  ASSUME LinkInv, RxThreadEnds
  PROVE  LinkInv'
<1>1. LinkTypes /\ LinkShape
  BY DEF LinkInv
<1>2. /\ rx_thread' = "gone"
      /\ UNCHANGED <<node, conn, writing, node_deframer, sent, got>>
      /\ UNCHANGED <<up, down, node_end, phy_end, backlog>>
      /\ UNCHANGED <<client, pc, deframer, out, g_running, handled, told>>
  BY DEF RxThreadEnds, phyVars, sockVars
<1>3. LinkTypes'
  BY <1>1, <1>2 DEF LinkTypes
<1>4. LinkShape'
  BY <1>1, <1>2 DEF LinkShape, Unused
<1>5. ASSUME NEW c \in Conns PROVE UpIn(c)' /\ DownIn(c)'
  <2>1. UpIn(c) /\ DownIn(c)
    BY DEF LinkInv
  <2>2. UpIn(c)'
    BY <1>2, <2>1, UpSame
  <2>3. DownIn(c)'
    BY <1>2, <2>1, DownKept
  <2> QED
    BY <2>2, <2>3
<1> QED
  BY <1>3, <1>4, <1>5 DEF LinkInv

LEMMA ReadClientKeeps ==
  ASSUME LinkInv, ReadClient
  PROVE  LinkInv'
<1> DEFINE a == up[client]
           e == Feed(deframer, First(ReadLen, a))
           o == [e EXCEPT !.frames = <<>>]
           h == handled[client]
           h2 == After(Handle, h, e.frames)
<1>1. LinkTypes /\ LinkShape
  BY DEF LinkInv
<1>2. /\ pc = "read" /\ client # 0 /\ pc' = "drain" /\ deframer' = o
      /\ handled' = [handled EXCEPT ![client] = h2]
      /\ up' = [up EXCEPT ![client] = Rest(ReadLen, a)]
      /\ UNCHANGED <<node, conn, writing, rx_thread, node_deframer, sent, got>>
      /\ UNCHANGED <<client, out, g_running, told, down, node_end, phy_end, backlog>>
  BY DEF ReadClient, nodeVars
<1>3. /\ client \in Conns /\ a \in Seq(Byte) /\ h \in Seq(Messages)
      /\ deframer \in Deframers /\ out = <<>> /\ client <= conn
  <2>1. client \in Conns
    BY <1>1, <1>2, Constants DEF LinkTypes, Conns
  <2> QED
    BY <1>1, <1>2, <2>1 DEF LinkTypes, LinkShape
<1>4. PICK k \in 0..Len(a) : /\ First(ReadLen, a) = SubSeq(a, 1, k)
                             /\ Rest(ReadLen, a) = SubSeq(a, k + 1, Len(a))
  <2>1. ReadLen \in Int /\ ReadLen \in Nat
    BY Constants
  <2> HIDE DEF a
  <2> QED
    BY <1>3, <2>1, FirstCuts
<1> DEFINE a2 == SubSeq(a, k + 1, Len(a))
<1>5. SubSeq(a, 1, k) \in Seq(Byte) /\ a2 \in Seq(Byte)
  <2> HIDE DEF a
  <2> QED
    BY <1>3, Cut
<1>6. e = Feed(deframer, SubSeq(a, 1, k)) /\ e \in Deframers
  BY <1>3, <1>4, <1>5, FeedType
<1> HIDE DEF a, e, o, h, h2, a2
<1>7. o \in Deframers
  <2>1. <<>> \in Seq(Messages)
    OBVIOUS
  <2> QED
    BY <1>6, <2>1, SetOne DEF o
<1>8. h2 \in Seq(Messages)
  <2>1. e.frames \in Seq(Messages)
    BY <1>6 DEF Deframers
  <2> QED
    BY <1>3, <2>1, ReaderType DEF h2
<1>9. /\ handled'[client] = h2 /\ \A c \in Conns : c # client => handled'[c] = handled[c]
      /\ handled' \in [Conns -> Seq(Messages)]
      /\ up'[client] = a2 /\ \A c \in Conns : c # client => up'[c] = up[c]
      /\ up' \in [Conns -> Seq(Byte)]
  <2>1. up' = [up EXCEPT ![client] = a2]
    BY <1>2, <1>4 DEF a2
  <2> QED
    BY <1>1, <1>2, <1>3, <1>5, <1>8, <2>1 DEF LinkTypes
<1>10. LinkTypes'
  BY <1>1, <1>2, <1>7, <1>9 DEF LinkTypes
<1>11. LinkShape'
  <2>1. \A c \in Conns : c > conn => c # client
    BY <1>1, <1>3 DEF LinkTypes, Conns
  <2>2. \A c \in Conns : c > conn => Unused(c)'
    BY <1>1, <1>2, <1>9, <2>1 DEF LinkShape, Unused
  <2> QED
    BY <1>1, <1>2, <1>3, <2>2 DEF LinkShape
<1>12. ASSUME NEW c \in Conns PROVE UpIn(c)' /\ DownIn(c)'
  <2>1. UpIn(c) /\ DownIn(c)
    BY DEF LinkInv
  <2>2. DownIn(c)'
    BY <1>2, <2>1, DownSame
  <2>3. CASE c # client
    <3>1. Busy(c)' = Busy(c) /\ Open(c)' = Open(c) /\ Phy(c)' = Phy(c)
          /\ UpStream(c)' = UpStream(c) /\ sent'[c] = sent[c]
      BY <1>2, <1>9, <2>3 DEF Busy, Open, Phy, UpStream
    <3>2. UpIn(c)'
      BY <1>9, <2>1, <2>3, <3>1, UpKept
    <3> QED
      BY <2>2, <3>2
  <2>4. CASE c = client
    <3> DEFINE w == IF c = conn THEN writing ELSE <<>>
               M == MsgsOf(sent[c])
               whole == Intact(sent[c], Busy(c))
    <3>1. w \in Seq(Byte) /\ M \in Seq(Good) /\ TakesAll(Handle, M)
      <4>1. writing \in Seq(Byte) /\ <<>> \in Seq(Byte) /\ sent[c] \in Seq(SentRec)
        BY <1>1 DEF LinkTypes
      <4> QED
        BY <4>1, AllTaken
    <3>2. /\ UpStream(c) = a \o w /\ Open(c) /\ Phy(c) = deframer /\ handled[c] = h
          /\ UpStream(c)' = a2 \o w /\ Phy(c)' = o /\ handled'[c] = h2
          /\ MsgsOf(sent[c])' = M /\ Intact(sent[c], Busy(c))' = whole
      BY <1>2, <1>9, <2>4 DEF UpStream, Open, Phy, Busy, a, h
    <3>3. ASSUME whole PROVE Follows(deframer, a \o w, M, h, TRUE)
      BY <2>1, <3>2, <3>3 DEF UpIn, Going, Tracks
    <3> HIDE DEF w, M, whole
    <3>4. ASSUME whole PROVE Follows(o, a2 \o w, M, h2, TRUE)
      <4>1. AtRead(Handle, M, a, w, k, deframer, h, TRUE)
        BY <1>3, <1>4, <3>1, <3>3, <3>4 DEF AtRead
      <4>2. AfterRead(Handle, M, a, w, k, deframer, h, TRUE)
        BY <4>1, ReadOn
      <4> QED
        BY <1>6, <4>2 DEF AfterRead, a2, o, h2
    <3>5. ASSUME whole PROVE UpTo(h2, M, Len(h2) + 1)
      BY <3>1, <3>4, <3>5, FollowsBegins
    <3>6. ASSUME whole PROVE Going(Open(c)', o, a2 \o w, M, h2)
      BY <3>4, <3>5, <3>6 DEF Going, Tracks
    <3>7. UpIn(c)'
      BY <3>2, <3>6 DEF UpIn
    <3> QED
      BY <2>2, <3>7
  <2> QED
    BY <2>3, <2>4
<1> QED
  BY <1>10, <1>11, <1>12 DEF LinkInv

LEMMA NothingToReadKeeps ==
  ASSUME LinkInv, NothingToRead
  PROVE  LinkInv'
<1>1. LinkTypes /\ LinkShape
  BY DEF LinkInv
<1>2. /\ pc = "read" /\ pc' = "drain"
      /\ UNCHANGED <<node, conn, writing, rx_thread, node_deframer, sent, got>>
      /\ UNCHANGED <<up, down, node_end, phy_end, backlog>>
      /\ UNCHANGED <<client, deframer, out, g_running, handled, told>>
  BY DEF NothingToRead, nodeVars, sockVars
<1>3. LinkTypes'
  BY <1>1, <1>2 DEF LinkTypes
<1>4. LinkShape'
  BY <1>1, <1>2 DEF LinkShape, Unused
<1>5. ASSUME NEW c \in Conns PROVE UpIn(c)' /\ DownIn(c)'
  BY <1>2, UpSame, DownSame DEF LinkInv
<1> QED
  BY <1>3, <1>4, <1>5 DEF LinkInv

LEMMA DrainedKeeps ==
  ASSUME LinkInv, Drained
  PROVE  LinkInv'
<1>1. LinkTypes /\ LinkShape
  BY DEF LinkInv
<1>2. /\ pc = "drain" /\ pc' = "accept"
      /\ UNCHANGED <<node, conn, writing, rx_thread, node_deframer, sent, got>>
      /\ UNCHANGED <<up, down, node_end, phy_end, backlog>>
      /\ UNCHANGED <<client, deframer, out, g_running, handled, told>>
  BY DEF Drained, nodeVars, sockVars
<1>3. LinkTypes'
  BY <1>1, <1>2 DEF LinkTypes
<1>4. LinkShape'
  BY <1>1, <1>2 DEF LinkShape, Unused
<1>5. ASSUME NEW c \in Conns PROVE UpIn(c)' /\ DownIn(c)'
  BY <1>2, UpSame, DownSame DEF LinkInv
<1> QED
  BY <1>3, <1>4, <1>5 DEF LinkInv

LEMMA StopKeeps ==
  ASSUME LinkInv, Stop
  PROVE  LinkInv'
<1>1. LinkTypes /\ LinkShape
  BY DEF LinkInv
<1>2. /\ g_running' = FALSE
      /\ UNCHANGED <<node, conn, writing, rx_thread, node_deframer, sent, got>>
      /\ UNCHANGED <<up, down, node_end, phy_end, backlog>>
      /\ UNCHANGED <<client, pc, deframer, out, handled, told>>
  BY DEF Stop, nodeVars, sockVars
<1>3. LinkTypes'
  BY <1>1, <1>2 DEF LinkTypes
<1>4. LinkShape'
  BY <1>1, <1>2 DEF LinkShape, Unused
<1>5. ASSUME NEW c \in Conns PROVE UpIn(c)' /\ DownIn(c)'
  BY <1>2, UpSame, DownSame DEF LinkInv
<1> QED
  BY <1>3, <1>4, <1>5 DEF LinkInv

(* A connection that waits is newer than the client.                       *)
LEMMA Waiting ==
  ASSUME LinkInv
  PROVE  /\ \A c \in Conns : In(c, backlog) => c # client
         /\ backlog \in Seq(Nat) /\ client \in Nat /\ conn \in Nat
         /\ InTurn(backlog, client, conn) /\ InTurn(backlog, 0, conn)
<1>1. LinkTypes /\ LinkShape
  BY DEF LinkInv
<1>2. client \in Nat /\ conn \in Nat
  BY <1>1, Constants DEF LinkTypes
<1>3. backlog \in Seq(Nat)
  <2>1. backlog \in Seq(Conns) /\ Conns \subseteq Nat
    BY <1>1 DEF LinkTypes, Conns
  <2> QED
    BY <2>1, SeqMonotonic
<1>4. \A i \in 1..Len(backlog) :
        /\ backlog[i] \in Nat /\ client < backlog[i] /\ backlog[i] <= conn
        /\ \A j \in 1..Len(backlog) : i < j => backlog[i] < backlog[j]
  BY <1>1, <1>3 DEF LinkShape, InTurn
<1>5. \A i \in 1..Len(backlog) : 0 < backlog[i] /\ backlog[i] # client
  BY <1>2, <1>4
<1>6. InTurn(backlog, 0, conn)
  BY <1>4, <1>5 DEF InTurn
<1>7. \A c \in Conns : In(c, backlog) => c # client
  BY <1>5 DEF In
<1> QED
  BY <1>1, <1>2, <1>3, <1>6, <1>7 DEF LinkShape

LEMMA AcceptClientKeeps ==
  ASSUME LinkInv, AcceptClient
  PROVE  LinkInv'
<1>1. LinkTypes /\ LinkShape
  BY DEF LinkInv
<1>2. /\ pc = "accept" /\ pc' = "read" /\ out = <<>>
      /\ UNCHANGED <<node, conn, writing, rx_thread, node_deframer, sent, got>>
      /\ UNCHANGED <<out, g_running, handled, told, up, down, node_end>>
  BY <1>1 DEF AcceptClient, nodeVars, LinkShape
<1>3. CASE backlog = <<>>
  <2>1. UNCHANGED <<backlog, phy_end, client, deframer>>
    BY <1>3 DEF AcceptClient
  <2>2. LinkTypes'
    BY <1>1, <1>2, <2>1 DEF LinkTypes
  <2>3. LinkShape'
    BY <1>1, <1>2, <2>1 DEF LinkShape, Unused
  <2>4. ASSUME NEW c \in Conns PROVE UpIn(c)' /\ DownIn(c)'
    BY <1>2, <2>1, UpSame, DownSame DEF LinkInv
  <2> QED
    BY <2>2, <2>3, <2>4 DEF LinkInv
<1>4. CASE backlog # <<>>
  <2> DEFINE n == Head(backlog)
  <2>1. /\ backlog' = Tail(backlog) /\ client' = n /\ deframer' = Fresh
        /\ phy_end' = [Closed(client) EXCEPT ![n] = "open"]
    BY <1>4 DEF AcceptClient
  <2>2. /\ InTurn(Tail(backlog), n, conn) /\ client < n /\ n <= conn /\ n \in Nat
        /\ \A c : In(c, backlog) <=> c = n \/ In(c, Tail(backlog))
        /\ ~In(n, Tail(backlog))
    BY <1>4, Waiting, TurnTail
  <2>3. backlog \in Seq(Conns) /\ n \in Conns /\ Tail(backlog) \in Seq(Conns)
    <3>1. backlog \in Seq(Conns)
      BY <1>1 DEF LinkTypes
    <3> QED
      BY <1>4, <3>1, HeadTailProperties
  <2> HIDE DEF n
  <2>4. LinkTypes'
    <3>1. phy_end' \in [Conns -> {"none", "open", "closed"}]
      <4>1. Closed(client) \in [Conns -> {"none", "open", "closed"}]
        BY <1>1 DEF LinkTypes, Closed
      <4> QED
        BY <2>1, <4>1
    <3>2. n \in 0..MaxConns
      BY <2>3, Constants DEF Conns
    <3> QED
      BY <1>1, <1>2, <2>1, <2>3, <3>1, <3>2, FreshType DEF LinkTypes
  <2>5. LinkShape'
    <3>1. \A c \in Conns : c > conn => Unused(c)'
      BY <1>1, <1>2 DEF LinkShape, Unused
    <3> QED
      BY <1>1, <1>2, <2>1, <2>2, <3>1 DEF LinkShape
  <2>6. ASSUME NEW c \in Conns PROVE UpIn(c)' /\ DownIn(c)'
    <3>1. UpIn(c) /\ DownIn(c)
      BY DEF LinkInv
    <3>2. Open(c)' => In(c, backlog)
      BY <2>1, <2>2 DEF Open
    <3>3. Open(c)' => Open(c) /\ Phy(c) = Fresh
      BY <3>2, Waiting DEF Open, Phy
    <3>4. Phy(c)' = Fresh
      BY <2>1 DEF Phy
    <3>5. UpStream(c)' = UpStream(c) /\ DownStream(c)' = DownStream(c)
          /\ Busy(c)' = Busy(c)
      BY <1>2 DEF UpStream, DownStream, Busy
    <3>6. UpIn(c)'
      BY <1>2, <3>1, <3>3, <3>4, <3>5, UpKept
    <3>7. DownIn(c)'
      BY <1>2, <3>1, <3>3, <3>5, DownKept
    <3> QED
      BY <3>6, <3>7
  <2> QED
    BY <2>4, <2>5, <2>6 DEF LinkInv
<1> QED
  BY <1>3, <1>4

(* The client is dropped, whatever was still to be written to it.          *)
LEMMA DroppedKeeps ==
  ASSUME LinkInv, client' = 0, out' = <<>>, pc' = "drain", phy_end' = Closed(client),
         UNCHANGED <<node, conn, writing, rx_thread, node_deframer, sent, got>>,
         UNCHANGED <<up, down, node_end, backlog, deframer, g_running, handled, told>>
  PROVE  LinkInv'
<1>1. LinkTypes /\ LinkShape
  BY DEF LinkInv
<1>2. LinkTypes'
  <2>1. Closed(client) \in [Conns -> {"none", "open", "closed"}]
    BY <1>1 DEF LinkTypes, Closed
  <2>2. <<>> \in Seq(Byte) /\ 0 \in 0..MaxConns
    BY Constants
  <2> QED
    BY <1>1, <2>1, <2>2 DEF LinkTypes
<1>3. LinkShape'
  <2>1. \A c \in Conns : c > conn => Unused(c)'
    BY <1>1 DEF LinkShape, Unused
  <2>2. 0 <= conn /\ InTurn(backlog, 0, conn)
    BY Waiting
  <2> QED
    BY <1>1, <2>1, <2>2 DEF LinkShape
<1>4. ASSUME NEW c \in Conns PROVE UpIn(c)' /\ DownIn(c)'
  <2>1. UpIn(c) /\ DownIn(c)
    BY DEF LinkInv
  <2>2. c # 0
    BY DEF Conns
  <2>3. Open(c)' => In(c, backlog)
    BY <2>2 DEF Open
  <2>4. In(c, backlog) => c # client
    BY Waiting
  <2>5. Open(c)' => Open(c) /\ Phy(c) = Fresh
    BY <2>3, <2>4 DEF Open, Phy
  <2>6. Phy(c)' = Fresh /\ UpStream(c)' = UpStream(c) /\ Busy(c)' = Busy(c)
    BY <2>2 DEF Phy, UpStream, Busy
  <2>7. UpIn(c)'
    BY <2>1, <2>5, <2>6, UpKept
  <2>8. DownStream(c)' = down[c] \o <<>>
    BY DEF DownStream
  <2>9. CASE c # client
    <3>1. DownStream(c)' = DownStream(c)
      BY <2>8, <2>9 DEF DownStream
    <3>2. DownIn(c)'
      BY <2>1, <2>5, <3>1, DownKept
    <3> QED
      BY <2>7, <3>2
  <2>10. CASE c = client
    <3>1. Open(c)' = FALSE
      BY <2>3, <2>4, <2>10 DEF Open
    <3>2. down[c] \in Seq(Byte) /\ out \in Seq(Byte)
      BY <1>1 DEF LinkTypes
    <3>3. DownStream(c)' = down[c] /\ DownStream(c) = down[c] \o out
      <4>1. down[c] \o <<>> = down[c]
        BY <3>2, ConcatEmptySeq
      <4> QED
        BY <2>8, <2>10, <4>1 DEF DownStream
    <3>4. ASSUME c = conn /\ rx_thread = "reads"
          PROVE  Follows(node_deframer, down[c], told[c], got[c], FALSE)
      <4>1. Follows(node_deframer, down[c] \o out, told[c], got[c], Open(c))
        BY <2>1, <3>3, <3>4 DEF DownIn
      <4> QED
        BY <3>2, <4>1, Shorter
    <3>5. DownIn(c)'
      BY <2>1, <3>1, <3>3, <3>4 DEF DownIn
    <3> QED
      BY <2>7, <3>5
  <2> QED
    BY <2>9, <2>10
<1> QED
  BY <1>2, <1>3, <1>4 DEF LinkInv

LEMMA ClientGoneKeeps ==
  ASSUME LinkInv, ClientGone
  PROVE  LinkInv'
<1>1. out = <<>>
  BY DEF LinkInv, LinkShape, ClientGone
<1> QED
  BY <1>1, DroppedKeeps DEF ClientGone, nodeVars

LEMMA WriteAllFailsKeeps ==
  ASSUME LinkInv, WriteAllFails
  PROVE  LinkInv'
BY DroppedKeeps DEF WriteAllFails, nodeVars

LEMMA ExitKeeps ==
  ASSUME LinkInv, Exit
  PROVE  LinkInv'
<1>1. LinkTypes /\ LinkShape
  BY DEF LinkInv
<1>2. /\ pc = "accept" /\ pc' = "exit" /\ out = <<>> /\ client' = 0 /\ backlog' = <<>>
      /\ phy_end' = [c \in Conns |-> IF node_end[c] = "none" THEN "none" ELSE "closed"]
      /\ UNCHANGED <<node, conn, writing, rx_thread, node_deframer, sent, got>>
      /\ UNCHANGED <<up, down, node_end, deframer, out, g_running, handled, told>>
  BY <1>1 DEF Exit, nodeVars, LinkShape
<1>3. LinkTypes'
  <2>1. phy_end' \in [Conns -> {"none", "open", "closed"}]
    BY <1>2
  <2>2. <<>> \in Seq(Conns) /\ 0 \in 0..MaxConns
    BY Constants
  <2> QED
    BY <1>1, <1>2, <2>1, <2>2 DEF LinkTypes
<1>4. LinkShape'
  <2>1. \A c \in Conns : c > conn => Unused(c)'
    BY <1>1, <1>2 DEF LinkShape, Unused
  <2>2. 0 <= conn /\ InTurn(<<>>, 0, conn)
    BY Waiting DEF InTurn
  <2> QED
    BY <1>1, <1>2, <2>1, <2>2 DEF LinkShape
<1>5. ASSUME NEW c \in Conns PROVE UpIn(c)' /\ DownIn(c)'
  <2>1. UpIn(c) /\ DownIn(c)
    BY DEF LinkInv
  <2>2. Open(c)' = FALSE
    <3>1. c # 0 /\ ~In(c, <<>>)
      BY DEF Conns, In
    <3> QED
      BY <1>2, <3>1 DEF Open
  <2>3. DownStream(c)' = DownStream(c) /\ Busy(c)' = Busy(c)
    BY <1>2 DEF DownStream, Busy
  <2>4. UpIn(c)'
    BY <1>2, <2>1, <2>2, <2>3, UpKept
  <2>5. DownIn(c)'
    BY <1>2, <2>1, <2>2, <2>3, DownKept
  <2> QED
    BY <2>4, <2>5
<1> QED
  BY <1>3, <1>4, <1>5 DEF LinkInv

LEMMA SendRxIndicateKeeps ==
  ASSUME LinkInv, NEW m \in Downlink, SendRxIndicate(m)
  PROVE  LinkInv'
<1> DEFINE M == told[client]
           T == Append(M, m)
           w == EncodeFrame(m)
<1>1. LinkTypes /\ LinkShape
  BY DEF LinkInv
<1>2. /\ pc = "drain" /\ client # 0 /\ pc' = "write" /\ out' = w /\ out = <<>>
      /\ told' = [told EXCEPT ![client] = T]
      /\ UNCHANGED <<node, conn, writing, rx_thread, node_deframer, sent, got>>
      /\ UNCHANGED <<up, down, node_end, phy_end, backlog>>
      /\ UNCHANGED <<client, deframer, g_running, handled>>
  BY <1>1 DEF SendRxIndicate, nodeVars, sockVars, LinkShape
<1>3. client \in Conns /\ M \in Seq(Downlink) /\ client <= conn
  <2>1. client \in Conns
    BY <1>1, <1>2, Constants DEF LinkTypes, Conns
  <2> QED
    BY <1>1, <2>1 DEF LinkTypes, LinkShape
<1>4. m \in Good /\ w \in Seq(Byte)
  <2>1. m \in Good
    BY MessagesGood
  <2> QED
    BY <2>1, Encoded
<1>5. T \in Seq(Downlink) /\ M \in Seq(Good)
  <2> HIDE DEF M
  <2> QED
    BY <1>3, AllTaken
<1>6. /\ told'[client] = T /\ \A c \in Conns : c # client => told'[c] = told[c]
      /\ told' \in [Conns -> Seq(Downlink)]
  <2> HIDE DEF T
  <2> QED
    BY <1>1, <1>2, <1>3, <1>5 DEF LinkTypes
<1> HIDE DEF M, T, w
<1>7. LinkTypes'
  BY <1>1, <1>2, <1>4, <1>6 DEF LinkTypes
<1>8. LinkShape'
  <2>1. \A c \in Conns : c > conn => c # client
    BY <1>1, <1>3 DEF LinkTypes, Conns
  <2>2. \A c \in Conns : c > conn => Unused(c)'
    BY <1>1, <1>2, <1>6, <2>1 DEF LinkShape, Unused
  <2> QED
    BY <1>1, <1>2, <2>2 DEF LinkShape
<1>9. ASSUME NEW c \in Conns PROVE UpIn(c)' /\ DownIn(c)'
  <2>1. UpIn(c) /\ DownIn(c)
    BY DEF LinkInv
  <2>2. UpIn(c)'
    BY <1>2, <2>1, UpSame
  <2>3. Open(c)' = Open(c) /\ down'[c] = down[c] /\ got'[c] = got[c]
    BY <1>2 DEF Open
  <2>4. CASE c # client
    <3>1. DownStream(c)' = DownStream(c)
      BY <1>2, <2>4 DEF DownStream
    <3>2. DownIn(c)'
      BY <1>2, <1>6, <2>1, <2>3, <2>4, <3>1, DownKept
    <3> QED
      BY <2>2, <3>2
  <2>5. CASE c = client
    <3> DEFINE r == down[c]
               h == got[c]
               n == Len(h) + 1
    <3>1. r \in Seq(Byte) /\ h \in Seq(Messages) /\ out = <<>> /\ told[c] = M
      BY <1>1, <1>2, <2>5 DEF LinkTypes, M
    <3>2. DownStream(c) = r /\ DownStream(c)' = r \o w
      <4>1. r \o <<>> = r
        BY <3>1, ConcatEmptySeq
      <4> QED
        BY <1>2, <2>5, <4>1 DEF DownStream
    <3>3. Open(c) = TRUE
      BY <2>5 DEF Open
    <3>4. UpTo(h, M, n) /\ (c = conn /\ rx_thread = "reads" => Tracks(node_deframer, r, M, h))
      BY <2>1, <3>1, <3>2, <3>3 DEF DownIn, Tracks
    <3> HIDE DEF r, h, n
    <3>5. UpTo(h, T, n)
      BY <1>4, <1>5, <3>1, <3>4, StillBegins DEF T
    <3>6. ASSUME c = conn /\ rx_thread = "reads"
          PROVE  Follows(node_deframer, r \o w, T, h, TRUE)
      <4>1. Tracks(node_deframer, r \o w, T, h)
        BY <1>4, <1>5, <3>1, <3>4, <3>6, Sending DEF w, T
      <4> QED
        BY <4>1 DEF Tracks
    <3>7. told'[c] = T /\ got'[c] = h /\ Open(c)' = TRUE
      BY <1>6, <2>3, <2>5, <3>3 DEF h
    <3>8. DownIn(c)'
      BY <1>2, <3>2, <3>5, <3>6, <3>7 DEF DownIn, n
    <3> QED
      BY <2>2, <3>8
  <2> QED
    BY <2>4, <2>5
<1> QED
  BY <1>7, <1>8, <1>9 DEF LinkInv

LEMMA WriteAllKeeps ==
  ASSUME LinkInv, WriteAll
  PROVE  LinkInv'
<1> DEFINE n == Capacity - Len(down[client])
           some == First(n, out)
           x == Len(some)
<1>1. LinkTypes /\ LinkShape
  BY DEF LinkInv
<1>2. /\ pc = "write" /\ client # 0 /\ some # <<>>
      /\ out' = Rest(x, out) /\ pc' = IF x = Len(out) THEN "drain" ELSE "write"
      /\ down' = [down EXCEPT ![client] = @ \o some]
      /\ UNCHANGED <<node, conn, writing, rx_thread, node_deframer, sent, got>>
      /\ UNCHANGED <<up, node_end, phy_end, backlog>>
      /\ UNCHANGED <<client, deframer, g_running, handled, told>>
  BY <1>1 DEF WriteAll, nodeVars, LinkShape
<1>3. /\ client \in Conns /\ down[client] \in Seq(Byte) /\ out \in Seq(Byte)
      /\ client <= conn
  <2>1. client \in Conns
    BY <1>1, <1>2, Constants DEF LinkTypes, Conns
  <2> QED
    BY <1>1, <2>1 DEF LinkTypes, LinkShape
<1>4. PICK k \in 0..Len(out) : some = SubSeq(out, 1, k)
  <2>1. n \in Int
    BY <1>3, Constants
  <2> HIDE DEF n
  <2> QED
    BY <1>3, <2>1, FirstCuts
<1>5. /\ some \in Seq(Byte) /\ x = k /\ out' \in Seq(Byte) /\ some \o out' = out
      /\ pc' # "write" => out' = <<>>
  <2>1. some \in Seq(Byte) /\ x = k
    <3>1. /\ SubSeq(out, 1, k) \in Seq(Byte)
          /\ Len(SubSeq(out, 1, k)) = k
      BY <1>3, Cut
    <3> HIDE DEF some
    <3> QED
      BY <1>4, <3>1
  <2>2. out' = SubSeq(out, k + 1, Len(out))
    BY <1>2, <2>1 DEF Rest
  <2>3. out' \in Seq(Byte) /\ Len(out') = Len(out) - k
    BY <1>3, <2>2, Cut
  <2>4. SubSeq(out, 1, k) \o SubSeq(out, k + 1, Len(out)) = out
    BY <1>3, Halves
  <2>5. ASSUME pc' # "write" PROVE out' = <<>>
    <3>1. k = Len(out)
      BY <1>2, <2>1, <2>5
    <3>2. Len(out') = 0
      BY <1>3, <2>3, <3>1
    <3> QED
      BY <2>3, <3>2, EmptySeq
  <2> HIDE DEF some, x
  <2> QED
    BY <1>4, <2>1, <2>2, <2>3, <2>4, <2>5
<1> HIDE DEF some, x, n
<1>6. /\ down'[client] = down[client] \o some
      /\ \A c \in Conns : c # client => down'[c] = down[c]
      /\ down' \in [Conns -> Seq(Byte)]
  <2>1. down[client] \o some \in Seq(Byte)
    BY <1>3, <1>5, Joined
  <2> QED
    BY <1>1, <1>2, <1>3, <2>1 DEF LinkTypes
<1>7. LinkTypes'
  BY <1>1, <1>2, <1>5, <1>6 DEF LinkTypes
<1>8. LinkShape'
  <2>1. \A c \in Conns : c > conn => c # client
    BY <1>1, <1>3 DEF LinkTypes, Conns
  <2>2. \A c \in Conns : c > conn => Unused(c)'
    BY <1>1, <1>2, <1>6, <2>1 DEF LinkShape, Unused
  <2> QED
    BY <1>1, <1>2, <1>5, <2>2 DEF LinkShape
<1>9. ASSUME NEW c \in Conns PROVE UpIn(c)' /\ DownIn(c)'
  <2>1. UpIn(c) /\ DownIn(c)
    BY DEF LinkInv
  <2>2. UpIn(c)'
    BY <1>2, <2>1, UpSame
  <2>3. DownStream(c)' = DownStream(c)
    <3>1. CASE c # client
      BY <1>2, <1>6, <3>1 DEF DownStream
    <3>2. CASE c = client
      <4>1. DownStream(c)' = (down[client] \o some) \o out'
        BY <1>2, <1>6, <3>2 DEF DownStream
      <4>2. (down[client] \o some) \o out' = down[client] \o (some \o out')
        BY <1>3, <1>5, Associates, SMTT(30), ZenonT(30)
      <4>3. DownStream(c) = down[client] \o out
        BY <3>2 DEF DownStream
      <4> QED
        BY <1>5, <4>1, <4>2, <4>3
    <3> QED
      BY <3>1, <3>2
  <2>4. Open(c)' = Open(c)
    BY <1>2 DEF Open
  <2>5. DownIn(c)'
    BY <1>2, <2>1, <2>3, <2>4, DownKept
  <2> QED
    BY <2>2, <2>5
<1> QED
  BY <1>7, <1>8, <1>9 DEF LinkInv

LEMMA StutterKeeps ==
  ASSUME LinkInv, UNCHANGED vars
  PROVE  LinkInv'
<1>1. LinkTypes /\ LinkShape
  BY DEF LinkInv
<1>2. /\ UNCHANGED <<node, conn, writing, rx_thread, node_deframer, sent, got>>
      /\ UNCHANGED <<up, down, node_end, phy_end, backlog>>
      /\ UNCHANGED <<client, pc, deframer, out, g_running, handled, told>>
  BY DEF vars, nodeVars, sockVars, phyVars
<1>3. LinkTypes'
  BY <1>1, <1>2 DEF LinkTypes
<1>4. LinkShape'
  BY <1>1, <1>2 DEF LinkShape, Unused
<1>5. ASSUME NEW c \in Conns PROVE UpIn(c)' /\ DownIn(c)'
  BY <1>2, UpSame, DownSame DEF LinkInv
<1> QED
  BY <1>3, <1>4, <1>5 DEF LinkInv

-----------------------------------------------------------------------------
(* The types and the shape of the link, and what each end is in the middle *)
(* of, hold throughout: whatever the capacity of the socket and the length *)
(* of a read, the bytes on the way and the state of the Deframer at their  *)
(* end are those of the messages begun.                                    *)
THEOREM LinkIsSound == Spec => []LinkInv
<1>1. Init => LinkInv
  BY InitInv
<1>2. LinkInv /\ [Next]_vars => LinkInv'
  <2> SUFFICES ASSUME LinkInv, [Next]_vars PROVE LinkInv'
    OBVIOUS
  <2>1. CASE Connect
    BY <2>1, ConnectKeeps
  <2>2. CASE NodeDies
    BY <2>2, NodeDiesKeeps
  <2>3. CASE Writer
    BY <2>3, WriteFrameKeeps, WriteSomeKeeps, GiveUpKeeps DEF Writer
  <2>4. CASE Reader
    BY <2>4, RxThreadKeeps, RxThreadEndsKeeps DEF Reader
  <2>5. CASE MainLoop
    BY <2>5, AcceptClientKeeps, ReadClientKeeps, ClientGoneKeeps, NothingToReadKeeps,
       DrainedKeeps, SendRxIndicateKeeps, WriteAllKeeps, WriteAllFailsKeeps, ExitKeeps
       DEF MainLoop
  <2>6. CASE Stop
    BY <2>6, StopKeeps
  <2>7. CASE UNCHANGED vars
    BY <2>7, StutterKeeps
  <2> QED
    BY <2>1, <2>2, <2>3, <2>4, <2>5, <2>6, <2>7 DEF Next
<1> QED
  BY <1>1, <1>2, PTL DEF Spec

(* InOrder for every socket, every length of a read and every set of       *)
(* messages that encode and decode: handleIpcFrames and the RX thread of   *)
(* QuadRFRadio act on the messages of a connection in the order in which   *)
(* they were begun, each once and without a gap.                           *)
THEOREM ActedInOrder == Spec => []InOrder
<1>1. LinkInv => InOrder
  <2> SUFFICES ASSUME LinkInv, NEW c \in Conns
               PROVE  /\ (\A i \in DOMAIN sent[c] : ~WasCut(c, i)) =>
                            IsPrefix(handled[c], Msgs(c))
                      /\ IsPrefix(got[c], told[c])
    BY DEF InOrder
  <2>1. UpIn(c) /\ DownIn(c) /\ LinkTypes
    BY DEF LinkInv
  <2>2. /\ sent[c] \in Seq(SentRec) /\ told[c] \in Seq(Downlink)
        /\ handled[c] \in Seq(Messages) /\ got[c] \in Seq(Messages)
    BY <2>1 DEF LinkTypes
  <2>3. MsgsOf(sent[c]) \in Seq(Good) /\ told[c] \in Seq(Good)
    BY <2>2, AllTaken
  <2>4. Msgs(c) = MsgsOf(sent[c])
    BY <2>2 DEF Msgs, MsgsOf
  <2>5. ASSUME \A i \in DOMAIN sent[c] : ~WasCut(c, i)
        PROVE  Intact(sent[c], Busy(c))
    BY <2>2, <2>5 DEF WasCut, Missing, Intact, Lacks, Busy
  <2>6. ASSUME \A i \in DOMAIN sent[c] : ~WasCut(c, i)
        PROVE  IsPrefix(handled[c], Msgs(c))
    <3>1. UpTo(handled[c], MsgsOf(sent[c]), Len(handled[c]) + 1)
      BY <2>1, <2>5, <2>6 DEF UpIn, Going
    <3> QED
      BY <2>2, <2>3, <2>4, <3>1, BeginsIsPrefix
  <2>7. IsPrefix(got[c], told[c])
    <3>1. UpTo(got[c], told[c], Len(got[c]) + 1)
      BY <2>1 DEF DownIn
    <3> QED
      BY <2>2, <2>3, <3>1, BeginsIsPrefix
  <2> QED
    BY <2>6, <2>7
<1> QED
  BY <1>1, LinkIsSound, PTL
=============================================================================
