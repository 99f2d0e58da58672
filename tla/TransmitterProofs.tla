------------------------- MODULE TransmitterProofs -------------------------
(***************************************************************************)
(* The transmit line on its own, whoever calls it: its types, what waits   *)
(* in it is of the current preset, and it implements TxStream.             *)
(***************************************************************************)
EXTENDS Transmitter, TLAPS, SequenceTheorems, FiniteSetTheorems

(* Induction over the natural numbers, for a set: were n not in S, adding  *)
(* one would map the members of S up to n into themselves, without a gap   *)
(* for 0.                                                                  *)
LEMMA SetInduction ==
  ASSUME NEW S, 0 \in S, \A n \in Nat : n \in S => n + 1 \in S
  PROVE  Nat \subseteq S
<1>1. SUFFICES ASSUME NEW n \in Nat, n \notin S PROVE FALSE
  OBVIOUS
<1> DEFINE T == S \cap (0..n)
           f == [x \in T |-> x + 1]
<1>2. IsFiniteSet(T)
  <2>1. IsFiniteSet(0..n)
    BY FS_Interval
  <2> QED
    BY <2>1, FS_Subset
<1>3. f \in [T -> T]
  <2>1. ASSUME NEW x \in T PROVE x + 1 \in T
    <3>1. x \in Nat /\ x <= n /\ x \in S /\ x # n
      BY <1>1
    <3>2. x + 1 \in 0..n
      BY <3>1
    <3> QED
      BY <3>1, <3>2
  <2> QED
    BY <2>1
<1>4. \A x, y \in T : f[x] = f[y] => x = y
  <2>1. T \subseteq Int
    OBVIOUS
  <2> QED
    BY <2>1
<1>5. f \in Injection(T, T)
  BY <1>3, <1>4 DEF Injection, IsInjective
<1>6. f \in Surjection(T, T)
  BY <1>2, <1>5, FS_Injection
<1>7. 0 \in T
  OBVIOUS
<1>8. PICK x \in T : f[x] = 0
  BY <1>6, <1>7 DEF Surjection
<1> QED
  BY <1>8

(* A function over 1..n is a sequence of length n. *)
LEMMA FunctionIsSeq ==
  ASSUME NEW S, NEW n \in Nat, NEW f \in [1..n -> S]
  PROVE  f \in Seq(S) /\ Len(f) = n
<1>1. f \in Seq(S)
  BY SeqDef
<1>2. QED  BY <1>1, LenProperties

(* Every step of the transmit line keeps its types. *)
LEMMA LineType ==
  ASSUME LineTypeOK,
         \/ \E f \in Frames : Enqueue(f)
         \/ \E p \in Presets : SetModem(p)
         \/ BeginPull \/ PullStep \/ EndPull \/ WriteChunk
         \/ UNCHANGED lineVars
  PROVE  LineTypeOK'
<1> USE TransmitterAssumption DEF LineTypeOK
<1>1. ASSUME NEW f \in Frames, Enqueue(f) PROVE LineTypeOK'
  BY <1>1 DEF Enqueue, Waveform
<1>2. ASSUME NEW p \in Presets, SetModem(p) PROVE LineTypeOK'
  <2>1. CASE Reconstruct(p)
    BY <2>1, EmptySeq DEF Reconstruct
  <2>2. CASE SetModemFails
    BY <2>2, EmptySeq DEF SetModemFails
  <2>3. QED  BY <1>2, <2>1, <2>2 DEF SetModem
<1>3. CASE BeginPull \/ EndPull
  BY <1>3 DEF BeginPull, EndPull
<1>4. CASE StartNextBurst
  <2>1. Head(queue) \in Waveform /\ Tail(queue) \in Seq(Waveform)
    BY <1>4 DEF StartNextBurst
  <2>2. BurstOf(Head(queue)) \in Seq(Sample)
    <3> DEFINE w == Head(queue)
    <3>1. BurstLen[w.frame] \in Nat
      BY <2>1 DEF Waveform
    <3>2. BurstOf(w) \in [1..BurstLen[w.frame] -> Sample]
      BY <2>1, <3>1 DEF BurstOf, Sample
    <3>3. QED  BY <3>1, <3>2, FunctionIsSeq
  <2>3. QED  BY <1>4, <2>1, <2>2 DEF StartNextBurst
<1>5. CASE FillFromBurst
  <2> DEFINE take == IF Room < Len(burst) THEN Room ELSE Len(burst)
  <2>1. take \in 0..Len(burst) /\ take \in 0..Room
    BY <1>5 DEF FillFromBurst, Room
  <2>2. SubSeq(burst, 1, take) \in Seq(Sample) /\ Len(SubSeq(burst, 1, take)) = take
    BY <2>1
  <2>3. SubSeq(burst, take + 1, Len(burst)) \in Seq(Sample)
    BY <2>1
  <2>4. chunk' \in Seq(Sample \cup {Silence}) /\ Len(chunk') = Len(chunk) + take
    BY <1>5, <2>2 DEF FillFromBurst
  <2>5. Len(chunk') <= ChunkLen
    BY <2>1, <2>4 DEF Room
  <2>6. QED  BY <1>5, <2>3, <2>4, <2>5 DEF FillFromBurst
<1>6. CASE FillSilence
  <2>1. Room \in Nat
    BY <1>6 DEF FillSilence, Room
  <2>2. Silences(Room) \in Seq(Sample \cup {Silence}) /\ Len(Silences(Room)) = Room
    <3>1. Silences(Room) \in [1..Room -> Sample \cup {Silence}]
      BY DEF Silences
    <3>2. QED  BY <2>1, <3>1, FunctionIsSeq
  <2>3. chunk' \in Seq(Sample \cup {Silence}) /\ Len(chunk') = ChunkLen
    BY <1>6, <2>2 DEF FillSilence, Room
  <2>4. QED  BY <1>6, <2>3 DEF FillSilence
<1>7. CASE WriteChunk
  BY <1>7 DEF WriteChunk
<1>8. CASE UNCHANGED lineVars
  BY <1>8 DEF lineVars
<1>9. QED
  BY <1>1, <1>2, <1>3, <1>4, <1>5, <1>6, <1>7, <1>8 DEF PullStep

(* What waits in the line is of the current preset.                        *)
LEMMA LineMatchesStep ==
  LineTypeOK /\ LineMatchesModem /\ [LineNext]_lineVars => LineMatchesModem'
<1> SUFFICES ASSUME LineTypeOK, LineMatchesModem, [LineNext]_lineVars
             PROVE  LineMatchesModem'
  OBVIOUS
<1>a. /\ modem \in Presets /\ queue \in Seq(Waveform) /\ burst \in Seq(Sample)
      /\ chunk \in Seq(Sample \cup {Silence}) /\ Len(chunk) <= ChunkLen
  BY DEF LineTypeOK
<1>b. /\ \A i \in 1..Len(queue) : queue[i].modem = modem
      /\ \A i \in 1..Len(burst) : burst[i][1].modem = modem
  BY DEF LineMatchesModem
<1>1. ASSUME NEW f \in Frames, Enqueue(f) PROVE LineMatchesModem'
  <2> DEFINE w == [frame |-> f, modem |-> modem]
  <2>1. w \in Waveform
    BY <1>a DEF Waveform
  <2>2. UNCHANGED <<modem, burst>> /\ queue' = Append(queue, w)
    BY <1>1 DEF Enqueue
  <2>3. /\ Len(queue') = Len(queue) + 1 /\ queue'[Len(queue) + 1] = w
        /\ \A i \in 1..Len(queue) : queue'[i] = queue[i]
    BY <1>a, <2>1, <2>2, AppendProperties
  <2>4. \A i \in 1..Len(queue') : queue'[i].modem = modem
    BY <1>a, <1>b, <2>3, SMTT(30), ZenonT(30)
  <2> QED  BY <1>b, <2>2, <2>4 DEF LineMatchesModem
<1>2. ASSUME NEW p \in Presets, SetModem(p) PROVE LineMatchesModem'
  <2>1. CASE Reconstruct(p)
    BY <2>1, EmptySeq DEF Reconstruct, LineMatchesModem
  <2>2. CASE SetModemFails
    BY <1>b, <2>2, EmptySeq DEF SetModemFails, LineMatchesModem
  <2> QED  BY <1>2, <2>1, <2>2 DEF SetModem
<1>3. CASE StartNextBurst
  <2>1. /\ queue # <<>> /\ queue' = Tail(queue) /\ burst' = BurstOf(Head(queue))
        /\ UNCHANGED modem
    BY <1>3 DEF StartNextBurst
  <2>2. Head(queue) = queue[1] /\ Head(queue) \in Waveform /\ 1 \in 1..Len(queue)
    BY <1>a, <2>1
  <2>3. Head(queue).modem = modem
    BY <1>b, <2>2
  <2>4. \A i \in 1..Len(queue') : queue'[i].modem = modem
    <3>1. Len(queue') = Len(queue) - 1 /\ \A i \in 1..Len(queue') : queue'[i] = queue[i + 1]
      BY <1>a, <2>1, HeadTailProperties
    <3>2. ASSUME NEW i \in 1..Len(queue')
          PROVE  queue'[i].modem = modem
      <4>1. Len(queue) \in Nat
        BY <1>a
      <4>2. i + 1 \in 1..Len(queue)
        BY <3>1, <4>1
      <4> QED  BY <1>b, <3>1, <4>2
    <3> QED  BY <3>2
  <2>5. \A i \in 1..Len(burst') : burst'[i][1].modem = modem
    <3>1. BurstLen[Head(queue).frame] \in Nat
      BY <2>2, TransmitterAssumption DEF Waveform
    <3>2. Len(burst') = BurstLen[Head(queue).frame]
      BY <2>1, <3>1 DEF BurstOf
    <3>3. \A i \in 1..BurstLen[Head(queue).frame] : burst'[i] = <<Head(queue), i>>
      BY <2>1 DEF BurstOf
    <3> QED  BY <2>3, <3>2, <3>3
  <2> QED  BY <2>1, <2>4, <2>5 DEF LineMatchesModem
<1>4. CASE FillFromBurst
  <2> DEFINE take == IF Room < Len(burst) THEN Room ELSE Len(burst)
  <2>1. take \in 0..Len(burst) /\ Len(burst) \in Nat
    BY <1>a, <1>4, TransmitterAssumption DEF FillFromBurst, Room
  <2>2. burst' = SubSeq(burst, take + 1, Len(burst)) /\ UNCHANGED <<modem, queue>>
    BY <1>4 DEF FillFromBurst
  <2> HIDE DEF take
  <2>3. /\ Len(burst') = Len(burst) - take
        /\ \A i \in 1..Len(burst') : burst'[i] = burst[take + i]
    BY <1>a, <2>1, <2>2
  <2>4. \A i \in 1..Len(burst') : take + i \in 1..Len(burst)
    BY <2>1, <2>3
  <2> QED  BY <1>b, <2>2, <2>3, <2>4 DEF LineMatchesModem
<1>5. CASE UNCHANGED <<modem, queue, burst>>
  BY <1>b, <1>5 DEF LineMatchesModem
<1> QED
  BY <1>1, <1>2, <1>3, <1>4, <1>5
     DEF LineNext, BeginPull, FillSilence, EndPull, WriteChunk, lineVars

(* Nothing modulated for an old preset waits or is left of a burst, for    *)
(* any frames, presets and lengths, however Enqueue and SetModem come      *)
(* between the turns of the pull loop (applyModem).                        *)
THEOREM LineMatches == LineSpec => []LineMatchesModem
<1>1. LineInit => LineTypeOK /\ LineMatchesModem
  <2> SUFFICES ASSUME LineInit PROVE LineTypeOK /\ LineMatchesModem
    OBVIOUS
  <2>0. pulling \in BOOLEAN
    BY DEF LineInit
  <2>1. LineTypeOK
    BY <2>0, EmptySeq, TransmitterAssumption DEF LineInit, LineTypeOK
  <2>2. LineMatchesModem
    BY EmptySeq DEF LineInit, LineMatchesModem
  <2> QED  BY <2>1, <2>2
<1>2. LineTypeOK /\ [LineNext]_lineVars => LineTypeOK'
  BY LineType DEF LineNext, PullStep
<1>3. LineTypeOK /\ LineMatchesModem /\ [LineNext]_lineVars => LineMatchesModem'
  BY LineMatchesStep
<1> QED  BY <1>1, <1>2, <1>3, PTL DEF LineSpec

(* The burst of a waveform: at least one sample, the first of them its     *)
(* beginning.                                                              *)
LEMMA BurstType ==
  ASSUME NEW w \in Waveform
  PROVE  /\ BurstOf(w) \in Seq(Sample)
         /\ Len(BurstOf(w)) = BurstLen[w.frame] /\ BurstLen[w.frame] \in Nat \ {0}
         /\ BurstOf(w)[1] = <<w, 1>>
<1>1. BurstLen[w.frame] \in Nat \ {0}
  BY TransmitterAssumption DEF Waveform
<1>2. BurstOf(w) \in [1..BurstLen[w.frame] -> Sample]
  BY <1>1 DEF BurstOf, Sample
<1>3. BurstOf(w) \in Seq(Sample)
  BY <1>1, <1>2, SeqDef
<1>4. Len(BurstOf(w)) = BurstLen[w.frame]
  BY <1>1, <1>2, <1>3, LenProperties
<1>5. BurstOf(w)[1] = <<w, 1>>
  BY <1>1 DEF BurstOf
<1> QED
  BY <1>1, <1>3, <1>4, <1>5

(* g is the row of the first m bursts. *)
IsRow(g, waveforms, m) ==
  /\ g \in [0..m -> Seq(Sample)]
  /\ g[0] = <<>>
  /\ \A n \in 1..m : g[n] = g[n - 1] \o BurstOf(waveforms[n])

(* The bursts of some waveforms can be put in a row. *)
LEMMA RowExists ==
  ASSUME NEW q \in Seq(Waveform)
  PROVE  \E g : IsRow(g, q, Len(q))
<1> DEFINE S == {m \in Nat : m <= Len(q) => \E g : IsRow(g, q, m)}
<1>0. Len(q) \in Nat
  OBVIOUS
<1>1. 0 \in S
  <2>1. IsRow([n \in 0..0 |-> <<>>], q, 0)
    BY EmptySeq DEF IsRow
  <2> QED
    BY <2>1
<1>2. ASSUME NEW m \in Nat, m \in S PROVE m + 1 \in S
  <2>1. SUFFICES ASSUME m + 1 <= Len(q) PROVE \E g : IsRow(g, q, m + 1)
    OBVIOUS
  <2>2. m <= Len(q)
    BY <1>0, <2>1
  <2>3. PICK g : IsRow(g, q, m)
    BY <1>2, <2>2
  <2>4. q[m + 1] \in Waveform /\ m + 1 \in 1..Len(q)
    BY <1>0, <2>1
  <2> DEFINE next == g[m] \o BurstOf(q[m + 1])
             h == [n \in 0..(m + 1) |-> IF n = m + 1 THEN next ELSE g[n]]
  <2>5. m \in 0..m /\ g[m] \in Seq(Sample)
    BY <2>3 DEF IsRow
  <2>6. next \in Seq(Sample)
    BY <2>4, <2>5, BurstType
  <2>7. ASSUME NEW n \in 0..(m + 1) PROVE h[n] \in Seq(Sample)
    <3>1. CASE n = m + 1
      BY <3>1, <2>6
    <3>2. CASE n \in 0..m
      BY <3>2, <2>3 DEF IsRow
    <3> QED
      BY <3>1, <3>2
  <2>8. h \in [0..(m + 1) -> Seq(Sample)]
    BY <2>7
  <2>9. h[m + 1] = g[m] \o BurstOf(q[m + 1]) /\ \A n \in 0..m : h[n] = g[n]
    OBVIOUS
  <2> HIDE DEF h
  <2>10. ASSUME NEW n \in 1..(m + 1) PROVE h[n] = h[n - 1] \o BurstOf(q[n])
    <3>0. n = m + 1 \/ n \in 1..m
      OBVIOUS
    <3>1. CASE n = m + 1
      <4>1. n - 1 = m /\ m \in 0..m
        BY <3>1
      <4>2. h[n - 1] = g[m]
        BY <4>1, <2>9
      <4> QED
        BY <3>1, <4>2, <2>9
    <3>2. CASE n \in 1..m
      <4>1. n \in 0..m /\ n - 1 \in 0..m
        BY <3>2
      <4>2. g[n] = g[n - 1] \o BurstOf(q[n])
        BY <2>3, <3>2 DEF IsRow
      <4> QED
        BY <4>1, <4>2, <2>9
    <3> QED
      BY <3>0, <3>1, <3>2
  <2>11. h[0] = <<>>
    BY <2>3, <2>9 DEF IsRow
  <2>12. IsRow(h, q, m + 1)
    BY <2>8, <2>10, <2>11 DEF IsRow
  <2> QED
    BY <2>12
<1>3. Nat \subseteq S
  <2> HIDE DEF S
  <2> QED
    BY <1>1, <1>2, SetInduction
<1> QED
  BY <1>0, <1>3

(* RowOf is that row. *)
LEMMA RowIs ==
  ASSUME NEW q \in Seq(Waveform)
  PROVE  IsRow(RowOf(q), q, Len(q))
<1> DEFINE N == Len(q)
           Def(g) == [n \in 0..N |->
                        IF n = 0 THEN <<>> ELSE g[n - 1] \o BurstOf(q[n])]
           row == CHOOSE g : g = Def(g)
<1>0. N \in Nat
  OBVIOUS
<1>1. RowOf(q) = row
  BY DEF RowOf
<1>2. PICK g : IsRow(g, q, N)
  BY RowExists
<1> HIDE DEF N
<1>3. g = Def(g)
  <2>1. ASSUME NEW n \in 0..N PROVE g[n] = Def(g)[n]
    <3>1. CASE n = 0
      BY <3>1, <1>2 DEF IsRow
    <3>2. CASE n \in 1..N
      BY <3>2, <1>2 DEF IsRow
    <3> QED
      BY <1>0, <3>1, <3>2
  <2>2. g = [n \in 0..N |-> g[n]]
    BY <1>2 DEF IsRow
  <2> QED
    BY <2>1, <2>2
<1>4. row = Def(row)
  <2> HIDE DEF Def
  <2> QED
    BY <1>3
<1> HIDE DEF row
<1>5. row[0] = <<>>
  BY <1>0, <1>4
<1>6. ASSUME NEW n \in 1..N PROVE row[n] = row[n - 1] \o BurstOf(q[n])
  BY <1>0, <1>4
<1> DEFINE S == {n \in Nat : n <= N => row[n] \in Seq(Sample)}
<1>7. 0 \in S
  BY <1>5, EmptySeq
<1>8. ASSUME NEW n \in Nat, n \in S PROVE n + 1 \in S
  <2>1. SUFFICES ASSUME n + 1 <= N PROVE row[n + 1] \in Seq(Sample)
    OBVIOUS
  <2>2. n <= N /\ n + 1 \in 1..N /\ (n + 1) - 1 = n
    BY <1>0, <2>1
  <2>3. row[n] \in Seq(Sample) /\ q[n + 1] \in Waveform
    BY <1>8, <2>2 DEF N
  <2>4. row[n + 1] = row[n] \o BurstOf(q[n + 1])
    BY <1>6, <2>2
  <2> QED
    BY <2>3, <2>4, BurstType
<1>9. Nat \subseteq S
  <2> HIDE DEF S
  <2> QED
    BY <1>7, <1>8, SetInduction
<1>10. \A n \in 0..N : row[n] \in Seq(Sample)
  BY <1>9, <1>0
<1>11. row \in [0..N -> Seq(Sample)]
  BY <1>4, <1>10
<1> QED
  BY <1>1, <1>5, <1>6, <1>11 DEF IsRow, N

(* Sequences of samples can be joined in any grouping.                     *)
LEMMA SamplesAssociate ==
  \A s, t, u \in Seq(Sample) : (s \o t) \o u = s \o (t \o u)
<1>1. ASSUME NEW s \in Seq(Sample), NEW t \in Seq(Sample), NEW u \in Seq(Sample)
      PROVE  (s \o t) \o u = s \o (t \o u)
  BY ConcatAssociative
<1> QED
  BY <1>1

(* Rows of the same bursts, k bursts later in one than in the other, are   *)
(* the same but for what comes before.                                     *)
LEMMA RowsAgree ==
  ASSUME NEW q \in Seq(Waveform), NEW r \in Seq(Waveform), NEW k \in Nat,
         k + Len(q) <= Len(r),
         \A n \in 1..Len(q) : r[k + n] = q[n]
  PROVE  RowOf(r)[k + Len(q)] = RowOf(r)[k] \o RowOf(q)[Len(q)]
<1> DEFINE g == RowOf(q)
           h == RowOf(r)
           N == Len(q)
           M == Len(r)
<1>a. N \in Nat /\ M \in Nat /\ k + N <= M
  OBVIOUS
<1>b. \A n \in 1..N : r[k + n] = q[n] /\ q[n] \in Waveform
  OBVIOUS
<1>c. IsRow(g, q, N) /\ IsRow(h, r, M)
  BY RowIs
<1> HIDE DEF g, h, N, M
<1>0. k \in 0..M /\ h[k] \in Seq(Sample)
  <2>1. k \in 0..M
    BY <1>a
  <2> QED
    BY <1>c, <2>1 DEF IsRow
<1> DEFINE P(n) == n <= N => h[k + n] = h[k] \o g[n]
           S == {n \in Nat : P(n)}
<1>1. P(0)
  <2>1. k + 0 = k /\ g[0] = <<>>
    BY <1>c DEF IsRow
  <2>2. h[k] = h[k] \o <<>>
    BY <1>0, ConcatEmptySeq
  <2> QED
    BY <2>1, <2>2
<1>2. ASSUME NEW n \in Nat, P(n) PROVE P(n + 1)
  <2>1. SUFFICES ASSUME n + 1 <= N
                 PROVE  h[k + (n + 1)] = h[k] \o g[n + 1]
    OBVIOUS
  <2> DEFINE j == k + (n + 1)
             B == BurstOf(q[n + 1])
             a == h[k]
             b == g[n]
  <2>2. /\ n <= N /\ n + 1 \in 1..N /\ (n + 1) - 1 = n /\ k + n \in 0..M
        /\ j \in 1..M /\ j - 1 = k + n /\ n \in 0..N
    BY <1>a, <2>1
  <2>3. h[k + n] = a \o b
    BY <1>2, <2>2
  <2>4. g[n + 1] = b \o B
    <3>1. g[n + 1] = g[(n + 1) - 1] \o B
      BY <1>c, <2>2 DEF IsRow
    <3> QED
      BY <2>2, <3>1
  <2>5. r[j] = q[n + 1] /\ q[n + 1] \in Waveform
    BY <1>b, <2>2
  <2> HIDE DEF j
  <2>6. h[j] = h[k + n] \o B
    <3>1. h[j] = h[j - 1] \o BurstOf(r[j])
      BY <1>c, <2>2 DEF IsRow
    <3> QED
      BY <2>2, <2>5, <3>1
  <2>7. a \in Seq(Sample) /\ b \in Seq(Sample) /\ B \in Seq(Sample)
    <3>1. b \in Seq(Sample)
      BY <1>c, <2>2 DEF IsRow
    <3> QED
      BY <1>0, <3>1, <2>5, BurstType
  <2> HIDE DEF a, b, B
  <2>8. (a \o b) \o B = a \o (b \o B)
    BY <2>7, SamplesAssociate, Zenon
  <2>9. h[j] = a \o g[n + 1]
    BY <2>3, <2>4, <2>6, <2>8
  <2> QED
    BY <2>9 DEF a, j
<1> HIDE DEF P
<1>3. Nat \subseteq S
  <2>1. 0 \in S /\ \A n \in Nat : n \in S => n + 1 \in S
    BY <1>1, <1>2
  <2> HIDE DEF S
  <2> QED
    BY <2>1, SetInduction
<1>4. P(N) /\ N <= N
  BY <1>3, <1>a
<1> QED
  BY <1>4 DEF P, N, g, h

(* The bursts of waiting frames: none, one more at the end, one fewer at   *)
(* the front.                                                              *)
LEMMA BurstsType ==
  ASSUME NEW q \in Seq(Waveform)
  PROVE  Bursts(q) \in Seq(Sample) /\ (q = <<>> => Bursts(q) = <<>>)
<1>1. Len(q) \in 0..Len(q) /\ (q = <<>> => Len(q) = 0)
  OBVIOUS
<1> QED
  BY <1>1, RowIs DEF IsRow, Bursts

LEMMA BurstsAppend ==
  ASSUME NEW q \in Seq(Waveform), NEW w \in Waveform
  PROVE  Bursts(Append(q, w)) = Bursts(q) \o BurstOf(w)
<1> DEFINE r == Append(q, w)
           N == Len(q)
           g == RowOf(q)
           h == RowOf(r)
<1>1. /\ r \in Seq(Waveform) /\ Len(r) = N + 1 /\ N \in Nat /\ r[N + 1] = w
      /\ \A n \in 1..N : r[n] = q[n]
  BY AppendProperties
<1>2. IsRow(g, q, N) /\ IsRow(h, r, N + 1)
  BY <1>1, RowIs
<1>3. h[0 + N] = h[0] \o g[N]
  <2>1. (\A n \in 1..N : r[0 + n] = q[n]) /\ 0 + N <= Len(r) /\ 0 \in Nat
    BY <1>1
  <2> HIDE DEF r
  <2> QED
    BY <1>1, <2>1, RowsAgree
<1> HIDE DEF r, g, h, N
<1>4. 0 + N = N
  BY <1>1
<1>6. h[0] = <<>> /\ g[N] \in Seq(Sample)
  BY <1>1, <1>2 DEF IsRow
<1>7. h[N] = g[N]
  BY <1>3, <1>4, <1>6, ConcatEmptySeq
<1>8. h[N + 1] = h[N] \o BurstOf(w)
  <2>1. N + 1 \in 1..(N + 1) /\ (N + 1) - 1 = N
    BY <1>1
  <2>2. h[N + 1] = h[(N + 1) - 1] \o BurstOf(r[N + 1])
    BY <1>2, <2>1 DEF IsRow
  <2> QED
    BY <1>1, <2>1, <2>2
<1> QED
  BY <1>1, <1>7, <1>8 DEF Bursts, r, g, h, N

LEMMA BurstsTail ==
  ASSUME NEW r \in Seq(Waveform), r # <<>>
  PROVE  Bursts(r) = BurstOf(Head(r)) \o Bursts(Tail(r))
<1> DEFINE q == Tail(r)
           N == Len(q)
           g == RowOf(q)
           h == RowOf(r)
<1>1. /\ q \in Seq(Waveform) /\ Len(r) = N + 1 /\ N \in Nat
      /\ \A n \in 1..N : q[n] = r[n + 1]
      /\ Head(r) = r[1] /\ r[1] \in Waveform
  BY HeadTailProperties
<1>2. IsRow(g, q, N) /\ IsRow(h, r, N + 1)
  BY <1>1, RowIs
<1>3. h[1 + N] = h[1] \o g[N]
  <2> HIDE DEF q
  <2>1. ASSUME NEW n \in 1..N PROVE r[1 + n] = q[n]
    <3>1. 1 + n = n + 1
      BY <1>1
    <3> QED
      BY <1>1, <3>1
  <2>2. 1 + N <= Len(r) /\ 1 \in Nat
    BY <1>1
  <2> QED
    BY <1>1, <2>1, <2>2, RowsAgree
<1> HIDE DEF q, g, h, N
<1>4. 1 + N = N + 1
  BY <1>1
<1>6. h[1] = BurstOf(r[1])
  <2>1. 1 \in 1..(N + 1) /\ 1 - 1 = 0
    BY <1>1
  <2>2. h[1] = h[1 - 1] \o BurstOf(r[1]) /\ h[0] = <<>>
    BY <1>2, <2>1 DEF IsRow
  <2>3. BurstOf(r[1]) \in Seq(Sample)
    BY <1>1, BurstType
  <2> QED
    BY <2>1, <2>2, <2>3, ConcatEmptySeq
<1> QED
  BY <1>1, <1>3, <1>4, <1>6 DEF Bursts, q, g, h, N

(***************************************************************************)
(* The chunk: samples first, silence after them only to fill it.           *)
(***************************************************************************)
(* The samples of a chunk are its first n. *)
Splits(samples, n) ==
  /\ n \in 0..Len(samples)
  /\ \A i \in 1..Len(samples) : samples[i] # Silence <=> i <= n

(* What of a chunk is carried, wherever its silence begins. *)
LEMMA CarriedIs ==
  ASSUME NEW c \in Seq(Sample \cup {Silence}), NEW n, Splits(c, n)
  PROVE  /\ CarriedBy(c) = SubSeq(c, 1, n)
         /\ CarriedBy(c) \in Seq(Sample)
         /\ Len(CarriedBy(c)) = n
<1>1. Len(c) \in Nat /\ n \in 0..Len(c)
  BY DEF Splits
<1> DEFINE Is(k) == \A i \in 1..Len(c) : c[i] # Silence <=> i <= k
           m == CHOOSE k \in 0..Len(c) : Is(k)
<1>2. Is(n)
  BY DEF Splits
<1>3. m \in 0..Len(c) /\ Is(m)
  <2> HIDE DEF Is
  <2> QED
    BY <1>1, <1>2
<1> HIDE DEF m
<1>4. m = n
  <2>1. CASE m < n
    <3>1. n \in 1..Len(c) /\ ~(n <= m) /\ n <= n
      BY <1>1, <1>3, <2>1
    <3> QED
      BY <1>2, <1>3, <3>1
  <2>2. CASE n < m
    <3>1. m \in 1..Len(c) /\ ~(m <= n) /\ m <= m
      BY <1>1, <1>3, <2>2
    <3> QED
      BY <1>2, <1>3, <3>1
  <2> QED
    BY <1>1, <1>3, <2>1, <2>2
<1>5. CarriedBy(c) = SubSeq(c, 1, n)
  BY <1>4 DEF CarriedBy, m
<1>6. /\ Len(SubSeq(c, 1, n)) = n
      /\ \A i \in 1..n : SubSeq(c, 1, n)[i] = c[i]
      /\ SubSeq(c, 1, n) \in Seq(Sample \cup {Silence})
  BY <1>1, SubSeqProperties
<1>7. ASSUME NEW i \in 1..n PROVE SubSeq(c, 1, n)[i] \in Sample
  <2>1. i \in 1..Len(c) /\ i <= n
    BY <1>1
  <2>2. c[i] # Silence /\ c[i] \in Sample \cup {Silence}
    BY <1>2, <2>1
  <2> QED
    BY <1>6, <2>2
<1> DEFINE f == [i \in 1..n |-> SubSeq(c, 1, n)[i]]
<1>8. f \in Seq(Sample)
  <2>1. f \in [1..n -> Sample] /\ n \in Nat
    BY <1>1, <1>7
  <2> HIDE DEF f
  <2> QED
    BY <2>1, FunctionIsSeq
<1>9. f = SubSeq(c, 1, n)
  <2>1. Len(f) = n
    <3>1. f \in [1..n -> Sample] /\ n \in Nat
      BY <1>1, <1>7
    <3> HIDE DEF f
    <3> QED
      BY <3>1, FunctionIsSeq
  <2>2. \A i \in 1..n : f[i] = SubSeq(c, 1, n)[i]
    OBVIOUS
  <2> HIDE DEF f
  <2> QED
    BY <1>6, <1>8, <2>1, <2>2, SeqEqual
<1> QED
  BY <1>5, <1>6, <1>8, <1>9

(* Cutting what was joined, and joining what was cut. *)
LEMMA CutJoined ==
  ASSUME NEW a \in Seq(Sample), NEW b \in Seq(Sample)
  PROVE  /\ SubSeq(a \o b, 1, Len(a)) = a
         /\ SubSeq(a \o b, Len(a) + 1, Len(a \o b)) = b
         /\ Len(a \o b) = Len(a) + Len(b)
         /\ a \o b \in Seq(Sample)
<1>1. /\ a \o b \in Seq(Sample) /\ Len(a \o b) = Len(a) + Len(b)
      /\ \A i \in 1..Len(a) : (a \o b)[i] = a[i]
      /\ \A i \in 1..Len(b) : (a \o b)[Len(a) + i] = b[i]
      /\ Len(a) \in Nat /\ Len(b) \in Nat
  BY ConcatProperties
<1> DEFINE s == a \o b
<1> HIDE DEF s
<1>2. SubSeq(s, 1, Len(a)) = a
  <2>1. /\ SubSeq(s, 1, Len(a)) \in Seq(Sample) /\ Len(SubSeq(s, 1, Len(a))) = Len(a)
        /\ \A i \in 1..Len(a) : SubSeq(s, 1, Len(a))[i] = a[i]
    BY <1>1, SubSeqProperties DEF s
  <2> QED
    BY <2>1, SeqEqual
<1>3. SubSeq(s, Len(a) + 1, Len(s)) = b
  <2>1. /\ SubSeq(s, Len(a) + 1, Len(s)) \in Seq(Sample)
        /\ Len(SubSeq(s, Len(a) + 1, Len(s))) = Len(b)
        /\ \A i \in 1..Len(b) : SubSeq(s, Len(a) + 1, Len(s))[i] = b[i]
    BY <1>1, SubSeqProperties DEF s
  <2> QED
    BY <2>1, SeqEqual
<1> QED
  BY <1>1, <1>2, <1>3 DEF s

LEMMA JoinCut ==
  ASSUME NEW b \in Seq(Sample), NEW t \in 0..Len(b)
  PROVE  /\ SubSeq(b, 1, t) \in Seq(Sample) /\ Len(SubSeq(b, 1, t)) = t
         /\ SubSeq(b, t + 1, Len(b)) \in Seq(Sample)
         /\ SubSeq(b, 1, t) \o SubSeq(b, t + 1, Len(b)) = b
<1> DEFINE x == SubSeq(b, 1, t)
           y == SubSeq(b, t + 1, Len(b))
<1>1. /\ x \in Seq(Sample) /\ Len(x) = t /\ \A i \in 1..t : x[i] = b[i]
      /\ y \in Seq(Sample) /\ Len(y) = Len(b) - t
      /\ \A i \in 1..(Len(b) - t) : y[i] = b[t + i]
      /\ Len(b) \in Nat
  BY SubSeqProperties
<1> HIDE DEF x, y
<1>2. /\ x \o y \in Seq(Sample) /\ Len(x \o y) = Len(b)
      /\ \A i \in 1..t : (x \o y)[i] = b[i]
      /\ \A i \in 1..(Len(b) - t) : (x \o y)[t + i] = b[t + i]
  BY <1>1, ConcatProperties
<1>3. ASSUME NEW i \in 1..Len(b) PROVE (x \o y)[i] = b[i]
  <2>1. CASE i <= t
    BY <1>2, <2>1
  <2>2. CASE i > t
    <3>1. i - t \in 1..(Len(b) - t) /\ t + (i - t) = i
      BY <1>1, <2>2
    <3> QED
      BY <1>2, <3>1
  <2> QED
    BY <1>1, <2>1, <2>2
<1>4. x \o y = b
  BY <1>2, <1>3, SeqEqual
<1> QED
  BY <1>1, <1>4 DEF x, y

(***************************************************************************)
(* The line implements TxStream.                                           *)
(***************************************************************************)
(* Silence comes after the samples of a chunk, and only to fill it: once a *)
(* chunk has silence there is no room in it.                               *)
PromiseInv ==
  \E n \in 0..Len(chunk) :
    /\ Splits(chunk, n)
    /\ n = Len(chunk) \/ Len(chunk) = ChunkLen

(* A chunk with room holds nothing but samples, all of them carried. *)
LEMMA RoomyChunk ==
  ASSUME LineTypeOK, PromiseInv, Room > 0
  PROVE  /\ Splits(chunk, Len(chunk)) /\ chunk \in Seq(Sample)
         /\ Carried = chunk
<1>1. chunk \in Seq(Sample \cup {Silence}) /\ Len(chunk) \in Nat
  BY DEF LineTypeOK
<1>2. PICK n \in 0..Len(chunk) :
        Splits(chunk, n) /\ (n = Len(chunk) \/ Len(chunk) = ChunkLen)
  BY DEF PromiseInv
<1>3. n = Len(chunk)
  BY <1>1, <1>2, TransmitterAssumption DEF Room
<1>4. Carried = SubSeq(chunk, 1, Len(chunk)) /\ Carried \in Seq(Sample)
  BY <1>1, <1>2, <1>3, CarriedIs DEF Carried
<1>5. SubSeq(chunk, 1, Len(chunk)) = chunk
  BY <1>1
<1> QED
  BY <1>2, <1>3, <1>4, <1>5

(* What is owed, in its three parts. *)
LEMMA OwedType ==
  ASSUME LineTypeOK, PromiseInv
  PROVE  /\ Carried \in Seq(Sample) /\ Len(Carried) <= ChunkLen
         /\ burst \in Seq(Sample) /\ Bursts(queue) \in Seq(Sample)
         /\ Carried \o burst \in Seq(Sample) /\ Owed \in Seq(Sample)
<1>1. /\ chunk \in Seq(Sample \cup {Silence}) /\ Len(chunk) <= ChunkLen
      /\ Len(chunk) \in Nat /\ burst \in Seq(Sample) /\ queue \in Seq(Waveform)
  BY DEF LineTypeOK
<1>2. PICK n \in 0..Len(chunk) : Splits(chunk, n)
  BY DEF PromiseInv
<1>3. Carried \in Seq(Sample) /\ Len(Carried) = n
  BY <1>1, <1>2, CarriedIs DEF Carried
<1>4. Len(Carried) <= ChunkLen
  BY <1>1, <1>3, TransmitterAssumption
<1>5. Bursts(queue) \in Seq(Sample)
  BY <1>1, BurstsType
<1>6. Carried \o burst \in Seq(Sample)
  BY <1>1, <1>3, CutJoined
<1>7. Owed \in Seq(Sample)
  BY <1>5, <1>6, CutJoined DEF Owed
<1> QED
  BY <1>1, <1>3, <1>4, <1>5, <1>6, <1>7

(* The empty chunk carries nothing. *)
LEMMA CarriedNothing == CarriedBy(<<>>) = <<>> /\ Splits(<<>>, 0)
<1>1. <<>> \in Seq(Sample \cup {Silence}) /\ Splits(<<>>, 0)
  BY EmptySeq DEF Splits
<1>2. CarriedBy(<<>>) \in Seq(Sample) /\ Len(CarriedBy(<<>>)) = 0
  BY <1>1, CarriedIs
<1> QED
  BY <1>1, <1>2, EmptySeq

(* One turn of the pull loop that takes samples moves them, and one that   *)
(* fills with silence moves none.                                          *)
LEMMA FillBurst ==
  ASSUME LineTypeOK, PromiseInv, FillFromBurst
  PROVE  PromiseInv' /\ Owed' = Owed /\ modem' = modem
<1> DEFINE take == IF Room < Len(burst) THEN Room ELSE Len(burst)
           x == SubSeq(burst, 1, take)
           y == SubSeq(burst, take + 1, Len(burst))
<1>1. /\ burst \in Seq(Sample) /\ Len(burst) \in Nat /\ queue \in Seq(Waveform)
      /\ Room > 0 /\ UNCHANGED <<modem, queue>>
      /\ chunk' = chunk \o x /\ burst' = y /\ Len(chunk) \in Nat
  BY DEF FillFromBurst, LineTypeOK
<1>2. take \in 0..Len(burst)
  BY <1>1, TransmitterAssumption DEF Room
<1>3. Splits(chunk, Len(chunk)) /\ chunk \in Seq(Sample) /\ Carried = chunk
  BY <1>1, RoomyChunk
<1> HIDE DEF take
<1>4. x \in Seq(Sample) /\ y \in Seq(Sample) /\ x \o y = burst
  BY <1>1, <1>2, JoinCut
<1> HIDE DEF x, y
<1>5. chunk \o x \in Seq(Sample)
  BY <1>3, <1>4, CutJoined
<1> DEFINE c == chunk \o x
<1> HIDE DEF c
<1>6. /\ c \in Seq(Sample) /\ Len(c) \in Nat
      /\ \A i \in 1..Len(c) : c[i] \in Sample
      /\ c \in Seq(Sample \cup {Silence})
  <2>1. c \in Seq(Sample)
    BY <1>5 DEF c
  <2>2. Len(c) \in Nat /\ \A i \in 1..Len(c) : c[i] \in Sample
    BY <2>1
  <2>3. c \in Seq(Sample \cup {Silence})
    BY <2>1
  <2> QED
    BY <2>1, <2>2, <2>3
<1>7. Splits(c, Len(c))
  BY <1>6, SilenceAssumption DEF Splits
<1>8. CarriedBy(c) = c
  <2>1. CarriedBy(c) = SubSeq(c, 1, Len(c))
    BY <1>6, <1>7, CarriedIs
  <2>2. SubSeq(c, 1, Len(c)) = c
    BY <1>6
  <2> QED
    BY <2>1, <2>2
<1>9. chunk' = c
  BY <1>1 DEF c
<1>10. PromiseInv'
  <2>1. Splits(c, Len(c)) /\ Len(c) \in 0..Len(c)
    BY <1>6, <1>7
  <2> QED
    BY <1>9, <2>1 DEF PromiseInv
<1>11. Owed' = (c \o y) \o Bursts(queue)
  BY <1>1, <1>8, <1>9 DEF Owed, Carried
<1>12. c \o y = chunk \o burst
  <2>1. (chunk \o x) \o y = chunk \o (x \o y)
    BY <1>3, <1>4, SamplesAssociate, Zenon
  <2> QED
    BY <2>1, <1>4 DEF c
<1>13. Owed' = Owed
  BY <1>3, <1>11, <1>12 DEF Owed
<1> QED
  BY <1>1, <1>10, <1>13

LEMMA FillRest ==
  ASSUME LineTypeOK, PromiseInv, FillSilence
  PROVE  PromiseInv' /\ Owed' = Owed /\ modem' = modem
<1> DEFINE k == Room
           c == chunk \o Silences(k)
           n == Len(chunk)
<1>1. /\ k > 0 /\ k \in Nat /\ n \in Nat /\ n + k = ChunkLen
      /\ UNCHANGED <<modem, queue, burst>> /\ chunk' = c
  BY TransmitterAssumption DEF FillSilence, LineTypeOK, Room
<1>2. Splits(chunk, n) /\ chunk \in Seq(Sample) /\ Carried = chunk
  BY <1>1, RoomyChunk
<1> HIDE DEF k
<1>3. Silences(k) \in Seq(Sample \cup {Silence}) /\ Len(Silences(k)) = k
  <2>1. Silences(k) \in [1..k -> Sample \cup {Silence}]
    BY DEF Silences
  <2> QED
    BY <1>1, <2>1, FunctionIsSeq
<1>4. \A i \in 1..k : Silences(k)[i] = Silence
  BY DEF Silences
<1>5. chunk \in Seq(Sample \cup {Silence})
  BY DEF LineTypeOK
<1>6. /\ c \in Seq(Sample \cup {Silence}) /\ Len(c) = n + k
      /\ \A i \in 1..n : c[i] = chunk[i]
      /\ \A i \in 1..k : c[n + i] = Silences(k)[i]
  <2> DEFINE s == Silences(k)
             T == Sample \cup {Silence}
  <2>1. s \in Seq(T) /\ Len(s) = k /\ chunk \in Seq(T)
    BY <1>3, <1>5
  <2> HIDE DEF s, T
  <2>2. /\ chunk \o s \in Seq(T) /\ Len(chunk \o s) = Len(chunk) + Len(s)
        /\ \A i \in 1..Len(chunk) : (chunk \o s)[i] = chunk[i]
        /\ \A i \in 1..Len(s) : (chunk \o s)[Len(chunk) + i] = s[i]
    <3>1. ASSUME NEW a \in Seq(T), NEW b \in Seq(T)
          PROVE  /\ a \o b \in Seq(T) /\ Len(a \o b) = Len(a) + Len(b)
                 /\ \A i \in 1..Len(a) : (a \o b)[i] = a[i]
                 /\ \A i \in 1..Len(b) : (a \o b)[Len(a) + i] = b[i]
      BY ConcatProperties
    <3> QED
      BY <2>1, <3>1
  <2> QED
    BY <2>1, <2>2 DEF s, T
<1> HIDE DEF c
<1>7. ASSUME NEW i \in 1..Len(c) PROVE c[i] # Silence <=> i <= n
  <2>1. CASE i <= n
    <3>1. i \in 1..n
      BY <2>1, <1>1
    <3>2. chunk[i] # Silence
      BY <1>2, <3>1, SilenceAssumption
    <3> QED
      BY <1>6, <2>1, <3>1, <3>2
  <2>2. CASE ~(i <= n)
    <3>1. i - n \in 1..k /\ n + (i - n) = i
      BY <2>2, <1>1, <1>6
    <3>2. c[i] = Silence
      BY <1>4, <1>6, <3>1
    <3> QED
      BY <2>2, <3>2
  <2> QED
    BY <2>1, <2>2
<1>8. Splits(c, n) /\ n \in 0..Len(c) /\ Len(c) = ChunkLen
  BY <1>1, <1>6, <1>7 DEF Splits
<1>9. PromiseInv'
  BY <1>1, <1>8 DEF PromiseInv
<1>10. CarriedBy(c) = chunk
  <2>1. CarriedBy(c) = SubSeq(c, 1, n) /\ CarriedBy(c) \in Seq(Sample) /\ Len(CarriedBy(c)) = n
    BY <1>6, <1>8, CarriedIs
  <2>2. \A i \in 1..n : SubSeq(c, 1, n)[i] = c[i]
    BY <1>1, <1>6
  <2>3. \A i \in 1..n : CarriedBy(c)[i] = chunk[i]
    BY <1>6, <2>1, <2>2
  <2> QED
    BY <1>2, <2>1, <2>3, SeqEqual
<1>11. Owed' = Owed
  BY <1>1, <1>2, <1>10 DEF Owed, Carried
<1> QED
  BY <1>1, <1>9, <1>11

LEMMA StartBurst ==
  ASSUME LineTypeOK, PromiseInv, StartNextBurst
  PROVE  PromiseInv' /\ Owed' = Owed /\ modem' = modem
<1>1. /\ queue \in Seq(Waveform) /\ queue # <<>> /\ burst = <<>>
      /\ burst' = BurstOf(Head(queue)) /\ queue' = Tail(queue)
      /\ UNCHANGED <<modem, chunk>>
  BY DEF StartNextBurst, LineTypeOK
<1>2. Carried \in Seq(Sample) /\ Carried' = Carried
  BY <1>1, OwedType DEF Carried
<1>3. Bursts(queue) = BurstOf(Head(queue)) \o Bursts(Tail(queue))
  BY <1>1, BurstsTail
<1>4. BurstOf(Head(queue)) \in Seq(Sample) /\ Bursts(Tail(queue)) \in Seq(Sample)
  <2>1. Head(queue) \in Waveform /\ Tail(queue) \in Seq(Waveform)
    BY <1>1
  <2> QED
    BY <2>1, BurstType, BurstsType
<1> DEFINE a == Carried
           b == BurstOf(Head(queue))
           d == Bursts(Tail(queue))
<1>5. Owed' = (a \o b) \o d
  BY <1>1, <1>2 DEF Owed
<1>6. Owed = a \o (b \o d)
  <2>1. a \o <<>> = a
    BY <1>2, ConcatEmptySeq
  <2> QED
    BY <1>1, <1>3, <2>1 DEF Owed
<1>7. (a \o b) \o d = a \o (b \o d)
  <2>1. a \in Seq(Sample) /\ b \in Seq(Sample) /\ d \in Seq(Sample)
    BY <1>2, <1>4
  <2> HIDE DEF a, b, d
  <2> QED
    BY <2>1, SamplesAssociate, Zenon
<1>8. PromiseInv'
  BY <1>1 DEF PromiseInv
<1> QED
  BY <1>1, <1>5, <1>6, <1>7, <1>8

(* The steps of the clients: a frame joins the end of what is owed, a      *)
(* failed change forgets what has not begun, a change keeps the chunk.     *)
LEMMA EnqueueAccepts ==
  ASSUME LineTypeOK, PromiseInv, NEW f \in Frames, Enqueue(f)
  PROVE  PromiseInv' /\ Promise!Accept(f)
<1> DEFINE w == [frame |-> f, modem |-> modem]
<1>1. /\ queue \in Seq(Waveform) /\ w \in Waveform /\ queue' = Append(queue, w)
      /\ UNCHANGED <<modem, burst, chunk>>
  BY DEF Enqueue, LineTypeOK, Waveform
<1>2. PromiseInv'
  BY <1>1 DEF PromiseInv
<1> HIDE DEF w
<1>3. Bursts(Append(queue, w)) = Bursts(queue) \o BurstOf(w)
  BY <1>1, BurstsAppend
<1> DEFINE a == Carried \o burst
           b == Bursts(queue)
           d == BurstOf(w)
<1>4. a \in Seq(Sample) /\ b \in Seq(Sample) /\ d \in Seq(Sample)
  BY <1>1, OwedType, BurstType
<1>5. Owed' = a \o (b \o d) /\ Owed = a \o b
  BY <1>1, <1>3 DEF Owed, Carried
<1>6. Promise!BurstOf(w) = d
  BY DEF Promise!BurstOf, BurstOf
<1>7. (a \o b) \o d = a \o (b \o d)
  <2> HIDE DEF a, b, d
  <2> QED
    BY <1>4, SamplesAssociate, Zenon
<1>8. Owed' = Owed \o Promise!BurstOf(w)
  BY <1>5, <1>6, <1>7
<1> QED
  BY <1>1, <1>2, <1>8 DEF Promise!Accept, w

LEMMA FailureForgets ==
  ASSUME LineTypeOK, PromiseInv, SetModemFails
  PROVE  PromiseInv' /\ Promise!Forget
<1>1. queue \in Seq(Waveform) /\ queue' = <<>> /\ UNCHANGED <<modem, burst, chunk>>
  BY DEF SetModemFails, LineTypeOK
<1>2. PromiseInv'
  BY <1>1 DEF PromiseInv
<1> DEFINE a == Carried \o burst
           b == Bursts(queue)
           n == Len(a)
<1>3. a \in Seq(Sample) /\ b \in Seq(Sample)
  BY OwedType
<1>4. Owed' = a /\ Owed = a \o b
  <2>1. Bursts(<<>>) = <<>>
    BY BurstsType, EmptySeq
  <2>2. a \o <<>> = a
    BY <1>3, ConcatEmptySeq
  <2> QED
    BY <1>1, <2>1, <2>2 DEF Owed, Carried
<1>5. Promise!StartsBurst(Owed[n + 1]) \/ n = Len(Owed)
  <2>1. CASE queue = <<>>
    <3>1. b = <<>>
      BY <2>1, <1>1, BurstsType
    <3> QED
      BY <1>3, <1>4, <3>1, ConcatEmptySeq
  <2>2. CASE queue # <<>>
    <3> DEFINE w == Head(queue)
               d == Bursts(Tail(queue))
    <3>1. w \in Waveform /\ Tail(queue) \in Seq(Waveform)
      BY <1>1, <2>2
    <3>2. b = BurstOf(w) \o d
      BY <1>1, <2>2, BurstsTail
    <3>3. /\ BurstOf(w) \in Seq(Sample) /\ Len(BurstOf(w)) \in Nat \ {0}
          /\ BurstOf(w)[1] = <<w, 1>> /\ d \in Seq(Sample)
      BY <3>1, BurstType, BurstsType
    <3> HIDE DEF w, d
    <3>4. (BurstOf(w) \o d)[1] = <<w, 1>> /\ Len(BurstOf(w) \o d) >= 1
      <4> DEFINE e == BurstOf(w)
      <4> HIDE DEF e
      <4>1. (e \o d)[1] = e[1] /\ Len(e \o d) >= 1
        BY <3>3, ConcatProperties DEF e
      <4> QED
        BY <3>3, <4>1 DEF e
    <3>5. b[1] = <<w, 1>> /\ Len(b) >= 1
      BY <3>2, <3>4
    <3> HIDE DEF a, b
    <3>6. (a \o b)[n + 1] = b[1]
      BY <1>3, <3>5, ConcatProperties
    <3>7. Owed[n + 1] = <<w, 1>>
      BY <1>4, <3>5, <3>6
    <3> QED
      BY <3>7 DEF Promise!StartsBurst
  <2> QED
    BY <2>1, <2>2
<1> HIDE DEF a, b
<1>6. SubSeq(Owed, 1, n) = a /\ n \in 0..Len(Owed)
  BY <1>3, <1>4, CutJoined
<1>7. Promise!Front(n) = Owed'
  BY <1>4, <1>6 DEF Promise!Front
<1> QED
  BY <1>1, <1>2, <1>5, <1>6, <1>7 DEF Promise!Forget

LEMMA ReconstructSwitches ==
  ASSUME LineTypeOK, PromiseInv, NEW p \in Presets, p # modem, Reconstruct(p)
  PROVE  PromiseInv' /\ Promise!Switch(p)
<1>1. queue' = <<>> /\ burst' = <<>> /\ modem' = p /\ chunk' = chunk
  BY DEF Reconstruct
<1>2. PromiseInv'
  BY <1>1 DEF PromiseInv
<1> DEFINE a == Carried
           b == burst
           d == Bursts(queue)
           n == Len(a)
<1>3. a \in Seq(Sample) /\ b \in Seq(Sample) /\ d \in Seq(Sample) /\ n <= ChunkLen
  BY OwedType
<1>4. Owed' = a
  <2>1. Bursts(<<>>) = <<>>
    BY BurstsType, EmptySeq
  <2>2. a \o <<>> = a
    BY <1>3, ConcatEmptySeq
  <2> QED
    BY <1>1, <2>1, <2>2 DEF Owed, Carried
<1>5. Owed = a \o (b \o d)
  <2>1. (a \o b) \o d = a \o (b \o d)
    <3> HIDE DEF a, b, d
    <3> QED
      BY <1>3, SamplesAssociate, Zenon
  <2> QED
    BY <2>1 DEF Owed
<1> HIDE DEF a, b, d
<1>6. b \o d \in Seq(Sample)
  BY <1>3, CutJoined
<1>7. SubSeq(Owed, 1, n) = a /\ n \in 0..Len(Owed)
  BY <1>3, <1>5, <1>6, CutJoined
<1>8. Promise!Front(n) = Owed'
  BY <1>4, <1>7 DEF Promise!Front
<1> QED
  BY <1>1, <1>2, <1>3, <1>7, <1>8 DEF Promise!Switch

(* Writing a chunk sends what it carries, if anything. *)
LEMMA WriteSends ==
  ASSUME LineTypeOK, PromiseInv, WriteChunk
  PROVE  PromiseInv' /\ modem' = modem /\ (Promise!Send \/ Owed' = Owed)
<1>1. chunk' = <<>> /\ UNCHANGED <<modem, queue, burst>>
  BY DEF WriteChunk
<1>2. PromiseInv'
  <2>1. 0 \in 0..Len(<<>>) /\ 0 = Len(<<>>) /\ Splits(<<>>, 0)
    BY CarriedNothing
  <2> QED
    BY <1>1, <2>1 DEF PromiseInv
<1> DEFINE a == Carried
           b == burst
           d == Bursts(queue)
           n == Len(a)
<1>3. a \in Seq(Sample) /\ b \in Seq(Sample) /\ d \in Seq(Sample)
  BY OwedType
<1>4. Owed' = b \o d
  <2>1. <<>> \o b = b
    BY <1>3, ConcatEmptySeq
  <2>2. Carried' = <<>>
    BY <1>1, CarriedNothing DEF Carried
  <2> QED
    BY <1>1, <2>1, <2>2 DEF Owed
<1>5. Owed = a \o (b \o d)
  <2>1. (a \o b) \o d = a \o (b \o d)
    <3> HIDE DEF a, b, d
    <3> QED
      BY <1>3, SamplesAssociate, Zenon
  <2> QED
    BY <2>1 DEF Owed
<1> HIDE DEF a, b, d
<1>6. b \o d \in Seq(Sample)
  BY <1>3, CutJoined
<1>7. /\ SubSeq(Owed, n + 1, Len(Owed)) = b \o d
      /\ Len(Owed) = n + Len(b \o d)
  BY <1>3, <1>5, <1>6, CutJoined
<1>8. CASE n = 0
  <2>1. a = <<>>
    BY <1>3, <1>8, EmptySeq
  <2> QED
    BY <1>1, <1>2, <1>4, <1>5, <1>6, <2>1, ConcatEmptySeq
<1>9. CASE n # 0
  <2>1. n \in 1..Len(Owed)
    BY <1>3, <1>6, <1>7, <1>9
  <2>2. Promise!Send
    BY <1>1, <1>4, <1>7, <2>1 DEF Promise!Send
  <2> QED
    BY <1>1, <1>2, <2>2
<1> QED
  BY <1>8, <1>9

(* Every step of the line is one of TxStream, or none. *)
LEMMA PromiseStep ==
  LineTypeOK /\ PromiseInv /\ [LineNext]_lineVars
    => PromiseInv' /\ [Promise!Next]_<<modem, Owed>>
<1> SUFFICES ASSUME LineTypeOK, PromiseInv, [LineNext]_lineVars
             PROVE  PromiseInv' /\ [Promise!Next]_<<modem, Owed>>
  OBVIOUS
<1>1. ASSUME NEW f \in Frames, Enqueue(f)
      PROVE  PromiseInv' /\ [Promise!Next]_<<modem, Owed>>
  BY <1>1, EnqueueAccepts DEF Promise!Next
<1>2. ASSUME NEW p \in Presets, SetModem(p)
      PROVE  PromiseInv' /\ [Promise!Next]_<<modem, Owed>>
  <2>1. CASE Reconstruct(p)
    <3>1. p # modem
      BY <1>2 DEF SetModem
    <3>2. PromiseInv' /\ Promise!Switch(p)
      BY <2>1, <3>1, ReconstructSwitches
    <3> QED
      BY <3>2 DEF Promise!Next
  <2>2. CASE SetModemFails
    BY <2>2, FailureForgets DEF Promise!Next
  <2> QED
    BY <1>2, <2>1, <2>2 DEF SetModem
<1>3. CASE UNCHANGED <<modem, queue, burst, chunk>>
  <2>1. PromiseInv'
    BY <1>3 DEF PromiseInv
  <2>2. Owed' = Owed
    BY <1>3 DEF Owed, Carried
  <2> QED
    BY <1>3, <2>1, <2>2
<1>4. CASE StartNextBurst
  BY <1>4, StartBurst
<1>5. CASE FillFromBurst
  BY <1>5, FillBurst
<1>6. CASE FillSilence
  BY <1>6, FillRest
<1>7. CASE WriteChunk
  BY <1>7, WriteSends DEF Promise!Next
<1> QED
  BY <1>1, <1>2, <1>3, <1>4, <1>5, <1>6, <1>7
     DEF LineNext, BeginPull, EndPull, lineVars

(* The transmit line keeps its promise, for any frames, burst lengths and  *)
(* chunk length: the samples of an accepted frame leave whole, once and in *)
(* order of acceptance, nothing is inserted between them but silence, and  *)
(* only a preset change cuts a burst (enqueue, pull and applyModem).       *)
THEOREM LineKeepsPromise == LineSpec => KeepsPromise
<1>1. LineInit => LineTypeOK /\ PromiseInv /\ Promise!Init
  <2> SUFFICES ASSUME LineInit PROVE LineTypeOK /\ PromiseInv /\ Promise!Init
    OBVIOUS
  <2>0. /\ pulling \in BOOLEAN /\ modem \in Presets
        /\ queue = <<>> /\ burst = <<>> /\ chunk = <<>>
    BY DEF LineInit
  <2>1. LineTypeOK
    BY <2>0, EmptySeq, TransmitterAssumption DEF LineTypeOK
  <2>2. PromiseInv
    <3>1. 0 \in 0..Len(<<>>) /\ 0 = Len(<<>>) /\ Splits(<<>>, 0)
      BY CarriedNothing
    <3> QED
      BY <2>0, <3>1 DEF PromiseInv
  <2>3. Owed = <<>>
    <3>1. Carried = <<>> /\ Bursts(queue) = <<>>
      BY <2>0, CarriedNothing, BurstsType, EmptySeq DEF Carried
    <3> QED
      BY <2>0, <3>1, EmptySeq DEF Owed
  <2> QED
    BY <2>0, <2>1, <2>2, <2>3 DEF Promise!Init
<1>2. LineTypeOK /\ [LineNext]_lineVars => LineTypeOK'
  BY LineType DEF LineNext, PullStep
<1> QED
  BY <1>1, <1>2, PromiseStep, PTL DEF LineSpec, KeepsPromise, Promise!Spec
=============================================================================
