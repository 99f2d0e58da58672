--------------------------- MODULE SelfEchoProofs ---------------------------
(***************************************************************************)
(* Proofs about SelfEcho, for every set of frames and every length of the  *)
(* memory and of the receive chain.                                        *)
(***************************************************************************)
EXTENDS SelfEcho, TLAPS, SequenceTheorems

Air == Own \cup Foreigner

(* A frame of our own whose age is still less than the memory's length is  *)
(* in r, at the place its age tells.                                       *)
Held(a, r) ==
  a.from = "us" /\ a.age < MaxRecent =>
    a.age < Len(r) /\ r[Len(r) - a.age] = a.frame

Remembered(s, r) == \A i \in 1..Len(s) : Held(s[i], r)

EchoInv ==
  /\ EchoTypeOK
  /\ Remembered(echoQueue, echoRecent) /\ Remembered(echoBurst, echoRecent)
  /\ Remembered(echoHeard, echoRecent)
  /\ NoRecentSelfEcho

(* A function over 1..n is a sequence of length n. *)
LEMMA FunctionIsSeq ==
  ASSUME NEW S, NEW n \in Nat, NEW f \in [1..n -> S]
  PROVE  f \in Seq(S) /\ Len(f) = n
<1>1. f \in Seq(S)
  BY SeqDef
<1>2. QED  BY <1>1, LenProperties

(* Ageing keeps a sequence of frames one.                                  *)
LEMMA AgedType ==
  ASSUME NEW S, S = Own \/ S = Air, NEW s \in Seq(S)
  PROVE  /\ Aged(s) \in Seq(S)
         /\ Len(Aged(s)) = Len(s)
         /\ \A i \in 1..Len(s) : Aged(s)[i] = Older(s[i])
<1> USE EchoAssumption
<1>1. \A i \in 1..Len(s) : Older(s[i]) \in S
  <2> SUFFICES ASSUME NEW i \in 1..Len(s) PROVE Older(s[i]) \in S
    OBVIOUS
  <2>1. s[i] \in S
    OBVIOUS
  <2>2. CASE s[i] \in Own
    <3>1. Older(s[i]) \in Own
      BY <2>2 DEF Older, Own
    <3>2. QED  BY <3>1 DEF Air
  <2>3. CASE s[i] \in Foreigner
    BY <2>1, <2>3 DEF Older, Foreigner
  <2>4. QED  BY <2>1, <2>2, <2>3 DEF Air
<1>2. Aged(s) \in [1..Len(s) -> S]
  BY <1>1 DEF Aged
<1>3. QED  BY <1>2, FunctionIsSeq DEF Aged

(* Remembering one more frame moves the others one place back, and forgets *)
(* but one that then is as old as the memory is long.                      *)
LEMMA AgedRemembered ==
  ASSUME NEW r \in Seq(EchoFrames), Len(r) <= MaxRecent, NEW f \in EchoFrames,
         NEW s \in Seq(Air), Remembered(s, r)
  PROVE  Remembered(Aged(s), RememberTx(r, f))
<1> USE EchoAssumption
<1> DEFINE new == RememberTx(r, f)
           n == Len(r)
<1>1. /\ Len(Aged(s)) = Len(s)
      /\ \A i \in 1..Len(s) : Aged(s)[i] = Older(s[i])
  BY AgedType
<1>2. ASSUME NEW i \in 1..Len(s), Older(s[i]).from = "us",
             Older(s[i]).age < MaxRecent
      PROVE  /\ Older(s[i]).age < Len(new)
             /\ new[Len(new) - Older(s[i]).age] = Older(s[i]).frame
  <2> DEFINE a == s[i].age
  <2>1. s[i] \in Own /\ s[i].from = "us"
    BY <1>2 DEF Air, Own, Foreigner, Older
  <2>2. /\ a < MaxRecent
        /\ Older(s[i]).age = a + 1 /\ Older(s[i]).frame = s[i].frame
    BY <1>2, <2>1 DEF Older, Own
  <2>3. a \in Nat
    BY <2>1 DEF Own
  <2>4. a < n /\ r[n - a] = s[i].frame
    BY <2>1, <2>2 DEF Remembered, Held
  <2>5. a + 1 < MaxRecent
    BY <1>2, <2>2
  <2>6. CASE n < MaxRecent
    <3>1. new = Append(r, f)
      BY <2>6 DEF RememberTx
    <3>2. Len(new) = n + 1 /\ new[n - a] = r[n - a]
      BY <2>3, <2>4, <3>1
    <3>3. QED  BY <2>2, <2>3, <2>4, <3>2
  <2>7. CASE n = MaxRecent
    <3>1. new = Append(Tail(r), f)
      BY <2>7 DEF RememberTx
    <3> DEFINE t == Tail(r)
    <3>2. t \in Seq(EchoFrames) /\ Len(t) = n - 1 /\ \A j \in 1..Len(t) : t[j] = r[j + 1]
      BY <2>7, HeadTailProperties
    <3>3. n - a - 1 \in 1..Len(t)
      BY <2>3, <2>4, <2>5, <2>7, <3>2
    <3>4. t[n - a - 1] = r[n - a]
      BY <2>3, <2>7, <3>2, <3>3
    <3>5. Len(new) = n /\ new[n - a - 1] = t[n - a - 1]
      BY <2>7, <3>1, <3>2, <3>3, AppendProperties
    <3>6. a + 1 < n
      BY <2>3, <2>5, <2>7
    <3>7. n - (a + 1) = n - a - 1
      BY <2>3, <2>7
    <3>8. QED  BY <2>2, <2>4, <3>4, <3>5, <3>6, <3>7
  <2>8. QED  BY <2>6, <2>7
<1>3. QED  BY <1>1, <1>2 DEF Remembered, Held

LEMMA RememberedPieces ==
  ASSUME NEW r
  PROVE  /\ Remembered(<<>>, r)
         /\ \A a : Held(a, r) => Remembered(<<a>>, r)
         /\ \A s \in Seq(Air) : Remembered(s, r) /\ s # <<>> =>
              Held(Head(s), r) /\ Remembered(Tail(s), r)
         /\ \A s \in Seq(Air), a \in Air : Remembered(s, r) /\ Held(a, r) =>
              Remembered(Append(s, a), r)
<1>1. Remembered(<<>>, r)
  BY EmptySeq DEF Remembered
<1>2. ASSUME NEW a, Held(a, r) PROVE Remembered(<<a>>, r)
  BY <1>2 DEF Remembered
<1>3. ASSUME NEW s \in Seq(Air), Remembered(s, r), s # <<>>
      PROVE  Held(Head(s), r) /\ Remembered(Tail(s), r)
  BY <1>3 DEF Remembered
<1>4. ASSUME NEW s \in Seq(Air), NEW a \in Air, Remembered(s, r), Held(a, r)
      PROVE  Remembered(Append(s, a), r)
  BY <1>4 DEF Remembered
<1>5. QED  BY <1>1, <1>2, <1>3, <1>4

LEMMA EchoStart == EchoInit => EchoInv
BY EmptySeq, EchoAssumption, RememberedPieces DEF EchoInit, EchoInv, EchoTypeOK, NoRecentSelfEcho

LEMMA EchoStep ==
  ASSUME EchoInv, [EchoNext]_echoVars
  PROVE  EchoInv'
<1> USE EchoAssumption DEF EchoInv
<1>1. ASSUME NEW f \in EchoFrames, EnqueueAir(f) PROVE EchoInv'
  <2> USE <1>1 DEF EnqueueAir
  <2> DEFINE new == [frame |-> f, from |-> "us", age |-> 0]
  <2>1. echoQueue \in Seq(Own) /\ echoBurst \in Seq(Own) /\ echoHeard \in Seq(Air)
    BY DEF EchoTypeOK, Air
  <2>2. echoQueue \in Seq(Air) /\ echoBurst \in Seq(Air)
    BY <2>1, SeqMonotonic DEF Air
  <2>3. echoRecent \in Seq(EchoFrames) /\ Len(echoRecent) <= MaxRecent
    BY DEF EchoTypeOK
  <2>4. /\ Remembered(Aged(echoQueue), echoRecent') /\ Remembered(Aged(echoBurst), echoRecent')
        /\ Remembered(Aged(echoHeard), echoRecent')
    BY <2>1, <2>2, <2>3, AgedRemembered
  <2>5. Aged(echoQueue) \in Seq(Own) /\ Aged(echoBurst) \in Seq(Own) /\ Aged(echoHeard) \in Seq(Air)
    BY <2>1, AgedType
  <2>6. new \in Own
    BY DEF Own
  <2>7. /\ echoRecent' \in Seq(EchoFrames) /\ Len(echoRecent') <= MaxRecent
        /\ Len(echoRecent') > 0 /\ echoRecent'[Len(echoRecent')] = f
    BY <2>3 DEF RememberTx
  <2>8. EchoTypeOK'
    BY <2>5, <2>6, <2>7 DEF EchoTypeOK, Air
  <2>9. Remembered(echoQueue', echoRecent')
    <3>1. Held(new, echoRecent')
      BY <2>7 DEF Held
    <3>2. Aged(echoQueue) \in Seq(Air) /\ new \in Air
      BY <2>5, <2>6, SeqMonotonic DEF Air
    <3>3. QED  BY <2>4, <3>1, <3>2, RememberedPieces
  <2>10. Remembered(echoBurst', echoRecent') /\ Remembered(echoHeard', echoRecent')
    BY <2>4
  <2>11. NoRecentSelfEcho'
    BY DEF NoRecentSelfEcho
  <2>12. QED  BY <2>8, <2>9, <2>10, <2>11
<1>2. ASSUME NEW f \in EchoFrames, HearForeign(f) PROVE EchoInv'
  <2> DEFINE new == [frame |-> f, from |-> "them", age |-> 0]
  <2>1. new \in Air /\ Held(new, echoRecent) /\ echoHeard \in Seq(Air)
    BY DEF Air, Foreigner, Held, EchoTypeOK
  <2>2. Remembered(Append(echoHeard, new), echoRecent)
    BY <2>1, RememberedPieces
  <2>3. QED  BY <1>2, <2>1, <2>2 DEF HearForeign, EchoTypeOK, NoRecentSelfEcho, Air
<1>3. CASE StartBurst
  <2>1. echoQueue \in Seq(Air) /\ echoQueue \in Seq(Own) /\ echoQueue # <<>>
    BY <1>3, SeqMonotonic DEF StartBurst, EchoTypeOK, Air
  <2>2. Remembered(Tail(echoQueue), echoRecent) /\ Remembered(<<Head(echoQueue)>>, echoRecent)
    BY <2>1, RememberedPieces
  <2>3. QED  BY <1>3, <2>1, <2>2 DEF StartBurst, EchoTypeOK, NoRecentSelfEcho
<1>4. CASE FinishBurst
  <2>1. echoBurst \in Seq(Own) /\ echoBurst # <<>> /\ echoHeard \in Seq(Air)
    BY <1>4 DEF FinishBurst, EchoTypeOK, Air
  <2>2. echoBurst \in Seq(Air)
    BY <2>1, SeqMonotonic DEF Air
  <2>3. Head(echoBurst) \in Air /\ Held(Head(echoBurst), echoRecent)
    <3>1. Head(echoBurst) \in Air
      BY <2>1, <2>2
    <3>2. Remembered(echoBurst, echoRecent)
      OBVIOUS
    <3> HIDE DEF EchoInv
    <3>3. Held(Head(echoBurst), echoRecent)
      BY <2>1, <2>2, <3>2, RememberedPieces
    <3>4. QED  BY <3>1, <3>3
  <2>4. Remembered(Append(echoHeard, Head(echoBurst)), echoRecent)
    BY <2>1, <2>3, RememberedPieces
  <2>5. Append(echoHeard, Head(echoBurst)) \in Seq(Own \cup Foreigner)
    BY <2>1, <2>3 DEF Air
  <2>6. Remembered(<<>>, echoRecent)
    BY RememberedPieces
  <2>7. QED  BY <1>4, <2>4, <2>5, <2>6, EmptySeq DEF FinishBurst, EchoTypeOK, NoRecentSelfEcho
<1>5. CASE DrainRx
  <2>1. echoHeard \in Seq(Air) /\ echoHeard # <<>>
    BY <1>5 DEF DrainRx, EchoTypeOK, Air
  <2>2. Head(echoHeard) \in Air /\ Tail(echoHeard) \in Seq(Air)
    BY <2>1
  <2>3. Held(Head(echoHeard), echoRecent) /\ Remembered(Tail(echoHeard), echoRecent)
    BY <2>1, RememberedPieces
  <2>4. ASSUME Head(echoHeard).from = "us", Head(echoHeard).age < MaxRecent
        PROVE  IsRecentTxEcho(Head(echoHeard).frame)
    <3>1. Head(echoHeard).age \in Nat
      BY <2>2, <2>4 DEF Air, Own, Foreigner
    <3>2. Len(echoRecent) - Head(echoHeard).age \in 1..Len(echoRecent)
      BY <2>3, <2>4, <3>1 DEF Held, EchoTypeOK
    <3>3. QED  BY <2>3, <2>4, <3>2 DEF Held, IsRecentTxEcho
  <2>5. NoRecentSelfEcho'
    <3>1. CASE IsRecentTxEcho(Head(echoHeard).frame)
      <4>1. echoDelivered' = <<>>
        BY <1>5, <3>1 DEF DrainRx
      <4>2. QED  BY <4>1, EmptySeq DEF NoRecentSelfEcho
    <3>2. CASE ~IsRecentTxEcho(Head(echoHeard).frame)
      <4>1. echoDelivered' = <<Head(echoHeard)>>
        BY <1>5, <3>2 DEF DrainRx
      <4>2. Head(echoHeard).from = "us" => Head(echoHeard).age \in 0..MaxRecent
        BY <2>2 DEF Air, Own, Foreigner
      <4>3. QED  BY <2>4, <3>2, <4>1, <4>2 DEF NoRecentSelfEcho
    <3>3. QED  BY <3>1, <3>2
  <2>6. EchoTypeOK'
    <3>1. echoDelivered' = <<>> \/ echoDelivered' = <<Head(echoHeard)>>
      BY <1>5 DEF DrainRx
    <3>2. <<>> \in Seq(Air) /\ Append(<<>>, Head(echoHeard)) \in Seq(Air)
      BY <2>2, EmptySeq, AppendProperties
    <3>3. Append(<<>>, Head(echoHeard)) = <<Head(echoHeard)>>
      OBVIOUS
    <3>4. QED  BY <1>5, <2>2, <3>1, <3>2, <3>3 DEF DrainRx, EchoTypeOK, Air
  <2>7. QED  BY <1>5, <2>3, <2>5, <2>6 DEF DrainRx
<1>6. CASE ApplyModem \/ ApplyModemFails
  BY <1>6, EmptySeq, RememberedPieces DEF ApplyModem, ApplyModemFails, EchoTypeOK, NoRecentSelfEcho
<1>7. CASE UNCHANGED echoVars
  BY <1>7 DEF echoVars, EchoTypeOK, NoRecentSelfEcho
<1>8. QED  BY <1>1, <1>2, <1>3, <1>4, <1>5, <1>6, <1>7 DEF EchoNext

(* What waits, what is on the air and what was heard is of the kind the    *)
(* code has there, and the memory of sent frames never exceeds its limit   *)
(* (rememberTx).                                                           *)
THEOREM TypeCorrect == EchoSpec => []EchoTypeOK
<1>1. EchoInv /\ [EchoNext]_echoVars => EchoInv'
  BY EchoStep
<1>2. EchoInv => EchoTypeOK
  BY DEF EchoInv
<1>3. QED  BY EchoStart, <1>1, <1>2, PTL DEF EchoSpec

(* A client sees a frame of its own come back only behind as many others   *)
(* as the memory is long, accepted between the frame and its echo, for     *)
(* every length of the memory and any number of frames accepted, waiting,  *)
(* lost, flushed or heard from others (rememberTx, isRecentTxEcho,         *)
(* drainRx).                                                               *)
THEOREM RecentEchoesAreDropped == EchoSpec => []NoRecentSelfEcho
<1>1. EchoInv /\ [EchoNext]_echoVars => EchoInv'
  BY EchoStep
<1>2. EchoInv => NoRecentSelfEcho
  BY DEF EchoInv
<1>3. QED  BY EchoStart, <1>1, <1>2, PTL DEF EchoSpec
=============================================================================
