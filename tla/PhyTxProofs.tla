---------------------------- MODULE PhyTxProofs ----------------------------
(***************************************************************************)
(* Proofs about PhyTx, for every set of frames, presets and gains and      *)
(* every length of chunk and burst.                                        *)
(***************************************************************************)
EXTENDS PhyTxInvariants, TransmitterProofs

(***************************************************************************)
(* Type correctness.                                                       *)
(***************************************************************************)
LEMMA FlagTypeStep == FlagTypeOK /\ [Next]_vars => FlagTypeOK'
<1> SUFFICES ASSUME FlagTypeOK, [Next]_vars PROVE FlagTypeOK'
  OBVIOUS
<1> USE DEF FlagTypeOK, vars, localVars, mainVars, rfVars, paVars, gainVars
<1>1. CASE TxTop
  BY <1>1, SMTT(30), ZenonT(30) DEF TxTop, IsIdle
<1>2. CASE TxPull
  BY <1>2 DEF TxPull
<1>3. CASE TxPulled
  BY <1>3 DEF TxPulled, IsIdle
<1>4. CASE UnmuteLock
  BY <1>4, SMTT(30), ZenonT(30) DEF UnmuteLock
<1>5. CASE UnmuteSnapshot
  BY <1>5 DEF UnmuteSnapshot
<1>6. CASE UnmuteDuck
  BY <1>6 DEF UnmuteDuck
<1>7. CASE UnmuteEnable
  BY <1>7 DEF UnmuteEnable
<1>8. CASE UnmuteBias
  BY <1>8 DEF UnmuteBias
<1>9. CASE TxWrite
  BY <1>9, SMTT(30), ZenonT(30) DEF TxWrite, Loaded
<1>10. CASE TxCheck
  BY <1>10 DEF TxCheck
<1>11. CASE MainTop
  BY <1>11, SMTT(30), ZenonT(30) DEF MainTop, IsIdle
<1>12. CASE WdTest
  BY <1>12, SMTT(30), ZenonT(30) DEF WdTest
<1>13. CASE WdRead
  BY <1>13, SMTT(30), ZenonT(30) DEF WdRead
<1>14. CASE WdIdle
  BY <1>14 DEF WdIdle, IsIdle
<1>15. CASE WdFlag
  BY <1>15 DEF WdFlag
<1>16. CASE WdBias
  BY <1>16 DEF WdBias
<1>17. CASE WdDisable
  BY <1>17 DEF WdDisable
<1>18. CASE LoTest
  BY <1>18 DEF LoTest
<1>19. CASE LoLock
  BY <1>19 DEF LoLock
<1>20. CASE LoRead
  BY <1>20 DEF LoRead
<1>21. CASE LoProgram
  BY <1>21 DEF LoProgram
<1>22. CASE MainEnqueue
  BY <1>22 DEF MainEnqueue
<1>23. CASE MainSetModem
  BY <1>23 DEF MainSetModem
<1>24. CASE MainNextTurn
  BY <1>24 DEF MainNextTurn
<1>25. CASE Signal
  BY <1>25 DEF Signal
<1>26. CASE MainJoin
  BY <1>26 DEF MainJoin
<1>27. CASE MainTxOff
  BY <1>27 DEF MainTxOff
<1>28. CASE Dies
  BY <1>28 DEF Dies
<1>29. CASE Boot
  BY <1>29 DEF Boot
<1>30. CASE GuiEnableTx
  BY <1>30 DEF GuiEnableTx
<1>31. ASSUME NEW t \in Threads, MuteLock(t) PROVE FlagTypeOK'
  BY <1>31 DEF MuteLock, AfterMute
<1>32. ASSUME NEW t \in Threads, MuteBias(t) PROVE FlagTypeOK'
  BY <1>32 DEF MuteBias, AfterMute
<1>33. ASSUME NEW t \in Threads, MuteDisable(t) PROVE FlagTypeOK'
  BY <1>33 DEF MuteDisable, AfterMute
<1>34. ASSUME NEW t \in Threads, MuteGain(t) PROVE FlagTypeOK'
  BY <1>34 DEF MuteGain, AfterMute
<1>35. ASSUME NEW g \in Gains, GuiGain(g) PROVE FlagTypeOK'
  BY <1>35 DEF GuiGain
<1>36. CASE UNCHANGED vars
  BY <1>36 DEF vars
<1>37. QED
  BY <1>1, <1>2, <1>3, <1>4, <1>5, <1>6, <1>7, <1>8, <1>9, <1>10, <1>11,
     <1>12, <1>13, <1>14, <1>15, <1>16, <1>17, <1>18, <1>19, <1>20,
     <1>21, <1>22, <1>23, <1>24, <1>25, <1>26, <1>27, <1>28, <1>29,
     <1>30, <1>31, <1>32, <1>33, <1>34, <1>35, <1>36
  DEF Next, TxThread, MainThread, Unmute, Mute, WatchdogStep, LoStep,
      Shutdown, Ipc, Gui, Threads

LEMMA TypeStep == TypeOK /\ [Next]_vars => TypeOK'
<1> SUFFICES ASSUME TypeOK, [Next]_vars PROVE TypeOK'
  OBVIOUS
<1>0. FlagTypeOK'
  BY FlagTypeStep DEF TypeOK
<1> USE GainAssumption DEF TypeOK, Goto, At, Threads, TxPcs, MainPcs, TxMuting, TxUnmuting, Watchdog, NoOwner,
           localVars, mainVars, rfVars, paVars, gainVars, Fates
<1>1. CASE TxTop
  BY <1>1, <1>0, LineType DEF TxTop
<1>2. CASE TxPull
  BY <1>2, <1>0, LineType DEF TxPull
<1>3. CASE TxPulled
  BY <1>3, <1>0, LineType DEF TxPulled
<1>4. CASE UnmuteLock
  BY <1>4, <1>0, LineType DEF UnmuteLock
<1>5. CASE UnmuteSnapshot
  BY <1>5, <1>0, LineType DEF UnmuteSnapshot
<1>6. CASE UnmuteDuck
  BY <1>6, <1>0, LineType DEF UnmuteDuck
<1>7. CASE UnmuteEnable
  BY <1>7, <1>0, LineType DEF UnmuteEnable
<1>8. CASE UnmuteBias
  BY <1>8, <1>0, LineType DEF UnmuteBias
<1>9. CASE TxWrite
  BY <1>9, <1>0, LineType DEF TxWrite
<1>10. CASE TxCheck
  BY <1>10, <1>0, LineType DEF TxCheck
<1>11. CASE MainTop
  BY <1>11, <1>0, LineType DEF MainTop
<1>12. CASE WdTest
  BY <1>12, <1>0, LineType DEF WdTest
<1>13. CASE WdRead
  BY <1>13, <1>0, LineType DEF WdRead
<1>14. CASE WdIdle
  BY <1>14, <1>0, LineType DEF WdIdle
<1>15. CASE WdFlag
  BY <1>15, <1>0, LineType DEF WdFlag
<1>16. CASE WdBias
  BY <1>16, <1>0, LineType DEF WdBias
<1>17. CASE WdDisable
  BY <1>17, <1>0, LineType DEF WdDisable
<1>18. CASE LoTest
  BY <1>18, <1>0, LineType DEF LoTest
<1>19. CASE LoLock
  BY <1>19, <1>0, LineType DEF LoLock
<1>20. CASE LoRead
  BY <1>20, <1>0, LineType DEF LoRead
<1>21. CASE LoProgram
  BY <1>21, <1>0, LineType DEF LoProgram
<1>22. CASE MainEnqueue
  BY <1>22, <1>0, LineType DEF MainEnqueue
<1>23. CASE MainSetModem
  BY <1>23, <1>0, LineType DEF MainSetModem
<1>24. CASE MainNextTurn
  BY <1>24, <1>0, LineType DEF MainNextTurn
<1>25. CASE Signal
  BY <1>25, <1>0, LineType DEF Signal
<1>26. CASE MainJoin
  BY <1>26, <1>0, LineType DEF MainJoin
<1>27. CASE MainTxOff
  BY <1>27, <1>0, LineType DEF MainTxOff
<1>28. CASE Dies
  BY <1>28, <1>0, LineType DEF Dies
<1>29. CASE Boot
  <2>1. pulling' \in BOOLEAN
    BY <1>29, <1>0 DEF Boot
  <2>2. LineTypeOK'
    BY <1>29, <1>0, <2>1, EmptySeq, TransmitterAssumption DEF Boot, LineTypeOK
  <2>3. QED  BY <1>29, <1>0, <2>2 DEF Boot
<1>30. CASE GuiEnableTx
  BY <1>30, <1>0, LineType DEF GuiEnableTx
<1>31. ASSUME NEW t \in Threads, MuteLock(t) PROVE TypeOK'
  BY <1>31, <1>0, LineType DEF MuteLock, AfterMute
<1>32. ASSUME NEW t \in Threads, MuteBias(t) PROVE TypeOK'
  BY <1>32, <1>0, LineType DEF MuteBias, AfterMute
<1>33. ASSUME NEW t \in Threads, MuteDisable(t) PROVE TypeOK'
  BY <1>33, <1>0, LineType DEF MuteDisable, AfterMute
<1>34. ASSUME NEW t \in Threads, MuteGain(t) PROVE TypeOK'
  BY <1>34, <1>0, LineType DEF MuteGain, AfterMute
<1>35. ASSUME NEW g \in Gains, GuiGain(g) PROVE TypeOK'
  BY <1>35, <1>0, LineType DEF GuiGain
<1>36. CASE UNCHANGED vars
  BY <1>36, <1>0, LineType DEF vars
<1>37. QED
  BY <1>1, <1>2, <1>3, <1>4, <1>5, <1>6, <1>7, <1>8, <1>9, <1>10, <1>11,
     <1>12, <1>13, <1>14, <1>15, <1>16, <1>17, <1>18, <1>19, <1>20,
     <1>21, <1>22, <1>23, <1>24, <1>25, <1>26, <1>27, <1>28, <1>29,
     <1>30, <1>31, <1>32, <1>33, <1>34, <1>35, <1>36
  DEF Next, TxThread, MainThread, Unmute, Mute, WatchdogStep, LoStep,
      Shutdown, Ipc, Gui, Threads

LEMMA TypeInit == Init => TypeOK
<1> SUFFICES ASSUME Init PROVE TypeOK
  OBVIOUS
<1>1. FlagTypeOK /\ pulling \in BOOLEAN
  BY DEF Init, LineInit, FlagTypeOK
<1>2. LineTypeOK
  BY <1>1, EmptySeq, TransmitterAssumption DEF Init, LineInit, LineTypeOK
<1>3. QED
  BY <1>1, <1>2, GainAssumption
  DEF Init, TypeOK, Fates, Threads, TxPcs, MainPcs, TxMuting, TxUnmuting, Watchdog, NoOwner

(* Every variable of the daemon's transmit side keeps its type: two        *)
(* threads at points of their own loops, a chunk never longer than one     *)
(* pull, a gain the user or the daemon may have set.                       *)
THEOREM TypeCorrect == Spec => []TypeOK
BY TypeInit, TypeStep, PTL DEF Spec


(***************************************************************************)
(* The synthesizers are not reprogrammed under a burst.                    *)
(***************************************************************************)
LEMMA RfStep == TypeOK /\ RfInv /\ [Next]_vars => RfInv'
<1> SUFFICES ASSUME TypeOK, RfInv, [Next]_vars PROVE RfInv'
  OBVIOUS
<1> USE DEF TypeOK, FlagTypeOK, RfInv, Locked, Goto, At, Threads, TxMuting,
            NoOwner, vars, lineVars, localVars, mainVars, rfVars, paVars, gainVars
<1>1. CASE TxTop
  BY <1>1 DEF TxTop, BeginPull
<1>2. CASE TxPull
  BY <1>2 DEF TxPull, PullStep, StartNextBurst, FillFromBurst, FillSilence
<1>3. CASE TxPulled
  BY <1>3 DEF TxPulled, EndPull
<1>4. CASE UnmuteLock
  BY <1>4 DEF UnmuteLock
<1>5. CASE UnmuteSnapshot
  BY <1>5 DEF UnmuteSnapshot
<1>6. CASE UnmuteDuck
  BY <1>6 DEF UnmuteDuck
<1>7. CASE UnmuteEnable
  BY <1>7 DEF UnmuteEnable
<1>8. CASE UnmuteBias
  BY <1>8 DEF UnmuteBias
<1>9. CASE TxWrite
  BY <1>9 DEF TxWrite, WriteChunk
<1>10. CASE TxCheck
  BY <1>10 DEF TxCheck
<1>11. CASE MainTop
  BY <1>11 DEF MainTop
<1>12. CASE WdTest
  BY <1>12 DEF WdTest
<1>13. CASE WdRead
  BY <1>13 DEF WdRead
<1>14. CASE WdIdle
  BY <1>14 DEF WdIdle
<1>15. CASE WdFlag
  BY <1>15 DEF WdFlag
<1>16. CASE WdBias
  BY <1>16 DEF WdBias
<1>17. CASE WdDisable
  BY <1>17 DEF WdDisable
<1>18. CASE LoTest
  BY <1>18 DEF LoTest
<1>19. CASE LoLock
  BY <1>19 DEF LoLock
<1>20. CASE LoRead
  BY <1>20 DEF LoRead
<1>21. CASE LoProgram
  BY <1>21 DEF LoProgram
<1>22. CASE MainEnqueue
  BY <1>22 DEF MainEnqueue, Enqueue
<1>23. CASE MainSetModem
  BY <1>23 DEF MainSetModem, SetModem, Reconstruct, SetModemFails
<1>24. CASE MainNextTurn
  BY <1>24 DEF MainNextTurn
<1>25. CASE Signal
  BY <1>25 DEF Signal
<1>26. CASE MainJoin
  BY <1>26 DEF MainJoin
<1>27. CASE MainTxOff
  BY <1>27 DEF MainTxOff
<1>28. CASE Dies
  BY <1>28 DEF Dies
<1>29. CASE Boot
  BY <1>29 DEF Boot
<1>30. CASE GuiEnableTx
  BY <1>30 DEF GuiEnableTx
<1>31. ASSUME NEW t \in Threads, MuteLock(t) PROVE RfInv'
  BY <1>31 DEF MuteLock, AfterMute
<1>32. ASSUME NEW t \in Threads, MuteBias(t) PROVE RfInv'
  BY <1>32 DEF MuteBias, AfterMute
<1>33. ASSUME NEW t \in Threads, MuteDisable(t) PROVE RfInv'
  BY <1>33 DEF MuteDisable, AfterMute
<1>34. ASSUME NEW t \in Threads, MuteGain(t) PROVE RfInv'
  BY <1>34 DEF MuteGain, AfterMute
<1>35. ASSUME NEW g \in Gains, GuiGain(g) PROVE RfInv'
  BY <1>35 DEF GuiGain
<1>36. CASE UNCHANGED vars
  BY <1>36 DEF vars
<1>37. QED
  BY <1>1, <1>2, <1>3, <1>4, <1>5, <1>6, <1>7, <1>8, <1>9, <1>10, <1>11,
     <1>12, <1>13, <1>14, <1>15, <1>16, <1>17, <1>18, <1>19, <1>20,
     <1>21, <1>22, <1>23, <1>24, <1>25, <1>26, <1>27, <1>28, <1>29,
     <1>30, <1>31, <1>32, <1>33, <1>34, <1>35, <1>36
  DEF Next, TxThread, MainThread, Unmute, Mute, WatchdogStep, LoStep,
      Shutdown, Ipc, Gui, Threads


LEMMA LoadedSame == chunk' = chunk => (Loaded' <=> Loaded)
BY DEF Loaded

(* Silence added to silence is silence. *)
LEMMA PadKeepsSilence ==
  ASSUME LineTypeOK, FillSilence, ~Loaded
  PROVE  ~Loaded'
<1> USE TransmitterAssumption DEF LineTypeOK
<1>1. Room \in Nat
  BY DEF FillSilence, Room
<1>2. Silences(Room) \in Seq({Silence}) /\ Len(Silences(Room)) = Room
  BY <1>1, FunctionIsSeq DEF Silences
<1>3. Silences(Room) \in Seq(Sample \cup {Silence})
  BY <1>2, SeqMonotonic
<1>4. \A i \in 1..Len(chunk') : chunk'[i] = Silence
  <2> SUFFICES ASSUME NEW i \in 1..Len(chunk') PROVE chunk'[i] = Silence
    OBVIOUS
  <2>1. Len(chunk') = Len(chunk) + Room
    BY <1>2, <1>3, ConcatProperties, SMTT(30), ZenonT(30) DEF FillSilence
  <2>2. chunk'[i] = IF i <= Len(chunk) THEN chunk[i] ELSE Silences(Room)[i - Len(chunk)]
    BY <1>2, <1>3, <2>1, ConcatProperties DEF FillSilence
  <2>3. CASE i <= Len(chunk)
    BY <2>1, <2>2, <2>3 DEF Loaded
  <2>4. CASE ~(i <= Len(chunk))
    BY <1>1, <2>1, <2>2, <2>4 DEF Silences
  <2>5. QED  BY <2>3, <2>4
<1>5. QED  BY <1>4 DEF Loaded

LEMMA ChunkStep ==
  TypeOK /\ RfInv /\ ChunkInv /\ [Next]_vars => ChunkInv'
<1> SUFFICES ASSUME TypeOK, RfInv, ChunkInv, [Next]_vars PROVE ChunkInv'
  OBVIOUS
<1> USE LoadedSame
    DEF TypeOK, FlagTypeOK, RfInv, ChunkInv, Locked, Goto, At, Threads,
        TxMuting, NoOwner, IsIdle, vars, lineVars, localVars, mainVars, rfVars, paVars, gainVars
<1>1. CASE TxTop
  <2>1. chunk = <<>> => ~Loaded
    BY EmptySeq DEF Loaded
  <2>2. QED  BY <1>1, <2>1 DEF TxTop, BeginPull
<1>2. CASE TxPull
  <2>1. CASE want_unmute
    BY <1>2, <2>1 DEF TxPull
  <2>2. CASE ~want_unmute
    <3>1. FillSilence /\ ~Loaded
      BY <1>2, <2>2 DEF TxPull, PullStep, StartNextBurst, FillFromBurst
    <3>2. QED  BY <1>2, <2>2, <3>1, PadKeepsSilence DEF TxPull, FillSilence
  <2>3. QED  BY <2>1, <2>2
<1>3. CASE TxPulled
  BY <1>3 DEF TxPulled, EndPull
<1>4. CASE UnmuteLock
  BY <1>4 DEF UnmuteLock
<1>5. CASE UnmuteSnapshot
  BY <1>5 DEF UnmuteSnapshot
<1>6. CASE UnmuteDuck
  BY <1>6 DEF UnmuteDuck
<1>7. CASE UnmuteEnable
  BY <1>7 DEF UnmuteEnable
<1>8. CASE UnmuteBias
  BY <1>8 DEF UnmuteBias
<1>9. CASE TxWrite
  BY <1>9 DEF TxWrite, WriteChunk
<1>10. CASE TxCheck
  BY <1>10 DEF TxCheck
<1>11. CASE MainTop
  BY <1>11 DEF MainTop
<1>12. CASE WdTest
  BY <1>12 DEF WdTest
<1>13. CASE WdRead
  BY <1>13 DEF WdRead
<1>14. CASE WdIdle
  BY <1>14 DEF WdIdle
<1>15. CASE WdFlag
  BY <1>15 DEF WdFlag
<1>16. CASE WdBias
  BY <1>16 DEF WdBias
<1>17. CASE WdDisable
  BY <1>17 DEF WdDisable
<1>18. CASE LoTest
  BY <1>18 DEF LoTest
<1>19. CASE LoLock
  BY <1>19 DEF LoLock
<1>20. CASE LoRead
  BY <1>20 DEF LoRead
<1>21. CASE LoProgram
  BY <1>21 DEF LoProgram
<1>22. CASE MainEnqueue
  BY <1>22 DEF MainEnqueue, Enqueue
<1>23. CASE MainSetModem
  BY <1>23 DEF MainSetModem, SetModem, Reconstruct, SetModemFails
<1>24. CASE MainNextTurn
  BY <1>24 DEF MainNextTurn
<1>25. CASE Signal
  BY <1>25 DEF Signal
<1>26. CASE MainJoin
  BY <1>26 DEF MainJoin
<1>27. CASE MainTxOff
  BY <1>27 DEF MainTxOff
<1>28. CASE Dies
  BY <1>28 DEF Dies
<1>29. CASE Boot
  BY <1>29 DEF Boot
<1>30. CASE GuiEnableTx
  BY <1>30 DEF GuiEnableTx
<1>31. ASSUME NEW t \in Threads, MuteLock(t) PROVE ChunkInv'
  BY <1>31 DEF MuteLock, AfterMute
<1>32. ASSUME NEW t \in Threads, MuteBias(t) PROVE ChunkInv'
  BY <1>32 DEF MuteBias, AfterMute
<1>33. ASSUME NEW t \in Threads, MuteDisable(t) PROVE ChunkInv'
  BY <1>33 DEF MuteDisable, AfterMute
<1>34. ASSUME NEW t \in Threads, MuteGain(t) PROVE ChunkInv'
  BY <1>34 DEF MuteGain, AfterMute
<1>35. ASSUME NEW g \in Gains, GuiGain(g) PROVE ChunkInv'
  BY <1>35 DEF GuiGain
<1>36. CASE UNCHANGED vars
  BY <1>36 DEF vars
<1>37. QED
  BY <1>1, <1>2, <1>3, <1>4, <1>5, <1>6, <1>7, <1>8, <1>9, <1>10, <1>11,
     <1>12, <1>13, <1>14, <1>15, <1>16, <1>17, <1>18, <1>19, <1>20,
     <1>21, <1>22, <1>23, <1>24, <1>25, <1>26, <1>27, <1>28, <1>29,
     <1>30, <1>31, <1>32, <1>33, <1>34, <1>35, <1>36
  DEF Next, TxThread, MainThread, Unmute, Mute, WatchdogStep, LoStep,
      Shutdown, Ipc, Gui, Threads

LEMMA SilenceStep ==
  TypeOK /\ RfInv /\ ChunkInv /\ SilenceInv /\ [Next]_vars => SilenceInv'
<1> SUFFICES ASSUME TypeOK, RfInv, ChunkInv, SilenceInv, [Next]_vars
             PROVE  SilenceInv'
  OBVIOUS
<1> USE DEF TypeOK, FlagTypeOK, RfInv, ChunkInv, SilenceInv, Goto, At, Threads,
            TxMuting, vars, lineVars, localVars, mainVars, rfVars, paVars, gainVars
<1>1. CASE TxTop
  BY <1>1 DEF TxTop, BeginPull
<1>2. CASE TxPull
  BY <1>2 DEF TxPull, PullStep, StartNextBurst, FillFromBurst, FillSilence
<1>3. CASE TxPulled
  BY <1>3 DEF TxPulled, EndPull
<1>4. CASE UnmuteLock
  BY <1>4 DEF UnmuteLock
<1>5. CASE UnmuteSnapshot
  BY <1>5 DEF UnmuteSnapshot
<1>6. CASE UnmuteDuck
  BY <1>6 DEF UnmuteDuck
<1>7. CASE UnmuteEnable
  BY <1>7 DEF UnmuteEnable
<1>8. CASE UnmuteBias
  BY <1>8 DEF UnmuteBias
<1>9. CASE TxWrite
  BY <1>9 DEF TxWrite, WriteChunk
<1>10. CASE TxCheck
  BY <1>10 DEF TxCheck
<1>11. CASE MainTop
  BY <1>11 DEF MainTop
<1>12. CASE WdTest
  BY <1>12 DEF WdTest
<1>13. CASE WdRead
  BY <1>13 DEF WdRead
<1>14. CASE WdIdle
  BY <1>14 DEF WdIdle
<1>15. CASE WdFlag
  BY <1>15 DEF WdFlag
<1>16. CASE WdBias
  BY <1>16 DEF WdBias
<1>17. CASE WdDisable
  BY <1>17 DEF WdDisable
<1>18. CASE LoTest
  BY <1>18 DEF LoTest
<1>19. CASE LoLock
  BY <1>19 DEF LoLock
<1>20. CASE LoRead
  BY <1>20 DEF LoRead
<1>21. CASE LoProgram
  BY <1>21 DEF LoProgram
<1>22. CASE MainEnqueue
  BY <1>22 DEF MainEnqueue, Enqueue
<1>23. CASE MainSetModem
  BY <1>23 DEF MainSetModem, SetModem, Reconstruct, SetModemFails
<1>24. CASE MainNextTurn
  BY <1>24 DEF MainNextTurn
<1>25. CASE Signal
  BY <1>25 DEF Signal
<1>26. CASE MainJoin
  BY <1>26 DEF MainJoin
<1>27. CASE MainTxOff
  BY <1>27 DEF MainTxOff
<1>28. CASE Dies
  BY <1>28 DEF Dies
<1>29. CASE Boot
  BY <1>29 DEF Boot
<1>30. CASE GuiEnableTx
  BY <1>30 DEF GuiEnableTx
<1>31. ASSUME NEW t \in Threads, MuteLock(t) PROVE SilenceInv'
  BY <1>31 DEF MuteLock, AfterMute
<1>32. ASSUME NEW t \in Threads, MuteBias(t) PROVE SilenceInv'
  BY <1>32 DEF MuteBias, AfterMute
<1>33. ASSUME NEW t \in Threads, MuteDisable(t) PROVE SilenceInv'
  BY <1>33 DEF MuteDisable, AfterMute
<1>34. ASSUME NEW t \in Threads, MuteGain(t) PROVE SilenceInv'
  BY <1>34 DEF MuteGain, AfterMute
<1>35. ASSUME NEW g \in Gains, GuiGain(g) PROVE SilenceInv'
  BY <1>35 DEF GuiGain
<1>36. CASE UNCHANGED vars
  BY <1>36 DEF vars
<1>37. QED
  BY <1>1, <1>2, <1>3, <1>4, <1>5, <1>6, <1>7, <1>8, <1>9, <1>10, <1>11,
     <1>12, <1>13, <1>14, <1>15, <1>16, <1>17, <1>18, <1>19, <1>20,
     <1>21, <1>22, <1>23, <1>24, <1>25, <1>26, <1>27, <1>28, <1>29,
     <1>30, <1>31, <1>32, <1>33, <1>34, <1>35, <1>36
  DEF Next, TxThread, MainThread, Unmute, Mute, WatchdogStep, LoStep,
      Shutdown, Ipc, Gui, Threads


(***************************************************************************)
(* The RX gain is restored.                                                *)
(***************************************************************************)
LEMMA GainStep == TypeOK /\ RfInv /\ GainInv /\ [Next]_vars => GainInv'
<1> SUFFICES ASSUME TypeOK, RfInv, GainInv, [Next]_vars PROVE GainInv'
  OBVIOUS
<1> USE DEF TypeOK, FlagTypeOK, RfInv, GainInv, GainHeld, MeantGain, Fates, Locked, Goto,
            At, Threads, TxMuting, NoOwner, vars, lineVars, localVars, mainVars, rfVars, paVars, gainVars
<1>1. CASE TxTop
  BY <1>1 DEF TxTop, BeginPull
<1>2. CASE TxPull
  BY <1>2 DEF TxPull
<1>3. CASE TxPulled
  BY <1>3 DEF TxPulled, EndPull
<1>4. CASE UnmuteLock
  BY <1>4 DEF UnmuteLock
<1>5. CASE UnmuteSnapshot
  BY <1>5 DEF UnmuteSnapshot
<1>6. CASE UnmuteDuck
  BY <1>6 DEF UnmuteDuck
<1>7. CASE UnmuteEnable
  BY <1>7 DEF UnmuteEnable
<1>8. CASE UnmuteBias
  BY <1>8 DEF UnmuteBias
<1>9. CASE TxWrite
  BY <1>9 DEF TxWrite, WriteChunk
<1>10. CASE TxCheck
  BY <1>10 DEF TxCheck
<1>11. CASE MainTop
  BY <1>11 DEF MainTop
<1>12. CASE WdTest
  BY <1>12 DEF WdTest
<1>13. CASE WdRead
  BY <1>13 DEF WdRead
<1>14. CASE WdIdle
  BY <1>14 DEF WdIdle
<1>15. CASE WdFlag
  BY <1>15 DEF WdFlag
<1>16. CASE WdBias
  BY <1>16 DEF WdBias
<1>17. CASE WdDisable
  BY <1>17 DEF WdDisable
<1>18. CASE LoTest
  BY <1>18 DEF LoTest
<1>19. CASE LoLock
  BY <1>19 DEF LoLock
<1>20. CASE LoRead
  BY <1>20 DEF LoRead
<1>21. CASE LoProgram
  BY <1>21 DEF LoProgram
<1>22. CASE MainEnqueue
  BY <1>22 DEF MainEnqueue
<1>23. CASE MainSetModem
  BY <1>23 DEF MainSetModem
<1>24. CASE MainNextTurn
  BY <1>24 DEF MainNextTurn
<1>25. CASE Signal
  BY <1>25 DEF Signal
<1>26. CASE MainJoin
  BY <1>26 DEF MainJoin
<1>27. CASE MainTxOff
  BY <1>27 DEF MainTxOff
<1>28. CASE Dies
  BY <1>28 DEF Dies
<1>29. CASE Boot
  BY <1>29 DEF Boot
<1>30. CASE GuiEnableTx
  BY <1>30 DEF GuiEnableTx
<1>31. ASSUME NEW t \in Threads, MuteLock(t) PROVE GainInv'
  BY <1>31 DEF MuteLock, AfterMute
<1>32. ASSUME NEW t \in Threads, MuteBias(t) PROVE GainInv'
  BY <1>32 DEF MuteBias, AfterMute
<1>33. ASSUME NEW t \in Threads, MuteDisable(t) PROVE GainInv'
  BY <1>33 DEF MuteDisable, AfterMute
<1>34. ASSUME NEW t \in Threads, MuteGain(t) PROVE GainInv'
  BY <1>34 DEF MuteGain, AfterMute
<1>35. ASSUME NEW g \in Gains, GuiGain(g) PROVE GainInv'
  BY <1>35 DEF GuiGain
<1>36. CASE UNCHANGED vars
  BY <1>36 DEF vars
<1>37. QED
  BY <1>1, <1>2, <1>3, <1>4, <1>5, <1>6, <1>7, <1>8, <1>9, <1>10, <1>11,
     <1>12, <1>13, <1>14, <1>15, <1>16, <1>17, <1>18, <1>19, <1>20,
     <1>21, <1>22, <1>23, <1>24, <1>25, <1>26, <1>27, <1>28, <1>29,
     <1>30, <1>31, <1>32, <1>33, <1>34, <1>35, <1>36
  DEF Next, TxThread, MainThread, Unmute, Mute, WatchdogStep, LoStep,
      Shutdown, Ipc, Gui, Threads

(***************************************************************************)
(* The theorems.                                                           *)
(***************************************************************************)
SafetyInv == TypeOK /\ RfInv /\ ChunkInv /\ SilenceInv /\ GainInv

LEMMA SafetyInit == Init => SafetyInv
<1> SUFFICES ASSUME Init PROVE SafetyInv
  OBVIOUS
<1>1. TypeOK
  BY TypeInit
<1>2. ~Loaded
  BY EmptySeq DEF Init, LineInit, Loaded
<1>3. RfInv /\ ChunkInv /\ SilenceInv /\ GainInv
  BY <1>2
  DEF Init, LineInit, RfInv, ChunkInv, SilenceInv, GainInv, GainHeld, MeantGain,
      At, Threads, TxMuting, TxUnmuting, Locked, NoOwner
<1>4. QED  BY <1>1, <1>3 DEF SafetyInv

LEMMA SafetyInvariant == Spec => []SafetyInv
<1>1. SafetyInv /\ [Next]_vars => SafetyInv'
  BY TypeStep, RfStep, ChunkStep, SilenceStep, GainStep DEF SafetyInv
<1>2. QED  BY SafetyInit, <1>1, PTL DEF Spec

(* A synthesizer is never reprogrammed while the PA is unmuted or a burst  *)
(* is being written, whatever the main loop and the TX thread do to each   *)
(* other (pollLoFollow against unmuteTxRf).                                *)
THEOREM RetuneIsOffAir == Spec => []NoRetuneOnAir
<1>1. SafetyInv => NoRetuneOnAir
  BY DEF SafetyInv, RfInv, ChunkInv, NoRetuneOnAir, At
<1>2. QED  BY <1>1, SafetyInvariant, PTL

(* The ducked RX gain never outlives the burst: whenever no snapshot is    *)
(* outstanding the register holds the gain the user set last, unless a     *)
(* failed read, a restart or a gain set during a burst lost it, and then   *)
(* the gain known to be in force instead (unmuteTxRf, muteTxRf).  Of the   *)
(* history of the user's gain only his own settings write the value.       *)
THEOREM GainIsRestored == Spec => []GainRestored
<1>1. SafetyInv => GainRestored
  BY DEF SafetyInv, GainInv, GainRestored, Alive, At
<1>2. QED  BY <1>1, SafetyInvariant, PTL

(* The TX thread mutes the PA only after writing a whole chunk of silence  *)
(* behind the burst, so no mute truncates a burst.                         *)
THEOREM MuteFollowsSilence == Spec => []MuteAfterSilence
<1>1. SafetyInv => MuteAfterSilence
  BY DEF SafetyInv, SilenceInv, MuteAfterSilence, At, TxMuting
<1>2. QED  BY <1>1, SafetyInvariant, PTL


(***************************************************************************)
(* Bursts under the PA, where every burst is longer than a chunk and the   *)
(* preset does not change.                                                 *)
(***************************************************************************)
LEMMA BurstIsLong ==
  ASSUME LineTypeOK, LongBursts, StartNextBurst
  PROVE  Len(burst') > ChunkLen
<1> USE TransmitterAssumption DEF LineTypeOK
<1> DEFINE w == Head(queue)
<1>1. w.frame \in Frames
  <2>1. w \in Waveform
    BY DEF StartNextBurst
  <2>2. QED  BY <2>1 DEF Waveform
<1>2. BurstLen[w.frame] \in Nat /\ BurstLen[w.frame] > ChunkLen
  BY <1>1 DEF LongBursts
<1>3. Len(BurstOf(w)) = BurstLen[w.frame]
  <2> DEFINE S == {<<w, i>> : i \in Nat}
  <2>1. BurstOf(w) \in [1..BurstLen[w.frame] -> S]
    BY <1>2 DEF BurstOf
  <2>2. QED  BY <1>2, <2>1, FunctionIsSeq
<1>4. QED  BY <1>2, <1>3 DEF StartNextBurst

(* The first chunk of a long burst takes a part of it. *)
LEMMA FirstChunk ==
  ASSUME LineTypeOK, FillFromBurst, chunk = <<>>, Len(burst) > ChunkLen
  PROVE  Len(chunk') = ChunkLen /\ burst' # <<>>
<1> USE TransmitterAssumption DEF LineTypeOK
<1>1. Room = ChunkLen
  BY DEF Room
<1>2. chunk' = <<>> \o SubSeq(burst, 1, ChunkLen)
  BY <1>1 DEF FillFromBurst
<1>3. SubSeq(burst, 1, ChunkLen) \in Seq(Sample) /\ Len(SubSeq(burst, 1, ChunkLen)) = ChunkLen
  OBVIOUS
<1>4. burst' = SubSeq(burst, ChunkLen + 1, Len(burst))
  BY <1>1 DEF FillFromBurst
<1>5. Len(burst') > 0
  BY <1>4
<1>6. QED  BY <1>2, <1>3, <1>5

LEMMA LongStep ==
  ASSUME LongBursts, OnePreset, TypeOK, RfInv, ChunkInv, LongInv, [Next]_vars
  PROVE  LongInv'
<1> USE DEF TypeOK, FlagTypeOK, RfInv, ChunkInv, LongInv, Goto, At, Threads,
            TxMuting, TxUnmuting, Locked, IsIdle, vars, lineVars, localVars, mainVars, rfVars, paVars,
            gainVars
<1>1. CASE TxTop
  BY <1>1 DEF TxTop, BeginPull
<1>2. CASE TxPull
  <2>1. CASE tx_unmuted \/ ~want_unmute
    BY <1>2, <2>1 DEF TxPull, PullStep, StartNextBurst, FillFromBurst, FillSilence
  <2>2. CASE ~tx_unmuted /\ want_unmute
    <3>1. CASE StartNextBurst
      <4>1. Len(burst') > ChunkLen
        BY <3>1, BurstIsLong
      <4>2. chunk = <<>>
        BY <1>2, <2>2, <3>1, TransmitterAssumption
        DEF TxPull, StartNextBurst, Room, LineTypeOK
      <4>3. QED  BY <1>2, <2>2, <3>1, <4>1, <4>2 DEF TxPull, StartNextBurst
    <3>2. CASE FillFromBurst
      <4>1. chunk = <<>> /\ Len(burst) > ChunkLen
        BY <1>2, <2>2, <3>2, TransmitterAssumption
        DEF TxPull, FillFromBurst, Room, LineTypeOK
      <4>2. Len(chunk') = ChunkLen /\ burst' # <<>>
        BY <3>2, <4>1, FirstChunk
      <4>3. QED  BY <1>2, <2>2, <3>2, <4>2 DEF TxPull, FillFromBurst
    <3>3. CASE FillSilence
      <4>1. FALSE
        BY <1>2, <2>2, <3>3, TransmitterAssumption
        DEF TxPull, FillSilence, Room, LineTypeOK
      <4>2. QED  BY <4>1
    <3>4. QED  BY <1>2, <3>1, <3>2, <3>3 DEF TxPull, PullStep
  <2>3. QED  BY <2>1, <2>2
<1>3. CASE TxPulled
  <2>1. want_unmute /\ ~tx_unmuted => burst # <<>>
    BY <1>3, TransmitterAssumption DEF TxPulled, EndPull, Room, LineTypeOK
  <2>2. QED  BY <1>3, <2>1 DEF TxPulled, EndPull
<1>4. CASE UnmuteLock
  BY <1>4 DEF UnmuteLock
<1>5. CASE UnmuteSnapshot
  BY <1>5 DEF UnmuteSnapshot
<1>6. CASE UnmuteDuck
  BY <1>6 DEF UnmuteDuck
<1>7. CASE UnmuteEnable
  BY <1>7 DEF UnmuteEnable
<1>8. CASE UnmuteBias
  BY <1>8 DEF UnmuteBias
<1>9. CASE TxWrite
  BY <1>9 DEF TxWrite, WriteChunk
<1>10. CASE TxCheck
  BY <1>10 DEF TxCheck
<1>11. CASE MainTop
  BY <1>11 DEF MainTop
<1>12. CASE WdTest
  BY <1>12 DEF WdTest
<1>13. CASE WdRead
  BY <1>13 DEF WdRead
<1>14. CASE WdIdle
  BY <1>14 DEF WdIdle
<1>15. CASE WdFlag
  BY <1>15 DEF WdFlag
<1>16. CASE WdBias
  BY <1>16 DEF WdBias
<1>17. CASE WdDisable
  BY <1>17 DEF WdDisable
<1>18. CASE LoTest
  BY <1>18 DEF LoTest
<1>19. CASE LoLock
  BY <1>19 DEF LoLock
<1>20. CASE LoRead
  BY <1>20 DEF LoRead
<1>21. CASE LoProgram
  BY <1>21 DEF LoProgram
<1>22. CASE MainEnqueue
  BY <1>22 DEF MainEnqueue, Enqueue
<1>23. CASE MainSetModem
  BY <1>23 DEF MainSetModem, SetModem, OnePreset, LineTypeOK
<1>24. CASE MainNextTurn
  BY <1>24 DEF MainNextTurn
<1>25. CASE Signal
  BY <1>25 DEF Signal
<1>26. CASE MainJoin
  BY <1>26 DEF MainJoin
<1>27. CASE MainTxOff
  BY <1>27 DEF MainTxOff
<1>28. CASE Dies
  BY <1>28 DEF Dies
<1>29. CASE Boot
  BY <1>29 DEF Boot
<1>30. CASE GuiEnableTx
  BY <1>30 DEF GuiEnableTx
<1>31. ASSUME NEW t \in Threads, MuteLock(t) PROVE LongInv'
  BY <1>31 DEF MuteLock, AfterMute
<1>32. ASSUME NEW t \in Threads, MuteBias(t) PROVE LongInv'
  BY <1>32 DEF MuteBias, AfterMute
<1>33. ASSUME NEW t \in Threads, MuteDisable(t) PROVE LongInv'
  BY <1>33 DEF MuteDisable, AfterMute
<1>34. ASSUME NEW t \in Threads, MuteGain(t) PROVE LongInv'
  BY <1>34 DEF MuteGain, AfterMute
<1>35. ASSUME NEW g \in Gains, GuiGain(g) PROVE LongInv'
  BY <1>35 DEF GuiGain
<1>36. CASE UNCHANGED vars
  BY <1>36 DEF vars
<1>37. QED
  BY <1>1, <1>2, <1>3, <1>4, <1>5, <1>6, <1>7, <1>8, <1>9, <1>10, <1>11,
     <1>12, <1>13, <1>14, <1>15, <1>16, <1>17, <1>18, <1>19, <1>20,
     <1>21, <1>22, <1>23, <1>24, <1>25, <1>26, <1>27, <1>28, <1>29,
     <1>30, <1>31, <1>32, <1>33, <1>34, <1>35, <1>36
  DEF Next, TxThread, MainThread, Unmute, Mute, WatchdogStep, LoStep,
      Shutdown, Ipc, Gui, Threads

LEMMA WatchdogKept ==
  ASSUME OnePreset, TypeOK, RfInv, ChunkInv, LongInv, WatchdogInv, [Next]_vars
  PROVE  WatchdogInv'
<1> USE DEF TypeOK, FlagTypeOK, RfInv, ChunkInv, WatchdogInv, Quiet, Goto, At,
            Threads, TxMuting, TxUnmuting, Locked, IsIdle, vars, lineVars, localVars, mainVars, rfVars, paVars,
            gainVars
<1>1. CASE TxTop
  <2>1. CASE ~running
    BY <1>1, <2>1 DEF TxTop
  <2>2. CASE running
    <3>1. IsIdle => ~want_unmute'
      BY <1>1, <2>2 DEF TxTop
    <3>2. pc' = [pc EXCEPT !["tx"] = "pull"] /\ UNCHANGED <<queue, burst, still_idle, tx_unmuted>>
      BY <1>1, <2>2 DEF TxTop, BeginPull
    <3>3. QED  BY <3>1, <3>2
  <2>3. QED  BY <2>1, <2>2
<1>2. CASE TxPull
  BY <1>2 DEF TxPull, PullStep, StartNextBurst, FillFromBurst, FillSilence
<1>3. CASE TxPulled
  BY <1>3 DEF TxPulled, EndPull
<1>4. CASE UnmuteLock
  BY <1>4 DEF UnmuteLock
<1>5. CASE UnmuteSnapshot
  BY <1>5 DEF UnmuteSnapshot
<1>6. CASE UnmuteDuck
  BY <1>6 DEF UnmuteDuck
<1>7. CASE UnmuteEnable
  BY <1>7 DEF UnmuteEnable
<1>8. CASE UnmuteBias
  BY <1>8 DEF UnmuteBias
<1>9. CASE TxWrite
  BY <1>9 DEF TxWrite, WriteChunk
<1>10. CASE TxCheck
  BY <1>10 DEF TxCheck
<1>11. CASE MainTop
  BY <1>11 DEF MainTop
<1>12. CASE WdTest
  BY <1>12 DEF WdTest
<1>13. CASE WdRead
  BY <1>13 DEF WdRead
<1>14. CASE WdIdle
  BY <1>14 DEF WdIdle, LongInv
<1>15. CASE WdFlag
  BY <1>15 DEF WdFlag
<1>16. CASE WdBias
  BY <1>16 DEF WdBias
<1>17. CASE WdDisable
  BY <1>17 DEF WdDisable
<1>18. CASE LoTest
  BY <1>18 DEF LoTest
<1>19. CASE LoLock
  BY <1>19 DEF LoLock
<1>20. CASE LoRead
  BY <1>20 DEF LoRead
<1>21. CASE LoProgram
  BY <1>21 DEF LoProgram
<1>22. CASE MainEnqueue
  BY <1>22 DEF MainEnqueue, Enqueue
<1>23. CASE MainSetModem
  BY <1>23 DEF MainSetModem
<1>24. CASE MainNextTurn
  BY <1>24 DEF MainNextTurn
<1>25. CASE Signal
  BY <1>25 DEF Signal
<1>26. CASE MainJoin
  BY <1>26 DEF MainJoin
<1>27. CASE MainTxOff
  BY <1>27 DEF MainTxOff
<1>28. CASE Dies
  BY <1>28 DEF Dies
<1>29. CASE Boot
  BY <1>29 DEF Boot
<1>30. CASE GuiEnableTx
  BY <1>30 DEF GuiEnableTx
<1>31. ASSUME NEW t \in Threads, MuteLock(t) PROVE WatchdogInv'
  BY <1>31 DEF MuteLock, AfterMute
<1>32. ASSUME NEW t \in Threads, MuteBias(t) PROVE WatchdogInv'
  BY <1>32 DEF MuteBias, AfterMute
<1>33. ASSUME NEW t \in Threads, MuteDisable(t) PROVE WatchdogInv'
  BY <1>33 DEF MuteDisable, AfterMute
<1>34. ASSUME NEW t \in Threads, MuteGain(t) PROVE WatchdogInv'
  BY <1>34 DEF MuteGain, AfterMute
<1>35. ASSUME NEW g \in Gains, GuiGain(g) PROVE WatchdogInv'
  BY <1>35 DEF GuiGain
<1>36. CASE UNCHANGED vars
  BY <1>36 DEF vars
<1>37. QED
  BY <1>1, <1>2, <1>3, <1>4, <1>5, <1>6, <1>7, <1>8, <1>9, <1>10, <1>11,
     <1>12, <1>13, <1>14, <1>15, <1>16, <1>17, <1>18, <1>19, <1>20,
     <1>21, <1>22, <1>23, <1>24, <1>25, <1>26, <1>27, <1>28, <1>29,
     <1>30, <1>31, <1>32, <1>33, <1>34, <1>35, <1>36
  DEF Next, TxThread, MainThread, Unmute, Mute, WatchdogStep, LoStep,
      Shutdown, Ipc, Gui, Threads

LEMMA PaStep ==
  ASSUME TypeOK, RfInv, ChunkInv, WatchdogInv, PaInv, [Next]_vars
  PROVE  PaInv'
<1> USE DEF TypeOK, FlagTypeOK, RfInv, WatchdogInv, Quiet, PaInv, Alive, Goto,
            At, Threads, TxMuting, TxUnmuting, Locked, NoOwner, vars, lineVars, localVars, mainVars, rfVars, paVars,
            gainVars
<1>1. CASE TxTop
  BY <1>1 DEF TxTop, BeginPull
<1>2. CASE TxPull
  BY <1>2 DEF TxPull
<1>3. CASE TxPulled
  BY <1>3 DEF TxPulled, EndPull
<1>4. CASE UnmuteLock
  BY <1>4 DEF UnmuteLock
<1>5. CASE UnmuteSnapshot
  BY <1>5 DEF UnmuteSnapshot
<1>6. CASE UnmuteDuck
  BY <1>6 DEF UnmuteDuck
<1>7. CASE UnmuteEnable
  BY <1>7 DEF UnmuteEnable
<1>8. CASE UnmuteBias
  BY <1>8 DEF UnmuteBias
<1>9. CASE TxWrite
  BY <1>9 DEF TxWrite, WriteChunk
<1>10. CASE TxCheck
  BY <1>10 DEF TxCheck
<1>11. CASE MainTop
  BY <1>11 DEF MainTop
<1>12. CASE WdTest
  BY <1>12 DEF WdTest
<1>13. CASE WdRead
  BY <1>13 DEF WdRead
<1>14. CASE WdIdle
  BY <1>14 DEF WdIdle
<1>15. CASE WdFlag
  BY <1>15 DEF WdFlag
<1>16. CASE WdBias
  BY <1>16 DEF WdBias
<1>17. CASE WdDisable
  BY <1>17 DEF WdDisable
<1>18. CASE LoTest
  BY <1>18 DEF LoTest
<1>19. CASE LoLock
  BY <1>19 DEF LoLock
<1>20. CASE LoRead
  BY <1>20 DEF LoRead
<1>21. CASE LoProgram
  BY <1>21 DEF LoProgram
<1>22. CASE MainEnqueue
  BY <1>22 DEF MainEnqueue, Enqueue
<1>23. CASE MainSetModem
  BY <1>23 DEF MainSetModem
<1>24. CASE MainNextTurn
  BY <1>24 DEF MainNextTurn
<1>25. CASE Signal
  BY <1>25 DEF Signal
<1>26. CASE MainJoin
  BY <1>26 DEF MainJoin
<1>27. CASE MainTxOff
  BY <1>27 DEF MainTxOff
<1>28. CASE Dies
  BY <1>28 DEF Dies
<1>29. CASE Boot
  BY <1>29 DEF Boot
<1>30. CASE GuiEnableTx
  BY <1>30 DEF GuiEnableTx
<1>31. ASSUME NEW t \in Threads, MuteLock(t) PROVE PaInv'
  BY <1>31 DEF MuteLock, AfterMute
<1>32. ASSUME NEW t \in Threads, MuteBias(t) PROVE PaInv'
  BY <1>32 DEF MuteBias, AfterMute
<1>33. ASSUME NEW t \in Threads, MuteDisable(t) PROVE PaInv'
  BY <1>33 DEF MuteDisable, AfterMute
<1>34. ASSUME NEW t \in Threads, MuteGain(t) PROVE PaInv'
  BY <1>34 DEF MuteGain, AfterMute
<1>35. ASSUME NEW g \in Gains, GuiGain(g) PROVE PaInv'
  BY <1>35 DEF GuiGain
<1>36. CASE UNCHANGED vars
  BY <1>36 DEF vars
<1>37. QED
  BY <1>1, <1>2, <1>3, <1>4, <1>5, <1>6, <1>7, <1>8, <1>9, <1>10, <1>11,
     <1>12, <1>13, <1>14, <1>15, <1>16, <1>17, <1>18, <1>19, <1>20,
     <1>21, <1>22, <1>23, <1>24, <1>25, <1>26, <1>27, <1>28, <1>29,
     <1>30, <1>31, <1>32, <1>33, <1>34, <1>35, <1>36
  DEF Next, TxThread, MainThread, Unmute, Mute, WatchdogStep, LoStep,
      Shutdown, Ipc, Gui, Threads

(* No sample of a burst is handed to the radio with the PA off, if every   *)
(* burst is longer than a chunk and the preset stays: then the first chunk *)
(* leaves some of the burst behind, and the watchdog, which reads the      *)
(* line's idle test and tx_unmuted without rf_tx_mu, cannot take the time  *)
(* between pull and unmuteTxRf for silence.                                *)
THEOREM BurstsUnderPa ==
  ASSUME LongBursts, OnePreset
  PROVE  Spec => []BurstUnderPa
<1> DEFINE BurstInv == SafetyInv /\ LongInv /\ WatchdogInv /\ PaInv
<1>1. Init => BurstInv
  <2> SUFFICES ASSUME Init PROVE BurstInv
    OBVIOUS
  <2>1. LongInv /\ WatchdogInv /\ PaInv
    BY DEF Init, LineInit, LongInv, WatchdogInv, PaInv, Alive, At, Threads,
           TxMuting, TxUnmuting
  <2>2. QED  BY <2>1, SafetyInit
<1>2. BurstInv /\ [Next]_vars => BurstInv'
  <2> SUFFICES ASSUME BurstInv, [Next]_vars PROVE BurstInv'
    OBVIOUS
  <2>1. SafetyInv'
    BY TypeStep, RfStep, ChunkStep, SilenceStep, GainStep DEF SafetyInv
  <2>2. LongInv'
    BY LongStep DEF SafetyInv
  <2>3. WatchdogInv'
    BY WatchdogKept DEF SafetyInv
  <2>4. PaInv'
    BY PaStep DEF SafetyInv
  <2>5. QED  BY <2>1, <2>2, <2>3, <2>4
<1>3. BurstInv => BurstUnderPa
  BY DEF SafetyInv, RfInv, ChunkInv, PaInv, BurstUnderPa, PaOn, Alive, At,
         Threads, TxMuting, TxUnmuting, Locked, TypeOK
<1>4. QED  BY <1>1, <1>2, <1>3, PTL DEF Spec
=============================================================================
