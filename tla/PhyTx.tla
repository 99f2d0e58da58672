------------------------------- MODULE PhyTx -------------------------------
(***************************************************************************)
(* quadrf-lora-phy on the air: the TX thread, which unmutes the power      *)
(* amplifier around its bursts, and the main loop, which serves clients,   *)
(* mutes a PA it finds enabled from outside, and retunes the synthesizers  *)
(* when the GUI moved one of them.  They share the front end's registers,  *)
(* rf_tx_mu, the flag tx_unmuted (read without the lock in places) and the *)
(* transmit line of module Transmitter.                                    *)
(*                                                                         *)
(* One action per register access or lock-protected section, so that the   *)
(* two threads interleave wherever the code lets them.  Elapsed times (the *)
(* 200 ms poll, the 100 ms settle delay, the drain time, the 1 s LO poll)  *)
(* are choices: due or not yet due.                                        *)
(***************************************************************************)
EXTENDS Transmitter

CONSTANTS
  Gains,      \* RX gains a user sets, the ducked gain aside
  RxGainCfg,  \* rx_gain: the gain of the command line
  Ducked      \* kRxGainDucked

ASSUME GainAssumption == RxGainCfg \in Gains /\ Ducked \notin Gains

Threads == {"tx", "main"}
NoOwner == "none"

TxMuting == {"m_lock", "m_bias", "m_disable", "m_gain"}
TxUnmuting == {"u_lock", "u_read", "u_duck", "u_enable", "u_bias"}
TxPcs == {"top", "pull", "write", "check", "done", "dead"}
           \cup TxUnmuting \cup TxMuting
Watchdog == {"wd", "wd_read", "wd_idle", "wd_flag", "wd_bias", "wd_disable"}
MainPcs == {"loop", "lo", "lo_lock", "lo_read", "lo_program", "ipc", "join",
            "tx_off", "off", "dead"} \cup Watchdog \cup TxMuting

VARIABLES
  pc,               \* where each thread is
  running,          \* g_running
  want_unmute, want_mute, idle_timing,      \* TX thread locals
  tx_idle, still_idle, pa_waiting,          \* main loop locals
  rf_owner,         \* the thread that holds rf_tx_mu
  tx_unmuted,       \* the shared flag
  rx_gain_restore,  \* the gain snapshot to restore
  disable_tx,       \* FPGA register 0x23, bit 0
  pa_bias,          \* MAX2850 Main10, bit 0
  rx_gain,          \* FPGA register 0x6A
  user_gain,        \* history: the gain the user set last
  snap_gain,        \* history: the gain in force when the last burst began
  gain_fate,        \* history: what became of user_gain, a member of Fates
  last_loaded       \* history: the chunk last written carried a burst

localVars == <<want_unmute, want_mute, idle_timing>>
mainVars == <<tx_idle, still_idle, pa_waiting>>
rfVars == <<rf_owner, tx_unmuted, rx_gain_restore>>
paVars == <<disable_tx, pa_bias>>
gainVars == <<rx_gain, user_gain, snap_gain, gain_fate>>
vars == <<lineVars, pc, running, localVars, mainVars, rfVars, paVars,
          gainVars, last_loaded>>

PaOn == pa_bias /\ ~disable_tx

(* From the snapshot of the RX gain to its restoration, while the process  *)
(* that holds the snapshot lives.                                          *)
GainHeld ==
  /\ pc["main"] # "dead"
  /\ \/ tx_unmuted
     \/ pc["tx"] \in {"u_duck", "u_enable", "u_bias", "m_gain"}
     \/ pc["main"] = "m_gain"

(* What became of the gain the user set last: "kept" is in force, or comes *)
(* back behind the burst; the other ways lose it.  "cmdline": the gain of  *)
(* the command line took its place, at a restart or because the read       *)
(* before a burst failed.  "undone": set during a burst, whose end put the *)
(* gain before it back.  "died": the process died between duck and         *)
(* restoration.                                                            *)
Fates == {"kept", "cmdline", "undone", "died"}

Goto(t, label) == pc' = [pc EXCEPT ![t] = label]
At(t, label) == pc[t] = label

FlagTypeOK ==
  /\ running \in BOOLEAN
  /\ want_unmute \in BOOLEAN /\ want_mute \in BOOLEAN
  /\ idle_timing \in BOOLEAN
  /\ tx_idle \in BOOLEAN /\ still_idle \in BOOLEAN /\ pa_waiting \in BOOLEAN
  /\ tx_unmuted \in BOOLEAN
  /\ disable_tx \in BOOLEAN /\ pa_bias \in BOOLEAN
  /\ last_loaded \in BOOLEAN

TypeOK ==
  /\ LineTypeOK
  /\ FlagTypeOK
  /\ pc \in [Threads -> TxPcs \cup MainPcs]
  /\ pc["tx"] \in TxPcs /\ pc["main"] \in MainPcs
  /\ rf_owner \in Threads \cup {NoOwner}
  /\ rx_gain \in Gains \cup {Ducked}
  /\ rx_gain_restore \in Gains \cup {Ducked}
  /\ user_gain \in Gains /\ snap_gain \in Gains \cup {Ducked} /\ gain_fate \in Fates

(* Start-up arms TX and RX and leaves the PA muted. *)
Init ==
  /\ LineInit
  /\ pc = [t \in Threads |-> IF t = "tx" THEN "top" ELSE "loop"]
  /\ running = TRUE
  /\ want_unmute = FALSE /\ want_mute = FALSE /\ idle_timing = FALSE
  /\ tx_idle = FALSE /\ still_idle = FALSE /\ pa_waiting = FALSE
  /\ rf_owner = NoOwner /\ tx_unmuted = FALSE /\ rx_gain_restore = RxGainCfg
  /\ disable_tx = TRUE /\ pa_bias = FALSE
  /\ rx_gain = RxGainCfg
  /\ user_gain = RxGainCfg /\ snap_gain = RxGainCfg /\ gain_fate = "cmdline"
  /\ last_loaded = FALSE
-----------------------------------------------------------------------------
(* TX thread: pull a chunk under modem_mu. *)

(* Mutant: the loop does not look at g_running. *)
TxTop_NeverStops ==
  /\ At("tx", "top")
  /\ BeginPull
  /\ Goto("tx", "pull")
  /\ want_unmute' = ~IsIdle
  /\ UNCHANGED <<running, want_mute, idle_timing, mainVars, rfVars, paVars,
                 gainVars, last_loaded>>

TxTop ==
  /\ At("tx", "top")
  /\ IF running
       THEN /\ BeginPull
            /\ Goto("tx", "pull")
            /\ want_unmute' = ~IsIdle
       ELSE /\ Goto("tx", "done")
            /\ UNCHANGED <<lineVars, want_unmute>>
  /\ UNCHANGED <<running, want_mute, idle_timing, mainVars, rfVars, paVars,
                 gainVars, last_loaded>>

TxPull ==
  /\ At("tx", "pull")
  /\ PullStep
  /\ UNCHANGED <<pc, running, localVars, mainVars, rfVars, paVars, gainVars,
                 last_loaded>>

TxPulled ==
  /\ At("tx", "pull")
  /\ EndPull
  /\ want_mute' = (IsIdle /\ tx_unmuted)
  /\ Goto("tx", IF want_unmute THEN "u_lock" ELSE "write")
  /\ UNCHANGED <<running, want_unmute, idle_timing, mainVars, rfVars, paVars,
                 gainVars, last_loaded>>
-----------------------------------------------------------------------------
(* unmuteTxRf, by the TX thread. *)

(* Mutant: unmutes again what is unmuted. *)
UnmuteLock_Again ==
  /\ At("tx", "u_lock") /\ rf_owner = NoOwner
  /\ Goto("tx", "u_read") /\ rf_owner' = "tx"
  /\ UNCHANGED <<lineVars, running, localVars, mainVars,
                 tx_unmuted, rx_gain_restore, paVars, gainVars, last_loaded>>

UnmuteLock ==
  /\ At("tx", "u_lock") /\ rf_owner = NoOwner
  /\ IF tx_unmuted
       THEN /\ Goto("tx", "write") /\ idle_timing' = FALSE
            /\ UNCHANGED rf_owner
       ELSE /\ Goto("tx", "u_read") /\ rf_owner' = "tx"
            /\ UNCHANGED idle_timing
  /\ UNCHANGED <<lineVars, running, want_unmute, want_mute, mainVars,
                 tx_unmuted, rx_gain_restore, paVars, gainVars, last_loaded>>

(* A failed read falls back on the gain of the command line. *)
UnmuteSnapshot ==
  /\ At("tx", "u_read")
  /\ \/ rx_gain_restore' = rx_gain /\ UNCHANGED gain_fate
     \/ rx_gain_restore' = RxGainCfg /\ gain_fate' = "cmdline"
  /\ snap_gain' = rx_gain
  /\ Goto("tx", "u_duck")
  /\ UNCHANGED <<lineVars, running, localVars, mainVars, rf_owner, tx_unmuted,
                 paVars, rx_gain, user_gain, last_loaded>>

UnmuteDuck ==
  /\ At("tx", "u_duck")
  /\ rx_gain' = Ducked
  /\ Goto("tx", "u_enable")
  /\ UNCHANGED <<lineVars, running, localVars, mainVars, rfVars, paVars,
                 user_gain, snap_gain, gain_fate, last_loaded>>

UnmuteEnable ==
  /\ At("tx", "u_enable")
  /\ disable_tx' = FALSE
  /\ Goto("tx", "u_bias")
  /\ UNCHANGED <<lineVars, running, localVars, mainVars, rfVars, pa_bias,
                 gainVars, last_loaded>>

UnmuteBias ==
  /\ At("tx", "u_bias")
  /\ pa_bias' = TRUE
  /\ tx_unmuted' = TRUE
  /\ rf_owner' = NoOwner
  /\ idle_timing' = FALSE
  /\ Goto("tx", "write")
  /\ UNCHANGED <<lineVars, running, want_unmute, want_mute, mainVars,
                 rx_gain_restore, disable_tx, gainVars, last_loaded>>
-----------------------------------------------------------------------------
(* TX thread: write the chunk, then decide whether the PA may be muted.    *)
(* A stream error stops the daemon; a stop request aborts the write.       *)

TxWrite ==
  /\ At("tx", "write")
  /\ WriteChunk
  /\ running' \in {running, FALSE}
  /\ last_loaded' \in {Loaded} \cup (IF running' THEN {} ELSE {last_loaded})
  /\ Goto("tx", "check")
  /\ UNCHANGED <<localVars, mainVars, rfVars, paVars, gainVars>>

(* Mutants: no drain time; a drain time that starts again at every check.  *)
TxCheck_NoDrain ==
  /\ At("tx", "check")
  /\ idle_timing' = (idle_timing \/ want_mute)
  /\ Goto("tx", IF want_mute THEN "m_lock" ELSE "top")
  /\ UNCHANGED <<lineVars, running, want_unmute, want_mute, mainVars, rfVars,
                 paVars, gainVars, last_loaded>>

TxCheck_Restarts ==
  /\ At("tx", "check")
  /\ idle_timing' = FALSE
  /\ IF want_mute /\ idle_timing
       THEN \E next \in {"m_lock", "top"} : Goto("tx", next)
       ELSE Goto("tx", "top")
  /\ UNCHANGED <<lineVars, running, want_unmute, want_mute, mainVars, rfVars,
                 paVars, gainVars, last_loaded>>

(* The first check of an idle period starts the drain time, a later one    *)
(* finds it elapsed or not.                                                *)
TxCheck ==
  /\ At("tx", "check")
  /\ idle_timing' = (idle_timing \/ want_mute)
  /\ IF want_mute /\ idle_timing
       THEN \E next \in {"m_lock", "top"} : Goto("tx", next)
       ELSE Goto("tx", "top")
  /\ UNCHANGED <<lineVars, running, want_unmute, want_mute, mainVars, rfVars,
                 paVars, gainVars, last_loaded>>
-----------------------------------------------------------------------------
(* muteTxRf, by the TX thread and, at shutdown, by the main thread. *)

AfterMute(t) == IF t = "tx" THEN "top" ELSE "tx_off"

MuteLock(t) ==
  /\ At(t, "m_lock") /\ rf_owner = NoOwner
  /\ IF tx_unmuted
       THEN Goto(t, "m_bias") /\ rf_owner' = t
       ELSE Goto(t, AfterMute(t)) /\ UNCHANGED rf_owner
  /\ UNCHANGED <<lineVars, running, localVars, mainVars, tx_unmuted,
                 rx_gain_restore, paVars, gainVars, last_loaded>>

MuteBias(t) ==
  /\ At(t, "m_bias")
  /\ pa_bias' = FALSE
  /\ Goto(t, "m_disable")
  /\ UNCHANGED <<lineVars, running, localVars, mainVars, rfVars, disable_tx,
                 gainVars, last_loaded>>

(* Mutant: the flag outlives the mute. *)
MuteDisable_KeepsFlag(t) ==
  /\ At(t, "m_disable")
  /\ disable_tx' = TRUE
  /\ Goto(t, "m_gain")
  /\ UNCHANGED <<lineVars, running, localVars, mainVars, rfVars, pa_bias,
                 gainVars, last_loaded>>

MuteDisable(t) ==
  /\ At(t, "m_disable")
  /\ disable_tx' = TRUE
  /\ tx_unmuted' = FALSE
  /\ Goto(t, "m_gain")
  /\ UNCHANGED <<lineVars, running, localVars, mainVars, rf_owner,
                 rx_gain_restore, pa_bias, gainVars, last_loaded>>

MuteGain(t) ==
  /\ At(t, "m_gain")
  /\ rx_gain' = rx_gain_restore
  /\ rf_owner' = NoOwner
  /\ Goto(t, AfterMute(t))
  /\ UNCHANGED <<lineVars, running, localVars, mainVars, tx_unmuted,
                 rx_gain_restore, paVars, user_gain, snap_gain, gain_fate,
                 last_loaded>>
-----------------------------------------------------------------------------
(* Main loop: the PA watchdog.  Its tests of tx_unmuted take no lock, and  *)
(* neither does the mute they lead to.                                     *)

MainTop ==
  /\ At("main", "loop") /\ ~pulling
  /\ IF running
       THEN tx_idle' = IsIdle /\ Goto("main", "wd")
       ELSE UNCHANGED tx_idle /\ Goto("main", "join")
  /\ UNCHANGED <<lineVars, running, localVars, still_idle, pa_waiting, rfVars,
                 paVars, gainVars, last_loaded>>

WdTest ==
  /\ At("main", "wd")
  /\ IF tx_idle /\ ~tx_unmuted
       THEN \/ Goto("main", "lo") /\ UNCHANGED pa_waiting         \* not due
            \/ ~pa_waiting /\ Goto("main", "wd_read") /\ UNCHANGED pa_waiting
            \/ pa_waiting /\ Goto("main", "wd_idle") /\ pa_waiting' = FALSE
       ELSE Goto("main", "lo") /\ UNCHANGED pa_waiting
  /\ UNCHANGED <<lineVars, running, localVars, tx_idle, still_idle, rfVars,
                 paVars, gainVars, last_loaded>>

(* A failed read counts as disabled. *)
WdRead ==
  /\ At("main", "wd_read")
  /\ pa_waiting' \in {~disable_tx, FALSE}
  /\ Goto("main", "lo")
  /\ UNCHANGED <<lineVars, running, localVars, tx_idle, still_idle, rfVars,
                 paVars, gainVars, last_loaded>>

WdIdle ==
  /\ At("main", "wd_idle") /\ ~pulling
  /\ still_idle' = IsIdle
  /\ Goto("main", "wd_flag")
  /\ UNCHANGED <<lineVars, running, localVars, tx_idle, pa_waiting, rfVars,
                 paVars, gainVars, last_loaded>>

WdFlag ==
  /\ At("main", "wd_flag")
  /\ Goto("main", IF still_idle /\ ~tx_unmuted THEN "wd_bias" ELSE "lo")
  /\ UNCHANGED <<lineVars, running, localVars, mainVars, rfVars, paVars,
                 gainVars, last_loaded>>

WdBias ==
  /\ At("main", "wd_bias")
  /\ pa_bias' = FALSE
  /\ Goto("main", "wd_disable")
  /\ UNCHANGED <<lineVars, running, localVars, mainVars, rfVars, disable_tx,
                 gainVars, last_loaded>>

WdDisable ==
  /\ At("main", "wd_disable")
  /\ disable_tx' = TRUE
  /\ Goto("main", "lo")
  /\ UNCHANGED <<lineVars, running, localVars, mainVars, rfVars, pa_bias,
                 gainVars, last_loaded>>
-----------------------------------------------------------------------------
(* Main loop: pollLoFollow, under rf_tx_mu.  The synthesizers' values are  *)
(* the matter of module LoFollow; here a poll reads and, at times, writes. *)

LoTest ==
  /\ At("main", "lo")
  /\ \/ tx_idle /\ ~tx_unmuted /\ Goto("main", "lo_lock")
     \/ Goto("main", "ipc")                                   \* not due
  /\ UNCHANGED <<lineVars, running, localVars, mainVars, rfVars, paVars,
                 gainVars, last_loaded>>

(* Mutant: tx_unmuted is not tested again under the lock. *)
LoLock_NoRecheck ==
  /\ At("main", "lo_lock") /\ rf_owner = NoOwner
  /\ Goto("main", "lo_read") /\ rf_owner' = "main"
  /\ UNCHANGED <<lineVars, running, localVars, mainVars, tx_unmuted,
                 rx_gain_restore, paVars, gainVars, last_loaded>>

LoLock ==
  /\ At("main", "lo_lock") /\ rf_owner = NoOwner
  /\ IF tx_unmuted
       THEN Goto("main", "ipc") /\ UNCHANGED rf_owner
       ELSE Goto("main", "lo_read") /\ rf_owner' = "main"
  /\ UNCHANGED <<lineVars, running, localVars, mainVars, tx_unmuted,
                 rx_gain_restore, paVars, gainVars, last_loaded>>

LoRead ==
  /\ At("main", "lo_read")
  /\ \/ Goto("main", "lo_program") /\ UNCHANGED rf_owner
     \/ Goto("main", "ipc") /\ rf_owner' = NoOwner
  /\ UNCHANGED <<lineVars, running, localVars, mainVars, tx_unmuted,
                 rx_gain_restore, paVars, gainVars, last_loaded>>

LoProgram ==
  /\ At("main", "lo_program")
  /\ rf_owner' = NoOwner
  /\ Goto("main", "ipc")
  /\ UNCHANGED <<lineVars, running, localVars, mainVars, tx_unmuted,
                 rx_gain_restore, paVars, gainVars, last_loaded>>
-----------------------------------------------------------------------------
(* Main loop: the frames a client sent since the last turn, if any.        *)

MainEnqueue ==
  /\ At("main", "ipc")
  /\ \E f \in Frames : Enqueue(f)
  /\ UNCHANGED <<pc, running, localVars, mainVars, rfVars, paVars, gainVars,
                 last_loaded>>

MainSetModem ==
  /\ At("main", "ipc")
  /\ \E p \in Presets : SetModem(p)
  /\ UNCHANGED <<pc, running, localVars, mainVars, rfVars, paVars, gainVars,
                 last_loaded>>

MainNextTurn ==
  /\ At("main", "ipc")
  /\ Goto("main", "loop")
  /\ UNCHANGED <<lineVars, running, localVars, mainVars, rfVars, paVars,
                 gainVars, last_loaded>>
-----------------------------------------------------------------------------
(* Shutdown: both loops leave, the main thread joins the other and mutes.  *)

Signal ==
  /\ running
  /\ pc["main"] \notin {"dead", "off"}
  /\ running' = FALSE
  /\ UNCHANGED <<lineVars, pc, localVars, mainVars, rfVars, paVars, gainVars,
                 last_loaded>>

MainJoin ==
  /\ At("main", "join") /\ At("tx", "done")
  /\ Goto("main", "m_lock")
  /\ UNCHANGED <<lineVars, running, localVars, mainVars, rfVars, paVars,
                 gainVars, last_loaded>>

MainTxOff ==
  /\ At("main", "tx_off")
  /\ pa_bias' = FALSE /\ disable_tx' = TRUE
  /\ Goto("main", "off")
  /\ UNCHANGED <<lineVars, running, localVars, mainVars, rfVars, gainVars,
                 last_loaded>>

(* A failed register access throws; no thread catches it before the other  *)
(* thread is joined, so the process dies and leaves the registers.         *)
Dies ==
  /\ \/ pc["tx"] \in {"u_duck", "u_enable", "u_bias", "m_bias", "m_disable", "m_gain"}
     \/ pc["main"] \in {"wd_bias", "wd_disable", "m_bias", "m_disable", "m_gain", "tx_off"}
  /\ pc' = [t \in Threads |-> "dead"]
  /\ gain_fate' = IF GainHeld THEN "died" ELSE gain_fate
  /\ UNCHANGED <<lineVars, running, localVars, mainVars, rfVars, paVars,
                 rx_gain, user_gain, snap_gain, last_loaded>>

(* systemd starts it again after a failure, an operator after a stop.      *)
Boot ==
  /\ pc["main"] \in {"dead", "off"}
  /\ pc' = [t \in Threads |-> IF t = "tx" THEN "top" ELSE "loop"]
  /\ modem' \in Presets
  /\ queue' = <<>> /\ burst' = <<>> /\ chunk' = <<>> /\ pulling' = FALSE
  /\ running' = TRUE
  /\ want_unmute' = FALSE /\ want_mute' = FALSE /\ idle_timing' = FALSE
  /\ tx_idle' = FALSE /\ still_idle' = FALSE /\ pa_waiting' = FALSE
  /\ rf_owner' = NoOwner /\ tx_unmuted' = FALSE /\ rx_gain_restore' = RxGainCfg
  /\ disable_tx' = TRUE /\ pa_bias' = FALSE
  /\ rx_gain' = RxGainCfg /\ snap_gain' = RxGainCfg /\ gain_fate' = "cmdline"
  /\ UNCHANGED user_gain
  /\ last_loaded' = FALSE
-----------------------------------------------------------------------------
(* The appliance GUI writes the same registers through quadrf-jtag.        *)

GuiGain(g) ==
  /\ g # rx_gain
  /\ rx_gain' = g /\ user_gain' = g
  /\ gain_fate' = IF ~GainHeld THEN "kept"
                  ELSE IF gain_fate = "kept" THEN "undone" ELSE gain_fate
  /\ UNCHANGED <<lineVars, pc, running, localVars, mainVars, rfVars, paVars,
                 snap_gain, last_loaded>>

GuiEnableTx ==
  /\ ~PaOn
  /\ disable_tx' = FALSE /\ pa_bias' = TRUE
  /\ UNCHANGED <<lineVars, pc, running, localVars, mainVars, rfVars, gainVars,
                 last_loaded>>
-----------------------------------------------------------------------------
Unmute == UnmuteLock \/ UnmuteSnapshot \/ UnmuteDuck \/ UnmuteEnable \/ UnmuteBias
Mute(t) == MuteLock(t) \/ MuteBias(t) \/ MuteDisable(t) \/ MuteGain(t)
TxThread == TxTop \/ TxPull \/ TxPulled \/ Unmute \/ TxWrite \/ TxCheck \/ Mute("tx")
WatchdogStep == WdTest \/ WdRead \/ WdIdle \/ WdFlag \/ WdBias \/ WdDisable
LoStep == LoTest \/ LoLock \/ LoRead \/ LoProgram
Shutdown == MainJoin \/ Mute("main") \/ MainTxOff
MainThread == MainTop \/ WatchdogStep \/ LoStep \/ MainNextTurn \/ Shutdown
Ipc == MainEnqueue \/ MainSetModem
Gui == (\E g \in Gains : GuiGain(g)) \/ GuiEnableTx

Next == TxThread \/ MainThread \/ Ipc \/ Signal \/ Dies \/ Boot \/ Gui

(* A thread that is not blocked for ever goes on (so it gets a mutex that  *)
(* is free again and again); a poll or a delay becomes due at last, a read *)
(* succeeds at last, and systemd starts a service again that failed before *)
(* it was asked to stop.                                                   *)
Fairness ==
  /\ SF_vars(TxThread)
  /\ SF_vars(MainThread)
  /\ SF_vars(TxCheck /\ pc'["tx"] = "m_lock")
  /\ SF_vars(WdTest /\ pc'["main"] # "lo")
  /\ SF_vars(WdRead /\ pa_waiting')
  /\ WF_vars(Boot /\ At("main", "dead") /\ running)

Spec == Init /\ [][Next]_vars
FairSpec == Spec /\ Fairness
-----------------------------------------------------------------------------
Alive == pc["main"] \notin {"dead", "off"}
Stopped == ~Alive /\ ~running

(* A chunk that carries a burst is handed to the radio only while the PA   *)
(* is on: what unmuteTxRf and the writes of the TX thread are for, and     *)
(* what the watchdog's mute, made without rf_tx_mu, puts at risk.          *)
BurstUnderPa == At("tx", "write") /\ Loaded => PaOn

(* The synthesizers are never reprogrammed under a burst: while a retune   *)
(* is in progress the PA is muted and the TX thread writes silence         *)
(* (pollLoFollow holds rf_tx_mu from its test of tx_unmuted on).           *)
NoRetuneOnAir ==
  At("main", "lo_program") => ~tx_unmuted /\ ~(At("tx", "write") /\ Loaded)

(* The gain that is to be in force outside a burst.                        *)
MeantGain ==
  CASE gain_fate = "kept" -> user_gain
    [] gain_fate = "undone" -> snap_gain
    [] OTHER -> RxGainCfg

(* Outside a burst, in a process that runs or has stopped in order, the RX *)
(* gain is the one the user set last; the duck of unmuteTxRf never         *)
(* outlives muteTxRf.  The user's gain is lost in three ways, and then it  *)
(* is known which gain is in force instead: that of the command line       *)
(* behind a failed read or a restart, that before the burst if the user    *)
(* set his during one.  Only a process that died within a burst leaves     *)
(* the receiver ducked, until it starts again.                             *)
GainRestored ==
  /\ ~GainHeld /\ gain_fate # "died" => rx_gain = MeantGain
  /\ Alive => gain_fate # "died"

(* The PA is muted only behind a whole chunk of silence, so that the tail  *)
(* of the burst has left the buffers (the comment at the head of the TX    *)
(* thread); only a shutdown cuts a burst.                                  *)
MuteAfterSilence == At("tx", "m_bias") /\ running => ~last_loaded

(* With nothing to send the PA does not stay on: not after a burst (TX     *)
(* thread), not when something else enabled it (watchdog), and not after a *)
(* crash (start-up), unless the daemon has been stopped or died stopping.  *)
PaOffWhenIdle == (PaOn /\ IsIdle) ~> (~PaOn \/ ~IsIdle \/ Stopped)

(* A stop request ends both threads: neither the join nor the mutexes can  *)
(* leave the process waiting for ever.                                     *)
StopTerminates == ~running ~> pc["main"] \in {"off", "dead"}
=============================================================================
