-------------------------- MODULE PhyTxInvariants --------------------------
(***************************************************************************)
(* The inductive invariants behind the safety properties of PhyTx.         *)
(***************************************************************************)
EXTENDS PhyTx

Locked == {"m_bias", "m_disable", "m_gain"}

(* Who is where while rf_tx_mu is held, and what the flag then says.       *)
RfInv ==
  /\ pc["tx"] = "dead" <=> pc["main"] = "dead"
  /\ ~At("main", "dead") =>
       /\ rf_owner = "tx" <=>
            pc["tx"] \in {"u_read", "u_duck", "u_enable", "u_bias"} \cup Locked
       /\ rf_owner = "main" <=> pc["main"] \in {"lo_read", "lo_program"} \cup Locked
       /\ pulling <=> At("tx", "pull")
  /\ pc["tx"] \in {"u_read", "u_duck", "u_enable", "u_bias", "m_gain"} => ~tx_unmuted
  /\ pc["main"] \in {"lo_read", "lo_program", "m_gain"} => ~tx_unmuted
  /\ \A t \in Threads : pc[t] \in {"m_bias", "m_disable"} => tx_unmuted
  /\ pc["main"] \in TxMuting \cup {"tx_off", "off"} => At("tx", "done")

(* A chunk that carries a burst was pulled by a turn that unmutes first.   *)
ChunkInv ==
  /\ At("tx", "pull") /\ ~want_unmute => IsIdle /\ ~Loaded
  /\ At("tx", "write") /\ Loaded => tx_unmuted /\ ~idle_timing

(* The drain time starts behind a burst, never within one.                 *)
SilenceInv ==
  /\ running /\ At("tx", "check") /\ last_loaded => ~idle_timing
  /\ running /\ pc["tx"] \in TxMuting => ~last_loaded

(* A snapshot holds the gain that is meant, whatever the user sets         *)
(* meanwhile.                                                              *)
GainInv ==
  IF gain_fate = "died" THEN At("main", "dead")
  ELSE /\ (IF GainHeld THEN rx_gain_restore ELSE rx_gain) = MeantGain
       /\ GainHeld /\ gain_fate \in {"kept", "undone"} => rx_gain_restore = snap_gain

(* With long bursts of one preset, a muted PA means no burst under way,    *)
(* but for the first chunk of one, which leaves some of it to send.        *)
LongInv ==
  /\ pc["tx"] \in {"top", "write", "check"} \cup TxMuting /\ ~tx_unmuted => burst = <<>>
  /\ pc["tx"] \in TxMuting => burst = <<>>
  /\ pc["tx"] \in {"write", "check"} \cup TxUnmuting /\ want_mute => burst = <<>>
  /\ pc["tx"] \in TxUnmuting /\ ~tx_unmuted => burst # <<>>
  /\ At("tx", "pull") /\ want_unmute /\ ~tx_unmuted =>
       \/ chunk = <<>> /\ burst = <<>> /\ queue # <<>>
       \/ chunk = <<>> /\ Len(burst) > ChunkLen
       \/ Len(chunk) = ChunkLen /\ burst # <<>>

(* The watchdog decides to mute only while nothing is on its way out.      *)
Quiet ==
  /\ IsIdle
  /\ pc["tx"] \in TxUnmuting => tx_unmuted
  /\ At("tx", "pull") => ~want_unmute

WatchdogInv ==
  /\ At("main", "wd_flag") /\ still_idle => Quiet
  /\ pc["main"] \in {"wd_bias", "wd_disable"} => Quiet /\ ~tx_unmuted

PaInv ==
  /\ At("tx", "u_bias") => ~disable_tx
  /\ tx_unmuted => ~disable_tx
  /\ At("main", "tx_off") => ~tx_unmuted
  /\ Alive /\ tx_unmuted /\ ~At("tx", "m_disable") /\ ~At("main", "m_disable") =>
       pa_bias

LongBursts == \A f \in Frames : BurstLen[f] > ChunkLen
OnePreset == \A p, q \in Presets : p = q
=============================================================================
