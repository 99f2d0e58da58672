----------------------------- MODULE PingWorker -----------------------------
(***************************************************************************)
(* The worker thread of QuadRFPingModule: it sends a range test heartbeat, *)
(* waits for the interval or for a change of it, and sleeps on a condition *)
(* variable while the interval is 0.  setIntervalSec is called by the      *)
(* control thread, the destructor by the thread that ends the daemon.      *)
(*                                                                         *)
(* The wait is modelled as the steps between which the others run: take    *)
(* the mutex, test the predicate, sleep and release at once, wake, take    *)
(* the mutex again.                                                        *)
(***************************************************************************)
EXTENDS Integers

CONSTANTS
  Intervals,    \* the intervals that are set, 0 among them
  PingChanges   \* bound of the model: how often one is set

ASSUME PingAssumption == 0 \in Intervals /\ Intervals \subseteq Nat /\ PingChanges \in Nat

VARIABLES
  pingSec,      \* interval_sec_
  pingRunning,  \* running_
  pingWorker,   \* the worker: "load", "send", "lock", "test",
                \* "falling" (asleep), "asleep", "done"
  pingLocal,    \* sec, the worker's own copy
  pingMutex,    \* who holds mu_: "nobody", "worker"
  pingSetter,   \* setIntervalSec: "idle", "stored", "passed"
  pingEnding,   \* the destructor: "no", "cleared", "joining"
  pingChanged   \* how often the interval was set

pingVars == <<pingSec, pingRunning, pingWorker, pingLocal, pingMutex,
              pingSetter, pingEnding, pingChanged>>

others == <<pingSetter, pingEnding, pingChanged>>

PingInit ==
  /\ pingSec = 0 /\ pingRunning = TRUE
  /\ pingWorker = "load" /\ pingLocal = 0
  /\ pingMutex = "nobody" /\ pingSetter = "idle" /\ pingEnding = "no"
  /\ pingChanged = 0
-----------------------------------------------------------------------------
(* threadMain, the top of its loop: with an interval a heartbeat, without  *)
(* one straight to sleep.                                                  *)
LoadInterval ==
  /\ pingWorker = "load"
  /\ IF ~pingRunning THEN pingWorker' = "done" /\ UNCHANGED pingLocal
     ELSE /\ pingLocal' = pingSec
          /\ pingWorker' = IF pingSec = 0 THEN "lock" ELSE "send"
  /\ UNCHANGED <<pingSec, pingRunning, pingMutex, others>>

SendHeartbeat ==
  /\ pingWorker = "send"
  /\ pingWorker' = "lock"
  /\ UNCHANGED <<pingSec, pingRunning, pingLocal, pingMutex, others>>

LockToWait ==
  /\ pingWorker = "lock" /\ pingMutex = "nobody"
  /\ pingMutex' = "worker" /\ pingWorker' = "test"
  /\ UNCHANGED <<pingSec, pingRunning, pingLocal, others>>

(* The predicates of both waits: a change of the interval, or the end.     *)
Awaited == ~pingRunning \/ pingSec # pingLocal

TestPredicate ==
  /\ pingWorker = "test"
  /\ IF Awaited THEN pingWorker' = "load" /\ pingMutex' = "nobody"
                ELSE pingWorker' = "falling" /\ UNCHANGED pingMutex
  /\ UNCHANGED <<pingSec, pingRunning, pingLocal, others>>

FallAsleep ==
  /\ pingWorker = "falling"
  /\ pingWorker' = "asleep" /\ pingMutex' = "nobody"
  /\ UNCHANGED <<pingSec, pingRunning, pingLocal, others>>

(* wait_for gives up after sec seconds; wait, with sec 0, never does.      *)
IntervalPasses ==
  /\ pingWorker = "asleep" /\ pingLocal > 0 /\ pingMutex = "nobody"
  /\ pingWorker' = "load"
  /\ UNCHANGED <<pingSec, pingRunning, pingLocal, pingMutex, others>>

(* notify_all: a sleeping worker wakes and takes the mutex again.          *)
Notified == IF pingWorker = "asleep" THEN "lock" ELSE pingWorker
-----------------------------------------------------------------------------
(* setIntervalSec: store, pass through the mutex, notify.                  *)
StoreInterval ==
  /\ pingSetter = "idle" /\ pingEnding = "no" /\ pingChanged < PingChanges
  /\ pingChanged' = pingChanged + 1
  /\ pingSetter' = "stored"
  /\ pingSec' \in Intervals
  /\ UNCHANGED <<pingRunning, pingWorker, pingLocal, pingMutex, pingEnding>>

(* The empty critical section: a worker between its test and its sleep is  *)
(* waited for.  Mutant: nothing is waited for.                             *)
PassMutex_Unlocked ==
  /\ pingSetter = "stored"
  /\ pingSetter' = "passed"
  /\ UNCHANGED <<pingSec, pingRunning, pingWorker, pingLocal, pingMutex,
                 pingEnding, pingChanged>>

PassMutex ==
  /\ pingSetter = "stored" /\ pingMutex = "nobody"
  /\ pingSetter' = "passed"
  /\ UNCHANGED <<pingSec, pingRunning, pingWorker, pingLocal, pingMutex,
                 pingEnding, pingChanged>>

NotifySetter ==
  /\ pingSetter = "passed"
  /\ pingSetter' = "idle"
  /\ pingWorker' = Notified
  /\ UNCHANGED <<pingSec, pingRunning, pingLocal, pingMutex, pingEnding,
                 pingChanged>>

(* ~QuadRFPingModule: clear running_, notify without the mutex, join.      *)
DestroyPing ==
  /\ pingEnding = "no" /\ pingSetter = "idle"
  /\ pingEnding' = "cleared" /\ pingRunning' = FALSE
  /\ UNCHANGED <<pingSec, pingWorker, pingLocal, pingMutex, pingSetter,
                 pingChanged>>

NotifyEnd ==
  /\ pingEnding = "cleared"
  /\ pingEnding' = "joining"
  /\ pingWorker' = Notified
  /\ UNCHANGED <<pingSec, pingRunning, pingLocal, pingMutex, pingSetter,
                 pingChanged>>

PingThread ==
  \/ LoadInterval \/ SendHeartbeat \/ LockToWait \/ TestPredicate \/ FallAsleep
  \/ IntervalPasses

PingCaller == PassMutex \/ NotifySetter \/ NotifyEnd

PingNext == PingThread \/ PingCaller \/ StoreInterval \/ DestroyPing

PingFairness == WF_pingVars(PingThread) /\ WF_pingVars(PingCaller)

PingSpec == PingInit /\ [][PingNext]_pingVars /\ PingFairness
-----------------------------------------------------------------------------
(* A new interval is taken up, from sleep without one too, although the    *)
(* worker tests its predicate while the interval is being stored; and the  *)
(* destructor finds an end of the worker when an interval is set.  (With   *)
(* interval 0 its notification can fall between test and sleep.)           *)
IntervalObeyed ==
  /\ (pingSetter = "stored") ~> (pingLocal = pingSec \/ ~pingRunning)
  /\ (pingEnding = "joining" /\ pingLocal > 0) ~> (pingWorker = "done" \/ pingLocal = 0)
=============================================================================
