------------------------------- MODULE RxChain -------------------------------
(***************************************************************************)
(* The receive chain of the PHY daemon, src/apps/quadrf_lora_phy.cpp: an   *)
(* RX thread that reads the stream into a bounded ChunkQueue, and the main *)
(* thread that empties it into the Receiver, hands on the completed frames *)
(* and now and then replaces the receiver for another modem preset.        *)
(*                                                                         *)
(* Chunks are numbered as they are read.  The front-end decimation (Ddc)   *)
(* is how many samples a chunk brings the receiver (Feeds).                *)
(***************************************************************************)
EXTENDS Receiver

CONSTANTS
  QueueMax,    \* ChunkQueue::kMaxChunks
  SkipChunks,  \* skip_startup, in chunks
  MaxChunks,   \* bound: chunks the stream delivers
  MaxModems    \* bound: SetModem requests that change the preset

ASSUME ChainAssumption == {QueueMax, SkipChunks, MaxChunks, MaxModems} \subseteq Nat
                          /\ QueueMax >= 1

VARIABLES
  running,   \* g_running
  rx,        \* RX thread: "top" of its loop, in "read", or "done"
  queue,     \* ChunkQueue::q
  taken,     \* history: chunks pushed
  dropped,   \* ChunkQueue::dropped
  flushed,   \* history: chunks cleared by SetModem
  popped,    \* stream_pos, in chunks
  reported,  \* reported_drops
  main,      \* where the main thread is
  modems     \* history: presets changed

chain == <<taken, dropped, flushed, popped, reported, modems>>
vars == <<rvars, running, rx, queue, chain, main>>

Init ==
  /\ RInit
  /\ running = TRUE /\ rx = "top" /\ queue = <<>>
  /\ taken = 0 /\ dropped = 0 /\ flushed = 0 /\ popped = 0 /\ reported = 0
  /\ main = "ipc" /\ modems = 0

----------------------------------------------------------------------------
(* The RX thread. *)
(* Mutant: the thread does not look at g_running. *)
RxTop_IgnoresStop ==
  /\ rx = "top" /\ rx' = "read"
  /\ UNCHANGED <<rvars, running, queue, chain, main>>

RxTop ==
  /\ rx = "top"
  /\ rx' = IF running THEN "read" ELSE "done"
  /\ UNCHANGED <<rvars, running, queue, chain, main>>

(* Mutant: the chunk pushed out is not counted. *)
RxPush_Uncounted ==
  /\ rx = "read" /\ taken < MaxChunks
  /\ taken' = taken + 1
  /\ queue' = Append(IF Len(queue) >= QueueMax THEN Tail(queue) ELSE queue,
                     taken + 1)
  /\ UNCHANGED dropped
  /\ rx' = "top"
  /\ UNCHANGED <<rvars, running, flushed, popped, reported, modems, main>>

(* streams.read returned samples; push drops the oldest chunk when full. *)
RxPush ==
  /\ rx = "read" /\ taken < MaxChunks
  /\ taken' = taken + 1
  /\ IF Len(queue) >= QueueMax
       THEN /\ queue' = Append(Tail(queue), taken + 1)
            /\ dropped' = dropped + 1
       ELSE queue' = Append(queue, taken + 1) /\ UNCHANGED dropped
  /\ rx' = "top"
  /\ UNCHANGED <<rvars, running, flushed, popped, reported, modems, main>>

(* streams.read timed out. *)
RxTimeout ==
  /\ rx = "read" /\ rx' = "top"
  /\ UNCHANGED <<rvars, running, queue, chain, main>>

RxError ==
  /\ rx = "read" /\ rx' = "done" /\ running' = FALSE
  /\ UNCHANGED <<rvars, queue, chain, main>>

RxThread == RxTop \/ RxPush \/ RxTimeout \/ RxError

----------------------------------------------------------------------------
(* The main thread. *)
(* applyModem, from an IPC client: what is queued is cleared, and the      *)
(* receiver is destroyed with its buffer and constructed again.            *)
ApplyModem ==
  /\ main = "ipc" /\ running /\ modems < MaxModems
  /\ modems' = modems + 1
  /\ flushed' = flushed + Len(queue) /\ queue' = <<>>
  /\ Reconstruct
  /\ UNCHANGED <<running, rx, taken, dropped, popped, reported, main>>

(* The head of while (g_running), its IPC and PTY part done. *)
LoopHead ==
  /\ main = "ipc"
  /\ main' = IF running THEN "pop" ELSE "flush"
  /\ UNCHANGED <<rvars, running, rx, queue, chain>>

Pop ==
  /\ main = "pop" /\ queue # <<>>
  /\ queue' = Tail(queue) /\ popped' = popped + 1
  /\ IF popped < SkipChunks THEN UNCHANGED rvars ELSE \E n \in Feeds : Feed(n)
  /\ main' = "feed"
  /\ UNCHANGED <<running, rx, taken, dropped, flushed, reported, modems>>

PopNothing ==
  /\ main = "pop" /\ queue = <<>>
  /\ main' = "ipc"
  /\ UNCHANGED <<rvars, running, rx, queue, chain>>

Process ==
  /\ main = "feed" /\ Step
  /\ UNCHANGED <<running, rx, queue, chain, main>>

(* Mutant: one frame is handed on a chunk. *)
Drain_One ==
  /\ main = "feed" /\ ~busy
  /\ out' = IF out = <<>> THEN out ELSE Tail(out)
  /\ UNCHANGED <<base, next_abs, state, search, found_abs, frame, busy, last>>
  /\ reported' = dropped
  /\ main' = "pop"
  /\ UNCHANGED <<running, rx, queue, taken, dropped, flushed, popped, modems>>

(* drainRx, and the report of an overflow. *)
Drain ==
  /\ main = "feed" /\ PopAll
  /\ reported' = dropped
  /\ main' = "pop"
  /\ UNCHANGED <<running, rx, queue, taken, dropped, flushed, popped, modems>>

FlushEnd ==
  /\ main = "flush" /\ Flush /\ main' = "drain"
  /\ UNCHANGED <<running, rx, queue, chain>>

DrainEnd ==
  /\ main = "drain" /\ PopAll /\ main' = "join"
  /\ UNCHANGED <<running, rx, queue, chain>>

Join ==
  /\ main = "join" /\ rx = "done" /\ main' = "done"
  /\ UNCHANGED <<rvars, running, rx, queue, chain>>

MainThread ==
  \/ LoopHead \/ Pop \/ PopNothing \/ Process \/ Drain
  \/ FlushEnd \/ DrainEnd \/ Join

(* A signal. *)
Stop ==
  /\ running /\ running' = FALSE
  /\ UNCHANGED <<rvars, rx, queue, chain, main>>

Next == RxThread \/ MainThread \/ ApplyModem \/ Stop

(* Both threads are scheduled; streams.read has a timeout. *)
Spec == Init /\ [][Next]_vars /\ WF_vars(MainThread) /\ WF_vars(RxThread)

----------------------------------------------------------------------------
(* A completed frame is handed on before anything else happens to the      *)
(* receiver: SetModem's reconstruct and the exit destroy it together with  *)
(* the frames still in it.                                                 *)
HandedAtOnce == main \notin {"feed", "drain"} => out = <<>> /\ ~busy

(* Between two chunks the receiver holds only what it needs: while idle    *)
(* the run in progress and the margin before it, while synchronising no    *)
(* more than the span beyond the run, and in a frame one symbol.           *)
Bounded ==
  main \in {"ipc", "pop"} =>
    /\ state = "search" => next_abs - base <= Margin + RunNeeded * Sps
    /\ state = "sync" => next_abs - found_abs < Span * Sps + Slack
    /\ state = "data" =>
         /\ next_abs <= data_raw + Sps + Lead
         /\ symbols > 0 => data_raw - base <= Guard

(* Every chunk is processed, queued or counted as lost, and the queue,     *)
(* never longer than its limit, holds the newest chunks without a gap:     *)
(* what the overflow report says is missing is all that is missing from    *)
(* the samples the receiver takes for contiguous.                          *)
Accounted ==
  /\ Len(queue) <= QueueMax
  /\ taken = popped + dropped + flushed + Len(queue)
  /\ \A i \in 1..Len(queue) : queue[i] = taken - Len(queue) + i
  /\ reported <= dropped

(* When the daemon is told to stop it stops: the drain loop does not look  *)
(* at g_running, the process() loop goes on while there is progress, and   *)
(* the main thread waits for the RX thread.                                *)
Stops == ~running ~> main = "done"
=============================================================================
