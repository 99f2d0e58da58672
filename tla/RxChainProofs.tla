--------------------------- MODULE RxChainProofs ---------------------------
(***************************************************************************)
(* The receiver's buffer discipline for every size of symbol, span, margin *)
(* and chunk (RSpec => []Buffered), the receive chain as an                *)
(* implementation of that receiver (Spec => RSpec), and the accounting of  *)
(* the chunk queue and of the completed frames.                            *)
(***************************************************************************)
EXTENDS RxChain, SequenceTheorems, TLAPS

(* What Buffered and OnePerPreamble rest on: a search never looks again at *)
(* the start of a frame that is done, and the data lies behind the start   *)
(* of its run.                                                             *)
Later ==
  /\ state = "search" => last <= scan_abs
  /\ state = "search" /\ run_len > 0 =>
       last <= run_start_abs /\ run_start_abs <= scan_abs
  /\ state = "data" => found_abs < data_raw

(* The receiver's positions and counts are natural numbers. *)
Numbers ==
  /\ base \in Nat /\ next_abs \in Nat
  /\ scan_abs \in Nat /\ run_start_abs \in Nat /\ run_len \in Nat
  /\ found_abs \in Nat /\ data_raw \in Nat
  /\ symbols \in Nat /\ needed_syms \in Nat /\ last \in Nat
  /\ state \in {"search", "sync", "data"}
  /\ out \in Seq(Nat)

(* The inductive invariant of the receiver. *)
RInv == Numbers /\ Buffered /\ OnePerPreamble /\ Later

(* Natural numbers multiply to a natural number, positive ones to a        *)
(* positive one.                                                           *)
LEMMA Product ==
  ASSUME NEW a \in Nat, NEW b \in Nat
  PROVE  /\ a * b \in Nat
         /\ a >= 1 /\ b >= 1 => a * b >= 1
<1>1. a * b \in Nat
  OBVIOUS
<1>2. ASSUME a >= 1, b >= 1 PROVE a * b >= 1
  <2>1. a * b = (a - 1) * b + b /\ (a - 1) * b >= 0
    BY <1>2
  <2> QED
    BY <2>1, <1>1, <1>2
<1> QED
  BY <1>1, <1>2

(* What lies at least one before. *)
LEMMA Behind ==
  ASSUME NEW b \in Nat, NEW d \in Nat, NEW g \in Nat, g >= 1, b <= d - g
  PROVE  b + 1 <= d
OBVIOUS

(* trimFront never goes back, past the end, or past what is to be kept.    *)
LEMMA Trimmed ==
  ASSUME base \in Nat, next_abs \in Nat, base <= next_abs, NEW keep \in Int
  PROVE  /\ TrimFront(keep) \in Nat
         /\ base <= TrimFront(keep) /\ TrimFront(keep) <= next_abs
         /\ TrimFront(keep) = base \/ TrimFront(keep) <= keep
BY DEF TrimFront

(* A receiver just constructed satisfies the invariant. *)
THEOREM ReceiverInit == RInit => RInv
BY ReceiverAssumption
   DEF RInit, Fresh, RInv, Numbers, Buffered, OnePerPreamble, Later

(* Completing a frame resumes behind the start of its run, wherever its    *)
(* data got to.                                                            *)
LEMMA CompletedKeeps ==
  ASSUME RInv, state = "data", Completed
  PROVE  RInv'
<1>1. Sps \in Nat /\ Sps >= 1
  BY ReceiverAssumption
<1>2. /\ scan_abs' \in Nat /\ scan_abs' >= base /\ scan_abs' >= data_raw + Sps
      /\ state' = "search" /\ run_len' = 0 /\ run_start_abs' = run_start_abs
      /\ last' = found_abs + 1 /\ out' = Append(out, found_abs)
  BY <1>1 DEF RInv, Numbers, Completed, Push, ResetToSearch
<1>3. UNCHANGED <<base, next_abs, found_abs, data_raw, symbols, needed_syms>>
  BY DEF Completed, frame
<1>4. out' \in Seq(Nat)
  BY <1>2 DEF RInv, Numbers
<1>5. Numbers'
  BY <1>2, <1>3, <1>4 DEF RInv, Numbers
<1>6. (Buffered /\ OnePerPreamble /\ Later)'
  BY <1>1, <1>2, <1>3
     DEF RInv, Numbers, Buffered, OnePerPreamble, Later
<1> QED
  BY <1>5, <1>6 DEF RInv

(* Every step of the receiver and of its owner keeps the invariant. *)
THEOREM ReceiverStep == RInv /\ [RNext]_rvars => RInv'
<1>a. SUFFICES ASSUME RInv, [RNext]_rvars PROVE RInv'
  OBVIOUS
<1>b. Numbers /\ Buffered /\ OnePerPreamble /\ Later
  BY <1>a DEF RInv
<1> USE <1>b DEF RInv, search, frame
<1>c. /\ Sps \in Nat /\ Span \in Nat /\ HeaderSyms \in Nat
      /\ MaxNeeded \in Nat /\ Margin \in Nat /\ Guard \in Nat
      /\ Jitter \in Nat /\ DataMin \in Nat /\ DataMax \in Nat
      /\ Feeds \subseteq Nat /\ Sps >= 1 /\ Span >= 3 /\ Guard >= 1
      /\ DataMin >= 1 /\ Jitter < Sps
  BY ReceiverAssumption
<1>0. CASE UNCHANGED rvars
  BY <1>0 DEF rvars, Numbers, Buffered, OnePerPreamble, Later
<1>1. ASSUME NEW n \in Feeds, Feed(n) PROVE RInv'
  BY <1>1, <1>c
     DEF Feed, Numbers, Buffered, OnePerPreamble, Later
<1>2. CASE SearchWait
  <2>1. RunFrom - Margin \in Int /\ RunFrom \in Nat
        /\ (run_len > 0 => RunFrom = run_start_abs)
        /\ (run_len = 0 => RunFrom = scan_abs) /\ Scan = scan_abs
    BY <1>2, <1>c DEF RunFrom, Scan, Searching, SearchWait, Numbers, Buffered
  <2>2. /\ base' \in Nat /\ base' <= next_abs
        /\ base' = base \/ base' <= RunFrom - Margin
    BY <1>2, <2>1, Trimmed DEF SearchWait, Numbers, Buffered
  <2>3. scan_abs' = scan_abs /\ state = "search"
        /\ UNCHANGED <<next_abs, state, run_start_abs, run_len, found_abs,
                       data_raw, symbols, needed_syms, out, last>>
    BY <1>2, <2>1 DEF SearchWait, Searching
  <2>5. Numbers'
    BY <2>2, <2>3 DEF Numbers
  <2>6. run_len > 0 => base' <= run_start_abs
    BY <1>2, <2>1, <2>2, <1>c DEF Numbers, Buffered, Searching, SearchWait
  <2>7. base' <= scan_abs
    BY <1>2, <2>1, <2>2, <1>c
       DEF Numbers, Buffered, Later, Searching, SearchWait
  <2> QED
    BY <2>2, <2>3, <2>5, <2>6, <2>7 DEF Buffered, OnePerPreamble, Later
<1>3. CASE SearchStrong
  <2>1. Scan = scan_abs /\ RunFrom \in Nat /\ base <= RunFrom
        /\ last <= RunFrom /\ RunFrom <= scan_abs
    BY <1>3, <1>c
       DEF RunFrom, Scan, Searching, SearchStrong, Numbers, Buffered, Later
  <2>2. /\ scan_abs' = scan_abs + Sps /\ run_start_abs' = RunFrom
        /\ run_len' = run_len + 1 /\ state = "search"
        /\ UNCHANGED <<base, next_abs, data_raw, symbols, needed_syms,
                       out, last>>
    BY <1>3, <2>1 DEF SearchStrong, Searching
  <2>3. \/ found_abs' = RunFrom /\ state' = "sync"
        \/ UNCHANGED <<found_abs, state>>
    BY <1>3 DEF SearchStrong
  <2>4. Numbers'
    BY <2>1, <2>2, <2>3, <1>c DEF Numbers
  <2>5. Buffered'
    BY <2>1, <2>2, <2>3, <1>c DEF Numbers, Buffered
  <2>6. OnePerPreamble' /\ Later'
    BY <2>1, <2>2, <2>3, <1>c DEF Numbers, OnePerPreamble, Later
  <2> QED
    BY <2>4, <2>5, <2>6
<1>4. CASE SearchBreak
  <2>1. Scan = scan_abs
    BY <1>4 DEF Scan, Searching, SearchBreak, Numbers, Buffered
  <2>2. /\ scan_abs' = scan_abs + Sps /\ run_start_abs' = scan_abs
        /\ run_len' \in {0, 1} /\ state = "search"
        /\ UNCHANGED <<base, next_abs, state, found_abs, data_raw, symbols,
                       needed_syms, out, last>>
    BY <1>4, <2>1 DEF SearchBreak, Searching
  <2>3. Numbers'
    BY <2>2, <1>c DEF Numbers
  <2>4. (Buffered /\ OnePerPreamble /\ Later)'
    BY <2>2, <1>c DEF Numbers, Buffered, OnePerPreamble, Later
  <2> QED
    BY <2>3, <2>4
<1>5. CASE SyncWait \/ DataWait
  BY <1>5
     DEF SyncWait, DataWait, Numbers, Buffered, OnePerPreamble, Later
<1>6. CASE SyncFail
  <2>1. (Span - 2) * Sps \in Nat /\ (Span - 2) * Sps >= 1
    <3>1. Span - 2 \in Nat /\ Span - 2 >= 1
      BY <1>c
    <3> QED
      BY <3>1, <1>c, Product
  <2>2. /\ scan_abs' \in Nat /\ scan_abs' >= base
        /\ scan_abs' >= found_abs + 1
        /\ state' = "search" /\ run_len' = 0
        /\ run_start_abs' = run_start_abs
        /\ last' = found_abs + 1 /\ out' = Append(out, found_abs)
    BY <1>6, <2>1 DEF Numbers, SyncFail, Push, ResetToSearch
  <2>3. UNCHANGED <<base, next_abs, found_abs, data_raw, symbols,
                    needed_syms>>
    BY <1>6 DEF SyncFail
  <2>4. out' \in Seq(Nat)
    BY <2>2 DEF Numbers
  <2>5. Numbers'
    BY <2>2, <2>3, <2>4 DEF Numbers
  <2>6. (Buffered /\ OnePerPreamble /\ Later)'
    BY <2>2, <2>3 DEF Numbers, Buffered, OnePerPreamble, Later
  <2> QED
    BY <2>5, <2>6
<1>7. CASE SyncDone
  <2>1. PICK d \in DataMin..DataMax : data_raw' = found_abs + d
    BY <1>7 DEF SyncDone
  <2>2. d \in Nat /\ d >= 1
    BY <2>1, <1>c
  <2>3. /\ state = "sync" /\ state' = "data" /\ symbols' = 0
        /\ needed_syms' = HeaderSyms
        /\ UNCHANGED <<base, next_abs, scan_abs, run_start_abs, run_len,
                       found_abs, out, last>>
    BY <1>7 DEF SyncDone, Synchronising
  <2>5. Numbers'
    BY <2>1, <2>2, <2>3, <1>c DEF Numbers
  <2>6. (Buffered /\ OnePerPreamble /\ Later)'
    BY <2>1, <2>2, <2>3 DEF Numbers, Buffered, OnePerPreamble, Later
  <2> QED
    BY <2>5, <2>6
<1>8. CASE DataSymbol
  <2>1. PICK adj \in (-Jitter)..Jitter :
          /\ data_raw' = data_raw + Sps + adj
          /\ base' = TrimFront(data_raw + Sps + adj - Guard)
    BY <1>8 DEF DataSymbol
  <2>2. /\ adj \in Int /\ Sps + adj >= 1
        /\ data_raw + Sps + adj - Guard \in Int
    BY <1>c, <2>1 DEF Numbers
  <2>3. /\ base' \in Nat /\ base' <= next_abs
        /\ base' = base \/ base' <= data_raw + Sps + adj - Guard
    BY <2>1, <2>2, Trimmed DEF Numbers, Buffered
  <2>4. /\ state = "data" /\ symbols' = symbols + 1
        /\ UNCHANGED <<next_abs, state, scan_abs, run_start_abs, run_len,
                       found_abs, out, last>>
    BY <1>8 DEF DataSymbol, Demodulating
  <2>5. needed_syms' \in Nat
    <3>1. \/ needed_syms' = needed_syms
          \/ needed_syms' \in HeaderSyms..MaxNeeded
      BY <1>8 DEF DataSymbol, CheckHeader
    <3> QED
      BY <3>1, <1>c DEF Numbers
  <2>6. data_raw' = data_raw + Sps + adj /\ data_raw' >= data_raw + 1
    BY <2>1, <2>2, <1>c DEF Numbers
  <2>7. data_raw' \in Nat /\ base' + 1 <= data_raw'
    <3>1. base + 1 <= data_raw
      BY <2>4 DEF Buffered
    <3>2. data_raw' \in Nat /\ data_raw \in Nat /\ base \in Nat
      <4>1. data_raw' = data_raw + (Sps + adj) /\ Sps + adj \in Nat
        BY <2>2, <2>6, <1>c DEF Numbers
      <4> QED
        BY <4>1 DEF Numbers
    <3>3. CASE base' = base
      BY <3>1, <3>2, <3>3, <2>6
    <3>4. ASSUME base' <= data_raw + Sps + adj - Guard
          PROVE  base' + 1 <= data_raw'
      <4>1. base' \in Nat /\ Guard \in Nat /\ Guard >= 1
        BY <2>3, <1>c
      <4>2. base' <= data_raw' - Guard
        BY <3>4, <2>6, <1>c, <2>2, <3>2, <4>1
      <4> QED
        BY <4>1, <4>2, <3>2, Behind
    <3> QED
      BY <3>2, <3>3, <3>4, <2>3
  <2>8. Numbers'
    BY <2>3, <2>4, <2>5, <2>7 DEF Numbers
  <2>9. Buffered'
    BY <2>3, <2>4, <2>7 DEF Buffered
  <2>10. OnePerPreamble' /\ Later'
    BY <2>4, <2>6, <1>c DEF Numbers, OnePerPreamble, Later
  <2> QED
    BY <2>8, <2>9, <2>10
<1>9. CASE FinalizeData
  BY <1>9, <1>a, CompletedKeeps DEF FinalizeData, Demodulating
<1>10. CASE Flush
  BY <1>10, <1>0, <1>a, CompletedKeeps DEF Flush
<1>11. CASE PopAll
  <2>1. out' \in Seq(Nat)
    BY <1>11 DEF PopAll
  <2> QED
    BY <1>11, <2>1 DEF PopAll, Numbers, Buffered, OnePerPreamble, Later
<1>12. CASE Reconstruct
  BY <1>12, <1>c
     DEF Reconstruct, Numbers, Buffered, OnePerPreamble, Later
<1> QED
  BY <1>0, <1>1, <1>2, <1>3, <1>4, <1>5, <1>6, <1>7, <1>8, <1>9, <1>10,
     <1>11, <1>12, <1>a DEF RNext, Step

(* Whatever the sizes, a receiver reads only what it still holds, and no   *)
(* preamble yields two frames.                                             *)
THEOREM ReceiverInvariant == RSpec => [](Buffered /\ OnePerPreamble)
<1>1. RInv => Buffered /\ OnePerPreamble
  BY DEF RInv
<1> QED
  BY <1>1, ReceiverInit, ReceiverStep, PTL DEF RSpec
----------------------------------------------------------------------------
(* The daemon uses its receiver as the receiver's specification allows:    *)
(* it feeds, flushes, empties or replaces it only between two feeds.       *)
LEMMA ChainStep ==
  ASSUME [Next]_vars
  PROVE  [RNext]_rvars
<1>1. CASE UNCHANGED vars
  BY <1>1 DEF vars
<1>2. CASE RxThread
  BY <1>2 DEF RxThread, RxTop, RxPush, RxTimeout, RxError
<1>3. CASE ApplyModem
  BY <1>3 DEF ApplyModem, RNext
<1>4. CASE MainThread
  BY <1>4 DEF MainThread, LoopHead, Pop, PopNothing, Process, Drain,
              FlushEnd, DrainEnd, Join, RNext
<1>5. CASE Stop
  BY <1>5 DEF Stop
<1> QED
  BY <1>1, <1>2, <1>3, <1>4, <1>5 DEF Next

(* The receive chain implements the receiver on its own.                   *)
THEOREM ChainImplementsReceiver == Spec => RSpec
<1>1. Init => RInit
  BY DEF Init
<1>2. [Next]_vars => [RNext]_rvars
  BY ChainStep
<1> QED
  BY <1>1, <1>2, PTL DEF Spec, RSpec

(* In the daemon, whatever is read is still buffered. *)
THEOREM ChainBuffered == Spec => []Buffered
BY ChainImplementsReceiver, ReceiverInvariant, PTL

(* In the daemon, one preamble yields one frame. *)
THEOREM ChainOnePerPreamble == Spec => []OnePerPreamble
BY ChainImplementsReceiver, ReceiverInvariant, PTL

(* A completed frame is handed on before the main thread does anything     *)
(* else with the receiver.                                                 *)
LEMMA HandedStep ==
  ASSUME HandedAtOnce, [Next]_vars
  PROVE  HandedAtOnce'
<1> USE DEF HandedAtOnce
<1>1. CASE UNCHANGED vars
  BY <1>1 DEF vars, rvars
<1>2. CASE RxThread
  BY <1>2 DEF RxThread, RxTop, RxPush, RxTimeout, RxError, rvars
<1>3. CASE ApplyModem
  BY <1>3 DEF ApplyModem, Reconstruct
<1>4. CASE LoopHead \/ PopNothing \/ Join
  BY <1>4 DEF LoopHead, PopNothing, Join, rvars
<1>5. CASE Pop \/ Process \/ FlushEnd
  <2>1. main' \in {"feed", "drain"}
    BY <1>5 DEF Pop, Process, FlushEnd
  <2> QED
    BY <2>1
<1>6. CASE Drain \/ DrainEnd
  BY <1>6 DEF Drain, DrainEnd, PopAll
<1>7. CASE Stop
  BY <1>7 DEF Stop, rvars
<1> QED
  BY <1>1, <1>2, <1>3, <1>4, <1>5, <1>6, <1>7 DEF Next, MainThread

(* No completed frame is in the receiver when it is replaced or destroyed. *)
THEOREM NoFrameLost == Spec => []HandedAtOnce
<1>1. Init => HandedAtOnce
  BY DEF Init, RInit, Fresh, HandedAtOnce
<1>2. HandedAtOnce /\ [Next]_vars => HandedAtOnce'
  BY HandedStep
<1> QED
  BY <1>1, <1>2, PTL DEF Spec

----------------------------------------------------------------------------
(* How much the receiver holds.  While it searches, the windows of a run   *)
(* lie one behind the other, and there are fewer of them than end it.      *)
RunGrid ==
  state = "search" =>
    /\ run_len < RunNeeded
    /\ run_len > 0 => scan_abs = run_start_abs + run_len * Sps

(* Each symbol discards what lies behind the next one. *)
DataHeld == state = "data" /\ symbols > 0 => data_raw - base <= Guard

(* process() comes to rest only where it wants more samples. *)
Rested ==
  ~busy =>
    /\ state = "search" => next_abs - base <= Margin + RunNeeded * Sps
    /\ state = "sync" => next_abs - found_abs < Span * Sps + Slack
    /\ state = "data" => next_abs <= data_raw + Sps + Lead

(* The inductive invariant behind Bounded: the flush at the end completes  *)
(* a frame without process() and is the only exception to Rested.          *)
BInv ==
  /\ RInv /\ HandedAtOnce /\ RunGrid /\ DataHeld
  /\ main \in {"ipc", "pop", "feed", "flush"} => Rested

(* More windows are more samples. *)
LEMMA MoreWindows ==
  ASSUME NEW k \in Nat, NEW n \in Nat, NEW s \in Nat, k < n
  PROVE  k * s \in Nat /\ n * s \in Nat /\ k * s + s <= n * s
<1>1. k * s \in Nat /\ n * s \in Nat /\ n - k - 1 \in Nat
  OBVIOUS
<1>2. n * s = k * s + s + (n - k - 1) * s
  OBVIOUS
<1>3. (n - k - 1) * s \in Nat
  BY <1>1
<1> QED
  BY <1>1, <1>2, <1>3

(* trimFront leaves no more than was asked to be kept. *)
LEMMA TrimmedHolds ==
  ASSUME base \in Nat, next_abs \in Nat, base <= next_abs, NEW keep \in Int
  PROVE  next_abs - TrimFront(keep) <= next_abs - keep \/ TrimFront(keep) = next_abs
BY DEF TrimFront

(* A search at rest holds its run and the margin before it. *)
LEMMA SearchRests ==
  ASSUME RInv, RunGrid, SearchWait
  PROVE  next_abs' - base' <= Margin + RunNeeded * Sps
<1>1. /\ Sps \in Nat /\ Sps >= 1 /\ Margin \in Nat /\ RunNeeded \in Nat
      /\ RunNeeded >= 1
  BY ReceiverAssumption
<1>2. /\ base \in Nat /\ next_abs \in Nat /\ scan_abs \in Nat
      /\ run_start_abs \in Nat /\ run_len \in Nat
      /\ base <= next_abs /\ base <= scan_abs
      /\ run_len < RunNeeded
  BY DEF RInv, Numbers, Buffered, RunGrid, SearchWait, Searching
<1>3. /\ Scan = scan_abs /\ RunFrom \in Nat
      /\ scan_abs + Sps > next_abs
      /\ base' = TrimFront(RunFrom - Margin) /\ next_abs' = next_abs
  BY <1>2 DEF Scan, RunFrom, SearchWait
<1>4. scan_abs = RunFrom + run_len * Sps
  <2>1. CASE run_len > 0
    BY <2>1 DEF RunFrom, RunGrid, SearchWait, Searching
  <2>2. CASE run_len = 0
    BY <2>2, <1>1, <1>2, <1>3 DEF RunFrom
  <2> QED
    BY <2>1, <2>2, <1>2
<1>5. /\ run_len * Sps \in Nat /\ RunNeeded * Sps \in Nat
      /\ run_len * Sps + Sps <= RunNeeded * Sps
  BY <1>1, <1>2, MoreWindows
<1>6. RunFrom - Margin \in Int
  BY <1>1, <1>3
<1> DEFINE b == TrimFront(RunFrom - Margin)
           run == run_len * Sps
           most == RunNeeded * Sps
<1>7. b \in Nat /\ (next_abs - b <= next_abs - (RunFrom - Margin) \/ b = next_abs)
  BY <1>2, <1>6, Trimmed, TrimmedHolds
<1>8. /\ run \in Nat /\ most \in Nat /\ run + Sps <= most
      /\ scan_abs = RunFrom + run
  BY <1>4, <1>5
<1>9. next_abs - b <= Margin + most
  <2> HIDE DEF b, run, most
  <2>1. CASE b = next_abs
    BY <2>1, <1>1, <1>2, <1>8
  <2>2. CASE next_abs - b <= next_abs - (RunFrom - Margin)
    BY <2>2, <1>1, <1>2, <1>3, <1>7, <1>8
  <2> QED
    BY <1>7, <2>1, <2>2
<1> QED
  BY <1>3, <1>9

(* How far two positions are apart. *)
LEMMA Apart ==
  ASSUME NEW a \in Int, NEW b \in Int, NEW k \in Int, NEW g \in Int,
         a = k + g, b >= k
  PROVE  a - b <= g
OBVIOUS

(* A data symbol leaves no more than the guard before the next one. *)
LEMMA DataSymbolHolds ==
  ASSUME RInv, DataSymbol
  PROVE  data_raw' - base' <= Guard
<1>1. /\ Sps \in Nat /\ Guard \in Nat /\ Lead \in Nat /\ Jitter \in Nat
      /\ Jitter <= Guard + Lead
  BY ReceiverAssumption
<1>2. base \in Nat /\ next_abs \in Nat /\ data_raw \in Nat /\ base <= next_abs
  BY DEF RInv, Numbers, Buffered
<1>3. PICK adj \in (-Jitter)..Jitter :
        /\ data_raw' = data_raw + Sps + adj
        /\ base' = TrimFront(data_raw + Sps + adj - Guard)
  BY DEF DataSymbol
<1>4. adj \in Int /\ adj <= Jitter
  BY <1>1, <1>3
<1>5. data_raw + Sps + Lead < next_abs
  BY DEF DataSymbol, SymbolBuffered
<1> DEFINE keep == data_raw + Sps + adj - Guard
<1>6. keep \in Int /\ keep < next_abs /\ data_raw' = keep + Guard
  BY <1>1, <1>2, <1>3, <1>4, <1>5
<1>7. TrimFront(keep) \in Int /\ TrimFront(keep) >= keep
  <2> HIDE DEF keep
  <2> QED
    BY <1>2, <1>6 DEF TrimFront
<1>8. base' = TrimFront(keep)
  BY <1>3
<1> HIDE DEF keep
<1>9. data_raw' \in Int /\ base' \in Int /\ base' >= keep
  BY <1>1, <1>6, <1>7, <1>8
<1>10. keep \in Int /\ Guard \in Int /\ data_raw' = keep + Guard
  BY <1>1, <1>6
<1> QED
  BY <1>9, <1>10, Apart, Zenon

(* process() keeps within its bounds, wherever it comes to rest. *)
LEMMA StepRests ==
  ASSUME RInv, RunGrid, DataHeld, Step
  PROVE  RunGrid' /\ DataHeld' /\ Rested'
<1>1. /\ Sps \in Nat /\ Sps >= 1 /\ RunNeeded \in Nat /\ RunNeeded >= 1
  BY ReceiverAssumption
<1>2. /\ run_len \in Nat /\ scan_abs \in Nat /\ run_start_abs \in Nat
      /\ state = "search" => base <= scan_abs
      /\ base \in Nat
      /\ state \in {"search", "sync", "data"}
  BY DEF RInv, Numbers, Buffered
<1>3. busy
  BY DEF Step, SearchWait, SearchStrong, SearchBreak, SyncWait, SyncFail,
         SyncDone, DataWait, DataSymbol, FinalizeData, Searching,
         Synchronising, Demodulating
<1> USE DEF search, frame
<1>4. CASE SearchWait
  <2>1. /\ scan_abs' = scan_abs /\ state = "search" /\ state' = "search"
        /\ UNCHANGED <<run_start_abs, run_len>>
    BY <1>2, <1>4 DEF SearchWait, Searching, Scan
  <2>2. RunGrid'
    BY <2>1 DEF RunGrid
  <2> QED
    BY <2>1, <2>2, <1>4, SearchRests DEF DataHeld, Rested
<1>5. CASE SearchStrong
  <2>1. /\ scan_abs' = scan_abs + Sps /\ run_len' = run_len + 1
        /\ run_start_abs' = RunFrom /\ state = "search" /\ busy' = busy
        /\ run_len + 1 >= RunNeeded => state' = "sync"
        /\ state' \in {"search", "sync"}
    BY <1>2, <1>5 DEF SearchStrong, Searching, Scan
  <2>2. RunFrom \in Nat /\ scan_abs = RunFrom + run_len * Sps
    <3>1. CASE run_len > 0
      BY <3>1, <1>2, <2>1 DEF RunFrom, RunGrid
    <3>2. CASE run_len = 0
      BY <3>2, <1>1, <1>2, <2>1 DEF RunFrom, Scan
    <3> QED
      BY <3>1, <3>2, <1>2
  <2>3. (run_len + 1) * Sps = run_len * Sps + Sps /\ run_len * Sps \in Nat
    BY <1>1, <1>2
  <2>4. scan_abs' = run_start_abs' + run_len' * Sps
    <3> DEFINE a == run_len * Sps
               b == (run_len + 1) * Sps
    <3>1. a \in Nat /\ b = a + Sps /\ scan_abs = RunFrom + a
      BY <2>2, <2>3
    <3>2. run_len' * Sps = b
      BY <2>1
    <3> HIDE DEF a, b
    <3> QED
      BY <3>1, <3>2, <2>1, <2>2, <1>1
  <2>5. RunGrid'
    BY <2>1, <2>4, <1>1, <1>2 DEF RunGrid
  <2> QED
    BY <2>1, <2>5, <1>3 DEF DataHeld, Rested
<1>6. CASE SearchBreak
  <2>1. /\ scan_abs' = scan_abs + Sps /\ run_start_abs' = scan_abs
        /\ state = "search" /\ state' = "search" /\ busy' = busy
        /\ run_len' \in {0, 1}
        /\ run_len = 0 => run_len' = 0
    BY <1>2, <1>6 DEF SearchBreak, Searching, Scan
  <2>2. run_len' < RunNeeded
    <3>1. CASE run_len' = 0
      BY <3>1, <1>1
    <3>2. CASE run_len' = 1
      <4>1. run_len >= 1 /\ run_len < RunNeeded
        BY <3>2, <1>2, <2>1 DEF RunGrid
      <4>2. 1 < RunNeeded
        BY <4>1, <1>1, <1>2
      <4> QED
        BY <3>2, <4>2
    <3> QED
      BY <2>1, <3>1, <3>2
  <2>3. run_len' > 0 => scan_abs' = run_start_abs' + run_len' * Sps
    <3>1. CASE run_len' = 1
      <4>1. 1 * Sps = Sps
        BY <1>1
      <4> QED
        BY <2>1, <3>1, <4>1
    <3>2. CASE run_len' = 0
      BY <3>2
    <3> QED
      BY <2>1, <3>1, <3>2
  <2> QED
    BY <2>1, <2>2, <2>3, <1>3 DEF RunGrid, DataHeld, Rested
<1>7. CASE SyncWait
  <2>1. /\ state = "sync" /\ state' = "sync"
        /\ UNCHANGED <<next_abs, found_abs>>
        /\ ~(next_abs >= found_abs + Span * Sps + Slack)
    BY <1>7 DEF SyncWait, Synchronising, SpanBuffered
  <2>2. /\ Span * Sps \in Nat /\ Slack \in Nat
        /\ next_abs \in Nat /\ found_abs \in Nat
    BY ReceiverAssumption, SMTT(30), ZenonT(30) DEF RInv, Numbers
  <2>3. next_abs - found_abs < Span * Sps + Slack
    <3> DEFINE span == Span * Sps
    <3>1. span \in Nat /\ ~(next_abs >= found_abs + span + Slack)
      BY <2>1, <2>2
    <3> HIDE DEF span
    <3>2. next_abs - found_abs < span + Slack
      BY <2>2, <3>1
    <3> QED
      BY <3>2 DEF span
  <2> QED
    BY <2>1, <2>3 DEF RunGrid, DataHeld, Rested
<1>8. CASE SyncFail
  BY <1>8, <1>1, <1>3 DEF SyncFail, ResetToSearch, RunGrid, DataHeld, Rested
<1>9. CASE SyncDone
  BY <1>9, <1>3 DEF SyncDone, RunGrid, DataHeld, Rested
<1>10. CASE DataWait
  <2>1. /\ state = "data" /\ state' = "data"
        /\ UNCHANGED <<base, next_abs, data_raw, symbols>>
        /\ ~(data_raw + Sps + Lead < next_abs)
    BY <1>10 DEF DataWait, Demodulating, SymbolBuffered
  <2>2. next_abs <= data_raw + Sps + Lead
    BY <2>1, <1>1, ReceiverAssumption, SMTT(30), ZenonT(30) DEF RInv, Numbers
  <2> QED
    BY <2>1, <2>2 DEF RunGrid, DataHeld, Rested
<1>11. CASE DataSymbol
  <2>1. state' = "data" /\ busy' = busy
    BY <1>11 DEF DataSymbol, Demodulating
  <2> QED
    BY <2>1, <1>3, <1>11, DataSymbolHolds DEF RunGrid, DataHeld, Rested
<1>12. CASE FinalizeData
  BY <1>12, <1>1, <1>3
     DEF FinalizeData, Completed, ResetToSearch, RunGrid, DataHeld, Rested
<1> QED
  BY <1>4, <1>5, <1>6, <1>7, <1>8, <1>9, <1>10, <1>11, <1>12 DEF Step

(* Between two chunks the receiver's buffer stays within the bounds of its *)
(* state, whatever the sizes of symbols and chunks and however long it     *)
(* listens.                                                                *)
THEOREM ReceiverBounded == Spec => []Bounded
<1>1. Init => BInv
  <2> SUFFICES ASSUME Init PROVE BInv
    OBVIOUS
  <2>1. RInv /\ HandedAtOnce
    BY ReceiverInit DEF Init, RInit, Fresh, HandedAtOnce
  <2>2. /\ state = "search" /\ run_len = 0 /\ base = 0 /\ next_abs = 0
    BY DEF Init, RInit, Fresh
  <2>3. Margin \in Nat /\ RunNeeded \in Nat /\ RunNeeded >= 1 /\ Sps \in Nat
    BY ReceiverAssumption
  <2>4. Margin + RunNeeded * Sps \in Nat
    BY <2>3
  <2> QED
    BY <2>1, <2>2, <2>3, <2>4 DEF BInv, RunGrid, DataHeld, Rested
<1>2. BInv /\ [Next]_vars => BInv'
  <2>a. SUFFICES ASSUME BInv, [Next]_vars PROVE BInv'
    OBVIOUS
  <2>b. RInv /\ HandedAtOnce /\ RunGrid /\ DataHeld
    BY <2>a DEF BInv
  <2>1. RInv'
    BY <2>a, <2>b, ReceiverStep, ChainStep
  <2>2. HandedAtOnce'
    BY <2>a, <2>b, HandedStep
  <2>3. CASE UNCHANGED rvars /\ (main' \in {"ipc", "pop", "feed", "flush"} =>
                                 main \in {"ipc", "pop", "feed", "flush"})
    BY <2>3, <2>1, <2>2, <2>a
       DEF BInv, rvars, search, frame, RunGrid, DataHeld, Rested
  <2>4. ASSUME NEW n \in Feeds, Feed(n) PROVE BInv'
    BY <2>4, <2>1, <2>2, <2>b
       DEF Feed, search, frame, BInv, RunGrid, DataHeld, Rested
  <2>5. CASE Step
    BY <2>5, <2>b, <2>1, <2>2, StepRests DEF BInv
  <2>6. CASE FlushEnd
    <3>1. main' = "drain" /\ Flush
      BY <2>6 DEF FlushEnd
    <3>2. CASE state = "data"
      BY <3>1, <3>2, <2>1, <2>2, ReceiverAssumption
         DEF Flush, Completed, ResetToSearch, BInv, RunGrid, DataHeld
    <3>3. CASE state # "data"
      BY <3>1, <3>3, <2>1, <2>2, <2>b
         DEF Flush, rvars, search, frame, BInv, RunGrid, DataHeld
    <3> QED
      BY <3>2, <3>3
  <2>7. CASE Drain \/ DrainEnd
    <3>1. /\ PopAll
          /\ main' \in {"ipc", "pop", "feed", "flush"} =>
               main \in {"ipc", "pop", "feed", "flush"}
      BY <2>7 DEF Drain, DrainEnd
    <3> QED
      BY <3>1, <2>1, <2>2, <2>a
         DEF PopAll, search, frame, BInv, RunGrid, DataHeld, Rested
  <2>8. CASE Reconstruct
    <3>1. Margin \in Nat /\ RunNeeded \in Nat /\ RunNeeded >= 1 /\ Sps \in Nat
      BY ReceiverAssumption
    <3>2. Margin + RunNeeded * Sps \in Nat
      BY <3>1
    <3>3. state' = "search" /\ run_len' = 0 /\ base' = 0 /\ next_abs' = 0
      BY <2>8 DEF Reconstruct
    <3> QED
      BY <3>1, <3>2, <3>3, <2>1, <2>2 DEF BInv, RunGrid, DataHeld, Rested
  <2>9. CASE MainThread
    <3>1. CASE LoopHead \/ PopNothing \/ Join
      BY <3>1, <2>3 DEF LoopHead, PopNothing, Join
    <3>2. CASE Pop
      <4>1. main = "pop"
        BY <3>2 DEF Pop
      <4>2. UNCHANGED rvars \/ \E n \in Feeds : Feed(n)
        BY <3>2 DEF Pop
      <4> QED
        BY <4>1, <4>2, <2>3, <2>4
    <3>3. CASE Process
      BY <3>3, <2>5 DEF Process
    <3> QED
      BY <2>9, <3>1, <3>2, <3>3, <2>6, <2>7 DEF MainThread
  <2>10. CASE RxThread
    BY <2>10, <2>3 DEF RxThread, RxTop, RxPush, RxTimeout, RxError, chain
  <2>11. CASE ApplyModem
    BY <2>11, <2>8 DEF ApplyModem
  <2>12. CASE Stop
    BY <2>12, <2>3 DEF Stop
  <2>13. CASE UNCHANGED vars
    BY <2>13, <2>3 DEF vars
  <2> QED
    BY <2>a, <2>9, <2>10, <2>11, <2>12, <2>13 DEF Next
<1>3. BInv => Bounded
  <2>1. SUFFICES ASSUME BInv PROVE Bounded
    OBVIOUS
  <2>2. CASE main \in {"ipc", "pop"}
    BY <2>1, <2>2 DEF BInv, HandedAtOnce, Rested, DataHeld, Bounded
  <2> QED
    BY <2>2 DEF Bounded
<1> QED
  BY <1>1, <1>2, <1>3, PTL DEF Spec

----------------------------------------------------------------------------
(* The counters are numbers and the queue is a sequence. *)
ChainNumbers ==
  /\ taken \in Nat /\ dropped \in Nat /\ flushed \in Nat
  /\ popped \in Nat /\ reported \in Nat
  /\ queue \in Seq(Nat)

(* The inductive invariant of the chunk queue. *)
AInv == ChainNumbers /\ Accounted

(* No chunk is lost without being counted, and what is queued is a         *)
(* contiguous stretch of the stream up to its newest chunk.                *)
THEOREM ChunksAccounted == Spec => []Accounted
<1>1. Init => AInv
  BY ChainAssumption DEF Init, AInv, ChainNumbers, Accounted
<1>2. AInv /\ [Next]_vars => AInv'
  <2>a. SUFFICES ASSUME AInv, [Next]_vars PROVE AInv'
    OBVIOUS
  <2>b. /\ ChainNumbers /\ QueueMax \in Nat /\ QueueMax >= 1
        /\ taken = popped + dropped + flushed + Len(queue)
        /\ \A i \in 1..Len(queue) : queue[i] = taken - Len(queue) + i
        /\ reported <= dropped
        /\ Len(queue) <= QueueMax
    BY <2>a, ChainAssumption DEF AInv, Accounted
  <2> USE <2>b DEF AInv, chain
  <2>1. CASE UNCHANGED <<queue, chain>>
    BY <2>1 DEF ChainNumbers, Accounted
  <2>2. CASE RxPush
    <3>1. CASE Len(queue) >= QueueMax
      <4>1. /\ queue' = Append(Tail(queue), taken + 1)
            /\ dropped' = dropped + 1 /\ taken' = taken + 1
            /\ UNCHANGED <<flushed, popped, reported>>
        BY <2>2, <3>1 DEF RxPush
      <4>2. queue # <<>> /\ Tail(queue) \in Seq(Nat)
            /\ Len(Tail(queue)) = Len(queue) - 1
        BY <3>1 DEF ChainNumbers
      <4>3. queue' \in Seq(Nat) /\ Len(queue') = Len(queue)
        BY <4>1, <4>2 DEF ChainNumbers
      <4>4. \A i \in 1..Len(queue') : queue'[i] = taken' - Len(queue') + i
        <5> SUFFICES ASSUME NEW i \in 1..Len(queue')
                     PROVE  queue'[i] = taken' - Len(queue') + i
          OBVIOUS
        <5>0. i \in 1..Len(queue) /\ taken' - Len(queue') = taken + 1 - Len(queue)
          BY <4>1, <4>3 DEF ChainNumbers
        <5>1. CASE i = Len(queue)
          BY <5>0, <5>1, <4>1, <4>2 DEF ChainNumbers
        <5>2. CASE i < Len(queue)
          <6>1. i \in 1..Len(Tail(queue)) /\ i + 1 \in 1..Len(queue)
            BY <5>0, <5>2, <4>2 DEF ChainNumbers
          <6>2. queue'[i] = Tail(queue)[i] /\ Tail(queue)[i] = queue[i + 1]
            BY <6>1, <4>1, <4>2 DEF ChainNumbers
          <6> QED
            BY <6>1, <6>2, <5>0 DEF ChainNumbers
        <5> QED
          BY <5>0, <5>1, <5>2
      <4>5. ChainNumbers'
        BY <4>1, <4>3 DEF ChainNumbers
      <4>6. taken' = popped' + dropped' + flushed' + Len(queue')
            /\ reported' <= dropped'
        BY <4>1, <4>3 DEF ChainNumbers
      <4> QED
        BY <4>3, <4>4, <4>5, <4>6 DEF Accounted
    <3>2. CASE ~(Len(queue) >= QueueMax)
      <4>1. /\ queue' = Append(queue, taken + 1) /\ taken' = taken + 1
            /\ UNCHANGED <<dropped, flushed, popped, reported>>
        BY <2>2, <3>2 DEF RxPush
      <4>2. queue' \in Seq(Nat) /\ Len(queue') = Len(queue) + 1
        BY <4>1 DEF ChainNumbers
      <4>3. ASSUME NEW i \in 1..Len(queue')
            PROVE  queue'[i] = taken' - Len(queue') + i
        <5>1. /\ taken \in Nat /\ Len(queue) \in Nat /\ taken + 1 \in Nat
              /\ taken' - Len(queue') = taken - Len(queue)
          BY <4>1, <4>2 DEF ChainNumbers
        <5>2. CASE i \in 1..Len(queue)
          <6>1. queue'[i] = queue[i]
            BY <4>1, <5>1, <5>2, AppendProperties DEF ChainNumbers
          <6>2. queue[i] = taken - Len(queue) + i
            BY <5>2 DEF Accounted
          <6> QED  BY <5>1, <6>1, <6>2
        <5>3. CASE i = Len(queue) + 1
          <6>1. queue'[i] = taken + 1
            BY <4>1, <5>1, <5>3, AppendProperties DEF ChainNumbers
          <6> QED  BY <5>1, <5>3, <6>1
        <5> QED  BY <4>2, <5>1, <5>2, <5>3
      <4>4. Len(queue') <= QueueMax
        BY <3>2, <4>2 DEF ChainNumbers
      <4> QED
        BY <4>1, <4>2, <4>3, <4>4 DEF ChainNumbers, Accounted
    <3> QED
      BY <3>1, <3>2
  <2>3. CASE ApplyModem
    <3>1. /\ queue' = <<>> /\ flushed' = flushed + Len(queue)
          /\ UNCHANGED <<taken, dropped, popped, reported>>
      BY <2>3 DEF ApplyModem
    <3> QED
      BY <3>1 DEF ChainNumbers, Accounted
  <2>4. CASE Pop
    <3>1. /\ queue # <<>> /\ queue' = Tail(queue) /\ popped' = popped + 1
          /\ UNCHANGED <<taken, dropped, flushed, reported>>
      BY <2>4 DEF Pop
    <3>2. queue' \in Seq(Nat) /\ Len(queue') = Len(queue) - 1
      BY <3>1 DEF ChainNumbers
    <3>3. \A i \in 1..Len(queue') : queue'[i] = taken' - Len(queue') + i
      BY <3>1, <3>2 DEF ChainNumbers
    <3> QED
      BY <3>1, <3>2, <3>3 DEF ChainNumbers, Accounted
  <2>5. CASE Drain
    <3>1. reported' = dropped
          /\ UNCHANGED <<queue, taken, dropped, flushed, popped>>
      BY <2>5 DEF Drain
    <3> QED
      BY <3>1 DEF ChainNumbers, Accounted
  <2>6. [Next]_vars =>
          \/ UNCHANGED <<queue, chain>>
          \/ RxPush \/ ApplyModem \/ Pop \/ Drain
    BY DEF Next, vars, RxThread, RxTop, RxTimeout, RxError, MainThread,
           LoopHead, PopNothing, Process, FlushEnd, DrainEnd, Join, Stop
  <2> QED
    BY <2>a, <2>1, <2>2, <2>3, <2>4, <2>5, <2>6
<1>3. AInv => Accounted
  BY DEF AInv
<1> QED
  BY <1>1, <1>2, <1>3, PTL DEF Spec
=============================================================================
