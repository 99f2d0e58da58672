------------------------------ MODULE Receiver ------------------------------
(***************************************************************************)
(* The streaming LoRa receiver, src/src/lora/receiver.cpp: the raw sample  *)
(* buffer and the SEARCH / SYNC / DATA machine that walks over it.         *)
(*                                                                         *)
(* Positions are absolute sample indices.  What the FFTs and decoders say  *)
(* (a window is strong, a sync word fits, a header is valid) is chosen     *)
(* freely; where each window lies, what is discarded and where the search  *)
(* resumes is computed as the code does, in whole samples.                 *)
(***************************************************************************)
EXTENDS Integers, Sequences

CONSTANTS
  Sps,         \* sps_: samples of a symbol
  RunNeeded,   \* kRunNeeded: strong windows that start a synchronisation
  Span,        \* preamble_len + 7: symbols a synchronisation looks at
  HeaderSyms,  \* symbols that hold the header (8)
  MaxNeeded,   \* longest frame a header can announce, in symbols
  MaxSyms,     \* max_syms: symbols of the longest frame that is followed
  Margin,      \* samples kept before the run or scan point (sps_/2 + 8)
  Slack,       \* samples SYNC wants beyond the span (sps_/2 + 16)
  Guard,       \* samples kept before the next data symbol (8)
  Lead,        \* samples the resampler reads past a window (3)
  Jitter,      \* samples the refine and the timing loop move a symbol by
  DataMin, DataMax,  \* where the data can begin, from found_abs_
  Feeds        \* samples a chunk can bring

ASSUME ReceiverAssumption ==
  /\ {Sps, RunNeeded, Span, HeaderSyms, MaxNeeded, MaxSyms, Margin, Slack,
      Guard, Lead, Jitter, DataMin, DataMax} \subseteq Nat
  /\ Feeds \subseteq Nat
  /\ RunNeeded >= 1 /\ Span >= 3 /\ HeaderSyms <= MaxNeeded
  /\ Guard >= 1 /\ DataMin >= 1
  /\ Jitter < Sps /\ Jitter <= Guard + Lead

VARIABLES
  base,       \* base_: index of the first buffered sample
  next_abs,   \* next_abs_: samples fed; the buffer is base .. next_abs - 1
  state,      \* state_
  scan_abs, run_start_abs, run_len,         \* SEARCH
  found_abs,                                \* SYNC: start of the run
  data_raw, symbols, needed_syms, have_len, \* DATA; symbols = data_sym_
  out,        \* out_: found_abs of each completed frame
  busy,       \* inside process()
  last        \* history: one past the found_abs of the latest frame, or 0

search == <<scan_abs, run_start_abs, run_len>>
frame == <<data_raw, symbols, needed_syms, have_len>>
rvars == <<base, next_abs, state, search, found_abs, frame, out, busy, last>>

Fresh ==
  /\ base = 0 /\ next_abs = 0 /\ state = "search"
  /\ scan_abs = 0 /\ run_start_abs = 0 /\ run_len = 0
  /\ found_abs = 0 /\ data_raw = 0 /\ symbols = 0
  /\ needed_syms = HeaderSyms /\ have_len = FALSE
  /\ out = <<>> /\ busy = FALSE /\ last = 0

RInit == Fresh

(* trimFront: at most everything buffered goes. *)
TrimFront(keep) ==
  IF keep <= base THEN base ELSE IF keep < next_abs THEN keep ELSE next_abs

ResetToSearch(from) ==
  /\ state' = "search" /\ run_len' = 0
  /\ scan_abs' = IF from < base THEN base ELSE from
  /\ UNCHANGED run_start_abs

(* out_.push_back of the frame whose run began at found_abs. *)
Push == out' = Append(out, found_abs) /\ last' = found_abs + 1

Feed(n) ==
  /\ ~busy
  /\ next_abs' = next_abs + n /\ busy' = TRUE
  /\ UNCHANGED <<base, state, search, found_abs, frame, out, last>>

----------------------------------------------------------------------------
(* stepSearch: windows on a fixed grid. *)
Searching == busy /\ state = "search"
Scan == IF scan_abs < base THEN base ELSE scan_abs
RunFrom == IF run_len > 0 THEN run_start_abs ELSE Scan

(* Mutant: the scan point alone says what is kept. *)
SearchWait_ForgetsRun ==
  /\ Searching /\ Scan + Sps > next_abs
  /\ scan_abs' = Scan
  /\ base' = TrimFront(Scan - Margin)
  /\ busy' = FALSE
  /\ UNCHANGED <<next_abs, state, run_start_abs, run_len, found_abs, frame,
                 out, last>>

SearchWait ==
  /\ Searching /\ Scan + Sps > next_abs
  /\ scan_abs' = Scan
  /\ base' = TrimFront(RunFrom - Margin)
  /\ busy' = FALSE
  /\ UNCHANGED <<next_abs, state, run_start_abs, run_len, found_abs, frame,
                 out, last>>

(* A strong window begins a run or continues one. *)
SearchStrong ==
  /\ Searching /\ Scan + Sps <= next_abs
  /\ scan_abs' = Scan + Sps
  /\ run_start_abs' = RunFrom
  /\ run_len' = run_len + 1
  /\ IF run_len + 1 >= RunNeeded
       THEN found_abs' = RunFrom /\ state' = "sync"
       ELSE UNCHANGED <<found_abs, state>>
  /\ UNCHANGED <<base, next_abs, frame, out, busy, last>>

(* A weak window ends the run; a strong one too far off starts another. *)
SearchBreak ==
  /\ Searching /\ Scan + Sps <= next_abs
  /\ scan_abs' = Scan + Sps
  /\ run_start_abs' = Scan
  /\ run_len' \in IF run_len = 0 THEN {0} ELSE {0, 1}
  /\ UNCHANGED <<base, next_abs, state, found_abs, frame, out, busy, last>>

----------------------------------------------------------------------------
(* stepSync: one shot, once the whole span is buffered. *)
Synchronising == busy /\ state = "sync"
SpanBuffered == next_abs >= found_abs + Span * Sps + Slack

SyncWait ==
  /\ Synchronising /\ ~SpanBuffered
  /\ busy' = FALSE
  /\ UNCHANGED <<base, next_abs, state, search, found_abs, frame, out, last>>

(* Mutant: the search resumes at the run that failed. *)
SyncFail_ResumesAtRun ==
  /\ Synchronising /\ SpanBuffered
  /\ Push
  /\ ResetToSearch(found_abs)
  /\ UNCHANGED <<base, next_abs, found_abs, frame, busy>>

SyncFail ==
  /\ Synchronising /\ SpanBuffered
  /\ Push
  /\ ResetToSearch(found_abs + (Span - 2) * Sps)
  /\ UNCHANGED <<base, next_abs, found_abs, frame, busy>>

(* The data starts 2.25 down-chirps after the sync word, wherever that was *)
(* found.                                                                  *)
SyncDone ==
  /\ Synchronising /\ SpanBuffered
  /\ \E d \in DataMin..DataMax : data_raw' = found_abs + d
  /\ symbols' = 0 /\ needed_syms' = HeaderSyms /\ have_len' = FALSE
  /\ state' = "data"
  /\ UNCHANGED <<base, next_abs, search, found_abs, out, busy, last>>

----------------------------------------------------------------------------
(* stepData: one window per symbol, each placed by the one before it. *)
Demodulating == busy /\ state = "data"
Wanting == symbols < needed_syms /\ symbols < MaxSyms /\ data_raw - base >= 1
SymbolBuffered == data_raw + Sps + Lead < next_abs

DataWait ==
  /\ Demodulating /\ Wanting /\ ~SymbolBuffered
  /\ busy' = FALSE
  /\ UNCHANGED <<base, next_abs, state, search, found_abs, frame, out, last>>

(* checkHeader: the length is read once.  An invalid header leaves the     *)
(* wanted symbols at those of the header, which ends the frame.            *)
CheckHeader ==
  \/ UNCHANGED <<needed_syms, have_len>>
  \/ /\ ~have_len /\ symbols + 1 >= HeaderSyms
     /\ needed_syms' \in HeaderSyms..MaxNeeded
     /\ have_len' = TRUE

(* Mutant: nothing is discarded while a frame is followed. *)
DataSymbol_KeepsAll ==
  /\ Demodulating /\ Wanting /\ SymbolBuffered
  /\ \E adj \in (-Jitter)..Jitter : data_raw' = data_raw + Sps + adj
  /\ symbols' = symbols + 1
  /\ CheckHeader
  /\ UNCHANGED <<base, next_abs, state, search, found_abs, out, busy, last>>

DataSymbol ==
  /\ Demodulating /\ Wanting /\ SymbolBuffered
  /\ \E adj \in (-Jitter)..Jitter :
       /\ data_raw' = data_raw + Sps + adj
       /\ base' = TrimFront(data_raw + Sps + adj - Guard)
  /\ symbols' = symbols + 1
  /\ CheckHeader
  /\ UNCHANGED <<next_abs, state, search, found_abs, out, busy, last>>

(* finalizeData: decode with what was demodulated, and search on past it. *)
Completed ==
  /\ Push
  /\ ResetToSearch(data_raw + Sps)
  /\ UNCHANGED <<base, next_abs, found_abs, frame, busy>>

FinalizeData == Demodulating /\ ~Wanting /\ Completed

Step ==
  \/ SearchWait \/ SearchStrong \/ SearchBreak
  \/ SyncWait \/ SyncFail \/ SyncDone
  \/ DataWait \/ DataSymbol \/ FinalizeData

----------------------------------------------------------------------------
(* The owner of the receiver, between two feeds. *)
Flush ==
  /\ ~busy
  /\ IF state = "data" THEN Completed ELSE UNCHANGED rvars

PopAll ==
  /\ ~busy /\ out' = <<>>
  /\ UNCHANGED <<base, next_abs, state, search, found_abs, frame, busy, last>>

Reconstruct ==
  /\ ~busy /\ base' = 0 /\ next_abs' = 0 /\ state' = "search"
  /\ scan_abs' = 0 /\ run_start_abs' = 0 /\ run_len' = 0
  /\ found_abs' = 0 /\ data_raw' = 0 /\ symbols' = 0
  /\ needed_syms' = HeaderSyms /\ have_len' = FALSE
  /\ out' = <<>> /\ busy' = FALSE /\ last' = 0

RNext == (\E n \in Feeds : Feed(n)) \/ Step \/ Flush \/ PopAll \/ Reconstruct

RSpec == RInit /\ [][RNext]_rvars

----------------------------------------------------------------------------
(* What a step is about to read is still buffered: the unsigned            *)
(* subtractions found_abs_ - base_ and scan_abs_ - base_ do not wrap, and  *)
(* a data window has the sample before it that the resampler reads, so a   *)
(* frame never ends for want of history.  The discarding is done by other  *)
(* steps, SEARCH's when it rests and DATA's after each symbol.             *)
Buffered ==
  /\ base <= next_abs
  /\ state = "search" => base <= scan_abs
  /\ state = "search" /\ run_len > 0 => base <= run_start_abs
  /\ state = "sync" => base <= found_abs
  /\ state = "data" => base + 1 <= data_raw

(* One preamble, one frame: whichever way an acquisition ends (no sync,    *)
(* bad header, complete frame, end of stream), the next one starts from a  *)
(* later window than it did.                                               *)
OnePerPreamble == state # "search" => last <= found_abs
=============================================================================
