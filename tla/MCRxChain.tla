----------------------------- MODULE MCRxChain -----------------------------
(* RxChain on a receiver of 3 samples a symbol: a preamble span of 4       *)
(* symbols, frames of 2 to 4, chunks of a window and of almost a span.     *)
EXTENDS RxChain
=============================================================================
