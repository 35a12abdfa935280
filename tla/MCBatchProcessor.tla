-------------------------- MODULE MCBatchProcessor --------------------------
(* Two batches, of two lines and of one.                                   *)
EXTENDS BatchProcessor, TLC

CONSTANTS long, short

TwoBatches == {long, short}
LinesOf == (long :> 2) @@ (short :> 1)
=============================================================================
