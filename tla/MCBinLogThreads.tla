--------------------------- MODULE MCBinLogThreads ---------------------------
(***************************************************************************)
(* BinLogThreads for TLC: calls of one or two entries.                     *)
(***************************************************************************)
EXTENDS BinLogThreads

CONSTANTS w1, w2

Batches == {1, 2}
=============================================================================
