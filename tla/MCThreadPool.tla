---------------------------- MODULE MCThreadPool ----------------------------
(***************************************************************************)
(* Values of the constants of ThreadPool for TLC.                          *)
(***************************************************************************)
EXTENDS ThreadPool, TLC

CONSTANTS w1, w2, w3, t1, t2

\* Delays: due at once, and later than a task may take.
Delays == {0, 1}
=============================================================================
