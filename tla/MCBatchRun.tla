---------------------------- MODULE MCBatchRun -----------------------------
(* Small instances of the batch run for TLC. *)
EXTENDS BatchRun

CONSTANTS w1, c1, c2

NoStray == {}
=============================================================================
