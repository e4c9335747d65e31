---------------------------- MODULE MCAIRuntime ----------------------------
(***************************************************************************)
(* Model values for the runs of module AIRuntime.  The executions of the   *)
(* task are interchangeable; runs of a safety property use it.             *)
(***************************************************************************)
EXTENDS AIRuntime, TLC

CONSTANTS w1, w2

OneWorker == {w1}
TwoWorkers == {w1, w2}
None == {}

WorkerSymmetry == Permutations(TwoWorkers)
=============================================================================
