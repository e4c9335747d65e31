----------------------------- MODULE MCBilling -----------------------------
(***************************************************************************)
(* Model values for the runs of module Billing.  Staff keys are            *)
(* interchangeable, and so are workers.                                    *)
(***************************************************************************)
EXTENDS Billing, TLC

CONSTANTS k1, k2, k3, w1, w2

OneKey == {k1}
TwoKeys == {k1, k2}
ThreeKeys == {k1, k2, k3}
OneWorker == {w1}
TwoWorkers == {w1, w2}

KeySymmetry == Permutations(ThreeKeys)
WorkerSymmetry == Permutations(TwoWorkers)
=============================================================================
