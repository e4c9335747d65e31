----------------------------- MODULE MCBooking -----------------------------
(***************************************************************************)
(* Model values for the runs of module Booking.  Staff, contacts and keys  *)
(* are interchangeable, and so are the executions of the reminder task.    *)
(***************************************************************************)
EXTENDS Booking, TLC

CONSTANTS p1, p2, c1, c2, k1, k2, w1, w2

OneStaff == {p1}
TwoStaff == {p1, p2}
OneContact == {c1}
TwoContacts == {c1, c2}
OneKey == {k1}
TwoKeys == {k1, k2}
OneWorker == {w1}
TwoWorkers == {w1, w2}
None == {}

StaffAndKeys == Permutations(TwoStaff) \cup Permutations(TwoKeys)
KeysAndWorkers == Permutations(TwoKeys) \cup Permutations(TwoWorkers)
=============================================================================
