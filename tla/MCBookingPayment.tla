------------------------- MODULE MCBookingPayment -------------------------
(* Instances of BookingPayment for TLC.                                     *)
EXTENDS BookingPayment, TLC

AllOps == OpNames \ {"none"}

Symmetry == Permutations(Requests) \cup Permutations(Orders)
=============================================================================
