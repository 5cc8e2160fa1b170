------------------------- MODULE MCBookingReports -------------------------
(* The wallet instance of BookingPayment, with the reports and lists over  *)
(* its bookings.                                                           *)
EXTENDS BookingReports, TLC

WalletOps == {"cancel", "status", "reschedule", "applyCoupon", "removeCoupon",
              "payWithWallet", "payRemainingWithWallet"}

Symmetry == Permutations(Requests) \cup Permutations(Orders)
=============================================================================
