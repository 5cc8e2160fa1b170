----------------------------- MODULE MCAfterCare -----------------------------
(* An instance of AfterCare for TLC.                                        *)
EXTENDS AfterCare, TLC

CONSTANTS b1, b2, p1, s1, v1, v2

\* Two appointments of two people, of different services.
TwoOfOnePair == b1 :> p1 @@ b2 :> p1
OneStylist == b1 :> s1 @@ b2 :> s1
TwoServices == b1 :> v1 @@ b2 :> v2
=============================================================================
