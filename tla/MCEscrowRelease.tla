-------------------------- MODULE MCEscrowRelease --------------------------
(* Instances of EscrowRelease for TLC.                                      *)
EXTENDS EscrowRelease, TLC

CONSTANTS b1, b2, s1

\* Two bookings of one stylist, whose wallet both releases race to create.
TwoOfOne == (b1 :> s1) @@ (b2 :> s1)
=============================================================================
