--------------------------- MODULE MCSlotBooking ---------------------------
(* An instance of SlotBooking for TLC.                                      *)
EXTENDS SlotBooking, TLC

CONSTANTS s1, s2, here, there, today, tomorrow

Time(s, from, to) ==
  [stylist |-> s, branch |-> here, day |-> today, start |-> from, end |-> to]
Later(i) == [i EXCEPT !.day = tomorrow]
Elsewhere(i) == [i EXCEPT !.branch = there]

\* One long service, a short one in its second half, the same short one with the
\* other stylist, two services in a row with both stylists, two in a row of which the
\* second is on another day or at another branch, and those second ones alone.
AllCarts ==
  LET morning == Time(s1, 0, 1)
      noon    == Time(s1, 1, 2)
  IN  {<<Time(s1, 0, 2)>>, <<noon>>, <<Time(s2, 1, 2)>>, <<morning, Time(s2, 1, 2)>>,
       <<morning, Later(noon)>>, <<Later(noon)>>,
       <<morning, Elsewhere(noon)>>, <<Elsewhere(noon)>>}
Halves == {Time(s1, 1, 2)}

Interchangeable == Permutations(Bookings) \cup Permutations(Requests)
=============================================================================
