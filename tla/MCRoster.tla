------------------------------- MODULE MCRoster -------------------------------
(* Instances of Roster for TLC.                                             *)
EXTENDS Roster, TLC

Time(from, to) == [from |-> from, to |-> to]

\* A day of two shifts, one off, and one no model accepts.
AllHours ==
  {[working |-> TRUE, shifts |-> {Time(0, 3), Time(3, 4)}],
   [working |-> FALSE, shifts |-> {}],
   [working |-> TRUE, shifts |-> {}]}
Afternoon == {Time(1, 3)}
Middle == {Time(1, 2)}
Lunches == {{}, {Time(2, 3)}}

Interchangeable == Permutations(Breaks)
=============================================================================
