------------------------------ MODULE EscrowBook ------------------------------
(***************************************************************************)
(* What the escrow promises, without requests, cron runs or wallets: the   *)
(* money of a booking is put aside once, with one amount; it is released   *)
(* at most once, for good; and only after the stylist has been paid.       *)
(***************************************************************************)
EXTENDS Naturals

CONSTANTS Bookings, Amounts

VARIABLES
  entry,   \* per booking, the state of its escrow entry and the amount
  paidOut  \* bookings whose escrowed money has reached the stylist's wallet

bookVars == <<entry, paidOut>>

NoEntry == [status |-> "NONE", amount |-> 0]

BookInit ==
  /\ entry = [b \in Bookings |-> NoEntry]
  /\ paidOut = {}

PutAside(b, a) ==
  /\ entry[b] = NoEntry
  /\ entry' = [entry EXCEPT ![b] = [status |-> "HELD", amount |-> a]]
  /\ UNCHANGED paidOut

PayOut(b) ==
  /\ entry[b].status = "HELD"
  /\ paidOut' = paidOut \cup {b}
  /\ UNCHANGED entry

Release(b) ==
  /\ entry[b].status = "HELD" /\ b \in paidOut
  /\ entry' = [entry EXCEPT ![b] = [status |-> "RELEASED", amount |-> entry[b].amount]]
  /\ UNCHANGED paidOut

BookNext ==
  \E b \in Bookings :
    \/ \E a \in Amounts : PutAside(b, a)
    \/ PayOut(b)
    \/ Release(b)

BookSpec == BookInit /\ [][BookNext]_bookVars
=============================================================================
