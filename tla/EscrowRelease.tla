---------------------------- MODULE EscrowRelease ----------------------------
(***************************************************************************)
(* Escrow documents from the hold to the release, and the stylists'        *)
(* wallets the money is released to.                                       *)
(*                                                                         *)
(* holdAmount is called by requests; releaseDailyEscrow is called by a     *)
(* cron job every two minutes, without waiting for the run before.  A run  *)
(* lists the documents that are due and then serves all of them at the     *)
(* same time (Promise.allSettled), each in a task of three or four awaited *)
(* calls.  One action is one awaited call with the code that follows it.   *)
(***************************************************************************)
EXTENDS Integers, FiniteSets, FiniteSetsExt

CONSTANTS
  Bookings,    \* booking ids; an escrow document carries the id of its booking
  Stylists,    \* users who are stylists; a stylist wallet carries such an id
  StylistOf,   \* the stylist of a booking
  Amounts,     \* the amounts callers ask to hold
  Runs,        \* slots for runs of the release job in progress at the same time
  MaxDay,      \* bound: calendar days in one behaviour
  MaxFaults    \* bound: tasks and runs cut short in one behaviour

ASSUME StylistOfAssumption == StylistOf \in [Bookings -> Stylists]
ASSUME AmountsAssumption == Amounts \subseteq Nat

\* Ids are ObjectIds, of twelve bytes; a process has finitely many runs in memory.
ASSUME FinitenessAssumption == IsFiniteSet(Bookings) /\ IsFiniteSet(Runs)

ASSUME BoundsAssumption == MaxDay \in Nat /\ MaxFaults \in Nat

VARIABLES
  escrow,    \* the escrow collection, at most one document per booking
  wallet,    \* the stylist wallet collection, at most one document per stylist
  pending,   \* calls of holdAmount that found nothing and are about to insert
  task,      \* per run and booking, the next awaited call of the task
  day,       \* today
  credited,  \* history: how often the escrow of a booking was added to a wallet
  faults     \* how much of the bound is used up

vars == <<escrow, wallet, pending, task, day, credited, faults>>

EscrowRecord ==
  [status : {"NONE", "HELD", "RELEASED"}, amount : Nat, releaseDate : Nat]
WalletRecord == [exists : BOOLEAN, withdrawable : Nat, total : Nat]
Hold == [b : Bookings, amount : Amounts]
TaskRecord == [at : {"none", "find", "create", "add", "mark"}, amount : Nat]

TypeOK ==
  /\ escrow \in [Bookings -> EscrowRecord]
  /\ wallet \in [Stylists -> WalletRecord]
  /\ pending \subseteq Hold
  /\ task \in [Runs -> [Bookings -> TaskRecord]]
  /\ day \in Nat
  /\ credited \in [Bookings -> Nat]
  /\ faults \in Nat

NoDocument == [status |-> "NONE", amount |-> 0, releaseDate |-> 0]
NoTask == [at |-> "none", amount |-> 0]

Init ==
  /\ escrow = [b \in Bookings |-> NoDocument]
  /\ wallet = [s \in Stylists |-> [exists |-> FALSE, withdrawable |-> 0, total |-> 0]]
  /\ pending = {}
  /\ task = [j \in Runs |-> [b \in Bookings |-> NoTask]]
  /\ day = 0
  /\ credited = [b \in Bookings |-> 0]
  /\ faults = 0

-----------------------------------------------------------------------------
(* Faulty variants of definitions below, named after the slip they show.    *)
(* The specification does not use them: each one, put in the place of its   *)
(* original, must make TLC find a property of this module violated.         *)

IncrementedByMinus(w, amount) == [w EXCEPT !.withdrawable = @ - amount, !.total = @ + amount]
IncrementedBySet(w, amount) == [w EXCEPT !.withdrawable = amount, !.total = @ + amount]
NextCallWithoutCredit(ready) == IF ready THEN "mark" ELSE "create"
DueStatusIgnored(b) == escrow[b].status # "NONE" /\ escrow[b].releaseDate <= day
DueTomorrow(b) == escrow[b].status = "HELD" /\ escrow[b].releaseDate < day

-----------------------------------------------------------------------------
(* EscrowService.holdAmount                                                 *)

HoldFind(b, amount) ==
  /\ escrow[b].status = "NONE"
  /\ pending' = pending \cup {[b |-> b, amount |-> amount]}
  /\ UNCHANGED <<escrow, wallet, task, day, credited, faults>>

\* The unique index on bookingId.
IndexRefuses(b) == escrow[b].status # "NONE"

HoldInsert(h) ==
  /\ h \in pending
  /\ pending' = pending \ {h}
  /\ IF IndexRefuses(h.b)
     THEN UNCHANGED escrow
     ELSE escrow' = [escrow EXCEPT ![h.b] =
            [status |-> "HELD", amount |-> h.amount, releaseDate |-> day]]
  /\ UNCHANGED <<wallet, task, day, credited, faults>>

-----------------------------------------------------------------------------
(* EscrowService.releaseDailyEscrow                                         *)

\* EscrowRepository.findHeldBeforeDate
Due(b) == escrow[b].status = "HELD" /\ escrow[b].releaseDate <= day

RunIdle(j) == \A b \in Bookings : task[j][b].at = "none"

\* A run starts by listing the due documents; each gets a task.
List(j) ==
  /\ RunIdle(j)
  /\ task' = [task EXCEPT ![j] =
       [b \in Bookings |->
          IF Due(b) THEN [at |-> "find", amount |-> escrow[b].amount] ELSE NoTask]]
  /\ UNCHANGED <<escrow, wallet, pending, day, credited, faults>>

Advance(j, b, label) == task' = [task EXCEPT ![j][b].at = label]

\* StylistWalletService.addEarnings: find the stylist's wallet, ...
NextCall(ready) == IF ready THEN "add" ELSE "create"

FindWallet(j, b) ==
  /\ task[j][b].at = "find"
  /\ Advance(j, b, NextCall(wallet[StylistOf[b]].exists))
  /\ UNCHANGED <<escrow, wallet, pending, day, credited, faults>>

\* ... create it when there is none - the unique index on stylistId refuses a
\* second one, which ends the task - ...
CreateWallet(j, b) ==
  /\ task[j][b].at = "create"
  /\ IF wallet[StylistOf[b]].exists
     THEN Advance(j, b, "none") /\ UNCHANGED wallet
     ELSE /\ wallet' = [wallet EXCEPT ![StylistOf[b]].exists = TRUE]
          /\ Advance(j, b, NextCall(TRUE))
  /\ UNCHANGED <<escrow, pending, day, credited, faults>>

\* ... and increment its balances.
Incremented(w, amount) == [w EXCEPT !.withdrawable = @ + amount, !.total = @ + amount]

AddEarnings(j, b) ==
  /\ task[j][b].at = "add"
  /\ wallet' = [wallet EXCEPT ![StylistOf[b]] = Incremented(@, task[j][b].amount)]
  /\ credited' = [credited EXCEPT ![b] = @ + 1]
  /\ Advance(j, b, "mark")
  /\ UNCHANGED <<escrow, pending, day, faults>>

\* EscrowRepository.updateStatus finds the document by id, whatever its status.
MarkReleased(j, b) ==
  /\ task[j][b].at = "mark"
  /\ escrow' = [escrow EXCEPT ![b].status = "RELEASED"]
  /\ Advance(j, b, "none")
  /\ UNCHANGED <<wallet, pending, day, credited, faults>>

-----------------------------------------------------------------------------
(* The rest: a stylist opens the wallet page, days pass, calls fail.        *)

\* StylistWalletService.getWallet creates a wallet that is missing.
GetWallet(s) ==
  /\ ~wallet[s].exists
  /\ wallet' = [wallet EXCEPT ![s].exists = TRUE]
  /\ UNCHANGED <<escrow, pending, task, day, credited, faults>>

NextDay ==
  /\ day < MaxDay
  /\ day' = day + 1
  /\ UNCHANGED <<escrow, wallet, pending, task, credited, faults>>

\* An awaited call of one task rejects; allSettled lets the others go on.
TaskFails(j, b) ==
  /\ task[j][b].at # "none" /\ faults < MaxFaults
  /\ faults' = faults + 1
  /\ Advance(j, b, "none")
  /\ UNCHANGED <<escrow, wallet, pending, day, credited>>

\* The process dies with everything it had in progress.
Crash ==
  /\ faults < MaxFaults
  /\ faults' = faults + 1
  /\ pending' = {}
  /\ task' = [j \in Runs |-> [b \in Bookings |-> NoTask]]
  /\ UNCHANGED <<escrow, wallet, day, credited>>

Step(j, b) == FindWallet(j, b) \/ CreateWallet(j, b) \/ AddEarnings(j, b) \/ MarkReleased(j, b)

Next ==
  \/ \E b \in Bookings, a \in Amounts : HoldFind(b, a)
  \/ \E h \in pending : HoldInsert(h)
  \/ \E j \in Runs : List(j)
  \/ \E j \in Runs, b \in Bookings : Step(j, b) \/ TaskFails(j, b)
  \/ \E s \in Stylists : GetWallet(s)
  \/ NextDay
  \/ Crash

Spec == Init /\ [][Next]_vars

\* node-cron starts a run every two minutes, and Node resumes a task when its
\* awaited call has come back.
FairSpec ==
  /\ Spec
  /\ \A j \in Runs : WF_vars(List(j))
  /\ \A j \in Runs, b \in Bookings : WF_vars(Step(j, b))

-----------------------------------------------------------------------------
(* Properties.                                                              *)

\* Money leaves escrow only towards its stylist: a released document was added
\* to the stylist's wallet at least once, whatever was cut short in between
\* (releaseDailyEscrow credits before it marks).
ReleasedWasCredited == \A b \in Bookings : escrow[b].status = "RELEASED" => credited[b] > 0

BookingsOf(s) == {b \in Bookings : StylistOf[b] = s}
Earned == [b \in Bookings |-> credited[b] * escrow[b].amount]

\* A stylist's wallet is the sum of the escrows credited to it: overlapping
\* tasks lose no increment (updateBalance).
EarningsAddUp ==
  \A s \in Stylists :
    /\ wallet[s].withdrawable = wallet[s].total
    /\ wallet[s].total = SumFunctionOnSet(Earned, BookingsOf(s))

\* An escrow is credited again only because runs overlapped or were cut short
\* between the credit and the mark: at most once per run in progress, and as often
\* again for every fault.
CreditsBounded ==
  \A b \in Bookings : credited[b] <= Cardinality(Runs) * (1 + faults)

\* Every amount held for a stylist is released in the end: a run that fails,
\* or that loses the race to create the wallet, leaves the document to the
\* next one.
HeldIsReleased ==
  \A b \in Bookings : escrow[b].status = "HELD" ~> escrow[b].status = "RELEASED"

\* The collection implements the abstract escrow book, in which the payment to
\* the stylist is one step and is ordered between the hold and the release.
Book == INSTANCE EscrowBook WITH
  entry <- [b \in Bookings |-> [status |-> escrow[b].status, amount |-> escrow[b].amount]],
  paidOut <- {b \in Bookings : credited[b] > 0}

ImplementsBook == Book!BookSpec
=============================================================================
