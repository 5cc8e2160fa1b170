--------------------------- MODULE BookingPayment ---------------------------
(***************************************************************************)
(* The money path of a booking: booking documents, Razorpay and wallet     *)
(* payments, the customer's wallet, the coupon counter, and the escrow     *)
(* entry a booking may get.                                                *)
(*                                                                         *)
(* The back end is one Node process over MongoDB.  A handler runs without  *)
(* interruption from one "await" to the next; every awaited call is one    *)
(* read or one write of a single document, which MongoDB makes atomic, and *)
(* no handler opens a transaction.  So a request in progress is a program  *)
(* counter pc[r] (the next awaited call) and the local data arg[r] that    *)
(* the handler carries across it - above all snap, the booking as it was   *)
(* when the handler read it.  One action is one awaited call with the      *)
(* straight-line code that follows it.                                     *)
(***************************************************************************)
EXTENDS Integers, FiniteSets, FiniteSetsExt

CONSTANTS
  Bookings,        \* booking ids
  Orders,          \* ids of payment documents (Razorpay orders and wallet payments)
  Requests,        \* slots for HTTP requests being served at the same time
  CronJobs,        \* slots for runs of the cleanup cron being served at the same time
  NoBooking,       \* arg[r].b of a slot that serves nothing
  NoOrder,         \* arg[r].o of a request that concerns no payment document
  NoEscrow,        \* escrow[b] of a booking without an escrow document
  Price,           \* total price of a booking
  Discount,        \* what the coupon takes off
  OpeningBalance,  \* balance of the customer's wallet at the start
  MaxUsage,        \* the coupon's maxUsage
  Ops,             \* the operations clients call in this instance
  StatusTargets,   \* the statuses staff ask for in this instance
  MaxRequests,     \* bound: requests accepted in one behaviour
  MaxFaults        \* bound: handlers cut short in one behaviour

ASSUME AmountsAssumption ==
  /\ Price \in Nat /\ Discount \in Nat
  /\ OpeningBalance \in Nat
ASSUME BoundsAssumption ==
  MaxUsage \in Nat /\ MaxRequests \in Nat /\ MaxFaults \in Nat
ASSUME IdsAssumption ==
  NoBooking \notin Bookings /\ NoOrder \notin Orders /\ NoEscrow \notin Int

\* The ids of payment documents are ObjectIds, of twelve bytes.
ASSUME OrdersAssumption == IsFiniteSet(Orders)


BookingStatus ==
  {"PENDING_PAYMENT", "CONFIRMED", "COMPLETED", "NO_SHOW",
   "CANCELLED", "FAILED", "BLOCKED", "SPECIAL"}
PaymentStatus == {"PENDING", "ADVANCE_PAID", "PAID", "REFUNDED", "FAILED"}
Settled == {"ADVANCE_PAID", "PAID", "REFUNDED"}

ASSUME TargetsAssumption == StatusTargets \subseteq BookingStatus

\* Hours left before the appointment, as far as the handlers tell them apart:
\* at least 24, at least 2, fewer.
Leads == {"day", "hours", "imminent"}

VARIABLES
  booking,     \* the booking collection
  payment,     \* the payment collection
  balance,     \* balance field of the customer's wallet document
  ledger,      \* per booking, the sums of its CREDIT and DEBIT transaction documents
  couponUsed,  \* usedCount of the coupon
  rooms,       \* bookings whose chat room was opened
  escrow,      \* per booking, the amount of its escrow document
  windowOver,  \* paymentWindowExpiresAt lies in the past
  lead,        \* time left before the appointment
  pc, arg,     \* requests in progress
  todo,        \* per cleanup run, the listed bookings it has not written yet
  begun, faults   \* how much of the bounds is used up

db    == <<booking, payment, balance, ledger, couponUsed, rooms, escrow>>
clock == <<windowOver, lead>>
local == <<pc, arg>>
vars  == <<db, clock, local, todo, begun, faults>>

BookingRecord ==
  [status : BookingStatus \cup {"ABSENT"}, pay : PaymentStatus,
   coupon : BOOLEAN, moved : Nat]
PaymentRecord ==
  [state : {"NONE", "PENDING", "COMPLETED"}, b : Bookings \cup {NoBooking}, amount : Int]
Labels ==
  {"idle", "credit", "creditTx", "cancelWrite", "statusWrite", "moveWrite",
   "couponCheck", "couponWrite", "orderInsert", "complete", "reread",
   "debitRead", "debit", "debitTx", "paymentInsert",
   "couponCount", "roomCreate", "payWrite", "holdFind", "hold"}
OpNames ==
  {"none", "cancel", "status", "reschedule", "applyCoupon", "removeCoupon",
   "createOrder", "createRemainingOrder", "verify",
   "payWithWallet", "payRemainingWithWallet"}
LocalData ==
  [op : OpNames, b : Bookings \cup {NoBooking}, o : Orders \cup {NoOrder},
   snap : BookingRecord, to : BookingStatus]

TypeOK ==
  /\ booking \in [Bookings -> BookingRecord]
  /\ payment \in [Orders -> PaymentRecord]
  /\ balance \in Int
  /\ ledger \in [Bookings -> [credit : Int, debit : Int]]
  /\ couponUsed \in Nat
  /\ rooms \subseteq Bookings
  /\ escrow \in [Bookings -> Int \cup {NoEscrow}]
  /\ windowOver \in [Bookings -> BOOLEAN]
  /\ lead \in [Bookings -> Leads]
  /\ pc \in [Requests -> Labels]
  /\ arg \in [Requests -> LocalData]
  /\ todo \in [CronJobs -> SUBSET Bookings]
  /\ begun \in Nat /\ faults \in Nat

NoBookingRecord == [status |-> "ABSENT", pay |-> "PENDING", coupon |-> FALSE, moved |-> 0]
NoPayment == [state |-> "NONE", b |-> NoBooking, amount |-> 0]
NoArg == [op |-> "none", b |-> NoBooking, o |-> NoOrder,
          snap |-> NoBookingRecord, to |-> "PENDING_PAYMENT"]

Init ==
  /\ booking = [b \in Bookings |-> NoBookingRecord]
  /\ payment = [o \in Orders |-> NoPayment]
  /\ balance = OpeningBalance
  /\ ledger = [b \in Bookings |-> [credit |-> 0, debit |-> 0]]
  /\ couponUsed = 0
  /\ rooms = {}
  /\ escrow = [b \in Bookings |-> NoEscrow]
  /\ windowOver = [b \in Bookings |-> FALSE]
  /\ lead \in [Bookings -> Leads]
  /\ pc = [r \in Requests |-> "idle"]
  /\ arg = [r \in Requests |-> NoArg]
  /\ todo = [j \in CronJobs |-> {}]
  /\ begun = 0 /\ faults = 0

-----------------------------------------------------------------------------
(* Faulty variants of definitions below, named after the slip they show.    *)
(* The specification does not use them: each one, put in the place of its   *)
(* original, must make TLC find a property of this module violated.         *)

PayOnCancelAlwaysRefunded(snap) == "REFUNDED"
PayOnCancelUnchanged(snap) == snap.pay
TransitionAllowedUnchecked(bk, to, role) ==
  role = "STYLIST" => to \in {"NO_SHOW", "COMPLETED", "CANCELLED"}
CouponEditableUntilPaid(bk) == bk.pay # "PAID"
VerifiableAgain(o) == payment[o].state # "NONE"
IndexMissing(b) == FALSE
DueAlwaysAdvance(bk) == (IF bk.coupon THEN Price - Discount ELSE Price) \div 5
ReschedulableAgain(bk) ==
  bk.status = "CONFIRMED" /\ bk.pay = "ADVANCE_PAID" /\ bk.moved <= 1
CouponUsableOnceMore == couponUsed <= MaxUsage
DebitableAnyAmount(amount) == balance >= amount
CouponCountDown(r) ==
  /\ pc[r] = "couponCount"
  /\ couponUsed' = couponUsed - 1
  /\ pc' = [pc EXCEPT ![r] = "roomCreate"] /\ UNCHANGED arg
  /\ UNCHANGED <<booking, payment, balance, ledger, rooms, escrow,
                 clock, todo, begun, faults>>
ExpireListTooEarly(j) ==
  /\ todo[j] = {}
  /\ todo' = [todo EXCEPT ![j] =
       {b \in Bookings : booking[b].status = "PENDING_PAYMENT"
                           /\ booking[b].pay = "PENDING" /\ ~windowOver[b]}]
  /\ UNCHANGED <<db, clock, local, begun, faults>>

-----------------------------------------------------------------------------
(* Amounts.  The coupon, the payable and the advance amount of a booking    *)
(* are written by the same updates, so the flag determines the amounts.     *)

PayableAmount(bk) == IF bk.coupon THEN (IF Price > Discount THEN Price - Discount ELSE 0)
                                  ELSE Price

\* Math.ceil(payableAmount * 0.2)
AdvanceAmount(bk) == (PayableAmount(bk) + 4) \div 5

\* What the next payment of the booking has to bring in.
Due(bk) == IF bk.pay = "ADVANCE_PAID" THEN PayableAmount(bk) - AdvanceAmount(bk)
                                      ELSE AdvanceAmount(bk)

\* The first payment of a booking that still waits for it confirms it.
Confirms(bk) == bk.pay = "PENDING" /\ bk.status = "PENDING_PAYMENT"

NewPaymentStatus(bk) == IF bk.pay = "ADVANCE_PAID" THEN "PAID" ELSE "ADVANCE_PAID"

-----------------------------------------------------------------------------
(* Control of a request: accepted with its first read, moved on, answered.  *)

\* Bound: a request that will insert a payment document is accepted only while
\* ids are left for it and for the others in progress.
Inserting == {"createOrder", "createRemainingOrder", "payWithWallet", "payRemainingWithWallet"}
OrderLeft ==
  Cardinality({o \in Orders : payment[o].state = "NONE"})
    > Cardinality({r \in Requests : arg[r].op \in Inserting})

Accept(r, op, b, o, to, label) ==
  /\ pc[r] = "idle" /\ op \in Ops /\ begun < MaxRequests
  /\ op \in Inserting => OrderLeft
  /\ begun' = begun + 1
  /\ pc' = [pc EXCEPT ![r] = label]
  /\ arg' = [arg EXCEPT ![r] =
       [op |-> op, b |-> b, o |-> o, to |-> to,
        snap |-> IF op = "verify" THEN NoBookingRecord ELSE booking[b]]]

Goto(r, label) == pc' = [pc EXCEPT ![r] = label] /\ UNCHANGED arg

Answer(r) == pc' = [pc EXCEPT ![r] = "idle"] /\ arg' = [arg EXCEPT ![r] = NoArg]

Exists(b) == booking[b].status # "ABSENT"

-----------------------------------------------------------------------------
(* BookingService: create, cancel, change status, reschedule, coupons.      *)

CreateBooking(b) ==
  /\ ~Exists(b)
  /\ booking' = [booking EXCEPT ![b].status = "PENDING_PAYMENT"]
  /\ UNCHANGED <<payment, balance, ledger, couponUsed, rooms, escrow,
                 clock, local, todo, begun, faults>>

CancelBooking(r, b, role) ==
  /\ Exists(b)
  /\ role = "ADMIN" \/ lead[b] # "imminent"
  /\ Accept(r, "cancel", b, NoOrder, "CANCELLED",
            IF booking[b].pay = "ADVANCE_PAID" THEN "credit" ELSE "cancelWrite")
  /\ UNCHANGED <<db, clock, todo, faults>>

\* creditBalance refuses an amount of zero, and cancelBooking fails with it.
Credit(r) ==
  /\ pc[r] = "credit"
  /\ LET amount == AdvanceAmount(arg[r].snap)
     IN  IF amount <= 0
         THEN Answer(r) /\ UNCHANGED balance
         ELSE Goto(r, "creditTx") /\ balance' = balance + amount
  /\ UNCHANGED <<booking, payment, ledger, couponUsed, rooms, escrow,
                 clock, todo, begun, faults>>

CreditTx(r) ==
  /\ pc[r] = "creditTx"
  /\ ledger' = [ledger EXCEPT ![arg[r].b].credit = @ + AdvanceAmount(arg[r].snap)]
  /\ Goto(r, "cancelWrite")
  /\ UNCHANGED <<booking, payment, balance, couponUsed, rooms, escrow,
                 clock, todo, begun, faults>>

PayOnCancel(snap) == IF snap.pay = "ADVANCE_PAID" THEN "REFUNDED" ELSE snap.pay

\* The update names the document by _id only and writes back the payment
\* status computed from the snapshot.
CancelWrite(r) ==
  /\ pc[r] = "cancelWrite"
  /\ booking' = [booking EXCEPT
       ![arg[r].b].status = "CANCELLED", ![arg[r].b].pay = PayOnCancel(arg[r].snap)]
  /\ Answer(r)
  /\ UNCHANGED <<payment, balance, ledger, couponUsed, rooms, escrow,
                 clock, todo, begun, faults>>

\* BookingValidator.validateStatusTransition
TransitionAllowed(bk, to, role) ==
  /\ bk.status # "CANCELLED"
  /\ role = "STYLIST" => to \in {"NO_SHOW", "COMPLETED", "CANCELLED"}

UpdateBookingStatus(r, b, to, role) ==
  /\ Exists(b)
  /\ TransitionAllowed(booking[b], to, role)
  /\ Accept(r, "status", b, NoOrder, to,
            IF to = "NO_SHOW" /\ booking[b].pay = "ADVANCE_PAID"
            THEN "holdFind" ELSE "statusWrite")
  /\ UNCHANGED <<db, clock, todo, faults>>

StatusWrite(r) ==
  /\ pc[r] = "statusWrite"
  /\ booking' = [booking EXCEPT ![arg[r].b].status = arg[r].to]
  /\ Answer(r)
  /\ UNCHANGED <<payment, balance, ledger, couponUsed, rooms, escrow,
                 clock, todo, begun, faults>>

Reschedulable(bk) ==
  bk.status = "CONFIRMED" /\ bk.pay = "ADVANCE_PAID" /\ bk.moved < 1

RescheduleBooking(r, b) ==
  /\ Exists(b)
  /\ Reschedulable(booking[b]) /\ lead[b] = "day"
  /\ Accept(r, "reschedule", b, NoOrder, "CONFIRMED", "moveWrite")
  /\ UNCHANGED <<db, clock, todo, faults>>

\* The new appointment may be near or far; the count is the snapshot's plus one.
MoveWrite(r) ==
  /\ pc[r] = "moveWrite"
  /\ LET b == arg[r].b
     IN  /\ booking' = [booking EXCEPT ![b].moved = arg[r].snap.moved + 1]
         /\ \E l \in Leads : lead' = [lead EXCEPT ![b] = l]
  /\ Answer(r)
  /\ UNCHANGED <<payment, balance, ledger, couponUsed, rooms, escrow,
                 windowOver, todo, begun, faults>>

CouponEditable(bk) == bk.status = "PENDING_PAYMENT"

ApplyCoupon(r, b) ==
  /\ Exists(b)
  /\ CouponEditable(booking[b])
  /\ Accept(r, "applyCoupon", b, NoOrder, "PENDING_PAYMENT", "couponCheck")
  /\ UNCHANGED <<db, clock, todo, faults>>

\* CouponService.validateCoupon: the usage limit is read here, the use is
\* counted only when the booking is paid.
CouponUsable == couponUsed < MaxUsage

CouponCheck(r) ==
  /\ pc[r] = "couponCheck"
  /\ IF CouponUsable THEN Goto(r, "couponWrite") ELSE Answer(r)
  /\ UNCHANGED <<db, clock, todo, begun, faults>>

RemoveCoupon(r, b) ==
  /\ Exists(b)
  /\ CouponEditable(booking[b]) /\ booking[b].coupon
  /\ Accept(r, "removeCoupon", b, NoOrder, "PENDING_PAYMENT", "couponWrite")
  /\ UNCHANGED <<db, clock, todo, faults>>

CouponWrite(r) ==
  /\ pc[r] = "couponWrite"
  /\ booking' = [booking EXCEPT ![arg[r].b].coupon = (arg[r].op = "applyCoupon")]
  /\ Answer(r)
  /\ UNCHANGED <<payment, balance, ledger, couponUsed, rooms, escrow,
                 clock, todo, begun, faults>>

-----------------------------------------------------------------------------
(* PaymentService: Razorpay orders and their verification.                  *)

\* Razorpay refuses an order of nothing, and createOrder reports that.
CreateOrder(r, b) ==
  /\ Exists(b)
  /\ Due(booking[b]) > 0
  /\ Accept(r, "createOrder", b, NoOrder, "CONFIRMED", "orderInsert")
  /\ UNCHANGED <<db, clock, todo, faults>>

CreateRemainingOrder(r, b) ==
  /\ Exists(b)
  /\ booking[b].pay = "ADVANCE_PAID" /\ Due(booking[b]) > 0
  /\ Accept(r, "createRemainingOrder", b, NoOrder, "CONFIRMED", "orderInsert")
  /\ UNCHANGED <<db, clock, todo, faults>>

OrderInsert(r) ==
  /\ pc[r] = "orderInsert"
  /\ \E o \in Orders :
       /\ payment[o].state = "NONE"
       /\ payment' = [payment EXCEPT ![o] =
            [state |-> "PENDING", b |-> arg[r].b, amount |-> Due(arg[r].snap)]]
  /\ Answer(r)
  /\ UNCHANGED <<booking, balance, ledger, couponUsed, rooms, escrow,
                 clock, todo, begun, faults>>

\* A payment that is COMPLETED already is answered with no change.
Verifiable(o) == payment[o].state = "PENDING"

\* Called with a valid signature: the customer has paid the order at Razorpay.
VerifyPayment(r, o) ==
  /\ Verifiable(o)
  /\ Accept(r, "verify", payment[o].b, o, "CONFIRMED", "complete")
  /\ UNCHANGED <<db, clock, todo, faults>>

Complete(r) ==
  /\ pc[r] = "complete"
  /\ payment' = [payment EXCEPT ![arg[r].o].state = "COMPLETED"]
  /\ Goto(r, "reread")
  /\ UNCHANGED <<booking, balance, ledger, couponUsed, rooms, escrow,
                 clock, todo, begun, faults>>

\* Where a handler goes once the payment document is there.
AfterPayment(bk) ==
  IF Confirms(bk) THEN (IF bk.coupon THEN "couponCount" ELSE "roomCreate")
                  ELSE "payWrite"

Reread(r) ==
  /\ pc[r] = "reread"
  /\ LET bk == booking[arg[r].b]
     IN  /\ arg' = [arg EXCEPT ![r].snap = bk]
         /\ pc' = [pc EXCEPT ![r] = AfterPayment(bk)]
  /\ UNCHANGED <<db, clock, todo, begun, faults>>

CouponCount(r) ==
  /\ pc[r] = "couponCount"
  /\ couponUsed' = couponUsed + 1
  /\ Goto(r, "roomCreate")
  /\ UNCHANGED <<booking, payment, balance, ledger, rooms, escrow,
                 clock, todo, begun, faults>>

RoomCreate(r) ==
  /\ pc[r] = "roomCreate"
  /\ rooms' = rooms \cup {arg[r].b}
  /\ Goto(r, "payWrite")
  /\ UNCHANGED <<booking, payment, balance, ledger, couponUsed, escrow,
                 clock, todo, begun, faults>>

PayWrite(r) ==
  /\ pc[r] = "payWrite"
  /\ LET snap == arg[r].snap
     IN  /\ booking' = [booking EXCEPT
              ![arg[r].b].pay = NewPaymentStatus(snap),
              ![arg[r].b].status = IF Confirms(snap) THEN "CONFIRMED" ELSE @]
         /\ IF snap.pay = "ADVANCE_PAID" THEN Goto(r, "holdFind") ELSE Answer(r)
  /\ UNCHANGED <<payment, balance, ledger, couponUsed, rooms, escrow,
                 clock, todo, begun, faults>>

-----------------------------------------------------------------------------
(* PaymentService: payments from the wallet.                                *)

PayWithWallet(r, b) ==
  /\ Exists(b)
  /\ booking[b].pay # "PAID" /\ Due(booking[b]) > 0
  /\ Accept(r, "payWithWallet", b, NoOrder, "CONFIRMED", "debitRead")
  /\ UNCHANGED <<db, clock, todo, faults>>

PayRemainingWithWallet(r, b) ==
  /\ Exists(b)
  /\ booking[b].pay = "ADVANCE_PAID"
  /\ Accept(r, "payRemainingWithWallet", b, NoOrder, "CONFIRMED", "debitRead")
  /\ UNCHANGED <<db, clock, todo, faults>>

\* WalletService.debitBalance: the check reads the wallet ...
Debitable(amount) == amount > 0 /\ balance >= amount

DebitRead(r) ==
  /\ pc[r] = "debitRead"
  /\ IF Debitable(Due(arg[r].snap)) THEN Goto(r, "debit") ELSE Answer(r)
  /\ UNCHANGED <<db, clock, todo, begun, faults>>

\* ... and the $inc that follows has no condition on it.
Debit(r) ==
  /\ pc[r] = "debit"
  /\ balance' = balance - Due(arg[r].snap)
  /\ Goto(r, "debitTx")
  /\ UNCHANGED <<booking, payment, ledger, couponUsed, rooms, escrow,
                 clock, todo, begun, faults>>

DebitTx(r) ==
  /\ pc[r] = "debitTx"
  /\ ledger' = [ledger EXCEPT ![arg[r].b].debit = @ + Due(arg[r].snap)]
  /\ Goto(r, "paymentInsert")
  /\ UNCHANGED <<booking, payment, balance, couponUsed, rooms, escrow,
                 clock, todo, begun, faults>>

PaymentInsert(r) ==
  /\ pc[r] = "paymentInsert"
  /\ \E o \in Orders :
       /\ payment[o].state = "NONE"
       /\ payment' = [payment EXCEPT ![o] =
            [state |-> "COMPLETED", b |-> arg[r].b, amount |-> Due(arg[r].snap)]]
  /\ Goto(r, AfterPayment(arg[r].snap))
  /\ UNCHANGED <<booking, balance, ledger, couponUsed, rooms, escrow,
                 clock, todo, begun, faults>>

-----------------------------------------------------------------------------
(* EscrowService.holdAmount: look for the booking's document, then insert   *)
(* one; the unique index on bookingId refuses a second insert.  Both        *)
(* refusals are exceptions that end the calling handler.                    *)

HoldAmount(a) == IF a.op = "status" THEN AdvanceAmount(a.snap) ELSE PayableAmount(a.snap)

HoldFind(r) ==
  /\ pc[r] = "holdFind"
  /\ IF escrow[arg[r].b] # NoEscrow THEN Answer(r) ELSE Goto(r, "hold")
  /\ UNCHANGED <<db, clock, todo, begun, faults>>

\* The unique index on bookingId.
IndexRefuses(b) == escrow[b] # NoEscrow

Hold(r) ==
  /\ pc[r] = "hold"
  /\ IF IndexRefuses(arg[r].b)
     THEN Answer(r) /\ UNCHANGED escrow
     ELSE /\ escrow' = [escrow EXCEPT ![arg[r].b] = HoldAmount(arg[r])]
          /\ IF arg[r].op = "status" THEN Goto(r, "statusWrite") ELSE Answer(r)
  /\ UNCHANGED <<booking, payment, balance, ledger, couponUsed, rooms,
                 clock, todo, begun, faults>>

-----------------------------------------------------------------------------
(* The cleanup cron: list the expired bookings, then write them one by one. *)

Expired(b) ==
  /\ booking[b].status = "PENDING_PAYMENT" /\ booking[b].pay = "PENDING"
  /\ windowOver[b]

ExpireList(j) ==
  /\ todo[j] = {}
  /\ todo' = [todo EXCEPT ![j] = {b \in Bookings : Expired(b)}]
  /\ UNCHANGED <<db, clock, local, begun, faults>>

ExpireWrite(j, b) ==
  /\ b \in todo[j]
  /\ booking' = [booking EXCEPT ![b].status = "FAILED", ![b].pay = "FAILED"]
  /\ todo' = [todo EXCEPT ![j] = @ \ {b}]
  /\ UNCHANGED <<payment, balance, ledger, couponUsed, rooms, escrow,
                 clock, local, begun, faults>>

-----------------------------------------------------------------------------
(* Time passes; an awaited call rejects or the process dies.                *)

WindowExpires(b) ==
  /\ Exists(b) /\ ~windowOver[b]
  /\ windowOver' = [windowOver EXCEPT ![b] = TRUE]
  /\ UNCHANGED <<db, lead, local, todo, begun, faults>>

AppointmentNears(b) ==
  /\ Exists(b) /\ lead[b] # "imminent"
  /\ lead' = [lead EXCEPT ![b] = IF @ = "day" THEN "hours" ELSE "imminent"]
  /\ UNCHANGED <<db, windowOver, local, todo, begun, faults>>

\* A handler ends between two awaited calls; what it wrote stays.  A crash of
\* the process is this for every request and cleanup run in progress.
RequestFails(r) ==
  /\ pc[r] # "idle" /\ faults < MaxFaults
  /\ faults' = faults + 1
  /\ Answer(r)
  /\ UNCHANGED <<db, clock, todo, begun>>

CronFails(j) ==
  /\ todo[j] # {} /\ faults < MaxFaults
  /\ faults' = faults + 1
  /\ todo' = [todo EXCEPT ![j] = {}]
  /\ UNCHANGED <<db, clock, local, begun>>

-----------------------------------------------------------------------------
\* Who may ask is settled by the route; who asked is settled by the services.
ChangeCalls(r, b) ==
  \/ RescheduleBooking(r, b)
  \/ \E to \in StatusTargets, role \in {"STYLIST", "ADMIN"} :
       UpdateBookingStatus(r, b, to, role)

CouponCalls(r, b) == ApplyCoupon(r, b) \/ RemoveCoupon(r, b)

PaymentCalls(r, b) ==
  \/ CreateOrder(r, b) \/ CreateRemainingOrder(r, b)
  \/ PayWithWallet(r, b) \/ PayRemainingWithWallet(r, b)

Begin(r, b) ==
  \/ \E role \in {"USER", "STYLIST", "ADMIN"} : CancelBooking(r, b, role)
  \/ ChangeCalls(r, b) \/ CouponCalls(r, b) \/ PaymentCalls(r, b)

Continue(r) ==
  \/ Credit(r) \/ CreditTx(r) \/ CancelWrite(r) \/ StatusWrite(r) \/ MoveWrite(r)
  \/ CouponCheck(r) \/ CouponWrite(r)
  \/ OrderInsert(r) \/ Complete(r) \/ Reread(r)
  \/ DebitRead(r) \/ Debit(r) \/ DebitTx(r) \/ PaymentInsert(r)
  \/ CouponCount(r) \/ RoomCreate(r) \/ PayWrite(r)
  \/ HoldFind(r) \/ Hold(r)

Next ==
  \/ \E b \in Bookings : CreateBooking(b) \/ WindowExpires(b) \/ AppointmentNears(b)
  \/ \E r \in Requests :
       \/ \E b \in Bookings : Begin(r, b)
       \/ \E o \in Orders : VerifyPayment(r, o)
       \/ Continue(r)
       \/ RequestFails(r)
  \/ \E j \in CronJobs :
       ExpireList(j) \/ CronFails(j) \/ \E b \in Bookings : ExpireWrite(j, b)

Spec == Init /\ [][Next]_vars

\* Node resumes every handler whose awaited call has come back, and the cron
\* runs again every five minutes; nothing obliges clients to call.
FairSpec ==
  /\ Spec
  /\ \A r \in Requests : WF_vars(Continue(r))
  /\ \A j \in CronJobs : WF_vars(ExpireList(j))
  /\ \A j \in CronJobs : WF_vars(\E b \in Bookings : ExpireWrite(j, b))

\* The same system with handlers that never overlap: a request or a cleanup run
\* starts only when no other is in progress.  It may still be cut short.
OneAtATime ==
  /\ \A r, s \in Requests : pc[r] # "idle" /\ pc[s] # "idle" => r = s
  /\ \A i, j \in CronJobs : todo[i] # {} /\ todo[j] # {} => i = j
  /\ \A r \in Requests, j \in CronJobs : pc[r] = "idle" \/ todo[j] = {}

SerialSpec == Init /\ [][Next /\ OneAtATime']_vars

-----------------------------------------------------------------------------
(* Properties.                                                              *)

HasPaid(b) == \E o \in Orders : payment[o].state = "COMPLETED" /\ payment[o].b = b

Completed(b) == {o \in Orders : payment[o].state = "COMPLETED" /\ payment[o].b = b}

Paid == [o \in Orders |-> payment[o].amount]
Collected(b) == SumFunctionOnSet(Paid, Completed(b))

\* Nothing is settled unpaid: whatever requests overlap and wherever they
\* fail, a booking is marked paid or refunded, money goes into escrow for its
\* stylist, or a refund is entered in the ledger only if some payment of that
\* very booking was completed.
NothingSettledUnpaid ==
  \A b \in Bookings :
    \/ booking[b].pay \in Settled
    \/ escrow[b] # NoEscrow
    \/ ledger[b].credit > 0
    => HasPaid(b)

\* Escrowed money is not rewritten: once a booking has an escrow document no
\* later request replaces it, although two requests may both have looked
\* before either inserted (holdAmount, and the unique index behind it).
EscrowUntouched ==
  [][\A b \in Bookings : escrow[b] # NoEscrow => escrow'[b] = escrow[b]]_vars

\* A cancelled booking stays cancelled (BookingValidator refuses every later
\* change of its status).
CancelledIsFinal ==
  [][\A b \in Bookings :
       booking[b].status = "CANCELLED" => booking'[b].status = "CANCELLED"]_vars

\* A booking counts as paid in full only after two payments of it went
\* through, the advance and the remainder: one payment is not applied twice.
PaidByTwoPayments ==
  \A b \in Bookings : booking[b].pay = "PAID" => Cardinality(Completed(b)) >= 2

\* A booking counts as paid in full only when the completed payments add up
\* to what is payable.
PaidInFull ==
  \A b \in Bookings : booking[b].pay = "PAID" => Collected(b) >= PayableAmount(booking[b])

\* The price is fixed once the booking is paid for: a coupon changes the amounts of
\* one that waits for its payment, and none of whose payments has been completed.
\* Two exceptions: staff set a booking back to PENDING_PAYMENT that says it was paid
\* (updateBookingStatus asks nothing about that), and a handler that was cut short
\* completed a payment and did not get to the booking (applyCoupon, removeCoupon).
PriceFixedOncePaid ==
  [][\A b \in Bookings : booking'[b].coupon # booking[b].coupon =>
       /\ booking[b].status = "PENDING_PAYMENT"
       /\ HasPaid(b) => booking[b].pay \in {"ADVANCE_PAID", "PAID"} \/ faults > 0]_vars

\* An appointment is put off once: only a confirmed booking that was never moved
\* gets a later time, and it counts as moved from then on (rescheduleBooking
\* limits the count; two calls that overlap both pass, one by one they do not).
PutOff(b) ==
  <<lead[b], lead'[b]>> \in {<<"imminent", "hours">>, <<"imminent", "day">>, <<"hours", "day">>}

PutOffOnce ==
  [][\A b \in Bookings :
       PutOff(b) => /\ booking[b].status = "CONFIRMED"
                    /\ booking[b].moved = 0 /\ booking'[b].moved = 1]_vars

\* A booking gets the coupon only while the coupon has uses left: the limit that
\* validateCoupon reads still stands when applyCoupon writes.
CouponNeedsUses ==
  [][\A b \in Bookings :
       booking'[b].coupon /\ ~booking[b].coupon => couponUsed < MaxUsage]_vars

\* Each use of the coupon that is counted belongs to a completed payment of its
\* own: a payment verified again after its handler was cut short counts no
\* second use (verifyPayment, handlePostPayment).
UsesWerePaid == couponUsed <= Cardinality({o \in Orders : payment[o].state = "COMPLETED"})

\* Nothing is never paid: a coupon that takes off the whole price leaves nothing
\* due, and then no payment is entered, neither by an order nor from the wallet.
PaymentsBringMoney == \A o \in Orders : payment[o].state # "NONE" => payment[o].amount > 0

\* No money is made: what a booking gave back to the customer and what it put
\* aside for the stylist never exceed what the customer paid for it.
MoneyConserved ==
  \A b \in Bookings :
    ledger[b].credit + (IF escrow[b] = NoEscrow THEN 0 ELSE escrow[b]) <= Collected(b)

\* A booking whose payment window ran out does not hold its slot for ever: it
\* is paid or the cleanup cron fails it.
ExpiredIsFreed == \A b \in Bookings : Expired(b) ~> ~Expired(b)
=============================================================================
