------------------------ MODULE BookingPayment_proofs ------------------------
(***************************************************************************)
(* Proofs about BookingPayment: its types, that nothing is settled unpaid, *)
(* that no payment brings nothing, that an escrow document is never        *)
(* rewritten; of requests served one at a time, that a cancellation is     *)
(* final, a price fixed once paid, an appointment moved at most once, that *)
(* a coupon is given while it has uses, that its uses are paid for and     *)
(* PAID takes two payments; and of those paid from the wallet, that no     *)
(* money is made and PAID is paid in full.                                 *)
(*                                                                         *)
(* Then about the figures and lists that BookingReports adds: the bars of  *)
(* every chart add up to the figures above it, for any finite set of       *)
(* bookings, and whoever turns the pages of a list, of any length, misses  *)
(* nothing, sees nothing twice and, on a public list, nothing switched     *)
(* off.                                                                    *)
(***************************************************************************)
EXTENDS BookingReports, Sums, SequenceTheorems, TLAPS

-----------------------------------------------------------------------------
(* Lemmas about the operators the actions are built from.                   *)

\* The amounts of a booking are natural numbers and the advance is a part of
\* what is payable, whatever the price and the discount (createBooking,
\* applyCoupon and removeCoupon compute them).
LEMMA Amounts ==
  ASSUME NEW bk \in BookingRecord
  PROVE  /\ PayableAmount(bk) \in Nat
         /\ AdvanceAmount(bk) \in Nat
         /\ AdvanceAmount(bk) <= PayableAmount(bk)
         /\ Due(bk) \in Nat
<1>1. PayableAmount(bk) \in Nat
  BY AmountsAssumption DEF PayableAmount
<1>2. \A p \in Nat : (p + 4) \div 5 \in Nat /\ (p + 4) \div 5 <= p
  OBVIOUS
<1>3. AdvanceAmount(bk) \in Nat /\ AdvanceAmount(bk) <= PayableAmount(bk)
  BY <1>1, <1>2 DEF AdvanceAmount
<1> QED
  BY <1>1, <1>3 DEF Due

\* The documents have their types, and every payment document that exists
\* belongs to a booking.
DocTypes ==
  /\ booking \in [Bookings -> BookingRecord]
  /\ payment \in [Orders -> PaymentRecord]
  /\ balance \in Int
  /\ ledger \in [Bookings -> [credit : Int, debit : Int]]
  /\ couponUsed \in Nat
  /\ rooms \subseteq Bookings
  /\ escrow \in [Bookings -> Int \cup {NoEscrow}]
  /\ windowOver \in [Bookings -> BOOLEAN]
  /\ lead \in [Bookings -> Leads]
  /\ todo \in [CronJobs -> SUBSET Bookings]
  /\ begun \in Nat /\ faults \in Nat

PaymentsBound == \A o \in Orders : payment[o].state # "NONE" => payment[o].b \in Bookings

LocalTypes == pc \in [Requests -> Labels] /\ arg \in [Requests -> LocalData]

\* What a request in progress knows about its documents: the booking it works
\* on is one, and a verification holds a payment document of that booking.
RequestBound(r) ==
  pc[r] # "idle" =>
    /\ arg[r].b \in Bookings
    /\ pc[r] \in {"complete", "reread"} =>
         /\ arg[r].o \in Orders
         /\ payment[arg[r].o].state # "NONE"
         /\ payment[arg[r].o].b = arg[r].b

RequestsBound == \A r \in Requests : RequestBound(r)

TypeInv == DocTypes /\ PaymentsBound /\ LocalTypes /\ RequestsBound

\* Answering a request leaves the local data of all requests well typed.
LEMMA AnswerTyped ==
  ASSUME LocalTypes, RequestsBound, NEW r \in Requests, Answer(r), UNCHANGED payment
  PROVE  LocalTypes' /\ RequestsBound'
<1>1. LocalTypes'
  BY DEF LocalTypes, Answer, NoArg, NoBookingRecord, LocalData, BookingRecord, Labels,
         OpNames, BookingStatus, PaymentStatus
<1>2. RequestsBound'
  BY DEF LocalTypes, RequestsBound, RequestBound, Answer
<1> QED
  BY <1>1, <1>2

\* The same when the request answers by inserting a payment document.
LEMMA AnswerInsertTyped ==
  ASSUME payment \in [Orders -> PaymentRecord], LocalTypes, RequestsBound,
         NEW r \in Requests, Answer(r), NEW o \in Orders, NEW doc,
         payment[o].state = "NONE", payment' = [payment EXCEPT ![o] = doc]
  PROVE  LocalTypes' /\ RequestsBound'
<1>1. LocalTypes'
  BY DEF LocalTypes, Answer, NoArg, NoBookingRecord, LocalData, BookingRecord, Labels,
         OpNames, BookingStatus, PaymentStatus
<1>2. \A p \in Orders : payment[p].state # "NONE" => payment'[p] = payment[p]
  OBVIOUS
<1>3. RequestsBound'
  BY <1>2 DEF LocalTypes, RequestsBound, RequestBound, Answer
<1> QED
  BY <1>1, <1>3

\* So does moving one on to a label that needs no payment document.
LEMMA GotoTyped ==
  ASSUME LocalTypes, RequestsBound, NEW r \in Requests, pc[r] # "idle",
         NEW label \in Labels \ {"complete", "reread"}, Goto(r, label), UNCHANGED payment
  PROVE  LocalTypes' /\ RequestsBound'
<1>1. LocalTypes'
  BY DEF LocalTypes, Goto
<1>2. RequestsBound'
  BY DEF LocalTypes, RequestsBound, RequestBound, Goto
<1> QED
  BY <1>1, <1>2

\* Accepting one binds it to a booking.
LEMMA AcceptTyped ==
  ASSUME TypeInv, NEW r \in Requests, NEW op \in OpNames, NEW b \in Bookings,
         NEW o \in Orders \cup {NoOrder}, NEW to \in BookingStatus, NEW label \in Labels,
         Accept(r, op, b, o, to, label), UNCHANGED payment,
         label \in {"complete", "reread"} =>
           o \in Orders /\ payment[o].state # "NONE" /\ payment[o].b = b
  PROVE  LocalTypes' /\ RequestsBound' /\ begun' \in Nat
<1> USE DEF Accept, TypeInv, DocTypes
<1>1. LocalTypes'
  BY DEF LocalTypes, NoBookingRecord, LocalData, BookingRecord, BookingStatus, PaymentStatus
<1>2. RequestsBound'
  BY DEF LocalTypes, RequestsBound, RequestBound
<1>3. begun' \in Nat
  OBVIOUS
<1> QED
  BY <1>1, <1>2, <1>3

\* The same for the requests that concern no payment document.
LEMMA AcceptBookingTyped ==
  ASSUME TypeInv, NEW r \in Requests, NEW op \in OpNames, NEW b \in Bookings,
         NEW to \in BookingStatus, NEW label \in Labels, label \notin {"complete", "reread"},
         Accept(r, op, b, NoOrder, to, label), UNCHANGED payment
  PROVE  LocalTypes' /\ RequestsBound' /\ begun' \in Nat
BY AcceptTyped

\* A write to fields of one booking document keeps the collection well typed.
LEMMA StatusTyped ==
  ASSUME NEW bks \in [Bookings -> BookingRecord], NEW b \in Bookings, NEW s \in BookingStatus
  PROVE  [bks EXCEPT ![b].status = s] \in [Bookings -> BookingRecord]
BY DEF BookingRecord

LEMMA StatusPayTyped ==
  ASSUME NEW bks \in [Bookings -> BookingRecord], NEW b \in Bookings,
         NEW s \in BookingStatus, NEW p \in PaymentStatus
  PROVE  [bks EXCEPT ![b].status = s, ![b].pay = p] \in [Bookings -> BookingRecord]
BY DEF BookingRecord

LEMMA PayStatusTyped ==
  ASSUME NEW bks \in [Bookings -> BookingRecord], NEW b \in Bookings,
         NEW s \in BookingStatus, NEW p \in PaymentStatus
  PROVE  [bks EXCEPT ![b].pay = p, ![b].status = s] \in [Bookings -> BookingRecord]
BY DEF BookingRecord

LEMMA PayTyped ==
  ASSUME NEW bks \in [Bookings -> BookingRecord], NEW b \in Bookings, NEW p \in PaymentStatus
  PROVE  [bks EXCEPT ![b].pay = p, ![b].status = @] \in [Bookings -> BookingRecord]
BY DEF BookingRecord

LEMMA CouponTyped ==
  ASSUME NEW bks \in [Bookings -> BookingRecord], NEW b \in Bookings, NEW c \in BOOLEAN
  PROVE  [bks EXCEPT ![b].coupon = c] \in [Bookings -> BookingRecord]
BY DEF BookingRecord

LEMMA MovedTyped ==
  ASSUME NEW bks \in [Bookings -> BookingRecord], NEW b \in Bookings, NEW m \in Nat
  PROVE  [bks EXCEPT ![b].moved = m] \in [Bookings -> BookingRecord]
BY DEF BookingRecord
-----------------------------------------------------------------------------
(* The type invariant.                                                      *)

LEMMA TypeInit == Init => TypeInv
<1> SUFFICES ASSUME Init PROVE TypeInv
  OBVIOUS
<1>1. DocTypes
  BY AmountsAssumption
  DEF Init, DocTypes, NoBookingRecord, NoPayment, BookingRecord, PaymentRecord,
      BookingStatus, PaymentStatus, Leads
<1>2. PaymentsBound
  BY DEF Init, PaymentsBound, NoPayment
<1>3. LocalTypes /\ RequestsBound
  BY DEF Init, LocalTypes, RequestsBound, RequestBound, NoArg, NoBookingRecord, BookingRecord,
         LocalData, Labels, OpNames, BookingStatus, PaymentStatus
<1> QED
  BY <1>1, <1>2, <1>3 DEF TypeInv

\* The steps that accept a request.
LEMMA TypeAccept ==
  ASSUME TypeInv, NEW r \in Requests,
         \/ \E b \in Bookings : Begin(r, b)
         \/ \E o \in Orders : VerifyPayment(r, o)
  PROVE  TypeInv'
<1> DEFINE Accepted == LocalTypes' /\ RequestsBound' /\ begun' \in Nat
<1>a. /\ {"cancel", "status", "reschedule", "applyCoupon", "removeCoupon", "createOrder",
          "createRemainingOrder", "verify", "payWithWallet", "payRemainingWithWallet"} \subseteq OpNames
      /\ {"CANCELLED", "CONFIRMED", "PENDING_PAYMENT"} \subseteq BookingStatus
      /\ {"credit", "cancelWrite", "holdFind", "statusWrite", "moveWrite", "couponCheck",
          "couponWrite", "orderInsert", "complete", "debitRead"} \subseteq Labels
  BY DEF OpNames, BookingStatus, Labels
<1>1. ASSUME NEW b \in Bookings, NEW role, CancelBooking(r, b, role) PROVE Accepted
  <2>1. PICK label \in {"credit", "cancelWrite"} : Accept(r, "cancel", b, NoOrder, "CANCELLED", label)
    BY <1>1 DEF CancelBooking
  <2>2. UNCHANGED payment
    BY <1>1 DEF CancelBooking, db
  <2> QED
    BY <1>a, <2>1, <2>2, AcceptBookingTyped
<1>2. ASSUME NEW b \in Bookings, NEW to \in StatusTargets, NEW role,
            UpdateBookingStatus(r, b, to, role) PROVE Accepted
  <2>1. to \in BookingStatus
    BY TargetsAssumption
  <2>2. PICK label \in {"holdFind", "statusWrite"} : Accept(r, "status", b, NoOrder, to, label)
    BY <1>2 DEF UpdateBookingStatus
  <2>3. UNCHANGED payment
    BY <1>2 DEF UpdateBookingStatus, db
  <2> QED
    BY <1>a, <2>1, <2>2, <2>3, AcceptBookingTyped
<1>3. ASSUME NEW b \in Bookings, RescheduleBooking(r, b) PROVE Accepted
  BY <1>a, <1>3, AcceptBookingTyped DEF RescheduleBooking, db
<1>4. ASSUME NEW b \in Bookings, ApplyCoupon(r, b) PROVE Accepted
  BY <1>a, <1>4, AcceptBookingTyped DEF ApplyCoupon, db
<1>5. ASSUME NEW b \in Bookings, RemoveCoupon(r, b) PROVE Accepted
  BY <1>a, <1>5, AcceptBookingTyped DEF RemoveCoupon, db
<1>6. ASSUME NEW b \in Bookings, CreateOrder(r, b) PROVE Accepted
  BY <1>a, <1>6, AcceptBookingTyped DEF CreateOrder, db
<1>7. ASSUME NEW b \in Bookings, CreateRemainingOrder(r, b) PROVE Accepted
  BY <1>a, <1>7, AcceptBookingTyped DEF CreateRemainingOrder, db
<1>8. ASSUME NEW b \in Bookings, PayWithWallet(r, b) PROVE Accepted
  BY <1>a, <1>8, AcceptBookingTyped DEF PayWithWallet, db
<1>9. ASSUME NEW b \in Bookings, PayRemainingWithWallet(r, b) PROVE Accepted
  BY <1>a, <1>9, AcceptBookingTyped DEF PayRemainingWithWallet, db
<1>10. ASSUME NEW o \in Orders, VerifyPayment(r, o) PROVE Accepted
  <2>1. payment[o].state # "NONE" /\ payment[o].b \in Bookings
    BY <1>10 DEF VerifyPayment, Verifiable, TypeInv, PaymentsBound
  <2>2. Accept(r, "verify", payment[o].b, o, "CONFIRMED", "complete") /\ UNCHANGED payment
    BY <1>10 DEF VerifyPayment, db
  <2> QED
    BY <1>a, <2>1, <2>2, AcceptTyped
<1>11. Accepted
  BY <1>1, <1>2, <1>3, <1>4, <1>5, <1>6, <1>7, <1>8, <1>9, <1>10 DEF Begin, ChangeCalls, CouponCalls, PaymentCalls
<1>12. UNCHANGED <<db, clock, todo, faults>>
  BY DEF Begin, ChangeCalls, CouponCalls, PaymentCalls, CancelBooking, UpdateBookingStatus, RescheduleBooking, ApplyCoupon, RemoveCoupon,
         CreateOrder, CreateRemainingOrder, VerifyPayment, PayWithWallet, PayRemainingWithWallet
<1> QED
  BY <1>11, <1>12 DEF TypeInv, DocTypes, PaymentsBound, db, clock

\* The steps of a request in progress.
LEMMA TypeContinue ==
  ASSUME TypeInv, NEW r \in Requests, Continue(r)
  PROVE  TypeInv'
<1> DEFINE snap == arg[r].snap
           b    == arg[r].b
<1>0. /\ pc[r] # "idle" => b \in Bookings
      /\ snap \in BookingRecord /\ arg[r].to \in BookingStatus
  BY DEF TypeInv, LocalTypes, RequestsBound, RequestBound, LocalData
<1>a. /\ PayableAmount(snap) \in Int /\ AdvanceAmount(snap) \in Int
      /\ Due(snap) \in Int /\ snap.moved \in Nat
      /\ snap.pay \in PaymentStatus
  BY <1>0, Amounts DEF BookingRecord
<1> USE DEF TypeInv, db, clock, Labels
<1>1. CASE Credit(r)
  <2>1. DocTypes'
    BY <1>0, <1>a, <1>1 DEF Credit, DocTypes
  <2>2. PaymentsBound'
    BY <1>0, <1>1 DEF Credit, DocTypes, PaymentsBound
  <2>3. LocalTypes' /\ RequestsBound'
    BY <1>0, <1>1, AnswerTyped, GotoTyped DEF Credit
  <2> QED
    BY <2>1, <2>2, <2>3
<1>2. CASE CreditTx(r)
  <2>1. DocTypes'
    BY <1>0, <1>a, <1>2 DEF CreditTx, DocTypes
  <2>2. PaymentsBound'
    BY <1>0, <1>2 DEF CreditTx, DocTypes, PaymentsBound
  <2>3. LocalTypes' /\ RequestsBound'
    BY <1>0, <1>2, GotoTyped DEF CreditTx
  <2> QED
    BY <2>1, <2>2, <2>3
<1>3. CASE CancelWrite(r)
  <2>1. PayOnCancel(snap) \in PaymentStatus
    BY <1>a DEF PaymentStatus, PayOnCancel
  <2>2. "CANCELLED" \in BookingStatus
    BY DEF BookingStatus
  <2>3. booking' \in [Bookings -> BookingRecord]
    BY <1>0, <1>3, <2>1, <2>2, StatusPayTyped DEF CancelWrite, DocTypes
  <2>4. DocTypes' /\ PaymentsBound'
    BY <1>3, <2>3 DEF CancelWrite, DocTypes, PaymentsBound
  <2>5. LocalTypes' /\ RequestsBound'
    BY <1>3, AnswerTyped DEF CancelWrite
  <2> QED
    BY <2>4, <2>5
<1>4. CASE StatusWrite(r)
  <2>1. DocTypes'
    BY <1>0, <1>a, <1>4, StatusTyped DEF StatusWrite, DocTypes
  <2>2. PaymentsBound'
    BY <1>0, <1>4 DEF StatusWrite, DocTypes, PaymentsBound
  <2>3. LocalTypes' /\ RequestsBound'
    BY <1>0, <1>4, AnswerTyped DEF StatusWrite
  <2> QED
    BY <2>1, <2>2, <2>3
<1>5. CASE MoveWrite(r)
  <2>1. snap.moved + 1 \in Nat
    BY <1>a
  <2>2. booking' \in [Bookings -> BookingRecord]
    BY <1>0, <1>5, <2>1, MovedTyped DEF MoveWrite, DocTypes
  <2>3. lead' \in [Bookings -> Leads]
    BY <1>0, <1>5 DEF MoveWrite, DocTypes
  <2>4. DocTypes' /\ PaymentsBound'
    BY <1>5, <2>2, <2>3 DEF MoveWrite, DocTypes, PaymentsBound
  <2>5. LocalTypes' /\ RequestsBound'
    BY <1>5, AnswerTyped DEF MoveWrite
  <2> QED
    BY <2>4, <2>5
<1>6. CASE CouponCheck(r)
  <2>1. DocTypes'
    BY <1>0, <1>a, <1>6 DEF CouponCheck, DocTypes
  <2>2. PaymentsBound'
    BY <1>0, <1>6 DEF CouponCheck, DocTypes, PaymentsBound
  <2>3. LocalTypes' /\ RequestsBound'
    BY <1>0, <1>6, AnswerTyped, GotoTyped DEF CouponCheck
  <2> QED
    BY <2>1, <2>2, <2>3
<1>7. CASE CouponWrite(r)
  <2>1. DocTypes'
    BY <1>0, <1>a, <1>7, CouponTyped DEF CouponWrite, DocTypes
  <2>2. PaymentsBound'
    BY <1>0, <1>7 DEF CouponWrite, DocTypes, PaymentsBound
  <2>3. LocalTypes' /\ RequestsBound'
    BY <1>0, <1>7, AnswerTyped DEF CouponWrite
  <2> QED
    BY <2>1, <2>2, <2>3
<1>8. CASE OrderInsert(r)
  <2>1. PICK o \in Orders :
          /\ payment[o].state = "NONE"
          /\ payment' = [payment EXCEPT ![o] =
               [state |-> "PENDING", b |-> b, amount |-> Due(snap)]]
    BY <1>8 DEF OrderInsert
  <2>2. b \in Bookings
    BY <1>0, <1>8 DEF OrderInsert
  <2>3. payment' \in [Orders -> PaymentRecord] /\ PaymentsBound'
    BY <2>1, <2>2, <1>a DEF DocTypes, PaymentRecord, PaymentsBound
  <2>4. DocTypes'
    BY <1>8, <2>3 DEF OrderInsert, DocTypes
  <2>5. LocalTypes' /\ RequestsBound'
    BY <1>8, <2>1, AnswerInsertTyped DEF OrderInsert, DocTypes
  <2> QED
    BY <2>3, <2>4, <2>5
<1>9. CASE Complete(r)
  <2> DEFINE o == arg[r].o
  <2>1. o \in Orders /\ payment[o].state # "NONE" /\ payment[o].b = b /\ b \in Bookings
    BY <1>0, <1>9 DEF Complete, RequestsBound, RequestBound
  <2>2. payment' \in [Orders -> PaymentRecord]
    BY <1>9, <2>1 DEF Complete, DocTypes, PaymentRecord
  <2>3. \A q \in Orders : payment'[q].b = payment[q].b
                         /\ (payment[q].state # "NONE" => payment'[q].state # "NONE")
                         /\ (payment'[q].state # "NONE" => payment[q].state # "NONE")
    BY <1>9, <2>1 DEF Complete, DocTypes, PaymentRecord
  <2>4. DocTypes' /\ PaymentsBound'
    BY <1>9, <2>2, <2>3 DEF Complete, DocTypes, PaymentsBound
  <2>5. LocalTypes'
    BY <1>9 DEF Complete, Goto, LocalTypes
  <2>6. \A q \in Requests : q # r => RequestBound(q)'
    BY <1>9, <2>3 DEF Complete, Goto, LocalTypes, RequestsBound, RequestBound
  <2>7. RequestBound(r)'
    BY <1>9, <2>1, <2>3 DEF Complete, Goto, LocalTypes, RequestBound
  <2> QED
    BY <2>4, <2>5, <2>6, <2>7 DEF RequestsBound
<1>10. CASE Reread(r)
  <2>1. b \in Bookings
    BY <1>0, <1>10 DEF Reread
  <2>2. DocTypes' /\ PaymentsBound'
    BY <1>10 DEF Reread, DocTypes, PaymentsBound
  <2>3. AfterPayment(booking[b]) \in Labels \ {"complete", "reread", "idle"}
    BY DEF AfterPayment
  <2>4. LocalTypes'
    <3>1. booking[b] \in BookingRecord /\ arg[r] \in LocalData
      BY <2>1 DEF DocTypes, LocalTypes
    <3>2. [arg[r] EXCEPT !.snap = booking[b]] \in LocalData
      BY <3>1 DEF LocalData
    <3>3. arg' = [arg EXCEPT ![r] = [arg[r] EXCEPT !.snap = booking[b]]]
      BY <1>10 DEF Reread, LocalTypes
    <3>4. pc' = [pc EXCEPT ![r] = AfterPayment(booking[b])]
      BY <1>10 DEF Reread
    <3> QED
      BY <2>3, <3>2, <3>3, <3>4 DEF LocalTypes
  <2>5. RequestsBound'
    BY <1>10, <2>1, <2>3 DEF Reread, LocalTypes, LocalData, RequestsBound, RequestBound
  <2> QED
    BY <2>2, <2>4, <2>5
<1>11. CASE DebitRead(r)
  <2>1. DocTypes'
    BY <1>0, <1>a, <1>11 DEF DebitRead, DocTypes
  <2>2. PaymentsBound'
    BY <1>0, <1>11 DEF DebitRead, DocTypes, PaymentsBound
  <2>3. LocalTypes' /\ RequestsBound'
    BY <1>0, <1>11, AnswerTyped, GotoTyped DEF DebitRead
  <2> QED
    BY <2>1, <2>2, <2>3
<1>12. CASE Debit(r)
  <2>1. DocTypes'
    BY <1>0, <1>a, <1>12 DEF Debit, DocTypes
  <2>2. PaymentsBound'
    BY <1>0, <1>12 DEF Debit, DocTypes, PaymentsBound
  <2>3. LocalTypes' /\ RequestsBound'
    BY <1>0, <1>12, GotoTyped DEF Debit
  <2> QED
    BY <2>1, <2>2, <2>3
<1>13. CASE DebitTx(r)
  <2>1. DocTypes'
    BY <1>0, <1>a, <1>13 DEF DebitTx, DocTypes
  <2>2. PaymentsBound'
    BY <1>0, <1>13 DEF DebitTx, DocTypes, PaymentsBound
  <2>3. LocalTypes' /\ RequestsBound'
    BY <1>0, <1>13, GotoTyped DEF DebitTx
  <2> QED
    BY <2>1, <2>2, <2>3
<1>14. CASE PaymentInsert(r)
  <2>1. PICK o \in Orders :
          /\ payment[o].state = "NONE"
          /\ payment' = [payment EXCEPT ![o] =
               [state |-> "COMPLETED", b |-> b, amount |-> Due(snap)]]
    BY <1>14 DEF PaymentInsert
  <2>2. b \in Bookings
    BY <1>0, <1>14 DEF PaymentInsert
  <2>3. payment' \in [Orders -> PaymentRecord] /\ PaymentsBound'
    BY <2>1, <2>2, <1>a DEF DocTypes, PaymentRecord, PaymentsBound
  <2>4. DocTypes'
    BY <1>14, <2>3 DEF PaymentInsert, DocTypes
  <2>5. LocalTypes' /\ RequestsBound'
    <3>1. AfterPayment(snap) \in Labels \ {"complete", "reread"}
      BY DEF AfterPayment
    <3>2. LocalTypes'
      BY <1>14, <3>1 DEF PaymentInsert, Goto, LocalTypes
    <3>3. \A q \in Requests : q # r => RequestBound(q)'
      BY <1>14, <2>1 DEF PaymentInsert, Goto, LocalTypes, RequestsBound, RequestBound, DocTypes
    <3>4. RequestBound(r)'
      BY <1>14, <2>2, <3>1 DEF PaymentInsert, Goto, LocalTypes, RequestBound
    <3> QED
      BY <3>2, <3>3, <3>4 DEF RequestsBound
  <2> QED
    BY <2>3, <2>4, <2>5
<1>15. CASE CouponCount(r)
  <2>1. DocTypes'
    BY <1>0, <1>a, <1>15 DEF CouponCount, DocTypes
  <2>2. PaymentsBound'
    BY <1>0, <1>15 DEF CouponCount, DocTypes, PaymentsBound
  <2>3. LocalTypes' /\ RequestsBound'
    BY <1>0, <1>15, GotoTyped DEF CouponCount
  <2> QED
    BY <2>1, <2>2, <2>3
<1>16. CASE RoomCreate(r)
  <2>1. DocTypes'
    BY <1>0, <1>a, <1>16 DEF RoomCreate, DocTypes
  <2>2. PaymentsBound'
    BY <1>0, <1>16 DEF RoomCreate, DocTypes, PaymentsBound
  <2>3. LocalTypes' /\ RequestsBound'
    BY <1>0, <1>16, GotoTyped DEF RoomCreate
  <2> QED
    BY <2>1, <2>2, <2>3
<1>17. CASE PayWrite(r)
  <2>1. b \in Bookings /\ booking[b].status \in BookingStatus \cup {"ABSENT"}
    BY <1>0, <1>17 DEF PayWrite, DocTypes, BookingRecord
  <2>0. "CONFIRMED" \in BookingStatus
    BY DEF BookingStatus
  <2>2. NewPaymentStatus(snap) \in PaymentStatus
    BY DEF NewPaymentStatus, PaymentStatus
  <2>3. booking' \in [Bookings -> BookingRecord]
    <3>1. CASE Confirms(snap)
      <4>1. booking' = [booking EXCEPT ![b].pay = NewPaymentStatus(snap),
                                       ![b].status = "CONFIRMED"]
        BY <1>17, <3>1 DEF PayWrite
      <4> QED
        BY <2>0, <2>1, <2>2, <4>1, PayStatusTyped DEF DocTypes
    <3>2. CASE ~Confirms(snap)
      <4>1. booking' = [booking EXCEPT ![b].pay = NewPaymentStatus(snap), ![b].status = @]
        BY <1>17, <3>2 DEF PayWrite
      <4> QED
        BY <2>1, <2>2, <4>1, PayTyped DEF DocTypes
    <3> QED
      BY <3>1, <3>2
  <2>4. DocTypes' /\ PaymentsBound'
    BY <1>17, <2>3 DEF PayWrite, DocTypes, PaymentsBound
  <2>5. LocalTypes' /\ RequestsBound'
    BY <1>17, AnswerTyped, GotoTyped DEF PayWrite
  <2> QED
    BY <2>4, <2>5
<1>18. CASE HoldFind(r)
  <2>0. UNCHANGED <<db, clock, todo, begun, faults>>
    BY <1>18 DEF HoldFind
  <2>1. DocTypes'
    BY <2>0 DEF DocTypes
  <2>2. PaymentsBound'
    BY <2>0 DEF PaymentsBound
  <2>3. LocalTypes' /\ RequestsBound'
    BY <1>0, <1>18, AnswerTyped, GotoTyped DEF HoldFind
  <2> QED
    BY <2>1, <2>2, <2>3
<1>19. CASE Hold(r)
  <2>1. DocTypes'
    BY <1>0, <1>a, <1>19 DEF Hold, DocTypes, HoldAmount
  <2>2. PaymentsBound'
    BY <1>0, <1>19 DEF Hold, DocTypes, PaymentsBound
  <2>3. LocalTypes' /\ RequestsBound'
    BY <1>0, <1>19, AnswerTyped, GotoTyped DEF Hold
  <2> QED
    BY <2>1, <2>2, <2>3
<1> QED
  BY <1>1, <1>2, <1>3, <1>4, <1>5, <1>6, <1>7, <1>8, <1>9, <1>10, <1>11, <1>12, <1>13, <1>14, <1>15, <1>16, <1>17, <1>18, <1>19 DEF Continue

\* Every step keeps the type invariant.
LEMMA TypeStep == TypeInv /\ [Next]_vars => TypeInv'
<1> SUFFICES ASSUME TypeInv, [Next]_vars PROVE TypeInv'
  OBVIOUS
<1> USE DEF TypeInv
<1>1. ASSUME NEW b \in Bookings, CreateBooking(b) PROVE TypeInv'
  <2>1. "PENDING_PAYMENT" \in BookingStatus
    BY DEF BookingStatus
  <2>2. booking' \in [Bookings -> BookingRecord]
    BY <1>1, <2>1, StatusTyped DEF CreateBooking, DocTypes
  <2> QED
    BY <1>1, <2>2 DEF CreateBooking, clock, local, DocTypes, PaymentsBound, LocalTypes,
                      RequestsBound, RequestBound
<1>2. ASSUME NEW b \in Bookings, WindowExpires(b) PROVE TypeInv'
  BY <1>2 DEF WindowExpires, db, local, DocTypes, PaymentsBound, LocalTypes,
              RequestsBound, RequestBound
<1>3. ASSUME NEW b \in Bookings, AppointmentNears(b) PROVE TypeInv'
  BY <1>3 DEF AppointmentNears, db, local, DocTypes, PaymentsBound, LocalTypes,
              RequestsBound, RequestBound, Leads
<1>4. ASSUME NEW r \in Requests, RequestFails(r) PROVE TypeInv'
  <2>1. LocalTypes' /\ RequestsBound'
    BY <1>4, AnswerTyped DEF RequestFails, db
  <2> QED
    BY <1>4, <2>1 DEF RequestFails, db, clock, DocTypes, PaymentsBound
<1>5. ASSUME NEW j \in CronJobs, ExpireList(j) \/ CronFails(j) PROVE TypeInv'
  <2>1. todo' \in [CronJobs -> SUBSET Bookings] /\ faults' \in Nat
    BY <1>5 DEF ExpireList, CronFails, DocTypes
  <2>2. UNCHANGED <<db, clock, local, begun>>
    BY <1>5 DEF ExpireList, CronFails
  <2>3. DocTypes'
    BY <2>1, <2>2 DEF db, clock, DocTypes
  <2> QED
    BY <2>2, <2>3 DEF db, local, PaymentsBound, LocalTypes, RequestsBound, RequestBound
<1>6. ASSUME NEW j \in CronJobs, NEW b \in Bookings, ExpireWrite(j, b) PROVE TypeInv'
  <2>1. "FAILED" \in BookingStatus /\ "FAILED" \in PaymentStatus
    BY DEF BookingStatus, PaymentStatus
  <2>2. booking' \in [Bookings -> BookingRecord]
    BY <1>6, <2>1, StatusPayTyped DEF ExpireWrite, DocTypes
  <2> QED
    BY <1>6, <2>2 DEF ExpireWrite, clock, local, DocTypes, PaymentsBound, LocalTypes,
                      RequestsBound, RequestBound
<1>7. CASE UNCHANGED vars
  BY <1>7 DEF vars, db, clock, local, DocTypes, PaymentsBound, LocalTypes,
              RequestsBound, RequestBound
<1> QED
  BY <1>1, <1>2, <1>3, <1>4, <1>5, <1>6, <1>7, TypeAccept, TypeContinue DEF Next

\* Every document and every request in progress is well typed in every state
\* the program can reach.
THEOREM TypeCorrect == Spec => []TypeOK
<1>1. Init => TypeInv
  BY TypeInit
<1>2. TypeInv /\ [Next]_vars => TypeInv'
  BY TypeStep
<1>3. TypeInv => TypeOK
  BY DEF TypeInv, DocTypes, LocalTypes, TypeOK
<1> QED
  BY <1>1, <1>2, <1>3, PTL DEF Spec

-----------------------------------------------------------------------------
(* Nothing is settled unpaid.  The property speaks of documents only; what  *)
(* makes it inductive is that a request in progress never knows more than   *)
(* the payments justify: its snapshot of a settled booking, and its being   *)
(* on the way to a write that settles, each come with a completed payment.  *)

Settling == {"credit", "creditTx", "holdFind", "hold", "couponCount", "roomCreate", "payWrite"}

PaidFor(docs, b) == \E o \in Orders : docs[o].state = "COMPLETED" /\ docs[o].b = b

RequestPaid(r) ==
  pc[r] # "idle" =>
    /\ arg[r].snap.pay \in Settled => PaidFor(payment, arg[r].b)
    /\ pc[r] \in Settling => PaidFor(payment, arg[r].b)
    /\ pc[r] = "reread" => payment[arg[r].o].state = "COMPLETED"

RequestsPaid == \A r \in Requests : RequestPaid(r)

DocsPaid ==
  \A b \in Bookings :
    /\ booking[b].pay \in Settled => PaidFor(payment, b)
    /\ escrow[b] # NoEscrow => PaidFor(payment, b)
    /\ ledger[b].credit > 0 => PaidFor(payment, b)

PaidInv == DocsPaid /\ RequestsPaid

\* A completed payment stays completed and stays its booking's, whatever the step.
LEMMA CompletedLasts ==
  ASSUME TypeInv, [Next]_vars, NEW o \in Orders, payment[o].state = "COMPLETED"
  PROVE  payment'[o].state = "COMPLETED" /\ payment'[o].b = payment[o].b
<1> USE DEF TypeInv, DocTypes
<1>1. ASSUME NEW r \in Requests, Continue(r)
      PROVE  payment'[o].state = "COMPLETED" /\ payment'[o].b = payment[o].b
  <2>1. CASE OrderInsert(r)
    BY <2>1 DEF OrderInsert
  <2>2. CASE PaymentInsert(r)
    BY <2>2 DEF PaymentInsert
  <2>3. CASE Complete(r)
    BY <2>3 DEF Complete, PaymentRecord
  <2>4. CASE UNCHANGED payment
    BY <2>4
  <2> QED
    BY <1>1, <2>1, <2>2, <2>3, <2>4
    DEF Continue, Credit, CreditTx, CancelWrite, StatusWrite, MoveWrite, CouponCheck, CouponWrite,
        Reread, DebitRead, Debit, DebitTx, CouponCount, RoomCreate, PayWrite, HoldFind, Hold, db
<1>2. ASSUME NEW r \in Requests, NEW b \in Bookings, Begin(r, b) PROVE UNCHANGED payment
  BY <1>2 DEF Begin, ChangeCalls, CouponCalls, PaymentCalls, CancelBooking, UpdateBookingStatus, RescheduleBooking, ApplyCoupon, RemoveCoupon,
              CreateOrder, CreateRemainingOrder, PayWithWallet, PayRemainingWithWallet, db
<1> QED
  BY <1>1, <1>2
  DEF Next, CreateBooking, WindowExpires, AppointmentNears, VerifyPayment, RequestFails,
      ExpireList, CronFails, ExpireWrite, vars, db

LEMMA PaidForLasts ==
  ASSUME TypeInv, [Next]_vars
  PROVE  \A b : PaidFor(payment, b) => PaidFor(payment', b)
BY CompletedLasts DEF PaidFor

\* A request that the step leaves alone keeps what it knew.
LEMMA OthersPaid ==
  ASSUME TypeInv, RequestsPaid, [Next]_vars,
         NEW r \in Requests, pc'[r] = pc[r], arg'[r] = arg[r]
  PROVE  RequestPaid(r)'
<1>1. pc[r] = "reread" => arg[r].o \in Orders
  BY DEF TypeInv, RequestsBound, RequestBound
<1>2. pc[r] = "reread" => payment'[arg[r].o].state = "COMPLETED"
  BY <1>1, CompletedLasts DEF RequestsPaid, RequestPaid
<1> QED
  BY <1>2, PaidForLasts DEF RequestsPaid, RequestPaid

\* So does every request when one of them is answered, and when one is moved on
\* to a label that its payment justifies.
LEMMA AnswerPaid ==
  ASSUME TypeInv, RequestsPaid, [Next]_vars, NEW r \in Requests, Answer(r)
  PROVE  RequestsPaid'
<1>1. \A q \in Requests : q # r => pc'[q] = pc[q] /\ arg'[q] = arg[q]
  BY DEF Answer, TypeInv, LocalTypes
<1>2. RequestPaid(r)'
  BY DEF Answer, TypeInv, LocalTypes, RequestPaid
<1> QED
  BY <1>1, <1>2, OthersPaid DEF RequestsPaid

LEMMA GotoPaid ==
  ASSUME TypeInv, RequestsPaid, [Next]_vars, NEW r \in Requests, pc[r] # "idle",
         NEW label, Goto(r, label),
         label \in Settling => PaidFor(payment', arg[r].b),
         label = "reread" => payment'[arg[r].o].state = "COMPLETED"
  PROVE  RequestsPaid'
<1>1. \A q \in Requests : q # r => pc'[q] = pc[q] /\ arg'[q] = arg[q]
  BY DEF Goto, TypeInv, LocalTypes
<1>2. RequestPaid(r)'
  BY PaidForLasts DEF Goto, TypeInv, LocalTypes, RequestsPaid, RequestPaid
<1> QED
  BY <1>1, <1>2, OthersPaid DEF RequestsPaid

\* A request is accepted with a snapshot of a document, and documents are
\* justified already.
LEMMA AcceptPaid ==
  ASSUME TypeInv, PaidInv, [Next]_vars, UNCHANGED payment,
         NEW r \in Requests, NEW op, NEW b \in Bookings, NEW o, NEW to, NEW label,
         Accept(r, op, b, o, to, label),
         label \in Settling => booking[b].pay \in Settled,
         label # "reread"
  PROVE  RequestsPaid'
<1>1. \A q \in Requests : q # r => pc'[q] = pc[q] /\ arg'[q] = arg[q]
  BY DEF Accept, TypeInv, LocalTypes
<1>2. /\ pc'[r] = label /\ arg'[r].b = b
      /\ arg'[r].snap = IF op = "verify" THEN NoBookingRecord ELSE booking[b]
  BY DEF Accept, TypeInv, LocalTypes
<1>3. arg'[r].snap.pay \in Settled => booking[b].pay \in Settled
  BY <1>2 DEF NoBookingRecord, Settled
<1>4. RequestPaid(r)'
  BY <1>2, <1>3 DEF RequestPaid, PaidInv, DocsPaid
<1> QED
  BY <1>1, <1>4, OthersPaid DEF RequestsPaid, PaidInv

\* Documents stay justified when whatever a step settles anew is paid for.
LEMMA DocsLast ==
  ASSUME TypeInv, DocsPaid, [Next]_vars,
         \A b \in Bookings :
           /\ booking'[b].pay \in Settled => booking[b].pay \in Settled \/ PaidFor(payment', b)
           /\ escrow'[b] # escrow[b] => PaidFor(payment', b)
           /\ ledger'[b].credit # ledger[b].credit => PaidFor(payment', b)
  PROVE  DocsPaid'
BY PaidForLasts DEF DocsPaid

LEMMA PaidInit == Init => PaidInv
BY DEF Init, PaidInv, DocsPaid, RequestsPaid, RequestPaid, NoBookingRecord, Settled

LEMMA PaidAccept ==
  ASSUME TypeInv, PaidInv, [Next]_vars, NEW r \in Requests,
         \/ \E b \in Bookings : Begin(r, b)
         \/ \E o \in Orders : VerifyPayment(r, o)
  PROVE  PaidInv'
<1> USE DEF db, Settling, Settled
<1>0. UNCHANGED db
  BY DEF Begin, ChangeCalls, CouponCalls, PaymentCalls, CancelBooking, UpdateBookingStatus, RescheduleBooking, ApplyCoupon, RemoveCoupon,
         CreateOrder, CreateRemainingOrder, VerifyPayment, PayWithWallet, PayRemainingWithWallet
<1>1. DocsPaid'
  BY <1>0, DocsLast DEF PaidInv
<1>2. ASSUME NEW b \in Bookings, NEW role, CancelBooking(r, b, role) PROVE RequestsPaid'
  BY <1>0, <1>2, AcceptPaid DEF CancelBooking
<1>3. ASSUME NEW b \in Bookings, NEW to, NEW role, UpdateBookingStatus(r, b, to, role)
      PROVE RequestsPaid'
  BY <1>0, <1>3, AcceptPaid DEF UpdateBookingStatus
<1>4. ASSUME NEW b \in Bookings, RescheduleBooking(r, b) PROVE RequestsPaid'
  BY <1>0, <1>4, AcceptPaid DEF RescheduleBooking
<1>5. ASSUME NEW b \in Bookings, ApplyCoupon(r, b) \/ RemoveCoupon(r, b) PROVE RequestsPaid'
  BY <1>0, <1>5, AcceptPaid DEF ApplyCoupon, RemoveCoupon
<1>6. ASSUME NEW b \in Bookings, CreateOrder(r, b) \/ CreateRemainingOrder(r, b)
      PROVE RequestsPaid'
  BY <1>0, <1>6, AcceptPaid DEF CreateOrder, CreateRemainingOrder
<1>7. ASSUME NEW b \in Bookings, PayWithWallet(r, b) \/ PayRemainingWithWallet(r, b)
      PROVE RequestsPaid'
  BY <1>0, <1>7, AcceptPaid DEF PayWithWallet, PayRemainingWithWallet
<1>8. ASSUME NEW o \in Orders, VerifyPayment(r, o) PROVE RequestsPaid'
  <2>1. payment[o].b \in Bookings
    BY <1>8 DEF VerifyPayment, Verifiable, TypeInv, PaymentsBound
  <2> QED
    BY <1>0, <1>8, <2>1, AcceptPaid DEF VerifyPayment
<1> QED
  BY <1>1, <1>2, <1>3, <1>4, <1>5, <1>6, <1>7, <1>8 DEF PaidInv, Begin, ChangeCalls, CouponCalls, PaymentCalls

LEMMA PaidContinue ==
  ASSUME TypeInv, PaidInv, [Next]_vars, NEW r \in Requests, Continue(r)
  PROVE  PaidInv'
<1> DEFINE snap == arg[r].snap
           b    == arg[r].b
<1>0. /\ pc[r] # "idle" => RequestPaid(r) /\ b \in Bookings
      /\ snap \in BookingRecord
  BY DEF PaidInv, RequestsPaid, TypeInv, LocalTypes, RequestsBound, RequestBound, LocalData
<1>t. /\ booking \in [Bookings -> BookingRecord]
      /\ escrow \in [Bookings -> Int \cup {NoEscrow}]
      /\ ledger \in [Bookings -> [credit : Int, debit : Int]]
  BY DEF TypeInv, DocTypes
<1> USE DEF PaidInv
\* The steps that change no document, or none that the property speaks of.
<1>1. CASE \/ DebitRead(r) \/ Debit(r) \/ RoomCreate(r) \/ CouponCount(r)
           \/ CouponCheck(r) \/ OrderInsert(r) \/ HoldFind(r)
  <2>1. DocsPaid'
    BY <1>1, DocsLast DEF DebitRead, Debit, RoomCreate, CouponCount, CouponCheck,
                          OrderInsert, HoldFind, db
  <2>2. CASE DebitRead(r) \/ Debit(r) \/ CouponCheck(r) \/ OrderInsert(r)
    BY <2>1, <2>2, AnswerPaid, GotoPaid
    DEF DebitRead, Debit, CouponCheck, OrderInsert, Settling
  <2>3. CASE RoomCreate(r) \/ CouponCount(r) \/ HoldFind(r)
    <3>1. PaidFor(payment, b) /\ UNCHANGED payment
      BY <1>0, <2>3 DEF RoomCreate, CouponCount, HoldFind, RequestPaid, Settling, db
    <3> QED
      BY <2>1, <2>3, <3>1, AnswerPaid, GotoPaid DEF RoomCreate, CouponCount, HoldFind
  <2> QED
    BY <1>1, <2>2, <2>3
<1>2. CASE Credit(r)
  <2>1. PaidFor(payment, b) /\ UNCHANGED payment
    BY <1>0, <1>2 DEF Credit, RequestPaid, Settling
  <2>2. DocsPaid'
    BY <1>2, DocsLast DEF Credit
  <2> QED
    BY <1>2, <2>1, <2>2, AnswerPaid, GotoPaid DEF Credit
<1>3. CASE CreditTx(r)
  <2>1. PaidFor(payment, b) /\ UNCHANGED payment
    BY <1>0, <1>3 DEF CreditTx, RequestPaid, Settling
  <2>2. \A c \in Bookings : c # b => ledger'[c] = ledger[c]
    BY <1>3, <1>t DEF CreditTx
  <2>3. DocsPaid'
    BY <1>3, <2>1, <2>2, DocsLast DEF CreditTx
  <2> QED
    BY <1>3, <2>3, GotoPaid DEF CreditTx, Settling
<1>4. CASE CancelWrite(r)
  <2>1. /\ b \in Bookings /\ UNCHANGED <<payment, escrow, ledger>>
        /\ snap.pay \in Settled => PaidFor(payment, b)
    BY <1>0, <1>4 DEF CancelWrite, RequestPaid
  <2>2. \A c \in Bookings : c # b => booking'[c] = booking[c]
    BY <1>4, <1>t DEF CancelWrite
  <2>3. booking'[b].pay \in Settled => snap.pay \in Settled
    BY <1>4, <1>t, <2>1 DEF CancelWrite, PayOnCancel, Settled, BookingRecord
  <2>4. DocsPaid'
    BY <2>1, <2>2, <2>3, DocsLast
  <2> QED
    BY <1>4, <2>4, AnswerPaid DEF CancelWrite
<1>5. CASE StatusWrite(r) \/ MoveWrite(r) \/ CouponWrite(r)
  <2>1. \A c \in Bookings : booking'[c].pay = booking[c].pay
    BY <1>5, <1>t DEF StatusWrite, MoveWrite, CouponWrite, BookingRecord
  <2>2. DocsPaid'
    BY <1>5, <2>1, DocsLast DEF StatusWrite, MoveWrite, CouponWrite
  <2> QED
    BY <1>5, <2>2, AnswerPaid DEF StatusWrite, MoveWrite, CouponWrite
<1>6. CASE Complete(r)
  <2>1. arg[r].o \in Orders
    BY <1>6 DEF Complete, TypeInv, RequestsBound, RequestBound
  <2>2. payment'[arg[r].o].state = "COMPLETED"
    BY <1>6, <2>1 DEF Complete, TypeInv, DocTypes, PaymentRecord
  <2>3. DocsPaid'
    BY <1>6, DocsLast DEF Complete
  <2> QED
    BY <1>6, <2>2, <2>3, GotoPaid DEF Complete, Settling
<1>7. CASE Reread(r)
  <2>1. b \in Bookings /\ arg[r].o \in Orders /\ payment[arg[r].o].b = b
    BY <1>7 DEF Reread, TypeInv, RequestsBound, RequestBound
  <2>2. PaidFor(payment, b) /\ UNCHANGED payment
    BY <1>0, <1>7, <2>1 DEF Reread, RequestPaid, PaidFor, db
  <2>3. DocsPaid'
    BY <1>7, DocsLast DEF Reread, db
  <2>4. arg'[r].b = b /\ pc'[r] # "reread"
    BY <1>7 DEF Reread, TypeInv, LocalTypes, LocalData, AfterPayment
  <2>5. RequestPaid(r)'
    BY <2>2, <2>4 DEF RequestPaid
  <2>6. \A q \in Requests : q # r => pc'[q] = pc[q] /\ arg'[q] = arg[q]
    BY <1>7 DEF Reread, TypeInv, LocalTypes
  <2> QED
    BY <2>3, <2>5, <2>6, OthersPaid DEF RequestsPaid
<1>8. CASE DebitTx(r)
  <2>1. \A c \in Bookings : ledger'[c].credit = ledger[c].credit
    BY <1>8, <1>t DEF DebitTx
  <2>2. DocsPaid'
    BY <1>8, <2>1, DocsLast DEF DebitTx
  <2> QED
    BY <1>8, <2>2, GotoPaid DEF DebitTx, Settling
<1>9. CASE PaymentInsert(r)
  <2>1. PICK o \in Orders : payment' = [payment EXCEPT ![o] =
          [state |-> "COMPLETED", b |-> b, amount |-> Due(snap)]]
    BY <1>9 DEF PaymentInsert
  <2>2. PaidFor(payment', b)
    BY <2>1 DEF PaidFor, TypeInv, DocTypes
  <2>3. DocsPaid'
    BY <1>9, DocsLast DEF PaymentInsert
  <2> QED
    BY <1>9, <2>2, <2>3, GotoPaid DEF PaymentInsert, AfterPayment
<1>10. CASE PayWrite(r)
  <2>1. PaidFor(payment, b) /\ UNCHANGED <<payment, escrow, ledger>>
    BY <1>0, <1>10 DEF PayWrite, RequestPaid, Settling
  <2>2. \A c \in Bookings : c # b => booking'[c] = booking[c]
    BY <1>10, <1>t DEF PayWrite
  <2>3. DocsPaid'
    BY <2>1, <2>2, DocsLast
  <2> QED
    BY <1>10, <2>1, <2>3, AnswerPaid, GotoPaid DEF PayWrite
<1>11. CASE Hold(r)
  <2>1. PaidFor(payment, b) /\ UNCHANGED <<payment, booking, ledger>>
    BY <1>0, <1>11 DEF Hold, RequestPaid, Settling
  <2>2. \A c \in Bookings : c # b => escrow'[c] = escrow[c]
    BY <1>11, <1>t DEF Hold
  <2>3. DocsPaid'
    BY <2>1, <2>2, DocsLast
  <2> QED
    BY <1>11, <2>3, AnswerPaid, GotoPaid DEF Hold, Settling
<1> QED
  BY <1>1, <1>2, <1>3, <1>4, <1>5, <1>6, <1>7, <1>8, <1>9, <1>10, <1>11 DEF Continue

LEMMA PaidStep == TypeInv /\ PaidInv /\ [Next]_vars => PaidInv'
<1> SUFFICES ASSUME TypeInv, PaidInv, [Next]_vars PROVE PaidInv'
  OBVIOUS
<1>t. booking \in [Bookings -> BookingRecord]
  BY DEF TypeInv, DocTypes
<1> USE DEF PaidInv
<1>1. ASSUME NEW r \in Requests, RequestFails(r) PROVE PaidInv'
  BY <1>1, DocsLast, AnswerPaid DEF RequestFails, db
<1>2. CASE UNCHANGED <<local, booking, escrow, ledger>>
  BY <1>2, DocsLast, OthersPaid DEF local, RequestsPaid
<1>3. ASSUME NEW b \in Bookings, CreateBooking(b) PROVE PaidInv'
  <2>1. \A c \in Bookings : booking'[c].pay = booking[c].pay
    BY <1>3, <1>t DEF CreateBooking, BookingRecord
  <2> QED
    BY <1>3, <2>1, DocsLast, OthersPaid DEF CreateBooking, local, RequestsPaid
<1>4. ASSUME NEW j \in CronJobs, NEW b \in Bookings, ExpireWrite(j, b) PROVE PaidInv'
  <2>1. \A c \in Bookings : booking'[c].pay \in Settled => booking[c].pay \in Settled
    BY <1>4, <1>t DEF ExpireWrite, BookingRecord, Settled
  <2> QED
    BY <1>4, <2>1, DocsLast, OthersPaid DEF ExpireWrite, local, RequestsPaid
<1>5. ASSUME NEW b \in Bookings, WindowExpires(b) \/ AppointmentNears(b) PROVE PaidInv'
  BY <1>2, <1>5 DEF WindowExpires, AppointmentNears, db
<1>6. ASSUME NEW j \in CronJobs, ExpireList(j) \/ CronFails(j) PROVE PaidInv'
  BY <1>2, <1>6 DEF ExpireList, CronFails, db
<1>7. CASE UNCHANGED vars
  BY <1>2, <1>7 DEF vars, db
<1> QED
  BY <1>1, <1>3, <1>4, <1>5, <1>6, <1>7, PaidAccept, PaidContinue DEF Next

\* However requests overlap and wherever they fail, a booking is marked paid or
\* refunded, gets an escrow document, or has a refund in the ledger only if a
\* payment of that booking was completed (verifyPayment, payWithWallet,
\* payRemainingWithWallet, cancelBooking, updateBookingStatus together).
THEOREM SettledWasPaid == Spec => []NothingSettledUnpaid
<1>1. Init => TypeInv /\ PaidInv
  BY TypeInit, PaidInit
<1>2. TypeInv /\ PaidInv /\ [Next]_vars => (TypeInv /\ PaidInv)'
  BY TypeStep, PaidStep
<1>3. PaidInv => NothingSettledUnpaid
  BY DEF PaidInv, DocsPaid, NothingSettledUnpaid, HasPaid, PaidFor
<1> QED
  BY <1>1, <1>2, <1>3, PTL DEF Spec

-----------------------------------------------------------------------------
(* An escrow document is never rewritten.                                   *)

\* Two requests may both find no escrow document and both insert one: the
\* second insert is refused, so the first amount stands (holdAmount and the
\* unique index on bookingId).
THEOREM EscrowStands == Spec => EscrowUntouched
<1> DEFINE Kept == \A b \in Bookings : escrow[b] # NoEscrow => escrow'[b] = escrow[b]
<1>1. ASSUME TypeInv, [Next]_vars PROVE Kept
  <2>1. ASSUME NEW r \in Requests, Hold(r) PROVE Kept
    BY <1>1, <2>1 DEF Hold, IndexRefuses, TypeInv, DocTypes
  <2>2. CASE UNCHANGED escrow
    BY <2>2
  <2>3. ASSUME NEW r \in Requests, Continue(r) PROVE Kept
    BY <2>1, <2>2, <2>3
    DEF Continue, Credit, CreditTx, CancelWrite, StatusWrite, MoveWrite, CouponCheck, CouponWrite,
        OrderInsert, Complete, Reread, DebitRead, Debit, DebitTx, PaymentInsert, CouponCount,
        RoomCreate, PayWrite, HoldFind, db
  <2>4. ASSUME NEW r \in Requests, NEW b \in Bookings, Begin(r, b) PROVE UNCHANGED escrow
    BY <2>4 DEF Begin, ChangeCalls, CouponCalls, PaymentCalls, CancelBooking, UpdateBookingStatus, RescheduleBooking, ApplyCoupon,
                RemoveCoupon, CreateOrder, CreateRemainingOrder, PayWithWallet,
                PayRemainingWithWallet, db
  <2> QED
    BY <1>1, <2>2, <2>3, <2>4
    DEF Next, CreateBooking, WindowExpires, AppointmentNears, VerifyPayment, RequestFails,
        ExpireList, CronFails, ExpireWrite, vars, db
<1>2. TypeInv /\ [Next]_vars => [Kept]_vars
  BY <1>1
<1> QED
  BY TypeInit, TypeStep, <1>2, PTL DEF Spec, EscrowUntouched

-----------------------------------------------------------------------------
(* Payments bring money.  A handler that is about to enter a payment has    *)
(* seen that something is due: createOrder and createRemainingOrder before  *)
(* they ask for an order, a wallet payment when the debit checked its       *)
(* amount.                                                                  *)

RequestDue(r) ==
  pc[r] \in {"orderInsert", "debit", "debitTx", "paymentInsert"} => Due(arg[r].snap) > 0

DueInv == PaymentsBringMoney /\ \A r \in Requests : RequestDue(r)

\* An accepted request that will insert an order has found something due.
LEMMA DueAccept ==
  ASSUME TypeInv, DueInv, NEW r \in Requests,
         \/ \E b \in Bookings : Begin(r, b)
         \/ \E o \in Orders : VerifyPayment(r, o)
  PROVE  DueInv'
<1> USE DEF TypeInv, LocalTypes, Accept, RequestDue
<1>1. /\ UNCHANGED payment
      /\ \A q \in Requests : q # r => pc'[q] = pc[q] /\ arg'[q] = arg[q]
  BY DEF Begin, ChangeCalls, CouponCalls, PaymentCalls, CancelBooking, UpdateBookingStatus,
         RescheduleBooking, ApplyCoupon, RemoveCoupon, CreateOrder, CreateRemainingOrder,
         VerifyPayment, PayWithWallet, PayRemainingWithWallet, db
<1>2. ASSUME NEW b \in Bookings, CreateOrder(r, b) \/ CreateRemainingOrder(r, b) PROVE RequestDue(r)'
  <2>1. Due(booking[b]) > 0 /\ arg'[r].snap = booking[b]
    BY <1>2 DEF CreateOrder, CreateRemainingOrder
  <2> QED
    BY <2>1 DEF Due, PayableAmount, AdvanceAmount
<1>3. ASSUME pc'[r] \notin {"orderInsert", "debit", "debitTx", "paymentInsert"}
      PROVE  RequestDue(r)'
  BY <1>3
<1>4. RequestDue(r)'
  <2>1. ASSUME NEW b \in Bookings, Begin(r, b) PROVE RequestDue(r)'
    BY <1>2, <1>3, <2>1
    DEF Begin, ChangeCalls, CouponCalls, PaymentCalls, CancelBooking, UpdateBookingStatus,
        RescheduleBooking, ApplyCoupon, RemoveCoupon, PayWithWallet, PayRemainingWithWallet
  <2>2. ASSUME NEW o \in Orders, VerifyPayment(r, o) PROVE RequestDue(r)'
    BY <1>3, <2>2 DEF VerifyPayment
  <2> QED
    BY <2>1, <2>2
<1> QED
  BY <1>1, <1>4 DEF DueInv, PaymentsBringMoney

LEMMA DueContinue ==
  ASSUME TypeInv, DueInv, NEW r \in Requests, Continue(r) \/ RequestFails(r)
  PROVE  DueInv'
<1>0. /\ pc \in [Requests -> Labels] /\ arg \in [Requests -> LocalData]
      /\ payment \in [Orders -> PaymentRecord] /\ RequestDue(r)
  BY DEF TypeInv, LocalTypes, DocTypes, DueInv
<1>1. \A q \in Requests : q # r => RequestDue(q)'
  <2>1. \A q \in Requests : q # r => pc'[q] = pc[q] /\ arg'[q] = arg[q]
    BY <1>0
    DEF Answer, Goto, RequestFails, Continue, Credit, CreditTx, CancelWrite, StatusWrite, MoveWrite,
        CouponCheck, CouponWrite, OrderInsert, Complete, Reread, DebitRead, Debit, DebitTx,
        PaymentInsert, CouponCount, RoomCreate, PayWrite, HoldFind, Hold
  <2> QED
    BY <2>1 DEF DueInv, RequestDue
<1>2. RequestDue(r)'
  <2>1. CASE DebitRead(r)
    BY <1>0, <2>1 DEF DebitRead, Debitable, Goto, Answer, RequestDue
  <2>2. CASE Debit(r) \/ DebitTx(r)
    BY <1>0, <2>2 DEF Debit, DebitTx, Goto, RequestDue
  <2>3. CASE pc'[r] \notin {"orderInsert", "debit", "debitTx", "paymentInsert"}
    BY <2>3 DEF RequestDue
  <2> QED
    BY <1>0, <2>1, <2>2, <2>3
    DEF RequestFails, Answer, Goto, Continue, Credit, CreditTx, CancelWrite, StatusWrite, MoveWrite,
        CouponCheck, CouponWrite, OrderInsert, Complete, Reread, AfterPayment, PaymentInsert,
        CouponCount, RoomCreate, PayWrite, HoldFind, Hold
<1>3. PaymentsBringMoney'
  <2>1. CASE OrderInsert(r) \/ PaymentInsert(r)
    <3>1. Due(arg[r].snap) > 0
      BY <1>0, <2>1 DEF OrderInsert, PaymentInsert, RequestDue
    <3>2. \A o \in Orders : payment'[o] = payment[o] \/ payment'[o].amount = Due(arg[r].snap)
      BY <1>0, <2>1 DEF OrderInsert, PaymentInsert
    <3> QED
      BY <3>1, <3>2 DEF DueInv, PaymentsBringMoney
  <2>2. CASE Complete(r)
    <3>1. arg[r].o \in Orders /\ payment[arg[r].o].state # "NONE"
      BY <2>2 DEF Complete, TypeInv, RequestsBound, RequestBound
    <3>2. \A o \in Orders : /\ payment'[o].amount = payment[o].amount
                            /\ payment'[o].state # "NONE" => payment[o].state # "NONE"
      BY <1>0, <2>2, <3>1 DEF Complete, PaymentRecord
    <3> QED
      BY <3>2 DEF DueInv, PaymentsBringMoney
  <2>3. CASE UNCHANGED payment
    BY <2>3 DEF DueInv, PaymentsBringMoney
  <2> QED
    BY <2>1, <2>2, <2>3
    DEF RequestFails, Continue, Credit, CreditTx, CancelWrite, StatusWrite, MoveWrite, CouponCheck,
        CouponWrite, Reread, DebitRead, Debit, DebitTx, CouponCount, RoomCreate, PayWrite, HoldFind,
        Hold, db
<1> QED
  BY <1>1, <1>2, <1>3 DEF DueInv

\* No payment is entered for nothing, whatever the price and the discount: an
\* order is asked for only when something is due, and the wallet refuses to
\* debit nothing (createOrder, createRemainingOrder, debitBalance).
THEOREM NothingPaysNothing == Spec => []PaymentsBringMoney
<1>1. Init => DueInv
  BY DEF Init, DueInv, PaymentsBringMoney, RequestDue, NoPayment
<1>2. TypeInv /\ DueInv /\ [Next]_vars => DueInv'
  <2> SUFFICES ASSUME TypeInv, DueInv, [Next]_vars PROVE DueInv'
    OBVIOUS
  <2>1. CASE UNCHANGED <<payment, pc, arg>>
    BY <2>1 DEF DueInv, PaymentsBringMoney, RequestDue
  <2> QED
    BY <2>1, DueAccept, DueContinue
    DEF Next, CreateBooking, WindowExpires, AppointmentNears, ExpireList, CronFails, ExpireWrite,
        vars, db, local
<1>3. DueInv => PaymentsBringMoney
  BY DEF DueInv
<1> QED
  BY TypeInit, TypeStep, <1>1, <1>2, <1>3, PTL DEF Spec

-----------------------------------------------------------------------------
(* Handlers that never overlap.  A request alone in the process may rely on *)
(* what it read: nobody else writes its booking between its read and its    *)
(* write.  That, and the status its booking was found in, is what the       *)
(* invariant says of each of its labels; a cleanup run alone in the process *)
(* may rely on its list in the same way.                                    *)

\* The labels of a request that is paying, and the operations that pay.
Paying == {"complete", "reread", "debitRead", "debit", "debitTx", "paymentInsert",
           "couponCount", "roomCreate", "payWrite"}
Holding == {"holdFind", "hold"}
PayOps == {"verify", "payWithWallet", "payRemainingWithWallet"}

\* Where what a request read of its booking is what the document still says: it
\* has read it and has not written it.
ReadIsFresh(r) ==
  pc[r] \notin {"idle", "complete", "reread"} /\ (pc[r] \in Holding => arg[r].op = "status")

RequestAlone(r) ==
  pc[r] # "idle" =>
    /\ Exists(arg[r].b)
    /\ ReadIsFresh(r) => arg[r].snap = booking[arg[r].b]
    /\ pc[r] \in {"couponCheck", "couponWrite"} => arg[r].snap.status = "PENDING_PAYMENT"
    /\ pc[r] = "statusWrite" \/ (pc[r] \in Holding /\ arg[r].op = "status") =>
         arg[r].snap.status # "CANCELLED"
    /\ pc[r] \in Paying => arg[r].op \in PayOps

RunAlone(j) ==
  \A b \in todo[j] : booking[b].status = "PENDING_PAYMENT" /\ booking[b].pay = "PENDING"

PaymentsExist == \A o \in Orders : payment[o].state # "NONE" => Exists(payment[o].b)

SerialInv ==
  /\ TypeInv /\ OneAtATime /\ PaymentsExist
  /\ \A r \in Requests : RequestAlone(r)
  /\ \A j \in CronJobs : RunAlone(j)

SerialNext == Next /\ OneAtATime'

\* A booking document is never deleted.
LEMMA ExistsLasts ==
  ASSUME TypeInv, [Next]_vars, NEW b \in Bookings, Exists(b)
  PROVE  Exists(b)'
<1> USE DEF TypeInv, DocTypes, Exists
<1>1. ASSUME NEW r \in Requests, Continue(r) PROVE Exists(b)'
  <2>1. arg[r].to # "ABSENT"
    BY DEF LocalTypes, LocalData, BookingStatus
  <2>2. CASE CancelWrite(r) \/ StatusWrite(r)
    BY <2>1, <2>2 DEF CancelWrite, StatusWrite, BookingRecord
  <2>4. CASE MoveWrite(r) \/ CouponWrite(r)
    <3>1. booking[b] \in BookingRecord
      OBVIOUS
    <3>2. booking'[b].status = booking[b].status
      BY <2>4, <3>1 DEF MoveWrite, CouponWrite, BookingRecord
    <3> QED
      BY <3>2
  <2>5. CASE PayWrite(r)
    BY <2>5 DEF PayWrite, BookingRecord
  <2>3. CASE UNCHANGED booking
    BY <2>3
  <2> QED
    BY <1>1, <2>2, <2>3, <2>4, <2>5
    DEF Continue, Credit, CreditTx, CouponCheck, OrderInsert, Complete, Reread, DebitRead, Debit,
        DebitTx, PaymentInsert, CouponCount, RoomCreate, HoldFind, Hold, db
<1>2. ASSUME NEW r \in Requests, NEW c \in Bookings, Begin(r, c) PROVE UNCHANGED booking
  BY <1>2 DEF Begin, ChangeCalls, CouponCalls, PaymentCalls, CancelBooking, UpdateBookingStatus,
              RescheduleBooking, ApplyCoupon, RemoveCoupon, CreateOrder, CreateRemainingOrder,
              PayWithWallet, PayRemainingWithWallet, db
<1>3. ASSUME NEW c \in Bookings, CreateBooking(c) PROVE Exists(b)'
  BY <1>3 DEF CreateBooking
<1>4. ASSUME NEW j \in CronJobs, NEW c \in Bookings, ExpireWrite(j, c) PROVE Exists(b)'
  BY <1>4 DEF ExpireWrite, BookingRecord
<1> QED
  BY <1>1, <1>2, <1>3, <1>4
  DEF Next, WindowExpires, AppointmentNears, VerifyPayment, RequestFails, ExpireList, CronFails,
      vars, db

\* While a request is in progress nobody else is.
LEMMA InProgressAlone ==
  ASSUME SerialInv, NEW r \in Requests, pc[r] # "idle"
  PROVE  /\ \A q \in Requests : q # r => pc[q] = "idle"
         /\ \A j \in CronJobs : todo[j] = {}
BY DEF SerialInv, OneAtATime

\* A request that moves on within its fresh read keeps what it relies on.
LEMMA GotoAlone ==
  ASSUME SerialInv, NEW r \in Requests, pc[r] # "idle", ReadIsFresh(r),
         NEW label \in Labels, Goto(r, label), UNCHANGED booking,
         label \in {"couponCheck", "couponWrite"} => arg[r].snap.status = "PENDING_PAYMENT",
         label = "statusWrite" \/ (label \in Holding /\ arg[r].op = "status") =>
           arg[r].snap.status # "CANCELLED",
         label \in Paying => arg[r].op \in PayOps
  PROVE  RequestAlone(r)'
BY DEF SerialInv, TypeInv, LocalTypes, RequestAlone, ReadIsFresh, Goto, Exists

LEMMA AnswerAlone ==
  ASSUME SerialInv, NEW r \in Requests, Answer(r)
  PROVE  RequestAlone(r)'
BY DEF SerialInv, TypeInv, LocalTypes, RequestAlone, Answer

\* The steps of a request in progress.
LEMMA ContinueAlone ==
  ASSUME SerialInv, [Next]_vars, NEW r \in Requests, Continue(r)
  PROVE  RequestAlone(r)'
<1> DEFINE b == arg[r].b
<1>0. pc[r] # "idle"
  BY DEF Continue, Credit, CreditTx, CancelWrite, StatusWrite, MoveWrite, CouponCheck, CouponWrite,
         OrderInsert, Complete, Reread, DebitRead, Debit, DebitTx, PaymentInsert, CouponCount,
         RoomCreate, PayWrite, HoldFind, Hold
<1>1. RequestAlone(r) /\ b \in Bookings /\ pc \in [Requests -> Labels] /\ arg \in [Requests -> LocalData]
  BY <1>0 DEF SerialInv, TypeInv, RequestsBound, RequestBound, LocalTypes
<1>2. Exists(b) /\ booking'[b].status # "ABSENT"
  BY <1>0, <1>1, ExistsLasts DEF RequestAlone, SerialInv, Exists
<1>a. {"creditTx", "cancelWrite", "couponWrite", "debit", "debitTx", "paymentInsert", "couponCount",
       "roomCreate", "payWrite", "hold", "statusWrite"} \subseteq Labels
  BY DEF Labels
<1>3. CASE \/ CancelWrite(r) \/ StatusWrite(r) \/ MoveWrite(r) \/ CouponWrite(r) \/ OrderInsert(r)
  BY <1>3, AnswerAlone DEF CancelWrite, StatusWrite, MoveWrite, CouponWrite, OrderInsert
<1>4. CASE Credit(r) \/ CreditTx(r)
  BY <1>0, <1>a, <1>4, AnswerAlone, GotoAlone DEF Credit, CreditTx, ReadIsFresh, Holding, Paying
<1>5. CASE CouponCheck(r)
  BY <1>0, <1>1, <1>a, <1>5, AnswerAlone, GotoAlone
  DEF CouponCheck, ReadIsFresh, Holding, Paying, RequestAlone, db
<1>6. CASE \/ DebitRead(r) \/ Debit(r) \/ DebitTx(r) \/ CouponCount(r) \/ RoomCreate(r)
  BY <1>0, <1>1, <1>a, <1>6, AnswerAlone, GotoAlone
  DEF DebitRead, Debit, DebitTx, CouponCount, RoomCreate, ReadIsFresh, Holding, Paying,
      RequestAlone, db
<1>7. CASE PaymentInsert(r)
  <2>1. AfterPayment(arg[r].snap) \in {"couponCount", "roomCreate", "payWrite"}
    BY DEF AfterPayment
  <2> QED
    BY <1>0, <1>1, <1>a, <1>7, <2>1, GotoAlone
    DEF PaymentInsert, ReadIsFresh, Holding, Paying, RequestAlone
<1>8. CASE Complete(r)
  BY <1>1, <1>2, <1>8 DEF Complete, Goto, RequestAlone, Exists, ReadIsFresh, Holding, Paying
<1>9. CASE Reread(r)
  <2>1. AfterPayment(booking[b]) \in {"couponCount", "roomCreate", "payWrite"}
    BY DEF AfterPayment
  <2>2. /\ pc'[r] = AfterPayment(booking[b]) /\ arg'[r].b = b /\ arg'[r].op = arg[r].op
        /\ arg'[r].snap = booking[b] /\ UNCHANGED booking
    BY <1>1, <1>9 DEF Reread, LocalData, db
  <2>3. arg[r].op \in PayOps
    BY <1>1, <1>9 DEF Reread, RequestAlone, Paying
  <2> QED
    BY <1>2, <2>1, <2>2, <2>3 DEF RequestAlone, Exists, ReadIsFresh, Holding, Paying
<1>10. CASE PayWrite(r)
  <2>1. CASE Answer(r)
    BY <2>1, AnswerAlone
  <2>2. CASE Goto(r, "holdFind")
    <3>1. arg[r].op # "status"
      BY <1>1, <1>10 DEF PayWrite, RequestAlone, Paying, PayOps
    <3> QED
      BY <1>1, <1>2, <2>2, <3>1 DEF Goto, RequestAlone, Exists, ReadIsFresh, Holding, Paying
  <2> QED
    BY <1>10, <2>1, <2>2 DEF PayWrite
<1>11. CASE HoldFind(r)
  <2>1. CASE Answer(r)
    BY <2>1, AnswerAlone
  <2>2. CASE Goto(r, "hold")
    BY <1>1, <1>2, <1>11, <2>2
    DEF HoldFind, Goto, RequestAlone, Exists, ReadIsFresh, Holding, Paying, db
  <2> QED
    BY <1>11, <2>1, <2>2 DEF HoldFind
<1>12. CASE Hold(r)
  <2>1. CASE Answer(r)
    BY <2>1, AnswerAlone
  <2>2. CASE arg[r].op = "status" /\ Goto(r, "statusWrite")
    BY <1>1, <1>2, <1>12, <2>2
    DEF Hold, Goto, RequestAlone, Exists, ReadIsFresh, Holding, Paying
  <2> QED
    BY <1>12, <2>1, <2>2 DEF Hold
<1> QED
  BY <1>3, <1>4, <1>5, <1>6, <1>7, <1>8, <1>9, <1>10, <1>11, <1>12 DEF Continue

\* A request is accepted with what it has just read.
LEMMA AcceptAlone ==
  ASSUME SerialInv, NEW r \in Requests,
         \/ \E b \in Bookings : Begin(r, b)
         \/ \E o \in Orders : VerifyPayment(r, o)
  PROVE  RequestAlone(r)'
<1> USE DEF SerialInv, TypeInv, LocalTypes, RequestAlone, ReadIsFresh, Accept, Exists, db,
            Holding, Paying, PayOps
<1>1. ASSUME NEW b \in Bookings, NEW role, CancelBooking(r, b, role) PROVE RequestAlone(r)'
  BY <1>1 DEF CancelBooking
<1>2. ASSUME NEW b \in Bookings, NEW to, NEW role, UpdateBookingStatus(r, b, to, role)
      PROVE RequestAlone(r)'
  BY <1>2 DEF UpdateBookingStatus, TransitionAllowed
<1>3. ASSUME NEW b \in Bookings, RescheduleBooking(r, b) PROVE RequestAlone(r)'
  BY <1>3 DEF RescheduleBooking
<1>4. ASSUME NEW b \in Bookings, ApplyCoupon(r, b) \/ RemoveCoupon(r, b) PROVE RequestAlone(r)'
  BY <1>4 DEF ApplyCoupon, RemoveCoupon, CouponEditable
<1>5. ASSUME NEW b \in Bookings, CreateOrder(r, b) \/ CreateRemainingOrder(r, b)
      PROVE RequestAlone(r)'
  BY <1>5 DEF CreateOrder, CreateRemainingOrder
<1>6. ASSUME NEW b \in Bookings, PayWithWallet(r, b) \/ PayRemainingWithWallet(r, b)
      PROVE RequestAlone(r)'
  BY <1>6 DEF PayWithWallet, PayRemainingWithWallet
<1>7. ASSUME NEW o \in Orders, VerifyPayment(r, o) PROVE RequestAlone(r)'
  BY <1>7 DEF VerifyPayment, Verifiable, PaymentsExist
<1> QED
  BY <1>1, <1>2, <1>3, <1>4, <1>5, <1>6, <1>7 DEF Begin, ChangeCalls, CouponCalls, PaymentCalls

\* What an accepting step leaves alone.
LEMMA AcceptQuiet ==
  ASSUME TypeInv, NEW r \in Requests,
         \/ \E b \in Bookings : Begin(r, b)
         \/ \E o \in Orders : VerifyPayment(r, o)
  PROVE  /\ UNCHANGED <<db, clock, todo, faults>>
         /\ \A q \in Requests : q # r => pc'[q] = pc[q] /\ arg'[q] = arg[q]
BY DEF TypeInv, LocalTypes, Accept, Begin, ChangeCalls, CouponCalls, PaymentCalls, CancelBooking,
       UpdateBookingStatus, RescheduleBooking, ApplyCoupon, RemoveCoupon, CreateOrder,
       CreateRemainingOrder, VerifyPayment, PayWithWallet, PayRemainingWithWallet

\* What a request's own step leaves alone.
LEMMA ContinueQuiet ==
  ASSUME TypeInv, NEW r \in Requests, Continue(r) \/ RequestFails(r)
  PROVE  /\ pc[r] # "idle" /\ UNCHANGED todo
         /\ \A q \in Requests : q # r => pc'[q] = pc[q] /\ arg'[q] = arg[q]
BY DEF TypeInv, LocalTypes, Answer, Goto, RequestFails, Continue, Credit, CreditTx, CancelWrite,
       StatusWrite, MoveWrite, CouponCheck, CouponWrite, OrderInsert, Complete, Reread, DebitRead,
       Debit, DebitTx, PaymentInsert, CouponCount, RoomCreate, PayWrite, HoldFind, Hold

\* Payment documents belong to bookings that exist.
LEMMA PaymentsExistLasts ==
  ASSUME SerialInv, [Next]_vars
  PROVE  PaymentsExist'
<1> USE DEF SerialInv
<1>1. \A o \in Orders : payment[o].state # "NONE" => payment[o].b \in Bookings /\ Exists(payment[o].b)
  BY DEF TypeInv, PaymentsBound, PaymentsExist
<1>2. \A b \in Bookings : Exists(b) => Exists(b)'
  BY ExistsLasts
<1>3. CASE \A o \in Orders : payment'[o].state # "NONE" =>
             payment[o].state # "NONE" /\ payment'[o].b = payment[o].b
  BY <1>1, <1>2, <1>3 DEF PaymentsExist, Exists
<1>4. ASSUME NEW r \in Requests, OrderInsert(r) \/ PaymentInsert(r) PROVE PaymentsExist'
  <2>1. arg[r].b \in Bookings /\ Exists(arg[r].b)
    BY <1>4 DEF OrderInsert, PaymentInsert, TypeInv, RequestsBound, RequestBound, RequestAlone
  <2>2. \E o \in Orders : payment'[o].b = arg[r].b /\ \A p \in Orders : p # o => payment'[p] = payment[p]
    <3>1. CASE OrderInsert(r)
      BY <3>1 DEF OrderInsert, TypeInv, DocTypes
    <3>2. CASE PaymentInsert(r)
      BY <3>2 DEF PaymentInsert, TypeInv, DocTypes
    <3> QED
      BY <1>4, <3>1, <3>2
  <2> QED
    BY <1>1, <1>2, <2>1, <2>2 DEF PaymentsExist, Exists
<1>5. ASSUME NEW r \in Requests, Complete(r) PROVE PaymentsExist'
  <2>1. arg[r].o \in Orders /\ payment[arg[r].o].state # "NONE"
    BY <1>5 DEF Complete, TypeInv, RequestsBound, RequestBound
  <2>2. \A o \in Orders : payment'[o].state # "NONE" =>
          payment[o].state # "NONE" /\ payment'[o].b = payment[o].b
    BY <1>5, <2>1 DEF Complete, TypeInv, DocTypes, PaymentRecord
  <2> QED
    BY <1>3, <2>2
<1>6. CASE UNCHANGED payment
  BY <1>3, <1>6
<1>7. ASSUME NEW r \in Requests, Continue(r) PROVE PaymentsExist'
  BY <1>4, <1>5, <1>6, <1>7
  DEF Continue, Credit, CreditTx, CancelWrite, StatusWrite, MoveWrite, CouponCheck, CouponWrite,
      Reread, DebitRead, Debit, DebitTx, CouponCount, RoomCreate, PayWrite, HoldFind, Hold, db
<1> QED
  BY <1>6, <1>7, AcceptQuiet
  DEF Next, CreateBooking, WindowExpires, AppointmentNears, RequestFails, ExpireList, CronFails,
      ExpireWrite, vars, db

LEMMA SerialInit == Init => SerialInv
<1> SUFFICES ASSUME Init PROVE SerialInv
  OBVIOUS
<1>1. TypeInv
  BY TypeInit
<1>2. OneAtATime /\ PaymentsExist
  BY DEF Init, OneAtATime, PaymentsExist, NoPayment
<1>3. /\ \A r \in Requests : RequestAlone(r)
      /\ \A j \in CronJobs : RunAlone(j)
  BY DEF Init, RequestAlone, RunAlone
<1> QED
  BY <1>1, <1>2, <1>3 DEF SerialInv

LEMMA SerialStep == SerialInv /\ [SerialNext]_vars => SerialInv'
<1> SUFFICES ASSUME SerialInv, [SerialNext]_vars PROVE SerialInv'
  OBVIOUS
<1>0. TypeInv /\ [Next]_vars
  BY DEF SerialNext, SerialInv
<1>1. TypeInv' /\ PaymentsExist'
  BY <1>0, TypeStep, PaymentsExistLasts
<1>2. OneAtATime'
  BY DEF SerialNext, SerialInv, OneAtATime, vars, local
<1> DEFINE Alone == (\A r \in Requests : RequestAlone(r)) /\ (\A j \in CronJobs : RunAlone(j))
\* A step of a request: nobody else is in progress, before it or after it.
<1>3. ASSUME NEW r \in Requests, Continue(r) \/ RequestFails(r) PROVE Alone'
  <2>1. /\ pc[r] # "idle" /\ UNCHANGED todo
        /\ \A q \in Requests : q # r => pc'[q] = pc[q]
    BY <1>0, <1>3, ContinueQuiet
  <2>2. RequestAlone(r)'
    BY <1>0, <1>3, ContinueAlone, AnswerAlone DEF RequestFails
  <2> QED
    BY <2>1, <2>2, InProgressAlone DEF RequestAlone, RunAlone
<1>4. ASSUME NEW r \in Requests,
             \/ \E b \in Bookings : Begin(r, b)
             \/ \E o \in Orders : VerifyPayment(r, o)
      PROVE  Alone'
  <2>1. /\ UNCHANGED <<booking, todo>>
        /\ \A q \in Requests : q # r => pc'[q] = pc[q] /\ arg'[q] = arg[q]
    BY <1>0, <1>4, AcceptQuiet DEF db
  <2>2. RequestAlone(r)'
    BY <1>4, AcceptAlone
  <2> QED
    BY <2>1, <2>2 DEF SerialInv, RequestAlone, ReadIsFresh, RunAlone, Exists
<1>5. ASSUME NEW b \in Bookings, CreateBooking(b) PROVE Alone'
  <2>1. ~Exists(b) /\ UNCHANGED <<pc, arg, todo>>
        /\ \A c \in Bookings : c # b => booking'[c] = booking[c]
    BY <1>0, <1>5 DEF CreateBooking, local, TypeInv, DocTypes
  <2>2. \A r \in Requests : pc[r] # "idle" => arg[r].b \in Bookings /\ arg[r].b # b
    BY <1>0, <2>1 DEF SerialInv, TypeInv, RequestsBound, RequestBound, RequestAlone
  <2>3. \A j \in CronJobs : todo[j] \subseteq Bookings /\ b \notin todo[j]
    BY <1>0, <2>1 DEF SerialInv, TypeInv, DocTypes, RunAlone, Exists
  <2> QED
    BY <2>1, <2>2, <2>3 DEF SerialInv, RequestAlone, ReadIsFresh, RunAlone, Exists
<1>6. ASSUME NEW j \in CronJobs, NEW b \in Bookings, ExpireWrite(j, b) PROVE Alone'
  <2>1. \A r \in Requests : pc'[r] = "idle"
    BY <1>6 DEF SerialInv, OneAtATime, ExpireWrite, local
  <2>2. \A i \in CronJobs : i # j => todo'[i] = {}
    BY <1>0, <1>6 DEF SerialInv, OneAtATime, ExpireWrite, TypeInv, DocTypes
  <2>3. \A c \in todo'[j] : c \in todo[j] /\ booking'[c] = booking[c]
    BY <1>0, <1>6 DEF ExpireWrite, TypeInv, DocTypes
  <2> QED
    BY <2>1, <2>2, <2>3 DEF SerialInv, RequestAlone, RunAlone
<1>7. ASSUME NEW j \in CronJobs, ExpireList(j) \/ CronFails(j) PROVE Alone'
  <2>1. UNCHANGED <<booking, pc, arg>>
    BY <1>7 DEF ExpireList, CronFails, db, local
  <2>2. \A i \in CronJobs : \A b \in todo'[i] :
          b \in todo[i] \/ (booking[b].status = "PENDING_PAYMENT" /\ booking[b].pay = "PENDING")
    BY <1>0, <1>7 DEF ExpireList, CronFails, Expired, TypeInv, DocTypes
  <2> QED
    BY <2>1, <2>2 DEF SerialInv, RequestAlone, ReadIsFresh, RunAlone, Exists
<1>8. ASSUME UNCHANGED <<booking, pc, arg, todo>> PROVE Alone'
  <2>1. ASSUME NEW r \in Requests PROVE RequestAlone(r)'
    BY <1>8 DEF SerialInv, RequestAlone, ReadIsFresh, Exists
  <2>2. ASSUME NEW j \in CronJobs PROVE RunAlone(j)'
    BY <1>8 DEF SerialInv, RunAlone
  <2> QED
    BY <2>1, <2>2
<1>9. Alone'
  <2> HIDE DEF Alone
  <2> QED
    BY <1>0, <1>3, <1>4, <1>5, <1>6, <1>7, <1>8
    DEF Next, WindowExpires, AppointmentNears, vars, db, local
<1> QED
  BY <1>1, <1>2, <1>9 DEF SerialInv

\* When handlers never overlap, a cancelled booking stays cancelled: no write
\* follows a read that found it otherwise (validateStatusTransition,
\* verifyPayment, payWithWallet, cleanupExpiredBookings).
THEOREM CancelledStays == SerialSpec => CancelledIsFinal
<1> DEFINE Stays == \A b \in Bookings : booking[b].status = "CANCELLED" => booking'[b].status = "CANCELLED"
<1>1. ASSUME SerialInv, [SerialNext]_vars PROVE Stays
  <2>0. TypeInv /\ [Next]_vars /\ booking \in [Bookings -> BookingRecord]
    BY <1>1 DEF SerialNext, SerialInv, TypeInv, DocTypes
  <2>1. ASSUME NEW r \in Requests, Continue(r) PROVE Stays
    <3>0. /\ RequestAlone(r) /\ pc[r] # "idle"
          /\ ReadIsFresh(r) => arg[r].snap = booking[arg[r].b]
      BY <1>1, <2>0, <2>1, ContinueQuiet DEF SerialInv, RequestAlone
    <3>1. CASE StatusWrite(r)
      BY <2>0, <3>0, <3>1 DEF StatusWrite, RequestAlone, ReadIsFresh, Holding
    <3>2. CASE PayWrite(r)
      BY <2>0, <3>0, <3>2 DEF PayWrite, ReadIsFresh, Holding, Confirms, BookingRecord
    <3>3. CASE CancelWrite(r) \/ MoveWrite(r) \/ CouponWrite(r)
      BY <2>0, <3>3 DEF CancelWrite, MoveWrite, CouponWrite, BookingRecord
    <3>4. CASE UNCHANGED booking
      BY <3>4
    <3> QED
      BY <2>1, <3>1, <3>2, <3>3, <3>4
      DEF Continue, Credit, CreditTx, CouponCheck, OrderInsert, Complete, Reread, DebitRead, Debit,
          DebitTx, PaymentInsert, CouponCount, RoomCreate, HoldFind, Hold, db
  <2>2. ASSUME NEW b \in Bookings, CreateBooking(b) PROVE Stays
    BY <2>0, <2>2 DEF CreateBooking, Exists
  <2>3. ASSUME NEW j \in CronJobs, NEW b \in Bookings, ExpireWrite(j, b) PROVE Stays
    BY <1>1, <2>0, <2>3 DEF ExpireWrite, SerialInv, RunAlone
  <2> QED
    BY <2>0, <2>1, <2>2, <2>3, AcceptQuiet
    DEF Next, WindowExpires, AppointmentNears, RequestFails, ExpireList, CronFails, vars, db
<1>2. SerialInv /\ [SerialNext]_vars => [Stays]_vars
  BY <1>1
<1> QED
  BY SerialInit, SerialStep, <1>2, PTL DEF SerialSpec, SerialNext, CancelledIsFinal

-----------------------------------------------------------------------------
(* The price of a booking that is paid for.  Without faults a completed     *)
(* payment shows in the payment status of its booking, unless the booking   *)
(* was cancelled, as soon as the handler that completed it has written it.  *)

Recording == {"reread", "couponCount", "roomCreate", "payWrite"}
Told(b) == booking[b].pay \in {"ADVANCE_PAID", "PAID"} \/ booking[b].status = "CANCELLED"
Underway(b) == \E r \in Requests : pc[r] \in Recording /\ arg[r].b = b
ToldInv == \A b \in Bookings : faults = 0 /\ HasPaid(b) => Told(b) \/ Underway(b)

\* No step takes back what the payment status of a booking says of its payments.
LEMMA ToldLasts ==
  ASSUME SerialInv, [Next]_vars, NEW b \in Bookings, Told(b)
  PROVE  Told(b)'
<1>0. TypeInv /\ booking \in [Bookings -> BookingRecord]
  BY DEF SerialInv, TypeInv, DocTypes
<1>1. ASSUME NEW r \in Requests, Continue(r) PROVE Told(b)'
  <2>0. /\ RequestAlone(r) /\ pc[r] # "idle" /\ arg[r].b \in Bookings
        /\ ReadIsFresh(r) => arg[r].snap = booking[arg[r].b]
    BY <1>0, <1>1, ContinueQuiet DEF SerialInv, RequestAlone, TypeInv, RequestsBound, RequestBound
  <2>1. CASE StatusWrite(r)
    BY <1>0, <2>0, <2>1 DEF StatusWrite, RequestAlone, ReadIsFresh, Holding, Told, BookingRecord
  <2>2. CASE PayWrite(r)
    BY <1>0, <2>0, <2>2
    DEF PayWrite, ReadIsFresh, Holding, Confirms, NewPaymentStatus, Told, BookingRecord
  <2>3. CASE CancelWrite(r) \/ MoveWrite(r) \/ CouponWrite(r)
    BY <1>0, <2>0, <2>3 DEF CancelWrite, MoveWrite, CouponWrite, Told, BookingRecord
  <2>4. CASE UNCHANGED booking
    BY <2>4 DEF Told
  <2> QED
    BY <1>1, <2>1, <2>2, <2>3, <2>4
    DEF Continue, Credit, CreditTx, CouponCheck, OrderInsert, Complete, Reread, DebitRead, Debit,
        DebitTx, PaymentInsert, CouponCount, RoomCreate, HoldFind, Hold, db
<1>2. ASSUME NEW c \in Bookings, CreateBooking(c) PROVE Told(b)'
  BY <1>0, <1>2 DEF CreateBooking, Exists, Told, BookingRecord
<1>3. ASSUME NEW j \in CronJobs, NEW c \in Bookings, ExpireWrite(j, c) PROVE Told(b)'
  BY <1>0, <1>3 DEF ExpireWrite, SerialInv, RunAlone, Told
<1>4. CASE UNCHANGED booking
  BY <1>4 DEF Told
<1> QED
  BY <1>0, <1>1, <1>2, <1>3, <1>4, AcceptQuiet
  DEF Next, WindowExpires, AppointmentNears, RequestFails, ExpireList, CronFails, vars, db

\* A step of a handler: it completes a payment, writes it down, or neither.
LEMMA ContinueTold ==
  ASSUME SerialInv, ToldInv, [Next]_vars, NEW r \in Requests, Continue(r),
         NEW b \in Bookings, faults' = 0, HasPaid(b)'
  PROVE  Told(b)' \/ Underway(b)'
<1>0. /\ TypeInv /\ faults = 0
      /\ pc \in [Requests -> Labels] /\ arg \in [Requests -> LocalData]
      /\ payment \in [Orders -> PaymentRecord] /\ booking \in [Bookings -> BookingRecord]
  BY DEF SerialInv, TypeInv, LocalTypes, DocTypes, Continue, Credit, CreditTx, CancelWrite,
         StatusWrite, MoveWrite, CouponCheck, CouponWrite, OrderInsert, Complete, Reread, DebitRead,
         Debit, DebitTx, PaymentInsert, CouponCount, RoomCreate, PayWrite, HoldFind, Hold
<1>1. /\ pc[r] # "idle" /\ \A q \in Requests : q # r => pc'[q] = pc[q] /\ arg'[q] = arg[q]
      /\ \A q \in Requests : q # r => pc[q] = "idle"
      /\ arg[r].b \in Bookings
  BY <1>0, ContinueQuiet, InProgressAlone DEF TypeInv, RequestsBound, RequestBound
<1>2. CASE Complete(r)
  <2>1. /\ arg[r].o \in Orders /\ payment[arg[r].o].b = arg[r].b
        /\ pc' = [pc EXCEPT ![r] = "reread"] /\ arg' = arg /\ booking' = booking
    BY <1>0, <1>2 DEF Complete, Goto, TypeInv, RequestsBound, RequestBound
  <2>2. \A o \in Orders : payment'[o].b = payment[o].b /\
          (payment'[o].state = "COMPLETED" => o = arg[r].o \/ payment[o].state = "COMPLETED")
    BY <1>0, <1>2, <2>1 DEF Complete, PaymentRecord
  <2>3. CASE b = arg[r].b
    BY <1>0, <2>1, <2>3 DEF Underway, Recording
  <2>4. CASE b # arg[r].b
    <3>1. HasPaid(b)
      BY <2>1, <2>2, <2>4 DEF HasPaid
    <3>2. ~Underway(b)
      BY <1>1, <2>4 DEF Underway, Recording
    <3> QED
      BY <1>0, <2>1, <3>1, <3>2 DEF ToldInv, Told
  <2> QED
    BY <2>3, <2>4
<1>3. CASE PaymentInsert(r)
  <2>1. /\ pc'[r] \in Recording /\ arg' = arg /\ booking' = booking
    BY <1>0, <1>3 DEF PaymentInsert, Goto, AfterPayment, Recording
  <2>2. CASE b = arg[r].b
    BY <2>1, <2>2 DEF Underway
  <2>3. CASE b # arg[r].b
    <3>1. HasPaid(b)
      BY <1>0, <1>3, <2>3 DEF HasPaid, PaymentInsert
    <3>2. ~Underway(b)
      BY <1>1, <2>3 DEF Underway, Recording
    <3> QED
      BY <1>0, <2>1, <3>1, <3>2 DEF ToldInv, Told
  <2> QED
    BY <2>2, <2>3
<1>4. CASE ~Complete(r) /\ ~PaymentInsert(r)
  <2>1. HasPaid(b)
    <3>1. CASE OrderInsert(r)
      BY <1>0, <3>1 DEF OrderInsert, HasPaid
    <3>2. CASE UNCHANGED payment
      BY <3>2 DEF HasPaid
    <3> QED
      BY <1>4, <3>1, <3>2
      DEF Continue, Credit, CreditTx, CancelWrite, StatusWrite, MoveWrite, CouponCheck, CouponWrite,
          Reread, DebitRead, Debit, DebitTx, CouponCount, RoomCreate, PayWrite, HoldFind, Hold, db
  <2>2. CASE Told(b)
    BY <2>2, ToldLasts
  <2>3. CASE Underway(b)
    <3>1. pc[r] \in Recording /\ arg[r].b = b
      BY <1>1, <2>3 DEF Underway, Recording
    <3>2. CASE PayWrite(r)
      BY <1>0, <3>1, <3>2 DEF PayWrite, NewPaymentStatus, Told, BookingRecord
    <3>3. CASE Reread(r)
      BY <1>0, <3>1, <3>3 DEF Reread, AfterPayment, Underway, Recording, LocalData
    <3>4. CASE CouponCount(r) \/ RoomCreate(r)
      BY <1>0, <3>1, <3>4 DEF CouponCount, RoomCreate, Goto, Underway, Recording
    <3> QED
      BY <1>4, <3>1, <3>2, <3>3, <3>4
      DEF Recording, Continue, Credit, CreditTx, CancelWrite, StatusWrite, MoveWrite, CouponCheck,
          CouponWrite, OrderInsert, DebitRead, Debit, DebitTx, HoldFind, Hold
  <2> QED
    BY <1>0, <2>1, <2>2, <2>3 DEF ToldInv
<1> QED
  BY <1>2, <1>3, <1>4

LEMMA ToldStep == SerialInv /\ ToldInv /\ [SerialNext]_vars => ToldInv'
<1> SUFFICES ASSUME SerialInv, ToldInv, [SerialNext]_vars,
                    NEW b \in Bookings, faults' = 0, HasPaid(b)'
             PROVE  Told(b)' \/ Underway(b)'
  BY DEF ToldInv
<1>0. TypeInv /\ [Next]_vars /\ faults \in Nat
  BY DEF SerialNext, SerialInv, TypeInv, DocTypes
<1>1. ASSUME NEW r \in Requests, Continue(r) PROVE Told(b)' \/ Underway(b)'
  BY <1>0, <1>1, ContinueTold
<1>2. ASSUME NEW r \in Requests, RequestFails(r) PROVE FALSE
  BY <1>0, <1>2 DEF RequestFails
<1>3. ASSUME NEW j \in CronJobs, CronFails(j) PROVE FALSE
  BY <1>0, <1>3 DEF CronFails
<1>4. ASSUME NEW r \in Requests,
             \/ \E c \in Bookings : Begin(r, c)
             \/ \E o \in Orders : VerifyPayment(r, o)
      PROVE  Told(b)' \/ Underway(b)'
  <2>1. /\ UNCHANGED <<booking, payment, faults>> /\ pc[r] = "idle"
        /\ \A q \in Requests : q # r => pc'[q] = pc[q] /\ arg'[q] = arg[q]
    <3>1. pc[r] = "idle"
      BY <1>4 DEF Accept, Begin, ChangeCalls, CouponCalls, PaymentCalls, CancelBooking,
                  UpdateBookingStatus, RescheduleBooking, ApplyCoupon, RemoveCoupon, CreateOrder,
                  CreateRemainingOrder, VerifyPayment, PayWithWallet, PayRemainingWithWallet
    <3> QED
      BY <1>0, <1>4, <3>1, AcceptQuiet DEF db
  <2> QED
    BY <2>1 DEF ToldInv, Told, Underway, HasPaid, Recording
<1>5. ASSUME UNCHANGED <<payment, pc, arg, faults>> PROVE Told(b)' \/ Underway(b)'
  <2>1. HasPaid(b) /\ (Underway(b) => Underway(b)')
    BY <1>5 DEF HasPaid, Underway
  <2> QED
    BY <1>0, <1>5, <2>1, ToldLasts DEF ToldInv
<1> QED
  BY <1>0, <1>1, <1>2, <1>3, <1>4, <1>5
  DEF Next, CreateBooking, WindowExpires, AppointmentNears, ExpireList, ExpireWrite, vars, db, local

\* When handlers never overlap, a coupon changes the price of a booking only while the
\* booking waits for its payment and before any payment of it was completed, unless
\* staff set a booking back that says it was paid or there was a fault (applyCoupon,
\* removeCoupon).
THEOREM PriceFixed == SerialSpec => PriceFixedOncePaid
<1> DEFINE Fixed == \A b \in Bookings : booking'[b].coupon # booking[b].coupon =>
                      /\ booking[b].status = "PENDING_PAYMENT"
                      /\ HasPaid(b) => booking[b].pay \in {"ADVANCE_PAID", "PAID"} \/ faults > 0
<1>1. ASSUME SerialInv, ToldInv, [SerialNext]_vars PROVE Fixed
  <2>0. /\ TypeInv /\ [Next]_vars /\ booking \in [Bookings -> BookingRecord]
        /\ faults \in Nat
    BY <1>1 DEF SerialNext, SerialInv, TypeInv, DocTypes
  <2>1. ASSUME NEW r \in Requests, CouponWrite(r) PROVE Fixed
    <3>1. arg[r].snap = booking[arg[r].b] /\ arg[r].snap.status = "PENDING_PAYMENT"
      BY <1>1, <2>1 DEF CouponWrite, SerialInv, RequestAlone, ReadIsFresh, Holding
    <3>2. \A q \in Requests : pc[q] \notin Recording
      BY <1>1, <2>1, InProgressAlone DEF CouponWrite, Recording
    <3>3. ASSUME NEW b \in Bookings, booking'[b].coupon # booking[b].coupon PROVE b = arg[r].b
      BY <2>0, <2>1, <3>3 DEF CouponWrite
    <3> QED
      BY <1>1, <2>0, <3>1, <3>2, <3>3 DEF ToldInv, Told, Underway
  <2>2. CASE \A b \in Bookings : booking'[b].coupon = booking[b].coupon
    BY <2>2
  <2>3. ASSUME NEW r \in Requests, Continue(r) PROVE Fixed
    <3>1. CASE CancelWrite(r) \/ StatusWrite(r) \/ MoveWrite(r) \/ PayWrite(r)
      BY <2>0, <2>2, <3>1 DEF CancelWrite, StatusWrite, MoveWrite, PayWrite, BookingRecord
    <3> QED
      BY <2>1, <2>2, <2>3, <3>1
      DEF Continue, Credit, CreditTx, CouponCheck, OrderInsert, Complete, Reread, DebitRead, Debit,
          DebitTx, PaymentInsert, CouponCount, RoomCreate, HoldFind, Hold, db
  <2>4. ASSUME NEW b \in Bookings, CreateBooking(b) PROVE Fixed
    BY <2>0, <2>4 DEF CreateBooking, BookingRecord
  <2>5. ASSUME NEW j \in CronJobs, NEW b \in Bookings, ExpireWrite(j, b) PROVE Fixed
    BY <2>0, <2>5 DEF ExpireWrite, BookingRecord
  <2> QED
    BY <2>0, <2>2, <2>3, <2>4, <2>5, AcceptQuiet
    DEF Next, WindowExpires, AppointmentNears, RequestFails, ExpireList, CronFails, vars, db
<1>2. SerialInv /\ ToldInv /\ [SerialNext]_vars => [Fixed]_vars
  BY <1>1
<1>3. Init => ToldInv
  BY DEF Init, ToldInv, HasPaid, NoPayment
<1> QED
  BY SerialInit, SerialStep, ToldStep, <1>2, <1>3, PTL
  DEF SerialSpec, SerialNext, PriceFixedOncePaid

-----------------------------------------------------------------------------
(* What a handler decided on stands when it writes, as long as nobody else  *)
(* is served: the appointment it moves may still be moved, and the coupon   *)
(* it applies has uses left.                                                *)

RequestStands(r) ==
  /\ pc[r] = "moveWrite" => Reschedulable(arg[r].snap)
  /\ pc[r] = "couponWrite" /\ arg[r].op = "applyCoupon" => couponUsed < MaxUsage

StandsInv == \A r \in Requests : RequestStands(r)

LEMMA StandsStep == SerialInv /\ StandsInv /\ [SerialNext]_vars => StandsInv'
<1> SUFFICES ASSUME SerialInv, StandsInv, [SerialNext]_vars PROVE StandsInv'
  OBVIOUS
<1>0. /\ TypeInv /\ [Next]_vars
      /\ pc \in [Requests -> Labels] /\ arg \in [Requests -> LocalData]
  BY DEF SerialNext, SerialInv, TypeInv, LocalTypes
<1>1. ASSUME NEW r \in Requests, Continue(r) \/ RequestFails(r) PROVE StandsInv'
  <2>1. pc[r] # "idle" /\ \A q \in Requests : q # r => pc'[q] = pc[q]
    BY <1>0, <1>1, ContinueQuiet
  <2>2. \A q \in Requests : q # r => pc'[q] = "idle"
    BY <2>1, InProgressAlone
  <2>3. RequestStands(r)'
    <3>1. CASE CouponCheck(r)
      BY <1>0, <3>1 DEF CouponCheck, CouponUsable, Goto, Answer, RequestStands, db
    <3>2. CASE pc'[r] \notin {"moveWrite", "couponWrite"}
      BY <3>2 DEF RequestStands
    <3> QED
      BY <1>0, <1>1, <3>1, <3>2
      DEF RequestFails, Answer, Goto, Continue, Credit, CreditTx, CancelWrite, StatusWrite,
          MoveWrite, CouponWrite, OrderInsert, Complete, Reread, AfterPayment, DebitRead, Debit,
          DebitTx, PaymentInsert, CouponCount, RoomCreate, PayWrite, HoldFind, Hold
  <2> QED
    BY <2>2, <2>3 DEF StandsInv, RequestStands
<1>2. ASSUME NEW r \in Requests,
             \/ \E b \in Bookings : Begin(r, b)
             \/ \E o \in Orders : VerifyPayment(r, o)
      PROVE  StandsInv'
  <2>1. /\ UNCHANGED couponUsed
        /\ \A q \in Requests : q # r => pc'[q] = pc[q] /\ arg'[q] = arg[q]
    BY <1>0, <1>2, AcceptQuiet DEF db
  <2>2. RequestStands(r)'
    <3>1. ASSUME NEW b \in Bookings, RescheduleBooking(r, b) PROVE RequestStands(r)'
      BY <1>0, <3>1 DEF RescheduleBooking, Accept, RequestStands, Reschedulable
    <3>2. ASSUME NEW b \in Bookings, RemoveCoupon(r, b) PROVE RequestStands(r)'
      BY <1>0, <3>2 DEF RemoveCoupon, Accept, RequestStands
    <3>3. CASE pc'[r] \notin {"moveWrite", "couponWrite"}
      BY <3>3 DEF RequestStands
    <3> QED
      BY <1>0, <1>2, <3>1, <3>2, <3>3
      DEF Accept, Begin, ChangeCalls, CouponCalls, PaymentCalls, CancelBooking,
          UpdateBookingStatus, ApplyCoupon, CreateOrder, CreateRemainingOrder, VerifyPayment,
          PayWithWallet, PayRemainingWithWallet
  <2> QED
    BY <2>1, <2>2 DEF StandsInv, RequestStands
<1>3. CASE UNCHANGED <<couponUsed, pc, arg>>
  BY <1>3 DEF StandsInv, RequestStands
<1> QED
  BY <1>0, <1>1, <1>2, <1>3
  DEF Next, CreateBooking, WindowExpires, AppointmentNears, ExpireList, CronFails, ExpireWrite,
      vars, db, local

LEMMA StandsInit == Init => StandsInv
BY DEF Init, StandsInv, RequestStands

\* When handlers never overlap, an appointment is put off once, while it is
\* confirmed (rescheduleBooking).
THEOREM AppointmentsMoveOnce == SerialSpec => PutOffOnce
<1> DEFINE Once == \A b \in Bookings :
                     PutOff(b) => /\ booking[b].status = "CONFIRMED"
                                  /\ booking[b].moved = 0 /\ booking'[b].moved = 1
<1>1. ASSUME SerialInv, StandsInv, [SerialNext]_vars PROVE Once
  <2>0. /\ TypeInv /\ [Next]_vars /\ booking \in [Bookings -> BookingRecord]
        /\ lead \in [Bookings -> Leads]
    BY <1>1 DEF SerialNext, SerialInv, TypeInv, DocTypes
  <2>1. ASSUME NEW r \in Requests, MoveWrite(r) PROVE Once
    <3>1. /\ arg[r].snap = booking[arg[r].b] /\ Reschedulable(arg[r].snap)
          /\ arg[r].b \in Bookings /\ pc[r] = "moveWrite"
      BY <1>1, <2>1
      DEF MoveWrite, SerialInv, RequestAlone, ReadIsFresh, Holding, StandsInv, RequestStands,
          TypeInv, RequestsBound, RequestBound
    <3>2. booking[arg[r].b].status = "CONFIRMED" /\ booking[arg[r].b].moved = 0
      BY <2>0, <3>1 DEF Reschedulable, BookingRecord
    <3>3. booking'[arg[r].b].moved = 1
      BY <2>0, <2>1, <3>1, <3>2 DEF MoveWrite, BookingRecord
    <3>4. \A b \in Bookings : b # arg[r].b => lead'[b] = lead[b]
      BY <2>0, <2>1 DEF MoveWrite
    <3> QED
      BY <3>2, <3>3, <3>4 DEF PutOff
  <2>2. CASE UNCHANGED lead
    BY <2>2 DEF PutOff
  <2>3. ASSUME NEW b \in Bookings, AppointmentNears(b) PROVE Once
    BY <2>0, <2>3 DEF AppointmentNears, PutOff, Leads
  <2>4. ASSUME NEW r \in Requests, Continue(r) PROVE Once
    BY <2>1, <2>2, <2>4
    DEF Continue, Credit, CreditTx, CancelWrite, StatusWrite, CouponCheck, CouponWrite,
        OrderInsert, Complete, Reread, DebitRead, Debit, DebitTx, PaymentInsert, CouponCount,
        RoomCreate, PayWrite, HoldFind, Hold, clock
  <2> HIDE DEF Once
  <2> QED
    BY <2>0, <2>2, <2>3, <2>4, AcceptQuiet
    DEF Next, CreateBooking, WindowExpires, RequestFails, ExpireList, CronFails, ExpireWrite,
        vars, clock
<1>2. SerialInv /\ StandsInv /\ [SerialNext]_vars => [Once]_vars
  BY <1>1
<1> QED
  BY SerialInit, SerialStep, StandsInit, StandsStep, <1>2, PTL DEF SerialSpec, SerialNext, PutOffOnce

\* When handlers never overlap, a booking gets the coupon only while the coupon
\* has uses left (validateCoupon, applyCoupon).
THEOREM CouponsHadUses == SerialSpec => CouponNeedsUses
<1> DEFINE Usable == \A b \in Bookings :
                       booking'[b].coupon /\ ~booking[b].coupon => couponUsed < MaxUsage
<1>1. ASSUME SerialInv, StandsInv, [SerialNext]_vars PROVE Usable
  <2>0. TypeInv /\ [Next]_vars /\ booking \in [Bookings -> BookingRecord]
    BY <1>1 DEF SerialNext, SerialInv, TypeInv, DocTypes
  <2>1. ASSUME NEW r \in Requests, CouponWrite(r) PROVE Usable
    <3>1. CASE arg[r].op = "applyCoupon"
      BY <1>1, <2>1, <3>1 DEF CouponWrite, StandsInv, RequestStands
    <3>2. CASE arg[r].op # "applyCoupon"
      BY <2>0, <2>1, <3>2 DEF CouponWrite, BookingRecord
    <3> QED
      BY <3>1, <3>2
  <2>2. CASE \A b \in Bookings : booking'[b].coupon = booking[b].coupon
    BY <2>2
  <2>3. ASSUME NEW r \in Requests, Continue(r) PROVE Usable
    <3>1. CASE CancelWrite(r) \/ StatusWrite(r) \/ MoveWrite(r) \/ PayWrite(r)
      BY <2>0, <2>2, <3>1 DEF CancelWrite, StatusWrite, MoveWrite, PayWrite, BookingRecord
    <3> QED
      BY <2>1, <2>2, <2>3, <3>1
      DEF Continue, Credit, CreditTx, CouponCheck, OrderInsert, Complete, Reread, DebitRead, Debit,
          DebitTx, PaymentInsert, CouponCount, RoomCreate, HoldFind, Hold, db
  <2>4. ASSUME NEW b \in Bookings, CreateBooking(b) PROVE Usable
    BY <2>0, <2>2, <2>4 DEF CreateBooking, BookingRecord
  <2>5. ASSUME NEW j \in CronJobs, NEW b \in Bookings, ExpireWrite(j, b) PROVE Usable
    BY <2>0, <2>2, <2>5 DEF ExpireWrite, BookingRecord
  <2> QED
    BY <2>0, <2>2, <2>3, <2>4, <2>5, AcceptQuiet
    DEF Next, WindowExpires, AppointmentNears, RequestFails, ExpireList, CronFails, vars, db
<1>2. SerialInv /\ StandsInv /\ [SerialNext]_vars => [Usable]_vars
  BY <1>1
<1> QED
  BY SerialInit, SerialStep, StandsInit, StandsStep, <1>2, PTL
  DEF SerialSpec, SerialNext, CouponNeedsUses

-----------------------------------------------------------------------------
(* One payment is not applied twice.  A booking is marked paid in full by a *)
(* request that found it with an advance paid, and it pays itself: the      *)
(* advance has a completed payment of its own (PaidInv), which cannot be    *)
(* the document this request completes or inserts.                          *)

TwoPaid(b) ==
  \E o, p \in Orders :
    /\ o # p
    /\ payment[o].state = "COMPLETED" /\ payment[o].b = b
    /\ payment[p].state = "COMPLETED" /\ payment[p].b = b

RequestTwice(r) ==
  /\ pc[r] = "complete" => payment[arg[r].o].state = "PENDING"
  /\ pc[r] = "reread" /\ booking[arg[r].b].pay = "ADVANCE_PAID" => TwoPaid(arg[r].b)
  /\ pc[r] \in {"couponCount", "roomCreate", "payWrite"} /\ arg[r].snap.pay = "ADVANCE_PAID" =>
       TwoPaid(arg[r].b)

TwiceInv ==
  /\ \A b \in Bookings : booking[b].pay = "PAID" => TwoPaid(b)
  /\ \A r \in Requests : RequestTwice(r)

LEMMA TwoPaidLasts ==
  ASSUME TypeInv, [Next]_vars, NEW b, TwoPaid(b)
  PROVE  TwoPaid(b)'
BY CompletedLasts DEF TwoPaid

\* The step of a request in progress, as far as the request is concerned.
LEMMA ContinueTwice ==
  ASSUME SerialInv, PaidInv, TwiceInv, [Next]_vars, NEW r \in Requests, Continue(r)
  PROVE  RequestTwice(r)'
<1> DEFINE b == arg[r].b
           o == arg[r].o
<1>0. /\ pc[r] # "idle" /\ TypeInv /\ pc \in [Requests -> Labels] /\ arg \in [Requests -> LocalData]
      /\ RequestTwice(r) /\ RequestAlone(r)
      /\ payment \in [Orders -> PaymentRecord]
  BY ContinueQuiet DEF SerialInv, TwiceInv, TypeInv, LocalTypes, DocTypes
<1>1. b \in Bookings
  BY <1>0 DEF TypeInv, RequestsBound, RequestBound
<1>2. booking[b].pay = "ADVANCE_PAID" =>
        \E p \in Orders : payment[p].state = "COMPLETED" /\ payment[p].b = b
  BY <1>1 DEF PaidInv, DocsPaid, PaidFor, Settled
<1>3. TwoPaid(b) => \E p, q \in Orders :
        /\ p # q
        /\ payment'[p].state = "COMPLETED" /\ payment'[p].b = b
        /\ payment'[q].state = "COMPLETED" /\ payment'[q].b = b
  BY <1>0, CompletedLasts DEF TwoPaid
<1>4. CASE \/ Credit(r) \/ CreditTx(r) \/ CancelWrite(r) \/ StatusWrite(r) \/ MoveWrite(r)
           \/ CouponCheck(r) \/ CouponWrite(r) \/ OrderInsert(r) \/ DebitRead(r) \/ Debit(r)
           \/ DebitTx(r) \/ PayWrite(r) \/ HoldFind(r) \/ Hold(r)
  <2>1. pc'[r] \notin {"complete", "reread", "couponCount", "roomCreate", "payWrite"}
    BY <1>0, <1>4
    DEF Credit, CreditTx, CancelWrite, StatusWrite, MoveWrite, CouponCheck, CouponWrite,
        OrderInsert, DebitRead, Debit, DebitTx, PayWrite, HoldFind, Hold, Answer, Goto
  <2> QED
    BY <2>1 DEF RequestTwice
<1>5. CASE Complete(r)
  <2>1. o \in Orders /\ payment[o].b = b /\ payment[o].state = "PENDING"
    BY <1>0, <1>5 DEF Complete, TypeInv, RequestsBound, RequestBound, RequestTwice
  <2>2. payment'[o].state = "COMPLETED" /\ payment'[o].b = b
    BY <1>0, <1>5, <2>1 DEF Complete, PaymentRecord
  <2>3. \A p \in Orders : payment[p].state = "COMPLETED" => p # o /\ payment'[p] = payment[p]
    BY <1>0, <1>5, <2>1 DEF Complete
  <2>4. pc'[r] = "reread" /\ arg'[r] = arg[r] /\ booking' = booking
    BY <1>0, <1>5 DEF Complete, Goto
  <2> QED
    BY <1>2, <2>1, <2>2, <2>3, <2>4 DEF RequestTwice, TwoPaid
<1>6. CASE Reread(r)
  <2>1. arg'[r].b = b /\ arg'[r].snap = booking[b] /\ payment' = payment /\ pc[r] = "reread"
    BY <1>0, <1>6 DEF Reread, LocalData, db
  <2>2. pc'[r] \notin {"complete", "reread"}
    BY <1>0, <1>6 DEF Reread, AfterPayment
  <2> QED
    BY <1>0, <2>1, <2>2 DEF RequestTwice, TwoPaid
<1>7. CASE PaymentInsert(r)
  <2>1. arg[r].snap = booking[b]
    BY <1>0, <1>7 DEF PaymentInsert, RequestAlone, ReadIsFresh, Holding
  <2>2. PICK n \in Orders :
          /\ payment[n].state = "NONE"
          /\ payment' = [payment EXCEPT ![n] =
               [state |-> "COMPLETED", b |-> b, amount |-> Due(arg[r].snap)]]
    BY <1>7 DEF PaymentInsert
  <2>3. payment'[n].state = "COMPLETED" /\ payment'[n].b = b
    BY <1>0, <2>2
  <2>4. \A p \in Orders : payment[p].state = "COMPLETED" => p # n /\ payment'[p] = payment[p]
    BY <1>0, <2>2
  <2>5. arg'[r] = arg[r] /\ pc'[r] \notin {"complete", "reread"}
    BY <1>0, <1>7 DEF PaymentInsert, Goto, AfterPayment
  <2> QED
    BY <1>2, <2>1, <2>3, <2>4, <2>5 DEF RequestTwice, TwoPaid
<1>8. CASE CouponCount(r) \/ RoomCreate(r)
  <2>1. /\ arg'[r] = arg[r] /\ pc'[r] \in {"roomCreate", "payWrite"}
        /\ pc[r] \in {"couponCount", "roomCreate"}
    BY <1>0, <1>8 DEF CouponCount, RoomCreate, Goto
  <2> QED
    BY <1>0, <1>3, <2>1 DEF RequestTwice, TwoPaid
<1> QED
  BY <1>4, <1>5, <1>6, <1>7, <1>8 DEF Continue

LEMMA TwiceStep == SerialInv /\ PaidInv /\ TwiceInv /\ [SerialNext]_vars => TwiceInv'
<1> SUFFICES ASSUME SerialInv, PaidInv, TwiceInv, [SerialNext]_vars PROVE TwiceInv'
  OBVIOUS
<1>0. /\ TypeInv /\ [Next]_vars /\ booking \in [Bookings -> BookingRecord]
      /\ payment \in [Orders -> PaymentRecord]
  BY DEF SerialNext, SerialInv, TypeInv, DocTypes
<1> DEFINE Docs == \A b \in Bookings : booking[b].pay = "PAID" => TwoPaid(b)
           Reqs == \A r \in Requests : RequestTwice(r)
\* No booking becomes paid in full but by a request that pays the remainder.
<1>1. CASE \A b \in Bookings : booking'[b].pay = "PAID" => booking[b].pay = "PAID" \/ TwoPaid(b)
  <2>1. Docs'
    BY <1>0, <1>1, TwoPaidLasts DEF TwiceInv
  <2>2. ASSUME NEW r \in Requests, Continue(r) PROVE Reqs'
    <3>1. pc[r] # "idle" /\ \A q \in Requests : q # r => pc'[q] = pc[q]
      BY <1>0, <2>2, ContinueQuiet
    <3>2. RequestTwice(r)'
      BY <1>0, <2>2, ContinueTwice
    <3> QED
      BY <3>1, <3>2, InProgressAlone DEF RequestTwice
  <2>3. ASSUME NEW r \in Requests, RequestFails(r) PROVE Reqs'
    <3>1. pc[r] # "idle" /\ pc'[r] = "idle" /\ \A q \in Requests : q # r => pc'[q] = pc[q]
      BY <1>0, <2>3, ContinueQuiet DEF RequestFails, Answer, TypeInv, LocalTypes
    <3> QED
      BY <3>1, InProgressAlone DEF RequestTwice
  <2>4. ASSUME NEW r \in Requests,
               \/ \E b \in Bookings : Begin(r, b)
               \/ \E o \in Orders : VerifyPayment(r, o)
        PROVE  Reqs'
    <3>1. /\ UNCHANGED <<booking, payment>>
          /\ \A q \in Requests : q # r => pc'[q] = pc[q] /\ arg'[q] = arg[q]
      BY <1>0, <2>4, AcceptQuiet DEF db
    <3>2. /\ pc'[r] \notin {"reread", "couponCount", "roomCreate", "payWrite"}
          /\ pc'[r] = "complete" => payment[arg'[r].o].state = "PENDING"
      BY <1>0, <2>4
      DEF TypeInv, LocalTypes, Accept, Begin, ChangeCalls, CouponCalls, PaymentCalls,
          CancelBooking, UpdateBookingStatus, RescheduleBooking, ApplyCoupon, RemoveCoupon,
          CreateOrder, CreateRemainingOrder, VerifyPayment, Verifiable, PayWithWallet,
          PayRemainingWithWallet
    <3>3. RequestTwice(r)'
      BY <3>1, <3>2 DEF RequestTwice
    <3> QED
      BY <3>1, <3>3 DEF TwiceInv, RequestTwice, TwoPaid
  <2>5. ASSUME UNCHANGED <<pc, arg, payment>>,
               \A b \in Bookings : booking'[b].pay = "ADVANCE_PAID" => booking[b].pay = "ADVANCE_PAID"
        PROVE  Reqs'
    <3>1. \A r \in Requests : pc[r] = "reread" => arg[r].b \in Bookings
      BY <1>0 DEF TypeInv, RequestsBound, RequestBound
    <3> QED
      BY <2>5, <3>1 DEF TwiceInv, RequestTwice, TwoPaid
  <2>6. ASSUME NEW b \in Bookings, CreateBooking(b) PROVE Reqs'
    BY <1>0, <2>5, <2>6 DEF CreateBooking, local, BookingRecord
  <2>7. ASSUME NEW j \in CronJobs, NEW b \in Bookings, ExpireWrite(j, b) PROVE Reqs'
    BY <1>0, <2>5, <2>7 DEF ExpireWrite, local, BookingRecord
  <2>8. ASSUME UNCHANGED <<pc, arg, payment, booking>> PROVE Reqs'
    BY <2>5, <2>8
  <2>9. Reqs'
    <3> HIDE DEF Reqs
    <3> QED
      BY <1>0, <2>2, <2>3, <2>4, <2>6, <2>7, <2>8
      DEF Next, WindowExpires, AppointmentNears, ExpireList, CronFails, vars, db, local
  <2> QED
    BY <2>1, <2>9 DEF TwiceInv
<1>2. \A b \in Bookings : booking'[b].pay = "PAID" => booking[b].pay = "PAID" \/ TwoPaid(b)
  <2> DEFINE Kept == \A b \in Bookings :
                       booking'[b].pay = "PAID" => booking[b].pay = "PAID" \/ TwoPaid(b)
  <2>1. ASSUME NEW r \in Requests, Continue(r) PROVE Kept
    <3>0. /\ RequestAlone(r) /\ RequestTwice(r) /\ pc[r] # "idle"
          /\ ReadIsFresh(r) => arg[r].snap = booking[arg[r].b]
      BY <1>0, <2>1, ContinueQuiet DEF SerialInv, TwiceInv, RequestAlone
    <3>1. CASE CancelWrite(r)
      BY <1>0, <3>0, <3>1 DEF CancelWrite, PayOnCancel, ReadIsFresh, Holding, BookingRecord
    <3>2. CASE PayWrite(r)
      BY <1>0, <3>0, <3>2 DEF PayWrite, NewPaymentStatus, RequestTwice, BookingRecord
    <3>3. CASE StatusWrite(r) \/ MoveWrite(r) \/ CouponWrite(r)
      BY <1>0, <3>3 DEF StatusWrite, MoveWrite, CouponWrite, BookingRecord
    <3>4. CASE UNCHANGED booking
      BY <3>4
    <3> QED
      BY <2>1, <3>1, <3>2, <3>3, <3>4
      DEF Continue, Credit, CreditTx, CouponCheck, OrderInsert, Complete, Reread, DebitRead, Debit,
          DebitTx, PaymentInsert, CouponCount, RoomCreate, HoldFind, Hold, db
  <2>2. ASSUME NEW b \in Bookings, CreateBooking(b) PROVE Kept
    BY <1>0, <2>2 DEF CreateBooking, BookingRecord
  <2>3. ASSUME NEW j \in CronJobs, NEW b \in Bookings, ExpireWrite(j, b) PROVE Kept
    BY <1>0, <2>3 DEF ExpireWrite, BookingRecord
  <2>4. ASSUME UNCHANGED booking PROVE Kept
    BY <2>4
  <2> HIDE DEF Kept
  <2>5. Kept
    BY <1>0, <2>1, <2>2, <2>3, <2>4, AcceptQuiet
    DEF Next, WindowExpires, AppointmentNears, RequestFails, ExpireList, CronFails, vars, db
  <2> QED
    BY <2>5 DEF Kept
<1> QED
  BY <1>1, <1>2

\* When handlers never overlap, a booking counts as paid in full only after two
\* payments of it went through, the advance and the remainder (verifyPayment,
\* payWithWallet, payRemainingWithWallet): one payment is not applied twice.
THEOREM PaidTwice == SerialSpec => []PaidByTwoPayments
<1>1. Init => SerialInv /\ PaidInv /\ TwiceInv
  <2>1. Init => TwiceInv
    BY DEF Init, TwiceInv, RequestTwice, NoBookingRecord
  <2> QED
    BY <2>1, SerialInit, PaidInit
<1>2. SerialInv /\ PaidInv /\ TwiceInv /\ [SerialNext]_vars => (SerialInv /\ PaidInv /\ TwiceInv)'
  BY SerialStep, PaidStep, TwiceStep DEF SerialInv, SerialNext
<1>3. TwiceInv => PaidByTwoPayments
  <2> SUFFICES ASSUME TwiceInv, NEW b \in Bookings, booking[b].pay = "PAID"
               PROVE  Cardinality(Completed(b)) >= 2
    BY DEF PaidByTwoPayments
  <2>1. PICK o, p \in Orders : o # p /\ o \in Completed(b) /\ p \in Completed(b)
    BY DEF TwiceInv, TwoPaid, Completed
  <2>2. IsFiniteSet({o}) /\ Cardinality({o}) = 1
    BY FS_Singleton
  <2>3. Cardinality({o} \cup {p}) = 2
    <3>1. p \notin {o}
      BY <2>1
    <3>2. Cardinality({o} \cup {p}) = Cardinality({o}) + 1
      BY <2>2, <3>1, FS_AddElement
    <3> QED
      BY <2>2, <3>2
  <2>4. IsFiniteSet(Completed(b)) /\ {o} \cup {p} \subseteq Completed(b)
    BY <2>1, OrdersAssumption, FS_Subset DEF Completed
  <2>5. Cardinality({o} \cup {p}) <= Cardinality(Completed(b)) /\ Cardinality(Completed(b)) \in Nat
    BY <2>4, FS_Subset, FS_CardinalityType
  <2> QED
    BY <2>3, <2>5
<1> QED
  BY <1>1, <1>2, <1>3, PTL DEF SerialSpec, SerialNext

-----------------------------------------------------------------------------
(* The uses of the coupon that are counted.  Between a completed payment    *)
(* and the count there is one use less than payments: a payment is          *)
(* completed once, and the handler that counts has just completed it.       *)

AllCompleted == {o \in Orders : payment[o].state = "COMPLETED"}

UsesInv ==
  /\ couponUsed <= Cardinality(AllCompleted)
  /\ \A r \in Requests :
       pc[r] \in {"reread", "couponCount"} => couponUsed < Cardinality(AllCompleted)

\* A payment that is completed is one more.
LEMMA OneMoreCompleted ==
  ASSUME TypeInv, NEW o \in Orders, payment[o].state # "COMPLETED",
         AllCompleted' = AllCompleted \cup {o}
  PROVE  /\ Cardinality(AllCompleted) \in Nat
         /\ Cardinality(AllCompleted)' = Cardinality(AllCompleted) + 1
<1>1. IsFiniteSet(AllCompleted) /\ o \notin AllCompleted
  BY OrdersAssumption, FS_Subset DEF AllCompleted
<1>2. PICK all : all = AllCompleted'
  OBVIOUS
<1>3. Cardinality(all) = Cardinality(AllCompleted) + 1 /\ Cardinality(AllCompleted) \in Nat
  BY <1>1, <1>2, FS_AddElement, FS_CardinalityType
<1> QED
  BY <1>2, <1>3

LEMMA UsesStep == SerialInv /\ TwiceInv /\ UsesInv /\ [SerialNext]_vars => UsesInv'
<1> SUFFICES ASSUME SerialInv, TwiceInv, UsesInv, [SerialNext]_vars PROVE UsesInv'
  OBVIOUS
<1>0. /\ TypeInv /\ [Next]_vars /\ payment \in [Orders -> PaymentRecord] /\ couponUsed \in Nat
      /\ pc \in [Requests -> Labels] /\ arg \in [Requests -> LocalData]
  BY DEF SerialNext, SerialInv, TypeInv, DocTypes, LocalTypes
<1> DEFINE done == Cardinality(AllCompleted)
<1>1. done \in Nat
  BY OrdersAssumption, FS_Subset, FS_CardinalityType DEF AllCompleted
\* What a step has to see to, of the one request that is in progress after it.
<1>2. ASSUME NEW r \in Requests, \A q \in Requests : q # r => pc'[q] = "idle",
             couponUsed' <= done',
             pc'[r] \in {"reread", "couponCount"} => couponUsed' < done'
      PROVE  UsesInv'
  BY <1>2 DEF UsesInv
<1>3. ASSUME NEW r \in Requests, Continue(r) \/ RequestFails(r) PROVE UsesInv'
  <2>1. pc[r] # "idle" /\ \A q \in Requests : q # r => pc'[q] = "idle"
    BY <1>0, <1>3, ContinueQuiet, InProgressAlone
  <2>2. CASE Complete(r)
    <3>1. arg[r].o \in Orders /\ payment[arg[r].o].state = "PENDING"
      BY <2>2 DEF Complete, TwiceInv, RequestTwice, SerialInv, TypeInv, RequestsBound, RequestBound
    <3>2. AllCompleted' = AllCompleted \cup {arg[r].o}
      BY <1>0, <2>2, <3>1 DEF Complete, AllCompleted, PaymentRecord
    <3>3. done' = done + 1 /\ couponUsed' = couponUsed
      BY <1>0, <2>2, <3>1, <3>2, OneMoreCompleted DEF Complete
    <3> QED
      BY <1>0, <1>1, <1>2, <2>1, <3>3 DEF UsesInv
  <2>3. CASE PaymentInsert(r)
    <3>1. PICK o \in Orders :
            /\ payment[o].state = "NONE"
            /\ payment' = [payment EXCEPT ![o] =
                 [state |-> "COMPLETED", b |-> arg[r].b, amount |-> Due(arg[r].snap)]]
      BY <2>3 DEF PaymentInsert
    <3>2. AllCompleted' = AllCompleted \cup {o}
      BY <1>0, <3>1 DEF AllCompleted
    <3>3. done' = done + 1 /\ couponUsed' = couponUsed
      BY <1>0, <2>3, <3>1, <3>2, OneMoreCompleted DEF PaymentInsert
    <3> QED
      BY <1>0, <1>1, <1>2, <2>1, <3>3 DEF UsesInv
  <2>4. CASE CouponCount(r)
    <3>1. couponUsed < done /\ couponUsed' = couponUsed + 1 /\ done' = done /\ pc'[r] = "roomCreate"
      BY <1>0, <2>4 DEF CouponCount, UsesInv, AllCompleted, Goto
    <3> QED
      BY <1>0, <1>1, <1>2, <2>1, <3>1
  <2>5. CASE Reread(r)
    <3>1. couponUsed < done /\ couponUsed' = couponUsed /\ done' = done
      BY <1>0, <2>5 DEF Reread, UsesInv, AllCompleted, db
    <3> QED
      BY <1>0, <1>1, <1>2, <2>1, <3>1
  <2>6. ASSUME UNCHANGED couponUsed, AllCompleted' = AllCompleted,
               pc'[r] \notin {"reread", "couponCount"}
        PROVE  UsesInv'
    BY <1>2, <2>1, <2>6 DEF UsesInv
  <2>7. CASE OrderInsert(r)
    <3>1. AllCompleted' = AllCompleted
      BY <1>0, <2>7 DEF OrderInsert, AllCompleted
    <3> QED
      BY <1>0, <2>6, <2>7, <3>1 DEF OrderInsert, Answer
  <2>8. UNCHANGED payment => AllCompleted' = AllCompleted
    BY DEF AllCompleted
  <2> QED
    BY <1>0, <1>3, <2>2, <2>3, <2>4, <2>5, <2>6, <2>7, <2>8
    DEF RequestFails, Answer, Goto, Continue, Credit, CreditTx, CancelWrite, StatusWrite, MoveWrite,
        CouponCheck, CouponWrite, DebitRead, Debit, DebitTx, RoomCreate, PayWrite, HoldFind, Hold, db
<1>4. ASSUME NEW r \in Requests,
             \/ \E b \in Bookings : Begin(r, b)
             \/ \E o \in Orders : VerifyPayment(r, o)
      PROVE  UsesInv'
  <2>1. /\ UNCHANGED <<payment, couponUsed>>
        /\ \A q \in Requests : q # r => pc'[q] = pc[q]
    BY <1>0, <1>4, AcceptQuiet DEF db
  <2>2. pc'[r] \notin {"reread", "couponCount"}
    BY <1>0, <1>4
    DEF Accept, Begin, ChangeCalls, CouponCalls, PaymentCalls, CancelBooking, UpdateBookingStatus,
        RescheduleBooking, ApplyCoupon, RemoveCoupon, CreateOrder, CreateRemainingOrder,
        VerifyPayment, PayWithWallet, PayRemainingWithWallet
  <2>3. AllCompleted' = AllCompleted
    BY <2>1 DEF AllCompleted
  <2> QED
    BY <2>1, <2>2, <2>3 DEF UsesInv
<1>5. CASE UNCHANGED <<payment, couponUsed, pc>>
  <2>1. AllCompleted' = AllCompleted
    BY <1>5 DEF AllCompleted
  <2> QED
    BY <1>5, <2>1 DEF UsesInv
<1> QED
  BY <1>0, <1>3, <1>4, <1>5
  DEF Next, CreateBooking, WindowExpires, AppointmentNears, ExpireList, CronFails, ExpireWrite,
      vars, db, local

\* When handlers never overlap, each use of the coupon that is counted belongs to
\* a completed payment of its own, wherever handlers are cut short
\* (verifyPayment, payWithWallet, incrementUsedCount).
THEOREM UsesArePaid == SerialSpec => []UsesWerePaid
<1>1. Init => SerialInv /\ PaidInv /\ TwiceInv /\ UsesInv
  <2>1. Init => TwiceInv
    BY DEF Init, TwiceInv, RequestTwice, NoBookingRecord
  <2>2. Init => UsesInv
    <3> SUFFICES ASSUME Init PROVE UsesInv
      OBVIOUS
    <3>1. Cardinality(AllCompleted) \in Nat
      BY OrdersAssumption, FS_Subset, FS_CardinalityType DEF AllCompleted
    <3> QED
      BY <3>1 DEF Init, UsesInv
  <2> QED
    BY <2>1, <2>2, SerialInit, PaidInit
<1>2. SerialInv /\ PaidInv /\ TwiceInv /\ UsesInv /\ [SerialNext]_vars
        => (SerialInv /\ PaidInv /\ TwiceInv /\ UsesInv)'
  BY SerialStep, PaidStep, TwiceStep, UsesStep DEF SerialInv, SerialNext
<1>3. UsesInv => UsesWerePaid
  BY DEF UsesInv, UsesWerePaid, AllCompleted
<1> QED
  BY <1>1, <1>2, <1>3, PTL DEF SerialSpec, SerialNext

-----------------------------------------------------------------------------
(* The money of a booking.  What it keeps (the completed payments less the  *)
(* refunds) covers what its payment status says was paid, except between    *)
(* the credit and the last write of a cancellation.  This is of handlers    *)
(* that do not overlap, are not cut short, and pay from the wallet: a       *)
(* second Razorpay order, a fault between a credit and the write that       *)
(* follows it, and the escrow entry of a no-show each break it.             *)

WalletOnly ==
  /\ Ops \cap {"createOrder", "createRemainingOrder"} = {}
  /\ StatusTargets \cap {"NO_SHOW", "PENDING_PAYMENT"} = {}
  /\ MaxFaults = 0

Refunding(b) == \E r \in Requests : pc[r] = "cancelWrite" /\ arg[r].b = b

Owed(b) ==
  IF booking[b].pay = "PAID" THEN PayableAmount(booking[b])
  ELSE IF booking[b].pay = "ADVANCE_PAID" /\ ~Refunding(b) THEN AdvanceAmount(booking[b])
  ELSE 0

Kept(b) == Collected(b) - ledger[b].credit

BooksOf(b) ==
  /\ ledger[b].credit >= 0
  /\ Kept(b) >= Owed(b)
  /\ escrow[b] # NoEscrow => booking[b].pay = "PAID" /\ escrow[b] = PayableAmount(booking[b])
  /\ booking[b].status \in {"ABSENT", "PENDING_PAYMENT"} => booking[b].pay = "PENDING"

\* What the payment it made leaves a request to write.
Covers(r) ==
  Kept(arg[r].b) >= (IF arg[r].snap.pay = "ADVANCE_PAID" THEN PayableAmount(arg[r].snap)
                                                         ELSE AdvanceAmount(arg[r].snap))

RequestPays(r) ==
  /\ pc[r] \notin {"complete", "reread", "orderInsert"}
  /\ pc[r] \in Paying => arg[r].snap.pay # "PAID"
  /\ pc[r] \in {"couponCount", "roomCreate", "payWrite"} => Covers(r)
  /\ pc[r] \in Holding =>
       /\ arg[r].op # "status"
       /\ booking[arg[r].b].pay = "PAID"
       /\ PayableAmount(arg[r].snap) = PayableAmount(booking[arg[r].b])
  /\ pc[r] \in {"credit", "creditTx"} => arg[r].snap.pay = "ADVANCE_PAID"
  /\ pc[r] = "statusWrite" => arg[r].to # "PENDING_PAYMENT"

NonePending == \A o \in Orders : payment[o].state # "PENDING"

MoneyInv ==
  /\ NonePending
  /\ \A b \in Bookings : BooksOf(b)
  /\ \A r \in Requests : RequestPays(r)

\* What a booking has collected is an amount of money; a payment document of
\* it adds to it, and nothing else changes it.
LEMMA CollectedType ==
  ASSUME TypeInv, NEW b
  PROVE  Collected(b) \in Int
<1>1. IsFiniteSet(Completed(b)) /\ Completed(b) \subseteq Orders
  BY OrdersAssumption, FS_Subset DEF Completed
<1>2. \A o \in Completed(b) : Paid[o] \in Int
  BY <1>1 DEF Paid, TypeInv, DocTypes, PaymentRecord
<1> QED
  BY <1>1, <1>2, SumType DEF Collected

LEMMA CollectedGrows ==
  ASSUME TypeInv, NEW n \in Orders, payment[n].state = "NONE", NEW b, NEW amount \in Int,
         payment' = [payment EXCEPT ![n] = [state |-> "COMPLETED", b |-> b, amount |-> amount]]
  PROVE  \A c : Collected(c)' = Collected(c) + (IF c = b THEN amount ELSE 0)
<1>t. payment \in [Orders -> PaymentRecord]
  BY DEF TypeInv, DocTypes
<1> SUFFICES ASSUME NEW c PROVE Collected(c)' = Collected(c) + (IF c = b THEN amount ELSE 0)
  OBVIOUS
<1>1. /\ IsFiniteSet(Completed(c)) /\ Completed(c) \subseteq Orders
      /\ n \notin Completed(c)
  BY OrdersAssumption, FS_Subset DEF Completed
<1>2. \A o \in Completed(c) : Paid[o] \in Int /\ Paid'[o] = Paid[o]
  BY <1>1, <1>t DEF Paid, PaymentRecord
<1>3. Paid'[n] = amount
  BY <1>t DEF Paid
<1>4. SumFunctionOnSet(Paid, Completed(c)) = SumFunctionOnSet(Paid', Completed(c))
  BY <1>1, <1>2, SumSame
<1>5. Completed(c)' = IF c = b THEN Completed(c) \cup {n} ELSE Completed(c)
  BY <1>t DEF Completed
<1>6. CASE c = b
  <2>1. SumFunctionOnSet(Paid', Completed(c) \cup {n}) = SumFunctionOnSet(Paid', Completed(c)) + Paid'[n]
    BY <1>1, <1>2, <1>3, SumAdds
  <2> QED
    BY <1>3, <1>4, <1>5, <1>6, <2>1 DEF Collected
<1>7. CASE c # b
  BY <1>4, <1>5, <1>7, CollectedType DEF Collected
<1> QED
  BY <1>6, <1>7

LEMMA CollectedSame ==
  ASSUME UNCHANGED payment
  PROVE  \A c : Collected(c)' = Collected(c)
BY DEF Collected, Completed, Paid


-----------------------------------------------------------------------------
(* The steps of a request, for the books and for the request.               *)

\* The amounts of a booking depend on its coupon only.
LEMMA SameCoupon ==
  ASSUME NEW bk, NEW ck, bk.coupon = ck.coupon
  PROVE  PayableAmount(bk) = PayableAmount(ck) /\ AdvanceAmount(bk) = AdvanceAmount(ck)
BY DEF PayableAmount, AdvanceAmount

\* What a booking keeps and owes are amounts of money.
LEMMA BooksTyped ==
  ASSUME TypeInv, NEW b \in Bookings
  PROVE  /\ booking[b] \in BookingRecord
         /\ Collected(b) \in Int /\ ledger[b].credit \in Int /\ Kept(b) \in Int
         /\ PayableAmount(booking[b]) \in Nat /\ AdvanceAmount(booking[b]) \in Nat
         /\ AdvanceAmount(booking[b]) <= PayableAmount(booking[b])
         /\ Owed(b) \in Nat
<1>1. booking[b] \in BookingRecord /\ ledger[b].credit \in Int
  BY DEF TypeInv, DocTypes
<1>2. Collected(b) \in Int
  BY CollectedType
<1>3. /\ PayableAmount(booking[b]) \in Nat /\ AdvanceAmount(booking[b]) \in Nat
      /\ AdvanceAmount(booking[b]) <= PayableAmount(booking[b])
  BY <1>1, Amounts
<1> QED
  BY <1>1, <1>2, <1>3 DEF Kept, Owed

\* The books of a booking stay in order when a step leaves them alone, or only
\* collects more or is on its way to refund.
LEMMA BooksKept ==
  ASSUME TypeInv, NEW c \in Bookings, BooksOf(c),
         booking'[c] = booking[c], escrow'[c] = escrow[c], ledger'[c].credit = ledger[c].credit,
         NEW paid \in Nat, Collected(c)' = Collected(c) + paid, Refunding(c) => Refunding(c)'
  PROVE  BooksOf(c)'
<1>1. /\ Collected(c) \in Int /\ ledger[c].credit \in Int
      /\ AdvanceAmount(booking[c]) \in Nat /\ PayableAmount(booking[c]) \in Nat /\ Owed(c) \in Nat
  BY BooksTyped
<1>2. Owed(c)' \in Nat /\ Owed(c)' <= Owed(c)
  BY <1>1 DEF Owed
<1>3. Kept(c)' = Kept(c) + paid /\ Kept(c) \in Int
  BY <1>1 DEF Kept
<1>4. Kept(c)' >= Owed(c)'
  BY <1>1, <1>2, <1>3 DEF BooksOf
<1> QED
  BY <1>4 DEF BooksOf

\* What holds of the request in progress and of its booking.
LEMMA AtWork ==
  ASSUME SerialInv, MoneyInv, NEW r \in Requests, pc[r] # "idle"
  PROVE  /\ TypeInv /\ arg[r].b \in Bookings /\ arg[r] \in LocalData
         /\ arg[r].snap \in BookingRecord /\ arg[r].snap.coupon \in BOOLEAN
         /\ RequestAlone(r) /\ RequestPays(r) /\ BooksOf(arg[r].b)
         /\ \A c : Refunding(c) <=> pc[r] = "cancelWrite" /\ arg[r].b = c
<1>1. TypeInv /\ arg[r].b \in Bookings /\ arg[r] \in LocalData /\ RequestAlone(r)
  BY DEF SerialInv, TypeInv, RequestsBound, RequestBound, LocalTypes
<1>2. arg[r].snap \in BookingRecord /\ arg[r].snap.coupon \in BOOLEAN
  BY <1>1 DEF LocalData, BookingRecord
<1>3. RequestPays(r) /\ BooksOf(arg[r].b)
  BY <1>1 DEF MoneyInv
<1>4. \A c : Refunding(c) <=> pc[r] = "cancelWrite" /\ arg[r].b = c
  BY InProgressAlone DEF Refunding
<1> QED
  BY <1>1, <1>2, <1>3, <1>4

LEMMA PaysContinue ==
  ASSUME SerialInv, MoneyInv, [Next]_vars, NEW r \in Requests, Continue(r)
  PROVE  RequestPays(r)'
<1>a. pc[r] # "idle" /\ TypeInv
  BY ContinueQuiet DEF SerialInv
<1> DEFINE b == arg[r].b
           snap == arg[r].snap
<1>0. /\ b \in Bookings /\ snap \in BookingRecord /\ arg[r] \in LocalData
      /\ RequestAlone(r) /\ RequestPays(r) /\ BooksOf(b)
      /\ ~Refunding(b) \/ pc[r] = "cancelWrite"
      /\ pc \in [Requests -> Labels] /\ arg \in [Requests -> LocalData]
      /\ booking \in [Bookings -> BookingRecord]
  BY <1>a, AtWork DEF TypeInv, LocalTypes, DocTypes
<1>1. CASE \/ CancelWrite(r) \/ StatusWrite(r) \/ MoveWrite(r) \/ CouponWrite(r) \/ OrderInsert(r)
           \/ Complete(r) \/ Reread(r) \/ Hold(r)
  <2>1. pc'[r] = "idle"
    BY <1>0, <1>1
    DEF CancelWrite, StatusWrite, MoveWrite, CouponWrite, OrderInsert, Complete, Reread, Hold,
        Answer, RequestPays, Holding
  <2> QED
    BY <2>1 DEF RequestPays, Paying, Holding
<1>2. CASE Credit(r) \/ CreditTx(r) \/ CouponCheck(r)
  <2>1. /\ pc'[r] \in {"idle", "creditTx", "cancelWrite", "couponWrite"}
        /\ pc'[r] = "creditTx" => pc[r] = "credit" /\ arg'[r] = arg[r]
    BY <1>0, <1>2 DEF Credit, CreditTx, CouponCheck, Answer, Goto
  <2> QED
    BY <1>0, <2>1 DEF RequestPays, Paying, Holding
<1>3. CASE DebitRead(r) \/ Debit(r) \/ DebitTx(r)
  <2>1. /\ pc'[r] \in {"idle", "debit", "debitTx", "paymentInsert"}
        /\ pc'[r] # "idle" => arg'[r] = arg[r]
        /\ pc[r] \in Paying
    BY <1>0, <1>3 DEF DebitRead, Debit, DebitTx, Answer, Goto, Paying
  <2> QED
    BY <1>0, <2>1 DEF RequestPays, Paying, Holding
<1>4. CASE CouponCount(r) \/ RoomCreate(r)
  <2>1. /\ pc'[r] \in {"roomCreate", "payWrite"} /\ pc[r] \in {"couponCount", "roomCreate"}
        /\ arg'[r] = arg[r] /\ UNCHANGED <<payment, ledger>>
    BY <1>0, <1>4 DEF CouponCount, RoomCreate, Goto
  <2>2. \A c : Collected(c)' = Collected(c)
    BY <2>1, CollectedSame
  <2> QED
    BY <1>0, <2>1, <2>2 DEF RequestPays, Paying, Holding, Covers, Kept
<1>5. CASE PaymentInsert(r)
  <2>1. /\ pc'[r] \in {"couponCount", "roomCreate", "payWrite"} /\ arg'[r] = arg[r]
        /\ snap = booking[b] /\ snap.pay # "PAID" /\ UNCHANGED ledger
    BY <1>0, <1>5
    DEF PaymentInsert, Goto, AfterPayment, RequestPays, Paying, RequestAlone, ReadIsFresh, Holding
  <2>2. Due(snap) \in Nat
    BY <1>0, Amounts
  <2>3. PICK k \in Bookings, due \in Nat : k = b /\ due = Due(snap)
    BY <1>0, <2>2
  <2>9. Collected(k)' = Collected(k) + due
    <3>1. PICK n \in Orders :
            /\ payment[n].state = "NONE"
            /\ payment' = [payment EXCEPT ![n] =
                 [state |-> "COMPLETED", b |-> k, amount |-> due]]
      BY <1>5, <2>3 DEF PaymentInsert
    <3>2. due \in Int
      OBVIOUS
    <3> QED
      BY <1>a, <3>1, <3>2, CollectedGrows
  <2>4. /\ Collected(b) \in Int /\ ledger[b].credit \in Int /\ Owed(b) \in Nat
        /\ PayableAmount(snap) \in Nat /\ AdvanceAmount(snap) \in Nat
    BY <1>0, <1>a, <2>1, BooksTyped
  <2>5. Collected(b) - ledger[b].credit >= Owed(b)
    BY <1>0 DEF BooksOf, Kept
  <2>6. ~Refunding(b)
    BY <1>0, <1>5 DEF PaymentInsert
  <2>7. Collected(b) + Due(snap) - ledger[b].credit
          >= (IF snap.pay = "ADVANCE_PAID" THEN PayableAmount(snap) ELSE AdvanceAmount(snap))
    <3>1. CASE snap.pay = "ADVANCE_PAID"
      <4>1. Owed(b) = AdvanceAmount(snap) /\ Due(snap) = PayableAmount(snap) - AdvanceAmount(snap)
        BY <2>1, <2>6, <3>1 DEF Owed, Due
      <4> QED
        BY <2>4, <2>5, <3>1, <4>1
    <3>2. CASE snap.pay # "ADVANCE_PAID"
      <4>1. Due(snap) = AdvanceAmount(snap)
        BY <3>2 DEF Due
      <4> QED
        BY <2>4, <2>5, <3>2, <4>1
    <3> QED
      BY <3>1, <3>2
  <2>8. Covers(r)'
    <3>0. ledger' = ledger
      BY <2>1
    <3>1. Kept(k)' = Collected(k) + due - ledger[k].credit
      <4>1. Collected(k) \in Int /\ ledger[k].credit \in Int
        BY <1>a, BooksTyped
      <4> QED
        BY <2>9, <3>0, <4>1 DEF Kept
    <3>2. arg'[r].b = k /\ arg'[r].snap = snap
      BY <2>1, <2>3
    <3>3. Kept(k)' >= (IF snap.pay = "ADVANCE_PAID" THEN PayableAmount(snap) ELSE AdvanceAmount(snap))
      BY <2>3, <2>7, <3>1
    <3> QED
      BY <3>2, <3>3 DEF Covers
  <2> QED
    BY <2>1, <2>8 DEF RequestPays, Paying, Holding
<1>6. CASE PayWrite(r)
  <2>1. CASE snap.pay # "ADVANCE_PAID"
    BY <1>0, <1>6, <2>1 DEF PayWrite, Answer, RequestPays, Paying, Holding
  <2>2. CASE snap.pay = "ADVANCE_PAID"
    <3>1. pc'[r] = "holdFind" /\ arg'[r] = arg[r] /\ pc[r] = "payWrite"
      BY <1>0, <1>6, <2>2 DEF PayWrite, Goto
    <3>2. arg[r].op # "status" /\ snap = booking[b]
      BY <1>0, <3>1 DEF RequestAlone, Paying, PayOps, ReadIsFresh, Holding
    <3>3. booking'[b].pay = "PAID" /\ booking'[b].coupon = booking[b].coupon
      BY <1>0, <1>6, <2>2 DEF PayWrite, NewPaymentStatus, BookingRecord
    <3>4. PayableAmount(snap) = PayableAmount(booking'[b])
      BY <3>2, <3>3, SameCoupon
    <3> QED
      BY <3>1, <3>2, <3>3, <3>4 DEF RequestPays, Paying, Holding
  <2> QED
    BY <2>1, <2>2
<1>7. CASE HoldFind(r)
  <2>1. /\ pc'[r] \in {"idle", "hold"} /\ (pc'[r] # "idle" => arg'[r] = arg[r])
        /\ pc[r] \in Holding /\ UNCHANGED booking
    BY <1>0, <1>7 DEF HoldFind, Answer, Goto, Holding, db
  <2> QED
    BY <1>0, <2>1 DEF RequestPays, Paying, Holding
<1> QED
  BY <1>1, <1>2, <1>3, <1>4, <1>5, <1>6, <1>7 DEF Continue

-----------------------------------------------------------------------------
(* The same steps, for the books.                                           *)

\* A step of a request writes the books of its own booking only.
LEMMA BooksOfOthers ==
  ASSUME SerialInv, MoneyInv, [Next]_vars, NEW r \in Requests, Continue(r),
         NEW c \in Bookings, c # arg[r].b
  PROVE  BooksOf(c)'
<1>a. pc[r] # "idle" /\ TypeInv
  BY ContinueQuiet DEF SerialInv
<1> DEFINE b == arg[r].b
<1>0. /\ b \in Bookings /\ arg[r].snap \in BookingRecord /\ RequestPays(r) /\ BooksOf(c) /\ ~Refunding(c)
      /\ booking \in [Bookings -> BookingRecord]
      /\ escrow \in [Bookings -> Int \cup {NoEscrow}]
      /\ ledger \in [Bookings -> [credit : Int, debit : Int]]
  BY <1>a, AtWork DEF MoneyInv, TypeInv, DocTypes
<1>1. booking'[c] = booking[c] /\ escrow'[c] = escrow[c] /\ ledger'[c] = ledger[c]
  <2>1. CASE CancelWrite(r) \/ StatusWrite(r) \/ MoveWrite(r) \/ CouponWrite(r) \/ PayWrite(r)
    BY <1>0, <2>1 DEF CancelWrite, StatusWrite, MoveWrite, CouponWrite, PayWrite
  <2>2. CASE CreditTx(r) \/ DebitTx(r) \/ Hold(r)
    BY <1>0, <2>2 DEF CreditTx, DebitTx, Hold
  <2>3. CASE UNCHANGED <<booking, escrow, ledger>>
    BY <2>3
  <2> QED
    BY <2>1, <2>2, <2>3
    DEF Continue, Credit, CouponCheck, OrderInsert, Complete, Reread, DebitRead, Debit,
        PaymentInsert, CouponCount, RoomCreate, HoldFind, db
<1>2. Collected(c) \in Int /\ Collected(c)' = Collected(c) + 0
  <2>1. Collected(c) \in Int
    BY <1>a, BooksTyped
  <2>2. CASE UNCHANGED payment
    BY <2>1, <2>2, CollectedSame
  <2>3. CASE PaymentInsert(r)
    <3>1. PICK k \in Bookings, due \in Int : k = b /\ due = Due(arg[r].snap)
      BY <1>0, Amounts
    <3>2. PICK n \in Orders :
            /\ payment[n].state = "NONE"
            /\ payment' = [payment EXCEPT ![n] =
                 [state |-> "COMPLETED", b |-> k, amount |-> due]]
      BY <2>3, <3>1 DEF PaymentInsert
    <3>3. Collected(c)' = Collected(c) + (IF c = k THEN due ELSE 0)
      BY <1>a, <3>2, CollectedGrows
    <3> QED
      BY <2>1, <3>1, <3>3
  <2>4. ~OrderInsert(r) /\ ~Complete(r)
    BY <1>0 DEF RequestPays, OrderInsert, Complete
  <2> QED
    BY <2>1, <2>2, <2>3, <2>4
    DEF Continue, Credit, CreditTx, CancelWrite, StatusWrite, MoveWrite, CouponCheck, CouponWrite,
        Reread, DebitRead, Debit, DebitTx, CouponCount, RoomCreate, PayWrite, HoldFind, Hold, db
<1>3. 0 \in Nat
  OBVIOUS
<1> QED
  BY <1>a, <1>0, <1>1, <1>2, <1>3, BooksKept

\* And that booking is in order after it.
LEMMA BooksOfItsOwn ==
  ASSUME SerialInv, MoneyInv, [Next]_vars, NEW r \in Requests, Continue(r),
         NEW b \in Bookings, b = arg[r].b
  PROVE  BooksOf(b)'
<1> DEFINE snap == arg[r].snap
<1>a. pc[r] # "idle" /\ TypeInv
  BY ContinueQuiet DEF SerialInv
<1>0. /\ snap \in BookingRecord /\ RequestPays(r) /\ RequestAlone(r) /\ BooksOf(b)
      /\ arg[r].to \in BookingStatus
      /\ Refunding(b) <=> pc[r] = "cancelWrite"
      /\ booking \in [Bookings -> BookingRecord]
      /\ escrow \in [Bookings -> Int \cup {NoEscrow}]
      /\ ledger \in [Bookings -> [credit : Int, debit : Int]]
      /\ pc \in [Requests -> Labels] /\ arg \in [Requests -> LocalData]
  BY <1>a, AtWork DEF TypeInv, LocalTypes, LocalData, DocTypes
<1>1. /\ Collected(b) \in Int /\ ledger[b].credit \in Int /\ Kept(b) \in Int /\ Owed(b) \in Nat
      /\ PayableAmount(booking[b]) \in Nat /\ AdvanceAmount(booking[b]) \in Nat
      /\ AdvanceAmount(booking[b]) <= PayableAmount(booking[b])
      /\ Kept(b) = Collected(b) - ledger[b].credit
  BY <1>a, BooksTyped DEF Kept
<1>2. ReadIsFresh(r) => snap = booking[b]
  BY <1>a, <1>0 DEF RequestAlone
<1>3. Kept(b) >= Owed(b) /\ ledger[b].credit >= 0
  BY <1>0 DEF BooksOf
<1>z. 0 \in Nat
  OBVIOUS
\* The steps that leave the books alone, or only collect.
<1>4. ASSUME UNCHANGED <<booking, escrow, payment>>, ledger'[b].credit = ledger[b].credit,
             pc[r] # "cancelWrite"
      PROVE  BooksOf(b)'
  <2>1. Collected(b)' = Collected(b) + 0
    BY <1>1, <1>4, CollectedSame
  <2> QED
    BY <1>a, <1>z, <1>0, <1>4, <2>1, BooksKept
<1>5. CASE \/ Credit(r) \/ CouponCheck(r) \/ DebitRead(r) \/ Debit(r) \/ CouponCount(r)
           \/ RoomCreate(r) \/ HoldFind(r)
  BY <1>4, <1>5 DEF Credit, CouponCheck, DebitRead, Debit, CouponCount, RoomCreate, HoldFind, db
<1>6. CASE DebitTx(r)
  BY <1>0, <1>4, <1>6 DEF DebitTx
<1>7. CASE OrderInsert(r) \/ Complete(r) \/ Reread(r)
  BY <1>0, <1>7 DEF OrderInsert, Complete, Reread, RequestPays
<1>8. CASE PaymentInsert(r)
  <2>1. PICK due \in Nat : due = Due(snap)
    BY <1>0, Amounts
  <2>2. PICK n \in Orders :
          /\ payment[n].state = "NONE"
          /\ payment' = [payment EXCEPT ![n] = [state |-> "COMPLETED", b |-> b, amount |-> due]]
    BY <1>8, <2>1 DEF PaymentInsert
  <2>3. due \in Int
    OBVIOUS
  <2>4. Collected(b)' = Collected(b) + due
    BY <1>a, <2>2, <2>3, CollectedGrows
  <2>5. UNCHANGED <<booking, escrow, ledger>> /\ ~Refunding(b)
    BY <1>0, <1>8 DEF PaymentInsert
  <2> QED
    BY <1>a, <1>0, <2>4, <2>5, BooksKept
\* The refund of a cancellation: the advance goes back, and nothing is owed
\* until the booking is written.
<1>9. CASE CreditTx(r)
  <2>1. snap = booking[b] /\ booking[b].pay = "ADVANCE_PAID" /\ ~Refunding(b)
    BY <1>0, <1>2, <1>9 DEF CreditTx, ReadIsFresh, Holding, RequestPays
  <2>2. Owed(b) = AdvanceAmount(booking[b])
    BY <2>1 DEF Owed
  <2>3. ledger'[b].credit = ledger[b].credit + AdvanceAmount(booking[b])
    BY <1>0, <1>9, <2>1 DEF CreditTx
  <2>4. Collected(b)' = Collected(b) /\ UNCHANGED <<booking, escrow>>
    BY <1>9, CollectedSame DEF CreditTx
  <2>5. Refunding(b)'
    BY <1>0, <1>9 DEF CreditTx, Goto, Refunding
  <2>6. Owed(b)' = 0
    BY <2>1, <2>4, <2>5 DEF Owed
  <2>7. Kept(b)' = Collected(b) - (ledger[b].credit + AdvanceAmount(booking[b]))
    BY <1>1, <2>3, <2>4 DEF Kept
  <2>8. Kept(b)' >= Owed(b)'
    BY <1>1, <1>3, <2>2, <2>6, <2>7
  <2>9. ledger'[b].credit >= 0
    BY <1>1, <1>3, <2>3
  <2> QED
    BY <1>0, <2>4, <2>8, <2>9 DEF BooksOf
\* The writes of a booking document.
<1>10. ASSUME UNCHANGED <<escrow, ledger, payment>>,
              booking'[b].coupon = booking[b].coupon,
              Kept(b) >= IF booking'[b].pay = "PAID" THEN PayableAmount(booking[b])
                         ELSE IF booking'[b].pay = "ADVANCE_PAID" THEN AdvanceAmount(booking[b])
                         ELSE 0,
              booking[b].pay = "PAID" => booking'[b].pay = "PAID",
              booking'[b].status \in {"ABSENT", "PENDING_PAYMENT"} => booking'[b].pay = "PENDING"
       PROVE  BooksOf(b)'
  <2>1. /\ PayableAmount(booking'[b]) = PayableAmount(booking[b])
        /\ AdvanceAmount(booking'[b]) = AdvanceAmount(booking[b])
    BY <1>10, SameCoupon
  <2>2. Kept(b)' = Kept(b)
    BY <1>1, <1>10, CollectedSame DEF Kept
  <2>3. Owed(b)' <= (IF booking'[b].pay = "PAID" THEN PayableAmount(booking[b])
                     ELSE IF booking'[b].pay = "ADVANCE_PAID" THEN AdvanceAmount(booking[b])
                     ELSE 0) /\ Owed(b)' \in Nat
    BY <1>1, <2>1 DEF Owed
  <2>4. Kept(b)' >= Owed(b)'
    BY <1>1, <1>10, <2>2, <2>3
  <2> QED
    BY <1>0, <1>3, <1>10, <2>1, <2>4 DEF BooksOf
<1>11. CASE CancelWrite(r)
  <2>1. snap = booking[b]
    BY <1>2, <1>11 DEF CancelWrite, ReadIsFresh, Holding
  <2>2. /\ booking'[b].pay = PayOnCancel(booking[b]) /\ booking'[b].coupon = booking[b].coupon
        /\ booking'[b].status = "CANCELLED" /\ UNCHANGED <<escrow, ledger, payment>>
    BY <1>0, <1>11, <2>1 DEF CancelWrite, BookingRecord
  <2>3. booking[b].pay = "PAID" => Owed(b) = PayableAmount(booking[b])
    BY DEF Owed
  <2> QED
    BY <1>1, <1>3, <1>10, <2>2, <2>3 DEF PayOnCancel
<1>12. CASE StatusWrite(r) \/ MoveWrite(r)
  <2>1. /\ booking'[b].pay = booking[b].pay /\ booking'[b].coupon = booking[b].coupon
        /\ UNCHANGED <<escrow, ledger, payment>>
    BY <1>0, <1>12 DEF StatusWrite, MoveWrite, BookingRecord
  <2>2. booking'[b].status \in {"ABSENT", "PENDING_PAYMENT"} => booking[b].pay = "PENDING"
    <3>1. CASE StatusWrite(r)
      BY <1>0, <3>1 DEF StatusWrite, RequestPays, BookingStatus, BookingRecord
    <3>2. CASE MoveWrite(r)
      BY <1>0, <3>2 DEF MoveWrite, BooksOf, BookingRecord
    <3> QED
      BY <1>12, <3>1, <3>2
  <2>3. ~Refunding(b)
    BY <1>0, <1>12 DEF StatusWrite, MoveWrite
  <2>4. Owed(b) = IF booking[b].pay = "PAID" THEN PayableAmount(booking[b])
                  ELSE IF booking[b].pay = "ADVANCE_PAID" THEN AdvanceAmount(booking[b])
                  ELSE 0
    BY <2>3 DEF Owed
  <2> QED
    BY <1>3, <1>10, <2>1, <2>2, <2>4
<1>13. CASE CouponWrite(r)
  <2>1. snap = booking[b] /\ booking[b].status = "PENDING_PAYMENT"
    BY <1>0, <1>2, <1>13 DEF CouponWrite, ReadIsFresh, Holding, RequestAlone
  <2>2. booking[b].pay = "PENDING" /\ escrow[b] = NoEscrow
    BY <1>0, <2>1 DEF BooksOf
  <2>3. booking'[b].pay = "PENDING" /\ UNCHANGED <<escrow, ledger, payment>>
    BY <1>0, <1>13, <2>2 DEF CouponWrite, BookingRecord
  <2>4. Owed(b)' = 0 /\ Owed(b) = 0
    BY <2>2, <2>3 DEF Owed
  <2>5. Kept(b)' = Kept(b)
    BY <1>1, <2>3, CollectedSame DEF Kept
  <2> QED
    BY <1>1, <1>3, <2>2, <2>3, <2>4, <2>5 DEF BooksOf
<1>14. CASE PayWrite(r)
  <2>1. snap = booking[b] /\ snap.pay # "PAID" /\ pc[r] = "payWrite"
    BY <1>0, <1>2, <1>14 DEF PayWrite, ReadIsFresh, Holding, RequestPays, Paying
  <2>2. /\ booking'[b].pay = NewPaymentStatus(snap) /\ booking'[b].coupon = booking[b].coupon
        /\ booking'[b].status = (IF Confirms(snap) THEN "CONFIRMED" ELSE booking[b].status)
        /\ UNCHANGED <<escrow, ledger, payment>>
    BY <1>0, <1>14 DEF PayWrite, BookingRecord
  <2>3. Kept(b) >= (IF snap.pay = "ADVANCE_PAID" THEN PayableAmount(snap) ELSE AdvanceAmount(snap))
    BY <1>0, <2>1 DEF RequestPays, Covers
  <2>4. booking'[b].status \notin {"ABSENT", "PENDING_PAYMENT"}
    <3>1. booking[b].status # "ABSENT"
      BY <1>a, <1>0 DEF RequestAlone, Exists
    <3>2. booking[b].status = "PENDING_PAYMENT" => Confirms(snap)
      BY <1>0, <2>1 DEF BooksOf, Confirms
    <3> QED
      BY <2>2, <3>1, <3>2
  <2> QED
    BY <1>10, <2>1, <2>2, <2>3, <2>4 DEF NewPaymentStatus
\* The escrow of a booking paid in full.
<1>15. CASE Hold(r)
  <2>1. /\ arg[r].op # "status" /\ booking[b].pay = "PAID"
        /\ PayableAmount(snap) = PayableAmount(booking[b])
    BY <1>0, <1>15 DEF Hold, RequestPays, Holding
  <2>2. HoldAmount(arg[r]) = PayableAmount(booking[b])
    BY <2>1 DEF HoldAmount
  <2>3. escrow'[b] # NoEscrow => escrow'[b] = escrow[b] \/ escrow'[b] = PayableAmount(booking[b])
    BY <1>0, <1>15, <2>2 DEF Hold
  <2>4. UNCHANGED <<booking, ledger, payment>>
    BY <1>15 DEF Hold
  <2>5. Kept(b)' = Kept(b) /\ Owed(b)' = Owed(b)
    BY <1>1, <2>1, <2>4, CollectedSame DEF Kept, Owed
  <2> QED
    BY <1>0, <1>3, <2>1, <2>3, <2>4, <2>5 DEF BooksOf
<1> QED
  BY <1>5, <1>6, <1>7, <1>8, <1>9, <1>11, <1>12, <1>13, <1>14, <1>15 DEF Continue

-----------------------------------------------------------------------------
(* Every step, and what the books show.                                     *)

LEMMA NonePendingLasts ==
  ASSUME SerialInv, MoneyInv, [Next]_vars
  PROVE  NonePending'
<1> USE DEF NonePending
<1>0. TypeInv /\ NonePending /\ payment \in [Orders -> PaymentRecord]
  BY DEF SerialInv, MoneyInv, TypeInv, DocTypes
<1>1. ASSUME UNCHANGED payment PROVE NonePending'
  BY <1>0, <1>1
<1>2. ASSUME NEW r \in Requests, Continue(r) PROVE NonePending'
  <2>1. CASE PaymentInsert(r)
    BY <1>0, <2>1 DEF PaymentInsert
  <2>2. ~OrderInsert(r) /\ ~Complete(r)
    BY DEF MoneyInv, RequestPays, OrderInsert, Complete
  <2> QED
    BY <1>1, <1>2, <2>1, <2>2
    DEF Continue, Credit, CreditTx, CancelWrite, StatusWrite, MoveWrite, CouponCheck, CouponWrite,
        Reread, DebitRead, Debit, DebitTx, CouponCount, RoomCreate, PayWrite, HoldFind, Hold, db
<1> HIDE DEF NonePending
<1> QED
  BY <1>0, <1>1, <1>2, AcceptQuiet
  DEF Next, CreateBooking, WindowExpires, AppointmentNears, RequestFails, ExpireList, CronFails,
      ExpireWrite, vars, db

\* A request is accepted as far as its booking's payment status allows it.
LEMMA AcceptPays ==
  ASSUME WalletOnly, SerialInv, MoneyInv, NEW r \in Requests,
         \/ \E b \in Bookings : Begin(r, b)
         \/ \E o \in Orders : VerifyPayment(r, o)
  PROVE  RequestPays(r)'
<1> USE DEF SerialInv, TypeInv, LocalTypes, RequestPays, Accept, Holding, Paying, Covers
<1>1. ASSUME NEW b \in Bookings, NEW role, CancelBooking(r, b, role) PROVE RequestPays(r)'
  BY <1>1 DEF CancelBooking
<1>2. ASSUME NEW b \in Bookings, NEW to \in StatusTargets, NEW role,
             UpdateBookingStatus(r, b, to, role)
      PROVE  RequestPays(r)'
  BY <1>2 DEF UpdateBookingStatus, WalletOnly
<1>3. ASSUME NEW b \in Bookings,
             RescheduleBooking(r, b) \/ ApplyCoupon(r, b) \/ RemoveCoupon(r, b)
      PROVE  RequestPays(r)'
  BY <1>3 DEF RescheduleBooking, ApplyCoupon, RemoveCoupon
<1>4. ASSUME NEW b \in Bookings, CreateOrder(r, b) \/ CreateRemainingOrder(r, b)
      PROVE  RequestPays(r)'
  BY <1>4 DEF CreateOrder, CreateRemainingOrder, WalletOnly
<1>5. ASSUME NEW b \in Bookings, PayWithWallet(r, b) \/ PayRemainingWithWallet(r, b)
      PROVE  RequestPays(r)'
  BY <1>5 DEF PayWithWallet, PayRemainingWithWallet
<1>6. ASSUME NEW o \in Orders PROVE ~VerifyPayment(r, o)
  BY DEF VerifyPayment, Verifiable, MoneyInv, NonePending
<1> QED
  BY <1>1, <1>2, <1>3, <1>4, <1>5, <1>6 DEF Begin, ChangeCalls, CouponCalls, PaymentCalls

LEMMA MoneyStep ==
  ASSUME WalletOnly, SerialInv, MoneyInv, [SerialNext]_vars
  PROVE  MoneyInv'
<1>0. /\ TypeInv /\ [Next]_vars
      /\ booking \in [Bookings -> BookingRecord]
      /\ payment \in [Orders -> PaymentRecord]
      /\ faults \in Nat
  BY DEF SerialNext, SerialInv, TypeInv, DocTypes
<1>z. 0 \in Nat
  OBVIOUS
<1>1. NonePending'
  BY <1>0, NonePendingLasts
<1> DEFINE Docs == \A b \in Bookings : BooksOf(b)
           Reqs == \A r \in Requests : RequestPays(r)
<1>2. ASSUME NEW r \in Requests, Continue(r) PROVE Docs' /\ Reqs'
  <2>1. pc[r] # "idle" /\ \A q \in Requests : q # r => pc'[q] = pc[q]
    BY <1>0, <1>2, ContinueQuiet
  <2>2. RequestPays(r)'
    BY <1>0, <1>2, PaysContinue
  <2>3. Reqs'
    BY <2>1, <2>2, InProgressAlone DEF RequestPays, Paying, Holding
  <2>4. Docs'
    BY <1>0, <1>2, BooksOfOthers, BooksOfItsOwn
  <2> QED
    BY <2>3, <2>4
<1>3. ASSUME NEW r \in Requests,
             \/ \E b \in Bookings : Begin(r, b)
             \/ \E o \in Orders : VerifyPayment(r, o)
      PROVE  Docs' /\ Reqs'
  <2>1. /\ UNCHANGED <<booking, payment, escrow, ledger>>
        /\ \A q \in Requests : q # r => pc'[q] = pc[q] /\ arg'[q] = arg[q]
    BY <1>0, <1>3, AcceptQuiet DEF db
  <2>2. pc[r] = "idle"
    BY <1>3
    DEF Accept, Begin, ChangeCalls, CouponCalls, PaymentCalls, CancelBooking, UpdateBookingStatus,
        RescheduleBooking, ApplyCoupon, RemoveCoupon, CreateOrder, CreateRemainingOrder,
        VerifyPayment, PayWithWallet, PayRemainingWithWallet
  <2>3. \A c : Refunding(c) => Refunding(c)'
    BY <2>1, <2>2 DEF Refunding
  <2>4. \A c \in Bookings : Collected(c) \in Int /\ Collected(c)' = Collected(c) + 0
    BY <1>0, <2>1, BooksTyped, CollectedSame
  <2>5. Docs'
    BY <1>0, <1>z, <2>1, <2>3, <2>4, BooksKept DEF MoneyInv
  <2>6. RequestPays(r)'
    BY <1>3, AcceptPays
  <2>7. \A c : Collected(c)' = Collected(c)
    BY <2>1, CollectedSame
  <2>8. ASSUME NEW q \in Requests, q # r PROVE RequestPays(q)'
    BY <2>1, <2>7, <2>8 DEF MoneyInv, RequestPays, Covers, Kept
  <2> QED
    BY <2>5, <2>6, <2>8
\* No handler is cut short.
<1>4. \A r \in Requests : ~RequestFails(r)
  BY <1>0 DEF RequestFails, WalletOnly
\* The steps of nobody's request leave the requests as they are.
<1>5. ASSUME NEW b \in Bookings, UNCHANGED <<pc, arg, payment, escrow, ledger>>,
             \A c \in Bookings : c # b => booking'[c] = booking[c],
             \A r \in Requests : pc[r] # "idle" => arg[r].b # b,
             BooksOf(b)'
      PROVE  Docs' /\ Reqs'
  <2>1. \A c : Refunding(c) => Refunding(c)'
    BY <1>5 DEF Refunding
  <2>2. \A c \in Bookings : Collected(c) \in Int /\ Collected(c)' = Collected(c) + 0
    BY <1>0, <1>5, BooksTyped, CollectedSame
  <2>3. ASSUME NEW c \in Bookings, c # b PROVE BooksOf(c)'
    BY <1>0, <1>z, <1>5, <2>1, <2>2, <2>3, BooksKept DEF MoneyInv
  <2>4. \A c : Collected(c)' = Collected(c)
    BY <1>5, CollectedSame
  <2>5. ASSUME NEW r \in Requests PROVE RequestPays(r)'
    <3>1. pc[r] # "idle" => arg[r].b \in Bookings /\ booking'[arg[r].b] = booking[arg[r].b]
      BY <1>0, <1>5 DEF TypeInv, RequestsBound, RequestBound
    <3> QED
      BY <1>5, <2>4, <3>1 DEF MoneyInv, RequestPays, Covers, Kept, Holding, Paying
  <2> QED
    BY <1>5, <2>3, <2>5
\* A booking that is created or that the cleanup gives up had nothing paid for.
<1>6. ASSUME NEW b \in Bookings, UNCHANGED <<payment, escrow, ledger>>,
             booking[b].pay = "PENDING", booking'[b].pay \in {"PENDING", "FAILED"},
             booking'[b].status \in {"ABSENT", "PENDING_PAYMENT"} => booking'[b].pay = "PENDING"
      PROVE  BooksOf(b)'
  <2>1. BooksOf(b)
    BY DEF MoneyInv
  <2>2. Owed(b) = 0 /\ Owed(b)' = 0
    BY <1>6 DEF Owed
  <2>3. Collected(b) \in Int /\ ledger[b].credit \in Int
    BY <1>0, BooksTyped
  <2>4. Kept(b)' = Kept(b)
    BY <1>6, <2>3, CollectedSame DEF Kept
  <2> QED
    BY <1>6, <2>1, <2>2, <2>4 DEF BooksOf
<1>7. ASSUME NEW b \in Bookings, CreateBooking(b) PROVE Docs' /\ Reqs'
  <2>1. /\ booking[b].pay = "PENDING" /\ booking[b].status = "ABSENT"
        /\ booking'[b].pay = "PENDING"
    BY <1>0, <1>7 DEF CreateBooking, Exists, MoneyInv, BooksOf, BookingRecord
  <2>2. BooksOf(b)'
    BY <1>6, <1>7, <2>1 DEF CreateBooking
  <2>3. \A r \in Requests : pc[r] # "idle" => arg[r].b # b
    BY <2>1 DEF SerialInv, RequestAlone, Exists
  <2> QED
    BY <1>0, <1>5, <1>7, <2>2, <2>3 DEF CreateBooking, local
<1>8. ASSUME NEW j \in CronJobs, NEW b \in Bookings, ExpireWrite(j, b) PROVE Docs' /\ Reqs'
  <2>1. booking[b].pay = "PENDING"
    BY <1>8 DEF ExpireWrite, SerialInv, RunAlone
  <2>2. booking'[b].pay = "FAILED" /\ booking'[b].status = "FAILED"
    BY <1>0, <1>8 DEF ExpireWrite, BookingRecord
  <2>3. BooksOf(b)'
    BY <1>6, <1>8, <2>1, <2>2 DEF ExpireWrite
  <2>4. \A r \in Requests : pc[r] = "idle"
    BY <1>8 DEF ExpireWrite, SerialInv, OneAtATime
  <2> QED
    BY <1>0, <1>5, <1>8, <2>3, <2>4 DEF ExpireWrite, local
<1>9. ASSUME UNCHANGED <<pc, arg, booking, payment, escrow, ledger>> PROVE Docs' /\ Reqs'
  <2>1. \A c : Collected(c)' = Collected(c)
    BY <1>9, CollectedSame
  <2>2. \A c : Refunding(c)' <=> Refunding(c)
    BY <1>9 DEF Refunding
  <2>3. \A c \in Bookings : Collected(c) \in Int /\ Collected(c)' = Collected(c) + 0
    BY <1>0, <2>1, BooksTyped
  <2>4. Docs'
    BY <1>0, <1>z, <1>9, <2>2, <2>3, BooksKept DEF MoneyInv
  <2>5. Reqs'
    BY <1>9, <2>1 DEF MoneyInv, RequestPays, Covers, Kept
  <2> QED
    BY <2>4, <2>5
<1>10. Docs' /\ Reqs'
  <2> HIDE DEF Docs, Reqs
  <2> QED
    BY <1>0, <1>2, <1>3, <1>4, <1>7, <1>8, <1>9
    DEF Next, WindowExpires, AppointmentNears, ExpireList, CronFails, vars, db, local
<1> QED
  BY <1>1, <1>10 DEF MoneyInv

LEMMA MoneyInit == Init => MoneyInv
<1> SUFFICES ASSUME Init PROVE MoneyInv
  OBVIOUS
<1>1. NonePending /\ \A r \in Requests : RequestPays(r)
  BY DEF Init, NonePending, NoPayment, RequestPays, Paying, Holding
<1>2. ASSUME NEW b \in Bookings PROVE BooksOf(b)
  <2>1. Completed(b) = {}
    BY DEF Init, NoPayment, Completed
  <2>2. Collected(b) = 0
    BY <2>1, SumEmpty DEF Collected
  <2>3. Owed(b) = 0 /\ ledger[b].credit = 0
    BY DEF Init, NoBookingRecord, Owed
  <2> QED
    BY <2>2, <2>3 DEF Init, NoBookingRecord, BooksOf, Kept
<1> QED
  BY <1>1, <1>2 DEF MoneyInv

\* When handlers do not overlap, are not cut short and pay from the wallet, no
\* money is made: what a booking gave back and what it put aside for the
\* stylist never exceed its completed payments (cancelBooking, payWithWallet,
\* payRemainingWithWallet, holdAmount).
THEOREM NoMoneyMade ==
  ASSUME WalletOnly
  PROVE  SerialSpec => []MoneyConserved
<1>1. Init => SerialInv /\ MoneyInv
  BY SerialInit, MoneyInit
<1>2. SerialInv /\ MoneyInv /\ [SerialNext]_vars => (SerialInv /\ MoneyInv)'
  BY SerialStep, MoneyStep
<1>3. SerialInv /\ MoneyInv => MoneyConserved
  <2> SUFFICES ASSUME SerialInv, MoneyInv, NEW b \in Bookings
               PROVE  ledger[b].credit + (IF escrow[b] = NoEscrow THEN 0 ELSE escrow[b])
                        <= Collected(b)
    BY DEF MoneyConserved
  <2>1. BooksOf(b) /\ TypeInv
    BY DEF MoneyInv, SerialInv
  <2>2. /\ Collected(b) \in Int /\ ledger[b].credit \in Int /\ Owed(b) \in Nat
        /\ PayableAmount(booking[b]) \in Nat
    BY <2>1, BooksTyped
  <2>3. Collected(b) - ledger[b].credit >= Owed(b)
    BY <2>1 DEF BooksOf, Kept
  <2>4. escrow[b] # NoEscrow => escrow[b] = Owed(b)
    BY <2>1 DEF BooksOf, Owed
  <2> QED
    BY <2>2, <2>3, <2>4
<1> QED
  BY <1>1, <1>2, <1>3, PTL DEF SerialSpec, SerialNext

\* In the same setting a booking marked paid has been paid what it costs
\* (payWithWallet, payRemainingWithWallet, applyCoupon, removeCoupon).
THEOREM PaidEnough ==
  ASSUME WalletOnly
  PROVE  SerialSpec => []PaidInFull
<1>1. Init => SerialInv /\ MoneyInv
  BY SerialInit, MoneyInit
<1>2. SerialInv /\ MoneyInv /\ [SerialNext]_vars => (SerialInv /\ MoneyInv)'
  BY SerialStep, MoneyStep
<1>3. SerialInv /\ MoneyInv => PaidInFull
  <2> SUFFICES ASSUME SerialInv, MoneyInv, NEW b \in Bookings, booking[b].pay = "PAID"
               PROVE  Collected(b) >= PayableAmount(booking[b])
    BY DEF PaidInFull
  <2>1. BooksOf(b) /\ TypeInv
    BY DEF MoneyInv, SerialInv
  <2>2. /\ Collected(b) \in Int /\ ledger[b].credit \in Int /\ Owed(b) \in Nat
        /\ PayableAmount(booking[b]) \in Nat
    BY <2>1, BooksTyped
  <2>3. Owed(b) = PayableAmount(booking[b])
    BY DEF Owed
  <2>4. Collected(b) - ledger[b].credit >= Owed(b) /\ ledger[b].credit >= 0
    BY <2>1 DEF BooksOf, Kept
  <2> QED
    BY <2>2, <2>3, <2>4
<1> QED
  BY <1>1, <1>2, <1>3, PTL DEF SerialSpec, SerialNext

-----------------------------------------------------------------------------
(* Reports.  A booking is found by one condition and shown in the bar that  *)
(* another condition picks; that the figures agree is that every booking    *)
(* found is in exactly one bar.                                             *)

\* A place in the calendar, wherever it lies.
AnyPlace == [ago : Int, year : Int, month : 1..12, hour : 0..23, padded : BOOLEAN]

Reportable(bs) ==
  /\ IsFiniteSet(bs)
  /\ \A b \in bs : b.payable \in Int /\ b.total \in Int /\ b.place \in AnyPlace

LEMMA PartReportable ==
  ASSUME NEW bs, Reportable(bs), NEW part, part \subseteq bs
  PROVE  Reportable(part)
BY FS_Subset DEF Reportable

\* What is earned in parts adds up to what is earned as a whole.
LEMMA RevenueOfParts ==
  ASSUME NEW S, Reportable(S), NEW I, IsFiniteSet(I), NEW part, Parts(part, I, S)
  PROVE  SumFunctionOnSet([i \in I |-> Revenue(part[i])], I) = Revenue(S)
<1> DEFINE payable == [b \in S |-> b.payable]
           earning(bs) == {b \in bs : Earning(b)}
           share == [i \in I |-> earning(part[i])]
<1>1. ASSUME NEW bs, bs \subseteq S
      PROVE  Revenue(bs) = SumFunctionOnSet(payable, earning(bs))
  <2> DEFINE own == [b \in earning(bs) |-> b.payable]
  <2>1. Revenue(bs) = SumFunctionOnSet(own, earning(bs))
    BY DEF Revenue, SumFunction
  <2>2. IsFiniteSet(earning(bs)) /\ \A b \in earning(bs) : own[b] = payable[b]
    BY <1>1, FS_Subset DEF Reportable
  <2> HIDE DEF own, payable, earning
  <2> QED
    BY <2>1, <2>2, SumSame
<1>2. Parts(share, I, earning(S))
  BY DEF Parts
<1>3. IsFiniteSet(earning(S)) /\ \A b \in earning(S) : payable[b] \in Int
  BY FS_Subset DEF Reportable
<1>4. SumFunctionOnSet([i \in I |-> SumFunctionOnSet(payable, share[i])], I)
        = SumFunctionOnSet(payable, earning(S))
  <2> HIDE DEF payable, share, earning
  <2> QED
    BY <1>2, <1>3, SumOfParts
<1>5. \A i \in I : Revenue(part[i]) = SumFunctionOnSet(payable, share[i])
  <2> SUFFICES ASSUME NEW i \in I PROVE Revenue(part[i]) = SumFunctionOnSet(payable, share[i])
    OBVIOUS
  <2>1. part[i] \subseteq S /\ share[i] = earning(part[i])
    BY DEF Parts
  <2> HIDE DEF payable, share, earning
  <2> QED
    BY <1>1, <2>1
<1>6. Revenue(S) = SumFunctionOnSet(payable, earning(S))
  BY <1>1
<1> HIDE DEF payable, share, earning
<1>7. [i \in I |-> Revenue(part[i])] = [i \in I |-> SumFunctionOnSet(payable, share[i])]
  BY <1>5
<1> QED
  BY <1>4, <1>6, <1>7

\* The same of what the dashboard takes bookings for.
LEMMA TakenOfParts ==
  ASSUME NEW S, Reportable(S), NEW I, IsFiniteSet(I), NEW part, Parts(part, I, S)
  PROVE  SumFunctionOnSet([i \in I |-> Taken(part[i])], I) = Taken(S)
<1> DEFINE taken == [b \in S |-> TakenFor(b)]
<1>1. ASSUME NEW bs, bs \subseteq S
      PROVE  Taken(bs) = SumFunctionOnSet(taken, bs)
  <2> DEFINE own == [b \in bs |-> TakenFor(b)]
  <2>1. Taken(bs) = SumFunctionOnSet(own, bs)
    BY DEF Taken, SumFunction
  <2>2. IsFiniteSet(bs) /\ \A b \in bs : own[b] = taken[b]
    BY <1>1, FS_Subset DEF Reportable
  <2> HIDE DEF own, taken
  <2> QED
    BY <2>1, <2>2, SumSame
<1>2. IsFiniteSet(S) /\ \A b \in S : taken[b] \in Int
  BY DEF Reportable, TakenFor
<1>3. SumFunctionOnSet([i \in I |-> SumFunctionOnSet(taken, part[i])], I)
        = SumFunctionOnSet(taken, S)
  <2> HIDE DEF taken
  <2> QED
    BY <1>2, SumOfParts
<1>4. \A i \in I : Taken(part[i]) = SumFunctionOnSet(taken, part[i])
  <2> HIDE DEF taken
  <2> QED
    BY <1>1 DEF Parts
<1>5. Taken(S) = SumFunctionOnSet(taken, S)
  BY <1>1
<1> HIDE DEF taken
<1>6. [i \in I |-> Taken(part[i])] = [i \in I |-> SumFunctionOnSet(taken, part[i])]
  BY <1>4
<1> QED
  BY <1>3, <1>5, <1>6

LEMMA FiniteDays == \A n \in Nat : IsFiniteSet(0..n)
BY FS_Interval

LEMMA FiniteImage ==
  ASSUME NEW S, IsFiniteSet(S), NEW f, DOMAIN f = S
  PROVE  IsFiniteSet({f[x] : x \in S})
<1> DEFINE T == {f[x] : x \in S}
           g == [x \in S |-> f[x]]
<1>1. g \in Surjection(S, T)
  BY DEF Surjection
<1> HIDE DEF g, T
<1>2. IsFiniteSet(T)
  BY <1>1, FS_Surjection
<1> QED
  BY <1>2 DEF T

LEMMA FiniteBars ==
  ASSUME NEW period \in Periods
  PROVE  IsFiniteSet(Bars(period))
<1>1. \E n \in Nat : Bars(period) = 0..n
  BY DEF Bars, Periods
<1> QED
  BY <1>1, FiniteDays

\* A booking of the period that is not misplaced is in exactly one bar.
LEMMA OneBar ==
  ASSUME NEW period \in Periods, NEW b, b.place \in AnyPlace,
         InPeriod(period, b.place), ~Misplaced(period, b.place)
  PROVE  \E bar \in Bars(period) : /\ InBar(period, bar, b)
                                   /\ \A other \in Bars(period) : InBar(period, other, b) => other = bar
<1>1. CASE period = "today"
  <2>1. b.place.hour \in 0..23 /\ b.place.padded
    BY <1>1 DEF AnyPlace, Misplaced
  <2> QED
    BY <1>1, <2>1 DEF Bars, InBar, InHourBar
<1>2. CASE period = "week"
  <2>1. b.place.ago \in 0..6
    BY <1>2 DEF InPeriod, SinceDay
  <2> QED
    BY <1>2, <2>1 DEF Bars, InBar, InDayBar
<1>3. CASE period = "month"
  <2>1. b.place.ago \in 0..29
    BY <1>3 DEF InPeriod, SinceDay
  <2> QED
    BY <1>3, <2>1 DEF Bars, InBar, InDayBar
<1>4. CASE period = "year"
  <2> DEFINE m == b.place.month
  <2>1. /\ m \in 1..12 /\ m \notin ShortMonths /\ m - 1 \notin ShortMonths
        /\ b.place.year = 0
    BY <1>4 DEF AnyPlace, Misplaced, InPeriod
  <2>2. 12 - m \in 0..11 /\ MonthShown(12 - m) = m
    BY <2>1 DEF MonthShown
  <2>3. \A i \in 0..11 : MonthShown(i) = m => i = 12 - m
    BY <2>1 DEF MonthShown
  <2> QED
    BY <1>4, <2>1, <2>2, <2>3 DEF Bars, InBar, InMonthBar
<1> QED
  BY <1>1, <1>2, <1>3, <1>4 DEF Periods

\* The bars of a stylist's chart add up to his summary, in number and in money, for any
\* finite set of bookings and every period (getStylistStats), but for what Misplaced names.
THEOREM ChartsOfStylistsAddUp ==
  ASSUME NEW bs, Reportable(bs)
  PROVE  StatsAddUp(bs)
<1> SUFFICES ASSUME NEW period \in Periods, \A b \in bs : ~Misplaced(period, b.place)
             PROVE  LET stats == StylistStats(period, bs)
                    IN  /\ BookingsIn(stats.chart) = stats.summary.total
                        /\ RevenueIn(stats.chart) = stats.summary.revenue
  BY DEF StatsAddUp
<1> DEFINE found == {b \in bs : InPeriod(period, b.place)}
           held == [bar \in Bars(period) |-> {b \in found : InBar(period, bar, b)}]
<1>1. Reportable(found) /\ IsFiniteSet(found)
  BY PartReportable DEF Reportable
<1>2. Parts(held, Bars(period), found)
  <2>1. \A b \in found : \E bar \in Bars(period) :
          InBar(period, bar, b) /\ \A other \in Bars(period) : InBar(period, other, b) => other = bar
    BY OneBar DEF Reportable
  <2> QED
    BY <2>1 DEF Parts
<1>3. Chart(period, found) = [bar \in Bars(period) |->
        [bookings |-> Cardinality(held[bar]), revenue |-> Revenue(held[bar])]]
  BY DEF Chart
<1>4. StylistStats(period, bs) = [summary |-> StatsSummary(found), chart |-> Chart(period, found)]
  BY DEF StylistStats
<1>5. StatsSummary(found).total = Cardinality(found) /\ StatsSummary(found).revenue = Revenue(found)
  BY DEF StatsSummary
<1> HIDE DEF found, held
<1>6. BookingsIn(Chart(period, found))
        = SumFunctionOnSet([bar \in Bars(period) |-> Cardinality(held[bar])], Bars(period))
  <2>1. DOMAIN Chart(period, found) = Bars(period)
    BY <1>3
  <2>2. [bar \in DOMAIN Chart(period, found) |-> Chart(period, found)[bar].bookings]
          = [bar \in Bars(period) |-> Cardinality(held[bar])]
    BY <1>3
  <2> QED
    BY <2>1, <2>2 DEF BookingsIn, SumFunction
<1>7. RevenueIn(Chart(period, found))
        = SumFunctionOnSet([bar \in Bars(period) |-> Revenue(held[bar])], Bars(period))
  <2>1. [bar \in DOMAIN Chart(period, found) |-> Chart(period, found)[bar].revenue]
          = [bar \in Bars(period) |-> Revenue(held[bar])]
    BY <1>3
  <2> QED
    BY <2>1 DEF RevenueIn, SumFunction
<1>8. BookingsIn(Chart(period, found)) = Cardinality(found)
  BY <1>1, <1>2, <1>6, FiniteBars, CountOfParts
<1>9. RevenueIn(Chart(period, found)) = Revenue(found)
  BY <1>1, <1>2, <1>7, FiniteBars, RevenueOfParts
<1> QED
  BY <1>4, <1>5, <1>8, <1>9

\* The administrator's trend, status counts and ranking add up to the summary, for any
\* finite set of bookings (toDashboardStatsDto), the ranking with at most five stylists.
THEOREM DashboardsAddUp ==
  ASSUME NEW bs, Reportable(bs)
  PROVE  DashboardAddsUp(bs)
<1> DEFINE done == CompletedRecently(bs)
           onDay == [ago \in RecentDays |-> {b \in done : b.place.ago = ago}]
<1>1. Reportable(done) /\ IsFiniteSet(done)
  <2>1. done \subseteq bs
    BY DEF CompletedRecently, DashboardReads
  <2> QED
    BY <2>1, PartReportable DEF Reportable
<1>2. IsFiniteSet(RecentDays)
  BY FiniteDays DEF RecentDays, DashboardSince
<1>3. Parts(onDay, RecentDays, done)
  BY DEF Parts, CompletedRecently
<1>4. /\ DOMAIN RevenueTrend(bs) = RecentDays
      /\ [ago \in RecentDays |-> RevenueTrend(bs)[ago].bookings]
           = [ago \in RecentDays |-> Cardinality(onDay[ago])]
      /\ [ago \in RecentDays |-> RevenueTrend(bs)[ago].revenue]
           = [ago \in RecentDays |-> Taken(onDay[ago])]
  BY DEF RevenueTrend
<1>5. BookingsIn(RevenueTrend(bs)) = Cardinality(done)
  <2> HIDE DEF done, onDay
  <2>1. SumFunctionOnSet([ago \in RecentDays |-> Cardinality(onDay[ago])], RecentDays) = Cardinality(done)
    BY <1>1, <1>2, <1>3, CountOfParts
  <2> QED
    BY <1>4, <2>1 DEF BookingsIn, SumFunction
<1>6. RevenueIn(RevenueTrend(bs)) = Taken(done)
  <2> HIDE DEF done, onDay
  <2>1. SumFunctionOnSet([ago \in RecentDays |-> Taken(onDay[ago])], RecentDays) = Taken(done)
    BY <1>1, <1>2, <1>3, TakenOfParts
  <2> QED
    BY <1>4, <2>1 DEF RevenueIn, SumFunction
<1>7. SumFunction(StatusBreakdown(bs)) = Cardinality({b \in DashboardReads(bs) : b.place.ago \in RecentDays})
  <2> DEFINE statuses == {"COMPLETED", "CONFIRMED", "CANCELLED", "PENDING_PAYMENT"}
             within == {b \in DashboardReads(bs) : b.place.ago \in RecentDays}
             of == [status \in statuses |-> {b \in within : b.status = status}]
  <2>1. IsFiniteSet(within)
    <3>1. within \subseteq bs
      BY DEF DashboardReads
    <3> QED
      BY <3>1, FS_Subset DEF Reportable
  <2>2. IsFiniteSet(statuses)
    <3>1. statuses = {"COMPLETED"} \cup {"CONFIRMED"} \cup {"CANCELLED"} \cup {"PENDING_PAYMENT"}
      OBVIOUS
    <3>2. \A x : IsFiniteSet({x})
      BY FS_Singleton
    <3> HIDE DEF statuses
    <3> QED
      BY <3>1, <3>2, FS_Union
  <2>3. Parts(of, statuses, within)
    BY DEF Parts, DashboardReads
  <2>4. StatusBreakdown(bs) = [status \in statuses |-> Cardinality(of[status])]
    BY DEF StatusBreakdown
  <2> HIDE DEF statuses, within, of
  <2>5. SumFunctionOnSet([status \in statuses |-> Cardinality(of[status])], statuses) = Cardinality(within)
    BY <2>1, <2>2, <2>3, CountOfParts
  <2>6. SumFunction(StatusBreakdown(bs)) = Cardinality(within)
    BY <2>4, <2>5 DEF SumFunction
  <2> QED
    BY <2>6 DEF within
<1>8. ASSUME Cardinality({b.stylist : b \in done}) <= 5
      PROVE  SumFunction(TopStylists(bs)) = Taken(done)
  <2> DEFINE stylists == {b.stylist : b \in done}
             of == [stylist \in stylists |-> {b \in done : b.stylist = stylist}]
             taken == TakenByStylist(bs)
             Best(best) == /\ Cardinality(best) = Min({5, Cardinality(stylists)})
                           /\ \A x \in best, y \in stylists \ best : taken[x] >= taken[y]
             top == CHOOSE best \in SUBSET stylists : Best(best)
  <2>1. IsFiniteSet(stylists)
    <3> DEFINE at == [b \in done |-> b.stylist]
    <3>1. DOMAIN at = done /\ {at[b] : b \in done} = stylists
      OBVIOUS
    <3> HIDE DEF done, at, stylists
    <3> QED
      BY <1>1, <3>1, FiniteImage
  <2>2. taken = [stylist \in stylists |-> Taken(of[stylist])]
    BY DEF TakenByStylist
  <2>3. Cardinality(stylists) \in Nat /\ Min({5, Cardinality(stylists)}) = Cardinality(stylists)
    <3> DEFINE n == Cardinality(stylists)
    <3>1. n \in Nat /\ n <= 5
      BY <1>8, <2>1, FS_CardinalityType
    <3> HIDE DEF n
    <3>2. Min({5, n}) = n
      BY <3>1 DEF Min
    <3> QED
      BY <3>1, <3>2 DEF n
  <2>4. TopStylists(bs) = [stylist \in top |-> taken[stylist]]
    <3>1. DOMAIN taken = stylists
      BY <2>2
    <3> QED
      BY <3>1 DEF TopStylists
  <2>5. top = stylists
    <3>1. Best(stylists)
      BY <2>3
    <3> HIDE DEF stylists, Best
    <3>2. top \in SUBSET stylists /\ Best(top)
      BY <3>1
    <3>3. Cardinality(top) = Cardinality(stylists)
      BY <2>3, <3>2 DEF Best
    <3> QED
      BY <2>1, <3>2, <3>3, FS_Subset
  <2>6. Parts(of, stylists, done)
    BY DEF Parts
  <2> HIDE DEF stylists, of, done, top, taken
  <2>7. TopStylists(bs) = [stylist \in stylists |-> Taken(of[stylist])]
    BY <2>2, <2>4, <2>5
  <2>8. SumFunctionOnSet([stylist \in stylists |-> Taken(of[stylist])], stylists) = Taken(done)
    BY <1>1, <2>1, <2>6, TakenOfParts
  <2> QED
    BY <2>7, <2>8 DEF SumFunction
<1>9. DashboardSummary(bs).totalBookings = Cardinality(done) /\ DashboardSummary(bs).totalRevenue = Taken(done)
  BY DEF DashboardSummary
<1> QED
  BY <1>5, <1>6, <1>7, <1>8, <1>9 DEF DashboardAddsUp

\* Users who joined in the last thirty days are each in one bar of the growth chart, for
\* any finite set of users (AdminRepository, toDashboardStatsDto).
THEOREM GrowthsAddUp ==
  ASSUME NEW users, IsFiniteSet(users)
  PROVE  GrowthAddsUp(users)
<1> DEFINE joined(ago) == {u \in users : u.dated /\ u.ago = ago}
           counted == {u \in users : u.dated /\ u.ago \in RecentDays /\ u.role \in {"USER", "STYLIST"}}
           part == [ago \in RecentDays |-> {u \in joined(ago) : u.role \in {"USER", "STYLIST"}}]
<1>1. IsFiniteSet(counted) /\ IsFiniteSet(RecentDays)
  BY FS_Subset, FiniteDays DEF RecentDays, DashboardSince
<1>2. Parts(part, RecentDays, counted)
  BY DEF Parts
<1>3. ASSUME NEW ago \in RecentDays
      PROVE  UserGrowth(users)[ago].customers + UserGrowth(users)[ago].stylists = Cardinality(part[ago])
  <2> DEFINE customers == {u \in joined(ago) : u.role = "USER"}
             stylists == {u \in joined(ago) : u.role = "STYLIST"}
  <2>1. IsFiniteSet(customers) /\ IsFiniteSet(stylists)
    BY FS_Subset
  <2>2. customers \cap stylists = {} /\ customers \cup stylists = part[ago]
    OBVIOUS
  <2>3. /\ UserGrowth(users)[ago].customers = Cardinality(customers)
        /\ UserGrowth(users)[ago].stylists = Cardinality(stylists)
    BY DEF UserGrowth
  <2> HIDE DEF customers, stylists
  <2>4. Cardinality(customers \cup stylists) = Cardinality(customers) + Cardinality(stylists)
    <3>1. Cardinality(customers \cup stylists)
            = Cardinality(customers) + Cardinality(stylists) - Cardinality(customers \cap stylists)
      BY <2>1, FS_Union
    <3>2. Cardinality(customers) \in Nat /\ Cardinality(stylists) \in Nat
      BY <2>1, FS_CardinalityType
    <3>3. Cardinality(customers \cap stylists) = 0
      BY <2>2, FS_EmptySet
    <3> QED
      BY <3>1, <3>2, <3>3
  <2> QED
    BY <2>2, <2>3, <2>4
<1> HIDE DEF joined, counted, part
<1>4. SumFunctionOnSet([ago \in RecentDays |-> Cardinality(part[ago])], RecentDays) = Cardinality(counted)
  BY <1>1, <1>2, CountOfParts
<1>5. [ago \in RecentDays |-> UserGrowth(users)[ago].customers + UserGrowth(users)[ago].stylists]
        = [ago \in RecentDays |-> Cardinality(part[ago])]
  BY <1>3
<1> QED
  BY <1>4, <1>5 DEF GrowthAddsUp, SumFunction, counted

\* The figures of ChartsAddUp.
LEMMA FiguresAgree ==
  ASSUME NEW status \in BookingStatus, NEW payable \in 0..Price
  PROVE  AgreeingFigures[status][payable]
<1> DEFINE other == Reported("other", "COMPLETED", Price,
                      [ago |-> 0, year |-> 0, month |-> 1, hour |-> 9, padded |-> TRUE])
<1>0. Places \subseteq AnyPlace
  <2>1. {-1, 0, 6, 7, 29, 30} \subseteq Int /\ {0, 9, 23} \subseteq 0..23 /\ {1} \subseteq 1..12
    OBVIOUS
  <2> QED
    BY <2>1 DEF Places, AnyPlace
<1>1. ASSUME NEW place \in Places
      PROVE  /\ StatsAddUp({Reported("hers", status, payable, place)})
             /\ DashboardAddsUp({other, Reported("hers", status, payable, place)})
  <2> DEFINE hers == Reported("hers", status, payable, place)
  <2>1. place \in AnyPlace
    BY <1>0
  <2>2. /\ hers.payable \in Int /\ hers.total \in Int /\ hers.place \in AnyPlace
        /\ other.payable \in Int /\ other.total \in Int /\ other.place \in AnyPlace
    BY <2>1, AmountsAssumption DEF Reported, AnyPlace
  <2> HIDE DEF hers, other
  <2>3. IsFiniteSet({hers}) /\ IsFiniteSet({other, hers})
    BY FS_EmptySet, FS_AddElement, FS_Singleton
  <2>4. Reportable({hers}) /\ Reportable({other, hers})
    BY <2>2, <2>3 DEF Reportable
  <2>5. StatsAddUp({hers}) /\ DashboardAddsUp({other, hers})
    BY <2>4, ChartsOfStylistsAddUp, DashboardsAddUp
  <2> QED
    BY <2>5 DEF hers
<1> QED
  BY <1>1 DEF AgreeingFigures

\* Whatever became of the bookings, and whatever their price and discount, the
\* bars of each chart add up to the figures above it (getStylistStats,
\* toDashboardStatsDto).
THEOREM ReportsAddUp == Spec => []ChartsAddUp
<1>1. TypeInv => ChartsAddUp
  <2> SUFFICES ASSUME TypeInv PROVE ChartsAddUp
    OBVIOUS
  <2>1. ASSUME NEW u \in SomeUsers PROVE GrowthAddsUp({u})
    BY FS_Singleton, GrowthsAddUp
  <2>2. ASSUME NEW b \in Bookings, booking[b].status # "ABSENT"
        PROVE  AgreeingFigures[booking[b].status][PayableAmount(booking[b])]
    <3>1. booking[b] \in BookingRecord /\ booking[b].status \in BookingStatus
      BY <2>2 DEF TypeInv, DocTypes, BookingRecord
    <3>2. PayableAmount(booking[b]) \in 0..Price
      BY AmountsAssumption DEF PayableAmount
    <3> QED
      BY <3>1, <3>2, FiguresAgree
  <2> QED
    BY <2>1, <2>2 DEF ChartsAddUp
<1> QED
  BY TypeInit, TypeStep, <1>1, PTL DEF Spec

-----------------------------------------------------------------------------
(* Filters.  Among is defined by recursion on how many rows were looked at; *)
(* that it goes through lists row by row, and hence part by part, is shown  *)
(* by taking a shortest list for which it fails.                            *)

LEMMA LeastNumber ==
  ASSUME NEW B, B \subseteq Nat, B # {}
  PROVE  \E m \in B : \A n \in B : m <= n
<1>1. PICK m \in B : \A n \in B : ~ (<<n, m>> \in OpToRel(<, Nat))
  BY NatLessThanWellFounded, WFMin
<1>2. \A n \in B : ~(n < m)
  BY <1>1 DEF OpToRel
<1> QED
  BY <1>2

\* What fails for some sequence, but not for the empty one, fails for one whose
\* beginning it holds for.
LEMMA ShortestBad ==
  ASSUME NEW S, NEW Bad, Bad \subseteq Seq(S), Bad # {}, <<>> \notin Bad
  PROVE  \E t \in Seq(S), x \in S : t \notin Bad /\ Append(t, x) \in Bad
<1> DEFINE lengths == {Len(s) : s \in Bad}
<1>1. lengths \subseteq Nat /\ lengths # {}
  <2>1. \A s \in Bad : Len(s) \in Nat
    BY LenProperties
  <2> QED
    BY <2>1
<1>2. PICK m \in lengths : \A n \in lengths : m <= n
  <2> HIDE DEF lengths
  <2> QED
    BY <1>1, LeastNumber
<1>3. PICK s \in Bad : Len(s) = m
  BY <1>2
<1>4. PICK t \in Seq(S), x \in S : s = Append(t, x)
  BY <1>3, SequenceEmptyOrAppend
<1>5. Len(t) \in Nat /\ Len(s) = Len(t) + 1
  BY <1>4, AppendProperties, LenProperties
<1>6. t \notin Bad
  <2>1. SUFFICES ASSUME t \in Bad PROVE FALSE
    OBVIOUS
  <2>2. m <= Len(t)
    BY <1>2, <2>1
  <2> QED
    BY <1>3, <1>5, <2>2
<1> QED
  BY <1>3, <1>4, <1>6

\* The recursion of Among, up to n rows.
Selects(f, rows, kept, n) ==
  f = [m \in 0..n |->
         IF m = 0 THEN <<>>
         ELSE IF rows[m] \in kept THEN Append(f[m - 1], rows[m]) ELSE f[m - 1]]

LEMMA AmongIsChosen ==
  ASSUME NEW rows, NEW kept
  PROVE  Among(rows, kept) = (CHOOSE f : Selects(f, rows, kept, Len(rows)))[Len(rows)]
BY DEF Among, Selects

SameUpTo(rows, more, n) == \A i \in 1..n : rows[i] = more[i]

\* Two functions that satisfy the recursion agree, on lists that agree so far.
LEMMA SelectionsAgree ==
  ASSUME NEW rows, NEW more, NEW kept, NEW n \in Nat, NEW k \in Nat, n <= k,
         SameUpTo(rows, more, n),
         NEW f, Selects(f, rows, kept, n), NEW g, Selects(g, more, kept, k)
  PROVE  \A m \in 0..n : f[m] = g[m]
<1> DEFINE Bad == {m \in 0..n : f[m] # g[m]}
<1>1. SUFFICES ASSUME Bad # {} PROVE FALSE
  OBVIOUS
<1>2. PICK m \in Bad : \A l \in Bad : m <= l
  <2>1. Bad \subseteq Nat
    OBVIOUS
  <2> HIDE DEF Bad
  <2> QED
    BY <1>1, <2>1, LeastNumber
<1>3. m \in 0..n /\ m \in 0..k
  BY <1>2
<1>4. m # 0
  <2>1. f[0] = <<>> /\ g[0] = <<>>
    BY DEF Selects
  <2> QED
    BY <1>2, <2>1
<1>5. m - 1 \in 0..n /\ m - 1 \notin Bad
  BY <1>2, <1>3, <1>4
<1>6. f[m - 1] = g[m - 1]
  BY <1>5
<1>7. rows[m] = more[m]
  BY <1>3, <1>4 DEF SameUpTo
<1>8. f[m] = IF rows[m] \in kept THEN Append(f[m - 1], rows[m]) ELSE f[m - 1]
  BY <1>3, <1>4 DEF Selects
<1>9. g[m] = IF more[m] \in kept THEN Append(g[m - 1], more[m]) ELSE g[m - 1]
  BY <1>3, <1>4 DEF Selects
<1> QED
  BY <1>2, <1>6, <1>7, <1>8, <1>9

LEMMA SelectionsExist ==
  ASSUME NEW rows, NEW kept, NEW n \in Nat
  PROVE  \E f : Selects(f, rows, kept, n)
<1> DEFINE Bad == {m \in Nat : ~ \E f : Selects(f, rows, kept, m)}
<1>1. SUFFICES ASSUME Bad # {} PROVE FALSE
  OBVIOUS
<1>2. PICK m \in Bad : \A l \in Bad : m <= l
  <2>1. Bad \subseteq Nat
    OBVIOUS
  <2> HIDE DEF Bad
  <2> QED
    BY <1>1, <2>1, LeastNumber
<1>3. m # 0
  <2> DEFINE f == [i \in 0..0 |-> <<>>]
  <2>1. Selects(f, rows, kept, 0)
    BY DEF Selects
  <2> QED
    BY <1>2, <2>1
<1>4. m - 1 \in Nat /\ m - 1 \notin Bad
  BY <1>2, <1>3
<1>5. PICK f : Selects(f, rows, kept, m - 1)
  BY <1>4
<1> DEFINE g == [i \in 0..m |-> IF i < m THEN f[i]
                   ELSE IF rows[m] \in kept THEN Append(f[m - 1], rows[m]) ELSE f[m - 1]]
<1>6. ASSUME NEW i \in 0..m
      PROVE  g[i] = IF i = 0 THEN <<>>
                    ELSE IF rows[i] \in kept THEN Append(g[i - 1], rows[i]) ELSE g[i - 1]
  <2>1. CASE i < m
    <3>1. i \in 0..(m - 1) /\ g[i] = f[i] /\ (i # 0 => g[i - 1] = f[i - 1])
      BY <1>4, <2>1
    <3>2. f[i] = IF i = 0 THEN <<>>
                 ELSE IF rows[i] \in kept THEN Append(f[i - 1], rows[i]) ELSE f[i - 1]
      BY <1>5, <3>1 DEF Selects
    <3> HIDE DEF g
    <3> QED
      BY <3>1, <3>2
  <2>2. CASE i = m
    BY <1>3, <1>4, <2>2
  <2> QED
    BY <1>4, <2>1, <2>2
<1>7. Selects(g, rows, kept, m)
  <2>1. g = [i \in 0..m |-> g[i]]
    OBVIOUS
  <2> HIDE DEF g
  <2> QED
    BY <1>6, <2>1 DEF Selects
<1> QED
  BY <1>2, <1>7

LEMMA AmongEmpty ==
  ASSUME NEW kept
  PROVE  Among(<<>>, kept) = <<>>
<1> DEFINE f == CHOOSE f : Selects(f, <<>>, kept, 0)
<1>1. Selects(f, <<>>, kept, 0)
  BY SelectionsExist
<1>2. Among(<<>>, kept) = f[0]
  BY AmongIsChosen
<1> HIDE DEF f
<1> QED
  BY <1>1, <1>2 DEF Selects

\* One row more is kept or not.
LEMMA AmongAppend ==
  ASSUME NEW S, NEW rows \in Seq(S), NEW x \in S, NEW kept
  PROVE  Among(Append(rows, x), kept)
           = IF x \in kept THEN Append(Among(rows, kept), x) ELSE Among(rows, kept)
<1> DEFINE n == Len(rows)
           more == Append(rows, x)
           chosen(s) == CHOOSE h : Selects(h, s, kept, Len(s))
           f == chosen(rows)
           g == chosen(more)
<1>1. /\ n \in Nat /\ Len(more) = n + 1 /\ more[n + 1] = x
      /\ SameUpTo(rows, more, n)
  BY AppendProperties, LenProperties DEF SameUpTo
<1> HIDE DEF n, more
<1>2. Selects(f, rows, kept, n)
  BY <1>1, SelectionsExist DEF n
<1>3. Selects(g, more, kept, n + 1)
  <2>1. n + 1 \in Nat
    BY <1>1
  <2>2. \E h : Selects(h, more, kept, n + 1)
    BY <2>1, SelectionsExist
  <2> QED
    BY <1>1, <2>2
<1>4. Among(rows, kept) = f[n] /\ Among(more, kept) = g[n + 1]
  BY <1>1, AmongIsChosen DEF n
<1> HIDE DEF chosen, f, g
<1>5. f[n] = g[n]
  <2>1. PICK k \in Nat : k = n + 1
    BY <1>1
  <2>2. n <= k /\ n \in 0..n
    BY <1>1, <2>1
  <2>3. Selects(g, more, kept, k)
    BY <1>3, <2>1
  <2>4. \A m \in 0..n : f[m] = g[m]
    BY <1>1, <1>2, <2>2, <2>3, SelectionsAgree
  <2> QED
    BY <2>2, <2>4
<1>6. g[n + 1] = IF more[n + 1] \in kept THEN Append(g[n], more[n + 1]) ELSE g[n]
  <2>1. n + 1 \in 0..(n + 1) /\ n + 1 # 0 /\ (n + 1) - 1 = n
    BY <1>1
  <2> QED
    BY <1>3, <2>1 DEF Selects
<1>7. Among(more, kept) = IF x \in kept THEN Append(Among(rows, kept), x) ELSE Among(rows, kept)
  BY <1>1, <1>4, <1>5, <1>6
<1> QED
  BY <1>7 DEF more

LEMMA AmongSeq ==
  ASSUME NEW S, NEW kept, NEW rows \in Seq(S)
  PROVE  Among(rows, kept) \in Seq(S)
<1> DEFINE Bad == {s \in Seq(S) : Among(s, kept) \notin Seq(S)}
<1>1. SUFFICES ASSUME Bad # {} PROVE FALSE
  OBVIOUS
<1>2. <<>> \notin Bad
  BY AmongEmpty
<1>3. PICK t \in Seq(S), x \in S : t \notin Bad /\ Append(t, x) \in Bad
  <2>1. Bad \subseteq Seq(S)
    OBVIOUS
  <2> HIDE DEF Bad
  <2> QED
    BY <1>1, <1>2, <2>1, ShortestBad
<1>4. Among(t, kept) \in Seq(S)
  BY <1>3
<1>5. Among(Append(t, x), kept) \in Seq(S)
  <2>1. Append(Among(t, kept), x) \in Seq(S)
    BY <1>4, AppendProperties
  <2>2. Among(Append(t, x), kept) = IF x \in kept THEN Append(Among(t, kept), x) ELSE Among(t, kept)
    BY <1>3, AmongAppend
  <2> QED
    BY <1>4, <2>1, <2>2
<1> QED
  BY <1>3, <1>5

\* A filter may be applied part by part.
LEMMA AmongJoins ==
  ASSUME NEW S, NEW kept, NEW a \in Seq(S), NEW b \in Seq(S)
  PROVE  Among(a \o b, kept) = Among(a, kept) \o Among(b, kept)
<1> DEFINE Bad == {s \in Seq(S) : Among(a \o s, kept) # Among(a, kept) \o Among(s, kept)}
<1>0. Among(a, kept) \in Seq(S)
  BY AmongSeq
<1>1. SUFFICES ASSUME Bad # {} PROVE FALSE
  OBVIOUS
<1>2. <<>> \notin Bad
  BY <1>0, AmongEmpty, ConcatEmptySeq
<1>3. PICK t \in Seq(S), x \in S : t \notin Bad /\ Append(t, x) \in Bad
  <2>1. Bad \subseteq Seq(S)
    OBVIOUS
  <2> HIDE DEF Bad
  <2> QED
    BY <1>1, <1>2, <2>1, ShortestBad
<1>4. Among(a \o t, kept) = Among(a, kept) \o Among(t, kept)
  BY <1>3
<1>5. a \o t \in Seq(S) /\ Among(t, kept) \in Seq(S)
  BY ConcatProperties, AmongSeq
<1>6. \A u, v \in Seq(S) : u \o Append(v, x) = Append(u \o v, x)
  <2> SUFFICES ASSUME NEW u \in Seq(S), NEW v \in Seq(S) PROVE u \o Append(v, x) = Append(u \o v, x)
    OBVIOUS
  <2>1. u \o v \in Seq(S) /\ <<x>> \in Seq(S)
    BY ConcatProperties
  <2> QED
    BY <2>1, AppendIsConcat, ConcatAssociative
<1>7. Among(a \o Append(t, x), kept)
        = IF x \in kept THEN Append(Among(a \o t, kept), x) ELSE Among(a \o t, kept)
  <2>1. a \o Append(t, x) = Append(a \o t, x)
    BY <1>6
  <2>2. Among(Append(a \o t, x), kept)
          = IF x \in kept THEN Append(Among(a \o t, kept), x) ELSE Among(a \o t, kept)
    BY <1>5, AmongAppend
  <2> QED
    BY <2>1, <2>2
<1>8. Among(Append(t, x), kept) = IF x \in kept THEN Append(Among(t, kept), x) ELSE Among(t, kept)
  BY AmongAppend
<1>9. Among(a \o Append(t, x), kept) = Among(a, kept) \o Among(Append(t, x), kept)
  BY <1>0, <1>4, <1>5, <1>6, <1>7, <1>8
<1> QED
  BY <1>3, <1>9

\* A filter keeps what it is to keep and nothing else, and no row twice.
LEMMA AmongKeeps ==
  ASSUME NEW S, NEW kept, NEW rows \in Seq(S)
  PROVE  ToSet(Among(rows, kept)) = ToSet(rows) \cap kept
<1> DEFINE Bad == {s \in Seq(S) : ToSet(Among(s, kept)) # ToSet(s) \cap kept}
<1>1. SUFFICES ASSUME Bad # {} PROVE FALSE
  OBVIOUS
<1>2. <<>> \notin Bad
  BY AmongEmpty DEF ToSet
<1>3. PICK t \in Seq(S), x \in S : t \notin Bad /\ Append(t, x) \in Bad
  <2>1. Bad \subseteq Seq(S)
    OBVIOUS
  <2> HIDE DEF Bad
  <2> QED
    BY <1>1, <1>2, <2>1, ShortestBad
<1>4. \A u \in Seq(S) : ToSet(Append(u, x)) = ToSet(u) \cup {x}
  <2> SUFFICES ASSUME NEW u \in Seq(S) PROVE ToSet(Append(u, x)) = ToSet(u) \cup {x}
    OBVIOUS
  <2> DEFINE v == Append(u, x)
  <2>1. /\ Len(u) \in Nat /\ DOMAIN u = 1..Len(u) /\ DOMAIN v = 1..(Len(u) + 1)
        /\ \A i \in 1..Len(u) : v[i] = u[i]
        /\ v[Len(u) + 1] = x
    BY AppendProperties, LenProperties
  <2> HIDE DEF v
  <2>2. ToSet(v) \subseteq ToSet(u) \cup {x}
    BY <2>1 DEF ToSet
  <2>3. ToSet(u) \cup {x} \subseteq ToSet(v)
    BY <2>1 DEF ToSet
  <2> QED
    BY <2>2, <2>3 DEF v
<1>5. Among(t, kept) \in Seq(S) /\ ToSet(Among(t, kept)) = ToSet(t) \cap kept
  BY <1>3, AmongSeq
<1>6. Among(Append(t, x), kept) = IF x \in kept THEN Append(Among(t, kept), x) ELSE Among(t, kept)
  BY AmongAppend
<1>7. ToSet(Among(Append(t, x), kept)) = ToSet(Append(t, x)) \cap kept
  BY <1>4, <1>5, <1>6
<1> QED
  BY <1>3, <1>7

Distinct(rows) == \A i, j \in DOMAIN rows : rows[i] = rows[j] => i = j

LEMMA AmongDistinct ==
  ASSUME NEW S, NEW kept, NEW rows \in Seq(S), Distinct(rows)
  PROVE  Distinct(Among(rows, kept))
<1> DEFINE Bad == {s \in Seq(S) : Distinct(s) /\ ~Distinct(Among(s, kept))}
<1>1. SUFFICES ASSUME Bad # {} PROVE FALSE
  OBVIOUS
<1>2. <<>> \notin Bad
  BY AmongEmpty DEF Distinct
<1>3. PICK t \in Seq(S), x \in S : t \notin Bad /\ Append(t, x) \in Bad
  <2>1. Bad \subseteq Seq(S)
    OBVIOUS
  <2> HIDE DEF Bad
  <2> QED
    BY <1>1, <1>2, <2>1, ShortestBad
<1>4. \A u \in Seq(S) : Distinct(Append(u, x)) <=> Distinct(u) /\ x \notin ToSet(u)
  <2> SUFFICES ASSUME NEW u \in Seq(S)
               PROVE  Distinct(Append(u, x)) <=> Distinct(u) /\ x \notin ToSet(u)
    OBVIOUS
  <2> DEFINE v == Append(u, x)
  <2>1. /\ Len(u) \in Nat /\ DOMAIN u = 1..Len(u) /\ DOMAIN v = 1..(Len(u) + 1)
        /\ \A i \in 1..Len(u) : v[i] = u[i]
        /\ v[Len(u) + 1] = x
    BY AppendProperties, LenProperties
  <2> HIDE DEF v
  <2>2. ASSUME Distinct(v) PROVE Distinct(u)
    BY <2>1, <2>2 DEF Distinct
  <2>3. ASSUME Distinct(v) PROVE x \notin ToSet(u)
    BY <2>1, <2>3 DEF Distinct, ToSet
  <2>4. ASSUME Distinct(u), x \notin ToSet(u), NEW i \in DOMAIN v, NEW j \in DOMAIN v, v[i] = v[j]
        PROVE  i = j
    <3>1. CASE i \in 1..Len(u) /\ j \in 1..Len(u)
      BY <2>1, <2>4, <3>1 DEF Distinct
    <3>2. CASE i \in 1..Len(u) /\ j = Len(u) + 1
      BY <2>1, <2>4, <3>2 DEF ToSet
    <3>3. CASE i = Len(u) + 1 /\ j \in 1..Len(u)
      BY <2>1, <2>4, <3>3 DEF ToSet
    <3> QED
      BY <2>1, <2>4, <3>1, <3>2, <3>3
  <2>5. Distinct(v) <=> Distinct(u) /\ x \notin ToSet(u)
    <3>1. ASSUME Distinct(u), x \notin ToSet(u) PROVE Distinct(v)
      BY <2>4, <3>1 DEF Distinct
    <3> QED
      BY <2>2, <2>3, <3>1
  <2> QED
    BY <2>5 DEF v
<1>5. Distinct(t) /\ x \notin ToSet(t)
  BY <1>3, <1>4
<1>6. Distinct(Among(t, kept)) /\ Among(t, kept) \in Seq(S) /\ x \notin ToSet(Among(t, kept))
  BY <1>3, <1>5, AmongSeq, AmongKeeps
<1>7. Among(Append(t, x), kept) = IF x \in kept THEN Append(Among(t, kept), x) ELSE Among(t, kept)
  BY AmongAppend
<1>8. Distinct(Among(Append(t, x), kept))
  BY <1>4, <1>6, <1>7
<1> QED
  BY <1>3, <1>8

-----------------------------------------------------------------------------
(* Answers.  Whatever a list is made of, its answer is a page of the rows   *)
(* it keeps; a list that was counted apart tells by that count whether      *)
(* there is another.                                                        *)

Place(k, l) == [page |-> k, limit |-> l, skip |-> (k - 1) * l]

IsPage(answer, found, counted, k, l) ==
  /\ answer.data = Slice(found, Place(k, l))
  /\ answer.data # <<>> =>
       answer.hasNextPage <=> k < (Len(counted) + l - 1) \div l
  /\ answer.totalItems \in {0, Len(counted)}

\* What is asked for with the parsers' defaults filled in.
PageOf(ask) == IF ask.page = 0 THEN 1 ELSE ask.page
LimitOf(ask, default) == IF ask.limit = 0 THEN default ELSE ask.limit

LEMMA AskedNumbers ==
  ASSUME NEW ask, ask.page \in Nat, ask.limit \in 0..100, NEW default \in 1..100
  PROVE  PageOf(ask) \in Nat \ {0} /\ LimitOf(ask, default) \in 1..100
BY DEF PageOf, LimitOf

LEMMA ParseIs ==
  ASSUME NEW ask, ask.page \in Nat, ask.limit \in 0..100
  PROVE  Parse(ask) = Place(PageOf(ask), LimitOf(ask, 10))
<1>1. ASSUME NEW n \in Nat, n # 0 PROVE Max({1, n}) = n
  BY <1>1 DEF Max
<1>2. ASSUME NEW n \in 1..100 PROVE Min({100, n}) = n
  BY DEF Min
<1>3. ParsePage(ask.page) = PageOf(ask)
  BY <1>1 DEF ParsePage, PageOf
<1>4. ParseLimit(ask.limit) = LimitOf(ask, 10)
  <2>1. CASE ask.limit = 0
    BY <2>1 DEF ParseLimit, LimitOf, DefaultLimit
  <2>2. CASE ask.limit # 0
    <3>1. PICK n \in 1..100 : n = ask.limit
      BY <2>2
    <3>2. Max({1, n}) = n
      BY <1>1
    <3>3. Min({100, n}) = n
      BY <1>2
    <3> QED
      BY <2>2, <3>1, <3>2, <3>3 DEF ParseLimit, LimitOf, MaxLimit
  <2> QED
    BY <2>1, <2>2
<1> QED
  BY <1>3, <1>4 DEF Parse, Place

\* Whatever is asked for, the total is that of the count, or of an empty list.
LEMMA Totals ==
  ASSUME NEW found, NEW counted, NEW ask
  PROVE  /\ Paginate(found, counted, ask).totalItems \in {0, Len(counted)}
         /\ PaginateOrEmpty(found, counted, ask).totalItems \in {0, Len(counted)}
BY DEF Paginate, PaginateOrEmpty, Build

LEMMA PaginateIsPage ==
  ASSUME NEW ask, ask.page \in Nat, ask.limit \in 0..100, NEW found, NEW counted
  PROVE  /\ IsPage(Paginate(found, counted, ask), found, counted, PageOf(ask), LimitOf(ask, 10))
         /\ IsPage(PaginateOrEmpty(found, counted, ask), found, counted, PageOf(ask), LimitOf(ask, 10))
<1> DEFINE k == PageOf(ask)
           l == LimitOf(ask, 10)
           page == Build(Slice(found, Place(k, l)), Len(counted), Place(k, l))
<1>1. Paginate(found, counted, ask) = page
  BY ParseIs DEF Paginate
<1>2. PaginateOrEmpty(found, counted, ask) = IF page.data = <<>> THEN Build(<<>>, 0, Place(k, l)) ELSE page
  BY <1>1, ParseIs DEF PaginateOrEmpty
<1>3. page.data = Slice(found, Place(k, l)) /\ Build(<<>>, 0, Place(k, l)).data = <<>>
  BY DEF Build
<1>4. page.hasNextPage <=> k < (Len(counted) + l - 1) \div l
  BY DEF Build, Place
<1> HIDE DEF page, k, l
<1>5. IsPage(Paginate(found, counted, ask), found, counted, k, l)
  BY <1>1, <1>3, <1>4, Totals DEF IsPage
<1>6. IsPage(PaginateOrEmpty(found, counted, ask), found, counted, k, l)
  <2>1. PaginateOrEmpty(found, counted, ask).data = Slice(found, Place(k, l))
    BY <1>2, <1>3
  <2>2. PaginateOrEmpty(found, counted, ask).data # <<>> =>
          (PaginateOrEmpty(found, counted, ask).hasNextPage <=> k < (Len(counted) + l - 1) \div l)
    BY <1>2, <1>3, <1>4
  <2> QED
    BY <2>1, <2>2, Totals DEF IsPage
<1> QED
  BY <1>5, <1>6 DEF k, l

\* Asking for everything, a page at a time.
Plain == [page : Nat, limit : 0..100, search : {FALSE}, live : {"any"}, on : {"any"}, mine : {"any"}]

\* What each list then keeps.
KeptBy(list) ==
  {row \in Rows :
     /\ list \in {"publicBranches", "publicServices", "publicStylists", "coupons", "branchServices",
                  "publicBranchServices", "stylistServices", "branchCategories"} => row.live
     /\ list \in {"publicServices", "publicStylists", "publicBranchServices"} => row.on
     /\ list \in {"users", "stylistBookings", "stylistEscrows", "publicBranchServices",
                  "branchStylists"} => row.mine
     /\ list = "unassigned" => ~row.mine}

CountOf(list, found, counted) == IF list \in CountedApart THEN counted ELSE found

\* The page that is answered, whatever the list takes for its own limit.
AnswersPage(list, found, counted, ask) ==
  \E l \in 1..100 :
    /\ ask.limit # 0 => l = ask.limit
    /\ IsPage(Answers(list, found, counted, ask), Among(found, KeptBy(list)),
              Among(CountOf(list, found, counted), KeptBy(list)), PageOf(ask), l)

LEMMA PlainNumbers ==
  ASSUME NEW ask \in Plain
  PROVE  ask.page \in Nat /\ ask.limit \in 0..100
BY DEF Plain

LEMMA PlainWishes ==
  ASSUME NEW ask \in Plain
  PROVE  ~ask.search /\ ask.live = "any" /\ ask.on = "any" /\ ask.mine = "any"
BY DEF Plain

\* A request as some controller passes it on: with its own default for the limit.
PassedOn(a, ask, default) ==
  /\ a.page \in {ask.page, PageOf(ask)}
  /\ a.limit \in {LimitOf(ask, default)} \cup IF default = 10 THEN {ask.limit} ELSE {}

LEMMA PassedNumbers ==
  ASSUME NEW ask \in Plain, NEW a, NEW default \in 1..100, PassedOn(a, ask, default)
  PROVE  /\ a.page \in Nat /\ a.limit \in 0..100
         /\ PageOf(a) = PageOf(ask) /\ LimitOf(a, 10) = LimitOf(ask, default)
<1>1. ask.page \in Nat /\ ask.limit \in 0..100
  BY PlainNumbers
<1>2. PageOf(ask) \in Nat \ {0} /\ LimitOf(ask, default) \in 1..100
  BY <1>1, AskedNumbers
<1>3. a.page \in Nat /\ PageOf(a) = PageOf(ask)
  BY <1>1, <1>2 DEF PassedOn, PageOf
<1>4. CASE a.limit = LimitOf(ask, default)
  <2>1. a.limit # 0 /\ a.limit \in 0..100
    BY <1>2, <1>4
  <2>2. LimitOf(a, 10) = a.limit
    BY <2>1 DEF LimitOf
  <2> QED
    BY <1>3, <1>4, <2>1, <2>2
<1>5. CASE default = 10 /\ a.limit = ask.limit
  <2>1. LimitOf(a, 10) = LimitOf(ask, default)
    BY <1>5 DEF LimitOf
  <2> QED
    BY <1>1, <1>3, <1>5, <2>1
<1> QED
  BY <1>4, <1>5 DEF PassedOn

LEMMA CopiedIs ==
  ASSUME NEW ask \in Plain, NEW parts, NEW default \in 1..100, NEW a, a = Copied(ask, parts, default)
  PROVE  /\ PassedOn(a, ask, default)
         /\ ~a.search /\ a.live = "any" /\ a.on = "any" /\ a.mine = "any"
<1>1. a.page = PageOf(ask) /\ a.limit = LimitOf(ask, default)
  BY DEF Copied, PageOf, LimitOf
<1>2. ~a.search
  BY PlainWishes DEF Copied
<1>3. a.live = "any" /\ a.on = "any" /\ a.mine = "any"
  BY PlainWishes DEF Copied
<1>4. PassedOn(a, ask, default)
  BY <1>1 DEF PassedOn
<1> QED
  BY <1>2, <1>3, <1>4

\* The list keeps what KeptBy says and answers with a page of it.
LEMMA PassedAnswers ==
  ASSUME NEW list, NEW ask \in Plain, NEW found, NEW counted, NEW a, NEW default \in 1..100,
         PassedOn(a, ask, default),
         NEW kept, kept = KeptBy(list), NEW count, count = CountOf(list, found, counted),
         Answers(list, found, counted, ask) \in
           {Paginate(Among(found, kept), Among(count, kept), a),
            PaginateOrEmpty(Among(found, kept), Among(count, kept), a)}
  PROVE  AnswersPage(list, found, counted, ask)
<1>1. ask.page \in Nat /\ ask.limit \in 0..100
  BY PlainNumbers
<1>2. LimitOf(ask, default) \in 1..100
  BY <1>1, AskedNumbers
<1>3. ask.limit # 0 => LimitOf(ask, default) = ask.limit
  BY DEF LimitOf
<1>4. a.page \in Nat /\ a.limit \in 0..100
  BY PassedNumbers
<1>5. PageOf(a) = PageOf(ask) /\ LimitOf(a, 10) = LimitOf(ask, default)
  BY PassedNumbers
<1>6. IsPage(Answers(list, found, counted, ask), Among(found, kept),
             Among(count, kept), PageOf(a), LimitOf(a, 10))
  BY <1>4, PaginateIsPage
<1> QED
  BY <1>2, <1>3, <1>5, <1>6 DEF AnswersPage

LEMMA BranchesAnswer ==
  ASSUME NEW ask \in Plain, NEW found, NEW counted
  PROVE  AnswersPage("branches", found, counted, ask)
<1> DEFINE a == AskBranches(ask)
           kept == {row \in Rows : Given(a.live, row.live) /\ Found(a, row)}
<1>1. PassedOn(a, ask, 10) /\ ~a.search /\ a.live = "any" /\ a.on = "any" /\ a.mine = "any"
  BY CopiedIs DEF AskBranches
<1>2. Answers("branches", found, counted, ask) = Paginate(Among(found, kept), Among(counted, kept), a)
  BY DEF Answers, BranchList
<1> HIDE DEF a
<1>3. kept = KeptBy("branches")
  BY <1>1 DEF KeptBy, Given, Found, Rows
<1>4. CountOf("branches", found, counted) = counted
  BY DEF CountOf, CountedApart
<1> HIDE DEF kept
<1> QED
  BY <1>1, <1>2, <1>3, <1>4, PassedAnswers

LEMMA PublicBranchesAnswer ==
  ASSUME NEW ask \in Plain, NEW found, NEW counted
  PROVE  AnswersPage("publicBranches", found, counted, ask)
<1> DEFINE a == AskPublicBranches(ask)
           kept == {row \in Rows : Given(a.live, row.live) /\ Found(a, row)}
<1>1. PassedOn(a, ask, 10) /\ ~a.search /\ a.live = "yes" /\ a.on = "any" /\ a.mine = "any"
  <2> DEFINE c == Copied(ask, {}, 10)
  <2>1. PassedOn(c, ask, 10) /\ ~c.search /\ c.live = "any" /\ c.on = "any" /\ c.mine = "any"
    BY CopiedIs
  <2>2. c = [page |-> c.page, limit |-> c.limit, search |-> c.search,
             live |-> c.live, on |-> c.on, mine |-> c.mine]
    BY DEF Copied
  <2>3. a = [c EXCEPT !.live = "yes"]
    BY DEF AskPublicBranches
  <2> HIDE DEF c, a
  <2> QED
    BY <2>1, <2>2, <2>3 DEF PassedOn
<1>2. Answers("publicBranches", found, counted, ask) = Paginate(Among(found, kept), Among(counted, kept), a)
  BY DEF Answers, BranchList
<1> HIDE DEF a
<1>3. kept = KeptBy("publicBranches")
  BY <1>1 DEF KeptBy, Given, Found, Rows
<1>4. CountOf("publicBranches", found, counted) = counted
  BY DEF CountOf, CountedApart
<1> HIDE DEF kept
<1> QED
  BY <1>1, <1>2, <1>3, <1>4, PassedAnswers

LEMMA CategoriesAnswer ==
  ASSUME NEW ask \in Plain, NEW found, NEW counted
  PROVE  AnswersPage("categories", found, counted, ask)
<1> DEFINE a == AskCategories(ask)
           kept == {row \in Rows : Given(a.live, row.live) /\ Given(a.on, row.on) /\ Found(a, row)}
<1>1. PassedOn(a, ask, 10) /\ ~a.search /\ a.live = "any" /\ a.on = "any" /\ a.mine = "any"
  BY CopiedIs DEF AskCategories
<1>2. Answers("categories", found, counted, ask) = PaginateOrEmpty(Among(found, kept), Among(counted, kept), a)
  BY DEF Answers, CategoryList
<1> HIDE DEF a
<1>3. kept = KeptBy("categories")
  BY <1>1 DEF KeptBy, Given, Found, Rows
<1>4. CountOf("categories", found, counted) = counted
  BY DEF CountOf, CountedApart
<1> HIDE DEF kept
<1> QED
  BY <1>1, <1>2, <1>3, <1>4, PassedAnswers

LEMMA ServicesAnswer ==
  ASSUME NEW ask \in Plain, NEW found, NEW counted
  PROVE  AnswersPage("services", found, counted, ask)
<1> DEFINE a == AskServices(ask)
           kept == {row \in Rows : Given(a.live, row.live) /\ Given(a.on, row.on) /\ (a.mine = "yes" => row.mine) /\ Found(a, row)}
<1>1. PassedOn(a, ask, 10) /\ ~a.search /\ a.live = "any" /\ a.on = "any" /\ a.mine = "any"
  BY CopiedIs DEF AskServices
<1>2. Answers("services", found, counted, ask) = PaginateOrEmpty(Among(found, kept), Among(counted, kept), a)
  BY DEF Answers, ServiceList
<1> HIDE DEF a
<1>3. kept = KeptBy("services")
  BY <1>1 DEF KeptBy, Given, Found, Rows
<1>4. CountOf("services", found, counted) = counted
  BY DEF CountOf, CountedApart
<1> HIDE DEF kept
<1> QED
  BY <1>1, <1>2, <1>3, <1>4, PassedAnswers

LEMMA PublicServicesAnswer ==
  ASSUME NEW ask \in Plain, NEW found, NEW counted
  PROVE  AnswersPage("publicServices", found, counted, ask)
<1> DEFINE a == AskPublicServices(ask)
           kept == {row \in Rows : Given(a.live, row.live) /\ Given(a.on, row.on) /\ (a.mine = "yes" => row.mine) /\ Found(a, row)}
<1>1. PassedOn(a, ask, 10) /\ ~a.search /\ a.live = "yes" /\ a.on = "yes" /\ a.mine = "any"
  <2> DEFINE c == Copied(ask, {"mine"}, 10)
  <2>1. PassedOn(c, ask, 10) /\ ~c.search /\ c.live = "any" /\ c.on = "any" /\ c.mine = "any"
    BY CopiedIs
  <2>2. c = [page |-> c.page, limit |-> c.limit, search |-> c.search,
             live |-> c.live, on |-> c.on, mine |-> c.mine]
    BY DEF Copied
  <2>3. a = [c EXCEPT !.live = "yes", !.on = "yes"]
    BY DEF AskPublicServices
  <2> HIDE DEF c, a
  <2> QED
    BY <2>1, <2>2, <2>3 DEF PassedOn
<1>2. Answers("publicServices", found, counted, ask) = PaginateOrEmpty(Among(found, kept), Among(counted, kept), a)
  BY DEF Answers, ServiceList
<1> HIDE DEF a
<1>3. kept = KeptBy("publicServices")
  BY <1>1 DEF KeptBy, Given, Found, Rows
<1>4. CountOf("publicServices", found, counted) = counted
  BY DEF CountOf, CountedApart
<1> HIDE DEF kept
<1> QED
  BY <1>1, <1>2, <1>3, <1>4, PassedAnswers

LEMMA StylistsAnswer ==
  ASSUME NEW ask \in Plain, NEW found, NEW counted
  PROVE  AnswersPage("stylists", found, counted, ask)
<1> DEFINE a == ask
           kept == {row \in Rows : Given(a.live, row.live) /\ Given(a.on, row.on) /\ (a.mine = "yes" => row.mine) /\ Found(a, row)}
<1>1. PassedOn(a, ask, 10) /\ ~a.search /\ a.live = "any" /\ a.on = "any" /\ a.mine = "any"
  BY PlainWishes DEF PassedOn
<1>2. Answers("stylists", found, counted, ask) = Paginate(Among(found, kept), Among(counted, kept), a)
  BY DEF Answers, StylistList
<1> HIDE DEF a
<1>3. kept = KeptBy("stylists")
  BY <1>1 DEF KeptBy, Given, Found, Rows
<1>4. CountOf("stylists", found, counted) = counted
  BY DEF CountOf, CountedApart
<1> HIDE DEF kept
<1> QED
  BY <1>1, <1>2, <1>3, <1>4, PassedAnswers

LEMMA PublicStylistsAnswer ==
  ASSUME NEW ask \in Plain, NEW found, NEW counted
  PROVE  AnswersPage("publicStylists", found, counted, ask)
<1> DEFINE a == AskPublicStylists(ask)
           kept == {row \in Rows : Given(a.live, row.live) /\ Given(a.on, row.on) /\ (a.mine = "yes" => row.mine) /\ Found(a, row)}
<1>1. PassedOn(a, ask, 10) /\ ~a.search /\ a.live = "yes" /\ a.on = "yes" /\ a.mine = "any"
  <2>1. ask = [page |-> ask.page, limit |-> ask.limit, search |-> ask.search,
               live |-> ask.live, on |-> ask.on, mine |-> ask.mine]
    BY DEF Plain
  <2> QED
    BY <2>1, PlainWishes DEF AskPublicStylists, PassedOn
<1>2. Answers("publicStylists", found, counted, ask) = Paginate(Among(found, kept), Among(counted, kept), a)
  BY DEF Answers, StylistList
<1> HIDE DEF a
<1>3. kept = KeptBy("publicStylists")
  BY <1>1 DEF KeptBy, Given, Found, Rows
<1>4. CountOf("publicStylists", found, counted) = counted
  BY DEF CountOf, CountedApart
<1> HIDE DEF kept
<1> QED
  BY <1>1, <1>2, <1>3, <1>4, PassedAnswers

LEMMA UsersAnswer ==
  ASSUME NEW ask \in Plain, NEW found, NEW counted
  PROVE  AnswersPage("users", found, counted, ask)
<1> DEFINE a == ask
           kept == {row \in Rows : row.mine /\ Given(a.on, row.on) /\ Found(a, row)}
<1>1. PassedOn(a, ask, 10) /\ ~a.search /\ a.live = "any" /\ a.on = "any" /\ a.mine = "any"
  BY PlainWishes DEF PassedOn
<1>2. Answers("users", found, counted, ask) = Paginate(Among(found, kept), Among(counted, kept), a)
  BY DEF Answers, UserList
<1> HIDE DEF a
<1>3. kept = KeptBy("users")
  BY <1>1 DEF KeptBy, Given, Found, Rows
<1>4. CountOf("users", found, counted) = counted
  BY DEF CountOf, CountedApart
<1> HIDE DEF kept
<1> QED
  BY <1>1, <1>2, <1>3, <1>4, PassedAnswers

LEMMA CouponsAnswer ==
  ASSUME NEW ask \in Plain, NEW found, NEW counted
  PROVE  AnswersPage("coupons", found, counted, ask)
<1> DEFINE a == ask
           kept == {row \in Rows : IF a.live = "no" THEN ~row.live /\ Found(a, row) ELSE row.live /\ Given(a.on, row.on) /\ Found(a, row)}
<1>1. PassedOn(a, ask, 10) /\ ~a.search /\ a.live = "any" /\ a.on = "any" /\ a.mine = "any"
  BY PlainWishes DEF PassedOn
<1>2. Answers("coupons", found, counted, ask) = Paginate(Among(found, kept), Among(counted, kept), a)
  BY DEF Answers, CouponList
<1> HIDE DEF a
<1>3. kept = KeptBy("coupons")
  BY <1>1 DEF KeptBy, Given, Found, Rows
<1>4. CountOf("coupons", found, counted) = counted
  BY DEF CountOf, CountedApart
<1> HIDE DEF kept
<1> QED
  BY <1>1, <1>2, <1>3, <1>4, PassedAnswers

LEMMA StylistBookingsAnswer ==
  ASSUME NEW ask \in Plain, NEW found, NEW counted
  PROVE  AnswersPage("stylistBookings", found, counted, ask)
<1> DEFINE a == ask
           kept == {row \in Rows : row.mine /\ Given(a.on, row.on) /\ Found(a, row)}
<1>1. PassedOn(a, ask, 10) /\ ~a.search /\ a.live = "any" /\ a.on = "any" /\ a.mine = "any"
  BY PlainWishes DEF PassedOn
<1>2. Answers("stylistBookings", found, counted, ask) = Paginate(Among(found, kept), Among(counted, kept), a)
  BY DEF Answers, StylistBookingList
<1> HIDE DEF a
<1>3. kept = KeptBy("stylistBookings")
  BY <1>1 DEF KeptBy, Given, Found, Rows
<1>4. CountOf("stylistBookings", found, counted) = counted
  BY DEF CountOf, CountedApart
<1> HIDE DEF kept
<1> QED
  BY <1>1, <1>2, <1>3, <1>4, PassedAnswers

LEMMA EscrowsAnswer ==
  ASSUME NEW ask \in Plain, NEW found, NEW counted
  PROVE  AnswersPage("escrows", found, counted, ask)
<1> DEFINE a == ask
           kept == {row \in Rows : (a.mine = "yes" => row.mine) /\ Given(a.on, row.on) /\ Found(a, row)}
<1>1. PassedOn(a, ask, 10) /\ ~a.search /\ a.live = "any" /\ a.on = "any" /\ a.mine = "any"
  BY PlainWishes DEF PassedOn
<1>2. Answers("escrows", found, counted, ask) = Paginate(Among(found, kept), Among(counted, kept), a)
  BY DEF Answers, EscrowList
<1> HIDE DEF a
<1>3. kept = KeptBy("escrows")
  BY <1>1 DEF KeptBy, Given, Found, Rows
<1>4. CountOf("escrows", found, counted) = counted
  BY DEF CountOf, CountedApart
<1> HIDE DEF kept
<1> QED
  BY <1>1, <1>2, <1>3, <1>4, PassedAnswers

LEMMA StylistEscrowsAnswer ==
  ASSUME NEW ask \in Plain, NEW found, NEW counted
  PROVE  AnswersPage("stylistEscrows", found, counted, ask)
<1> DEFINE a == AskStylistEscrows(ask)
           kept == {row \in Rows : (a.mine = "yes" => row.mine) /\ Given(a.on, row.on) /\ Found(a, row)}
<1>1. PassedOn(a, ask, 10) /\ ~a.search /\ a.live = "any" /\ a.on = "any" /\ a.mine = "yes"
  <2>1. ask = [page |-> ask.page, limit |-> ask.limit, search |-> ask.search,
               live |-> ask.live, on |-> ask.on, mine |-> ask.mine]
    BY DEF Plain
  <2> QED
    BY <2>1, PlainWishes DEF AskStylistEscrows, PassedOn
<1>2. Answers("stylistEscrows", found, counted, ask) = Paginate(Among(found, kept), Among(counted, kept), a)
  BY DEF Answers, EscrowList
<1> HIDE DEF a
<1>3. kept = KeptBy("stylistEscrows")
  BY <1>1 DEF KeptBy, Given, Found, Rows
<1>4. CountOf("stylistEscrows", found, counted) = counted
  BY DEF CountOf, CountedApart
<1> HIDE DEF kept
<1> QED
  BY <1>1, <1>2, <1>3, <1>4, PassedAnswers

LEMMA BranchServicesAnswer ==
  ASSUME NEW ask \in Plain, NEW found, NEW counted
  PROVE  AnswersPage("branchServices", found, counted, ask)
<1> DEFINE a == AskBranchServices(ask)
           kept == {row \in Rows : row.live /\ Found(a, row) /\ Given(a.mine, row.mine) /\ Given(a.on, row.mine /\ row.on)}
<1>1. PassedOn(a, ask, 10) /\ ~a.search /\ a.live = "any" /\ a.on = "any" /\ a.mine = "any"
  BY CopiedIs DEF AskBranchServices
<1>2. Answers("branchServices", found, counted, ask) = Paginate(Among(found, kept), Among(found, kept), a)
  BY DEF Answers, BranchServiceList, InMemory
<1> HIDE DEF a
<1>3. kept = KeptBy("branchServices")
  BY <1>1 DEF KeptBy, Given, Found, Rows
<1>4. CountOf("branchServices", found, counted) = found
  BY DEF CountOf, CountedApart
<1> HIDE DEF kept
<1> QED
  BY <1>1, <1>2, <1>3, <1>4, PassedAnswers

LEMMA PublicBranchServicesAnswer ==
  ASSUME NEW ask \in Plain, NEW found, NEW counted
  PROVE  AnswersPage("publicBranchServices", found, counted, ask)
<1> DEFINE a == AskPublicBranchServices(ask)
           kept == {row \in Rows : row.live /\ row.on /\ row.mine /\ Found(a, row)}
<1>1. PassedOn(a, ask, 9) /\ ~a.search /\ a.live = "any" /\ a.on = "any" /\ a.mine = "any"
  BY CopiedIs DEF AskPublicBranchServices
<1>2. Answers("publicBranchServices", found, counted, ask) = Paginate(Among(found, kept), Among(found, kept), a)
  BY DEF Answers, PublicBranchServiceList, InMemory
<1> HIDE DEF a
<1>3. kept = KeptBy("publicBranchServices")
  BY <1>1 DEF KeptBy, Given, Found, Rows
<1>4. CountOf("publicBranchServices", found, counted) = found
  BY DEF CountOf, CountedApart
<1> HIDE DEF kept
<1> QED
  BY <1>1, <1>2, <1>3, <1>4, PassedAnswers

LEMMA StylistServicesAnswer ==
  ASSUME NEW ask \in Plain, NEW found, NEW counted
  PROVE  AnswersPage("stylistServices", found, counted, ask)
<1> DEFINE a == ask
           kept == {row \in Rows : row.live /\ Found(a, row) /\ Given(a.mine, row.mine) /\ Given(a.on, row.mine /\ row.on)}
<1>1. PassedOn(a, ask, 10) /\ ~a.search /\ a.live = "any" /\ a.on = "any" /\ a.mine = "any"
  BY PlainWishes DEF PassedOn
<1>2. Answers("stylistServices", found, counted, ask) = Paginate(Among(found, kept), Among(found, kept), a)
  BY DEF Answers, StylistServiceList, InMemory
<1> HIDE DEF a
<1>3. kept = KeptBy("stylistServices")
  BY <1>1 DEF KeptBy, Given, Found, Rows
<1>4. CountOf("stylistServices", found, counted) = found
  BY DEF CountOf, CountedApart
<1> HIDE DEF kept
<1> QED
  BY <1>1, <1>2, <1>3, <1>4, PassedAnswers

LEMMA BranchCategoriesAnswer ==
  ASSUME NEW ask \in Plain, NEW found, NEW counted
  PROVE  AnswersPage("branchCategories", found, counted, ask)
<1> DEFINE a == AskBranchCategories(ask)
           kept == {row \in Rows : row.live /\ Found(a, row) /\ Given(a.on, row.mine /\ row.on)}
<1>1. PassedOn(a, ask, 10) /\ ~a.search /\ a.live = "any" /\ a.on = "any" /\ a.mine = "any"
  BY CopiedIs DEF AskBranchCategories
<1>2. Answers("branchCategories", found, counted, ask) = Paginate(Among(found, kept), Among(found, kept), a)
  BY DEF Answers, BranchCategoryList, InMemory
<1> HIDE DEF a
<1>3. kept = KeptBy("branchCategories")
  BY <1>1 DEF KeptBy, Given, Found, Rows
<1>4. CountOf("branchCategories", found, counted) = found
  BY DEF CountOf, CountedApart
<1> HIDE DEF kept
<1> QED
  BY <1>1, <1>2, <1>3, <1>4, PassedAnswers

LEMMA BranchStylistsAnswer ==
  ASSUME NEW ask \in Plain, NEW found, NEW counted
  PROVE  AnswersPage("branchStylists", found, counted, ask)
<1> DEFINE a == AskBranchStylists(ask)
           kept == {row \in Rows : row.mine /\ Found(a, row)}
<1>1. PassedOn(a, ask, 10) /\ ~a.search /\ a.live = "any" /\ a.on = "any" /\ a.mine = "any"
  BY CopiedIs DEF AskBranchStylists
<1>2. Answers("branchStylists", found, counted, ask) = Paginate(Among(found, kept), Among(found, kept), a)
  BY DEF Answers, BranchStylistList, InMemory
<1> HIDE DEF a
<1>3. kept = KeptBy("branchStylists")
  BY <1>1 DEF KeptBy, Given, Found, Rows
<1>4. CountOf("branchStylists", found, counted) = found
  BY DEF CountOf, CountedApart
<1> HIDE DEF kept
<1> QED
  BY <1>1, <1>2, <1>3, <1>4, PassedAnswers

LEMMA UnassignedAnswer ==
  ASSUME NEW ask \in Plain, NEW found, NEW counted
  PROVE  AnswersPage("unassigned", found, counted, ask)
<1> DEFINE a == AskUnassigned(ask)
           kept == {row \in Rows : ~row.mine /\ Found(a, row)}
<1>1. PassedOn(a, ask, 10) /\ ~a.search /\ a.live = "any" /\ a.on = "any" /\ a.mine = "any"
  BY CopiedIs DEF AskUnassigned
<1>2. Answers("unassigned", found, counted, ask) = Paginate(Among(found, kept), Among(found, kept), a)
  BY DEF Answers, UnassignedList, InMemory
<1> HIDE DEF a
<1>3. kept = KeptBy("unassigned")
  BY <1>1 DEF KeptBy, Given, Found, Rows
<1>4. CountOf("unassigned", found, counted) = found
  BY DEF CountOf, CountedApart
<1> HIDE DEF kept
<1> QED
  BY <1>1, <1>2, <1>3, <1>4, PassedAnswers

LEMMA ReviewsAnswer ==
  ASSUME NEW ask \in Plain, NEW found, NEW counted
  PROVE  AnswersPage("reviews", found, counted, ask)
<1> DEFINE k == PageOf(ask)
           l == LimitOf(ask, 10)
           p == Place(k, l)
           kept == {row \in Rows : (ask.live = "any" \/ row.live) /\ (ask.mine = "yes" => row.mine)
                                     /\ Found(ask, row)}
           answer == Build(Slice(Among(found, kept), p), Len(Among(counted, kept)), p)
<1>1. Answers("reviews", found, counted, ask) = answer
  BY DEF Answers, ReviewList, Place, PageOf, LimitOf
<1>2. kept = KeptBy("reviews")
  BY PlainWishes DEF KeptBy, Found, Rows
<1>3. CountOf("reviews", found, counted) = counted
  BY DEF CountOf, CountedApart
<1>4. /\ answer.data = Slice(Among(found, kept), p)
      /\ answer.totalItems = Len(Among(counted, kept))
      /\ answer.hasNextPage <=> k < (Len(Among(counted, kept)) + l - 1) \div l
  BY DEF Build, Place
<1>5. l \in 1..100 /\ (ask.limit # 0 => l = ask.limit)
  BY PlainNumbers, AskedNumbers DEF LimitOf
<1> HIDE DEF answer, kept, l, k
<1>6. IsPage(answer, Among(found, kept), Among(counted, kept), k, l)
  BY <1>4 DEF IsPage
<1> QED
  BY <1>1, <1>2, <1>3, <1>5, <1>6 DEF AnswersPage, k

LEMMA EveryListAnswers ==
  ASSUME NEW list \in Lists, NEW ask \in Plain, NEW found, NEW counted
  PROVE  AnswersPage(list, found, counted, ask)
BY BranchesAnswer, PublicBranchesAnswer, CategoriesAnswer, ServicesAnswer, PublicServicesAnswer,
   StylistsAnswer, PublicStylistsAnswer, UsersAnswer, CouponsAnswer, StylistBookingsAnswer,
   EscrowsAnswer, StylistEscrowsAnswer, ReviewsAnswer, BranchServicesAnswer,
   PublicBranchServicesAnswer, StylistServicesAnswer, BranchCategoriesAnswer,
   BranchStylistsAnswer, UnassignedAnswer
   DEF Lists, CountedApart, CutInMemory

-----------------------------------------------------------------------------
(* Pages of a list.                                                         *)

LEMMA Multiples ==
  ASSUME NEW l \in Nat \ {0}, NEW k \in Nat \ {0}
  PROVE  /\ (k - 1) * l \in Nat /\ k * l \in Nat
         /\ k * l = (k - 1) * l + l
OBVIOUS

LEMMA MultiplesGrow ==
  ASSUME NEW l \in Nat \ {0}, NEW j \in Nat, NEW k \in Nat, j <= k
  PROVE  j * l <= k * l
OBVIOUS

\* The page a place of the list is on.
LEMMA OnSomePage ==
  ASSUME NEW l \in Nat \ {0}, NEW i \in Nat \ {0}
  PROVE  \E k \in 1..i : (k - 1) * l < i /\ i <= k * l
<1> DEFINE Far == {n \in Nat : i <= n * l}
<1>1. i \in Far
  OBVIOUS
<1>2. PICK k \in Far : \A n \in Far : k <= n
  <2>1. Far \subseteq Nat /\ Far # {}
    BY <1>1
  <2> HIDE DEF Far
  <2> QED
    BY <2>1, LeastNumber
<1>3. k \in Nat /\ k <= i /\ i <= k * l
  BY <1>1, <1>2
<1>4. k # 0
  BY <1>3
<1>5. k - 1 \in Nat /\ k - 1 \notin Far
  BY <1>2, <1>3, <1>4
<1>6. (k - 1) * l < i
  BY <1>5, Multiples, <1>3, <1>4
<1>7. k \in 1..i
  BY <1>3, <1>4
<1> HIDE DEF Far
<1> QED
  BY <1>3, <1>6, <1>7

\* There is a next page as long as rows are left.
LEMMA NextPage ==
  ASSUME NEW l \in Nat \ {0}, NEW k \in Nat, NEW c \in Nat, k * l < c
  PROVE  k < (c + l - 1) \div l
<1> DEFINE x == c + l - 1
           q == x \div l
<1>1. x \in Nat
  OBVIOUS
<1> HIDE DEF x
<1>2. q \in Int
  BY <1>1
<1>3. x < l * q + l
  BY <1>1
<1>4. k * l + l <= x
  <2>1. k * l \in Nat
    OBVIOUS
  <2> QED
    BY <2>1 DEF x
<1> HIDE DEF q
<1>5. SUFFICES ASSUME q <= k PROVE FALSE
  BY <1>2 DEF q, x
<1>6. l * q <= k * l
  BY <1>2, <1>5
<1> QED
  <2>1. l * q \in Int /\ k * l \in Int
    BY <1>2
  <2> QED
    BY <1>1, <1>3, <1>4, <1>6, <2>1

LEMMA SliceHolds ==
  ASSUME NEW S, NEW rows \in Seq(S), NEW l \in Nat \ {0}, NEW k \in Nat \ {0}
  PROVE  /\ (k - 1) * l < Len(rows) => Slice(rows, Place(k, l)) # <<>>
         /\ \A i \in 1..Len(rows) : (k - 1) * l < i /\ i <= k * l =>
              rows[i] \in ToSet(Slice(rows, Place(k, l)))
         /\ \A x \in ToSet(Slice(rows, Place(k, l))) :
              \E i \in 1..Len(rows) : (k - 1) * l < i /\ i <= k * l /\ x = rows[i]
<1> DEFINE s == (k - 1) * l
           n == Len(rows)
           e == Min({s + l, n})
           cut == SubSeq(rows, s + 1, e)
<1>1. s \in Nat /\ k * l = s + l
  BY Multiples
<1>2. n \in Nat /\ DOMAIN rows = 1..n /\ \A i \in 1..n : rows[i] \in S
  BY LenProperties
<1>3. Slice(rows, Place(k, l)) = cut
  BY DEF Slice, Place
<1> HIDE DEF s, n
<1>4. e \in Nat /\ e <= s + l /\ e <= n /\ e \in {s + l, n}
  <2>1. \A a, b \in Nat : Min({a, b}) \in {a, b} /\ Min({a, b}) <= a /\ Min({a, b}) <= b
    <3> SUFFICES ASSUME NEW a \in Nat, NEW b \in Nat
                 PROVE  Min({a, b}) \in {a, b} /\ Min({a, b}) <= a /\ Min({a, b}) <= b
      OBVIOUS
    <3> DEFINE least(x) == x \in {a, b} /\ \A y \in {a, b} : x <= y
    <3>1. \E x : least(x)
      <4>1. a <= b => least(a)
        OBVIOUS
      <4>2. b <= a => least(b)
        OBVIOUS
      <4>3. a <= b \/ b <= a
        OBVIOUS
      <4> HIDE DEF least
      <4> QED
        BY <4>1, <4>2, <4>3
    <3>2. Min({a, b}) = CHOOSE x : least(x)
      BY DEF Min
    <3>3. least(Min({a, b}))
      <4> HIDE DEF least
      <4> QED
        BY <3>1, <3>2
    <3> QED
      BY <3>3
  <2>2. s + l \in Nat
    BY <1>1
  <2> QED
    BY <1>2, <2>1, <2>2
<1> HIDE DEF e
<1>5. /\ cut \in Seq(S)
      /\ Len(cut) = IF s + 1 <= e THEN e - s ELSE 0
      /\ \A i \in 1..(e - s) : cut[i] = rows[s + i]
  <2>1. \A i \in (s + 1)..e : rows[i] \in S
    BY <1>1, <1>2, <1>4
  <2>2. s + 1 \in Int /\ e \in Int
    BY <1>1, <1>4
  <2>3. /\ cut \in Seq(S)
        /\ Len(cut) = IF s + 1 <= e THEN e - (s + 1) + 1 ELSE 0
        /\ \A i \in 1..(e - (s + 1) + 1) : cut[i] = rows[(s + 1) + i - 1]
    BY <2>1, <2>2, SubSeqProperties
  <2> HIDE DEF cut
  <2>4. e - (s + 1) + 1 = e - s
    BY <1>1, <1>4
  <2>5. \A i \in 1..(e - s) : (s + 1) + i - 1 = s + i
    BY <1>1, <1>4
  <2> QED
    BY <2>3, <2>4, <2>5
<1> HIDE DEF cut
<1>6. s < n => cut # <<>>
  <2>1. SUFFICES ASSUME s < n PROVE Len(cut) # 0
    BY EmptySeq
  <2>2. s + 1 <= e
    BY <1>1, <1>2, <1>4, <2>1
  <2> QED
    BY <1>1, <1>4, <1>5, <2>2
<1>7. DOMAIN cut = IF s + 1 <= e THEN 1..(e - s) ELSE {}
  <2>1. DOMAIN cut = 1..Len(cut)
    BY <1>5, LenProperties
  <2> QED
    BY <1>1, <1>4, <1>5, <2>1
<1>8. ASSUME NEW i \in 1..n, s < i, i <= s + l
      PROVE  rows[i] \in ToSet(cut)
  <2>1. i <= e
    BY <1>4, <1>8
  <2>2. s + 1 <= e /\ (i - s) \in 1..(e - s) /\ s + (i - s) = i
    BY <1>1, <1>4, <1>8, <2>1
  <2>3. (i - s) \in DOMAIN cut /\ cut[i - s] = rows[i]
    BY <1>5, <1>7, <2>2
  <2> QED
    BY <2>3 DEF ToSet
<1>9. ASSUME NEW x \in ToSet(cut)
      PROVE  \E i \in 1..n : s < i /\ i <= s + l /\ x = rows[i]
  <2>1. PICK j \in DOMAIN cut : x = cut[j]
    BY DEF ToSet
  <2>2. j \in 1..(e - s)
    BY <1>7, <2>1
  <2>3. x = rows[s + j]
    BY <1>5, <2>1, <2>2
  <2>4. s + j \in 1..n /\ s < s + j /\ s + j <= s + l
    BY <1>1, <1>2, <1>4, <2>2
  <2> QED
    BY <2>3, <2>4
<1>10. \A i \in 1..n : s < i /\ i <= k * l => rows[i] \in ToSet(cut)
  BY <1>1, <1>8
<1>11. \A x \in ToSet(cut) : \E i \in 1..n : s < i /\ i <= k * l /\ x = rows[i]
  BY <1>1, <1>9
<1> QED
  BY <1>3, <1>6, <1>10, <1>11 DEF s, n

-----------------------------------------------------------------------------
(* A row more or less moves the rows behind it by one place at most.        *)

LEMMA AmongShorter ==
  ASSUME NEW S, NEW kept, NEW rows \in Seq(S)
  PROVE  Len(Among(rows, kept)) <= Len(rows)
<1> DEFINE Bad == {s \in Seq(S) : ~(Len(Among(s, kept)) <= Len(s))}
<1>1. SUFFICES ASSUME Bad # {} PROVE FALSE
  OBVIOUS
<1>2. <<>> \notin Bad
  BY AmongEmpty, EmptySeq
<1>3. PICK t \in Seq(S), x \in S : t \notin Bad /\ Append(t, x) \in Bad
  <2>1. Bad \subseteq Seq(S)
    OBVIOUS
  <2> HIDE DEF Bad
  <2> QED
    BY <1>1, <1>2, <2>1, ShortestBad
<1>4. Among(t, kept) \in Seq(S) /\ Len(Among(t, kept)) <= Len(t)
  BY <1>3, AmongSeq
<1>5. Len(Append(t, x)) = Len(t) + 1 /\ Len(Append(Among(t, kept), x)) = Len(Among(t, kept)) + 1
      /\ Len(t) \in Nat /\ Len(Among(t, kept)) \in Nat
  BY <1>4, AppendProperties, LenProperties
<1>6. Among(Append(t, x), kept) = IF x \in kept THEN Append(Among(t, kept), x) ELSE Among(t, kept)
  BY AmongAppend
<1>7. Len(Among(Append(t, x), kept)) <= Len(Append(t, x))
  BY <1>4, <1>5, <1>6
<1> QED
  BY <1>3, <1>7

\* The rows of the one list are those of the other, at their places or one later.
Shifted(short, long) ==
  /\ Len(short) <= Len(long)
  /\ \A i \in 1..Len(short) :
       \E j \in {i, i + 1} : j \in 1..Len(long) /\ long[j] = short[i]

LEMMA OneMoreShifts ==
  ASSUME NEW S, NEW kept, NEW u \in Seq(S), NEW v \in Seq(S), NEW x \in S
  PROVE  Shifted(Among(u \o v, kept), Among((u \o <<x>>) \o v, kept))
<1> DEFINE a == Among(u, kept)
           b == Among(v, kept)
           m == Among(<<x>>, kept)
           short == a \o b
           long == (a \o m) \o b
<1>1. u \o <<x>> \in Seq(S) /\ <<x>> \in Seq(S)
  <2>1. <<x>> \in Seq(S)
    OBVIOUS
  <2> QED
    BY <2>1, ConcatProperties
<1>2. Among(u \o v, kept) = short
  BY AmongJoins
<1>3. Among((u \o <<x>>) \o v, kept) = long
  <2>1. Among((u \o <<x>>) \o v, kept) = Among(u \o <<x>>, kept) \o b
    BY <1>1, AmongJoins
  <2>2. Among(u \o <<x>>, kept) = a \o m
    BY <1>1, AmongJoins
  <2> QED
    BY <2>1, <2>2
<1>4. a \in Seq(S) /\ b \in Seq(S) /\ m \in Seq(S)
  BY <1>1, AmongSeq
<1>5. Len(m) <= 1
  <2>1. Len(<<x>>) = 1
    OBVIOUS
  <2> QED
    BY <1>1, <2>1, AmongShorter
<1> HIDE DEF a, b, m
<1>6. Len(a) \in Nat /\ Len(b) \in Nat /\ Len(m) \in 0..1
  <2>1. Len(a) \in Nat /\ Len(b) \in Nat
    BY <1>4, LenProperties
  <2>2. Len(m) \in Nat
    BY <1>4, LenProperties
  <2>3. \A n \in Nat : n <= 1 => n \in 0..1
    OBVIOUS
  <2>4. Len(m) \in 0..1
    BY <1>5, <2>2, <2>3
  <2> QED
    BY <2>1, <2>4
<1>7. /\ Len(short) = Len(a) + Len(b)
      /\ \A i \in 1..(Len(a) + Len(b)) : short[i] = IF i <= Len(a) THEN a[i] ELSE b[i - Len(a)]
  BY <1>4, ConcatProperties
<1>8. /\ a \o m \in Seq(S) /\ Len(a \o m) = Len(a) + Len(m)
      /\ \A i \in 1..(Len(a) + Len(m)) : (a \o m)[i] = IF i <= Len(a) THEN a[i] ELSE m[i - Len(a)]
  BY <1>4, ConcatProperties
<1>9. /\ Len(long) = Len(a \o m) + Len(b)
      /\ \A i \in 1..(Len(a \o m) + Len(b)) :
           long[i] = IF i <= Len(a \o m) THEN (a \o m)[i] ELSE b[i - Len(a \o m)]
  BY <1>4, <1>8, ConcatProperties
<1> DEFINE am == a \o m
<1> HIDE DEF short, long, am
<1>10. ASSUME NEW i \in 1..Len(short)
       PROVE  \E j \in {i, i + 1} : j \in 1..Len(long) /\ long[j] = short[i]
  <2>1. CASE i <= Len(a)
    <3>1. i \in 1..Len(long) /\ i \in 1..(Len(a) + Len(m)) /\ i \in 1..(Len(a) + Len(b))
      BY <1>6, <1>7, <1>8, <1>9, <2>1
    <3>2. short[i] = a[i]
      BY <1>7, <2>1, <3>1
    <3>3. am[i] = a[i]
      BY <1>8, <2>1, <3>1 DEF am
    <3>4. long[i] = am[i]
      BY <1>6, <1>8, <1>9, <2>1, <3>1 DEF am
    <3> QED
      BY <3>1, <3>2, <3>3, <3>4
  <2>2. CASE i > Len(a)
    <3>1. i + Len(m) \in 1..Len(long) /\ long[i + Len(m)] = b[i - Len(a)]
      <4>1. i + Len(m) \in 1..(Len(a) + Len(m) + Len(b)) /\ i + Len(m) > Len(a) + Len(m)
            /\ (i + Len(m)) - (Len(a) + Len(m)) = i - Len(a)
        BY <1>6, <1>7, <2>2
      <4> QED
        BY <1>8, <1>9, <4>1
    <3>2. short[i] = b[i - Len(a)]
      BY <1>6, <1>7, <2>2
    <3>3. i + Len(m) \in {i, i + 1}
      <4>1. i \in Nat
        BY <1>6, <1>7
      <4>2. \A n \in 0..1 : i + n \in {i, i + 1}
        BY <4>1
      <4> QED
        BY <1>6, <4>2
    <3> QED
      BY <3>1, <3>2, <3>3
  <2> QED
    BY <1>6, <2>1, <2>2
<1>11. Len(short) <= Len(long)
  BY <1>6, <1>7, <1>8, <1>9
<1> QED
  BY <1>2, <1>3, <1>10, <1>11 DEF Shifted

\* A list with a row inserted or removed, as two parts.
LEMMA PartsAround ==
  ASSUME NEW S, NEW rows \in Seq(S), NEW n \in 0..Len(rows)
  PROVE  /\ SubSeq(rows, 1, n) \in Seq(S) /\ SubSeq(rows, n + 1, Len(rows)) \in Seq(S)
         /\ rows = SubSeq(rows, 1, n) \o SubSeq(rows, n + 1, Len(rows))
<1> DEFINE u == SubSeq(rows, 1, n)
           v == SubSeq(rows, n + 1, Len(rows))
<1>1. Len(rows) \in Nat /\ n \in Nat /\ \A i \in 1..Len(rows) : rows[i] \in S
  BY LenProperties
<1>2. /\ u \in Seq(S) /\ Len(u) = n
      /\ \A i \in 1..n : u[i] = rows[i]
  <2>1. \A i \in 1..n : rows[i] \in S
    BY <1>1
  <2>2. /\ u \in Seq(S) /\ Len(u) = IF 1 <= n THEN n - 1 + 1 ELSE 0
        /\ \A i \in 1..(n - 1 + 1) : u[i] = rows[1 + i - 1]
    BY <1>1, <2>1, SubSeqProperties
  <2> HIDE DEF u
  <2>3. n - 1 + 1 = n /\ \A i \in 1..n : 1 + i - 1 = i
    BY <1>1
  <2> QED
    BY <1>1, <2>2, <2>3
<1>3. /\ v \in Seq(S) /\ Len(v) = Len(rows) - n
      /\ \A i \in 1..(Len(rows) - n) : v[i] = rows[n + i]
  <2>1. \A i \in (n + 1)..Len(rows) : rows[i] \in S
    BY <1>1
  <2>2. n + 1 \in Int /\ Len(rows) \in Int
    BY <1>1
  <2>3. /\ v \in Seq(S) /\ Len(v) = IF n + 1 <= Len(rows) THEN Len(rows) - (n + 1) + 1 ELSE 0
        /\ \A i \in 1..(Len(rows) - (n + 1) + 1) : v[i] = rows[(n + 1) + i - 1]
    BY <2>1, <2>2, SubSeqProperties
  <2> HIDE DEF v
  <2>4. Len(rows) - (n + 1) + 1 = Len(rows) - n
    BY <1>1
  <2>5. \A i \in 1..(Len(rows) - n) : (n + 1) + i - 1 = n + i
    BY <1>1
  <2>6. Len(v) = Len(rows) - n
    BY <1>1, <2>3
  <2>7. \A i \in 1..(Len(rows) - n) : v[i] = rows[n + i]
    BY <2>3, <2>4, <2>5
  <2> QED
    BY <2>3, <2>6, <2>7
<1> HIDE DEF u, v
<1>4. /\ u \o v \in Seq(S) /\ Len(u \o v) = Len(rows)
      /\ \A i \in 1..Len(rows) : (u \o v)[i] = rows[i]
  <2>1. /\ u \o v \in Seq(S) /\ Len(u \o v) = Len(u) + Len(v)
        /\ \A i \in 1..(Len(u) + Len(v)) : (u \o v)[i] = IF i <= Len(u) THEN u[i] ELSE v[i - Len(u)]
    BY <1>2, <1>3, ConcatProperties
  <2>2. Len(u) + Len(v) = Len(rows)
    BY <1>1, <1>2, <1>3
  <2>3. ASSUME NEW i \in 1..Len(rows) PROVE (u \o v)[i] = rows[i]
    <3>1. CASE i <= n
      BY <1>1, <1>2, <2>1, <2>2, <3>1
    <3>2. CASE i > n
      <4>1. i - n \in 1..(Len(rows) - n) /\ n + (i - n) = i
        BY <1>1, <3>2
      <4>2. v[i - n] = rows[i]
        BY <1>3, <4>1
      <4>3. (u \o v)[i] = v[i - n]
        BY <1>1, <1>2, <2>1, <2>2, <3>2
      <4> QED
        BY <4>2, <4>3
    <3>3. i <= n \/ i > n
      BY <1>1
    <3> QED
      BY <3>1, <3>2, <3>3
  <2> QED
    BY <2>1, <2>2, <2>3
<1>5. u \o v = rows
  BY <1>4, SeqEqual
<1> QED
  BY <1>2, <1>3, <1>5 DEF u, v

LEMMA InsertedShifts ==
  ASSUME NEW S, NEW kept, NEW rows \in Seq(S), NEW x \in S, NEW place \in 1..(Len(rows) + 1)
  PROVE  Shifted(Among(rows, kept), Among(InsertAt(rows, place, x), kept))
<1>1. Len(rows) \in Nat
  BY LenProperties
<1>2. PICK n \in 0..Len(rows) : n = place - 1
  BY <1>1
<1> DEFINE u == SubSeq(rows, 1, n)
           v == SubSeq(rows, n + 1, Len(rows))
<1>3. u \in Seq(S) /\ v \in Seq(S) /\ rows = u \o v
  BY PartsAround
<1>4. n + 1 = place
  BY <1>1, <1>2
<1>5. InsertAt(rows, place, x) = (u \o <<x>>) \o v
  BY <1>2, <1>4 DEF InsertAt
<1> HIDE DEF u, v
<1> QED
  BY <1>3, <1>5, OneMoreShifts

LEMMA RemovedShifts ==
  ASSUME NEW S, NEW kept, NEW rows \in Seq(S), NEW place \in 1..Len(rows)
  PROVE  /\ RemoveAt(rows, place) \in Seq(S)
         /\ Shifted(Among(RemoveAt(rows, place), kept), Among(rows, kept))
<1>1. Len(rows) \in Nat /\ rows[place] \in S
  BY LenProperties
<1> DEFINE n == place - 1
           x == rows[place]
           u == SubSeq(rows, 1, n)
           v == SubSeq(rows, place + 1, Len(rows))
           r == SubSeq(rows, place, Len(rows))
<1>2. n \in 0..Len(rows) /\ n + 1 = place /\ place \in 0..Len(rows)
  BY <1>1
<1>3. u \in Seq(S) /\ r \in Seq(S) /\ rows = u \o r
  BY <1>2, PartsAround
<1>4. v \in Seq(S)
  BY <1>2, PartsAround
<1>5. r = <<x>> \o v
  <2>1. <<x>> \in Seq(S) /\ Len(<<x>>) = 1 /\ <<x>>[1] = x
    BY <1>1
  <2>2. /\ <<x>> \o v \in Seq(S) /\ Len(<<x>> \o v) = 1 + Len(v)
        /\ \A i \in 1..(1 + Len(v)) : (<<x>> \o v)[i] = IF i <= 1 THEN x ELSE v[i - 1]
    BY <1>4, <2>1, ConcatProperties
  <2>3. \A i \in 1..Len(rows) : rows[i] \in S
    BY LenProperties
  <2>4. /\ Len(r) = Len(rows) - n
        /\ \A i \in 1..(Len(rows) - n) : r[i] = rows[n + i]
    <3>1. \A i \in place..Len(rows) : rows[i] \in S
      BY <1>1, <2>3
    <3>2. /\ Len(r) = IF place <= Len(rows) THEN Len(rows) - place + 1 ELSE 0
          /\ \A i \in 1..(Len(rows) - place + 1) : r[i] = rows[place + i - 1]
      BY <1>1, <3>1, SubSeqProperties
    <3>3. Len(rows) - place + 1 = Len(rows) - n
      BY <1>1
    <3>4. \A i \in 1..(Len(rows) - n) : place + i - 1 = n + i
      BY <1>1
    <3> HIDE DEF r, n
    <3>5. Len(r) = Len(rows) - n
      BY <1>1, <3>2, <3>3
    <3>6. \A i \in 1..(Len(rows) - n) : r[i] = rows[n + i]
      BY <3>2, <3>3, <3>4
    <3> QED
      BY <3>5, <3>6
  <2>5. /\ Len(v) = Len(rows) - place
        /\ \A i \in 1..(Len(rows) - place) : v[i] = rows[place + i]
    <3>1. \A i \in (place + 1)..Len(rows) : rows[i] \in S
      BY <1>1, <2>3
    <3>2. place + 1 \in Int /\ Len(rows) \in Int
      BY <1>1
    <3>3. /\ Len(v) = IF place + 1 <= Len(rows) THEN Len(rows) - (place + 1) + 1 ELSE 0
          /\ \A i \in 1..(Len(rows) - (place + 1) + 1) : v[i] = rows[(place + 1) + i - 1]
      BY <3>1, <3>2, SubSeqProperties
    <3>4. Len(rows) - (place + 1) + 1 = Len(rows) - place
      BY <1>1
    <3>5. \A i \in 1..(Len(rows) - place) : (place + 1) + i - 1 = place + i
      BY <1>1
    <3> HIDE DEF v
    <3>6. Len(v) = Len(rows) - place
      <4>1. CASE place + 1 <= Len(rows)
        BY <3>3, <3>4, <4>1
      <4>2. CASE ~(place + 1 <= Len(rows))
        <5>1. Len(rows) - place = 0
          BY <1>1, <4>2
        <5> QED
          BY <3>3, <4>2, <5>1
      <4> QED
        BY <4>1, <4>2
    <3>7. \A i \in 1..(Len(rows) - place) : v[i] = rows[place + i]
      BY <3>3, <3>4, <3>5
    <3> QED
      BY <3>6, <3>7
  <2> HIDE DEF r, v, x
  <2>6. Len(r) = Len(<<x>> \o v)
    BY <1>1, <2>2, <2>4, <2>5
  <2>7. ASSUME NEW i \in 1..Len(r) PROVE r[i] = (<<x>> \o v)[i]
    <3>1. i \in 1..(Len(rows) - n) /\ i \in 1..(1 + Len(v))
      BY <1>1, <2>4, <2>5
    <3>2. r[i] = rows[n + i]
      BY <2>4, <3>1
    <3>3. CASE i = 1
      <4>1. (<<x>> \o v)[i] = x
        BY <2>2, <3>1, <3>3
      <4>2. n + i = place
        BY <1>1, <3>3
      <4> QED
        BY <3>2, <4>1, <4>2 DEF x
    <3>4. CASE i # 1
      <4>1. (<<x>> \o v)[i] = v[i - 1]
        BY <2>2, <3>1, <3>4
      <4>2. i - 1 \in 1..(Len(rows) - place) /\ place + (i - 1) = n + i
        BY <1>1, <3>1, <3>4
      <4>3. v[i - 1] = rows[place + (i - 1)]
        BY <2>5, <4>2
      <4> QED
        BY <3>2, <4>1, <4>2, <4>3
    <3> QED
      BY <3>3, <3>4
  <2> QED
    BY <1>3, <2>2, <2>6, <2>7, SeqEqual
<1>6. RemoveAt(rows, place) = u \o v
  BY DEF RemoveAt
<1> HIDE DEF u, v, r, x
<1>7. u \o v \in Seq(S)
  BY <1>3, <1>4, ConcatProperties
<1>8. rows = (u \o <<x>>) \o v
  <2>1. x \in S /\ <<x>> \in Seq(S)
    BY <1>1 DEF x
  <2>2. (u \o <<x>>) \o v = u \o (<<x>> \o v)
    BY <1>3, <1>4, <2>1, ConcatAssociative
  <2> QED
    BY <1>3, <1>5, <2>2
<1>9. Shifted(Among(u \o v, kept), Among((u \o <<x>>) \o v, kept))
  BY <1>1, <1>3, <1>4, OneMoreShifts DEF x
<1> QED
  BY <1>6, <1>7, <1>8, <1>9

-----------------------------------------------------------------------------
(* Turning the pages.                                                       *)

\* The moments the page and the count of page k are read at.
PageTick(k, countedFirst) == IF countedFirst THEN 2 * k ELSE 2 * k - 1
CountTick(k, countedFirst) == IF countedFirst THEN 2 * k - 1 ELSE 2 * k
At(tick, change, before, after) == IF tick < change THEN before ELSE after

\* The rows page k is cut from, and those it is counted by.
PageRows(list, before, after, change, countedFirst, k) ==
  Among(At(PageTick(k, countedFirst), change, before, after), KeptBy(list))
CountRows(list, before, after, change, countedFirst, k) ==
  IF list \in CountedApart
  THEN Among(At(CountTick(k, countedFirst), change, before, after), KeptBy(list))
  ELSE PageRows(list, before, after, change, countedFirst, k)

AskPage(limit, k) == [Everything(limit) EXCEPT !.page = IF k = 1 THEN 0 ELSE k]

Pages(list, before, after, change, countedFirst, limit) ==
  [k \in 1..(Len(before) + 2) |->
     Answers(list, At(PageTick(k, countedFirst), change, before, after),
             At(CountTick(k, countedFirst), change, before, after),
             AskPage(limit, k))]

Reached(pages) == {n \in DOMAIN pages : \A j \in 1..(n - 1) : pages[j].hasNextPage}

LEMMA TurnedIs ==
  ASSUME NEW list, NEW before, NEW after, NEW change, NEW countedFirst, NEW limit
  PROVE  Turned(list, before, after, change, countedFirst, Everything(limit))
           = [k \in Reached(Pages(list, before, after, change, countedFirst, limit)) |->
                Pages(list, before, after, change, countedFirst, limit)[k].data]
BY DEF Turned, Pages, Reached, AskPage, PageTick, CountTick, At

LEMMA AskPageIs ==
  ASSUME NEW limit, NEW k
  PROVE  AskPage(limit, k) = [page |-> IF k = 1 THEN 0 ELSE k, limit |-> limit, search |-> FALSE,
                              live |-> "any", on |-> "any", mine |-> "any"]
<1> DEFINE page == IF k = 1 THEN 0 ELSE k
           all == Everything(limit)
           ask == [all EXCEPT !.page = page]
<1>1. all = [page |-> 0, limit |-> limit, search |-> FALSE,
             live |-> "any", on |-> "any", mine |-> "any"]
  BY DEF Everything
<1>2. AskPage(limit, k) = ask
  BY DEF AskPage
<1> HIDE DEF page, all
<1>3. ask = [all EXCEPT !.page = page]
  OBVIOUS
<1> HIDE DEF ask
<1>4. ask = [page |-> page, limit |-> limit, search |-> FALSE,
             live |-> "any", on |-> "any", mine |-> "any"]
  BY <1>1, <1>3
<1> QED
  BY <1>2, <1>4 DEF page

\* One page is a cut of the rows at its moment.
LEMMA PageIs ==
  ASSUME NEW list \in Lists, NEW before, NEW after, NEW change, NEW countedFirst \in BOOLEAN,
         NEW limit \in 1..100, Len(before) \in Nat, NEW k \in 1..(Len(before) + 2)
  PROVE  IsPage(Pages(list, before, after, change, countedFirst, limit)[k],
                PageRows(list, before, after, change, countedFirst, k),
                CountRows(list, before, after, change, countedFirst, k), k, limit)
<1> DEFINE ask == AskPage(limit, k)
           found == At(PageTick(k, countedFirst), change, before, after)
           counted == At(CountTick(k, countedFirst), change, before, after)
<1>1. k \in Nat /\ k # 0
  OBVIOUS
<1>2. ask = [page |-> IF k = 1 THEN 0 ELSE k, limit |-> limit, search |-> FALSE,
             live |-> "any", on |-> "any", mine |-> "any"]
  BY AskPageIs
<1>3. ask \in Plain
  <2>1. (IF k = 1 THEN 0 ELSE k) \in Nat
    BY <1>1
  <2>2. limit \in 0..100
    OBVIOUS
  <2> QED
    BY <1>2, <2>1, <2>2 DEF Plain
<1>4. PageOf(ask) = k /\ ask.limit = limit /\ limit # 0
  <2> HIDE DEF ask
  <2>1. ask.page = (IF k = 1 THEN 0 ELSE k) /\ ask.limit = limit
    BY <1>2
  <2> QED
    BY <1>1, <2>1 DEF PageOf
<1>5. Pages(list, before, after, change, countedFirst, limit)[k] = Answers(list, found, counted, ask)
  BY DEF Pages
<1>6. /\ PageRows(list, before, after, change, countedFirst, k) = Among(found, KeptBy(list))
      /\ CountRows(list, before, after, change, countedFirst, k)
           = Among(CountOf(list, found, counted), KeptBy(list))
  BY DEF PageRows, CountRows, CountOf
<1> HIDE DEF ask, found, counted
<1>7. AnswersPage(list, found, counted, ask)
  BY <1>3, EveryListAnswers
<1> QED
  BY <1>4, <1>5, <1>6, <1>7 DEF AnswersPage

\* Page k is reached if each page before it shows rows and has more of them
\* counted behind it.
LEMMA ReachedIf ==
  ASSUME NEW list \in Lists, NEW before, NEW after, NEW change, NEW countedFirst \in BOOLEAN,
         NEW limit \in 1..100, Len(before) \in Nat, NEW k \in 1..(Len(before) + 2),
         \A j \in 1..(k - 1) :
           /\ Slice(PageRows(list, before, after, change, countedFirst, j), Place(j, limit)) # <<>>
           /\ Len(CountRows(list, before, after, change, countedFirst, j)) \in Nat
           /\ j * limit < Len(CountRows(list, before, after, change, countedFirst, j))
  PROVE  ToSet(Slice(PageRows(list, before, after, change, countedFirst, k), Place(k, limit)))
           \subseteq Shown(Turned(list, before, after, change, countedFirst, Everything(limit)))
<1> DEFINE pages == Pages(list, before, after, change, countedFirst, limit)
           turned == Turned(list, before, after, change, countedFirst, Everything(limit))
           rows(j) == PageRows(list, before, after, change, countedFirst, j)
           count(j) == CountRows(list, before, after, change, countedFirst, j)
<1>1. DOMAIN pages = 1..(Len(before) + 2)
  BY DEF Pages
<1>2. turned = [n \in Reached(pages) |-> pages[n].data]
  BY TurnedIs
<1>3. \A j \in 1..(Len(before) + 2) : IsPage(pages[j], rows(j), count(j), j, limit)
  BY PageIs
<1> HIDE DEF pages, turned
<1>4. ASSUME NEW j \in 1..(k - 1) PROVE pages[j].hasNextPage
  <2>1. j \in 1..(Len(before) + 2) /\ j \in Nat /\ limit \in Nat \ {0}
    OBVIOUS
  <2>2. Slice(rows(j), Place(j, limit)) # <<>> /\ Len(count(j)) \in Nat /\ j * limit < Len(count(j))
    OBVIOUS
  <2>3. IsPage(pages[j], rows(j), count(j), j, limit)
    BY <1>3, <2>1
  <2> HIDE DEF rows, count
  <2>4. j < (Len(count(j)) + limit - 1) \div limit
    BY <2>1, <2>2, NextPage
  <2> QED
    BY <2>2, <2>3, <2>4 DEF IsPage
<1>5. k \in DOMAIN turned /\ turned[k] = pages[k].data
  BY <1>1, <1>2, <1>4 DEF Reached
<1>6. pages[k].data = Slice(rows(k), Place(k, limit))
  BY <1>3 DEF IsPage
<1> HIDE DEF rows
<1>7. ToSet(Slice(rows(k), Place(k, limit))) \subseteq Shown(turned)
  BY <1>5, <1>6 DEF Shown
<1> QED
  BY <1>7 DEF rows, turned

LEMMA RowsReadAre ==
  ASSUME NEW list, NEW before, NEW after, NEW change, NEW countedFirst \in BOOLEAN, NEW k,
         NEW F, F = Among(before, KeptBy(list)), NEW G, G = Among(after, KeptBy(list))
  PROVE  /\ PageRows(list, before, after, change, countedFirst, k)
              = IF PageTick(k, countedFirst) < change THEN F ELSE G
         /\ CountRows(list, before, after, change, countedFirst, k)
              = IF list \in CountedApart
                THEN IF CountTick(k, countedFirst) < change THEN F ELSE G
                ELSE PageRows(list, before, after, change, countedFirst, k)
BY DEF PageRows, CountRows, At

\* A row that is there all along is shown, if rows are moved back by one place at
\* most, and are not moved between the count of a page and the page.
LEMMA TurningShows ==
  ASSUME NEW list \in Lists, NEW before \in Seq(Rows), NEW after \in Seq(Rows), NEW change \in Nat,
         NEW countedFirst \in BOOLEAN, NEW limit \in 1..100,
         NEW F, F = Among(before, KeptBy(list)), NEW G, G = Among(after, KeptBy(list)),
         Shifted(F, G), ~(list \in CountedApart /\ countedFirst /\ change % 2 = 0),
         NEW i \in 1..Len(F)
  PROVE  F[i] \in Shown(Turned(list, before, after, change, countedFirst, Everything(limit)))
<1> DEFINE shown == Shown(Turned(list, before, after, change, countedFirst, Everything(limit)))
           rows(k) == PageRows(list, before, after, change, countedFirst, k)
           count(k) == CountRows(list, before, after, change, countedFirst, k)
<1>1. /\ F \in Seq(Rows) /\ G \in Seq(Rows) /\ Len(F) \in Nat /\ Len(G) \in Nat
      /\ Len(before) \in Nat /\ Len(F) <= Len(before)
  BY AmongSeq, AmongShorter, LenProperties
<1>2. Len(F) <= Len(G)
  BY DEF Shifted
<1>3. i \in Nat \ {0} /\ i <= Len(F) /\ limit \in Nat \ {0}
  BY <1>1
<1>4. PICK k \in 1..i : (k - 1) * limit < i /\ i <= k * limit
  BY <1>3, OnSomePage
<1>5. k \in Nat \ {0} /\ k <= Len(before) /\ (k - 1) * limit \in Nat /\ k * limit \in Nat
      /\ k * limit = (k - 1) * limit + limit
  <2>1. k \in Nat \ {0} /\ k <= Len(before)
    BY <1>1, <1>3
  <2> QED
    BY <1>3, <2>1, Multiples
<1>6. \A j \in Nat : /\ rows(j) = IF PageTick(j, countedFirst) < change THEN F ELSE G
                     /\ count(j) = IF list \in CountedApart
                                   THEN IF CountTick(j, countedFirst) < change THEN F ELSE G
                                   ELSE rows(j)
  BY RowsReadAre
<1>7. \A n \in 1..(Len(before) + 2) :
        (\A j \in 1..(n - 1) : /\ Slice(rows(j), Place(j, limit)) # <<>>
                               /\ Len(count(j)) \in Nat
                               /\ j * limit < Len(count(j)))
        => ToSet(Slice(rows(n), Place(n, limit))) \subseteq shown
  BY <1>1, ReachedIf
<1> HIDE DEF rows, count, shown
\* A page before the row's is full, whatever it was cut from and counted by.
<1>8. ASSUME NEW j \in Nat, j # 0, j <= k - 1
      PROVE  /\ Slice(rows(j), Place(j, limit)) # <<>>
             /\ Len(count(j)) \in Nat
             /\ j * limit < Len(count(j))
  <2>1. /\ rows(j) \in {F, G} /\ count(j) \in {F, G}
    BY <1>6
  <2>2. j * limit <= (k - 1) * limit
    <3>1. k - 1 \in Nat
      BY <1>5
    <3> QED
      BY <1>3, <1>8, <3>1, MultiplesGrow
  <2>3. (j - 1) * limit \in Nat /\ j * limit \in Nat /\ (j - 1) * limit < j * limit
    <3>1. j \in Nat \ {0}
      BY <1>8
    <3>2. /\ (j - 1) * limit \in Nat /\ j * limit \in Nat
          /\ j * limit = (j - 1) * limit + limit
      BY <1>3, <3>1, Multiples
    <3>3. \A a, b \in Nat : b = a + limit => a < b
      BY <1>3
    <3> QED
      BY <3>2, <3>3
  <2>4. j * limit < Len(F) /\ (j - 1) * limit < Len(F)
    <3>1. \A a, b, c \in Nat : a < b /\ b <= c /\ c < i => b < Len(F) /\ a < Len(F)
      BY <1>1, <1>3
    <3> QED
      BY <1>4, <1>5, <2>2, <2>3, <3>1
  <2>5. j * limit < Len(G) /\ (j - 1) * limit < Len(G)
    BY <1>1, <1>2, <2>3, <2>4
  <2>6. Slice(F, Place(j, limit)) # <<>> /\ Slice(G, Place(j, limit)) # <<>>
    BY <1>1, <1>3, <1>8, <2>4, <2>5, SliceHolds
  <2>7. Slice(rows(j), Place(j, limit)) # <<>>
    BY <2>1, <2>6
  <2>8. Len(count(j)) \in Nat /\ j * limit < Len(count(j))
    BY <1>1, <2>1, <2>4, <2>5
  <2> QED
    BY <2>7, <2>8
<1>9. ToSet(Slice(rows(k), Place(k, limit))) \subseteq shown
  <2>1. k \in 1..(Len(before) + 2)
    BY <1>1, <1>5
  <2>2. \A j \in 1..(k - 1) : j \in Nat /\ j # 0 /\ j <= k - 1
    BY <1>5
  <2> QED
    BY <1>7, <1>8, <2>1, <2>2
<1>10. CASE PageTick(k, countedFirst) < change
  <2>1. rows(k) = F
    BY <1>5, <1>6, <1>10
  <2>2. F[i] \in ToSet(Slice(F, Place(k, limit)))
    BY <1>1, <1>3, <1>4, <1>5, SliceHolds
  <2> QED
    BY <1>9, <2>1, <2>2 DEF shown
<1>11. CASE ~(PageTick(k, countedFirst) < change)
  <2>1. rows(k) = G
    BY <1>5, <1>6, <1>11
  <2>2. PICK p \in {i, i + 1} : p \in 1..Len(G) /\ G[p] = F[i]
    BY DEF Shifted
  <2>3. p \in Nat /\ p <= Len(G) /\ i <= p
    BY <1>1, <1>3, <2>2
  <2>4. CASE p <= k * limit
    <3>1. (k - 1) * limit < p
      BY <1>3, <1>4, <1>5, <2>3
    <3>2. G[p] \in ToSet(Slice(G, Place(k, limit)))
      BY <1>1, <1>3, <1>5, <2>2, <2>4, <3>1, SliceHolds
    <3> QED
      BY <1>9, <2>1, <2>2, <3>2 DEF shown
  <2>5. CASE ~(p <= k * limit)
    <3>1. PICK n \in Nat \ {0} : n = k + 1
      BY <1>5
    <3>2. n \in 1..(Len(before) + 2) /\ n - 1 = k
      BY <1>1, <1>5, <3>1
    <3>3. /\ k * limit < p /\ p <= k * limit + limit
      BY <1>3, <1>4, <1>5, <2>2, <2>3, <2>5
    <3>4. (n - 1) * limit < p /\ p <= n * limit
      <4>1. n * limit = (n - 1) * limit + limit /\ (n - 1) * limit = k * limit
        BY <1>3, <3>1, <3>2, Multiples
      <4> QED
        BY <3>3, <4>1
    <3>5. rows(n) = G
      <4>1. ~(PageTick(n, countedFirst) < change)
        BY <1>5, <1>11, <3>1 DEF PageTick
      <4> QED
        BY <1>6, <3>1, <4>1
    <3>6. count(k) = G
      <4>1. CASE list \notin CountedApart
        BY <1>5, <1>6, <2>1, <4>1
      <4>2. CASE list \in CountedApart
        <5>1. ~(CountTick(k, countedFirst) < change)
          <6>1. CASE ~countedFirst
            BY <1>5, <1>11, <6>1 DEF PageTick, CountTick
          <6>2. CASE countedFirst
            <7>1. change % 2 # 0
              BY <4>2, <6>2
            <7>2. change # 2 * k
              BY <1>5, <7>1
            <7>3. change <= 2 * k
              BY <1>5, <1>11, <6>2 DEF PageTick
            <7> QED
              BY <1>5, <6>2, <7>2, <7>3 DEF CountTick
          <6> QED
            BY <6>1, <6>2
        <5> QED
          BY <1>5, <1>6, <4>2, <5>1
      <4> QED
        BY <4>1, <4>2
    <3>7. \A j \in 1..(n - 1) : /\ Slice(rows(j), Place(j, limit)) # <<>>
                                /\ Len(count(j)) \in Nat
                                /\ j * limit < Len(count(j))
      <4>1. /\ Slice(rows(k), Place(k, limit)) # <<>>
            /\ Len(count(k)) \in Nat
            /\ k * limit < Len(count(k))
        <5>1. (k - 1) * limit < Len(G)
          BY <1>1, <1>2, <1>3, <1>4, <1>5
        <5>2. Slice(G, Place(k, limit)) # <<>>
          BY <1>1, <1>3, <1>5, <5>1, SliceHolds
        <5>3. k * limit < Len(G)
          BY <1>1, <1>5, <2>3, <3>3
        <5> QED
          BY <1>1, <2>1, <3>6, <5>2, <5>3
      <4>2. \A j \in 1..(n - 1) : j = k \/ (j \in Nat /\ j # 0 /\ j <= k - 1)
        BY <1>5, <3>2
      <4> QED
        BY <1>8, <4>1, <4>2
    <3>8. ToSet(Slice(rows(n), Place(n, limit))) \subseteq shown
      BY <1>7, <3>2, <3>7
    <3>9. G[p] \in ToSet(Slice(G, Place(n, limit)))
      BY <1>1, <1>3, <2>2, <3>1, <3>4, SliceHolds
    <3> QED
      BY <2>2, <3>5, <3>8, <3>9 DEF shown
  <2> QED
    BY <2>4, <2>5
<1> QED
  BY <1>10, <1>11

NeverTwice(turned) ==
  \A j, k \in DOMAIN turned : ToSet(turned[j]) \cap ToSet(turned[k]) # {} => j = k

\* A row is shown by one page only, if rows are moved forward by one place at most.
LEMMA TurningRepeatsNothing ==
  ASSUME NEW list \in Lists, NEW before \in Seq(Rows), NEW after \in Seq(Rows), NEW change \in Nat,
         NEW countedFirst \in BOOLEAN, NEW limit \in 1..100,
         NEW F, F = Among(before, KeptBy(list)), NEW G, G = Among(after, KeptBy(list)),
         Shifted(G, F), Distinct(F), Distinct(G)
  PROVE  NeverTwice(Turned(list, before, after, change, countedFirst, Everything(limit)))
<1> DEFINE turned == Turned(list, before, after, change, countedFirst, Everything(limit))
           pages == Pages(list, before, after, change, countedFirst, limit)
           rows(n) == PageRows(list, before, after, change, countedFirst, n)
<1>1. /\ F \in Seq(Rows) /\ G \in Seq(Rows) /\ Len(F) \in Nat /\ Len(G) \in Nat
      /\ DOMAIN F = 1..Len(F) /\ DOMAIN G = 1..Len(G)
      /\ Len(before) \in Nat
  BY AmongSeq, LenProperties
<1>2. turned = [n \in Reached(pages) |-> pages[n].data]
  BY TurnedIs
<1>3. DOMAIN pages = 1..(Len(before) + 2)
  BY DEF Pages
<1>4. \A n \in 1..(Len(before) + 2) : pages[n].data = Slice(rows(n), Place(n, limit))
  BY <1>1, PageIs DEF IsPage
<1>5. \A n \in Nat : rows(n) = IF PageTick(n, countedFirst) < change THEN F ELSE G
  BY RowsReadAre
<1> HIDE DEF pages, rows, turned
<1>6. DOMAIN turned = Reached(pages) /\ Reached(pages) \subseteq 1..(Len(before) + 2)
  BY <1>2, <1>3 DEF Reached
<1>7. ASSUME NEW j \in DOMAIN turned, NEW k \in DOMAIN turned, j < k,
             NEW x, x \in ToSet(turned[j]), x \in ToSet(turned[k])
      PROVE  FALSE
  <2>1. /\ j \in Nat \ {0} /\ k \in Nat \ {0} /\ limit \in Nat \ {0}
        /\ turned[j] = Slice(rows(j), Place(j, limit))
        /\ turned[k] = Slice(rows(k), Place(k, limit))
    <3>1. /\ j \in Reached(pages) /\ k \in Reached(pages)
          /\ j \in 1..(Len(before) + 2) /\ k \in 1..(Len(before) + 2)
      BY <1>6
    <3>2. turned[j] = pages[j].data /\ turned[k] = pages[k].data
      BY <1>2, <3>1
    <3>3. j \in Nat \ {0} /\ k \in Nat \ {0} /\ limit \in Nat \ {0}
      BY <1>1, <3>1
    <3>4. pages[j].data = Slice(rows(j), Place(j, limit))
      BY <1>4, <3>1
    <3>5. pages[k].data = Slice(rows(k), Place(k, limit))
      BY <1>4, <3>1
    <3> QED
      BY <3>2, <3>3, <3>4, <3>5
  <2>2. rows(j) \in Seq(Rows) /\ rows(k) \in Seq(Rows)
    BY <1>1, <1>5, <2>1
  <2>3. PICK a \in 1..Len(rows(j)) : a <= j * limit /\ x = rows(j)[a]
    <3>1. \A y \in ToSet(Slice(rows(j), Place(j, limit))) :
            \E i \in 1..Len(rows(j)) :
              (j - 1) * limit < i /\ i <= j * limit /\ y = rows(j)[i]
      BY <2>1, <2>2, SliceHolds
    <3>2. x \in ToSet(Slice(rows(j), Place(j, limit)))
      BY <1>7, <2>1
    <3> QED
      BY <3>1, <3>2
  <2>4. PICK b \in 1..Len(rows(k)) : (k - 1) * limit < b /\ x = rows(k)[b]
    <3>1. \A y \in ToSet(Slice(rows(k), Place(k, limit))) :
            \E i \in 1..Len(rows(k)) :
              (k - 1) * limit < i /\ i <= k * limit /\ y = rows(k)[i]
      BY <2>1, <2>2, SliceHolds
    <3>2. x \in ToSet(Slice(rows(k), Place(k, limit)))
      BY <1>7, <2>1
    <3> QED
      BY <3>1, <3>2
  <2>5. j * limit <= (k - 1) * limit /\ j * limit \in Nat /\ (k - 1) * limit \in Nat
    <3>1. k - 1 \in Nat /\ j <= k - 1
      BY <1>7, <2>1
    <3>2. j * limit <= (k - 1) * limit
      BY <2>1, <3>1, MultiplesGrow
    <3> QED
      BY <2>1, <3>2, Multiples
  <2>6. Len(rows(j)) \in Nat /\ Len(rows(k)) \in Nat
    BY <2>2, LenProperties
  <2>7. a < b
    BY <2>3, <2>4, <2>5, <2>6
  <2>8. PageTick(j, countedFirst) <= PageTick(k, countedFirst)
         /\ PageTick(j, countedFirst) \in Int /\ PageTick(k, countedFirst) \in Int
    BY <1>7, <2>1 DEF PageTick
  <2>9. CASE rows(j) = rows(k)
    <3>1. Distinct(rows(j)) /\ DOMAIN rows(j) = 1..Len(rows(j))
      BY <1>1, <1>5, <2>1
    <3>2. a = b
      BY <2>3, <2>4, <2>9, <3>1 DEF Distinct
    <3> QED
      BY <2>6, <2>7, <3>2
  <2>10. CASE rows(j) # rows(k)
    <3>1. rows(j) = F /\ rows(k) = G
      BY <1>5, <2>1, <2>8, <2>10
    <3>2. PICK p \in {b, b + 1} : p \in 1..Len(F) /\ F[p] = G[b]
      BY <2>4, <3>1 DEF Shifted
    <3>3. a = p
      BY <1>1, <2>3, <2>4, <3>1, <3>2 DEF Distinct
    <3> QED
      BY <2>6, <2>7, <3>2, <3>3
  <2> QED
    BY <2>9, <2>10
<1>8. \A j, k \in DOMAIN turned : ToSet(turned[j]) \cap ToSet(turned[k]) # {} => ~(j < k)
  BY <1>7
<1>9. DOMAIN turned \subseteq Nat
  BY <1>1, <1>6
<1>10. NeverTwice(turned)
  BY <1>8, <1>9 DEF NeverTwice
<1> QED
  BY <1>10 DEF turned

-----------------------------------------------------------------------------
(* Whoever turns the pages.                                                 *)

\* What a single row is counted as.
LEMMA CountedOnce ==
  ASSUME NEW row \in Rows, NEW kept, Len(Among(<<row>>, kept)) = 1
  PROVE  row \in kept
<1>1. <<row>> \in Seq(Rows) /\ ToSet(<<row>>) = {row}
  BY DEF ToSet
<1>2. Among(<<row>>, kept) \in Seq(Rows) /\ ToSet(Among(<<row>>, kept)) = {row} \cap kept
  BY <1>1, AmongSeq, AmongKeeps
<1>3. 1 \in DOMAIN Among(<<row>>, kept)
  BY <1>2, LenProperties
<1> QED
  BY <1>2, <1>3 DEF ToSet

AskOne(ask) == [ask EXCEPT !.page = 0, !.limit = 0]

LEMMA AskOneIs ==
  ASSUME NEW limit
  PROVE  AskOne(Everything(limit)) \in Plain
<1> DEFINE all == Everything(limit)
           ask == AskOne(all)
<1>1. all = [page |-> 0, limit |-> limit, search |-> FALSE,
             live |-> "any", on |-> "any", mine |-> "any"]
  BY DEF Everything
<1> HIDE DEF all
<1>2. ask = [all EXCEPT !.page = 0, !.limit = 0]
  BY DEF AskOne
<1> HIDE DEF ask
<1>3. ask = [page |-> 0, limit |-> 0, search |-> FALSE, live |-> "any", on |-> "any", mine |-> "any"]
  BY <1>1, <1>2
<1>4. ask \in Plain
  BY <1>3 DEF Plain
<1> QED
  BY <1>4 DEF ask, all

LEMMA BelongingIsKept ==
  ASSUME NEW list \in Lists, NEW row \in Rows, NEW limit, Belongs(list, row, Everything(limit))
  PROVE  row \in KeptBy(list)
<1> DEFINE ask == AskOne(Everything(limit))
           answer == Answers(list, <<row>>, <<row>>, ask)
           rows == Among(<<row>>, KeptBy(list))
<1>1. answer.totalItems = 1
  BY DEF Belongs, AskOne
<1>2. AnswersPage(list, <<row>>, <<row>>, ask)
  BY AskOneIs, EveryListAnswers
<1>3. CountOf(list, <<row>>, <<row>>) = <<row>>
  BY DEF CountOf
<1> HIDE DEF ask
<1>4. answer.totalItems \in {0, Len(rows)}
  BY <1>2, <1>3 DEF AnswersPage, IsPage
<1>5. Len(rows) = 1
  BY <1>1, <1>4
<1> QED
  BY <1>5, CountedOnce

\* Whoever turns the pages of a list of any length, any number of rows at a time
\* (getPaginated... and listPaginated... of the repositories and services), is shown every
\* row that belongs to it and was there all along, wherever and whenever another row is
\* inserted - unless the list was counted before that row and its page read after it.
THEOREM InsertionsHideNothing ==
  ASSUME NEW list \in Lists, NEW rows \in Seq(Rows), NEW row \in Rows,
         NEW place \in 1..(Len(rows) + 1), NEW change \in Nat, NEW countedFirst \in BOOLEAN,
         NEW limit \in 1..100,
         ~(list \in CountedApart /\ countedFirst /\ change % 2 = 0)
  PROVE  {r \in ToSet(rows) : Belongs(list, r, Everything(limit))}
           \subseteq Shown(Turned(list, rows, InsertAt(rows, place, row), change, countedFirst,
                                  Everything(limit)))
<1> DEFINE after == InsertAt(rows, place, row)
           F == Among(rows, KeptBy(list))
           G == Among(after, KeptBy(list))
<1>1. Shifted(F, G)
  BY InsertedShifts
<1>2. after \in Seq(Rows)
  <2>1. Len(rows) \in Nat
    BY LenProperties
  <2>2. PICK n \in 0..Len(rows) : n = place - 1
    BY <2>1
  <2> DEFINE u == SubSeq(rows, 1, n)
             v == SubSeq(rows, n + 1, Len(rows))
  <2>3. u \in Seq(Rows) /\ v \in Seq(Rows)
    BY PartsAround
  <2>4. n + 1 = place
    BY <2>1, <2>2
  <2>5. after = (u \o <<row>>) \o v
    BY <2>2, <2>4 DEF InsertAt
  <2> HIDE DEF u, v, after
  <2>6. <<row>> \in Seq(Rows)
    OBVIOUS
  <2> QED
    BY <2>3, <2>5, <2>6, ConcatProperties
<1> HIDE DEF after
<1>3. SUFFICES ASSUME NEW r \in ToSet(rows), Belongs(list, r, Everything(limit))
               PROVE  r \in Shown(Turned(list, rows, after, change, countedFirst, Everything(limit)))
  BY DEF after
<1>4. r \in KeptBy(list)
  <2>1. r \in Rows
    BY <1>3, LenProperties DEF ToSet
  <2> QED
    BY <1>3, <2>1, BelongingIsKept
<1>5. F \in Seq(Rows) /\ r \in ToSet(F)
  BY <1>3, <1>4, AmongSeq, AmongKeeps
<1> HIDE DEF F, G
<1>6. PICK i \in 1..Len(F) : r = F[i]
  BY <1>5, LenProperties DEF ToSet
<1>7. F = Among(rows, KeptBy(list)) /\ G = Among(after, KeptBy(list))
  BY DEF F, G
<1> QED
  BY <1>1, <1>2, <1>6, <1>7, TurningShows

LEMMA RemovedDistinct ==
  ASSUME NEW S, NEW rows \in Seq(S), NEW place \in 1..Len(rows), Distinct(rows)
  PROVE  Distinct(RemoveAt(rows, place))
<1>1. /\ Len(rows) \in Nat /\ DOMAIN rows = 1..Len(rows) /\ place \in Nat
      /\ \A i \in 1..Len(rows) : rows[i] \in S
  BY LenProperties
<1> DEFINE n == place - 1
           u == SubSeq(rows, 1, n)
           v == SubSeq(rows, place + 1, Len(rows))
           after == u \o v
<1>2. /\ u \in Seq(S) /\ Len(u) = n
      /\ \A i \in 1..n : u[i] = rows[i]
  <2>1. n \in Int /\ \A i \in 1..n : rows[i] \in S
    BY <1>1
  <2> HIDE DEF n
  <2>2. /\ u \in Seq(S) /\ Len(u) = IF 1 <= n THEN n - 1 + 1 ELSE 0
        /\ \A i \in 1..(n - 1 + 1) : u[i] = rows[1 + i - 1]
    BY <2>1, SubSeqProperties
  <2> HIDE DEF u
  <2>3. n \in Nat
    BY <1>1 DEF n
  <2>4. n - 1 + 1 = n /\ \A i \in 1..n : 1 + i - 1 = i
    BY <2>3
  <2> QED
    BY <2>2, <2>3, <2>4
<1>3. /\ v \in Seq(S) /\ Len(v) = Len(rows) - place
      /\ \A i \in 1..(Len(rows) - place) : v[i] = rows[place + i]
  <2>1. \A i \in (place + 1)..Len(rows) : rows[i] \in S
    BY <1>1
  <2>2. place + 1 \in Int /\ Len(rows) \in Int
    BY <1>1
  <2>3. /\ v \in Seq(S) /\ Len(v) = IF place + 1 <= Len(rows) THEN Len(rows) - (place + 1) + 1 ELSE 0
        /\ \A i \in 1..(Len(rows) - (place + 1) + 1) : v[i] = rows[(place + 1) + i - 1]
    BY <2>1, <2>2, SubSeqProperties
  <2>4. Len(rows) - (place + 1) + 1 = Len(rows) - place
    BY <1>1
  <2>5. \A i \in 1..(Len(rows) - place) : (place + 1) + i - 1 = place + i
    BY <1>1
  <2> HIDE DEF v
  <2>6. Len(v) = Len(rows) - place
    <3>1. CASE place + 1 <= Len(rows)
      BY <2>3, <2>4, <3>1
    <3>2. CASE ~(place + 1 <= Len(rows))
      <4>1. \A a \in Nat : \A p \in 1..a : ~(p + 1 <= a) => a - p = 0
        OBVIOUS
      <4>2. Len(rows) - place = 0
        BY <1>1, <3>2, <4>1
      <4> QED
        BY <2>3, <3>2, <4>2
    <3> QED
      BY <3>1, <3>2
  <2>7. \A i \in 1..(Len(rows) - place) : v[i] = rows[place + i]
    BY <2>3, <2>4, <2>5
  <2> QED
    BY <2>3, <2>6, <2>7
<1> HIDE DEF u, v
<1>4. /\ after \in Seq(S) /\ Len(after) = Len(u) + Len(v)
      /\ \A i \in 1..(Len(u) + Len(v)) : after[i] = IF i <= Len(u) THEN u[i] ELSE v[i - Len(u)]
  BY <1>2, <1>3, ConcatProperties
<1>5. Len(u) + Len(v) = Len(rows) - 1 /\ DOMAIN after = 1..(Len(rows) - 1)
  <2>1. Len(u) + Len(v) = Len(rows) - 1
    BY <1>1, <1>2, <1>3
  <2>2. DOMAIN after = 1..Len(after)
    BY <1>4, LenProperties
  <2> QED
    BY <1>4, <2>1, <2>2
<1> HIDE DEF after
<1> DEFINE From(i) == IF i < place THEN i ELSE i + 1
<1>6. ASSUME NEW i \in 1..(Len(rows) - 1)
      PROVE  From(i) \in DOMAIN rows /\ after[i] = rows[From(i)]
  <2>1. i \in 1..(Len(u) + Len(v)) /\ i \in Nat
    BY <1>1, <1>5
  <2>2. CASE i < place
    <3>1. i \in 1..n /\ i <= Len(u)
      BY <1>1, <1>2, <2>2
    <3>2. after[i] = u[i]
      BY <1>4, <2>1, <3>1
    <3>3. u[i] = rows[i]
      BY <1>2, <3>1
    <3> QED
      BY <1>1, <2>2, <3>2, <3>3
  <2>3. CASE ~(i < place)
    <3>1. ~(i <= Len(u)) /\ i - Len(u) \in 1..(Len(rows) - place) /\ place + (i - Len(u)) = i + 1
      BY <1>1, <1>2, <2>3
    <3>2. after[i] = v[i - Len(u)]
      BY <1>4, <2>1, <3>1
    <3>3. v[i - Len(u)] = rows[i + 1]
      BY <1>3, <3>1
    <3>4. i + 1 \in DOMAIN rows
      BY <1>1
    <3> QED
      BY <2>3, <3>2, <3>3, <3>4
  <2> QED
    BY <2>2, <2>3
<1>7. ASSUME NEW i \in DOMAIN after, NEW j \in DOMAIN after, after[i] = after[j]
      PROVE  i = j
  <2>1. i \in 1..(Len(rows) - 1) /\ j \in 1..(Len(rows) - 1)
    BY <1>5
  <2>2. From(i) = From(j)
    <3>1. From(i) \in DOMAIN rows /\ From(j) \in DOMAIN rows /\ rows[From(i)] = rows[From(j)]
      BY <1>6, <1>7, <2>1
    <3> HIDE DEF From
    <3> QED
      BY <3>1 DEF Distinct
  <2> QED
    BY <1>1, <2>1, <2>2
<1>8. Distinct(after)
  BY <1>7 DEF Distinct
<1> QED
  BY <1>8 DEF RemoveAt, after, u, v

\* Whoever turns the pages of a list of any length is shown no row twice, wherever and
\* whenever a row is removed.
THEOREM RemovalsRepeatNothing ==
  ASSUME NEW list \in Lists, NEW rows \in Seq(Rows), Distinct(rows), NEW place \in 1..Len(rows),
         NEW change \in Nat, NEW countedFirst \in BOOLEAN, NEW limit \in 1..100
  PROVE  NeverTwice(Turned(list, rows, RemoveAt(rows, place), change, countedFirst,
                           Everything(limit)))
<1> DEFINE after == RemoveAt(rows, place)
           F == Among(rows, KeptBy(list))
           G == Among(after, KeptBy(list))
<1>1. after \in Seq(Rows) /\ Shifted(G, F)
  BY RemovedShifts
<1>2. Distinct(F)
  BY AmongDistinct
<1>3. Distinct(after)
  BY RemovedDistinct
<1> HIDE DEF after
<1>4. Distinct(G)
  BY <1>1, <1>3, AmongDistinct
<1>5. F = Among(rows, KeptBy(list)) /\ G = Among(after, KeptBy(list))
  OBVIOUS
<1> HIDE DEF F, G
<1>6. NeverTwice(Turned(list, rows, after, change, countedFirst, Everything(limit)))
  BY <1>1, <1>2, <1>4, <1>5, TurningRepeatsNothing
<1> QED
  BY <1>6 DEF after

\* Whatever is asked of a public list, and however many rows at a time, it shows nothing
\* that is deleted, and but for the branches nothing that is switched off.
THEOREM PublicListsShowTheLive ==
  ASSUME NEW list \in PublicLists, NEW row \in Rows,
         NEW ask \in [page : Nat, limit : Nat, search : BOOLEAN,
                      live : Wishes, on : Wishes, mine : Wishes],
         Belongs(list, row, ask)
  PROVE  row.live /\ (row.on \/ list = "publicBranches")
<1> DEFINE one == AskOne(ask)
           answer == Answers(list, <<row>>, <<row>>, one)
<1>1. answer.totalItems = 1
  BY DEF Belongs, AskOne
\* A list that keeps what is in kept, and no more, keeps this row.
<1>2. ASSUME NEW kept, NEW a,
             answer \in {Paginate(Among(<<row>>, kept), Among(<<row>>, kept), a),
                         PaginateOrEmpty(Among(<<row>>, kept), Among(<<row>>, kept), a)}
      PROVE  row \in kept
  <2>1. answer.totalItems \in {0, Len(Among(<<row>>, kept))}
    BY <1>2, Totals
  <2> HIDE DEF answer
  <2>2. Len(Among(<<row>>, kept)) = 1
    BY <1>1, <2>1
  <2> QED
    BY <2>2, CountedOnce
<1>3. CASE list = "publicBranches"
  <2> DEFINE a == AskPublicBranches(one)
             kept == {r \in Rows : Given(a.live, r.live) /\ Found(a, r)}
  <2>1. answer = Paginate(Among(<<row>>, kept), Among(<<row>>, kept), a)
    BY <1>3 DEF Answers, BranchList
  <2>2. a.live = "yes"
    BY DEF AskPublicBranches, Copied
  <2> HIDE DEF a
  <2>3. row \in kept
    <3> HIDE DEF kept, answer
    <3> QED
      BY <1>2, <2>1
  <2> QED
    BY <1>3, <2>2, <2>3 DEF Given
<1>4. CASE list = "publicServices"
  <2> DEFINE a == AskPublicServices(one)
             kept == {r \in Rows : /\ Given(a.live, r.live) /\ Given(a.on, r.on)
                                   /\ a.mine = "yes" => r.mine
                                   /\ Found(a, r)}
  <2>1. answer = PaginateOrEmpty(Among(<<row>>, kept), Among(<<row>>, kept), a)
    BY <1>4 DEF Answers, ServiceList
  <2>2. a.live = "yes" /\ a.on = "yes"
    BY DEF AskPublicServices, Copied
  <2> HIDE DEF a
  <2>3. row \in kept
    <3> HIDE DEF kept, answer
    <3> QED
      BY <1>2, <2>1
  <2> QED
    BY <2>2, <2>3 DEF Given
<1>5. CASE list = "publicStylists"
  <2> DEFINE a == AskPublicStylists(one)
             kept == {r \in Rows : /\ Given(a.live, r.live) /\ Given(a.on, r.on)
                                   /\ a.mine = "yes" => r.mine
                                   /\ Found(a, r)}
  <2>1. answer = Paginate(Among(<<row>>, kept), Among(<<row>>, kept), a)
    BY <1>5 DEF Answers, StylistList
  <2>2. a.live = "yes" /\ a.on = "yes"
    BY DEF AskPublicStylists, AskOne
  <2> HIDE DEF a
  <2>3. row \in kept
    <3> HIDE DEF kept, answer
    <3> QED
      BY <1>2, <2>1
  <2> QED
    BY <2>2, <2>3 DEF Given
<1>6. CASE list = "publicBranchServices"
  <2> DEFINE a == AskPublicBranchServices(one)
             kept == {r \in Rows : r.live /\ r.on /\ r.mine /\ Found(a, r)}
  <2>1. answer = Paginate(Among(<<row>>, kept), Among(<<row>>, kept), a)
    BY <1>6 DEF Answers, PublicBranchServiceList, InMemory
  <2>3. row \in kept
    <3> HIDE DEF kept, answer
    <3> QED
      BY <1>2, <2>1
  <2> QED
    BY <2>3
<1> QED
  BY <1>3, <1>4, <1>5, <1>6 DEF PublicLists

-----------------------------------------------------------------------------
(* The instance that is model-checked.                                      *)

LEMMA SomeRowsAre ==
  ASSUME NEW rows \in SomeRows
  PROVE  rows \in Seq(Rows) /\ Distinct(rows)
<1>0. PICK n \in 0..MaxRows : \E mine \in [1..n -> BOOLEAN] : rows = [i \in 1..n |-> Row(i, mine[i])]
  BY DEF SomeRows
<1>1. PICK mine \in [1..n -> BOOLEAN] : rows = [i \in 1..n |-> Row(i, mine[i])]
  BY <1>0
<1>2. n \in Nat
  BY <1>1 DEF MaxRows
<1>3. \A i \in 1..n : Row(i, mine[i]) \in Rows /\ Row(i, mine[i]).id = i
  BY <1>1, <1>2 DEF Row, Rows
<1>4. rows \in [1..n -> Rows]
  BY <1>1, <1>3
<1>5. rows \in Seq(Rows)
  BY <1>2, <1>4
<1>6. Distinct(rows)
  BY <1>1, <1>3 DEF Distinct
<1> QED
  BY <1>5, <1>6

LEMMA SomeLimits == Limits \subseteq 1..100 /\ Changes \subseteq Nat
BY DEF Limits, Changes, MaxRows

LEMMA NoneMissed == InsertedMissesNothing
<1> SUFFICES ASSUME NEW list \in Lists, NEW rows \in SomeRows, NEW mine \in BOOLEAN,
                    NEW countedFirst \in BOOLEAN, NEW limit \in Limits, NEW change \in Changes,
                    NEW place \in 1..(Len(rows) + 1),
                    ~(list \in CountedApart /\ countedFirst /\ change % 2 = 0)
             PROVE  {r \in ToSet(rows) : Belongs(list, r, Everything(limit))}
                      \subseteq Shown(Turned(list, rows, InsertAt(rows, place, Row(0, mine)),
                                             change, countedFirst, Everything(limit)))
  BY DEF InsertedMissesNothing
<1>1. rows \in Seq(Rows) /\ limit \in 1..100 /\ change \in Nat
  BY SomeRowsAre, SomeLimits
<1>2. Row(0, mine) \in Rows
  BY DEF Row, Rows
<1> QED
  BY <1>1, <1>2, InsertionsHideNothing

LEMMA NoneRepeated == RemovedShowsNothingTwice
<1> SUFFICES ASSUME NEW list \in Lists, NEW rows \in SomeRows, NEW countedFirst \in BOOLEAN,
                    NEW limit \in Limits, NEW change \in Changes, NEW place \in DOMAIN rows
             PROVE  NeverTwice(Turned(list, rows, RemoveAt(rows, place), change, countedFirst,
                                      Everything(limit)))
  BY DEF RemovedShowsNothingTwice, NeverTwice
<1>1. rows \in Seq(Rows) /\ Distinct(rows) /\ limit \in 1..100 /\ change \in Nat
  BY SomeRowsAre, SomeLimits
<1>2. place \in 1..Len(rows)
  BY <1>1, LenProperties
<1> QED
  BY <1>1, <1>2, RemovalsRepeatNothing

LEMMA OnlyTheLive == PublicShowsTheLive
<1> SUFFICES ASSUME NEW list \in PublicLists,
                    NEW row \in [id : {0}, live : BOOLEAN, on : BOOLEAN, mine : BOOLEAN, hit : BOOLEAN],
                    NEW ask \in [page : {0}, limit : {0}, search : BOOLEAN,
                                 live : Wishes, on : Wishes, mine : Wishes],
                    Belongs(list, row, ask)
             PROVE  row.live /\ (row.on \/ list = "publicBranches")
  BY DEF PublicShowsTheLive
<1>1. row \in Rows
  BY DEF Rows
<1>2. ask \in [page : Nat, limit : Nat, search : BOOLEAN, live : Wishes, on : Wishes, mine : Wishes]
  OBVIOUS
<1> QED
  BY <1>1, <1>2, PublicListsShowTheLive

\* The three bounds of PagesMissNothing are instances of what was shown for
\* every list, length, limit and moment.
LEMMA PagingHolds == PagingIsSound
BY NoneMissed, NoneRepeated, OnlyTheLive DEF PagingIsSound

\* Turning the pages of any list of the back end misses nothing that was there
\* all along, repeats nothing and shows the public nothing it should not see
\* (parsePagination, buildPaginatedResponse and the lists' queries), whatever
\* has become of the bookings meanwhile.
THEOREM PagesAreSound == Spec => []PagesMissNothing
<1>1. PagesMissNothing
  BY PagingHolds DEF PagesMissNothing
<1> QED
  BY <1>1, PTL
=============================================================================
