-------------------------- MODULE SlotBooking_proofs --------------------------
(***************************************************************************)
(* Proofs about SlotBooking: its types, what the unique index says of the  *)
(* items of bookings, and that a clash was not listed.                     *)
(***************************************************************************)
EXTENDS SlotBooking, TLAPS

Stored(b) == booking[b].status # "NONE"

\* Every booking stored has items.
BookingsHaveItems == \A b \in Bookings : Stored(b) => booking[b].items # <<>>

\* What a request in progress carries fits what it is about to do.
RequestsFit ==
  \A r \in Requests :
    /\ request[r].op \in {"create", "move", "open"} =>
         request[r].items # <<>> /\ request[r].done <= Len(request[r].items)
    /\ request[r].op \in {"move", "status"} =>
         request[r].b \in Bookings /\ Stored(request[r].b)
    /\ request[r].op = "create" => request[r].branch = request[r].items[1].branch

TypeInv == TypeOK /\ BookingsHaveItems /\ RequestsFit

-----------------------------------------------------------------------------
(* Documents about to be stored.                                            *)

LEMMA Ends ==
  ASSUME NEW items \in Seq(Item), items # <<>>
  PROVE  /\ items[1] \in Item /\ items[1].start \in Nat /\ items[1].stylist \in Stylists
         /\ items[1].branch \in Branches /\ items[1].day \in Days
         /\ items[Len(items)].end \in Nat
         /\ Len(items) \in Nat /\ Len(items) >= 1
<1>1. Len(items) \in Nat /\ Len(items) >= 1
  OBVIOUS
<1>2. items[1] \in Item /\ items[Len(items)] \in Item
  BY <1>1
<1> QED
  BY <1>1, <1>2 DEF Item

LEMMA AtTyped ==
  ASSUME NEW items \in Seq(Item), items # <<>>, NEW document \in BookingRecord
  PROVE  /\ At(items, document) \in BookingRecord
         /\ At(items, document).items = items
         /\ At(items, document).start = items[1].start
         /\ At(items, document).day = items[1].day
         /\ At(items, document).branch = document.branch
         /\ At(items, document).stylist = document.stylist
         /\ At(items, document).status = document.status
         /\ At(items, document).count = document.count
BY Ends DEF At, BookingRecord

LEMMA NewTyped ==
  ASSUME NEW local \in RequestRecord, local.items # <<>>
  PROVE  LET new == NewBooking(local) IN
         /\ new \in BookingRecord
         /\ new.status = "PENDING_PAYMENT" /\ new.items = local.items /\ new.count = 0
         /\ new.stylist = local.items[1].stylist /\ new.branch = local.branch
         /\ new.day = local.items[1].day /\ new.start = local.items[1].start
<1>1. NoDocument \in BookingRecord
  BY DEF NoDocument, BookingRecord
<1>2. NoDocument.count = 0
  BY DEF NoDocument
<1>3. local.items \in Seq(Item) /\ local.branch \in Branches \cup {None}
  BY DEF RequestRecord
<1> DEFINE at == At(local.items, NoDocument)
<1>4. /\ at \in BookingRecord
      /\ at.items = local.items /\ at.day = local.items[1].day
      /\ at.start = local.items[1].start /\ at.count = 0
  BY <1>1, <1>2, <1>3, AtTyped
<1>5. local.items[1].stylist \in Stylists
  BY <1>3, Ends
<1>6. NewBooking(local) =
        [at EXCEPT !.status = "PENDING_PAYMENT", !.branch = local.branch,
                   !.stylist = local.items[1].stylist]
  BY DEF NewBooking
<1> HIDE DEF at
<1> QED
  BY <1>3, <1>4, <1>5, <1>6 DEF BookingRecord, BookingStatus

LEMMA MovedTyped ==
  ASSUME NEW document \in BookingRecord, NEW local \in RequestRecord, local.items # <<>>
  PROVE  LET moved == Moved(document, local) IN
         /\ moved \in BookingRecord
         /\ moved.status = document.status /\ moved.items = local.items
         /\ moved.branch = document.branch
         /\ moved.count > 0 /\ moved.day = local.items[1].day
         /\ moved.start = local.items[1].start
<1>1. local.items \in Seq(Item) /\ local.count \in Nat
  BY DEF RequestRecord
<1> DEFINE at == At(local.items, document)
<1>2. /\ at \in BookingRecord
      /\ at.items = local.items /\ at.day = local.items[1].day
      /\ at.start = local.items[1].start /\ at.branch = document.branch
      /\ at.status = document.status
  BY <1>1, AtTyped
<1>3. Moved(document, local) = [at EXCEPT !.count = local.count + 1]
  BY DEF Moved
<1> HIDE DEF at
<1>4. local.count + 1 \in Nat /\ local.count + 1 > 0
  BY <1>1
<1>5. /\ Moved(document, local) \in BookingRecord
      /\ Moved(document, local).status = at.status
      /\ Moved(document, local).branch = at.branch
      /\ Moved(document, local).items = at.items
      /\ Moved(document, local).day = at.day
      /\ Moved(document, local).start = at.start
      /\ Moved(document, local).count = local.count + 1
  BY <1>2, <1>3, <1>4 DEF BookingRecord
<1> QED
  BY <1>2, <1>4, <1>5

-----------------------------------------------------------------------------
(* Types.                                                                   *)

LEMMA TypeInit == Init => TypeInv
<1> SUFFICES ASSUME Init PROVE TypeInv
  OBVIOUS
<1>1. NoDocument \in BookingRecord /\ NoRequest \in RequestRecord
  BY DEF NoDocument, BookingRecord, NoRequest, RequestRecord, BookingStatus
<1>2. TypeOK
  BY <1>1 DEF Init, TypeOK, SpecialRecord
<1> QED
  BY <1>2 DEF Init, TypeInv, BookingsHaveItems, Stored, RequestsFit, NoDocument, NoRequest

\* The end of a request keeps the requests as they should be.
LEMMA AnswerFits ==
  ASSUME TypeInv, NEW r \in Requests, Answer(r),
         \A b \in Bookings : Stored(b) => Stored(b)'
  PROVE  request' \in [Requests -> RequestRecord] /\ RequestsFit'
<1>1. NoRequest \in RequestRecord
  BY DEF NoRequest, RequestRecord, BookingStatus
<1> QED
  BY <1>1 DEF TypeInv, TypeOK, Answer, RequestsFit, NoRequest

\* So does storing a document that has items.
LEMMA StoreTyped ==
  ASSUME TypeInv, NEW b \in Bookings, NEW document \in BookingRecord,
         document.status # "NONE", document.items # <<>>, Store(b, document)
  PROVE  /\ booking' \in [Bookings -> BookingRecord]
         /\ listed' \subseteq Bookings
         /\ BookingsHaveItems'
         /\ \A c \in Bookings : Stored(c) => Stored(c)'
<1>1. CASE IndexRefuses(b, document)
  BY <1>1 DEF Store, TypeInv, TypeOK, BookingsHaveItems, Stored
<1>2. CASE ~IndexRefuses(b, document)
  BY <1>2 DEF Store, TypeInv, TypeOK, BookingsHaveItems, Stored
<1> QED
  BY <1>1, <1>2

\* A request that is accepted carries what it should.
LEMMA AcceptTyped ==
  ASSUME TypeInv, NEW r \in Requests, NEW local \in RequestRecord, Accept(r, local),
         local.op \in {"create", "move", "open"} =>
           local.items # <<>> /\ local.done <= Len(local.items),
         local.op \in {"move", "status"} => local.b \in Bookings /\ Stored(local.b),
         local.op = "create" => local.branch = local.items[1].branch,
         UNCHANGED <<booking, special, listed>>
  PROVE  TypeInv'
BY DEF TypeInv, TypeOK, Accept, RequestsFit, BookingsHaveItems, Stored

LEMMA TypeBegin ==
  ASSUME TypeInv, NEW r \in Requests, Begin(r)
  PROVE  TypeInv'
<1>0. /\ NoRequest \in RequestRecord
      /\ NoRequest = [op |-> "none", b |-> None, branch |-> None, items |-> <<>>,
                      done |-> 0, count |-> 0, to |-> "FAILED"]
  BY DEF NoRequest, RequestRecord, BookingStatus
<1>1. ASSUME NEW cart \in Carts, CreateBooking(r, cart) PROVE TypeInv'
  <2>1. cart \in Seq(Item) /\ cart # <<>> /\ 0 <= Len(cart) /\ cart[1].branch \in Branches
    BY CartsAssumption, Ends
  <2> DEFINE local == [NoRequest EXCEPT !.op = "create", !.branch = cart[1].branch,
                                        !.items = cart]
  <2>2. /\ local \in RequestRecord /\ local.op = "create" /\ local.items = cart
        /\ local.done = 0 /\ local.branch = cart[1].branch
    BY <1>0, <2>1 DEF RequestRecord
  <2> HIDE DEF local
  <2> QED
    BY <1>1, <2>1, <2>2, AcceptTyped DEF CreateBooking, local
<1>2. ASSUME NEW b \in Bookings, NEW cart \in Carts, RescheduleBooking(r, b, cart)
      PROVE  TypeInv'
  <2>1. cart \in Seq(Item) /\ cart # <<>> /\ 0 <= Len(cart)
    BY CartsAssumption
  <2>2. booking[b].count \in Nat /\ booking[b].branch \in Branches \cup {None} /\ Stored(b)
    BY <1>2 DEF RescheduleBooking, Reschedulable, Stored, TypeInv, TypeOK, BookingRecord
  <2> DEFINE local == [NoRequest EXCEPT !.op = "move", !.b = b, !.branch = booking[b].branch,
                                        !.items = cart, !.count = booking[b].count]
  <2>3. /\ local \in RequestRecord /\ local.op = "move" /\ local.items = cart
        /\ local.done = 0 /\ local.b = b
    BY <1>0, <2>1, <2>2 DEF RequestRecord
  <2> HIDE DEF local
  <2> QED
    BY <1>2, <2>1, <2>2, <2>3, AcceptTyped DEF RescheduleBooking, local
<1>3. ASSUME NEW b \in Bookings, NEW to \in BookingStatus, SetStatus(r, b, to)
      PROVE  TypeInv'
  <2> DEFINE local == [NoRequest EXCEPT !.op = "status", !.b = b, !.to = to]
  <2>1. local \in RequestRecord /\ local.op = "status" /\ local.b = b
    BY <1>0 DEF RequestRecord
  <2> HIDE DEF local
  <2> QED
    BY <1>3, <2>1, AcceptTyped DEF SetStatus, Stored, local
<1>4. ASSUME NEW span \in Spans, CreateSpecialSlot(r, span) PROVE TypeInv'
  <2>1. span \in Item /\ span.branch \in Branches
    BY SpansAssumption DEF Item
  <2>2. PICK items : items = <<span>>
    OBVIOUS
  <2>3. items \in Seq(Item) /\ Len(items) = 1 /\ items # <<>>
    <3>1. items \in Seq(Item)
      BY <2>1, <2>2
    <3>2. Len(items) = 1 /\ Len(<<>>) = 0
      BY <2>2
    <3> QED
      BY <3>1, <3>2
  <2> DEFINE local == [NoRequest EXCEPT !.op = "open", !.branch = span.branch, !.items = items]
  <2>4. Accept(r, local) /\ UNCHANGED <<booking, special, listed>>
    BY <1>4, <2>2 DEF CreateSpecialSlot
  <2>5. /\ local \in RequestRecord /\ local.op = "open" /\ local.items = items
        /\ local.done = 0
    BY <1>0, <2>1, <2>3 DEF RequestRecord
  <2> HIDE DEF local
  <2> QED
    BY <2>3, <2>4, <2>5, AcceptTyped
<1> QED
  BY <1>1, <1>2, <1>3, <1>4 DEF Begin

\* A step that ends a request and stores a document that has items.
LEMMA StoreStep ==
  ASSUME TypeInv, NEW r \in Requests, NEW b \in Bookings, NEW document \in BookingRecord,
         document.status # "NONE", document.items # <<>>,
         Store(b, document), Answer(r), UNCHANGED <<special, accepted>>
  PROVE  TypeInv'
<1>1. /\ booking' \in [Bookings -> BookingRecord]
      /\ listed' \subseteq Bookings
      /\ BookingsHaveItems'
      /\ \A c \in Bookings : Stored(c) => Stored(c)'
  BY StoreTyped
<1>2. request' \in [Requests -> RequestRecord] /\ RequestsFit'
  BY <1>1, AnswerFits
<1> QED
  BY <1>1, <1>2 DEF TypeInv, TypeOK

\* The documents the three writers store, as the lemmas above need them.
LEMMA InsertStores ==
  ASSUME TypeInv, NEW r \in Requests, NEW b \in Bookings, InsertBooking(r, b)
  PROVE  LET document == NewBooking(request[r]) IN
         /\ document \in BookingRecord /\ document.status = "PENDING_PAYMENT"
         /\ document.items # <<>> /\ document.count = 0
         /\ document.day = document.items[1].day
         /\ document.start = document.items[1].start
         /\ document.branch = document.items[1].branch
         /\ document.stylist = document.items[1].stylist
         /\ ~Stored(b)
         /\ Store(b, document) /\ Answer(r) /\ UNCHANGED <<special, accepted>>
<1>1. /\ request[r] \in RequestRecord /\ request[r].items # <<>>
      /\ request[r].branch = request[r].items[1].branch
  BY DEF InsertBooking, TypeInv, TypeOK, RequestsFit
<1> QED
  BY <1>1, NewTyped DEF InsertBooking, Stored

LEMMA MoveStores ==
  ASSUME TypeInv, NEW r \in Requests, MoveBooking(r)
  PROVE  LET b == request[r].b
             document == Moved(booking[b], request[r])
         IN  /\ b \in Bookings /\ Stored(b)
             /\ document \in BookingRecord /\ document.status = booking[b].status
             /\ document.items # <<>> /\ document.count > 0
             /\ document.branch = booking[b].branch
             /\ document.day = document.items[1].day
             /\ document.start = document.items[1].start
             /\ Store(b, document) /\ Answer(r) /\ UNCHANGED <<special, accepted>>
<1>1. /\ request[r] \in RequestRecord /\ request[r].items # <<>>
      /\ request[r].b \in Bookings /\ Stored(request[r].b)
  BY DEF MoveBooking, TypeInv, TypeOK, RequestsFit
<1>2. booking[request[r].b] \in BookingRecord
  BY <1>1 DEF TypeInv, TypeOK
<1> QED
  BY <1>1, <1>2, MovedTyped DEF MoveBooking

LEMMA StatusStores ==
  ASSUME TypeInv, NEW r \in Requests, WriteStatus(r)
  PROVE  LET b == request[r].b
             document == [booking[b] EXCEPT !.status = request[r].to]
         IN  /\ b \in Bookings /\ Stored(b)
             /\ document \in BookingRecord /\ document.status \in BookingStatus
             /\ document.items = booking[b].items /\ document.items # <<>>
             /\ document.stylist = booking[b].stylist /\ document.start = booking[b].start
             /\ document.branch = booking[b].branch /\ document.day = booking[b].day
             /\ document.count = booking[b].count
             /\ Store(b, document) /\ Answer(r) /\ UNCHANGED <<special, accepted>>
<1>1. /\ request[r].to \in BookingStatus
      /\ request[r].b \in Bookings /\ Stored(request[r].b)
  BY DEF WriteStatus, TypeInv, TypeOK, RequestsFit, RequestRecord
<1>2. /\ booking[request[r].b] \in BookingRecord
      /\ booking[request[r].b].items # <<>>
  BY <1>1 DEF TypeInv, TypeOK, BookingsHaveItems
<1> QED
  BY <1>1, <1>2 DEF WriteStatus, BookingRecord

LEMMA OneMore ==
  ASSUME NEW n \in Nat, NEW m \in Nat, n <= m, n # m
  PROVE  n + 1 \in Nat /\ n + 1 <= m
OBVIOUS

LEMMA TypeContinue ==
  ASSUME TypeInv, NEW r \in Requests, Continue(r)
  PROVE  TypeInv'
<1>1. CASE ValidateItem(r)
  <2>1. CASE Answer(r)
    BY <1>1, <2>1, AnswerFits DEF ValidateItem, TypeInv, TypeOK, BookingsHaveItems, Stored
  <2>2. CASE request' = [request EXCEPT ![r].done = @ + 1]
    <3>1. /\ request[r].done \in Nat /\ request[r].items \in Seq(Item)
          /\ request[r].items # <<>> /\ request[r].done <= Len(request[r].items)
      BY <1>1 DEF ValidateItem, TypeInv, TypeOK, RequestsFit, RequestRecord
    <3>2. Len(request[r].items) \in Nat /\ request[r].done # Len(request[r].items)
      BY <1>1, <3>1 DEF ValidateItem, Validated
    <3>3. request[r].done + 1 \in Nat /\ request[r].done + 1 <= Len(request[r].items)
      <4> DEFINE n == request[r].done
                 m == Len(request[r].items)
      <4>1. n \in Nat /\ m \in Nat /\ n <= m /\ n # m
        BY <3>1, <3>2
      <4> HIDE DEF n, m
      <4>2. n + 1 \in Nat /\ n + 1 <= m
        BY <4>1, OneMore
      <4> QED
        BY <4>2 DEF n, m
    <3>4. request' \in [Requests -> RequestRecord]
      BY <2>2, <3>3 DEF TypeInv, TypeOK, RequestRecord
    <3>5. \A q \in Requests :
            /\ request'[q].op = request[q].op /\ request'[q].b = request[q].b
            /\ request'[q].items = request[q].items /\ request'[q].branch = request[q].branch
            /\ q # r => request'[q].done = request[q].done
            /\ q = r => request'[q].done = request[q].done + 1
      BY <2>2 DEF TypeInv, TypeOK, RequestRecord
    <3>6. RequestsFit'
      BY <1>1, <3>3, <3>5 DEF ValidateItem, TypeInv, RequestsFit, Stored
    <3> QED
      BY <1>1, <3>4, <3>6 DEF ValidateItem, TypeInv, TypeOK, BookingsHaveItems, Stored
  <2> QED
    BY <1>1, <2>1, <2>2 DEF ValidateItem
<1>2. ASSUME NEW b \in Bookings, InsertBooking(r, b) PROVE TypeInv'
  <2> DEFINE document == NewBooking(request[r])
  <2>1. /\ document \in BookingRecord /\ document.status # "NONE" /\ document.items # <<>>
        /\ Store(b, document) /\ Answer(r) /\ UNCHANGED <<special, accepted>>
    BY <1>2, InsertStores
  <2> HIDE DEF document
  <2> QED
    BY <2>1, StoreStep
<1>3. CASE MoveBooking(r)
  <2> DEFINE b == request[r].b
             document == Moved(booking[b], request[r])
  <2>1. /\ b \in Bookings
        /\ document \in BookingRecord /\ document.status # "NONE" /\ document.items # <<>>
        /\ Store(b, document) /\ Answer(r) /\ UNCHANGED <<special, accepted>>
    BY <1>3, MoveStores DEF Stored
  <2> HIDE DEF b, document
  <2> QED
    BY <2>1, StoreStep
<1>4. ASSUME NEW x \in Specials, InsertSpecialSlot(r, x) PROVE TypeInv'
  <2>1. request[r].items[1] \in Item
    <3>1. request[r].items \in Seq(Item) /\ request[r].items # <<>>
      BY <1>4 DEF InsertSpecialSlot, TypeInv, TypeOK, RequestsFit, RequestRecord
    <3> QED
      BY <3>1, Ends
  <2>2. special' \in [Specials -> SpecialRecord]
    BY <1>4, <2>1 DEF InsertSpecialSlot, TypeInv, TypeOK, SpecialRecord
  <2>3. request' \in [Requests -> RequestRecord] /\ RequestsFit'
    BY <1>4, AnswerFits DEF InsertSpecialSlot, Stored
  <2> QED
    BY <1>4, <2>2, <2>3 DEF InsertSpecialSlot, TypeInv, TypeOK, BookingsHaveItems, Stored
<1>5. CASE WriteStatus(r)
  <2> DEFINE b == request[r].b
             document == [booking[b] EXCEPT !.status = request[r].to]
  <2>1. /\ b \in Bookings
        /\ document \in BookingRecord /\ document.status \in BookingStatus
        /\ document.items # <<>>
        /\ Store(b, document) /\ Answer(r) /\ UNCHANGED <<special, accepted>>
    BY <1>5, StatusStores
  <2>2. document.status # "NONE"
    BY <2>1 DEF BookingStatus
  <2> HIDE DEF b, document
  <2> QED
    BY <2>1, <2>2, StoreStep
<1> QED
  BY <1>1, <1>2, <1>3, <1>4, <1>5 DEF Continue

LEMMA TypeStaff ==
  ASSUME TypeInv, NEW x \in Specials, Staff(x)
  PROVE  TypeInv'
<1>1. special' \in [Specials -> SpecialRecord]
  BY SpansAssumption DEF Staff, BlockTime, Block, CancelSpecialSlot, UnblockSlot,
     TypeInv, TypeOK, SpecialRecord
<1>2. accepted' \in Nat
  BY DEF Staff, BlockTime, CancelSpecialSlot, UnblockSlot, TypeInv, TypeOK
<1>3. UNCHANGED <<booking, request, listed>>
  BY DEF Staff, BlockTime, CancelSpecialSlot, UnblockSlot
<1> QED
  BY <1>1, <1>2, <1>3 DEF TypeInv, TypeOK, BookingsHaveItems, RequestsFit, Stored

LEMMA TypeStep == TypeInv /\ [Next]_vars => TypeInv'
<1> SUFFICES ASSUME TypeInv, [Next]_vars PROVE TypeInv'
  OBVIOUS
<1>1. ASSUME NEW r \in Requests, RequestFails(r) PROVE TypeInv'
  BY <1>1, AnswerFits DEF RequestFails, TypeInv, TypeOK, BookingsHaveItems, Stored
<1>2. CASE UNCHANGED vars
  BY <1>2 DEF vars, TypeInv, TypeOK, BookingsHaveItems, RequestsFit, Stored
<1> QED
  BY <1>1, <1>2, TypeBegin, TypeContinue, TypeStaff DEF Next

LEMMA TypeInvariant == Spec => []TypeInv
BY TypeInit, TypeStep, PTL DEF Spec

\* Documents and requests keep their types, whatever is booked, moved, opened and
\* blocked at once: no writer stores a booking without items (prepareBookingItems).
THEOREM TypeCorrect == Spec => []TypeOK
<1>1. TypeInv => TypeOK
  BY DEF TypeInv
<1> QED
  BY <1>1, TypeInvariant, PTL

-----------------------------------------------------------------------------
(* What is written to the bookings.                                         *)

\* The fields the index is built on follow the first item, except that a move
\* leaves the stylist and the branch behind.
KeyOfFirst(document) ==
  /\ document.day = document.items[1].day /\ document.start = document.items[1].start
  /\ document.count = 0 => /\ document.stylist = document.items[1].stylist
                           /\ document.branch = document.items[1].branch

SameAppointment(b, document) ==
  /\ Stored(b) /\ document.items = booking[b].items
  /\ document.day = booking[b].day /\ document.start = booking[b].start
  /\ document.stylist = booking[b].stylist /\ document.count = booking[b].count

\* What a step stores: the branch stays what it is once it is stored.
Writing(b, document) ==
  /\ Store(b, document)
  /\ KeyOfFirst(document) \/ SameAppointment(b, document)
  /\ Stored(b) => document.branch = booking[b].branch

Written == \E b \in Bookings, document \in BookingRecord : Writing(b, document)

LEMMA Writes ==
  ASSUME TypeInv, [Next]_vars
  PROVE  UNCHANGED <<booking, listed>> \/ Written
<1>1. ASSUME NEW r \in Requests, NEW b \in Bookings, InsertBooking(r, b) PROVE Written
  <2> DEFINE document == NewBooking(request[r])
  <2>1. /\ document \in BookingRecord /\ Store(b, document)
        /\ document.day = document.items[1].day /\ document.start = document.items[1].start
        /\ document.stylist = document.items[1].stylist
        /\ document.branch = document.items[1].branch
        /\ ~Stored(b)
    BY <1>1, InsertStores
  <2> HIDE DEF document
  <2> QED
    BY <2>1 DEF KeyOfFirst, Writing, Written
<1>2. ASSUME NEW r \in Requests, MoveBooking(r) PROVE Written
  <2> DEFINE b == request[r].b
             document == Moved(booking[b], request[r])
  <2>1. /\ b \in Bookings /\ document \in BookingRecord /\ Store(b, document)
        /\ document.day = document.items[1].day /\ document.start = document.items[1].start
        /\ document.branch = booking[b].branch /\ document.count > 0
    BY <1>2, MoveStores
  <2> HIDE DEF b, document
  <2>2. document.count # 0
    BY <2>1 DEF BookingRecord
  <2> QED
    BY <2>1, <2>2 DEF KeyOfFirst, Writing, Written
<1>3. ASSUME NEW r \in Requests, WriteStatus(r) PROVE Written
  <2> DEFINE b == request[r].b
             document == [booking[b] EXCEPT !.status = request[r].to]
  <2>1. /\ b \in Bookings /\ document \in BookingRecord /\ Store(b, document)
        /\ SameAppointment(b, document) /\ document.branch = booking[b].branch
    BY <1>3, StatusStores DEF SameAppointment
  <2> HIDE DEF b, document
  <2> QED
    BY <2>1 DEF Writing, Written
<1>4. ASSUME NEW r \in Requests, Begin(r) PROVE UNCHANGED <<booking, listed>>
  BY <1>4 DEF Begin, CreateBooking, RescheduleBooking, SetStatus, CreateSpecialSlot
<1>5. ASSUME NEW x \in Specials, Staff(x) PROVE UNCHANGED <<booking, listed>>
  BY <1>5 DEF Staff, BlockTime, CancelSpecialSlot, UnblockSlot
<1>6. ASSUME NEW r \in Requests, ValidateItem(r) \/ RequestFails(r)
      PROVE  UNCHANGED <<booking, listed>>
  BY <1>6 DEF ValidateItem, RequestFails
<1>7. ASSUME NEW r \in Requests, NEW x \in Specials, InsertSpecialSlot(r, x)
      PROVE  UNCHANGED <<booking, listed>>
  BY <1>7 DEF InsertSpecialSlot
<1>8. CASE UNCHANGED vars
  BY <1>8 DEF vars
<1> QED
  BY <1>1, <1>2, <1>3, <1>4, <1>5, <1>6, <1>7, <1>8 DEF Next, Continue

-----------------------------------------------------------------------------
(* The index.                                                               *)

KeysFollow == \A b \in Bookings : Stored(b) => KeyOfFirst(booking[b])
KeysApart ==
  \A b, c \in Bookings :
    b # c /\ booking[b].status \in Holding /\ booking[c].status \in Holding =>
      Key(booking[b]) # Key(booking[c])
IndexInv == KeysFollow /\ KeysApart

LEMMA IndexInit == Init => IndexInv
BY DEF Init, NoDocument, IndexInv, KeysFollow, KeysApart, Stored, Holding

LEMMA IndexStep == TypeInv /\ IndexInv /\ [Next]_vars => IndexInv'
<1> SUFFICES ASSUME TypeInv, IndexInv, [Next]_vars PROVE IndexInv'
  OBVIOUS
<1>1. CASE UNCHANGED <<booking, listed>>
  BY <1>1 DEF IndexInv, KeysFollow, KeysApart, Stored, Key, KeyOfFirst
<1>2. ASSUME NEW b \in Bookings, NEW document \in BookingRecord, Writing(b, document)
      PROVE  IndexInv'
  <2>0. Store(b, document) /\ (KeyOfFirst(document) \/ SameAppointment(b, document))
    BY <1>2 DEF Writing
  <2>1. CASE IndexRefuses(b, document)
    BY <2>0, <2>1 DEF Store, IndexInv, KeysFollow, KeysApart, Stored, Key, KeyOfFirst
  <2>2. CASE ~IndexRefuses(b, document)
    <3>1. booking' = [booking EXCEPT ![b] = document]
      BY <2>0, <2>2 DEF Store
    <3>2. /\ booking'[b] = document
          /\ \A c \in Bookings \ {b} : booking'[c] = booking[c]
      BY <3>1 DEF TypeInv, TypeOK
    <3>3. KeyOfFirst(document)
      <4>1. CASE SameAppointment(b, document)
        <5>1. /\ KeyOfFirst(booking[b])
              /\ document.items = booking[b].items
              /\ document.day = booking[b].day /\ document.start = booking[b].start
              /\ document.branch = booking[b].branch
              /\ document.stylist = booking[b].stylist /\ document.count = booking[b].count
          BY <1>2, <4>1 DEF IndexInv, KeysFollow, SameAppointment, Writing
        <5> QED
          BY <5>1 DEF KeyOfFirst
      <4> QED
        BY <2>0, <4>1
    <3>4. KeysFollow'
      BY <3>2, <3>3 DEF IndexInv, KeysFollow, Stored, KeyOfFirst
    <3>5. document.status \in Holding =>
            \A c \in Bookings \ {b} :
              booking[c].status \in Holding => Key(booking[c]) # Key(document)
      BY <2>2 DEF IndexRefuses
    <3>6. KeysApart'
      BY <3>2, <3>5 DEF IndexInv, KeysApart, Key
    <3> QED
      BY <3>4, <3>6 DEF IndexInv
  <2> QED
    BY <2>1, <2>2
<1> QED
  BY <1>1, <1>2, Writes DEF Written

\* The unique index keeps the first items of bookings apart as long as they are not
\* moved, whatever overlaps, fails, is given up and taken up again (the index of
\* booking.model.ts, on which createBooking relies).
THEOREM FirstItemsStayApart == Spec => []FirstItemsApart
<1>1. TypeInv /\ IndexInv => FirstItemsApart
  <2> SUFFICES ASSUME TypeInv, IndexInv, NEW b \in Bookings, NEW c \in Bookings, b # c,
                      booking[b].status \in Holding, booking[b].count = 0,
                      booking[c].status \in Holding, booking[c].count = 0
               PROVE  LET i == booking[b].items[1]
                          j == booking[c].items[1]
                      IN <<i.branch, i.stylist, i.day, i.start>>
                           # <<j.branch, j.stylist, j.day, j.start>>
    BY DEF FirstItemsApart
  <2> DEFINE i == booking[b].items[1]
             j == booking[c].items[1]
  <2>1. Stored(b) /\ Stored(c)
    BY DEF Stored, Holding
  <2>2. KeyOfFirst(booking[b]) /\ KeyOfFirst(booking[c])
    BY <2>1 DEF IndexInv, KeysFollow
  <2>3. /\ Key(booking[b]) = <<i.branch, i.stylist, i.day, i.start>>
        /\ Key(booking[c]) = <<j.branch, j.stylist, j.day, j.start>>
    BY <2>2 DEF KeyOfFirst, Key
  <2>4. Key(booking[b]) # Key(booking[c])
    BY DEF IndexInv, KeysApart
  <2> QED
    BY <2>3, <2>4
<1> QED
  BY <1>1, TypeInvariant, IndexInit, IndexStep, PTL DEF Spec

-----------------------------------------------------------------------------
(* The list of the day.                                                     *)

\* A time the list shows is no part of a booking that takes the times of its items
\* and is looked up for that list.
LEMMA AvailableIsFree ==
  ASSUME TypeInv, NEW item, Available(item),
         NEW c \in Bookings, booking[c].status \in Seated, NEW j \in Range(booking[c].items),
         SameDay(item, j), Sees(item, c)
  PROVE  ~Overlap(item, j)
<1>1. j.stylist = item.stylist
  BY DEF SameDay
<1>2. booking[c].status \in Holding /\ booking[c].status # "BLOCKED"
  BY DEF Seated
<1>3. c \in BookingsOf(item.branch, item.stylist, item.day)
  BY <1>1, <1>2 DEF BookingsOf, Sees
<1>4. j \in Intervals(c, item.stylist)
  BY <1>1, <1>2 DEF Intervals
<1> QED
  BY <1>3, <1>4 DEF Available

\* A clash is one of two bookings with each other.
LEMMA ClashBothWays ==
  ASSUME NEW b \in Bookings, NEW c \in Bookings, Clash(b, c)'
  PROVE  Clash(c, b)'
<1>1. PICK i \in Range(booking[b].items)', j \in Range(booking[c].items)' :
        (SameDay(i, j) /\ Overlap(i, j) /\ Sees(i, c) /\ Sees(j, b))'
  BY DEF Clash
<1>2. (SameDay(j, i) /\ Overlap(j, i))'
  BY <1>1 DEF SameDay, Overlap
<1> QED
  BY <1>1, <1>2 DEF Clash

\* A document just stored clashes with no booking that was listed, or is not listed.
LEMMA StoreListed ==
  ASSUME TypeInv, IndexInv, ClashWasNotListed, NEW b \in Bookings,
         NEW document \in BookingRecord,
         Writing(b, document), ~IndexRefuses(b, document), NEW c \in Bookings, Clash(b, c)',
         b \in listed', c \in listed'
  PROVE  FALSE
<1>1. /\ booking' = [booking EXCEPT ![b] = document]
      /\ listed' = IF ~TakesTimes(b, document) THEN listed
                   ELSE IF \A i \in Range(document.items) : Available(i) THEN listed \cup {b}
                   ELSE listed \ {b}
  BY DEF Writing, Store
<1>2. /\ b # c /\ booking'[b] = document /\ booking'[c] = booking[c]
  BY <1>1 DEF Clash, TypeInv, TypeOK
<1>3. document.status \in Seated /\ booking[c].status \in Seated
  BY <1>2 DEF Clash
<1>4. PICK i \in Range(document.items), j \in Range(booking[c].items) :
        /\ SameDay(i, j) /\ Overlap(i, j) /\ Sees(i, c)
        /\ j.branch = document.branch /\ j.day = document.day
  BY <1>2 DEF Clash, SameDay, Overlap, Sees
<1>5. c \in listed
  BY <1>1, <1>2
<1>6. CASE TakesTimes(b, document)
  <2>1. Available(i)
    BY <1>1, <1>6
  <2> QED
    BY <1>3, <1>4, <2>1, AvailableIsFree
<1>7. CASE ~TakesTimes(b, document)
  <2>1. booking[b].status \in Seated /\ booking[b].items = document.items
    BY <1>3, <1>7 DEF TakesTimes
  <2>2. Stored(b)
    BY <2>1 DEF Seated, Holding, Stored
  <2>3. KeyOfFirst(booking[b])
    BY <2>2 DEF IndexInv, KeysFollow
  <2>4. document.day = booking[b].day /\ document.branch = booking[b].branch
    BY <2>1, <2>2, <2>3 DEF Writing, KeyOfFirst, SameAppointment
  <2>5. Clash(b, c)
    BY <1>2, <1>3, <1>4, <2>1, <2>4 DEF Clash, Sees
  <2>6. b \in listed
    BY <1>1, <1>7
  <2> QED
    BY <1>5, <2>5, <2>6 DEF ClashWasNotListed
<1> QED
  BY <1>6, <1>7

LEMMA ListedStep == TypeInv /\ IndexInv /\ ClashWasNotListed /\ [Next]_vars => ClashWasNotListed'
<1> SUFFICES ASSUME TypeInv, IndexInv, ClashWasNotListed, [Next]_vars,
                    NEW c \in Bookings, NEW d \in Bookings,
                    Clash(c, d)', c \in listed', d \in listed'
             PROVE  FALSE
  BY DEF ClashWasNotListed
<1>1. CASE UNCHANGED <<booking, listed>>
  BY <1>1 DEF ClashWasNotListed, Clash, SameDay, Overlap, Sees
<1>2. ASSUME NEW b \in Bookings, NEW document \in BookingRecord, Writing(b, document)
      PROVE  FALSE
  <2>0. Store(b, document)
    BY <1>2 DEF Writing
  <2>1. CASE IndexRefuses(b, document)
    BY <2>0, <2>1 DEF Store, ClashWasNotListed, Clash, SameDay, Overlap, Sees
  <2>2. CASE ~IndexRefuses(b, document)
    <3>1. Clash(d, c)'
      BY ClashBothWays
    <3>2. CASE b = c
      BY <1>2, <2>2, <3>2, StoreListed
    <3>3. CASE b = d
      BY <1>2, <2>2, <3>1, <3>3, StoreListed
    <3>4. CASE b # c /\ b # d
      <4>1. booking'[c] = booking[c] /\ booking'[d] = booking[d]
        BY <2>0, <2>2, <3>4 DEF Store, TypeInv, TypeOK
      <4>2. c \in listed /\ d \in listed
        BY <2>0, <2>2, <3>4 DEF Store
      <4>3. Clash(c, d)
        BY <4>1 DEF Clash, SameDay, Overlap, Sees
      <4> QED
        BY <4>2, <4>3 DEF ClashWasNotListed
    <3> QED
      BY <3>2, <3>3, <3>4
  <2> QED
    BY <2>1, <2>2
<1> QED
  BY <1>1, <1>2, Writes DEF Written

\* A stylist is booked twice for one time, by items each of whose lists looks the other
\* booking up, only when one of the two bookings took the time while the list hid it:
\* whoever books what the list shows, and is alone in doing so, is not double booked by
\* what the list looks up (getDynamicAvailability, findBookings).
THEOREM ClashesWereNotListed == Spec => []ClashWasNotListed
<1>1. Init => ClashWasNotListed
  BY DEF Init, ClashWasNotListed
<1> QED
  BY <1>1, TypeInvariant, IndexInit, IndexStep, ListedStep, PTL DEF Spec
===============================================================================
