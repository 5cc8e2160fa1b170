----------------------------- MODULE SlotBooking -----------------------------
(***************************************************************************)
(* Who gets which time of a stylist: bookings, special slots and the lists *)
(* of the days at the branches.  Times are counted in cells of such a list *)
(* (SLOT_GRID_SIZE minutes).                                               *)
(*                                                                         *)
(* A request that books, moves or opens a time validates its items one     *)
(* after the other and writes afterwards; any other step may come in       *)
(* between.  Only the unique index on bookings is checked with the write.  *)
(* Of payments only the status they write appears: see BookingPayment.     *)
(***************************************************************************)
EXTENDS Integers, Sequences, Functions

CONSTANTS
  Bookings,      \* booking ids
  Specials,      \* ids of special slots
  Stylists,
  Branches,
  Days,          \* dates, as they are sent: midnight UTC
  Requests,      \* slots for requests in progress at the same time
  Carts,         \* the lists of items customers ask for
  Spans,         \* the times staff block, or open as special slots
  StatusInputs,  \* the statuses staff set through the status route
  None,          \* no booking, no stylist, no branch, no time
  MaxRequests    \* bound: requests and blocks in one behaviour

BookingStatus ==
  {"PENDING_PAYMENT", "CONFIRMED", "COMPLETED", "NO_SHOW", "CANCELLED", "FAILED",
   "BLOCKED", "SPECIAL"}

\* A time of a stylist, at the branch its slot id names: on the list it was picked
\* from.  The items of a booking do not keep that branch; here it is history.
Item ==
  {i \in [stylist : Stylists, branch : Branches, day : Days, start : Nat, end : Nat] :
     i.start < i.end}

ASSUME CartsAssumption == Carts \subseteq Seq(Item) \ {<<>>}
ASSUME SpansAssumption == Spans \subseteq Item
ASSUME StatusAssumption == StatusInputs \subseteq BookingStatus
ASSUME NoneAssumption == None \notin Bookings
ASSUME BoundAssumption == MaxRequests \in Nat

VARIABLES
  booking,   \* the booking collection
  special,   \* the special slot collection
  request,   \* requests in progress
  accepted,  \* how much of the bound is used up
  listed     \* history: bookings whose times were on the list when they took them

vars == <<booking, special, request, accepted, listed>>

BookingRecord ==
  [status : BookingStatus \cup {"NONE"}, stylist : Stylists \cup {None},
   branch : Branches \cup {None}, day : Days \cup {None}, start : Nat, end : Nat,
   items : Seq(Item), count : Nat]
SpecialRecord ==
  [status : {"NONE", "AVAILABLE", "CANCELLED"}, span : Item \cup {None}]
RequestRecord ==
  [op : {"none", "create", "move", "open", "status"}, b : Bookings \cup {None},
   branch : Branches \cup {None}, items : Seq(Item), done : Nat, count : Nat,
   to : BookingStatus]

TypeOK ==
  /\ booking \in [Bookings -> BookingRecord]
  /\ special \in [Specials -> SpecialRecord]
  /\ request \in [Requests -> RequestRecord]
  /\ accepted \in Nat
  /\ listed \subseteq Bookings

NoDocument ==
  [status |-> "NONE", stylist |-> None, branch |-> None, day |-> None, start |-> 0, end |-> 0,
   items |-> <<>>, count |-> 0]
NoRequest ==
  [op |-> "none", b |-> None, branch |-> None, items |-> <<>>, done |-> 0, count |-> 0,
   to |-> "FAILED"]

Init ==
  /\ booking = [b \in Bookings |-> NoDocument]
  /\ special = [x \in Specials |-> [status |-> "NONE", span |-> None]]
  /\ request = [r \in Requests |-> NoRequest]
  /\ accepted = 0
  /\ listed = {}

\* The statuses the index covers and the list looks for.
Holding == {"PENDING_PAYMENT", "CONFIRMED", "BLOCKED", "SPECIAL"}

-----------------------------------------------------------------------------
(* Faulty variants of definitions below, named after the slip they show.    *)
(* The specification does not use them: each one, put in the place of its   *)
(* original, must make TLC find a property of this module violated.         *)

BookingsOfOwnStylist(branch, s, day) ==
  {b \in Bookings :
     /\ booking[b].status \in Holding
     /\ booking[b].branch = branch /\ booking[b].day = day /\ booking[b].stylist = s}
IndexOnInsertOnly(b, document) ==
  /\ booking[b].status = "NONE"
  /\ \E c \in Bookings :
       /\ booking[c].status \in Holding
       /\ <<booking[c].branch, booking[c].stylist, booking[c].day, booking[c].start>>
            = <<document.branch, document.stylist, document.day, document.start>>

-----------------------------------------------------------------------------
(* The list of the day (AvailabilityService) and the validation.            *)

Overlap(i, j) == i.start < j.end /\ j.start < i.end
SameDay(i, j) == i.stylist = j.stylist /\ i.day = j.day

\* SlotRepository.findBookings: by the branch and the date of the booking, which are
\* those of its first item, and the stylist of the booking or of any item.
BookingsOf(branch, s, day) ==
  {b \in Bookings :
     /\ booking[b].status \in Holding
     /\ booking[b].branch = branch /\ booking[b].day = day
     /\ booking[b].stylist = s \/ \E i \in Range(booking[b].items) : i.stylist = s}

\* A BLOCKED booking takes the time in its own fields, any other that of its items,
\* whatever date those are of.
Intervals(b, s) ==
  IF booking[b].status = "BLOCKED"
  THEN {[start |-> booking[b].start, end |-> booking[b].end]}
  ELSE {i \in Range(booking[b].items) : i.stylist = s}

\* SlotRepository.findSpecialSlots, SlotValidator: special slots in the way of an item.
InTheWay(item, branch, status) ==
  \E x \in Specials :
    /\ special[x].status = status
    /\ special[x].span.branch = branch
    /\ SameDay(item, special[x].span) /\ Overlap(item, special[x].span)

\* The list of its branch and day shows the time of an item as AVAILABLE.
Available(item) ==
  /\ ~InTheWay(item, item.branch, "CANCELLED")
  /\ ~\E b \in BookingsOf(item.branch, item.stylist, item.day) :
        \E i \in Intervals(b, item.stylist) : Overlap(item, i)

\* SlotValidator.checkBookingOverlap leaves out every item whose stylist, turned
\* into text, is not the id it looks for.  The repository has put the stylist's
\* document in the place of the id by then, and a document's text is no id.
Text(stylistDocument) == [document |-> stylistDocument]
BookingOverlap(item) ==
  \E b \in Bookings :
    /\ booking[b].stylist = item.stylist /\ booking[b].day = item.day
    /\ booking[b].status \notin {"NONE", "CANCELLED", "BLOCKED"}
    /\ \E i \in Range(booking[b].items) :
         Text(i.stylist) = item.stylist /\ Overlap(item, i)

\* SlotValidator.checkSpecialSlotOverlap: special slots on offer, not blocked time.
SpecialOverlap(item, branch) == InTheWay(item, branch, "AVAILABLE")

-----------------------------------------------------------------------------
(* Requests that validate: createBooking, rescheduleBooking and             *)
(* createSpecialSlot.                                                       *)

Accept(r, local) ==
  /\ request[r].op = "none"
  /\ accepted < MaxRequests
  /\ request' = [request EXCEPT ![r] = local]
  /\ accepted' = accepted + 1

Answer(r) == request' = [request EXCEPT ![r] = NoRequest]

\* The branch of a booking is that of the first item, whatever the others name.
CreateBooking(r, cart) ==
  /\ Accept(r, [NoRequest EXCEPT !.op = "create", !.branch = cart[1].branch, !.items = cart])
  /\ UNCHANGED <<booking, special, listed>>

\* The payment status, also looked at here, belongs to BookingPayment.
Reschedulable(b) == booking[b].status = "CONFIRMED" /\ booking[b].count < 1

RescheduleBooking(r, b, cart) ==
  /\ Reschedulable(b)
  /\ Accept(r, [NoRequest EXCEPT !.op = "move", !.b = b, !.branch = booking[b].branch,
                                 !.items = cart, !.count = booking[b].count])
  /\ UNCHANGED <<booking, special, listed>>

CreateSpecialSlot(r, span) ==
  /\ Accept(r, [NoRequest EXCEPT !.op = "open", !.branch = span.branch,
                                 !.items = <<span>>])
  /\ UNCHANGED <<booking, special, listed>>

Validated(r) == request[r].done = Len(request[r].items)

\* One item is validated; when its time is refused the request ends.  The two
\* reads are one step because the first finds nothing whenever it is made.
ValidateItem(r) ==
  /\ request[r].op \in {"create", "move", "open"}
  /\ ~Validated(r)
  /\ LET item == request[r].items[request[r].done + 1] IN
     IF BookingOverlap(item) \/ SpecialOverlap(item, request[r].branch)
     THEN Answer(r)
     ELSE request' = [request EXCEPT ![r].done = @ + 1]
  /\ UNCHANGED <<booking, special, accepted, listed>>

\* The partial unique index, for a document about to be stored under b.
Key(document) == <<document.branch, document.stylist, document.day, document.start>>
IndexRefuses(b, document) ==
  /\ document.status \in Holding
  /\ \E c \in Bookings \ {b} :
       booking[c].status \in Holding /\ Key(booking[c]) = Key(document)

\* The statuses under which a booking takes the times of its items.
Seated == Holding \ {"BLOCKED"}
TakesTimes(b, document) ==
  /\ document.status \in Seated
  /\ booking[b].status \notin Seated \/ booking[b].items # document.items

Store(b, document) ==
  IF IndexRefuses(b, document)
  THEN UNCHANGED <<booking, listed>>
  ELSE /\ booking' = [booking EXCEPT ![b] = document]
       /\ listed' =
            IF ~TakesTimes(b, document) THEN listed
            ELSE IF \A i \in Range(document.items) : Available(i) THEN listed \cup {b}
            ELSE listed \ {b}

\* What a list of items says about the appointment.
At(items, document) ==
  [document EXCEPT !.items = items, !.day = items[1].day, !.start = items[1].start,
                   !.end = items[Len(items)].end]

NewBooking(local) ==
  [At(local.items, NoDocument) EXCEPT !.status = "PENDING_PAYMENT", !.branch = local.branch,
                                      !.stylist = local.items[1].stylist]

InsertBooking(r, b) ==
  /\ request[r].op = "create" /\ Validated(r)
  /\ booking[b].status = "NONE"
  /\ Store(b, NewBooking(request[r]))
  /\ Answer(r)
  /\ UNCHANGED <<special, accepted>>

\* The write leaves the stylist and the branch of the booking as they are.
Moved(document, local) == [At(local.items, document) EXCEPT !.count = local.count + 1]

MoveBooking(r) ==
  /\ request[r].op = "move" /\ Validated(r)
  /\ Store(request[r].b, Moved(booking[request[r].b], request[r]))
  /\ Answer(r)
  /\ UNCHANGED <<special, accepted>>

InsertSpecialSlot(r, x) ==
  /\ request[r].op = "open" /\ Validated(r)
  /\ special[x].status = "NONE"
  /\ special' = [special EXCEPT ![x] = [status |-> "AVAILABLE", span |-> request[r].items[1]]]
  /\ Answer(r)
  /\ UNCHANGED <<booking, accepted, listed>>

-----------------------------------------------------------------------------
(* Requests that set a status, decided on the booking as it was read.       *)

MayBecome(from, to) ==
  \/ to \in StatusInputs /\ from # "CANCELLED"                      \* updateBookingStatus
  \/ to = "CANCELLED"                                               \* cancelBooking
  \/ to \in {"CONFIRMED", "FAILED"} /\ from = "PENDING_PAYMENT"     \* payment, cleanup

SetStatus(r, b, to) ==
  /\ booking[b].status # "NONE"
  /\ MayBecome(booking[b].status, to)
  /\ Accept(r, [NoRequest EXCEPT !.op = "status", !.b = b, !.to = to])
  /\ UNCHANGED <<booking, special, listed>>

WriteStatus(r) ==
  /\ request[r].op = "status"
  /\ Store(request[r].b, [booking[request[r].b] EXCEPT !.status = request[r].to])
  /\ Answer(r)
  /\ UNCHANGED <<special, accepted>>

-----------------------------------------------------------------------------
(* Blocking and unblocking (SlotService), and cancelling a special slot.    *)
(* Each has one write that matters; nothing ever makes a special slot BOOKED. *)

\* A time of the list is blocked by a document of its own, without a check.
Block(span) == [status |-> "CANCELLED", span |-> span]

BlockTime(x, span) ==
  /\ special[x].status = "NONE"
  /\ accepted < MaxRequests
  /\ accepted' = accepted + 1
  /\ special' = [special EXCEPT ![x] = Block(span)]
  /\ UNCHANGED <<booking, request, listed>>

CancelSpecialSlot(x) ==
  /\ special[x].status = "AVAILABLE"
  /\ special' = [special EXCEPT ![x].status = "CANCELLED"]
  /\ UNCHANGED <<booking, request, accepted, listed>>

UnblockSlot(x) ==
  /\ special[x].status = "CANCELLED"
  /\ special' = [special EXCEPT ![x].status = "AVAILABLE"]
  /\ UNCHANGED <<booking, request, accepted, listed>>

\* A call to the database rejects, or the process dies.
RequestFails(r) ==
  /\ request[r].op # "none"
  /\ Answer(r)
  /\ UNCHANGED <<booking, special, accepted, listed>>

Begin(r) ==
  \/ \E cart \in Carts : CreateBooking(r, cart)
  \/ \E b \in Bookings, cart \in Carts : RescheduleBooking(r, b, cart)
  \/ \E b \in Bookings, to \in BookingStatus : SetStatus(r, b, to)
  \/ \E span \in Spans : CreateSpecialSlot(r, span)

Continue(r) ==
  \/ ValidateItem(r)
  \/ \E b \in Bookings : InsertBooking(r, b)
  \/ MoveBooking(r)
  \/ \E x \in Specials : InsertSpecialSlot(r, x)
  \/ WriteStatus(r)

Staff(x) ==
  \/ \E span \in Spans : BlockTime(x, span)
  \/ CancelSpecialSlot(x)
  \/ UnblockSlot(x)

Next ==
  \/ \E r \in Requests : Begin(r) \/ Continue(r) \/ RequestFails(r)
  \/ \E x \in Specials : Staff(x)

Spec == Init /\ [][Next]_vars

-----------------------------------------------------------------------------
(* Properties.                                                              *)

\* Two bookings that were never moved and hold their times do not begin at the
\* same time with the same stylist: what the index on the booking's own fields
\* says of the items, whatever was validated at once, cancelled and taken up again.
FirstItemsApart ==
  \A b, c \in Bookings :
    /\ b # c
    /\ booking[b].status \in Holding /\ booking[b].count = 0
    /\ booking[c].status \in Holding /\ booking[c].count = 0
    => LET i == booking[b].items[1]
           j == booking[c].items[1]
       IN <<i.branch, i.stylist, i.day, i.start>> # <<j.branch, j.stylist, j.day, j.start>>

\* The list an item was picked from is one the booking c is looked up for.
Sees(i, c) == i.branch = booking[c].branch /\ i.day = booking[c].day

Clash(b, c) ==
  /\ b # c
  /\ booking[b].status \in Seated /\ booking[c].status \in Seated
  /\ \E i \in Range(booking[b].items), j \in Range(booking[c].items) :
       SameDay(i, j) /\ Overlap(i, j) /\ Sees(i, c) /\ Sees(j, b)

\* When a stylist is booked twice for one time, one of the two bookings took it
\* while the list did not show it as available: the list hides every time taken,
\* that of every item and after every move (getDynamicAvailability).  It knows a
\* booking by the branch and the date of its first item only, so nothing is said of
\* an item of another branch or date, which no list hides (findBookings).
ClashWasNotListed ==
  \A b, c \in Bookings : Clash(b, c) => ~(b \in listed /\ c \in listed)
=============================================================================
