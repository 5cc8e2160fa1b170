---------------------------- MODULE BookingPhases ----------------------------
(***************************************************************************)
(* The end of a booking, as chat rooms and reviews see it.  How a booking  *)
(* gets there, and what that costs, is the matter of BookingPayment.       *)
(***************************************************************************)
EXTENDS Handlers

CONSTANT Bookings

ASSUME PhasesAssumption == None \notin Bookings

VARIABLES
  booking,   \* status and times of the booking documents
  resumed    \* history: bookings that were over and are not any more

phaseVars == <<booking, resumed>>

\* A time is never set, or lies within the last 24 hours, or before.
Age == {"never", "recent", "old"}
BookingEnd ==
  [status : {"CONFIRMED", "COMPLETED", "CANCELLED"}, completedAt : Age, cancelledAt : Age]

PhasesTypeOK == booking \in [Bookings -> BookingEnd] /\ resumed \subseteq Bookings

PhasesInit ==
  /\ booking = [b \in Bookings |->
       [status |-> "CONFIRMED", completedAt |-> "never", cancelledAt |-> "never"]]
  /\ resumed = {}

Over(doc) ==
  \/ doc.status = "COMPLETED" /\ doc.completedAt = "old"
  \/ doc.status = "CANCELLED" /\ doc.cancelledAt = "old"

Becomes(b, doc) ==
  /\ booking' = [booking EXCEPT ![b] = doc]
  /\ resumed' = IF Over(booking[b]) /\ ~Over(doc) THEN resumed \cup {b} ELSE resumed

\* What a handler writes on the booking it read before.
PhaseLocal ==
  [todo : {<<"write">>}, ends : Bookings, sets : {"CONFIRMED", "COMPLETED", "CANCELLED"},
   dates : {"nothing", "completedAt", "cancelledAt"}]

PhaseRequest(r, b, status, dated) ==
  /\ Accept(r, [todo |-> <<"write">>, ends |-> b, sets |-> status, dates |-> dated])
  /\ UNCHANGED phaseVars

\* Only CANCELLED is final, and only COMPLETED sets a time; CONFIRMED stands for
\* every status that ends nothing.
UpdateBookingStatus(r, b, status) ==
  /\ booking[b].status # "CANCELLED"
  /\ PhaseRequest(r, b, status, IF status = "COMPLETED" THEN "completedAt" ELSE "nothing")

\* Cancelled again, too.
CancelBooking(r, b) == PhaseRequest(r, b, "CANCELLED", "cancelledAt")

WritePhase(r) ==
  /\ At(r, "write")
  /\ LET set == request[r]
         now(field, age) == IF set.dates = field THEN "recent" ELSE age
     IN Becomes(set.ends,
          [status      |-> set.sets,
           completedAt |-> now("completedAt", booking[set.ends].completedAt),
           cancelledAt |-> now("cancelledAt", booking[set.ends].cancelledAt)])
  /\ Advance(r)

PhaseFails(r) == At(r, "write") /\ Cut(r) /\ UNCHANGED phaseVars

Aged(age) == IF age = "never" THEN "never" ELSE "old"

\* EXPIRY_WINDOW passes.
DayPasses(b) ==
  /\ booking[b] # [booking[b] EXCEPT !.completedAt = Aged(@), !.cancelledAt = Aged(@)]
  /\ Becomes(b, [booking[b] EXCEPT !.completedAt = Aged(@), !.cancelledAt = Aged(@)])
  /\ UNCHANGED handlerVars

PhaseBegins(r) ==
  \E b \in Bookings :
    \/ \E status \in {"CONFIRMED", "COMPLETED", "CANCELLED"} : UpdateBookingStatus(r, b, status)
    \/ CancelBooking(r, b)
=============================================================================
