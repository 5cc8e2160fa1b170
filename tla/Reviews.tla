------------------------------- MODULE Reviews -------------------------------
(***************************************************************************)
(* Reviews of completed bookings, and the ratings they give the stylist    *)
(* and the service (ReviewService).  A rating is an average and a count    *)
(* computed from the reviews there are: both are functions of the set of   *)
(* reviews counted, which stands for them.  It is computed in one call and *)
(* written in another, for the stylist and then for the service.           *)
(***************************************************************************)
EXTENDS BookingPhases

CONSTANTS
  Stylists,
  Services,
  StylistOf,  \* the stylist of a booking
  ServiceOf   \* the service of its first item

ASSUME ReviewAssumption ==
  /\ StylistOf \in [Bookings -> Stylists]
  /\ ServiceOf \in [Bookings -> Services]
  /\ Stylists \cap Services = {}

VARIABLES
  review,   \* the review of a booking; the index on bookingId lets one in
  rating    \* the reviews counted in the document of a stylist or a service

reviewVars == <<review, rating>>

Rated == Stylists \cup Services

RateSteps == {"readStylist", "writeStylist", "readService", "writeService"}
ReviewSteps == RateSteps \cup {"create", "hide", "restore"}
ReviewLocal ==
  [todo : Seq(ReviewSteps) \ {<<>>}, reviewed : Bookings, seen : SUBSET Bookings]

ReviewsTypeOK ==
  /\ review \in [Bookings -> {"none", "shown", "deleted"}]
  /\ rating \in [Rated -> SUBSET Bookings]

ReviewsInit ==
  /\ review = [b \in Bookings |-> "none"]
  /\ rating = [x \in Rated |-> {}]

\* The reviews of a stylist or a service that are not deleted.
Counts(x) == {b \in Bookings : review[b] = "shown" /\ x \in {StylistOf[b], ServiceOf[b]}}

-----------------------------------------------------------------------------
(* Faulty variants of definitions below, named after the slip they show.    *)
(* The specification does not use them.                                     *)

RecalculationEarly(step) ==
  <<"readStylist">> \o <<step>> \o <<"writeStylist", "readService", "writeService">>

-----------------------------------------------------------------------------
(* Requests.                                                                *)

ReviewRequest(r, todo, b) ==
  /\ Accept(r, [todo |-> todo, reviewed |-> b, seen |-> {}])
  /\ UNCHANGED <<reviewVars, phaseVars>>

\* A write, and the two ratings after it.
ThenRecalculate(step) ==
  <<step>> \o <<"readStylist", "writeStylist", "readService", "writeService">>

\* findByBookingId does not see a deleted review.
Reviewable(b) == booking[b].status = "COMPLETED" /\ review[b] # "shown"

CreateReview(r, b) ==
  /\ Reviewable(b)
  /\ ReviewRequest(r, ThenRecalculate("create"), b)

\* Whatever the state of the review.
DeleteReview(r, b) ==
  /\ review[b] # "none"
  /\ ReviewRequest(r, ThenRecalculate("hide"), b)

RestoreReview(r, b) ==
  /\ review[b] # "none"
  /\ ReviewRequest(r, ThenRecalculate("restore"), b)

-----------------------------------------------------------------------------
(* Calls.                                                                   *)

\* The unique index refuses a second review of the booking, deleted or not.  The
\* stylist is notified before the ratings are computed, which nothing here depends on.
InsertReview(r) ==
  /\ At(r, "create")
  /\ LET b == request[r].reviewed IN
     IF review[b] = "none"
     THEN review' = [review EXCEPT ![b] = "shown"] /\ Advance(r)
     ELSE Throw(r) /\ UNCHANGED review
  /\ UNCHANGED <<rating, phaseVars>>

SetDeleted(r) ==
  /\ \/ At(r, "hide") /\ review' = [review EXCEPT ![request[r].reviewed] = "deleted"]
     \/ At(r, "restore") /\ review' = [review EXCEPT ![request[r].reviewed] = "shown"]
  /\ Advance(r)
  /\ UNCHANGED <<rating, phaseVars>>

\* getStylistRating and getServiceRating: one aggregation.
ReadRating(r) ==
  /\ LET b == request[r].reviewed IN
     \/ /\ At(r, "readStylist")
        /\ Continues(r, Rest([request[r] EXCEPT !.seen = Counts(StylistOf[b])]))
     \/ /\ At(r, "readService")
        /\ Continues(r, Rest([request[r] EXCEPT !.seen = Counts(ServiceOf[b])]))
  /\ UNCHANGED <<reviewVars, phaseVars>>

WriteRating(r) ==
  /\ LET b == request[r].reviewed IN
     \/ At(r, "writeStylist") /\ rating' = [rating EXCEPT ![StylistOf[b]] = request[r].seen]
     \/ At(r, "writeService") /\ rating' = [rating EXCEPT ![ServiceOf[b]] = request[r].seen]
  /\ Advance(r)
  /\ UNCHANGED <<review, phaseVars>>

OfReview(r) == request[r] # Idle /\ "reviewed" \in DOMAIN request[r]

ReviewFails(r) == OfReview(r) /\ Cut(r) /\ UNCHANGED <<reviewVars, phaseVars>>

ReviewBegins(r) == \E b \in Bookings : CreateReview(r, b) \/ DeleteReview(r, b) \/ RestoreReview(r, b)

ReviewGoesOn(r) ==
  InsertReview(r) \/ SetDeleted(r) \/ ReadRating(r) \/ WriteRating(r)

-----------------------------------------------------------------------------
(* Properties.                                                              *)

\* The rating of x is yet to be written by a handler in progress.
ToBeWritten(x) ==
  \E r \in Requests :
    /\ OfReview(r)
    /\ \E i \in 1 .. Len(request[r].todo) :
         <<request[r].todo[i], x>> \in
           {<<"writeStylist", StylistOf[request[r].reviewed]>>,
            <<"writeService", ServiceOf[request[r].reviewed]>>}

\* The ratings of stylists and services count the reviews that are shown, however
\* often reviews are deleted and restored, or are about to: only handlers that
\* overlapped, or one that was cut short between its writes, leave a rating behind
\* the reviews (createReview, deleteReview, restoreReview).
RatingsAddUp ==
  \A x \in Rated : rating[x] = Counts(x) \/ ToBeWritten(x) \/ overlapped \/ faults > 0
=============================================================================
