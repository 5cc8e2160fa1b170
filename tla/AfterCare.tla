------------------------------ MODULE AfterCare ------------------------------
(***************************************************************************)
(* What follows an appointment: its end, the chat of the two people it     *)
(* brought together, the reviews.  Handlers of all three interleave, and   *)
(* the chat and the reviews read the bookings the first ones write.        *)
(***************************************************************************)
EXTENDS ChatRooms, Reviews

ASSUME SamePeople ==
  \A b, c \in Bookings : PairOf[b] = PairOf[c] => StylistOf[b] = StylistOf[c]

vars == <<handlerVars, phaseVars, chatVars, reviewVars>>

AfterCareTypeOK ==
  /\ HandlersTypeOK /\ PhasesTypeOK /\ ChatTypeOK /\ ReviewsTypeOK
  /\ request \in [Requests -> {Idle} \cup PhaseLocal \cup ChatLocal \cup ReviewLocal]

Init == HandlersInit /\ PhasesInit /\ ChatInit /\ ReviewsInit

PhasesNext ==
  \/ \E r \in Requests : PhaseBegins(r) \/ WritePhase(r) \/ PhaseFails(r)
  \/ \E b \in Bookings : DayPasses(b)

ReviewsNext == \E r \in Requests : ReviewBegins(r) \/ ReviewGoesOn(r) \/ ReviewFails(r)

Next ==
  \/ PhasesNext /\ UNCHANGED <<chatVars, reviewVars>>
  \/ ChatNext /\ UNCHANGED reviewVars
  \/ ReviewsNext /\ UNCHANGED chatVars

Spec == Init /\ [][Next]_vars

\* node-cron starts the job every hour, and Node resumes every handler whose
\* awaited call has come back; nothing obliges people to write or to review.
FairSpec ==
  /\ Spec
  /\ WF_vars(Job /\ UNCHANGED reviewVars)
  /\ \A r \in Requests :
       WF_vars(\/ WritePhase(r) /\ UNCHANGED <<chatVars, reviewVars>>
               \/ ChatGoesOn(r) /\ UNCHANGED reviewVars
               \/ ReviewGoesOn(r) /\ UNCHANGED chatVars)
=============================================================================
