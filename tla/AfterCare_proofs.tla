--------------------------- MODULE AfterCare_proofs ---------------------------
(***************************************************************************)
(* Proofs about AfterCare: its types, that a closed room is that of a      *)
(* booking that was over, and that ratings count the reviews.              *)
(***************************************************************************)
EXTENDS AfterCare, SequenceTheorems, TLAPS

-----------------------------------------------------------------------------
(* What handlers carry: the calls they may have left.                       *)

OpeningTodos == {<<"createRoom">>, <<"reopen">>}
WritingTodos ==
  {<<"findRoom", "expiry", "persist", "last">>, <<"expiry", "persist", "last">>,
   <<"persist", "last">>, <<"last">>, <<"findRoom", "expiry">>, <<"expiry">>, <<"closeRoom">>}

\* A review that is about to be written, and the ratings left after it.
Both == <<"readStylist", "writeStylist", "readService", "writeService">>
StylistRead == <<"writeStylist", "readService", "writeService">>
ServiceOnly == <<"readService", "writeService">>
ServiceRead == <<"writeService">>
RatingTodos == {Both, StylistRead, ServiceOnly, ServiceRead}
FirstTodos ==
  {<<"create", "readStylist", "writeStylist", "readService", "writeService">>,
   <<"hide", "readStylist", "writeStylist", "readService", "writeService">>,
   <<"restore", "readStylist", "writeStylist", "readService", "writeService">>}

OpeningLocal ==
  {local \in [todo : OpeningTodos, pair : Pairs, booking : Bookings, side : Sides, number : Nat] :
     PairOf[local.booking] = local.pair}
WritingLocal ==
  [todo : WritingTodos, pair : Pairs, booking : Bookings \cup {None}, side : Sides, number : Nat]
RatingLocal ==
  [todo : FirstTodos \cup RatingTodos, reviewed : Bookings, seen : SUBSET Bookings]
Locals == PhaseLocal \cup OpeningLocal \cup WritingLocal \cup RatingLocal

Shaped == request \in [Requests -> {Idle} \cup Locals]

\* A room there is names a booking of its two people; handlers and the job deal
\* with rooms there are.
Exists(p) == room[p].status # "NONE"
RoomsKnown ==
  \A p \in Pairs :
    /\ ~Exists(p) => room[p] = NoRoom
    /\ Exists(p) => room[p].booking \in Bookings /\ PairOf[room[p].booking] = p
Met(r) == request[r] \in WritingLocal => Exists(request[r].pair)
WritersMet == \A r \in Requests : Met(r)
JobMet == \A p \in job.rooms : Exists(p)

Types == HandlersTypeOK /\ PhasesTypeOK /\ ChatTypeOK /\ ReviewsTypeOK /\ Shaped
TypeInv == Types /\ RoomsKnown /\ WritersMet /\ JobMet

-----------------------------------------------------------------------------
(* Calls and what is left after them.                                       *)

LEMMA OpeningHeads ==
  \A todo \in OpeningTodos : Head(todo) \in {"createRoom", "reopen"} /\ Len(todo) = 1
<1>1. /\ Head(<<"createRoom">>) = "createRoom" /\ Len(<<"createRoom">>) = 1
      /\ Head(<<"reopen">>) = "reopen" /\ Len(<<"reopen">>) = 1
  OBVIOUS
<1> QED
  BY <1>1, Zenon DEF OpeningTodos

LEMMA WritingHeads ==
  ASSUME NEW todo \in WritingTodos
  PROVE  /\ Head(todo) \in {"findRoom", "expiry", "persist", "last", "closeRoom"}
         /\ Len(todo) = 1 \/ (Len(todo) # 1 /\ Tail(todo) \in WritingTodos)
<1>1. /\ Head(<<"findRoom", "expiry", "persist", "last">>) = "findRoom"
      /\ Head(<<"expiry", "persist", "last">>) = "expiry"
      /\ Head(<<"persist", "last">>) = "persist"
      /\ Head(<<"last">>) = "last" /\ Head(<<"findRoom", "expiry">>) = "findRoom"
      /\ Head(<<"expiry">>) = "expiry" /\ Head(<<"closeRoom">>) = "closeRoom"
  OBVIOUS
<1>2. /\ Len(<<"findRoom", "expiry", "persist", "last">>) # 1
      /\ Tail(<<"findRoom", "expiry", "persist", "last">>) = <<"expiry", "persist", "last">>
      /\ Len(<<"expiry", "persist", "last">>) # 1
      /\ Tail(<<"expiry", "persist", "last">>) = <<"persist", "last">>
      /\ Len(<<"persist", "last">>) # 1 /\ Tail(<<"persist", "last">>) = <<"last">>
      /\ Len(<<"last">>) = 1 /\ Len(<<"expiry">>) = 1 /\ Len(<<"closeRoom">>) = 1
      /\ Len(<<"findRoom", "expiry">>) # 1 /\ Tail(<<"findRoom", "expiry">>) = <<"expiry">>
  OBVIOUS
<1>3. Head(todo) \in {"findRoom", "expiry", "persist", "last", "closeRoom"}
  BY <1>1, Zenon DEF WritingTodos
<1>4. Len(todo) = 1 \/ (Len(todo) # 1 /\ Tail(todo) \in WritingTodos)
  BY <1>2, Zenon DEF WritingTodos
<1> QED
  BY <1>3, <1>4

\* Which call comes next, where it matters.
LEMMA WritingNext ==
  ASSUME NEW todo \in WritingTodos
  PROVE  /\ Head(todo) = "findRoom" => Len(todo) # 1 /\ Head(Tail(todo)) = "expiry"
         /\ Head(todo) = "expiry" /\ Len(todo) # 1 => Head(Tail(todo)) = "persist"
         /\ Head(todo) = "persist" => Len(todo) # 1 /\ Head(Tail(todo)) = "last"
         /\ Head(todo) \in {"last", "closeRoom"} => Len(todo) = 1
<1>1. CASE todo = <<"findRoom", "expiry", "persist", "last">>
  BY <1>1
<1>2. CASE todo = <<"expiry", "persist", "last">>
  BY <1>2
<1>3. CASE todo = <<"persist", "last">>
  BY <1>3
<1>4. CASE todo = <<"findRoom", "expiry">>
  BY <1>4
<1>5. CASE todo \in {<<"last">>, <<"expiry">>, <<"closeRoom">>}
  BY <1>5
<1> QED
  BY <1>1, <1>2, <1>3, <1>4, <1>5 DEF WritingTodos

LEMMA RatingCalls ==
  /\ Head(Both) = "readStylist" /\ Len(Both) # 1 /\ Tail(Both) = StylistRead
  /\ Head(StylistRead) = "writeStylist" /\ Len(StylistRead) # 1 /\ Tail(StylistRead) = ServiceOnly
  /\ Head(ServiceOnly) = "readService" /\ Len(ServiceOnly) # 1 /\ Tail(ServiceOnly) = ServiceRead
  /\ Head(ServiceRead) = "writeService" /\ Len(ServiceRead) = 1
BY DEF Both, StylistRead, ServiceOnly, ServiceRead

LEMMA FirstCalls ==
  ASSUME NEW todo \in FirstTodos
  PROVE  Head(todo) \in {"create", "hide", "restore"} /\ Len(todo) # 1 /\ Tail(todo) = Both
<1>1. CASE todo = <<"create", "readStylist", "writeStylist", "readService", "writeService">>
  BY <1>1 DEF Both
<1>2. CASE todo = <<"hide", "readStylist", "writeStylist", "readService", "writeService">>
  BY <1>2 DEF Both
<1>3. CASE todo = <<"restore", "readStylist", "writeStylist", "readService", "writeService">>
  BY <1>3 DEF Both
<1> QED
  BY <1>1, <1>2, <1>3 DEF FirstTodos

\* The call tells what is left of a review's handler.
LEMMA RatingHeads ==
  ASSUME NEW todo \in FirstTodos \cup RatingTodos
  PROVE  /\ Head(todo) \in {"create", "hide", "restore"} <=> todo \in FirstTodos
         /\ Head(todo) = "readStylist" <=> todo = Both
         /\ Head(todo) = "writeStylist" <=> todo = StylistRead
         /\ Head(todo) = "readService" <=> todo = ServiceOnly
         /\ Head(todo) = "writeService" <=> todo = ServiceRead
<1>1. CASE todo \in FirstTodos
  <2>1. Head(todo) \in {"create", "hide", "restore"}
    BY <1>1, FirstCalls
  <2>2. /\ Head(todo) # "readStylist" /\ Head(todo) # "writeStylist"
        /\ Head(todo) # "readService" /\ Head(todo) # "writeService"
    BY <2>1
  <2>3. todo # Both /\ todo # StylistRead /\ todo # ServiceOnly /\ todo # ServiceRead
    BY <2>2, RatingCalls
  <2> QED
    BY <1>1, <2>1, <2>2, <2>3
<1>2. CASE todo \in RatingTodos
  <2>1. todo \notin FirstTodos
    BY <1>2, FirstCalls, RatingCalls DEF RatingTodos
  <2> QED
    BY <1>2, <2>1, RatingCalls DEF RatingTodos
<1> QED
  BY <1>1, <1>2

LEMMA RecalculationCalls ==
  ASSUME NEW step \in {"create", "hide", "restore"}
  PROVE  ThenRecalculate(step) \in FirstTodos
<1> DEFINE rest == <<"readStylist", "writeStylist", "readService", "writeService">>
           all == <<step, "readStylist", "writeStylist", "readService", "writeService">>
           S == ReviewSteps
<1>1. <<step>> \in Seq(S) /\ rest \in Seq(S) /\ all \in Seq(S)
  BY DEF ReviewSteps, RateSteps
<1>2. Len(<<step>>) = 1 /\ Len(rest) = 4 /\ Len(all) = 5
  OBVIOUS
<1>3. /\ <<step>> \o rest \in Seq(S)
      /\ Len(<<step>> \o rest) = Len(<<step>>) + Len(rest)
      /\ \A i \in 1 .. Len(<<step>>) + Len(rest) :
           (<<step>> \o rest)[i] = IF i <= Len(<<step>>) THEN <<step>>[i] ELSE rest[i - Len(<<step>>)]
  <2> HIDE DEF rest, S
  <2> QED
    BY <1>1, ConcatProperties, Zenon
<1>4. ASSUME NEW i \in 1 .. 5
      PROVE  (<<step>> \o rest)[i] = all[i]
  <2>1. (<<step>> \o rest)[i] = IF i <= 1 THEN <<step>>[i] ELSE rest[i - 1]
    <3> HIDE DEF rest
    <3> QED
      BY <1>2, <1>3
  <2>2. IF i <= 1 THEN <<step>>[i] = all[i] ELSE rest[i - 1] = all[i]
    OBVIOUS
  <2> QED
    BY <2>1, <2>2
<1>5. <<step>> \o rest = all
  <2>1. Len(<<step>> \o rest) = 5
    BY <1>2, <1>3
  <2> HIDE DEF rest, all, S
  <2> QED
    BY <1>1, <1>2, <1>3, <1>4, <2>1, SeqEqual
<1> QED
  BY <1>5 DEF ThenRecalculate, FirstTodos

-----------------------------------------------------------------------------
(* Where a handler is, and what it carries then.                            *)

LEMMA IdleHasNothing ==
  /\ Idle.todo = <<>>
  /\ \A local \in Locals : local # Idle
<1>1. /\ "ends" \notin DOMAIN Idle /\ "pair" \notin DOMAIN Idle /\ "reviewed" \notin DOMAIN Idle
      /\ Idle.todo = <<>>
  BY DEF Idle
<1>2. \A local \in PhaseLocal : "ends" \in DOMAIN local
  BY DEF PhaseLocal
<1>3. \A local \in OpeningLocal \cup WritingLocal : "pair" \in DOMAIN local
  BY DEF OpeningLocal, WritingLocal
<1>4. \A local \in RatingLocal : "reviewed" \in DOMAIN local
  BY DEF RatingLocal
<1> QED
  BY <1>1, <1>2, <1>3, <1>4 DEF Locals

LEMMA PhaseTodo ==
  ASSUME NEW local \in PhaseLocal
  PROVE  Head(local.todo) = "write" /\ Len(local.todo) = 1
<1>1. local.todo = <<"write">>
  BY DEF PhaseLocal
<1> QED
  BY <1>1

LEMMA Carrying ==
  ASSUME Shaped, NEW r \in Requests, request[r] # Idle
  PROVE  /\ request[r] \in Locals
         /\ Head(request[r].todo) = "write" => request[r] \in PhaseLocal
         /\ Head(request[r].todo) \in {"createRoom", "reopen"} => request[r] \in OpeningLocal
         /\ Head(request[r].todo) \in {"findRoom", "expiry", "persist", "last", "closeRoom"}
              => request[r] \in WritingLocal
         /\ Head(request[r].todo) \in ReviewSteps => request[r] \in RatingLocal
<1>1. request[r] \in Locals
  BY DEF Shaped
<1>2. CASE request[r] \in PhaseLocal
  <2>1. Head(request[r].todo) = "write"
    BY <1>2, PhaseTodo
  <2> QED
    BY <1>1, <1>2, <2>1 DEF ReviewSteps, RateSteps
<1>3. CASE request[r] \in OpeningLocal
  <2>1. Head(request[r].todo) \in {"createRoom", "reopen"}
    BY <1>3, OpeningHeads DEF OpeningLocal
  <2> QED
    BY <1>1, <1>3, <2>1 DEF ReviewSteps, RateSteps
<1>4. CASE request[r] \in WritingLocal
  <2>1. Head(request[r].todo) \in {"findRoom", "expiry", "persist", "last", "closeRoom"}
    BY <1>4, WritingHeads DEF WritingLocal
  <2> QED
    BY <1>1, <1>4, <2>1 DEF ReviewSteps, RateSteps
<1>5. CASE request[r] \in RatingLocal
  <2>1. request[r].todo \in FirstTodos \cup RatingTodos
    BY <1>5 DEF RatingLocal
  <2>2. Head(request[r].todo) \in
          {"create", "hide", "restore", "readStylist", "writeStylist", "readService", "writeService"}
    BY <2>1, FirstCalls, RatingCalls DEF RatingTodos
  <2> QED
    BY <1>1, <1>5, <2>2
<1> QED
  BY <1>1, <1>2, <1>3, <1>4, <1>5 DEF Locals

LEMMA LocalsApart ==
  ASSUME NEW local \in PhaseLocal \cup OpeningLocal \cup RatingLocal \cup {Idle}
  PROVE  local \notin WritingLocal
<1>1. \A w \in WritingLocal :
        Head(w.todo) \in {"findRoom", "expiry", "persist", "last", "closeRoom"}
  BY WritingHeads DEF WritingLocal
<1>2. CASE local \in PhaseLocal
  BY <1>1, <1>2, PhaseTodo
<1>3. CASE local \in OpeningLocal
  <2>1. Head(local.todo) \in {"createRoom", "reopen"}
    BY <1>3, OpeningHeads DEF OpeningLocal
  <2> QED
    BY <1>1, <2>1
<1>4. CASE local \in RatingLocal
  <2>1. local.todo \in FirstTodos \cup RatingTodos
    BY <1>4 DEF RatingLocal
  <2>2. Head(local.todo) \in
          {"create", "hide", "restore", "readStylist", "writeStylist", "readService", "writeService"}
    BY <2>1, FirstCalls, RatingCalls DEF RatingTodos
  <2> QED
    BY <1>1, <2>2
<1> QED
  BY <1>2, <1>3, <1>4, IdleHasNothing DEF Locals

\* A record with other calls left, or something else noted.
LEMMA WritingChanged ==
  ASSUME NEW local \in WritingLocal, NEW next
  PROVE  /\ \A todo \in WritingTodos :
              next = [local EXCEPT !.todo = todo] =>
                /\ next \in WritingLocal /\ next.todo = todo
                /\ next.pair = local.pair /\ next.booking = local.booking
         /\ \A b \in Bookings \cup {None} :
              next = [local EXCEPT !.booking = b] =>
                /\ next \in WritingLocal /\ next.todo = local.todo
                /\ next.pair = local.pair /\ next.booking = b
BY DEF WritingLocal

LEMMA RatingChanged ==
  ASSUME NEW local \in RatingLocal, NEW next
  PROVE  /\ \A todo \in FirstTodos \cup RatingTodos :
              next = [local EXCEPT !.todo = todo] =>
                /\ next \in RatingLocal /\ next.todo = todo
                /\ next.reviewed = local.reviewed /\ next.seen = local.seen
         /\ \A seen \in SUBSET Bookings :
              next = [local EXCEPT !.seen = seen] =>
                /\ next \in RatingLocal /\ next.todo = local.todo
                /\ next.reviewed = local.reviewed /\ next.seen = seen
BY DEF RatingLocal

\* What is left after a call.
LEMMA RestShort ==
  /\ \A local \in PhaseLocal : Rest(local) = Idle
  /\ \A local \in OpeningLocal : Rest(local) = Idle
<1>1. ASSUME NEW local \in PhaseLocal
      PROVE  Rest(local) = Idle
  BY PhaseTodo DEF Rest
<1>2. ASSUME NEW local \in OpeningLocal
      PROVE  Rest(local) = Idle
  <2>1. local.todo \in OpeningTodos
    BY DEF OpeningLocal
  <2> QED
    BY <2>1, OpeningHeads DEF Rest
<1> QED
  BY <1>1, <1>2

LEMMA RestWriting ==
  ASSUME NEW local \in WritingLocal
  PROVE  /\ Rest(local) \in {Idle} \cup WritingLocal
         /\ Head(local.todo) = "findRoom" =>
              /\ Rest(local) \in WritingLocal /\ Head(Rest(local).todo) = "expiry"
              /\ Rest(local).pair = local.pair /\ Rest(local).booking = local.booking
         /\ Head(local.todo) # "findRoom" =>
              \/ Rest(local) = Idle
              \/ /\ Head(Rest(local).todo) \in {"persist", "last"}
                 /\ Rest(local).pair = local.pair
<1>1. local.todo \in WritingTodos
  BY DEF WritingLocal
<1>2. CASE Len(local.todo) = 1
  BY <1>1, <1>2, WritingNext DEF Rest
<1>3. CASE Len(local.todo) # 1
  <2>1. Tail(local.todo) \in WritingTodos
    BY <1>1, <1>3, WritingHeads
  <2>2. Rest(local) = [local EXCEPT !.todo = Tail(local.todo)]
    BY <1>3 DEF Rest
  <2>3. /\ Rest(local) \in WritingLocal /\ Rest(local).todo = Tail(local.todo)
        /\ Rest(local).pair = local.pair /\ Rest(local).booking = local.booking
    BY <2>1, <2>2, WritingChanged
  <2>4. /\ Head(local.todo) = "findRoom" => Head(Tail(local.todo)) = "expiry"
        /\ Head(local.todo) # "findRoom" => Head(Tail(local.todo)) \in {"persist", "last"}
    BY <1>1, <1>3, WritingHeads, WritingNext
  <2> QED
    BY <2>3, <2>4
<1> QED
  BY <1>2, <1>3

LEMMA RestRating ==
  ASSUME NEW local \in RatingLocal
  PROVE  /\ Rest(local) \in {Idle} \cup RatingLocal
         /\ Head(local.todo) # "writeService" =>
              /\ Rest(local) \in RatingLocal
              /\ Rest(local).reviewed = local.reviewed /\ Rest(local).seen = local.seen
         /\ Head(local.todo) \in {"create", "hide", "restore"} =>
              Head(Rest(local).todo) = "readStylist"
         /\ Head(local.todo) = "readStylist" => Head(Rest(local).todo) = "writeStylist"
         /\ Head(local.todo) = "writeStylist" => Head(Rest(local).todo) = "readService"
         /\ Head(local.todo) = "readService" => Head(Rest(local).todo) = "writeService"
         /\ Head(local.todo) = "writeService" => Rest(local) = Idle
<1>1. local.todo \in FirstTodos \cup RatingTodos
  BY DEF RatingLocal
<1>2. CASE local.todo = ServiceRead
  BY <1>2, RatingCalls DEF Rest
<1>3. CASE local.todo # ServiceRead
  <2>1. /\ Len(local.todo) # 1 /\ Tail(local.todo) \in RatingTodos
        /\ Head(local.todo) # "writeService"
    BY <1>1, <1>3, FirstCalls, RatingCalls DEF RatingTodos
  <2>2. Rest(local) = [local EXCEPT !.todo = Tail(local.todo)]
    BY <2>1 DEF Rest
  <2>3. /\ Rest(local) \in RatingLocal /\ Rest(local).todo = Tail(local.todo)
        /\ Rest(local).reviewed = local.reviewed /\ Rest(local).seen = local.seen
    BY <2>1, <2>2, RatingChanged
  <2>4. /\ Head(local.todo) \in {"create", "hide", "restore"} => Tail(local.todo) = Both
        /\ Head(local.todo) = "readStylist" => Tail(local.todo) = StylistRead
        /\ Head(local.todo) = "writeStylist" => Tail(local.todo) = ServiceOnly
        /\ Head(local.todo) = "readService" => Tail(local.todo) = ServiceRead
    BY <1>1, RatingHeads, FirstCalls, RatingCalls
  <2> QED
    BY <2>1, <2>3, <2>4, RatingCalls
<1> QED
  BY <1>2, <1>3

-----------------------------------------------------------------------------
(* Types.                                                                   *)

LEMMA TypesFollow == TypeInv => AfterCareTypeOK
<1>1. PhaseLocal \cup WritingLocal \subseteq PhaseLocal \cup ChatLocal
  <2>1. WritingTodos \subseteq Seq(ChatSteps) \ {<<>>}
    <3>1. \A todo \in WritingTodos : todo # <<>>
      BY DEF WritingTodos
    <3>2. WritingTodos \subseteq Seq(ChatSteps)
      BY DEF WritingTodos, ChatSteps
    <3> QED
      BY <3>1, <3>2
  <2> QED
    BY <2>1 DEF WritingLocal, ChatLocal
<1>2. OpeningLocal \subseteq ChatLocal
  <2>1. OpeningTodos \subseteq Seq(ChatSteps) \ {<<>>}
    <3>1. \A todo \in OpeningTodos : todo # <<>>
      BY DEF OpeningTodos
    <3>2. OpeningTodos \subseteq Seq(ChatSteps)
      BY DEF OpeningTodos, ChatSteps
    <3> QED
      BY <3>1, <3>2
  <2> QED
    BY <2>1 DEF OpeningLocal, ChatLocal
<1>3. RatingLocal \subseteq ReviewLocal
  <2>1. FirstTodos \cup RatingTodos \subseteq Seq(ReviewSteps) \ {<<>>}
    <3>1. \A todo \in FirstTodos \cup RatingTodos : todo # <<>>
      BY DEF FirstTodos, RatingTodos, Both, StylistRead, ServiceOnly, ServiceRead
    <3>2. FirstTodos \subseteq Seq(ReviewSteps)
      BY DEF FirstTodos, ReviewSteps, RateSteps
    <3>3. RatingTodos \subseteq Seq(ReviewSteps)
      BY DEF RatingTodos, Both, StylistRead, ServiceOnly, ServiceRead, ReviewSteps, RateSteps
    <3> QED
      BY <3>1, <3>2, <3>3
  <2> QED
    BY <2>1 DEF RatingLocal, ReviewLocal
<1>4. Locals \subseteq PhaseLocal \cup ChatLocal \cup ReviewLocal
  BY <1>1, <1>2, <1>3 DEF Locals
<1> QED
  BY <1>4 DEF TypeInv, Types, Shaped, AfterCareTypeOK

LEMMA Begun ==
  ASSUME TypeInv, NEW r \in Requests, NEW local \in Locals, Accept(r, local)
  PROVE  HandlersTypeOK' /\ Shaped'
<1>1. HandlersTypeOK'
  BY DEF TypeInv, Types, HandlersTypeOK, Accept, Counted
<1>2. Shaped'
  BY DEF TypeInv, Types, Shaped, Accept, Locals, PhaseLocal, OpeningLocal, WritingLocal, RatingLocal
<1> QED
  BY <1>1, <1>2

LEMMA Continued ==
  ASSUME TypeInv, NEW r \in Requests, NEW local \in {Idle} \cup Locals, Continues(r, local)
  PROVE  HandlersTypeOK' /\ Shaped'
<1>1. HandlersTypeOK'
  BY DEF TypeInv, Types, HandlersTypeOK, Continues
<1>2. Shaped'
  BY DEF TypeInv, Types, Shaped, Continues
<1> QED
  BY <1>1, <1>2

LEMMA CutShort ==
  ASSUME TypeInv, NEW r \in Requests, Cut(r)
  PROVE  HandlersTypeOK' /\ Shaped'
<1>1. HandlersTypeOK'
  BY DEF TypeInv, Types, HandlersTypeOK, Cut
<1>2. Shaped'
  BY DEF TypeInv, Types, Shaped, Cut
<1> QED
  BY <1>1, <1>2

\* A call after which the handler goes on as it is, or ends.
LEMMA Advanced ==
  ASSUME TypeInv, NEW r \in Requests, request[r] # Idle, Advance(r) \/ Throw(r)
  PROVE  HandlersTypeOK' /\ Shaped'
<1>1. request[r] \in Locals
  BY DEF TypeInv, Types, Shaped
<1>2. Rest(request[r]) \in {Idle} \cup Locals
  BY <1>1, RestShort, RestWriting, RestRating DEF Locals
<1> QED
  BY <1>2, Continued DEF Advance, Throw

LEMMA PhaseRequests ==
  ASSUME NEW b \in Bookings, NEW status \in {"CONFIRMED", "COMPLETED", "CANCELLED"},
         NEW dated \in {"nothing", "completedAt", "cancelledAt"}
  PROVE  [todo |-> <<"write">>, ends |-> b, sets |-> status, dates |-> dated] \in Locals
BY DEF Locals, PhaseLocal

\* Aged is not expanded when a record's type is all that matters.
LEMMA AgedTypes == \A age \in Age : Aged(age) \in Age
BY DEF Aged, Age

LEMMA PhasesTypes ==
  ASSUME TypeInv, PhasesNext
  PROVE  HandlersTypeOK' /\ Shaped' /\ PhasesTypeOK'
<1>1. ASSUME NEW r \in Requests, PhaseBegins(r)
      PROVE  HandlersTypeOK' /\ Shaped' /\ PhasesTypeOK'
  <2>1. PICK b \in Bookings :
          \/ \E status \in {"CONFIRMED", "COMPLETED", "CANCELLED"} : UpdateBookingStatus(r, b, status)
          \/ CancelBooking(r, b)
    BY <1>1 DEF PhaseBegins
  <2>2. PICK status \in {"CONFIRMED", "COMPLETED", "CANCELLED"},
             dated \in {"nothing", "completedAt", "cancelledAt"} : PhaseRequest(r, b, status, dated)
    BY <2>1 DEF UpdateBookingStatus, CancelBooking
  <2>3. HandlersTypeOK' /\ Shaped'
    BY <2>2, PhaseRequests, Begun DEF PhaseRequest
  <2> QED
    BY <2>2, <2>3 DEF PhaseRequest, phaseVars, TypeInv, Types, PhasesTypeOK
<1>2. ASSUME NEW r \in Requests, WritePhase(r)
      PROVE  HandlersTypeOK' /\ Shaped' /\ PhasesTypeOK'
  <2>1. HandlersTypeOK' /\ Shaped'
    BY <1>2, Advanced DEF WritePhase, At
  <2>2. request[r] \in PhaseLocal
    BY <1>2, Carrying DEF WritePhase, At, TypeInv, Types
  <2>3. request[r].ends \in Bookings /\ request[r].sets \in {"CONFIRMED", "COMPLETED", "CANCELLED"}
    BY <2>2 DEF PhaseLocal
  <2>4. PICK completed \in Age, cancelled \in Age :
          Becomes(request[r].ends, [status |-> request[r].sets, completedAt |-> completed,
                                    cancelledAt |-> cancelled])
    BY <1>2, <2>3 DEF WritePhase, TypeInv, Types, PhasesTypeOK, BookingEnd, Age
  <2>5. PhasesTypeOK'
    BY <2>3, <2>4 DEF Becomes, TypeInv, Types, PhasesTypeOK, BookingEnd
  <2> QED
    BY <2>1, <2>5
<1>3. ASSUME NEW r \in Requests, PhaseFails(r)
      PROVE  HandlersTypeOK' /\ Shaped' /\ PhasesTypeOK'
  BY <1>3, CutShort DEF PhaseFails, phaseVars, TypeInv, Types, PhasesTypeOK
<1>4. ASSUME NEW b \in Bookings, DayPasses(b)
      PROVE  HandlersTypeOK' /\ Shaped' /\ PhasesTypeOK'
  <2>1. HandlersTypeOK' /\ Shaped'
    BY <1>4 DEF DayPasses, handlerVars, TypeInv, Types, HandlersTypeOK, Shaped
  <2>2. PICK completed \in Age, cancelled \in Age :
          Becomes(b, [booking[b] EXCEPT !.completedAt = completed, !.cancelledAt = cancelled])
    <3>1. booking[b].completedAt \in Age /\ booking[b].cancelledAt \in Age
      BY DEF TypeInv, Types, PhasesTypeOK, BookingEnd
    <3> QED
      BY <1>4, <3>1, AgedTypes DEF DayPasses
  <2>3. PhasesTypeOK'
    BY <2>2 DEF Becomes, TypeInv, Types, PhasesTypeOK, BookingEnd
  <2> QED
    BY <2>1, <2>3
<1> QED
  BY <1>1, <1>2, <1>3, <1>4 DEF PhasesNext

\* The bookings stay as they are.
LEMMA PhasesStay ==
  ASSUME TypeInv, UNCHANGED phaseVars
  PROVE  PhasesTypeOK'
BY DEF TypeInv, Types, PhasesTypeOK, phaseVars

LEMMA RoomKept ==
  ASSUME NEW doc \in RoomRecord, NEW n \in Nat
  PROVE  /\ [doc EXCEPT !.status = "OPEN"] \in RoomRecord
         /\ [doc EXCEPT !.status = "CLOSED"] \in RoomRecord
         /\ [doc EXCEPT !.newest = n] \in RoomRecord
         /\ [doc EXCEPT !.preview = n] \in RoomRecord
         /\ \A b \in Bookings : [doc EXCEPT !.status = "OPEN", !.booking = b] \in RoomRecord
BY DEF RoomRecord

\* What a room is opened for.
LEMMA OpensKnown ==
  ASSUME TypeInv, NEW r \in Requests, At(r, "createRoom") \/ At(r, "reopen")
  PROVE  /\ request[r].pair \in Pairs /\ request[r].booking \in Bookings
         /\ PairOf[request[r].booking] = request[r].pair
         /\ request[r] \in OpeningLocal
<1>1. request[r] \in OpeningLocal
  BY Carrying DEF At, TypeInv, Types
<1> QED
  BY <1>1 DEF OpeningLocal

LEMMA OpenedTypes ==
  ASSUME TypeInv, NEW r \in Requests, At(r, "createRoom") \/ At(r, "reopen"), Opened(r)
  PROVE  HandlersTypeOK' /\ Shaped' /\ ChatTypeOK' /\ PhasesTypeOK'
<1> DEFINE p == request[r].pair
           b == request[r].booking
<1>1. p \in Pairs /\ b \in Bookings
  BY OpensKnown
<1>2. room' = [room EXCEPT ![p] = [room[p] EXCEPT !.status = "OPEN", !.booking = b]]
  BY DEF Opened
<1>3. [room[p] EXCEPT !.status = "OPEN", !.booking = b] \in RoomRecord
  BY <1>1, RoomKept DEF TypeInv, Types, ChatTypeOK
<1>4. room' \in [Pairs -> RoomRecord]
  BY <1>2, <1>3 DEF TypeInv, Types, ChatTypeOK
<1>5. crossed' \subseteq Bookings
  BY <1>1 DEF Opened, TypeInv, Types, ChatTypeOK
<1>6. ChatTypeOK'
  BY <1>4, <1>5 DEF Opened, TypeInv, Types, ChatTypeOK
<1> QED
  BY <1>6, Advanced, PhasesStay DEF Opened, At

\* The handlers that write messages know a room of somebody.
LEMMA WritersKnown ==
  ASSUME TypeInv, NEW r \in Requests,
         \E s \in {"findRoom", "expiry", "persist", "last", "closeRoom"} : At(r, s)
  PROVE  /\ request[r] \in WritingLocal /\ request[r].pair \in Pairs
         /\ request[r].side \in Sides /\ request[r].number \in Nat
         /\ request[r].booking \in Bookings \cup {None}
<1>1. request[r] \in WritingLocal
  BY Carrying DEF At, TypeInv, Types
<1> QED
  BY <1>1 DEF WritingLocal

\* What begins in the chat.
LEMMA ChatRequests ==
  ASSUME NEW n \in Nat
  PROVE  /\ \A todo \in OpeningTodos, b \in Bookings :
              [todo |-> todo, pair |-> PairOf[b], booking |-> b, side |-> "customer", number |-> n]
                \in OpeningLocal
         /\ \A todo \in WritingTodos, p \in Pairs, s \in Sides :
              [todo |-> todo, pair |-> p, booking |-> None, side |-> s, number |-> n]
                \in WritingLocal
<1>1. ASSUME NEW todo \in OpeningTodos, NEW b \in Bookings
      PROVE  [todo |-> todo, pair |-> PairOf[b], booking |-> b, side |-> "customer", number |-> n]
               \in OpeningLocal
  BY PairsAssumption DEF OpeningLocal, Sides
<1>2. ASSUME NEW todo \in WritingTodos, NEW p \in Pairs, NEW s \in Sides
      PROVE  [todo |-> todo, pair |-> p, booking |-> None, side |-> s, number |-> n]
               \in WritingLocal
  BY DEF WritingLocal
<1> QED
  BY <1>1, <1>2

\* A handler of the chat begins with a room to open, or with one that is there.
LEMMA ChatBegun ==
  ASSUME TypeInv, NEW r \in Requests, ChatBegins(r)
  PROVE  \E local \in OpeningLocal \cup WritingLocal :
           /\ Accept(r, local) /\ UNCHANGED <<chatVars, phaseVars>>
           /\ local \in WritingLocal =>
                Head(local.todo) = "findRoom" /\ room[local.pair].status # "NONE"
           /\ local \in OpeningLocal => Head(local.todo) \in {"createRoom", "reopen"}
<1>0. accepted + 1 \in Nat /\ 0 \in Nat
  BY DEF TypeInv, Types, HandlersTypeOK
<1>1. ASSUME NEW b \in Bookings, FindOrCreateRoom(r, b)
      PROVE  \E local \in OpeningLocal :
               /\ Accept(r, local) /\ UNCHANGED <<chatVars, phaseVars>>
               /\ Head(local.todo) \in {"createRoom", "reopen"}
  <2>1. PICK todo \in OpeningTodos : ChatRequest(r, todo, PairOf[b], b, "customer", 0)
    BY <1>1 DEF FindOrCreateRoom, OpeningTodos
  <2> DEFINE local == [todo |-> todo, pair |-> PairOf[b], booking |-> b, side |-> "customer",
                       number |-> 0]
  <2>2. local \in OpeningLocal
    BY <1>0, ChatRequests
  <2>3. Head(local.todo) \in {"createRoom", "reopen"}
    BY OpeningHeads
  <2>4. Accept(r, local) /\ UNCHANGED <<chatVars, phaseVars>>
    BY <2>1 DEF ChatRequest
  <2> HIDE DEF local
  <2> QED
    BY <2>2, <2>3, <2>4
<1>2. ASSUME NEW p \in Pairs, UploadMedia(r, p) \/ \E s \in Sides : SendMessage(r, p, s)
      PROVE  \E local \in WritingLocal :
               /\ Accept(r, local) /\ UNCHANGED <<chatVars, phaseVars>>
               /\ Head(local.todo) = "findRoom" /\ room[local.pair].status # "NONE"
  <2>1. PICK todo \in WritingTodos, s \in Sides, n \in Nat :
          /\ ChatRequest(r, todo, p, None, s, n)
          /\ Head(todo) = "findRoom"
    <3>1. /\ WriteSteps \in WritingTodos /\ Head(WriteSteps) = "findRoom"
          /\ <<"findRoom", "expiry">> \in WritingTodos /\ Head(<<"findRoom", "expiry">>) = "findRoom"
          /\ "customer" \in Sides
      BY DEF WritingTodos, WriteSteps, Sides
    <3> QED
      BY <1>0, <1>2, <3>1 DEF UploadMedia, SendMessage
  <2>2. room[p].status # "NONE"
    BY <1>2 DEF UploadMedia, SendMessage, TypeInv, RoomsKnown, Exists
  <2> DEFINE local == [todo |-> todo, pair |-> p, booking |-> None, side |-> s, number |-> n]
  <2>3. local \in WritingLocal
    BY ChatRequests
  <2>4. Accept(r, local) /\ UNCHANGED <<chatVars, phaseVars>>
    BY <2>1 DEF ChatRequest
  <2>5. local.pair = p /\ local.todo = todo
    OBVIOUS
  <2> HIDE DEF local
  <2> QED
    BY <2>1, <2>2, <2>3, <2>4, <2>5
<1> QED
  BY <1>1, <1>2, LocalsApart DEF ChatBegins

LEMMA ChatTypes ==
  ASSUME TypeInv, ChatNext
  PROVE  HandlersTypeOK' /\ Shaped' /\ PhasesTypeOK' /\ ChatTypeOK'
<1> DEFINE Goal == HandlersTypeOK' /\ Shaped' /\ PhasesTypeOK' /\ ChatTypeOK'
<1>1. ASSUME NEW r \in Requests, ChatBegins(r)
      PROVE  Goal
  <2>1. PICK local \in OpeningLocal \cup WritingLocal :
          Accept(r, local) /\ UNCHANGED <<chatVars, phaseVars>>
    BY <1>1, ChatBegun
  <2>2. HandlersTypeOK' /\ Shaped'
    BY <2>1, Begun DEF Locals
  <2>3. ChatTypeOK'
    BY <2>1 DEF TypeInv, Types, ChatTypeOK, chatVars
  <2> QED
    BY <2>1, <2>2, <2>3, PhasesStay
<1>2. ASSUME NEW r \in Requests, CreateRoom(r) \/ Reopen(r)
      PROVE  Goal
  <2>1. CASE Opened(r)
    BY <1>2, <2>1, OpenedTypes DEF CreateRoom, Reopen
  <2>2. CASE Throw(r) /\ UNCHANGED <<chatVars, phaseVars>>
    <3>1. HandlersTypeOK' /\ Shaped'
      BY <1>2, <2>2, Advanced DEF CreateRoom, Reopen, At
    <3>2. ChatTypeOK'
      BY <2>2 DEF TypeInv, Types, ChatTypeOK, chatVars
    <3> QED
      BY <2>2, <3>1, <3>2, PhasesStay
  <2> QED
    BY <1>2, <2>1, <2>2 DEF CreateRoom, Reopen
<1>3. ASSUME NEW r \in Requests, FindRoom(r)
      PROVE  Goal
  <2> DEFINE found == [request[r] EXCEPT !.booking = room[request[r].pair].booking]
  <2>1. request[r] \in WritingLocal /\ request[r].pair \in Pairs
    BY <1>3, WritersKnown DEF FindRoom
  <2>2. room[request[r].pair].booking \in Bookings \cup {None}
    BY <2>1 DEF TypeInv, Types, ChatTypeOK, RoomRecord
  <2>3. found \in WritingLocal
    BY <2>1, <2>2, WritingChanged
  <2>4. Rest(found) \in {Idle} \cup Locals
    BY <2>3, RestWriting DEF Locals
  <2>5. Continues(r, Rest(found))
    BY <1>3 DEF FindRoom
  <2>6. HandlersTypeOK' /\ Shaped'
    BY <2>4, <2>5, Continued
  <2>7. ChatTypeOK'
    BY <1>3 DEF FindRoom, TypeInv, Types, ChatTypeOK, chatVars
  <2> QED
    BY <1>3, <2>6, <2>7, PhasesStay DEF FindRoom
<1>4. ASSUME NEW r \in Requests, VerifyExpiry(r)
      PROVE  Goal
  <2>1. request[r] \in WritingLocal
    BY <1>4, WritersKnown DEF VerifyExpiry
  <2>2. [request[r] EXCEPT !.todo = <<"closeRoom">>] \in WritingLocal
    BY <2>1, WritingChanged DEF WritingTodos
  <2>3. HandlersTypeOK' /\ Shaped'
    BY <1>4, <2>2, Continued, Advanced DEF VerifyExpiry, At, Locals
  <2>4. ChatTypeOK'
    BY <1>4 DEF VerifyExpiry, TypeInv, Types, ChatTypeOK, chatVars
  <2> QED
    BY <1>4, <2>3, <2>4, PhasesStay DEF VerifyExpiry
<1>5. ASSUME NEW r \in Requests, CloseRoom(r) \/ PersistMessage(r) \/ UpdateLastMessage(r)
      PROVE  Goal
  <2>1. /\ request[r].pair \in Pairs /\ request[r].side \in Sides /\ request[r].number \in Nat
    BY <1>5, WritersKnown DEF CloseRoom, PersistMessage, UpdateLastMessage
  <2>2. room[request[r].pair] \in RoomRecord /\ unread[request[r].pair] \in [Sides -> Nat]
    BY <2>1 DEF TypeInv, Types, ChatTypeOK
  <2>3. PICK doc \in RoomRecord : room' = [room EXCEPT ![request[r].pair] = doc]
    <3>1. CASE CloseRoom(r)
      <4>1. room' = [room EXCEPT ![request[r].pair] =
                       [room[request[r].pair] EXCEPT !.status = "CLOSED"]]
        BY <3>1 DEF CloseRoom
      <4> QED
        BY <2>2, <4>1, RoomKept
    <3>2. CASE PersistMessage(r)
      <4>1. room' = [room EXCEPT ![request[r].pair] =
                       [room[request[r].pair] EXCEPT !.newest = request[r].number]]
        BY <3>2 DEF PersistMessage
      <4> QED
        BY <2>1, <2>2, <4>1, RoomKept
    <3>3. CASE UpdateLastMessage(r)
      <4>1. room' = [room EXCEPT ![request[r].pair] =
                       [room[request[r].pair] EXCEPT !.preview = request[r].number]]
        BY <3>3 DEF UpdateLastMessage
      <4> QED
        BY <2>1, <2>2, <4>1, RoomKept
    <3> QED
      BY <1>5, <3>1, <3>2, <3>3
  <2>4. room' \in [Pairs -> RoomRecord]
    BY <2>3 DEF TypeInv, Types, ChatTypeOK
  <2>5. unread' \in [Pairs -> [Sides -> Nat]]
    <3>1. CASE PersistMessage(r)
      <4>1. unread' = [unread EXCEPT ![request[r].pair] =
              [unread[request[r].pair] EXCEPT ![request[r].side] = unread[request[r].pair][request[r].side] + 1]]
        BY <3>1 DEF PersistMessage
      <4>2. [unread[request[r].pair] EXCEPT ![request[r].side] = unread[request[r].pair][request[r].side] + 1]
              \in [Sides -> Nat]
        BY <2>1, <2>2
      <4> QED
        BY <4>1, <4>2 DEF TypeInv, Types, ChatTypeOK
    <3>2. CASE unread' = unread
      BY <3>2 DEF TypeInv, Types, ChatTypeOK
    <3> QED
      BY <1>5, <3>1, <3>2 DEF CloseRoom, UpdateLastMessage
  <2>6. ChatTypeOK'
    BY <1>5, <2>4, <2>5 DEF CloseRoom, PersistMessage, UpdateLastMessage, TypeInv, Types, ChatTypeOK
  <2>7. HandlersTypeOK' /\ Shaped'
    BY <1>5, Advanced DEF CloseRoom, PersistMessage, UpdateLastMessage, At
  <2> QED
    BY <1>5, <2>6, <2>7, PhasesStay DEF CloseRoom, PersistMessage, UpdateLastMessage
<1>6. ASSUME NEW r \in Requests, ChatFails(r)
      PROVE  Goal
  <2>1. ChatTypeOK'
    BY <1>6 DEF ChatFails, TypeInv, Types, ChatTypeOK, chatVars
  <2> QED
    BY <1>6, <2>1, CutShort, PhasesStay DEF ChatFails
<1>7. ASSUME NEW p \in Pairs, NEW s \in Sides, MarkAsRead(p, s)
      PROVE  Goal
  <2>1. HandlersTypeOK' /\ Shaped'
    BY <1>7 DEF MarkAsRead, AtOnce, Counted, TypeInv, Types, HandlersTypeOK, Shaped
  <2>2. unread[p] \in [Sides -> Nat]
    BY DEF TypeInv, Types, ChatTypeOK
  <2>3. unread' = [unread EXCEPT ![p] = [t \in Sides |-> IF t = s THEN unread[p][t] ELSE 0]]
    BY <1>7 DEF MarkAsRead
  <2>4. [t \in Sides |-> IF t = s THEN unread[p][t] ELSE 0] \in [Sides -> Nat]
    BY <2>2
  <2>5. ChatTypeOK'
    BY <1>7, <2>3, <2>4 DEF MarkAsRead, TypeInv, Types, ChatTypeOK
  <2> QED
    BY <1>7, <2>1, <2>5, PhasesStay DEF MarkAsRead
<1>8. ASSUME Job
      PROVE  Goal
  <2>1. HandlersTypeOK' /\ Shaped' /\ PhasesTypeOK'
    BY <1>8, PhasesStay DEF Job, ListRooms, MatchBookings, CloseExpiredRooms, handlerVars,
       TypeInv, Types, HandlersTypeOK, Shaped
  <2>2. CASE ListRooms \/ MatchBookings
    <3>1. job' \in JobRecord
      <4>1. CASE ListRooms
        <5>1. OpenRooms \subseteq Pairs
          BY DEF OpenRooms
        <5>2. {room[p].booking : p \in OpenRooms} \subseteq Bookings
          BY DEF OpenRooms, TypeInv, RoomsKnown, Exists
        <5>3. job' = [at |-> "match", rooms |-> OpenRooms,
                      found |-> {room[p].booking : p \in OpenRooms}]
          BY <4>1 DEF ListRooms, NoJob
        <5> QED
          BY <5>1, <5>2, <5>3 DEF JobRecord
      <4>2. CASE MatchBookings
        BY <4>2 DEF MatchBookings, TypeInv, Types, ChatTypeOK, JobRecord
      <4> QED
        BY <2>2, <4>1, <4>2
    <3>2. UNCHANGED <<room, unread, crossed>>
      BY <2>2 DEF ListRooms, MatchBookings
    <3>3. ChatTypeOK'
      BY <3>1, <3>2 DEF TypeInv, Types, ChatTypeOK
    <3> QED
      BY <2>1, <3>3
  <2>3. CASE CloseExpiredRooms
    <3>1. \A p \in Pairs : room[p] \in RoomRecord /\ [room[p] EXCEPT !.status = "CLOSED"] \in RoomRecord
      <4>1. \A p \in Pairs : room[p] \in RoomRecord
        BY DEF TypeInv, Types, ChatTypeOK
      <4>2. \A doc \in RoomRecord : [doc EXCEPT !.status = "CLOSED"] \in RoomRecord
        BY RoomKept, 0 \in Nat, Zenon
      <4> QED
        BY <4>1, <4>2
    <3>2. room' = [p \in Pairs |->
                     IF p \in job.rooms THEN [room[p] EXCEPT !.status = "CLOSED"] ELSE room[p]]
      BY <2>3 DEF CloseExpiredRooms
    <3>3. room' \in [Pairs -> RoomRecord]
      BY <3>1, <3>2
    <3>4. NoJob \in JobRecord
      BY DEF NoJob, JobRecord
    <3> QED
      BY <2>1, <2>3, <3>3, <3>4 DEF CloseExpiredRooms, TypeInv, Types, ChatTypeOK
  <2> QED
    BY <1>8, <2>1, <2>2, <2>3 DEF Job
<1>9. ASSUME JobFails
      PROVE  Goal
  <2>1. NoJob \in JobRecord
    BY DEF NoJob, JobRecord
  <2> QED
    BY <1>9, <2>1, PhasesStay DEF JobFails, TypeInv, Types, HandlersTypeOK, ChatTypeOK, Shaped
<1>10. Goal
  <2> HIDE DEF Goal
  <2> QED
    BY <1>1, <1>2, <1>3, <1>4, <1>5, <1>6, <1>7, <1>8, <1>9 DEF ChatNext, ChatGoesOn
<1> QED
  BY <1>10


LEMMA ReviewRequests ==
  ASSUME NEW todo \in FirstTodos, NEW b \in Bookings
  PROVE  [todo |-> todo, reviewed |-> b, seen |-> {}] \in RatingLocal
BY DEF RatingLocal

LEMMA ReviewBegun ==
  ASSUME NEW r \in Requests, ReviewBegins(r)
  PROVE  \E local \in RatingLocal :
           /\ Accept(r, local) /\ UNCHANGED <<reviewVars, phaseVars>>
           /\ Head(local.todo) \in {"create", "hide", "restore"}
<1>1. PICK b \in Bookings, step \in {"create", "hide", "restore"} :
        ReviewRequest(r, ThenRecalculate(step), b)
  BY DEF ReviewBegins, CreateReview, DeleteReview, RestoreReview
<1> DEFINE local == [todo |-> ThenRecalculate(step), reviewed |-> b, seen |-> {}]
<1>2. ThenRecalculate(step) \in FirstTodos
  BY RecalculationCalls
<1>3. local \in RatingLocal
  BY <1>2, ReviewRequests
<1>4. local.todo = ThenRecalculate(step)
  OBVIOUS
<1>5. Accept(r, local) /\ UNCHANGED <<reviewVars, phaseVars>>
  BY <1>1 DEF ReviewRequest
<1>6. Head(local.todo) \in {"create", "hide", "restore"}
  BY <1>2, <1>4, FirstCalls
<1> HIDE DEF local
<1> QED
  BY <1>3, <1>5, <1>6

\* What the handlers of reviews carry.
LEMMA RaterKnown ==
  ASSUME TypeInv, NEW r \in Requests, \E s \in ReviewSteps : At(r, s)
  PROVE  /\ request[r] \in RatingLocal /\ request[r].reviewed \in Bookings
         /\ request[r].seen \subseteq Bookings
         /\ StylistOf[request[r].reviewed] \in Stylists /\ ServiceOf[request[r].reviewed] \in Services
<1>1. request[r] \in RatingLocal
  BY Carrying DEF At, TypeInv, Types
<1> QED
  BY <1>1, ReviewAssumption DEF RatingLocal

LEMMA ReviewsTypes ==
  ASSUME TypeInv, ReviewsNext
  PROVE  HandlersTypeOK' /\ Shaped' /\ PhasesTypeOK' /\ ReviewsTypeOK'
<1> DEFINE Goal == HandlersTypeOK' /\ Shaped' /\ PhasesTypeOK' /\ ReviewsTypeOK'
<1>1. ASSUME NEW r \in Requests, ReviewBegins(r)
      PROVE  Goal
  <2>1. PICK local \in RatingLocal :
          Accept(r, local) /\ UNCHANGED <<reviewVars, phaseVars>>
    BY <1>1, ReviewBegun
  <2>2. HandlersTypeOK' /\ Shaped'
    BY <2>1, Begun DEF Locals
  <2>3. ReviewsTypeOK'
    BY <2>1 DEF TypeInv, Types, ReviewsTypeOK, reviewVars
  <2> QED
    BY <2>1, <2>2, <2>3, PhasesStay
<1>2. ASSUME NEW r \in Requests, InsertReview(r) \/ SetDeleted(r)
      PROVE  Goal
  <2>1. request[r].reviewed \in Bookings
    BY <1>2, RaterKnown DEF InsertReview, SetDeleted, ReviewSteps
  <2>2. HandlersTypeOK' /\ Shaped'
    BY <1>2, Advanced DEF InsertReview, SetDeleted, At
  <2>3. review' \in [Bookings -> {"none", "shown", "deleted"}]
    BY <1>2, <2>1 DEF InsertReview, SetDeleted, TypeInv, Types, ReviewsTypeOK
  <2>4. ReviewsTypeOK'
    BY <1>2, <2>3 DEF InsertReview, SetDeleted, TypeInv, Types, ReviewsTypeOK
  <2> QED
    BY <1>2, <2>2, <2>4, PhasesStay DEF InsertReview, SetDeleted
<1>3. ASSUME NEW r \in Requests, ReadRating(r)
      PROVE  Goal
  <2>1. request[r] \in RatingLocal
    BY <1>3, RaterKnown DEF ReadRating, ReviewSteps, RateSteps
  <2>2. PICK seen \in SUBSET Bookings : Continues(r, Rest([request[r] EXCEPT !.seen = seen]))
    <3>1. \A x : Counts(x) \in SUBSET Bookings
      BY DEF Counts
    <3> QED
      BY <1>3, <3>1 DEF ReadRating
  <2>3. [request[r] EXCEPT !.seen = seen] \in RatingLocal
    BY <2>1, RatingChanged
  <2>4. Rest([request[r] EXCEPT !.seen = seen]) \in {Idle} \cup Locals
    BY <2>3, RestRating DEF Locals
  <2>5. HandlersTypeOK' /\ Shaped'
    BY <2>2, <2>4, Continued
  <2>6. ReviewsTypeOK'
    BY <1>3 DEF ReadRating, TypeInv, Types, ReviewsTypeOK, reviewVars
  <2> QED
    BY <1>3, <2>5, <2>6, PhasesStay DEF ReadRating
<1>4. ASSUME NEW r \in Requests, WriteRating(r)
      PROVE  Goal
  <2>1. /\ request[r].seen \subseteq Bookings
        /\ StylistOf[request[r].reviewed] \in Rated /\ ServiceOf[request[r].reviewed] \in Rated
    BY <1>4, RaterKnown DEF WriteRating, ReviewSteps, RateSteps, Rated
  <2>2. HandlersTypeOK' /\ Shaped'
    BY <1>4, Advanced DEF WriteRating, At
  <2>3. rating' \in [Rated -> SUBSET Bookings]
    BY <1>4, <2>1 DEF WriteRating, TypeInv, Types, ReviewsTypeOK
  <2>4. ReviewsTypeOK'
    BY <1>4, <2>3 DEF WriteRating, TypeInv, Types, ReviewsTypeOK
  <2> QED
    BY <1>4, <2>2, <2>4, PhasesStay DEF WriteRating
<1>5. ASSUME NEW r \in Requests, ReviewFails(r)
      PROVE  Goal
  <2>1. ReviewsTypeOK'
    BY <1>5 DEF ReviewFails, TypeInv, Types, ReviewsTypeOK, reviewVars
  <2> QED
    BY <1>5, <2>1, CutShort, PhasesStay DEF ReviewFails
<1>6. Goal
  <2> HIDE DEF Goal
  <2> QED
    BY <1>1, <1>2, <1>3, <1>4, <1>5 DEF ReviewsNext, ReviewGoesOn
<1> QED
  BY <1>6

-----------------------------------------------------------------------------
(* The rooms there are, and who deals with them.                            *)

\* Rooms that are there stay, with their booking; others are as they were.
RoomsKeep ==
  \A p \in Pairs :
    /\ ~Exists(p) => room'[p] = room[p]
    /\ Exists(p) => Exists(p)' /\ room'[p].booking = room[p].booking

\* What a handler writes after a step is of a room there was.
WritersKeep ==
  \A q \in Requests :
    request'[q] = request[q] \/ (request'[q] \in WritingLocal => Exists(request'[q].pair))

LEMMA StillKnown ==
  ASSUME TypeInv, RoomsKeep, WritersKeep, Shaped',
         \A p \in job'.rooms : p \in Pairs /\ Exists(p)
  PROVE  RoomsKnown' /\ WritersMet' /\ JobMet'
<1>1. RoomsKnown'
  BY DEF TypeInv, RoomsKnown, RoomsKeep, Exists
<1>2. WritersMet'
  <2>1. ASSUME NEW q \in Requests, request'[q] \in WritingLocal
        PROVE  room'[request'[q].pair].status # "NONE"
    <3>1. Exists(request'[q].pair)
      BY <2>1 DEF WritersKeep, TypeInv, WritersMet, Met
    <3>2. request'[q].pair \in Pairs
      BY <2>1 DEF WritingLocal
    <3> QED
      BY <3>1, <3>2 DEF RoomsKeep, Exists
  <2> QED
    BY <2>1 DEF WritersMet, Met, Exists
<1>3. JobMet'
  BY DEF JobMet, RoomsKeep, Exists
<1> QED
  BY <1>1, <1>2, <1>3

\* A handler that goes on, ends or opens nothing new.
LEMMA Onwards ==
  ASSUME TypeInv, NEW r \in Requests, NEW local \in {Idle} \cup Locals, request[r] \in Locals,
         request' = [request EXCEPT ![r] = local],
         local \in WritingLocal => Exists(local.pair)
  PROVE  WritersKeep
BY DEF TypeInv, Types, Shaped, WritersKeep

\* Whatever a handler does with its request, its writes stay about a room there is.
LEMMA AdvancedWriters ==
  ASSUME TypeInv, NEW r \in Requests, request[r] # Idle,
         Advance(r) \/ Throw(r) \/ Cut(r)
  PROVE  WritersKeep
<1>1. request[r] \in Locals
  BY DEF TypeInv, Types, Shaped
<1>2. Idle \notin WritingLocal
  BY LocalsApart
<1>3. CASE Throw(r) \/ Cut(r)
  <2>1. request' = [request EXCEPT ![r] = Idle]
    BY <1>3 DEF Throw, Cut, Continues
  <2> QED
    BY <1>1, <1>2, <2>1, Onwards
<1>4. CASE Advance(r)
  <2>1. request' = [request EXCEPT ![r] = Rest(request[r])]
    BY <1>4 DEF Advance, Continues
  <2>2. Rest(request[r]) \in {Idle} \cup Locals
    BY <1>1, RestShort, RestWriting, RestRating DEF Locals
  <2>3. Rest(request[r]) \in WritingLocal => Exists(Rest(request[r]).pair)
    <3>1. CASE request[r] \in WritingLocal
      <4>1. Rest(request[r]) = Idle \/ Rest(request[r]).pair = request[r].pair
        BY <3>1, RestWriting
      <4>2. Exists(request[r].pair)
        BY <3>1 DEF TypeInv, WritersMet, Met
      <4> QED
        BY <1>2, <4>1, <4>2
    <3>2. CASE request[r] \in PhaseLocal \cup OpeningLocal
      BY <1>2, <3>2, RestShort
    <3>3. CASE request[r] \in RatingLocal
      BY <3>3, RestRating, LocalsApart
    <3> QED
      BY <1>1, <3>1, <3>2, <3>3 DEF Locals
  <2> QED
    BY <1>1, <2>1, <2>2, <2>3, Onwards
<1> QED
  BY <1>3, <1>4

LEMMA BegunWriters ==
  ASSUME TypeInv, NEW r \in Requests, NEW local \in Locals, Accept(r, local),
         local \in WritingLocal => Exists(local.pair)
  PROVE  WritersKeep
BY DEF TypeInv, Types, Shaped, WritersKeep, Accept

\* What happens besides the chat leaves rooms and job alone.
LEMMA OthersKnown ==
  ASSUME TypeInv, Shaped', UNCHANGED chatVars, WritersKeep
  PROVE  RoomsKnown' /\ WritersMet' /\ JobMet'
<1>1. RoomsKeep
  BY DEF chatVars, RoomsKeep, Exists
<1>2. \A p \in job'.rooms : p \in Pairs /\ Exists(p)
  BY DEF chatVars, TypeInv, Types, ChatTypeOK, JobRecord, JobMet
<1> QED
  BY <1>1, <1>2, StillKnown

LEMMA PhasesWriters ==
  ASSUME TypeInv, PhasesNext
  PROVE  WritersKeep
<1>1. ASSUME NEW r \in Requests, PhaseBegins(r)
      PROVE  WritersKeep
  <2>1. PICK b \in Bookings, status \in {"CONFIRMED", "COMPLETED", "CANCELLED"},
             dated \in {"nothing", "completedAt", "cancelledAt"} : PhaseRequest(r, b, status, dated)
    BY <1>1 DEF PhaseBegins, UpdateBookingStatus, CancelBooking
  <2> DEFINE local == [todo |-> <<"write">>, ends |-> b, sets |-> status, dates |-> dated]
  <2>2. local \in PhaseLocal
    BY DEF PhaseLocal
  <2>3. Accept(r, local)
    BY <2>1 DEF PhaseRequest
  <2> HIDE DEF local
  <2> QED
    BY <2>2, <2>3, LocalsApart, BegunWriters DEF Locals
<1>2. ASSUME NEW r \in Requests, WritePhase(r) \/ PhaseFails(r)
      PROVE  WritersKeep
  BY <1>2, AdvancedWriters DEF WritePhase, PhaseFails, At
<1>3. ASSUME NEW b \in Bookings, DayPasses(b)
      PROVE  WritersKeep
  BY <1>3 DEF DayPasses, handlerVars, WritersKeep
<1> QED
  BY <1>1, <1>2, <1>3 DEF PhasesNext

LEMMA ReviewsWriters ==
  ASSUME TypeInv, ReviewsNext
  PROVE  WritersKeep
<1>1. ASSUME NEW r \in Requests, ReviewBegins(r)
      PROVE  WritersKeep
  <2>1. PICK local \in RatingLocal : Accept(r, local)
    BY <1>1, ReviewBegun
  <2> QED
    BY <2>1, LocalsApart, BegunWriters DEF Locals
<1>2. ASSUME NEW r \in Requests, InsertReview(r) \/ SetDeleted(r) \/ WriteRating(r) \/ ReviewFails(r)
      PROVE  WritersKeep
  BY <1>2, AdvancedWriters DEF InsertReview, SetDeleted, WriteRating, ReviewFails, OfReview, At
<1>3. ASSUME NEW r \in Requests, ReadRating(r)
      PROVE  WritersKeep
  <2>1. request[r] \in RatingLocal
    BY <1>3, RaterKnown DEF ReadRating, ReviewSteps, RateSteps
  <2>2. PICK seen \in SUBSET Bookings : Continues(r, Rest([request[r] EXCEPT !.seen = seen]))
    <3>1. \A x : Counts(x) \in SUBSET Bookings
      BY DEF Counts
    <3> QED
      BY <1>3, <3>1 DEF ReadRating
  <2>3. [request[r] EXCEPT !.seen = seen] \in RatingLocal
    BY <2>1, RatingChanged
  <2>4. Rest([request[r] EXCEPT !.seen = seen]) \in {Idle} \cup RatingLocal
    BY <2>3, RestRating
  <2> QED
    BY <2>1, <2>2, <2>4, LocalsApart, Onwards DEF Continues, Locals
<1> QED
  BY <1>1, <1>2, <1>3 DEF ReviewsNext, ReviewGoesOn

\* The handlers of the chat, but for the opening of a room.
LEMMA ChatGoesWriters ==
  ASSUME TypeInv, NEW r \in Requests, FindRoom(r) \/ VerifyExpiry(r)
  PROVE  WritersKeep
<1>1. request[r] \in WritingLocal /\ request[r].pair \in Pairs
  BY WritersKnown DEF FindRoom, VerifyExpiry
<1>2. Exists(request[r].pair)
  BY <1>1 DEF TypeInv, WritersMet, Met
<1>3. CASE FindRoom(r)
  <2> DEFINE found == [request[r] EXCEPT !.booking = room[request[r].pair].booking]
  <2>1. room[request[r].pair].booking \in Bookings \cup {None}
    BY <1>1 DEF TypeInv, Types, ChatTypeOK, RoomRecord
  <2>2. found \in WritingLocal /\ found.pair = request[r].pair
    BY <1>1, <2>1, WritingChanged
  <2>3. Rest(found) \in {Idle} \cup WritingLocal
    BY <2>2, RestWriting
  <2>4. Rest(found) = Idle \/ Rest(found).pair = found.pair
    BY <2>2, RestWriting
  <2>5. request' = [request EXCEPT ![r] = Rest(found)]
    BY <1>3 DEF FindRoom, Continues
  <2> HIDE DEF found
  <2> QED
    BY <1>1, <1>2, <2>2, <2>3, <2>4, <2>5, LocalsApart, Onwards DEF Locals
<1>4. CASE VerifyExpiry(r)
  <2> DEFINE closing == [request[r] EXCEPT !.todo = <<"closeRoom">>]
  <2>1. closing \in WritingLocal /\ closing.pair = request[r].pair
    BY <1>1, WritingChanged DEF WritingTodos
  <2>2. CASE Continues(r, closing)
    <3> HIDE DEF closing
    <3> QED
      BY <1>1, <1>2, <2>1, <2>2, Onwards DEF Continues, Locals
  <2> QED
    BY <1>4, <2>2, AdvancedWriters DEF VerifyExpiry, At
<1> QED
  BY <1>3, <1>4

\* Writes to a room there is.
LEMMA RoomWrites ==
  ASSUME TypeInv, NEW r \in Requests, CloseRoom(r) \/ PersistMessage(r) \/ UpdateLastMessage(r)
  PROVE  RoomsKeep
<1> DEFINE p == request[r].pair
<1>1. request[r] \in WritingLocal /\ p \in Pairs
  BY WritersKnown DEF CloseRoom, PersistMessage, UpdateLastMessage
<1>2. Exists(p)
  BY <1>1 DEF TypeInv, WritersMet, Met
<1>3. room[p] \in RoomRecord /\ room \in [Pairs -> RoomRecord]
  BY <1>1 DEF TypeInv, Types, ChatTypeOK
<1>4. ASSUME NEW n
      PROVE  /\ [room[p] EXCEPT !.newest = n].status = room[p].status
             /\ [room[p] EXCEPT !.newest = n].booking = room[p].booking
             /\ [room[p] EXCEPT !.preview = n].status = room[p].status
             /\ [room[p] EXCEPT !.preview = n].booking = room[p].booking
             /\ [room[p] EXCEPT !.status = "CLOSED"].status = "CLOSED"
             /\ [room[p] EXCEPT !.status = "CLOSED"].booking = room[p].booking
  BY <1>3 DEF RoomRecord
<1>5. PICK doc : /\ room' = [room EXCEPT ![p] = doc]
                 /\ doc.status # "NONE" /\ doc.booking = room[p].booking
  <2>1. CASE CloseRoom(r)
    <3>1. room' = [room EXCEPT ![p] = [room[p] EXCEPT !.status = "CLOSED"]]
      BY <2>1 DEF CloseRoom
    <3> QED
      BY <1>4, <3>1
  <2>2. CASE PersistMessage(r)
    <3>1. room' = [room EXCEPT ![p] = [room[p] EXCEPT !.newest = request[r].number]]
      BY <2>2 DEF PersistMessage
    <3> QED
      BY <1>2, <1>4, <3>1 DEF Exists
  <2>3. CASE UpdateLastMessage(r)
    <3>1. room' = [room EXCEPT ![p] = [room[p] EXCEPT !.preview = request[r].number]]
      BY <2>3 DEF UpdateLastMessage
    <3> QED
      BY <1>2, <1>4, <3>1 DEF Exists
  <2> QED
    BY <2>1, <2>2, <2>3
<1> QED
  BY <1>1, <1>2, <1>3, <1>5 DEF RoomsKeep, Exists

LEMMA JobCloses ==
  ASSUME TypeInv, CloseExpiredRooms
  PROVE  RoomsKeep
<1>1. room \in [Pairs -> RoomRecord]
  BY DEF TypeInv, Types, ChatTypeOK
<1>2. ASSUME NEW p \in Pairs
      PROVE  /\ [room[p] EXCEPT !.status = "CLOSED"].status = "CLOSED"
             /\ [room[p] EXCEPT !.status = "CLOSED"].booking = room[p].booking
  BY <1>1 DEF RoomRecord
<1>3. room' = [p \in Pairs |->
                 IF p \in job.rooms THEN [room[p] EXCEPT !.status = "CLOSED"] ELSE room[p]]
  BY DEF CloseExpiredRooms
<1>4. \A p \in job.rooms : room[p].status # "NONE"
  BY DEF TypeInv, JobMet, Exists
<1>5. ASSUME NEW p \in Pairs
      PROVE  /\ ~Exists(p) => room'[p] = room[p]
             /\ Exists(p) => room'[p].status # "NONE" /\ room'[p].booking = room[p].booking
  <2>1. CASE p \in job.rooms
    <3>1. room'[p] = [room[p] EXCEPT !.status = "CLOSED"]
      BY <1>3, <2>1
    <3> QED
      BY <1>2, <1>4, <2>1, <3>1 DEF Exists
  <2>2. CASE p \notin job.rooms
    BY <1>3, <2>2 DEF Exists
  <2> QED
    BY <2>1, <2>2
<1> QED
  BY <1>5 DEF RoomsKeep, Exists


LEMMA ChatKeeps ==
  ASSUME TypeInv, ChatNext
  PROVE  RoomsKeep \/ \E r \in Requests : (At(r, "createRoom") \/ At(r, "reopen")) /\ Opened(r)
<1>1. ASSUME room' = room
      PROVE  RoomsKeep
  BY <1>1 DEF RoomsKeep, Exists
<1>2. ASSUME NEW r \in Requests, ChatGoesOn(r)
      PROVE  RoomsKeep \/ ((At(r, "createRoom") \/ At(r, "reopen")) /\ Opened(r))
  <2>1. CASE CreateRoom(r) \/ Reopen(r)
    BY <1>1, <2>1 DEF CreateRoom, Reopen, chatVars
  <2>2. CASE FindRoom(r) \/ VerifyExpiry(r)
    BY <1>1, <2>2 DEF FindRoom, VerifyExpiry, chatVars
  <2>3. CASE CloseRoom(r) \/ PersistMessage(r) \/ UpdateLastMessage(r)
    BY <2>3, RoomWrites
  <2> QED
    BY <1>2, <2>1, <2>2, <2>3 DEF ChatGoesOn
<1>3. ASSUME NEW r \in Requests, ChatBegins(r) \/ ChatFails(r)
      PROVE  room' = room
  BY <1>3, ChatBegun DEF ChatFails, chatVars
<1>4. ASSUME NEW p \in Pairs, NEW s \in Sides, MarkAsRead(p, s)
      PROVE  room' = room
  BY <1>4 DEF MarkAsRead
<1>5. CASE ListRooms \/ MatchBookings \/ JobFails
  BY <1>1, <1>5 DEF ListRooms, MatchBookings, JobFails
<1>6. CASE CloseExpiredRooms
  BY <1>6, JobCloses
<1> QED
  BY <1>1, <1>2, <1>3, <1>4, <1>5, <1>6 DEF ChatNext, Job

LEMMA ChatWriters ==
  ASSUME TypeInv, ChatNext
  PROVE  WritersKeep
<1>1. ASSUME request' = request
      PROVE  WritersKeep
  BY <1>1 DEF WritersKeep
<1>2. ASSUME NEW r \in Requests, ChatGoesOn(r)
      PROVE  WritersKeep
  <2>1. CASE CreateRoom(r) \/ Reopen(r)
    BY <2>1, AdvancedWriters DEF CreateRoom, Reopen, Opened, At
  <2>2. CASE FindRoom(r) \/ VerifyExpiry(r)
    BY <2>2, ChatGoesWriters
  <2>3. CASE CloseRoom(r) \/ PersistMessage(r) \/ UpdateLastMessage(r)
    BY <2>3, AdvancedWriters DEF CloseRoom, PersistMessage, UpdateLastMessage, At
  <2> QED
    BY <1>2, <2>1, <2>2, <2>3 DEF ChatGoesOn
<1>3. ASSUME NEW r \in Requests, ChatBegins(r)
      PROVE  WritersKeep
  <2>1. PICK local \in OpeningLocal \cup WritingLocal :
          /\ Accept(r, local)
          /\ local \in WritingLocal => room[local.pair].status # "NONE"
    BY <1>3, ChatBegun
  <2> QED
    BY <2>1, BegunWriters DEF Locals, Exists
<1>4. ASSUME NEW r \in Requests, ChatFails(r)
      PROVE  WritersKeep
  BY <1>4, AdvancedWriters DEF ChatFails, OfChat
<1>5. ASSUME NEW p \in Pairs, NEW s \in Sides, MarkAsRead(p, s)
      PROVE  WritersKeep
  BY <1>1, <1>5 DEF MarkAsRead, AtOnce
<1>6. CASE Job \/ JobFails
  BY <1>1, <1>6 DEF Job, ListRooms, MatchBookings, CloseExpiredRooms, JobFails, handlerVars
<1> QED
  BY <1>2, <1>3, <1>4, <1>5, <1>6 DEF ChatNext

\* The job deals with rooms there are.
LEMMA JobRooms ==
  ASSUME TypeInv, ChatNext
  PROVE  \A p \in job'.rooms : p \in Pairs /\ Exists(p)
<1>1. \A p \in job.rooms : p \in Pairs /\ Exists(p)
  BY DEF TypeInv, Types, ChatTypeOK, JobRecord, JobMet
<1>2. NoJob.rooms = {}
  BY DEF NoJob
<1>3. CASE ListRooms
  <2>1. job'.rooms = OpenRooms
    BY <1>3 DEF ListRooms, NoJob
  <2> QED
    BY <2>1 DEF OpenRooms, Exists
<1>4. CASE MatchBookings
  <2>1. job' = [job EXCEPT !.at = "close",
                  !.rooms = {p \in job.rooms : \E b \in job.found : PairOf[b] = p /\ Over(booking[b])}]
    BY <1>4 DEF MatchBookings
  <2>2. job \in JobRecord
    BY DEF TypeInv, Types, ChatTypeOK
  <2>3. job'.rooms \subseteq job.rooms
    <3> DEFINE rooms == {p \in job.rooms : \E b \in job.found : PairOf[b] = p /\ Over(booking[b])}
    <3>1. rooms \subseteq job.rooms
      OBVIOUS
    <3> HIDE DEF rooms
    <3> QED
      BY <2>1, <2>2, <3>1 DEF JobRecord
  <2> QED
    BY <1>1, <2>3
<1>5. CASE CloseExpiredRooms \/ JobFails
  BY <1>2, <1>5 DEF CloseExpiredRooms, JobFails
<1>6. ASSUME NEW r \in Requests, ChatBegins(r) \/ ChatGoesOn(r) \/ ChatFails(r)
      PROVE  job' = job
  <2>1. CASE ChatBegins(r)
    BY <2>1, ChatBegun DEF chatVars
  <2>2. CASE ChatGoesOn(r)
    BY <2>2 DEF ChatGoesOn, CreateRoom, Reopen, Opened, FindRoom, VerifyExpiry, CloseRoom,
       PersistMessage, UpdateLastMessage, chatVars
  <2> QED
    BY <1>6, <2>1, <2>2 DEF ChatFails, chatVars
<1>7. ASSUME NEW p \in Pairs, NEW s \in Sides, MarkAsRead(p, s)
      PROVE  job' = job
  BY <1>7 DEF MarkAsRead
<1> QED
  BY <1>1, <1>3, <1>4, <1>5, <1>6, <1>7 DEF ChatNext, Job

\* Opening a room, of the two people of the booking it is opened for.
LEMMA OpenedRoom ==
  ASSUME TypeInv, NEW r \in Requests, At(r, "createRoom") \/ At(r, "reopen"), Opened(r)
  PROVE  /\ room'[request[r].pair].status = "OPEN"
         /\ room'[request[r].pair].booking = request[r].booking
         /\ \A p \in Pairs \ {request[r].pair} : room'[p] = room[p]
<1> DEFINE p == request[r].pair
           b == request[r].booking
<1>1. p \in Pairs /\ b \in Bookings
  BY OpensKnown
<1>2. room' = [room EXCEPT ![p] = [room[p] EXCEPT !.status = "OPEN", !.booking = b]]
  BY DEF Opened
<1>3. room[p] \in RoomRecord /\ room \in [Pairs -> RoomRecord]
  BY <1>1 DEF TypeInv, Types, ChatTypeOK
<1>4. /\ [room[p] EXCEPT !.status = "OPEN", !.booking = b].status = "OPEN"
      /\ [room[p] EXCEPT !.status = "OPEN", !.booking = b].booking = b
  BY <1>3 DEF RoomRecord
<1> QED
  BY <1>1, <1>2, <1>3, <1>4

LEMMA ChatKnown ==
  ASSUME TypeInv, ChatNext
  PROVE  RoomsKnown' /\ WritersMet' /\ JobMet'
<1>1. CASE RoomsKeep
  BY <1>1, ChatTypes, ChatWriters, JobRooms, StillKnown
<1>2. ASSUME NEW r \in Requests, At(r, "createRoom") \/ At(r, "reopen"), Opened(r)
      PROVE  RoomsKnown' /\ WritersMet' /\ JobMet'
  <2> DEFINE p == request[r].pair
  <2>1. /\ p \in Pairs /\ request[r].booking \in Bookings /\ PairOf[request[r].booking] = p
    BY <1>2, OpensKnown
  <2>2. /\ room'[p].status = "OPEN" /\ room'[p].booking = request[r].booking
        /\ \A q \in Pairs \ {p} : room'[q] = room[q]
    BY <1>2, OpenedRoom
  <2>3. RoomsKnown'
    <3>1. ASSUME NEW q \in Pairs
          PROVE  /\ room'[q].status = "NONE" => room'[q] = NoRoom
                 /\ room'[q].status # "NONE" =>
                      room'[q].booking \in Bookings /\ PairOf[room'[q].booking] = q
      <4> HIDE DEF p
      <4>1. CASE q = p
        BY <2>1, <2>2, <4>1
      <4>2. CASE q # p
        BY <2>2, <4>2 DEF TypeInv, RoomsKnown, Exists
      <4> QED
        BY <4>1, <4>2
    <3> QED
      BY <3>1 DEF RoomsKnown, Exists
  <2>4. \A q \in Pairs : Exists(q) => room'[q].status # "NONE"
    BY <2>2 DEF Exists
  <2>5. WritersMet'
    <3>1. ASSUME NEW q \in Requests, request'[q] \in WritingLocal
          PROVE  room'[request'[q].pair].status # "NONE"
      <4>1. Exists(request'[q].pair)
        BY <3>1, ChatWriters DEF WritersKeep, TypeInv, WritersMet, Met
      <4>2. request'[q].pair \in Pairs
        BY <3>1 DEF WritingLocal
      <4> QED
        BY <2>4, <4>1, <4>2
    <3> QED
      BY <3>1 DEF WritersMet, Met, Exists
  <2>6. JobMet'
    BY <2>4, JobRooms DEF JobMet, Exists
  <2> QED
    BY <2>3, <2>5, <2>6
<1> QED
  BY <1>1, <1>2, ChatKeeps

LEMMA TypesStart == Init => TypeInv
<1> SUFFICES ASSUME Init PROVE TypeInv
  OBVIOUS
<1>1. HandlersTypeOK /\ Shaped
  BY DEF Init, HandlersInit, HandlersTypeOK, Shaped
<1>2. PhasesTypeOK
  BY DEF Init, PhasesInit, PhasesTypeOK, BookingEnd, Age
<1>3. ChatTypeOK
  BY DEF Init, ChatInit, ChatTypeOK, RoomRecord, NoRoom, JobRecord, NoJob
<1>4. ReviewsTypeOK
  BY DEF Init, ReviewsInit, ReviewsTypeOK
<1>5. RoomsKnown
  BY DEF Init, ChatInit, RoomsKnown, Exists, NoRoom
<1>6. WritersMet
  BY LocalsApart DEF Init, HandlersInit, WritersMet, Met
<1>7. JobMet
  BY DEF Init, ChatInit, JobMet, NoJob
<1> QED
  BY <1>1, <1>2, <1>3, <1>4, <1>5, <1>6, <1>7 DEF TypeInv, Types

LEMMA TypesLast == TypeInv /\ [Next]_vars => TypeInv'
<1> SUFFICES ASSUME TypeInv, [Next]_vars PROVE TypeInv'
  OBVIOUS
<1>1. CASE PhasesNext /\ UNCHANGED <<chatVars, reviewVars>>
  <2>1. ChatTypeOK' /\ ReviewsTypeOK'
    BY <1>1 DEF TypeInv, Types, ChatTypeOK, ReviewsTypeOK, chatVars, reviewVars
  <2>2. HandlersTypeOK' /\ Shaped' /\ PhasesTypeOK'
    BY <1>1, PhasesTypes
  <2>3. RoomsKnown' /\ WritersMet' /\ JobMet'
    BY <1>1, <2>2, PhasesWriters, OthersKnown
  <2> QED
    BY <2>1, <2>2, <2>3 DEF TypeInv, Types
<1>2. CASE ChatNext /\ UNCHANGED reviewVars
  <2>1. ReviewsTypeOK'
    BY <1>2 DEF TypeInv, Types, ReviewsTypeOK, reviewVars
  <2> QED
    BY <1>2, <2>1, ChatTypes, ChatKnown DEF TypeInv, Types
<1>3. CASE ReviewsNext /\ UNCHANGED chatVars
  <2>1. ChatTypeOK'
    BY <1>3 DEF TypeInv, Types, ChatTypeOK, chatVars
  <2>2. HandlersTypeOK' /\ Shaped' /\ PhasesTypeOK' /\ ReviewsTypeOK'
    BY <1>3, ReviewsTypes
  <2>3. RoomsKnown' /\ WritersMet' /\ JobMet'
    BY <1>3, <2>2, ReviewsWriters, OthersKnown
  <2> QED
    BY <2>1, <2>2, <2>3 DEF TypeInv, Types
<1>4. CASE UNCHANGED vars
  BY <1>4 DEF vars, handlerVars, phaseVars, chatVars, reviewVars, TypeInv, Types, HandlersTypeOK,
     PhasesTypeOK, ChatTypeOK, ReviewsTypeOK, Shaped, RoomsKnown, WritersMet, Met, JobMet, Exists
<1> QED
  BY <1>1, <1>2, <1>3, <1>4 DEF Next

\* The documents of the end of a booking, of the chat and of the reviews, and what
\* handlers carry keep their types (BookingPhases, ChatRooms, Reviews).
THEOREM AfterCareTypes == Spec => []AfterCareTypeOK
<1>1. Spec => []TypeInv
  BY TypesStart, TypesLast, PTL DEF Spec
<1> QED
  BY <1>1, TypesFollow, PTL

-----------------------------------------------------------------------------
(* A closed room is that of a booking that was over.                        *)

\* What allows the room of p to be closed.
WasOver(p) ==
  \/ Over(booking[room[p].booking])
  \/ room[p].booking \in resumed \cup crossed

\* A handler that has found the room's booking knows it still, and one that is to
\* close the room has found the booking over.
Marked(r) ==
  At(r, "expiry") =>
    \/ request[r].booking = room[request[r].pair].booking
    \/ room[request[r].pair].booking \in crossed
Decided(r) == At(r, "closeRoom") => WasOver(request[r].pair)

JobMarked ==
  job.at = "match" =>
    \A p \in job.rooms, b \in job.found :
      PairOf[b] = p => b = room[p].booking \/ room[p].booking \in crossed
JobDecided == job.at = "close" => \A p \in job.rooms : WasOver(p)

ClosingInv ==
  /\ TypeInv /\ ClosedWasOver /\ JobMarked /\ JobDecided
  /\ \A r \in Requests : Marked(r) /\ Decided(r)

\* Bookings that were over are, or have been taken up again.
OverLasts ==
  /\ resumed \subseteq resumed'
  /\ \A b \in Bookings : Over(booking[b]) => Over(booking'[b]) \/ b \in resumed'

LEMMA BecomesOver ==
  ASSUME TypeInv, NEW b \in Bookings, NEW doc, Becomes(b, doc)
  PROVE  OverLasts
<1>1. booking' = [booking EXCEPT ![b] = doc] /\ booking \in [Bookings -> BookingEnd]
  BY DEF Becomes, TypeInv, Types, PhasesTypeOK
<1>2. resumed' = IF Over(booking[b]) /\ ~Over(doc) THEN resumed \cup {b} ELSE resumed
  BY DEF Becomes
<1>3. ASSUME NEW c \in Bookings, Over(booking[c])
      PROVE  Over(booking'[c]) \/ c \in resumed'
  <2>1. CASE c = b
    <3>1. booking'[c] = doc
      BY <1>1, <2>1
    <3> QED
      BY <1>2, <1>3, <2>1, <3>1
  <2>2. CASE c # b
    <3>1. booking'[c] = booking[c]
      BY <1>1, <2>2
    <3> QED
      BY <1>3, <3>1
  <2> QED
    BY <2>1, <2>2
<1> QED
  BY <1>2, <1>3 DEF OverLasts

LEMMA PhasesOver ==
  ASSUME TypeInv, PhasesNext
  PROVE  OverLasts
<1>1. ASSUME UNCHANGED phaseVars
      PROVE  OverLasts
  BY <1>1 DEF OverLasts, phaseVars
<1>2. ASSUME NEW r \in Requests, WritePhase(r)
      PROVE  OverLasts
  <2>1. request[r].ends \in Bookings
    BY <1>2, Carrying DEF WritePhase, At, TypeInv, Types, PhaseLocal
  <2>2. PICK doc : Becomes(request[r].ends, doc)
    BY <1>2 DEF WritePhase
  <2> QED
    BY <2>1, <2>2, BecomesOver
<1>3. ASSUME NEW b \in Bookings, DayPasses(b)
      PROVE  OverLasts
  <2>1. PICK doc : Becomes(b, doc)
    BY <1>3 DEF DayPasses
  <2> QED
    BY <2>1, BecomesOver
<1>4. ASSUME NEW r \in Requests, PhaseBegins(r) \/ PhaseFails(r)
      PROVE  UNCHANGED phaseVars
  BY <1>4 DEF PhaseBegins, UpdateBookingStatus, CancelBooking, PhaseRequest, PhaseFails
<1> QED
  BY <1>1, <1>2, <1>3, <1>4 DEF PhasesNext

\* What was over stays so, as long as the room keeps its booking.
LEMMA WasOverLasts ==
  ASSUME TypeInv, OverLasts, crossed \subseteq crossed',
         NEW p \in Pairs, Exists(p), room'[p].booking = room[p].booking, WasOver(p)
  PROVE  \/ Over(booking'[room'[p].booking])
         \/ room'[p].booking \in resumed' \cup crossed'
<1>1. room[p].booking \in Bookings
  BY DEF TypeInv, RoomsKnown
<1>2. \/ Over(booking[room[p].booking])
      \/ room[p].booking \in resumed \cup crossed
  BY DEF WasOver
<1> QED
  BY <1>1, <1>2 DEF OverLasts

\* Handlers that are where they were, or not at a point that matters.
HandlersKeep ==
  \A q \in Requests :
    request'[q] = request[q] \/ (~At(q, "expiry")' /\ ~At(q, "closeRoom")')

\* Where a handler that is to close a room is.
LEMMA AtRoom ==
  ASSUME TypeInv, NEW q \in Requests, At(q, "expiry") \/ At(q, "closeRoom")
  PROVE  request[q].pair \in Pairs /\ Exists(request[q].pair)
BY WritersKnown DEF TypeInv, WritersMet, Met

\* Handlers that stay where they are may go on.
LEMMA HandlersStay ==
  ASSUME ClosingInv, TypeInv', RoomsKeep, OverLasts, crossed' = crossed,
         NEW q \in Requests, request'[q] = request[q]
  PROVE  Marked(q)' /\ Decided(q)'
<1>1. Marked(q)'
  <2>1. SUFFICES ASSUME At(q, "expiry")' PROVE Marked(q)'
    BY DEF Marked
  <2>2. At(q, "expiry")
    BY <2>1 DEF At
  <2>3. request[q].pair \in Pairs /\ Exists(request[q].pair)
    BY <2>2, AtRoom DEF ClosingInv
  <2>4. room'[request[q].pair].booking = room[request[q].pair].booking
    BY <2>3 DEF RoomsKeep
  <2> QED
    BY <2>2, <2>4 DEF ClosingInv, Marked
<1>2. Decided(q)'
  <2>1. SUFFICES ASSUME At(q, "closeRoom")' PROVE Decided(q)'
    BY DEF Decided
  <2>2. At(q, "closeRoom")
    BY <2>1 DEF At
  <2>3. request[q].pair \in Pairs /\ Exists(request[q].pair)
    BY <2>2, AtRoom DEF ClosingInv
  <2>4. room'[request[q].pair].booking = room[request[q].pair].booking
    BY <2>3 DEF RoomsKeep
  <2>5. WasOver(request[q].pair)
    BY <2>2 DEF ClosingInv, Decided
  <2>6. \/ Over(booking'[room'[request[q].pair].booking])
        \/ room'[request[q].pair].booking \in resumed' \cup crossed'
    BY <2>3, <2>4, <2>5, WasOverLasts DEF ClosingInv
  <2> QED
    BY <2>6 DEF Decided, WasOver
<1> QED
  BY <1>1, <1>2

LEMMA JobStays ==
  ASSUME ClosingInv, RoomsKeep, OverLasts, crossed' = crossed, job' = job
  PROVE  JobMarked' /\ JobDecided'
<1>1. \A p \in job.rooms : p \in Pairs /\ Exists(p)
  BY DEF ClosingInv, TypeInv, Types, ChatTypeOK, JobRecord, JobMet
<1>2. \A p \in job.rooms : room'[p].booking = room[p].booking
  BY <1>1 DEF RoomsKeep
<1>3. JobMarked'
  BY <1>2 DEF ClosingInv, JobMarked
<1>4. JobDecided'
  <2>1. SUFFICES ASSUME job.at = "close", NEW p \in job.rooms
                 PROVE  \/ Over(booking'[room'[p].booking])
                        \/ room'[p].booking \in resumed' \cup crossed'
    BY DEF JobDecided, WasOver
  <2>2. WasOver(p)
    BY <2>1 DEF ClosingInv, JobDecided
  <2> QED
    BY <1>1, <1>2, <2>2, WasOverLasts DEF ClosingInv
<1> QED
  BY <1>3, <1>4

\* Rooms that were closed before, or close now as they may.
LEMMA ClosedStays ==
  ASSUME ClosingInv, RoomsKeep, OverLasts, crossed' = crossed,
         \A p \in Pairs : room'[p].status = "CLOSED" =>
           room[p].status = "CLOSED" \/ (Exists(p) /\ WasOver(p))
  PROVE  ClosedWasOver'
<1>1. SUFFICES ASSUME NEW p \in Pairs, room'[p].status = "CLOSED"
               PROVE  \/ Over(booking'[room'[p].booking])
                      \/ room'[p].booking \in resumed' \cup crossed'
  BY DEF ClosedWasOver
<1>2. Exists(p) /\ WasOver(p)
  BY <1>1 DEF ClosingInv, ClosedWasOver, WasOver, Exists
<1>3. room'[p].booking = room[p].booking
  BY <1>2 DEF RoomsKeep
<1> QED
  BY <1>2, <1>3, WasOverLasts DEF ClosingInv

LEMMA StepCloses ==
  ASSUME ClosingInv, TypeInv', RoomsKeep, OverLasts, crossed' = crossed,
         job' = job \/ (JobMarked' /\ JobDecided'),
         \A p \in Pairs : room'[p].status = "CLOSED" =>
           room[p].status = "CLOSED" \/ (Exists(p) /\ WasOver(p)),
         \A q \in Requests : request'[q] = request[q] \/ (Marked(q)' /\ Decided(q)')
  PROVE  ClosingInv'
<1>1. ClosedWasOver'
  BY ClosedStays
<1>2. JobMarked' /\ JobDecided'
  BY JobStays
<1>3. \A q \in Requests : Marked(q)' /\ Decided(q)'
  BY HandlersStay
<1> QED
  BY <1>1, <1>2, <1>3 DEF ClosingInv

\* Calls that decide nothing about closing a room.
LEMMA ClosesNothing ==
  ASSUME NEW local \in PhaseLocal \cup OpeningLocal \cup RatingLocal
  PROVE  Head(local.todo) \notin {"expiry", "closeRoom"}
<1>1. CASE local \in PhaseLocal
  BY <1>1, PhaseTodo
<1>2. CASE local \in OpeningLocal
  <2>1. Head(local.todo) \in {"createRoom", "reopen"}
    BY <1>2, OpeningHeads DEF OpeningLocal
  <2> QED
    BY <2>1
<1>3. CASE local \in RatingLocal
  <2>1. local.todo \in FirstTodos \cup RatingTodos
    BY <1>3 DEF RatingLocal
  <2>2. Head(local.todo) \in
          {"create", "hide", "restore", "readStylist", "writeStylist", "readService", "writeService"}
    BY <2>1, FirstCalls, RatingCalls DEF RatingTodos
  <2> QED
    BY <2>2
<1> QED
  BY <1>1, <1>2, <1>3

LEMMA NewHandler ==
  ASSUME TypeInv, NEW r \in Requests, NEW local,
         request' = [request EXCEPT ![r] = local],
         local = Idle \/ Head(local.todo) \notin {"expiry", "closeRoom"}
  PROVE  HandlersKeep
BY DEF HandlersKeep, At, TypeInv, Types, Shaped

\* A call after which the handler goes on, or ends: the room it may still close is
\* what only finding the room, and finding it expired, lead to.
LEMMA AdvanceCloses ==
  ASSUME TypeInv, NEW r \in Requests, request[r] # Idle,
         Advance(r) \/ Throw(r) \/ Cut(r),
         Cut(r) \/ Throw(r) \/ Head(request[r].todo) # "findRoom"
  PROVE  HandlersKeep
<1>1. request[r] \in Locals
  BY DEF TypeInv, Types, Shaped
<1>2. CASE Throw(r) \/ Cut(r)
  <2>1. request' = [request EXCEPT ![r] = Idle]
    BY <1>2 DEF Throw, Cut, Continues
  <2> QED
    BY <2>1, NewHandler
<1>3. CASE Advance(r) /\ Head(request[r].todo) # "findRoom"
  <2>1. request' = [request EXCEPT ![r] = Rest(request[r])]
    BY <1>3 DEF Advance, Continues
  <2>2. Rest(request[r]) = Idle \/ Head(Rest(request[r]).todo) \notin {"expiry", "closeRoom"}
    <3>1. CASE request[r] \in WritingLocal
      BY <1>3, <3>1, RestWriting
    <3>2. CASE request[r] \in PhaseLocal \cup OpeningLocal
      BY <3>2, RestShort
    <3>3. CASE request[r] \in RatingLocal
      BY <3>3, RestRating, ClosesNothing
    <3> QED
      BY <1>1, <3>1, <3>2, <3>3 DEF Locals
  <2> QED
    BY <2>1, <2>2, NewHandler
<1> QED
  BY <1>2, <1>3

LEMMA KeptHandlers ==
  ASSUME HandlersKeep
  PROVE  \A q \in Requests : request'[q] = request[q] \/ (Marked(q)' /\ Decided(q)')
BY DEF HandlersKeep, Marked, Decided

LEMMA BegunHandlers ==
  ASSUME TypeInv, NEW r \in Requests, NEW local, Accept(r, local),
         Head(local.todo) \notin {"expiry", "closeRoom"}
  PROVE  HandlersKeep
<1>1. request' = [request EXCEPT ![r] = local]
  BY DEF Accept
<1> QED
  BY <1>1, NewHandler

\* What happens besides the chat.
LEMMA OthersClose ==
  ASSUME ClosingInv, TypeInv', UNCHANGED chatVars, OverLasts, HandlersKeep
  PROVE  ClosingInv'
<1>1. RoomsKeep /\ room' = room
  BY DEF chatVars, RoomsKeep, Exists
<1>2. crossed' = crossed /\ job' = job
  BY DEF chatVars
<1>3. \A q \in Requests : request'[q] = request[q] \/ (Marked(q)' /\ Decided(q)')
  BY KeptHandlers
<1> QED
  BY <1>1, <1>2, <1>3, StepCloses

LEMMA PhasesClose ==
  ASSUME ClosingInv, TypeInv', PhasesNext, UNCHANGED chatVars
  PROVE  ClosingInv'
<1>0. TypeInv
  BY DEF ClosingInv
<1>1. HandlersKeep
  <2>1. ASSUME NEW r \in Requests, PhaseBegins(r)
        PROVE  HandlersKeep
    <3>1. PICK b \in Bookings, status \in {"CONFIRMED", "COMPLETED", "CANCELLED"},
               dated \in {"nothing", "completedAt", "cancelledAt"} : PhaseRequest(r, b, status, dated)
      BY <2>1 DEF PhaseBegins, UpdateBookingStatus, CancelBooking
    <3> DEFINE local == [todo |-> <<"write">>, ends |-> b, sets |-> status, dates |-> dated]
    <3>2. local \in PhaseLocal
      BY DEF PhaseLocal
    <3>3. Accept(r, local)
      BY <3>1 DEF PhaseRequest
    <3> HIDE DEF local
    <3> QED
      BY <1>0, <3>2, <3>3, ClosesNothing, BegunHandlers
  <2>2. ASSUME NEW r \in Requests, WritePhase(r) \/ PhaseFails(r)
        PROVE  HandlersKeep
    BY <1>0, <2>2, AdvanceCloses DEF WritePhase, PhaseFails, At
  <2>3. ASSUME NEW b \in Bookings, DayPasses(b)
        PROVE  HandlersKeep
    BY <2>3 DEF DayPasses, handlerVars, HandlersKeep
  <2> QED
    BY <2>1, <2>2, <2>3 DEF PhasesNext
<1> QED
  BY <1>0, <1>1, PhasesOver, OthersClose

LEMMA SameBookings ==
  ASSUME UNCHANGED phaseVars
  PROVE  OverLasts
BY DEF OverLasts, phaseVars

LEMMA ReviewsClose ==
  ASSUME ClosingInv, TypeInv', ReviewsNext, UNCHANGED chatVars
  PROVE  ClosingInv'
<1>0. TypeInv
  BY DEF ClosingInv
<1>1. ASSUME NEW r \in Requests, ReviewBegins(r)
      PROVE  HandlersKeep /\ UNCHANGED phaseVars
  <2>1. PICK local \in RatingLocal : Accept(r, local) /\ UNCHANGED <<reviewVars, phaseVars>>
    BY <1>1, ReviewBegun
  <2> QED
    BY <1>0, <2>1, ClosesNothing, BegunHandlers
<1>2. ASSUME NEW r \in Requests, InsertReview(r) \/ SetDeleted(r) \/ WriteRating(r) \/ ReviewFails(r)
      PROVE  HandlersKeep /\ UNCHANGED phaseVars
  <2>1. request[r] # Idle /\ UNCHANGED phaseVars
    BY <1>2 DEF InsertReview, SetDeleted, WriteRating, ReviewFails, OfReview, At
  <2>2. Advance(r) \/ Throw(r) \/ Cut(r)
    BY <1>2 DEF InsertReview, SetDeleted, WriteRating, ReviewFails
  <2>3. Cut(r) \/ Throw(r) \/ Head(request[r].todo) # "findRoom"
    BY <1>2 DEF InsertReview, SetDeleted, WriteRating, ReviewFails, At
  <2> QED
    BY <1>0, <2>1, <2>2, <2>3, AdvanceCloses
<1>3. ASSUME NEW r \in Requests, ReadRating(r)
      PROVE  HandlersKeep /\ UNCHANGED phaseVars
  <2>1. request[r] \in RatingLocal
    BY <1>0, <1>3, RaterKnown DEF ReadRating, ReviewSteps, RateSteps
  <2>2. PICK seen \in SUBSET Bookings : Continues(r, Rest([request[r] EXCEPT !.seen = seen]))
    <3>1. \A x : Counts(x) \in SUBSET Bookings
      BY DEF Counts
    <3> QED
      BY <1>3, <3>1 DEF ReadRating
  <2>3. [request[r] EXCEPT !.seen = seen] \in RatingLocal
    BY <2>1, RatingChanged
  <2>4. Rest([request[r] EXCEPT !.seen = seen]) \in {Idle} \cup RatingLocal
    BY <2>3, RestRating
  <2>5. request' = [request EXCEPT ![r] = Rest([request[r] EXCEPT !.seen = seen])]
    BY <2>2 DEF Continues
  <2> QED
    BY <1>0, <1>3, <2>4, <2>5, ClosesNothing, NewHandler DEF ReadRating
<1>4. HandlersKeep /\ OverLasts
  BY <1>1, <1>2, <1>3, SameBookings DEF ReviewsNext, ReviewGoesOn
<1> QED
  BY <1>0, <1>4, OthersClose

\* Finding the room, and the booking it names.
LEMMA FindRoomCloses ==
  ASSUME ClosingInv, TypeInv', NEW r \in Requests, FindRoom(r)
  PROVE  ClosingInv'
<1>0. TypeInv
  BY DEF ClosingInv
<1> DEFINE p == request[r].pair
           found == [request[r] EXCEPT !.booking = room[p].booking]
<1>1. request[r] \in WritingLocal /\ p \in Pairs
  BY <1>0, WritersKnown DEF FindRoom
<1>2. room[p].booking \in Bookings \cup {None}
  BY <1>0, <1>1 DEF TypeInv, Types, ChatTypeOK, RoomRecord
<1>3. /\ found \in WritingLocal /\ found.pair = p /\ found.booking = room[p].booking
      /\ found.todo = request[r].todo
  BY <1>1, <1>2, WritingChanged
<1>4. Head(found.todo) = "findRoom"
  BY <1>3 DEF FindRoom, At
<1>5. /\ Head(Rest(found).todo) = "expiry"
      /\ Rest(found).pair = p /\ Rest(found).booking = room[p].booking
  <2> HIDE DEF found, p
  <2> QED
    BY <1>3, <1>4, RestWriting
<1>6. /\ request' = [request EXCEPT ![r] = Rest(found)]
      /\ UNCHANGED <<chatVars, phaseVars>>
  BY DEF FindRoom, Continues
<1>7. request'[r] = Rest(found) /\ \A q \in Requests \ {r} : request'[q] = request[q]
  <2> HIDE DEF found
  <2> QED
    BY <1>0, <1>6 DEF TypeInv, Types, Shaped
<1>8. room' = room /\ crossed' = crossed /\ job' = job
  BY <1>6 DEF chatVars
<1>9. Marked(r)' /\ Decided(r)'
  <2> HIDE DEF found
  <2>1. request'[r].booking = room'[request'[r].pair].booking
    BY <1>5, <1>7, <1>8
  <2>2. Head(request'[r].todo) # "closeRoom"
    BY <1>5, <1>7
  <2> QED
    BY <2>1, <2>2 DEF Marked, Decided, At
<1>10. \A q \in Requests : request'[q] = request[q] \/ (Marked(q)' /\ Decided(q)')
  BY <1>7, <1>9
<1>11. RoomsKeep /\ OverLasts
  BY <1>6, <1>8, SameBookings DEF RoomsKeep, Exists
<1> QED
  BY <1>8, <1>10, <1>11, StepCloses

\* A handler closes the room when it has found the booking over.
LEMMA VerifyCloses ==
  ASSUME ClosingInv, TypeInv', NEW r \in Requests, VerifyExpiry(r)
  PROVE  ClosingInv'
<1>0. TypeInv
  BY DEF ClosingInv
<1> DEFINE p == request[r].pair
           closing == [request[r] EXCEPT !.todo = <<"closeRoom">>]
<1>1. request[r] \in WritingLocal /\ p \in Pairs /\ At(r, "expiry")
  BY <1>0, WritersKnown DEF VerifyExpiry
<1>2. closing \in WritingLocal /\ closing.pair = p /\ closing.todo = <<"closeRoom">>
  BY <1>1, WritingChanged DEF WritingTodos
<1>3. Head(closing.todo) = "closeRoom"
  <2>1. Head(<<"closeRoom">>) = "closeRoom"
    OBVIOUS
  <2> QED
    BY <1>2, <2>1
<1>4. UNCHANGED <<chatVars, phaseVars>>
  BY DEF VerifyExpiry
<1>5. room' = room /\ crossed' = crossed /\ job' = job /\ booking' = booking /\ resumed' = resumed
  BY <1>4 DEF chatVars, phaseVars
<1>6. RoomsKeep /\ OverLasts
  BY <1>4, <1>5, SameBookings DEF RoomsKeep, Exists
<1>7. CASE Over(booking[request[r].booking]) /\ Continues(r, closing)
  <2>1. WasOver(p)
    BY <1>1, <1>7 DEF ClosingInv, Marked, WasOver
  <2>2. request'[r] = closing /\ \A q \in Requests \ {r} : request'[q] = request[q]
    <3> HIDE DEF closing
    <3> QED
      BY <1>0, <1>7 DEF TypeInv, Types, Shaped, Continues
  <2>3. Marked(r)' /\ Decided(r)'
    <3> HIDE DEF closing
    <3>1. Head(request'[r].todo) # "expiry"
      BY <1>3, <2>2
    <3>2. request'[r].pair = p
      BY <1>2, <2>2
    <3>3. \/ Over(booking'[room'[request'[r].pair].booking])
          \/ room'[request'[r].pair].booking \in resumed' \cup crossed'
      BY <1>5, <2>1, <3>2 DEF WasOver
    <3> QED
      BY <3>1, <3>3 DEF Marked, Decided, WasOver, At
  <2>4. \A q \in Requests : request'[q] = request[q] \/ (Marked(q)' /\ Decided(q)')
    BY <2>2, <2>3
  <2> QED
    BY <1>5, <1>6, <2>4, StepCloses
<1>8. CASE Advance(r)
  <2>1. HandlersKeep
    BY <1>0, <1>1, <1>8, AdvanceCloses DEF At
  <2> QED
    BY <1>5, <1>6, <2>1, KeptHandlers, StepCloses
<1> QED
  BY <1>7, <1>8 DEF VerifyExpiry

\* A handler's writes to its room.
LEMMA WriteCloses ==
  ASSUME ClosingInv, TypeInv', NEW r \in Requests,
         CloseRoom(r) \/ PersistMessage(r) \/ UpdateLastMessage(r)
  PROVE  ClosingInv'
<1>0. TypeInv
  BY DEF ClosingInv
<1> DEFINE p == request[r].pair
<1>1. p \in Pairs /\ Exists(p)
  <2>1. request[r] \in WritingLocal /\ p \in Pairs
    BY <1>0, WritersKnown DEF CloseRoom, PersistMessage, UpdateLastMessage
  <2> QED
    BY <1>0, <2>1 DEF TypeInv, WritersMet, Met
<1>2. RoomsKeep
  BY <1>0, RoomWrites
<1>3. OverLasts /\ crossed' = crossed /\ job' = job
  BY SameBookings DEF CloseRoom, PersistMessage, UpdateLastMessage
<1>4. HandlersKeep
  BY <1>0, AdvanceCloses DEF CloseRoom, PersistMessage, UpdateLastMessage, At
<1>5. ASSUME NEW q \in Pairs, room'[q].status = "CLOSED"
      PROVE  room[q].status = "CLOSED" \/ (Exists(q) /\ WasOver(q))
  <2>1. room \in [Pairs -> RoomRecord]
    BY <1>0 DEF TypeInv, Types, ChatTypeOK
  <2>2. CASE CloseRoom(r)
    <3>1. WasOver(p)
      BY <2>2 DEF CloseRoom, ClosingInv, Decided
    <3>2. q = p \/ room'[q] = room[q]
      BY <1>1, <2>1, <2>2 DEF CloseRoom
    <3> QED
      BY <1>1, <1>5, <3>1, <3>2
  <2>3. CASE PersistMessage(r)
    <3>1. room' = [room EXCEPT ![p] = [room[p] EXCEPT !.newest = request[r].number]]
      BY <2>3 DEF PersistMessage
    <3>2. [room[p] EXCEPT !.newest = request[r].number].status = room[p].status
      BY <1>1, <2>1 DEF RoomRecord
    <3>3. room'[q].status = room[q].status
      BY <1>1, <2>1, <3>1, <3>2
    <3> QED
      BY <1>5, <3>3
  <2>4. CASE UpdateLastMessage(r)
    <3>1. room' = [room EXCEPT ![p] = [room[p] EXCEPT !.preview = request[r].number]]
      BY <2>4 DEF UpdateLastMessage
    <3>2. [room[p] EXCEPT !.preview = request[r].number].status = room[p].status
      BY <1>1, <2>1 DEF RoomRecord
    <3>3. room'[q].status = room[q].status
      BY <1>1, <2>1, <3>1, <3>2
    <3> QED
      BY <1>5, <3>3
  <2> QED
    BY <2>2, <2>3, <2>4
<1> QED
  BY <1>2, <1>3, <1>4, <1>5, KeptHandlers, StepCloses

\* The job: it marks rooms and bookings, decides, closes.
LEMMA JobStepCloses ==
  ASSUME ClosingInv, TypeInv', Job \/ JobFails
  PROVE  ClosingInv'
<1>0. TypeInv
  BY DEF ClosingInv
<1>1. (OverLasts /\ crossed' = crossed /\ request' = request) \/ JobFails
  BY SameBookings DEF Job, ListRooms, MatchBookings, CloseExpiredRooms, handlerVars
<1>2. OverLasts /\ crossed' = crossed /\ request' = request
  BY <1>1, SameBookings DEF JobFails
<1>3. \A p \in job.rooms : p \in Pairs /\ Exists(p)
  BY <1>0 DEF TypeInv, Types, ChatTypeOK, JobRecord, JobMet
<1>4. CASE CloseExpiredRooms
  <2>1. job.at = "close" /\ job' = NoJob
    BY <1>4 DEF CloseExpiredRooms
  <2>2. JobMarked' /\ JobDecided'
    BY <2>1 DEF JobMarked, JobDecided, NoJob
  <2>3. ASSUME NEW q \in Pairs, room'[q].status = "CLOSED"
        PROVE  room[q].status = "CLOSED" \/ (Exists(q) /\ WasOver(q))
    <3>1. CASE q \in job.rooms
      BY <1>3, <2>1, <3>1 DEF ClosingInv, JobDecided
    <3>2. CASE q \notin job.rooms
      <4>1. room'[q] = room[q]
        BY <1>4, <3>2 DEF CloseExpiredRooms
      <4> QED
        BY <2>3, <4>1
    <3> QED
      BY <3>1, <3>2
  <2> QED
    BY <1>0, <1>2, <1>4, <2>2, <2>3, JobCloses, StepCloses
<1>5. ASSUME room' = room, JobMarked' /\ JobDecided'
      PROVE  ClosingInv'
  <2>1. RoomsKeep
    BY <1>5 DEF RoomsKeep, Exists
  <2> QED
    BY <1>2, <1>5, <2>1, StepCloses
<1>6. CASE ListRooms
  <2>1. /\ job'.at = "match" /\ job'.rooms = OpenRooms
        /\ job'.found = {room[p].booking : p \in OpenRooms}
    BY <1>6 DEF ListRooms, NoJob
  <2>2. ASSUME NEW p \in OpenRooms, NEW q \in OpenRooms, PairOf[room[q].booking] = p
        PROVE  room[q].booking = room[p].booking
    BY <1>0, <2>2 DEF OpenRooms, TypeInv, RoomsKnown, Exists
  <2>3. room' = room
    BY <1>6 DEF ListRooms
  <2>4. JobMarked' /\ JobDecided'
    BY <2>1, <2>2, <2>3 DEF JobMarked, JobDecided
  <2> QED
    BY <1>5, <2>3, <2>4
<1>7. CASE MatchBookings
  <2> DEFINE rooms == {p \in job.rooms : \E b \in job.found : PairOf[b] = p /\ Over(booking[b])}
  <2>1. job'.at = "close" /\ job'.rooms = rooms
    <3>1. job' = [job EXCEPT !.at = "close", !.rooms = rooms]
      BY <1>7 DEF MatchBookings
    <3>2. job \in JobRecord
      BY <1>0 DEF TypeInv, Types, ChatTypeOK
    <3> HIDE DEF rooms
    <3> QED
      BY <3>1, <3>2 DEF JobRecord
  <2>2. room' = room /\ booking' = booking /\ resumed' = resumed
    BY <1>7 DEF MatchBookings, phaseVars
  <2>3. ASSUME NEW p \in rooms
        PROVE  WasOver(p)
    <3>1. PICK b \in job.found : PairOf[b] = p /\ Over(booking[b])
      OBVIOUS
    <3>2. p \in job.rooms /\ job.at = "match"
      BY <1>7 DEF MatchBookings
    <3>3. b = room[p].booking \/ room[p].booking \in crossed
      BY <3>1, <3>2 DEF ClosingInv, JobMarked
    <3> QED
      BY <3>1, <3>3 DEF WasOver
  <2>4. JobMarked' /\ JobDecided'
    <3> HIDE DEF rooms
    <3> QED
      BY <1>2, <2>1, <2>2, <2>3 DEF JobMarked, JobDecided, WasOver
  <2> QED
    BY <1>5, <2>2, <2>4
<1>8. CASE JobFails
  <2>1. room' = room /\ JobMarked' /\ JobDecided'
    BY <1>8 DEF JobFails, JobMarked, JobDecided, NoJob
  <2> QED
    BY <1>5, <2>1
<1> QED
  BY <1>4, <1>6, <1>7, <1>8 DEF Job

\* A room is opened for another booking: whoever is about to close it is crossed.
LEMMA OpenedCloses ==
  ASSUME ClosingInv, TypeInv', NEW r \in Requests, At(r, "createRoom") \/ At(r, "reopen"), Opened(r)
  PROVE  ClosingInv'
<1>0. TypeInv
  BY DEF ClosingInv
<1> DEFINE p == request[r].pair
           b == request[r].booking
<1>1. p \in Pairs /\ b \in Bookings
  BY <1>0, OpensKnown
<1>2. /\ room'[p].status = "OPEN" /\ room'[p].booking = b
      /\ \A q \in Pairs \ {p} : room'[q] = room[q]
  BY <1>0, OpenedRoom
<1>3. /\ crossed \subseteq crossed'
      /\ Closing(p) => b \in crossed'
      /\ job' = job /\ booking' = booking /\ resumed' = resumed
  BY DEF Opened, phaseVars
<1>4. HandlersKeep
  BY <1>0, AdvanceCloses DEF Opened, At
<1> HIDE DEF p, b
\* Rooms that are not opened keep what was known of them; of p, it matters only
\* when somebody is closing it.
<1>5. ASSUME NEW q \in Pairs, q # p, WasOver(q)
      PROVE  \/ Over(booking'[room'[q].booking])
             \/ room'[q].booking \in resumed' \cup crossed'
  BY <1>2, <1>3, <1>5 DEF WasOver
<1>6. ClosedWasOver'
  <2>1. SUFFICES ASSUME NEW q \in Pairs, room'[q].status = "CLOSED"
                 PROVE  \/ Over(booking'[room'[q].booking])
                        \/ room'[q].booking \in resumed' \cup crossed'
    BY DEF ClosedWasOver
  <2>2. q # p /\ room'[q] = room[q]
    BY <1>2, <2>1
  <2>3. WasOver(q)
    BY <2>1, <2>2 DEF ClosingInv, ClosedWasOver, WasOver
  <2> QED
    BY <1>5, <2>2, <2>3
<1>7. \A q \in job.rooms : q \in Pairs
  BY <1>0 DEF TypeInv, Types, ChatTypeOK, JobRecord
<1>8. p \in job.rooms /\ job.at # "idle" => b \in crossed'
  BY <1>3 DEF Closing
<1>9. JobMarked'
  <2>1. SUFFICES ASSUME job.at = "match", NEW q \in job.rooms, NEW c \in job.found, PairOf[c] = q
                 PROVE  c = room'[q].booking \/ room'[q].booking \in crossed'
    BY <1>3 DEF JobMarked
  <2>2. CASE q = p
    BY <1>2, <1>8, <2>1, <2>2
  <2>3. CASE q # p
    <3>1. c = room[q].booking \/ room[q].booking \in crossed
      BY <2>1 DEF ClosingInv, JobMarked
    <3> QED
      BY <1>2, <1>3, <1>7, <2>3, <3>1
  <2> QED
    BY <2>2, <2>3
<1>10. JobDecided'
  <2>1. SUFFICES ASSUME job.at = "close", NEW q \in job.rooms
                 PROVE  \/ Over(booking'[room'[q].booking])
                        \/ room'[q].booking \in resumed' \cup crossed'
    BY <1>3 DEF JobDecided, WasOver
  <2>2. CASE q = p
    BY <1>2, <1>8, <2>1, <2>2
  <2>3. CASE q # p
    <3>1. WasOver(q)
      BY <2>1 DEF ClosingInv, JobDecided
    <3> QED
      BY <1>5, <1>7, <2>3, <3>1
  <2> QED
    BY <2>2, <2>3
<1>11. ASSUME NEW q \in Requests, request'[q] = request[q]
       PROVE  Marked(q)' /\ Decided(q)'
  <2>1. CASE At(q, "expiry") \/ At(q, "closeRoom")
    <3>1. request[q].pair \in Pairs
      BY <1>0, <2>1, AtRoom
    <3>2. CASE request[q].pair = p
      <4>1. b \in crossed'
        BY <1>3, <2>1, <3>2 DEF Closing
      <4>2. room'[request'[q].pair].booking \in crossed'
        BY <1>2, <1>11, <3>2, <4>1
      <4> QED
        BY <4>2 DEF Marked, Decided, WasOver
    <3>3. CASE request[q].pair # p
      <4>1. room'[request[q].pair] = room[request[q].pair]
        BY <1>2, <3>1, <3>3
      <4>2. Marked(q)'
        BY <1>3, <1>11, <4>1 DEF ClosingInv, Marked, At
      <4>3. Decided(q)'
        <5>1. SUFFICES ASSUME At(q, "closeRoom")'
                       PROVE  \/ Over(booking'[room'[request'[q].pair].booking])
                              \/ room'[request'[q].pair].booking \in resumed' \cup crossed'
          BY DEF Decided, WasOver
        <5>2. WasOver(request[q].pair)
          BY <1>11, <5>1 DEF ClosingInv, Decided, At
        <5> QED
          BY <1>5, <1>11, <3>1, <3>3, <5>2
      <4> QED
        BY <4>2, <4>3
    <3> QED
      BY <3>2, <3>3
  <2>2. CASE ~At(q, "expiry") /\ ~At(q, "closeRoom")
    BY <1>11, <2>2 DEF Marked, Decided, At
  <2> QED
    BY <2>1, <2>2
<1>12. \A q \in Requests : Marked(q)' /\ Decided(q)'
  BY <1>4, <1>11, KeptHandlers
<1> QED
  BY <1>6, <1>9, <1>10, <1>12 DEF ClosingInv

LEMMA ChatCloses ==
  ASSUME ClosingInv, TypeInv', ChatNext
  PROVE  ClosingInv'
<1>0. TypeInv
  BY DEF ClosingInv
<1>1. ASSUME NEW r \in Requests, ChatBegins(r)
      PROVE  ClosingInv'
  <2>1. PICK local \in OpeningLocal \cup WritingLocal :
          /\ Accept(r, local) /\ UNCHANGED <<chatVars, phaseVars>>
          /\ Head(local.todo) \in {"findRoom", "createRoom", "reopen"}
    BY <1>0, <1>1, ChatBegun
  <2>2. HandlersKeep
    BY <1>0, <2>1, BegunHandlers
  <2> QED
    BY <2>1, <2>2, SameBookings, OthersClose
<1>2. ASSUME NEW r \in Requests, CreateRoom(r) \/ Reopen(r)
      PROVE  ClosingInv'
  <2>1. CASE Opened(r)
    BY <1>2, <2>1, OpenedCloses DEF CreateRoom, Reopen
  <2>2. CASE Throw(r) /\ UNCHANGED <<chatVars, phaseVars>>
    <3>1. HandlersKeep
      BY <1>0, <1>2, <2>2, AdvanceCloses DEF CreateRoom, Reopen, At
    <3> QED
      BY <2>2, <3>1, SameBookings, OthersClose
  <2> QED
    BY <1>2, <2>1, <2>2 DEF CreateRoom, Reopen
<1>3. ASSUME NEW r \in Requests, ChatGoesOn(r)
      PROVE  ClosingInv'
  BY <1>2, <1>3, FindRoomCloses, VerifyCloses, WriteCloses DEF ChatGoesOn
<1>4. ASSUME NEW r \in Requests, ChatFails(r)
      PROVE  ClosingInv'
  <2>1. HandlersKeep
    BY <1>0, <1>4, AdvanceCloses DEF ChatFails, OfChat
  <2> QED
    BY <1>4, <2>1, SameBookings, OthersClose DEF ChatFails
<1>5. ASSUME NEW p \in Pairs, NEW s \in Sides, MarkAsRead(p, s)
      PROVE  ClosingInv'
  <2>1. /\ room' = room /\ crossed' = crossed /\ job' = job /\ request' = request
        /\ UNCHANGED phaseVars
    BY <1>5 DEF MarkAsRead, AtOnce
  <2>2. RoomsKeep /\ OverLasts
    BY <2>1, SameBookings DEF RoomsKeep, Exists
  <2> QED
    BY <2>1, <2>2, StepCloses
<1> QED
  BY <1>1, <1>3, <1>4, <1>5, JobStepCloses DEF ChatNext

LEMMA ClosingLasts ==
  ClosingInv /\ TypeInv' /\ [Next]_vars => ClosingInv'
<1> SUFFICES ASSUME ClosingInv, TypeInv', [Next]_vars PROVE ClosingInv'
  OBVIOUS
<1>1. CASE UNCHANGED vars
  <2>1. UNCHANGED <<request, room, job, crossed, booking, resumed>>
    BY <1>1 DEF vars, handlerVars, chatVars, phaseVars
  <2> QED
    BY <2>1 DEF ClosingInv, ClosedWasOver, JobMarked, JobDecided, Marked, Decided, WasOver, At
<1> QED
  BY <1>1, PhasesClose, ChatCloses, ReviewsClose DEF Next

LEMMA ClosingStart == Init => ClosingInv
<1> SUFFICES ASSUME Init PROVE ClosingInv
  OBVIOUS
<1>1. TypeInv
  BY TypesStart
<1>2. ClosedWasOver
  BY DEF Init, ChatInit, ClosedWasOver, NoRoom
<1>3. JobMarked /\ JobDecided
  BY DEF Init, ChatInit, JobMarked, JobDecided, NoJob
<1>4. \A r \in Requests : Marked(r) /\ Decided(r)
  BY DEF Init, HandlersInit, Marked, Decided, At
<1> QED
  BY <1>1, <1>2, <1>3, <1>4 DEF ClosingInv

\* A closed room is that of a booking that was over a day ago, unless the booking was
\* taken up again, or the room was opened for it while somebody was about to close it:
\* whatever messages, openings, cancellations and runs of the job overlap, and wherever
\* they are cut short (closeExpiredRooms, verifyRoomExpiry, findOrCreateRoom).
THEOREM ClosedRoomsWereOver == Spec => []ClosedWasOver
<1>1. Spec => []TypeInv
  BY TypesStart, TypesLast, PTL DEF Spec
<1>2. Spec => []ClosingInv
  BY <1>1, ClosingStart, ClosingLasts, PTL DEF Spec
<1>3. ClosingInv => ClosedWasOver
  BY DEF ClosingInv
<1> QED
  BY <1>2, <1>3, PTL

-----------------------------------------------------------------------------
(* The ratings count the reviews.                                           *)

\* As long as handlers have not overlapped, there is one at a time.
OneByOne ==
  overlapped \/ \A q, r \in Requests : request[q] # Idle /\ request[r] # Idle => q = r

\* The rating of x is yet to be written by the handler of r.
Due(r, x) ==
  \/ At(r, "readStylist") /\ x \in {StylistOf[request[r].reviewed], ServiceOf[request[r].reviewed]}
  \/ At(r, "writeStylist") /\ x \in {StylistOf[request[r].reviewed], ServiceOf[request[r].reviewed]}
  \/ At(r, "readService") /\ x = ServiceOf[request[r].reviewed]
  \/ At(r, "writeService") /\ x = ServiceOf[request[r].reviewed]
AddUp == overlapped \/ faults > 0 \/ \A x \in Rated : rating[x] = Counts(x) \/ \E r \in Requests : Due(r, x)

\* What was counted is what there is to count, while nobody else writes.
Seen(r) ==
  /\ At(r, "writeStylist") => request[r].seen = Counts(StylistOf[request[r].reviewed])
  /\ At(r, "writeService") => request[r].seen = Counts(ServiceOf[request[r].reviewed])
CountedRight == overlapped \/ \A r \in Requests : Seen(r)

RatingInv == TypeInv /\ OneByOne /\ AddUp /\ CountedRight

Rates(r) ==
  At(r, "readStylist") \/ At(r, "writeStylist") \/ At(r, "readService") \/ At(r, "writeService")

LEMMA DueIsToBeWritten ==
  ASSUME TypeInv, NEW r \in Requests, NEW x, Due(r, x)
  PROVE  ToBeWritten(x)
<1>1. request[r] \in RatingLocal /\ request[r] # Idle
  BY RaterKnown DEF Due, At, ReviewSteps, RateSteps
<1>2. "reviewed" \in DOMAIN request[r]
  BY <1>1 DEF RatingLocal
<1>3. request[r].todo \in FirstTodos \cup RatingTodos
  BY <1>1 DEF RatingLocal
<1> DEFINE b == request[r].reviewed
           Written(y, z) == <<y, z>> \in {<<"writeStylist", StylistOf[b]>>, <<"writeService", ServiceOf[b]>>}
<1>4. SUFFICES \E i \in 1 .. Len(request[r].todo) : Written(request[r].todo[i], x)
  BY <1>1, <1>2 DEF ToBeWritten, OfReview
<1>5. /\ x = StylistOf[b] => Written("writeStylist", x)
      /\ x = ServiceOf[b] => Written("writeService", x)
  OBVIOUS
<1> HIDE DEF Written, b
<1>6. CASE At(r, "readStylist")
  <2>1. request[r].todo = Both
    BY <1>3, <1>6, RatingHeads DEF At
  <2>2. Len(Both) = 4 /\ Both[2] = "writeStylist" /\ Both[4] = "writeService"
    BY DEF Both
  <2>3. x \in {StylistOf[b], ServiceOf[b]}
    BY <1>6 DEF Due, At, b
  <2> QED
    BY <1>5, <2>1, <2>2, <2>3
<1>7. CASE At(r, "writeStylist")
  <2>1. request[r].todo = StylistRead
    BY <1>3, <1>7, RatingHeads DEF At
  <2>2. Len(StylistRead) = 3 /\ StylistRead[1] = "writeStylist" /\ StylistRead[3] = "writeService"
    BY DEF StylistRead
  <2>3. x \in {StylistOf[b], ServiceOf[b]}
    BY <1>7 DEF Due, At, b
  <2> QED
    BY <1>5, <2>1, <2>2, <2>3
<1>8. CASE At(r, "readService")
  <2>1. request[r].todo = ServiceOnly
    BY <1>3, <1>8, RatingHeads DEF At
  <2>2. Len(ServiceOnly) = 2 /\ ServiceOnly[2] = "writeService"
    BY DEF ServiceOnly
  <2>3. x = ServiceOf[b]
    BY <1>8 DEF Due, At, b
  <2> QED
    BY <1>5, <2>1, <2>2, <2>3
<1>9. CASE At(r, "writeService")
  <2>1. request[r].todo = ServiceRead
    BY <1>3, <1>9, RatingHeads DEF At
  <2>2. Len(ServiceRead) = 1 /\ ServiceRead[1] = "writeService"
    BY DEF ServiceRead
  <2>3. x = ServiceOf[b]
    BY <1>9 DEF Due, At, b
  <2> QED
    BY <1>5, <2>1, <2>2, <2>3
<1> QED
  BY <1>6, <1>7, <1>8, <1>9 DEF Due

LEMMA AddUpFollows == RatingInv => RatingsAddUp
<1> SUFFICES ASSUME RatingInv, NEW x \in Rated, ~overlapped, ~(faults > 0)
             PROVE  rating[x] = Counts(x) \/ ToBeWritten(x)
  BY DEF RatingsAddUp
<1>1. rating[x] = Counts(x) \/ \E r \in Requests : Due(r, x)
  BY DEF RatingInv, AddUp
<1> QED
  BY <1>1, DueIsToBeWritten DEF RatingInv

\* Nobody starts working unless it is accepted, which is noted.
Busy ==
  \/ /\ overlapped => overlapped'
     /\ \A q \in Requests : request'[q] # Idle => request[q] # Idle
  \/ \E r \in Requests :
       /\ overlapped' = (overlapped \/ \E q \in Requests : request[q] # Idle)
       /\ \A q \in Requests \ {r} : request'[q] = request[q]

LEMMA OneByOneLasts ==
  ASSUME OneByOne, Busy
  PROVE  OneByOne'
<1>1. SUFFICES ASSUME ~overlapped', NEW q \in Requests, NEW r \in Requests,
                      request'[q] # Idle, request'[r] # Idle
               PROVE  q = r
  BY DEF OneByOne
<1>2. CASE /\ overlapped => overlapped'
           /\ \A s \in Requests : request'[s] # Idle => request[s] # Idle
  BY <1>1, <1>2 DEF OneByOne
<1>3. ASSUME NEW t \in Requests,
             overlapped' = (overlapped \/ \E s \in Requests : request[s] # Idle),
             \A s \in Requests \ {t} : request'[s] = request[s]
      PROVE  q = r
  <2>1. \A s \in Requests : request[s] = Idle
    BY <1>1, <1>3
  <2> QED
    BY <1>1, <1>3, <2>1
<1> QED
  BY <1>2, <1>3 DEF Busy

\* A step that has nothing to do with reviews: handlers that rate, do.
Unrated ==
  /\ UNCHANGED reviewVars
  /\ \A q \in Requests : request'[q] = request[q] \/ (~Rates(q) /\ ~Rates(q)')

LEMMA UnratedAddsUp ==
  ASSUME RatingInv, Busy, Unrated, TypeInv', faults > 0 => faults' > 0
  PROVE  RatingInv'
<1>1. OneByOne'
  BY OneByOneLasts DEF RatingInv
<1>2. overlapped => overlapped'
  BY DEF Busy
<1>3. review' = review /\ rating' = rating
  BY DEF Unrated, reviewVars
<1>4. \A x : Counts(x)' = Counts(x)
  BY <1>3 DEF Counts
<1>5. \A q \in Requests : \A x : Due(q, x) => Due(q, x)'
  BY DEF Unrated, Due, Rates, At
<1>6. AddUp'
  BY <1>2, <1>3, <1>4, <1>5 DEF RatingInv, AddUp
<1>7. \A q \in Requests : Seen(q) => Seen(q)'
  BY <1>4 DEF Unrated, Seen, Rates, At
<1>8. CountedRight'
  BY <1>2, <1>7 DEF RatingInv, CountedRight
<1> QED
  BY <1>1, <1>6, <1>8 DEF RatingInv

LEMMA AcceptIsBusy ==
  ASSUME TypeInv, NEW r \in Requests, NEW local, Accept(r, local)
  PROVE  /\ Busy /\ request[r] = Idle
         /\ request' = [request EXCEPT ![r] = local]
         /\ faults' = faults
BY DEF Accept, Counted, Busy, TypeInv, Types, Shaped

LEMMA ContinuesIsBusy ==
  ASSUME TypeInv, NEW r \in Requests, NEW local, request[r] # Idle, Continues(r, local)
  PROVE  /\ Busy
         /\ request' = [request EXCEPT ![r] = local]
         /\ faults' = faults
BY DEF Continues, Busy, TypeInv, Types, Shaped

\* Handlers that never rate anything.
Others == PhaseLocal \cup OpeningLocal \cup WritingLocal

LEMMA OthersRateNothing ==
  ASSUME NEW local \in Others
  PROVE  Head(local.todo) \notin RateSteps
<1>1. CASE local \in PhaseLocal
  BY <1>1, PhaseTodo DEF RateSteps
<1>2. CASE local \in OpeningLocal
  <2>1. Head(local.todo) \in {"createRoom", "reopen"}
    BY <1>2, OpeningHeads DEF OpeningLocal
  <2> QED
    BY <2>1 DEF RateSteps
<1>3. CASE local \in WritingLocal
  <2>1. Head(local.todo) \in {"findRoom", "expiry", "persist", "last", "closeRoom"}
    BY <1>3, WritingHeads DEF WritingLocal
  <2> QED
    BY <2>1 DEF RateSteps
<1> QED
  BY <1>1, <1>2, <1>3 DEF Others

LEMMA ElsewhereUnrated ==
  ASSUME TypeInv, UNCHANGED reviewVars, NEW r \in Requests, NEW local,
         request' = [request EXCEPT ![r] = local],
         request[r] = Idle \/ Head(request[r].todo) \notin RateSteps,
         local = Idle \/ Head(local.todo) \notin RateSteps
  PROVE  Unrated
<1>1. request'[r] = local /\ \A q \in Requests \ {r} : request'[q] = request[q]
  BY DEF TypeInv, Types, Shaped
<1>2. ~Rates(r)
  BY DEF Rates, At, RateSteps
<1>3. ~Rates(r)'
  BY <1>1 DEF Rates, At, RateSteps
<1> QED
  BY <1>1, <1>2, <1>3 DEF Unrated

\* A handler or the job is cut short.
LEMMA FaultAddsUp ==
  ASSUME RatingInv, TypeInv', UNCHANGED <<reviewVars, overlapped>>, faults' = faults + 1,
         \A q \in Requests : request'[q] = request[q] \/ request'[q] = Idle
  PROVE  RatingInv'
<1>1. faults' > 0
  BY DEF RatingInv, TypeInv, Types, HandlersTypeOK
<1>2. AddUp'
  BY <1>1 DEF AddUp
<1>3. OneByOne'
  BY DEF RatingInv, OneByOne
<1>4. \A x : Counts(x)' = Counts(x)
  BY DEF Counts, reviewVars
<1>5. \A q \in Requests : Seen(q) => Seen(q)'
  BY <1>4 DEF Seen, At
<1>6. CountedRight'
  BY <1>5 DEF RatingInv, CountedRight
<1> QED
  BY <1>2, <1>3, <1>6 DEF RatingInv

LEMMA CutAddsUp ==
  ASSUME RatingInv, TypeInv', NEW r \in Requests, Cut(r), UNCHANGED reviewVars
  PROVE  RatingInv'
<1>1. /\ UNCHANGED overlapped /\ faults' = faults + 1
      /\ request' = [request EXCEPT ![r] = Idle]
  BY DEF Cut
<1>2. \A q \in Requests : request'[q] = request[q] \/ request'[q] = Idle
  BY <1>1 DEF RatingInv, TypeInv, Types, Shaped
<1> QED
  BY <1>1, <1>2, FaultAddsUp

\* A handler of something else begins, goes on or ends.
LEMMA OthersAddUp ==
  ASSUME RatingInv, TypeInv', UNCHANGED reviewVars, NEW r \in Requests,
         NEW local \in Others \cup {Idle},
         Accept(r, local) \/ (Continues(r, local) /\ request[r] \in Others)
  PROVE  RatingInv'
<1>0. TypeInv
  BY DEF RatingInv
<1>1. local = Idle \/ Head(local.todo) \notin RateSteps
  BY OthersRateNothing
<1>2. CASE Accept(r, local)
  <2>1. Unrated
    BY <1>0, <1>1, <1>2, AcceptIsBusy, ElsewhereUnrated
  <2> QED
    BY <1>0, <1>2, <2>1, AcceptIsBusy, UnratedAddsUp
<1>3. CASE Continues(r, local) /\ request[r] \in Others
  <2>1. request[r] # Idle
    BY <1>3, IdleHasNothing DEF Others, Locals
  <2>2. Head(request[r].todo) \notin RateSteps
    BY <1>3, OthersRateNothing
  <2>3. Unrated
    BY <1>0, <1>1, <1>3, <2>1, <2>2, ContinuesIsBusy, ElsewhereUnrated
  <2> QED
    BY <1>0, <1>3, <2>1, <2>3, ContinuesIsBusy, UnratedAddsUp
<1> QED
  BY <1>2, <1>3

LEMMA AdvanceAddsUp ==
  ASSUME RatingInv, TypeInv', UNCHANGED reviewVars, NEW r \in Requests,
         request[r] \in Others, Advance(r) \/ Throw(r)
  PROVE  RatingInv'
<1>1. Rest(request[r]) \in Others \cup {Idle}
  BY RestShort, RestWriting DEF Others
<1> QED
  BY <1>1, OthersAddUp DEF Advance, Throw

\* No handler moves.
LEMMA QuietAddsUp ==
  ASSUME RatingInv, TypeInv', UNCHANGED <<reviewVars, request, faults>>, overlapped => overlapped'
  PROVE  RatingInv'
<1>1. Busy /\ Unrated
  BY DEF Busy, Unrated
<1> QED
  BY <1>1, UnratedAddsUp

LEMMA PhasesAddUp ==
  ASSUME RatingInv, TypeInv', PhasesNext, UNCHANGED reviewVars
  PROVE  RatingInv'
<1>0. TypeInv
  BY DEF RatingInv
<1>1. ASSUME NEW r \in Requests, PhaseBegins(r)
      PROVE  RatingInv'
  <2>1. PICK b \in Bookings, status \in {"CONFIRMED", "COMPLETED", "CANCELLED"},
             dated \in {"nothing", "completedAt", "cancelledAt"} : PhaseRequest(r, b, status, dated)
    BY <1>1 DEF PhaseBegins, UpdateBookingStatus, CancelBooking
  <2> DEFINE local == [todo |-> <<"write">>, ends |-> b, sets |-> status, dates |-> dated]
  <2>2. local \in Others
    BY DEF Others, PhaseLocal
  <2>3. Accept(r, local)
    BY <2>1 DEF PhaseRequest
  <2> HIDE DEF local
  <2> QED
    BY <2>2, <2>3, OthersAddUp
<1>2. ASSUME NEW r \in Requests, WritePhase(r)
      PROVE  RatingInv'
  <2>1. request[r] \in Others
    BY <1>0, <1>2, Carrying DEF WritePhase, At, TypeInv, Types, Others
  <2> QED
    BY <1>2, <2>1, AdvanceAddsUp DEF WritePhase
<1>3. ASSUME NEW r \in Requests, PhaseFails(r)
      PROVE  RatingInv'
  BY <1>3, CutAddsUp DEF PhaseFails
<1>4. ASSUME NEW b \in Bookings, DayPasses(b)
      PROVE  RatingInv'
  BY <1>4, QuietAddsUp DEF DayPasses, handlerVars
<1> QED
  BY <1>1, <1>2, <1>3, <1>4 DEF PhasesNext

LEMMA ChatAddsUp ==
  ASSUME RatingInv, TypeInv', ChatNext, UNCHANGED reviewVars
  PROVE  RatingInv'
<1>0. TypeInv
  BY DEF RatingInv
<1>1. ASSUME NEW r \in Requests, ChatBegins(r)
      PROVE  RatingInv'
  <2>1. PICK local \in OpeningLocal \cup WritingLocal : Accept(r, local)
    BY <1>0, <1>1, ChatBegun
  <2> QED
    BY <2>1, OthersAddUp DEF Others
<1>2. ASSUME NEW r \in Requests, CreateRoom(r) \/ Reopen(r)
      PROVE  RatingInv'
  <2>1. request[r] \in Others
    BY <1>0, <1>2, OpensKnown DEF CreateRoom, Reopen, Others
  <2>2. Advance(r) \/ Throw(r)
    BY <1>2 DEF CreateRoom, Reopen, Opened
  <2> QED
    BY <2>1, <2>2, AdvanceAddsUp
<1>3. ASSUME NEW r \in Requests, FindRoom(r)
      PROVE  RatingInv'
  <2> DEFINE found == [request[r] EXCEPT !.booking = room[request[r].pair].booking]
  <2>1. request[r] \in WritingLocal /\ request[r].pair \in Pairs
    BY <1>0, <1>3, WritersKnown DEF FindRoom
  <2>2. room[request[r].pair].booking \in Bookings \cup {None}
    BY <1>0, <2>1 DEF TypeInv, Types, ChatTypeOK, RoomRecord
  <2>3. found \in WritingLocal
    BY <2>1, <2>2, WritingChanged
  <2>4. Rest(found) \in Others \cup {Idle}
    BY <2>3, RestWriting DEF Others
  <2>5. Continues(r, Rest(found))
    BY <1>3 DEF FindRoom
  <2> HIDE DEF found
  <2> QED
    BY <2>1, <2>4, <2>5, OthersAddUp DEF Others
<1>4. ASSUME NEW r \in Requests, VerifyExpiry(r)
      PROVE  RatingInv'
  <2> DEFINE closing == [request[r] EXCEPT !.todo = <<"closeRoom">>]
  <2>1. request[r] \in WritingLocal
    BY <1>0, <1>4, WritersKnown DEF VerifyExpiry
  <2>2. closing \in WritingLocal
    BY <2>1, WritingChanged DEF WritingTodos
  <2>3. Continues(r, closing) \/ Advance(r)
    BY <1>4 DEF VerifyExpiry
  <2> HIDE DEF closing
  <2> QED
    BY <2>1, <2>2, <2>3, OthersAddUp, AdvanceAddsUp DEF Others
<1>5. ASSUME NEW r \in Requests, CloseRoom(r) \/ PersistMessage(r) \/ UpdateLastMessage(r)
      PROVE  RatingInv'
  <2>1. request[r] \in Others
    BY <1>0, <1>5, WritersKnown DEF CloseRoom, PersistMessage, UpdateLastMessage, Others
  <2>2. Advance(r)
    BY <1>5 DEF CloseRoom, PersistMessage, UpdateLastMessage
  <2> QED
    BY <2>1, <2>2, AdvanceAddsUp
<1>6. ASSUME NEW r \in Requests, ChatFails(r)
      PROVE  RatingInv'
  BY <1>6, CutAddsUp DEF ChatFails
<1>7. ASSUME NEW p \in Pairs, NEW s \in Sides, MarkAsRead(p, s)
      PROVE  RatingInv'
  BY <1>7, QuietAddsUp DEF MarkAsRead, AtOnce, Counted
<1>8. CASE Job
  BY <1>8, QuietAddsUp DEF Job, ListRooms, MatchBookings, CloseExpiredRooms, handlerVars
<1>9. CASE JobFails
  BY <1>9, FaultAddsUp DEF JobFails
<1> QED
  BY <1>1, <1>2, <1>3, <1>4, <1>5, <1>6, <1>7, <1>8, <1>9 DEF ChatNext, ChatGoesOn

\* A review is written: both its ratings are due.
LEMMA ReviewWritten ==
  ASSUME RatingInv, TypeInv', NEW r \in Requests, InsertReview(r) \/ SetDeleted(r)
  PROVE  RatingInv'
<1>0. TypeInv
  BY DEF RatingInv
<1> DEFINE b == request[r].reviewed
<1>1. /\ request[r] \in RatingLocal /\ b \in Bookings /\ request[r] # Idle
      /\ Head(request[r].todo) \in {"create", "hide", "restore"}
  BY <1>0, RaterKnown DEF InsertReview, SetDeleted, ReviewSteps, At
<1>2. rating' = rating
  BY DEF InsertReview, SetDeleted
<1>3. CASE Throw(r) /\ UNCHANGED review
  <2>1. UNCHANGED reviewVars
    BY <1>2, <1>3 DEF reviewVars
  <2>2. Head(request[r].todo) \notin RateSteps
    BY <1>1 DEF RateSteps
  <2>3. Unrated
    BY <1>0, <1>1, <1>3, <2>1, <2>2, ContinuesIsBusy, ElsewhereUnrated DEF Throw
  <2> QED
    BY <1>0, <1>1, <1>3, <2>3, ContinuesIsBusy, UnratedAddsUp DEF Throw
<1>4. CASE Advance(r) /\ \E v : review' = [review EXCEPT ![b] = v]
  <2>1. /\ Busy /\ faults' = faults /\ overlapped' = overlapped
        /\ request' = [request EXCEPT ![r] = Rest(request[r])]
    BY <1>0, <1>1, <1>4, ContinuesIsBusy DEF Advance, Continues
  <2>2. /\ request'[r] = Rest(request[r])
        /\ \A q \in Requests \ {r} : request'[q] = request[q]
    BY <1>0, <2>1 DEF TypeInv, Types, Shaped
  <2>3. /\ Rest(request[r]) \in RatingLocal /\ Rest(request[r]).reviewed = b
        /\ Head(Rest(request[r]).todo) = "readStylist"
    BY <1>1, RestRating
  <2>4. Rest(request[r]) # Idle
    BY <2>3, IdleHasNothing DEF Locals
  <2>5. \E v : review' = [review EXCEPT ![b] = v]
    BY <1>4
  <2>6. ASSUME NEW x, x \notin {StylistOf[b], ServiceOf[b]}
        PROVE  Counts(x)' = Counts(x)
    <3>1. \A c \in Bookings \ {b} : review'[c] = review[c]
      BY <1>0, <2>5 DEF TypeInv, Types, ReviewsTypeOK
    <3> HIDE DEF b
    <3> QED
      BY <2>6, <3>1 DEF Counts
  <2>7. ASSUME NEW x, x \in {StylistOf[b], ServiceOf[b]}
        PROVE  Due(r, x)'
    <3>1. request'[r].reviewed = b /\ Head(request'[r].todo) = "readStylist" /\ request'[r] # Idle
      BY <2>2, <2>3, <2>4
    <3> QED
      BY <2>7, <3>1 DEF Due, At
  <2>8. ASSUME NEW q \in Requests, NEW x, Due(q, x)
        PROVE  Due(q, x)'
    <3>1. q # r
      BY <1>1, <2>8 DEF Due, At
    <3>2. request'[q] = request[q]
      BY <2>2, <3>1
    <3> QED
      BY <2>8, <3>2 DEF Due, At
  <2>9. AddUp'
    <3>1. ASSUME ~overlapped, ~(faults > 0), NEW x \in Rated
          PROVE  rating'[x] = Counts(x)' \/ \E q \in Requests : Due(q, x)'
      <4>1. CASE x \in {StylistOf[b], ServiceOf[b]}
        BY <2>7, <4>1
      <4>2. CASE x \notin {StylistOf[b], ServiceOf[b]}
        <5>1. rating[x] = Counts(x) \/ \E q \in Requests : Due(q, x)
          BY <3>1 DEF RatingInv, AddUp
        <5> QED
          BY <1>2, <2>6, <2>8, <4>2, <5>1
      <4> QED
        BY <4>1, <4>2
    <3> QED
      BY <2>1, <3>1 DEF AddUp
  <2>10. OneByOne'
    BY <2>1, OneByOneLasts DEF RatingInv
  <2>11. CountedRight'
    <3>1. ASSUME ~overlapped, NEW q \in Requests
          PROVE  Seen(q)'
      <4>1. CASE q = r
        <5>1. Head(request'[q].todo) = "readStylist"
          BY <2>2, <2>3, <4>1
        <5> QED
          BY <5>1 DEF Seen, At
      <4>2. CASE q # r
        <5>1. request[q] = Idle /\ request'[q] = request[q]
          BY <1>1, <2>2, <3>1, <4>2 DEF RatingInv, OneByOne
        <5> QED
          BY <5>1 DEF Seen, At
      <4> QED
        BY <4>1, <4>2
    <3> QED
      BY <2>1, <3>1 DEF CountedRight
  <2> QED
    BY <2>9, <2>10, <2>11 DEF RatingInv
<1>5. CASE InsertReview(r)
  BY <1>3, <1>4, <1>5 DEF InsertReview
<1>6. CASE SetDeleted(r)
  BY <1>4, <1>6 DEF SetDeleted
<1> QED
  BY <1>5, <1>6

\* The reviews of the stylist or the service are counted.
LEMMA RatingRead ==
  ASSUME RatingInv, TypeInv', NEW r \in Requests, ReadRating(r)
  PROVE  RatingInv'
<1>0. TypeInv
  BY DEF RatingInv
<1> DEFINE b == request[r].reviewed
<1>1. /\ request[r] \in RatingLocal /\ b \in Bookings /\ request[r] # Idle
  BY <1>0, RaterKnown DEF ReadRating, ReviewSteps, RateSteps, At
<1>2. review' = review /\ rating' = rating /\ \A x : Counts(x)' = Counts(x)
  BY DEF ReadRating, reviewVars, Counts
<1>3. PICK seen \in SUBSET Bookings :
        /\ Continues(r, Rest([request[r] EXCEPT !.seen = seen]))
        /\ \/ At(r, "readStylist") /\ seen = Counts(StylistOf[b])
           \/ At(r, "readService") /\ seen = Counts(ServiceOf[b])
  <2>1. \A x : Counts(x) \in SUBSET Bookings
    BY DEF Counts
  <2> QED
    BY <2>1 DEF ReadRating
<1> DEFINE noted == [request[r] EXCEPT !.seen = seen]
<1>4. /\ noted \in RatingLocal /\ noted.todo = request[r].todo
      /\ noted.reviewed = b /\ noted.seen = seen
  BY <1>1, RatingChanged
<1>5. /\ Rest(noted) \in RatingLocal /\ Rest(noted).reviewed = b /\ Rest(noted).seen = seen
      /\ At(r, "readStylist") => Head(Rest(noted).todo) = "writeStylist"
      /\ At(r, "readService") => Head(Rest(noted).todo) = "writeService"
  <2> HIDE DEF noted, b
  <2>1. Head(noted.todo) # "writeService"
    BY <1>3, <1>4 DEF At
  <2> QED
    BY <1>4, <2>1, RestRating DEF At
<1>6. Rest(noted) # Idle
  BY <1>5, IdleHasNothing DEF Locals
<1>7. /\ Busy /\ faults' = faults /\ overlapped' = overlapped
      /\ request' = [request EXCEPT ![r] = Rest(noted)]
  BY <1>0, <1>1, <1>3, ContinuesIsBusy DEF Continues
<1>8. /\ request'[r] = Rest(noted)
      /\ \A q \in Requests \ {r} : request'[q] = request[q]
  <2> HIDE DEF noted
  <2> QED
    BY <1>0, <1>7 DEF TypeInv, Types, Shaped
<1> HIDE DEF noted
<1>9. ASSUME NEW q \in Requests, NEW x, Due(q, x)
      PROVE  Due(q, x)'
  <2>1. CASE q # r
    BY <1>8, <1>9, <2>1 DEF Due, At
  <2>2. CASE q = r /\ At(r, "readStylist")
    <3>1. x \in {StylistOf[b], ServiceOf[b]}
      BY <1>9, <2>2 DEF Due, At
    <3>2. At(r, "writeStylist")' /\ request'[r].reviewed = b
      BY <1>5, <1>6, <1>8, <2>2 DEF At
    <3> QED
      BY <2>2, <3>1, <3>2 DEF Due
  <2>3. CASE q = r /\ At(r, "readService")
    <3>1. x = ServiceOf[b]
      BY <1>9, <2>3 DEF Due, At
    <3>2. At(r, "writeService")' /\ request'[r].reviewed = b
      BY <1>5, <1>6, <1>8, <2>3 DEF At
    <3> QED
      BY <2>3, <3>1, <3>2 DEF Due
  <2> QED
    BY <1>3, <2>1, <2>2, <2>3
<1>10. AddUp'
  BY <1>2, <1>7, <1>9 DEF RatingInv, AddUp
<1>11. OneByOne'
  BY <1>7, OneByOneLasts DEF RatingInv
<1>12. ASSUME NEW q \in Requests, Seen(q)
       PROVE  Seen(q)'
  <2>1. CASE q # r
    BY <1>2, <1>8, <1>12, <2>1 DEF Seen, At
  <2>2. CASE q = r /\ At(r, "readStylist")
    <3>1. Head(request'[r].todo) = "writeStylist" /\ request'[r].reviewed = b /\ request'[r].seen = seen
      BY <1>5, <1>8, <2>2
    <3>2. seen = Counts(StylistOf[b])
      BY <1>3, <2>2 DEF At
    <3> QED
      BY <1>2, <2>2, <3>1, <3>2 DEF Seen, At
  <2>3. CASE q = r /\ At(r, "readService")
    <3>1. Head(request'[r].todo) = "writeService" /\ request'[r].reviewed = b /\ request'[r].seen = seen
      BY <1>5, <1>8, <2>3
    <3>2. seen = Counts(ServiceOf[b])
      BY <1>3, <2>3 DEF At
    <3> QED
      BY <1>2, <2>3, <3>1, <3>2 DEF Seen, At
  <2> QED
    BY <1>3, <2>1, <2>2, <2>3
<1>13. CountedRight'
  BY <1>7, <1>12 DEF RatingInv, CountedRight
<1> QED
  BY <1>10, <1>11, <1>13 DEF RatingInv

\* A rating is written as counted, and the service's is still to come or was last.
LEMMA RatingWritten ==
  ASSUME RatingInv, TypeInv', NEW r \in Requests, WriteRating(r)
  PROVE  RatingInv'
<1>0. TypeInv
  BY DEF RatingInv
<1> DEFINE b == request[r].reviewed
           x0 == IF At(r, "writeStylist") THEN StylistOf[b] ELSE ServiceOf[b]
<1>1. /\ request[r] \in RatingLocal /\ b \in Bookings /\ request[r] # Idle
      /\ StylistOf[b] \in Rated /\ ServiceOf[b] \in Rated
  BY <1>0, RaterKnown DEF WriteRating, ReviewSteps, RateSteps, At, Rated
<1>2. review' = review /\ \A x : Counts(x)' = Counts(x)
  BY DEF WriteRating, Counts
<1>3. /\ At(r, "writeStylist") \/ At(r, "writeService")
      /\ rating' = [rating EXCEPT ![x0] = request[r].seen] /\ x0 \in Rated
  BY <1>1 DEF WriteRating, At
<1>4. /\ Busy /\ faults' = faults /\ overlapped' = overlapped
      /\ request' = [request EXCEPT ![r] = Rest(request[r])]
  BY <1>0, <1>1, ContinuesIsBusy DEF WriteRating, Advance, Continues
<1>5. /\ request'[r] = Rest(request[r])
      /\ \A q \in Requests \ {r} : request'[q] = request[q]
  BY <1>0, <1>4 DEF TypeInv, Types, Shaped
<1>6. /\ At(r, "writeStylist") =>
           /\ Rest(request[r]) \in RatingLocal /\ Rest(request[r]).reviewed = b
           /\ Head(Rest(request[r]).todo) = "readService"
      /\ At(r, "writeService") => Rest(request[r]) = Idle
  BY <1>1, RestRating DEF At
<1>7. At(r, "writeStylist") => Rest(request[r]) # Idle
  BY <1>6, IdleHasNothing DEF Locals
<1>8. ~overlapped => request[r].seen = Counts(x0)
  BY <1>3 DEF RatingInv, CountedRight, Seen
<1>9. /\ rating'[x0] = request[r].seen
      /\ \A x \in Rated \ {x0} : rating'[x] = rating[x]
  <2> HIDE DEF x0
  <2> QED
    BY <1>0, <1>3 DEF TypeInv, Types, ReviewsTypeOK
<1>10. ASSUME NEW q \in Requests, NEW x, x # x0, Due(q, x)
       PROVE  Due(q, x)'
  <2>1. CASE q # r
    BY <1>5, <1>10, <2>1 DEF Due, At
  <2>2. CASE q = r /\ At(r, "writeStylist")
    <3>1. x = ServiceOf[b]
      BY <1>10, <2>2 DEF Due, At
    <3>2. At(r, "readService")' /\ request'[r].reviewed = b
      BY <1>5, <1>6, <1>7, <2>2 DEF At
    <3> QED
      BY <2>2, <3>1, <3>2 DEF Due
  <2>3. CASE q = r /\ At(r, "writeService")
    BY <1>10, <2>3 DEF Due, At
  <2> QED
    BY <1>3, <2>1, <2>2, <2>3
<1>11. AddUp'
  <2>1. ASSUME ~overlapped, ~(faults > 0), NEW x \in Rated
        PROVE  rating'[x] = Counts(x)' \/ \E q \in Requests : Due(q, x)'
    <3> HIDE DEF x0
    <3>1. CASE x = x0
      BY <1>2, <1>8, <1>9, <2>1, <3>1
    <3>2. CASE x # x0
      <4>1. rating[x] = Counts(x) \/ \E q \in Requests : Due(q, x)
        BY <2>1 DEF RatingInv, AddUp
      <4> QED
        BY <1>2, <1>9, <1>10, <2>1, <3>2, <4>1
    <3> QED
      BY <3>1, <3>2
  <2> QED
    BY <1>4, <2>1 DEF AddUp
<1>12. OneByOne'
  BY <1>4, OneByOneLasts DEF RatingInv
<1>13. ASSUME NEW q \in Requests, Seen(q)
       PROVE  Seen(q)'
  <2>1. CASE q # r
    BY <1>2, <1>5, <1>13, <2>1 DEF Seen, At
  <2>2. CASE q = r /\ At(r, "writeStylist")
    <3>1. Head(request'[r].todo) = "readService"
      BY <1>5, <1>6, <2>2
    <3> QED
      BY <2>2, <3>1 DEF Seen, At
  <2>3. CASE q = r /\ At(r, "writeService")
    BY <1>5, <1>6, <2>3 DEF Seen, At
  <2> QED
    BY <1>3, <2>1, <2>2, <2>3
<1>14. CountedRight'
  BY <1>4, <1>13 DEF RatingInv, CountedRight
<1> QED
  BY <1>11, <1>12, <1>14 DEF RatingInv

LEMMA ReviewsAddUp ==
  ASSUME RatingInv, TypeInv', ReviewsNext
  PROVE  RatingInv'
<1>0. TypeInv
  BY DEF RatingInv
<1>1. ASSUME NEW r \in Requests, ReviewBegins(r)
      PROVE  RatingInv'
  <2>1. PICK local \in RatingLocal :
          /\ Accept(r, local) /\ UNCHANGED <<reviewVars, phaseVars>>
          /\ Head(local.todo) \in {"create", "hide", "restore"}
    BY <1>1, ReviewBegun
  <2>2. Head(local.todo) \notin RateSteps
    BY <2>1 DEF RateSteps
  <2>3. Unrated
    BY <1>0, <2>1, <2>2, AcceptIsBusy, ElsewhereUnrated
  <2> QED
    BY <1>0, <2>1, <2>3, AcceptIsBusy, UnratedAddsUp
<1>2. ASSUME NEW r \in Requests, ReviewFails(r)
      PROVE  RatingInv'
  BY <1>2, CutAddsUp DEF ReviewFails
<1> QED
  BY <1>1, <1>2, ReviewWritten, RatingRead, RatingWritten DEF ReviewsNext, ReviewGoesOn

LEMMA RatingLasts ==
  RatingInv /\ TypeInv' /\ [Next]_vars => RatingInv'
<1> SUFFICES ASSUME RatingInv, TypeInv', [Next]_vars PROVE RatingInv'
  OBVIOUS
<1>1. CASE UNCHANGED vars
  <2>1. UNCHANGED <<reviewVars, request, faults, overlapped>>
    BY <1>1 DEF vars, handlerVars
  <2> QED
    BY <2>1, QuietAddsUp
<1> QED
  BY <1>1, PhasesAddUp, ChatAddsUp, ReviewsAddUp DEF Next

LEMMA RatingStart == Init => RatingInv
<1> SUFFICES ASSUME Init PROVE RatingInv
  OBVIOUS
<1>1. TypeInv
  BY TypesStart
<1>2. \A r \in Requests : request[r] = Idle
  BY DEF Init, HandlersInit
<1>3. OneByOne /\ CountedRight
  BY <1>2 DEF OneByOne, CountedRight, Seen, At
<1>4. AddUp
  BY DEF Init, ReviewsInit, AddUp, Counts
<1> QED
  BY <1>1, <1>3, <1>4 DEF RatingInv

\* As long as handlers do not overlap and none is cut short, the ratings of stylists and
\* services count the reviews that are shown, or are about to be written, however often
\* reviews are deleted and restored (createReview, deleteReview, restoreReview).
THEOREM RatingsDoAddUp == Spec => []RatingsAddUp
<1>1. Spec => []TypeInv
  BY TypesStart, TypesLast, PTL DEF Spec
<1>2. Spec => []RatingInv
  BY <1>1, RatingStart, RatingLasts, PTL DEF Spec
<1> QED
  BY <1>2, AddUpFollows, PTL
=============================================================================
