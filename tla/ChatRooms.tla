------------------------------ MODULE ChatRooms ------------------------------
(***************************************************************************)
(* The chat of a customer and a stylist: one room for the two, which names *)
(* the booking it was opened for last and closes a day after that booking  *)
(* was over, when somebody writes or when the hourly job comes by.         *)
(***************************************************************************)
EXTENDS BookingPhases, FiniteSets

CONSTANTS
  Pairs,   \* a customer and a stylist
  PairOf   \* the two a booking is of

ASSUME PairsAssumption == PairOf \in [Bookings -> Pairs]

VARIABLES
  room,     \* the room of two people
  unread,   \* messages of a side of a room that are not read
  job,      \* the hourly job: what it is at, and the rooms it deals with
  crossed   \* history: bookings a room was opened for while it was being closed

chatVars == <<room, unread, job, crossed>>

Sides == {"customer", "stylist"}
\* newest: the number of the newest message; preview: that of lastMessage.
RoomRecord ==
  [status : {"NONE", "OPEN", "CLOSED"}, booking : Bookings \cup {None},
   newest : Nat, preview : Nat]
NoRoom == [status |-> "NONE", booking |-> None, newest |-> 0, preview |-> 0]
JobRecord == [at : {"idle", "match", "close"}, rooms : SUBSET Pairs, found : SUBSET Bookings]
NoJob == [at |-> "idle", rooms |-> {}, found |-> {}]

ChatSteps == {"createRoom", "reopen", "findRoom", "expiry", "closeRoom", "persist", "last"}
ChatLocal ==
  [todo : Seq(ChatSteps) \ {<<>>}, pair : Pairs, booking : Bookings \cup {None},
   side : Sides, number : Nat]

ChatTypeOK ==
  /\ room \in [Pairs -> RoomRecord]
  /\ unread \in [Pairs -> [Sides -> Nat]]
  /\ job \in JobRecord
  /\ crossed \subseteq Bookings

ChatInit ==
  /\ room = [p \in Pairs |-> NoRoom]
  /\ unread = [p \in Pairs |-> [s \in Sides |-> 0]]
  /\ job = NoJob
  /\ crossed = {}

-----------------------------------------------------------------------------
(* Faulty variants of definitions below, named after the slip they show.    *)
(* The specification does not use them.                                     *)

MatchTerminated ==
  /\ job.at = "match"
  /\ job' = [job EXCEPT !.at = "close",
       !.rooms = {p \in @ : booking[room[p].booking].status # "CONFIRMED"}]
  /\ UNCHANGED <<room, unread, crossed, phaseVars, handlerVars>>
AnyOpen == {}

-----------------------------------------------------------------------------
(* Rooms: initializeRoom, and createRoom when a booking is paid.            *)

ChatRequest(r, todo, p, b, s, number) ==
  /\ Accept(r, [todo |-> todo, pair |-> p, booking |-> b, side |-> s, number |-> number])
  /\ UNCHANGED <<chatVars, phaseVars>>

FindOrCreateRoom(r, b) ==
  LET p == PairOf[b] IN
  ChatRequest(r, IF room[p] = NoRoom THEN <<"createRoom">> ELSE <<"reopen">>, p, b, "customer", 0)

\* Somebody has decided to close the room of p, or is about to decide.
Closing(p) ==
  \/ job.at # "idle" /\ p \in job.rooms
  \/ \E q \in Requests :
       (At(q, "expiry") \/ At(q, "closeRoom")) /\ request[q].pair = p

Opened(r) ==
  LET p == request[r].pair
      b == request[r].booking
  IN  /\ room' = [room EXCEPT ![p].status = "OPEN", ![p].booking = b]
      /\ crossed' = IF Closing(p) THEN crossed \cup {b} ELSE crossed
      /\ Advance(r)
      /\ UNCHANGED <<unread, job, phaseVars>>

\* The index lets one room of two people in.
CreateRoom(r) ==
  /\ At(r, "createRoom")
  /\ IF room[request[r].pair] = NoRoom
     THEN Opened(r)
     ELSE Throw(r) /\ UNCHANGED <<chatVars, phaseVars>>

Reopen(r) == At(r, "reopen") /\ Opened(r)

-----------------------------------------------------------------------------
(* Messages.                                                                *)

WriteSteps == <<"findRoom", "expiry", "persist", "last">>

SendMessage(r, p, s) ==
  /\ room[p].status = "OPEN"
  /\ ChatRequest(r, WriteSteps, p, None, s, accepted + 1)

\* uploadMedia verifies the room and then stores the file elsewhere.
UploadMedia(r, p) ==
  /\ room[p] # NoRoom
  /\ ChatRequest(r, <<"findRoom", "expiry">>, p, None, "customer", 0)

\* verifyRoomExpiry finds the room, then the booking the room named.
FindRoom(r) ==
  /\ At(r, "findRoom")
  /\ Continues(r, Rest([request[r] EXCEPT !.booking = room[request[r].pair].booking]))
  /\ UNCHANGED <<chatVars, phaseVars>>

VerifyExpiry(r) ==
  /\ At(r, "expiry")
  /\ IF Over(booking[request[r].booking])
     THEN Continues(r, [request[r] EXCEPT !.todo = <<"closeRoom">>])
     ELSE Advance(r)
  /\ UNCHANGED <<chatVars, phaseVars>>

CloseRoom(r) ==
  /\ At(r, "closeRoom")
  /\ room' = [room EXCEPT ![request[r].pair].status = "CLOSED"]
  /\ Advance(r)
  /\ UNCHANGED <<unread, job, crossed, phaseVars>>

PersistMessage(r) ==
  /\ At(r, "persist")
  /\ LET p == request[r].pair IN
     /\ room' = [room EXCEPT ![p].newest = request[r].number]
     /\ unread' = [unread EXCEPT ![p][request[r].side] = @ + 1]
  /\ Advance(r)
  /\ UNCHANGED <<job, crossed, phaseVars>>

UpdateLastMessage(r) ==
  /\ At(r, "last")
  /\ room' = [room EXCEPT ![request[r].pair].preview = request[r].number]
  /\ Advance(r)
  /\ UNCHANGED <<unread, job, crossed, phaseVars>>

\* What the others wrote.
MarkAsRead(p, s) ==
  /\ AtOnce
  /\ unread' = [unread EXCEPT ![p] = [t \in Sides |-> IF t = s THEN @[t] ELSE 0]]
  /\ unread' # unread
  /\ UNCHANGED <<room, job, crossed, phaseVars>>

OfChat(r) == request[r] # Idle /\ "pair" \in DOMAIN request[r]

ChatFails(r) == OfChat(r) /\ Cut(r) /\ UNCHANGED <<chatVars, phaseVars>>

-----------------------------------------------------------------------------
(* The hourly job: the rooms, then their bookings, then one update of those *)
(* whose booking was found over.                                            *)

OpenRooms == {p \in Pairs : room[p].status = "OPEN"}

ListRooms ==
  /\ job.at = "idle"
  /\ OpenRooms # {}
  /\ job' = [NoJob EXCEPT !.at = "match", !.rooms = OpenRooms,
               !.found = {room[p].booking : p \in OpenRooms}]
  /\ UNCHANGED <<room, unread, crossed, phaseVars, handlerVars>>

MatchBookings ==
  /\ job.at = "match"
  /\ job' = [job EXCEPT !.at = "close",
       !.rooms = {p \in @ : \E b \in job.found : PairOf[b] = p /\ Over(booking[b])}]
  /\ UNCHANGED <<room, unread, crossed, phaseVars, handlerVars>>

CloseExpiredRooms ==
  /\ job.at = "close"
  /\ room' = [p \in Pairs |-> IF p \in job.rooms THEN [room[p] EXCEPT !.status = "CLOSED"] ELSE room[p]]
  /\ job' = NoJob
  /\ UNCHANGED <<unread, crossed, phaseVars, handlerVars>>

JobFails ==
  /\ job.at # "idle"
  /\ faults < MaxFaults
  /\ faults' = faults + 1
  /\ job' = NoJob
  /\ UNCHANGED <<room, unread, crossed, phaseVars, request, accepted, overlapped>>

Job == ListRooms \/ MatchBookings \/ CloseExpiredRooms

ChatBegins(r) ==
  \/ \E b \in Bookings : FindOrCreateRoom(r, b)
  \/ \E p \in Pairs : UploadMedia(r, p) \/ \E s \in Sides : SendMessage(r, p, s)

ChatGoesOn(r) ==
  \/ CreateRoom(r) \/ Reopen(r) \/ FindRoom(r) \/ VerifyExpiry(r) \/ CloseRoom(r)
  \/ PersistMessage(r) \/ UpdateLastMessage(r)

ChatNext ==
  \/ \E r \in Requests : ChatBegins(r) \/ ChatGoesOn(r) \/ ChatFails(r)
  \/ \E p \in Pairs, s \in Sides : MarkAsRead(p, s)
  \/ Job \/ JobFails

-----------------------------------------------------------------------------
(* Properties.                                                              *)

\* A closed room is that of a booking that was over a day ago, unless the booking was
\* taken up again afterwards, or the room was opened for it while somebody was about
\* to close it (closeExpiredRooms, verifyRoomExpiry, findOrCreateRoom).
ClosedWasOver ==
  \A p \in Pairs : room[p].status = "CLOSED" =>
    \/ Over(booking[room[p].booking])
    \/ room[p].booking \in resumed \cup crossed

OpenButOver(p) == room[p].status = "OPEN" /\ Over(booking[room[p].booking])

\* A room that is open for a booking over since a day is closed in the end, if nobody
\* opens it for another one: closeExpiredRooms comes by every hour, and a run that
\* fails or misses it is followed by others.
ExpiredRoomCloses == \A p \in Pairs : OpenButOver(p) ~> ~OpenButOver(p)
=============================================================================
