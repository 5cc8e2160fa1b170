-------------------------------- MODULE Roster --------------------------------
(***************************************************************************)
(* When a stylist works: the week, the override of a date, breaks, days    *)
(* off and holidays, and the list of the day that is computed from them,   *)
(* for one stylist, branch and date.  Times are counted in cells of the    *)
(* list (SLOT_GRID_SIZE minutes).  The list is put together from queries   *)
(* sent at once, while staff go on editing.  The clock is looked at once,  *)
(* when the list is asked for: what it leaves on offer is an input.        *)
(***************************************************************************)
EXTENDS Handlers, FiniteSetsExt

CONSTANTS
  Day,           \* the cells of the day are 0 .. Day - 1
  Hours,         \* inputs: what a day is set to
  BreakTimes,    \* inputs: the times of breaks
  Bookable,      \* inputs: the times that get booked or blocked
  Durations,     \* inputs: the durations asked for
  Earliest,      \* inputs: the first cell still on offer: 0 before the date, half an hour
                 \* from now on it, and past the last cell when it is over or too far off
  BranchBreaks,  \* inputs: the breaks of the branch
  Readers,       \* bound: the requests that may be lists; lists do not interact
  Breaks,        \* ids of breaks
  OffDays,       \* ids of days off that cover the date
  BreakLimit     \* 90 minutes, in cells

Windows == {w \in [from : 0 .. Day - 1, to : 1 .. Day] : w.from < w.to}
HoursRecord == [working : BOOLEAN, shifts : SUBSET Windows]
OverrideRecord == [hours : HoursRecord, by : Nat]
BreakRecord == [kind : {"weekly", "dated", "both"}, time : Windows]

ASSUME RosterAssumption ==
  /\ Day \in Nat /\ BreakLimit \in Nat
  /\ Hours \subseteq HoursRecord
  /\ BreakTimes \cup Bookable \subseteq Windows
  /\ Durations \subseteq Nat \ {0} /\ Earliest \subseteq Nat
  /\ BranchBreaks \subseteq SUBSET Windows
  /\ Readers \subseteq Requests
  /\ IsFiniteSet(Breaks)
  /\ None \notin HoursRecord \cup OverrideRecord \cup BreakRecord

VARIABLES
  weekly,    \* the weekly schedule of this day of the week
  override,  \* the override of the date; by: the number of its handler
  break,     \* breaks of this day of the week, or of the date, or both
  offDay,    \* the status of each day off
  holiday,   \* scopes of the holidays of the date
  defaults,  \* defaultBreaks of the branch
  booked,    \* times of bookings that hold them
  blocked,   \* times of CANCELLED special slots
  ruled,     \* history: the date was overridden and that was not taken back
  lenient    \* history: an administrator added a break

hourVars == <<weekly, override, ruled>>
breakVars == <<break, lenient, defaults>>
closeVars == <<offDay, holiday>>
takenVars == <<booked, blocked>>
rosterVars == <<hourVars, breakVars, closeVars, takenVars, handlerVars>>

OffDayStatus == {"NONE", "PENDING", "APPROVED", "REJECTED"}

\* The queries of the list, each with what it has brought.
Queries ==
  {"breaks", "branch", "bookings", "special", "offDays", "overrides", "weekly", "holidays"}

RosterTypeOK ==
  /\ HandlersTypeOK
  /\ weekly \in HoursRecord \cup {None}
  /\ override \in OverrideRecord \cup {None}
  /\ break \in [Breaks -> BreakRecord \cup {None}]
  /\ offDay \in [OffDays -> OffDayStatus]
  /\ holiday \subseteq {"all", "branch"}
  /\ defaults \subseteq Windows /\ booked \subseteq Windows /\ blocked \subseteq Windows
  /\ ruled \in BOOLEAN /\ lenient \in BOOLEAN
  /\ \A r \in Requests : request[r] # Idle => request[r].todo \in
       {<<"gather", "answer">>, <<"answer">>, <<"saveWeekly">>, <<"createWeekly">>,
        <<"remove", "create">>, <<"create">>, <<"insertBreak">>, <<"decide">>}

RosterInit ==
  /\ HandlersInit
  /\ weekly \in {h \in Hours : h.shifts # {}} \cup {None}
  /\ override = None
  /\ break = [i \in Breaks |-> None]
  /\ offDay = [o \in OffDays |-> "NONE"]
  /\ holiday = {}
  /\ defaults \in BranchBreaks
  /\ booked = {} /\ blocked = {}
  /\ ruled = FALSE /\ lenient = FALSE

-----------------------------------------------------------------------------
(* What the list is to show, cell by cell.                                  *)

Cells(w) == w.from .. w.to - 1
Length(w) == w.to - w.from
OwnBreaks == {break[i].time : i \in {j \in Breaks : break[j] # None}}
BreaksInForce == IF OwnBreaks = {} THEN defaults ELSE OwnBreaks
HoursInForce == IF override # None THEN override.hours ELSE weekly
Off == \E o \in OffDays : offDay[o] = "APPROVED"

\* A holiday of some branches closes none: the query asks for a branchId, which
\* no holiday has (theirs are branchIds).
ClosedByHoliday == "all" \in holiday

Free(duration) ==
  {t \in 0 .. Day :
     LET cells == t .. t + duration - 1 IN
     /\ ~ClosedByHoliday /\ ~Off
     /\ HoursInForce # None /\ HoursInForce.working
     /\ \E shift \in HoursInForce.shifts : cells \subseteq Cells(shift)
     /\ \A w \in BreaksInForce \cup blocked \cup booked : cells \cap Cells(w) = {}}

\* What each query of the list would bring if it was answered now.
Today ==
  [breaks |-> OwnBreaks, branch |-> defaults, bookings |-> booked, special |-> blocked,
   offDays |-> Off, overrides |-> IF override = None THEN None ELSE override.hours,
   weekly |-> weekly, holidays |-> ClosedByHoliday]

\* Whether the answers b keep off the list whatever the answers a keep off it, each
\* query compared with itself: a list can mix answers of different moments.  Having
\* breaks of one's own at all is compared too, for it puts those of the branch out
\* of force.
Worked(hours, w) ==
  hours # None /\ hours.working /\ \E shift \in hours.shifts : Cells(w) \subseteq Cells(shift)
Covered(times) == UNION {Cells(w) : w \in times}
ClosesAtLeast(b, a) ==
  /\ b.overrides = a.overrides
  /\ \A w \in Windows : Worked(b.weekly, w) => Worked(a.weekly, w)
  /\ (b.breaks = {}) <=> (a.breaks = {})
  /\ \A q \in {"breaks", "branch", "bookings", "special"} : Covered(a[q]) \subseteq Covered(b[q])
  /\ a.offDays => b.offDays
  /\ a.holidays => b.holidays

\* Handlers in progress, with lists told what an edit opened and closed.
Noted(requests, later) ==
  [r \in Requests |->
     IF requests[r] # Idle /\ r \in Readers /\ "before" \in DOMAIN requests[r]
     THEN [requests[r] EXCEPT !.opened = @ \/ ~ClosesAtLeast(later, Today),
                              !.closed = @ \/ ~ClosesAtLeast(Today, later)]
     ELSE requests[r]]

\* An edit of one call, and one at the end or in the middle of a handler.
Edited ==
  /\ Counted
  /\ \E later \in {Today'} : request' = Noted(request, later)
EditedBy(r, local) ==
  /\ \E later \in {Today'} : request' = Noted([request EXCEPT ![r] = local], later)
  /\ UNCHANGED <<accepted, faults, overlapped>>

-----------------------------------------------------------------------------
(* Faulty variants of definitions below, named after the slip they show.    *)
(* The specification does not use them.                                     *)

RemoveAny(r) ==
  /\ At(r, "remove")
  /\ override' = None
  /\ UNCHANGED <<weekly, ruled, breakVars, closeVars, takenVars>>
  /\ EditedBy(r, Idle)
CountedWithDayOnly(kind) == {kind}

-----------------------------------------------------------------------------
(* The list of the day: getDynamicAvailability.  What else it shows, and to *)
(* whom, is left out; nothing can be booked from it.                        *)

Meets(t, duration, w) == t < w.to /\ t + duration > w.from

Nothing ==
  [breaks |-> {}, branch |-> {}, bookings |-> {}, special |-> {}, offDays |-> FALSE,
   overrides |-> None, weekly |-> None, holidays |-> FALSE]

\* A query is answered.
Brought(saw, q) == [saw EXCEPT ![q] = Today[q]]

\* The times shown as AVAILABLE.
Shown(saw, duration, earliest) ==
  LET schedule == IF saw.overrides # None THEN saw.overrides ELSE saw.weekly
      breaks   == IF saw.breaks = {} THEN saw.branch ELSE saw.breaks
  IN  IF saw.holidays \/ saw.offDays \/ schedule = None THEN {}
      ELSE {t \in 0 .. Day :
              /\ schedule.working
              /\ t >= earliest
              /\ \E shift \in schedule.shifts : shift.from <= t /\ t + duration <= shift.to
              /\ ~\E w \in breaks \cup saw.special \cup saw.bookings : Meets(t, duration, w)}

\* Faulty: the queries are sent and not awaited.
DayListUnawaited(r, duration, earliest) ==
  /\ r \in Readers
  /\ Accept(r, [todo |-> <<"answer">>, unread |-> Queries, saw |-> Nothing,
                duration |-> duration, earliest |-> earliest, before |-> Free(duration),
                opened |-> FALSE, closed |-> FALSE])
  /\ UNCHANGED <<hourVars, breakVars, closeVars, takenVars>>

\* For the administration the times shown are the same.
DayList(r, duration, earliest) ==
  /\ r \in Readers
  /\ Accept(r, [todo |-> <<"gather", "answer">>, unread |-> Queries, saw |-> Nothing,
                duration |-> duration, earliest |-> earliest, before |-> Free(duration),
                opened |-> FALSE, closed |-> FALSE])
  /\ UNCHANGED <<hourVars, breakVars, closeVars, takenVars>>

\* Promise.all: the queries are answered in any order.
Gather(r, q) ==
  /\ At(r, "gather")
  /\ q \in request[r].unread
  /\ LET local == [request[r] EXCEPT !.unread = @ \ {q}, !.saw = Brought(@, q)] IN
     Continues(r, IF local.unread = {} THEN Rest(local) ELSE local)
  /\ UNCHANGED <<hourVars, breakVars, closeVars, takenVars>>

Answer(r) ==
  /\ At(r, "answer")
  /\ Advance(r)
  /\ UNCHANGED <<hourVars, breakVars, closeVars, takenVars>>

-----------------------------------------------------------------------------
(* Hours.  A working day needs a shift: the models refuse to save any other. *)

Refused(hours) == hours.working /\ hours.shifts = {}

Edit(r, todo, hours, read) ==
  /\ Accept(r, [todo |-> todo, input |-> hours, read |-> read, number |-> accepted])
  /\ UNCHANGED <<hourVars, breakVars, closeVars, takenVars>>

UpdateWeekly(r, hours) ==
  Edit(r, IF weekly = None THEN <<"createWeekly">> ELSE <<"saveWeekly">>, hours, weekly)

\* Saving writes what differs from what was read.  Shifts that were read before
\* somebody else changed them are not written: documents are saved under the
\* version of their arrays.
SaveWeekly(r) ==
  /\ At(r, "saveWeekly")
  /\ UNCHANGED <<override, ruled, breakVars, closeVars, takenVars>>
  /\ LET new == request[r].input
         read == request[r].read
     IN IF Refused(new) \/ (new.shifts # read.shifts /\ weekly.shifts # read.shifts)
        THEN Throw(r) /\ UNCHANGED weekly
        ELSE /\ weekly' =
                  [working |-> IF new.working = read.working THEN weekly.working ELSE new.working,
                   shifts |-> IF new.shifts = read.shifts THEN weekly.shifts ELSE new.shifts]
             /\ EditedBy(r, Idle)

\* The index lets one document of a stylist, branch and day of the week in.
CreateWeekly(r) ==
  /\ At(r, "createWeekly")
  /\ UNCHANGED <<override, ruled, breakVars, closeVars, takenVars>>
  /\ IF Refused(request[r].input) \/ weekly # None
     THEN Throw(r) /\ UNCHANGED weekly
     ELSE weekly' = request[r].input /\ EditedBy(r, Idle)

CreateDailyOverride(r, hours) ==
  Edit(r, IF override = None THEN <<"create">> ELSE <<"remove", "create">>, hours, override)

\* The one that was found, by its _id; it may be gone already.
RemoveOverride(r) ==
  /\ At(r, "remove")
  /\ UNCHANGED <<weekly, ruled, breakVars, closeVars, takenVars>>
  /\ override' = IF override = request[r].read THEN None ELSE override
  /\ EditedBy(r, Rest(request[r]))

\* A create that is refused leaves the date without the override it removed.
CreateOverride(r) ==
  /\ At(r, "create")
  /\ UNCHANGED <<weekly, breakVars, closeVars, takenVars>>
  /\ IF Refused(request[r].input)
     THEN Throw(r) /\ ruled' = (ruled /\ override # None) /\ UNCHANGED override
     ELSE IF override # None
     THEN Throw(r) /\ UNCHANGED <<override, ruled>>
     ELSE /\ override' = [hours |-> request[r].input, by |-> request[r].number]
          /\ ruled' = TRUE
          /\ EditedBy(r, Idle)

DeleteDailyOverride ==
  /\ override # None
  /\ override' = None
  /\ ruled' = FALSE
  /\ UNCHANGED <<weekly, breakVars, closeVars, takenVars>>
  /\ Edited

-----------------------------------------------------------------------------
(* Breaks.                                                                  *)

\* A break with a date is weighed with those of the date, whatever its weekday.
WeighedWith(kind) == IF kind = "weekly" THEN {"weekly", "both"} ELSE {"dated", "both"}

BreakTime(kinds) ==
  SumFunctionOnSet(
    [i \in Breaks |->
       IF break[i] # None /\ break[i].kind \in kinds THEN Length(break[i].time) ELSE 0],
    Breaks)

AddBreak(r, new) ==
  /\ BreakTime(WeighedWith(new.kind)) + Length(new.time) <= BreakLimit
  /\ Accept(r, [todo |-> <<"insertBreak">>, input |-> new])
  /\ UNCHANGED <<hourVars, breakVars, closeVars, takenVars>>

InsertBreak(r, i) ==
  /\ At(r, "insertBreak")
  /\ break[i] = None
  /\ break' = [break EXCEPT ![i] = request[r].input]
  /\ UNCHANGED <<hourVars, lenient, defaults, closeVars, takenVars>>
  /\ EditedBy(r, Idle)

\* Nothing is weighed for an administrator.
AdminAddsBreak(i, new) ==
  /\ break[i] = None
  /\ break' = [break EXCEPT ![i] = new]
  /\ lenient' = TRUE
  /\ UNCHANGED <<hourVars, defaults, closeVars, takenVars>>
  /\ Edited

DeleteBreak(i) ==
  /\ break[i] # None
  /\ break' = [break EXCEPT ![i] = None]
  /\ UNCHANGED <<hourVars, lenient, defaults, closeVars, takenVars>>
  /\ Edited

UpdateBranch ==
  /\ defaults' \in BranchBreaks \ {defaults}
  /\ UNCHANGED <<hourVars, break, lenient, closeVars, takenVars>>
  /\ Edited

-----------------------------------------------------------------------------
(* Days off, holidays, and what takes times: neither looks at the other.    *)

CloseOrTake == UNCHANGED <<hourVars, breakVars>> /\ Edited

RequestOffDay(o) ==
  /\ offDay[o] = "NONE"
  /\ offDay' = [offDay EXCEPT ![o] = "PENDING"]
  /\ UNCHANGED <<holiday, takenVars>>
  /\ CloseOrTake

\* The status is set whatever it was; the document may be gone by then.
UpdateOffDayStatus(r, o, status) ==
  /\ offDay[o] # "NONE"
  /\ Accept(r, [todo |-> <<"decide">>, input |-> <<o, status>>])
  /\ UNCHANGED <<hourVars, breakVars, closeVars, takenVars>>

Decide(r) ==
  /\ At(r, "decide")
  /\ LET o == request[r].input[1] IN
     offDay' = IF offDay[o] = "NONE" THEN offDay ELSE [offDay EXCEPT ![o] = request[r].input[2]]
  /\ UNCHANGED <<hourVars, breakVars, holiday, takenVars>>
  /\ EditedBy(r, Idle)

DeleteOffDay(o) ==
  /\ offDay[o] # "NONE"
  /\ offDay' = [offDay EXCEPT ![o] = "NONE"]
  /\ UNCHANGED <<holiday, takenVars>>
  /\ CloseOrTake

CreateHoliday(scope) ==
  /\ scope \notin holiday
  /\ holiday' = holiday \cup {scope}
  /\ UNCHANGED <<offDay, takenVars>>
  /\ CloseOrTake

DeleteHoliday(scope) ==
  /\ scope \in holiday
  /\ holiday' = holiday \ {scope}
  /\ UNCHANGED <<offDay, takenVars>>
  /\ CloseOrTake

\* Bookings and blocks come and go: see SlotBooking.
Take(w) ==
  /\ \/ booked' = (booked \ {w}) \cup ({w} \ booked) /\ UNCHANGED blocked
     \/ blocked' = (blocked \ {w}) \cup ({w} \ blocked) /\ UNCHANGED booked
  /\ UNCHANGED closeVars
  /\ CloseOrTake

RosterFails(r) == Cut(r) /\ UNCHANGED <<hourVars, breakVars, closeVars, takenVars>>

-----------------------------------------------------------------------------
OverrideCalls(r) == DeleteDailyOverride \/ \E h \in Hours : CreateDailyOverride(r, h)

BreakCalls(r) ==
  \/ \E i \in Breaks : DeleteBreak(i)
  \/ \E w \in BreakTimes, k \in {"weekly", "dated", "both"} :
       LET pause == [kind |-> k, time |-> w]
       IN  AddBreak(r, pause) \/ \E i \in Breaks : AdminAddsBreak(i, pause)

OffDayCalls(r) ==
  \E o \in OffDays :
    DeleteOffDay(o) \/ \E s \in {"APPROVED", "REJECTED"} : UpdateOffDayStatus(r, o, s)

ListCalls(r) == \E d \in Durations, t \in Earliest : DayList(r, d, t)

RosterGoesOn(r) ==
  \/ SaveWeekly(r) \/ CreateWeekly(r) \/ RemoveOverride(r) \/ CreateOverride(r)
  \/ \E i \in Breaks : InsertBreak(r, i)
  \/ Decide(r)
  \/ \E q \in Queries : Gather(r, q)
  \/ Answer(r)

Edits ==
  \/ UpdateBranch
  \/ \E o \in OffDays : RequestOffDay(o)
  \/ \E scope \in {"all", "branch"} : CreateHoliday(scope) \/ DeleteHoliday(scope)
  \/ \E w \in Bookable : Take(w)

RosterNext ==
  \/ \E r \in Requests :
       \/ \E h \in Hours : UpdateWeekly(r, h)
       \/ OverrideCalls(r) \/ BreakCalls(r) \/ OffDayCalls(r) \/ ListCalls(r)
       \/ RosterGoesOn(r) \/ RosterFails(r)
  \/ Edits

RosterSpec == RosterInit /\ [][RosterNext]_rosterVars

-----------------------------------------------------------------------------
(* Properties.                                                              *)

\* The eight answers the list is computed from are of different moments: it shows no
\* time that was not free when it was asked for, unless an edit has opened something
\* since to the query that reads it, and every time that was and has not gone by, half
\* an hour included, unless one has closed something; a stylist's first break of their
\* own, or the last that goes, does both (getDynamicAvailability).
ListShowsTheDay ==
  \A r \in Requests : At(r, "answer") =>
    LET local == request[r]
        shown == Shown(local.saw, local.duration, local.earliest)
    IN  /\ ~local.opened => shown \subseteq local.before
        /\ ~local.closed => {t \in local.before : t >= local.earliest} \subseteq shown

\* A date that was overridden stays so: only taking the override back, a
\* replacement that is refused, or a fault leave it without one, whatever
\* replacements and removals overlap (createDailyOverride, deleteDailyOverride).
OverrideStands ==
  \/ ruled => override # None
  \/ \E r \in Requests : At(r, "create")
  \/ faults > 0

\* Stylists who are not helped by administrators, and whose requests do not overlap,
\* keep the breaks of a date and those of a day of the week within the limit each;
\* a day can have both (addBreak).
BreaksLimited ==
  overlapped \/ lenient \/
    /\ BreakTime({"dated", "both"}) <= BreakLimit
    /\ BreakTime({"weekly"}) <= BreakLimit
=============================================================================
