--------------------------- MODULE BookingReports ---------------------------
(***************************************************************************)
(* What the dashboards make of the bookings: the statistics of a stylist   *)
(* for a day, a week, a month or a year, and the dashboard of the          *)
(* administrator.  Nothing here changes a booking; the figures are         *)
(* functions of the bookings a query found, and they are stated of the     *)
(* bookings the money path of BookingPayment leads to, wherever in the     *)
(* calendar those lie.  The server's clock is taken to be UTC.             *)
(***************************************************************************)
EXTENDS BookingPayment, Listings

\* Where a booking lies, seen from the day a report is asked for: how many days
\* before it, in which year relative to it, in which month, and when it starts.
\* The hour of a start time is what stands before its colon, padded to two
\* digits or not: a booking is accepted with any start time that is not empty.
Periods == {"today", "week", "month", "year"}

\* A booking as the reports see it.
Reported(stylist, status, payable, place) ==
  [stylist |-> stylist, status |-> status, payable |-> payable, total |-> Price, place |-> place]

-----------------------------------------------------------------------------
(* Plausible slips of the code, for the mutation of the properties.         *)

SinceDayTooEarly(period) ==
  CASE period = "today" -> 0 [] period = "week" -> 7 [] period = "month" -> 29

-----------------------------------------------------------------------------
(* The statistics of a stylist (getStylistStats).                           *)

\* The first day of the period, counted back from the day asked for.
SinceDay(period) ==
  CASE period = "today" -> 0 [] period = "week" -> 6 [] period = "month" -> 29

InPeriod(period, place) ==
  IF period = "year" THEN place.year = 0 ELSE place.ago \in 0..SinceDay(period)

Earning(b) == b.status \notin {"CANCELLED", "FAILED"}
Revenue(bs) == SumFunction([b \in {c \in bs : Earning(c)} |-> b.payable])

StatsSummary(found) ==
  [total     |-> Cardinality(found),
   confirmed |-> Cardinality({b \in found : b.status = "CONFIRMED"}),
   pending   |-> Cardinality({b \in found : b.status = "PENDING_PAYMENT"}),
   cancelled |-> Cardinality({b \in found : b.status = "CANCELLED"}),
   completed |-> Cardinality({b \in found : b.status = "COMPLETED"}),
   revenue   |-> Revenue(found)]

\* A bar per hour holds the start times that begin with its two digits.
InHourBar(hour, b) == b.place.padded /\ b.place.hour = hour

\* A bar per day, the last one the day asked for.
InDayBar(ago, b) == b.place.ago = ago

\* A bar per month: i months before December 31.  setUTCMonth keeps the day, so a
\* month without a 31st becomes the month after it.
ShortMonths == {2, 4, 6, 9, 11}
MonthShown(i) == IF 12 - i \in ShortMonths THEN 13 - i ELSE 12 - i
InMonthBar(i, b) == b.place.year = 0 /\ b.place.month = MonthShown(i)

Bars(period) ==
  CASE period = "today" -> 0..23 [] period = "week" -> 0..6
    [] period = "month" -> 0..29 [] period = "year" -> 0..11

InBar(period, bar, b) ==
  CASE period = "today" -> InHourBar(bar, b)
    [] period = "year" -> InMonthBar(bar, b)
    [] OTHER -> InDayBar(bar, b)

Chart(period, found) ==
  [bar \in Bars(period) |->
     LET held == {b \in found : InBar(period, bar, b)}
     IN  [bookings |-> Cardinality(held), revenue |-> Revenue(held)]]

StylistStats(period, bs) ==
  LET found == {b \in bs : InPeriod(period, b.place)}
  IN  [summary |-> StatsSummary(found), chart |-> Chart(period, found)]

-----------------------------------------------------------------------------
(* The dashboard of the administrator, always for the last thirty days.     *)

DashboardReads(bs) ==
  {b \in bs : b.status \in {"COMPLETED", "CONFIRMED", "CANCELLED", "PENDING_PAYMENT"}}

\* A booking with nothing left to pay counts at its undiscounted price.
TakenFor(b) == IF b.payable = 0 THEN b.total ELSE b.payable
Taken(bs) == SumFunction([b \in bs |-> TakenFor(b)])

DashboardSince == 29
RecentDays == 0..DashboardSince

CompletedRecently(bs) ==
  {b \in DashboardReads(bs) : b.place.ago \in RecentDays /\ b.status = "COMPLETED"}

DashboardSummary(bs) ==
  [totalRevenue |-> Taken(CompletedRecently(bs)),
   totalBookings |-> Cardinality(CompletedRecently(bs))]

RevenueTrend(bs) ==
  [ago \in RecentDays |->
     LET held == {b \in CompletedRecently(bs) : b.place.ago = ago}
     IN  [bookings |-> Cardinality(held), revenue |-> Taken(held)]]

\* What each stylist took, and the five who took most.
TakenByStylist(bs) ==
  LET done == CompletedRecently(bs)
  IN  [stylist \in {b.stylist : b \in done} |-> Taken({b \in done : b.stylist = stylist})]

TopStylists(bs) ==
  LET taken == TakenByStylist(bs)
      top == CHOOSE best \in SUBSET DOMAIN taken :
               /\ Cardinality(best) = Min({5, Cardinality(DOMAIN taken)})
               /\ \A x \in best, y \in DOMAIN taken \ best : taken[x] >= taken[y]
  IN  [stylist \in top |-> taken[stylist]]

\* Users by the day they joined, if it is known.
UserGrowth(users) ==
  [ago \in RecentDays |->
     LET joined == {u \in users : u.dated /\ u.ago = ago}
     IN  [customers |-> Cardinality({u \in joined : u.role = "USER"}),
          stylists |-> Cardinality({u \in joined : u.role = "STYLIST"})]]

StatusBreakdown(bs) ==
  LET within == {b \in DashboardReads(bs) : b.place.ago \in RecentDays}
  IN  [status \in {"COMPLETED", "CONFIRMED", "CANCELLED", "PENDING_PAYMENT"} |->
         Cardinality({b \in within : b.status = status})]

-----------------------------------------------------------------------------
(* Properties.                                                              *)

\* Bounds: the days and hours at the edges of the periods, and every month.
Places ==
       [ago : {-1, 0, 6, 7, 29, 30}, year : {0}, month : {1}, hour : {9}, padded : {TRUE}]
  \cup [ago : {0}, year : {0}, month : {1}, hour : {0, 9, 23}, padded : BOOLEAN]
  \cup [ago : {0}, year : {-1, 0}, month : 1..12, hour : {9}, padded : {TRUE}]

BookingsIn(chart) == SumFunction([bar \in DOMAIN chart |-> chart[bar].bookings])
RevenueIn(chart) == SumFunction([bar \in DOMAIN chart |-> chart[bar].revenue])

\* Where a chart is known to lose or to double a booking: an hour written with one
\* digit is in no bar of the day, and of the year's bars those of the short months
\* show the month after them.
Misplaced(period, place) ==
  \/ period = "today" /\ ~place.padded
  \/ period = "year" /\ (place.month \in ShortMonths \/ place.month - 1 \in ShortMonths)

StatsAddUp(bs) ==
  \A period \in Periods :
    LET stats == StylistStats(period, bs)
    IN  (\A b \in bs : ~Misplaced(period, b.place)) =>
          /\ BookingsIn(stats.chart) = stats.summary.total
          /\ RevenueIn(stats.chart) = stats.summary.revenue

DashboardAddsUp(bs) ==
  LET trend == RevenueTrend(bs)
      summary == DashboardSummary(bs)
  IN  /\ BookingsIn(trend) = summary.totalBookings
      /\ RevenueIn(trend) = summary.totalRevenue
      /\ SumFunction(StatusBreakdown(bs))
           = Cardinality({b \in DashboardReads(bs) : b.place.ago \in RecentDays})
      /\ Cardinality({b.stylist : b \in CompletedRecently(bs)}) <= 5 =>
           SumFunction(TopStylists(bs)) = summary.totalRevenue

GrowthAddsUp(users) ==
  LET growth == UserGrowth(users)
  IN  SumFunction([ago \in RecentDays |-> growth[ago].customers + growth[ago].stylists])
        = Cardinality({u \in users : /\ u.dated /\ u.ago \in RecentDays
                                      /\ u.role \in {"USER", "STYLIST"}})

SomeUsers == [ago : {-1, 0, 29, 30}, dated : BOOLEAN, role : {"USER", "STYLIST", "ADMIN"}]

\* For each status and price a booking may have reached, whether the figures agree
\* wherever it lies, beside a completed booking of another stylist.
AgreeingFigures ==
  [status \in BookingStatus |-> [payable \in 0..Price |->
     \A place \in Places :
       LET other == Reported("other", "COMPLETED", Price,
                             [ago |-> 0, year |-> 0, month |-> 1, hour |-> 9, padded |-> TRUE])
           bs == {other, Reported("hers", status, payable, place)}
       IN  StatsAddUp({Reported("hers", status, payable, place)}) /\ DashboardAddsUp(bs)]]

\* The bars of every chart add up to the figures above it: a booking that is
\* counted in a summary is in exactly one bar and the other way round, at the
\* edges of the periods too, but for the start times and months named above.
ChartsAddUp ==
  \A b \in Bookings :
    booking[b].status # "ABSENT" =>
      (\A u \in SomeUsers : GrowthAddsUp({u})) /\ AgreeingFigures[booking[b].status][PayableAmount(booking[b])]

\* Turning the pages of any list misses nothing, repeats nothing a removal moved
\* forward, and shows nothing on a public list that is deleted or switched off
\* (the lists of Listings; a stylist turns the pages of his bookings once there
\* are any).
PagingIsSound == InsertedMissesNothing /\ RemovedShowsNothingTwice /\ PublicShowsTheLive

PagesMissNothing == (\E b \in Bookings : booking[b].status # "ABSENT") => PagingIsSound
=============================================================================
