# Verification of the salon booking back end

TLA+ models of the back end under `src/src` (Express handlers and cron jobs in one
Node process over MongoDB), model-checked with TLC and, for the results listed
below, proved with TLAPS.

- [1. The system](#1-the-system)
- [2. How the code is modelled](#2-how-the-code-is-modelled)
- [3. Modules](#3-modules)
- [4. Runs](#4-runs)
- [5. Proofs](#5-proofs)
- [6. What the checks say about the code](#6-what-the-checks-say-about-the-code)
- [7. What is not modelled](#7-what-is-not-modelled)
- [8. Plan](#8-plan)

## 1. The system

Customers book services of stylists at branches of a salon. A booking takes an
advance of 20 % (Razorpay or wallet), later the remainder; it can be rescheduled
once, cancelled with a refund, completed, or end as a no-show. Money paid in full,
or kept after a no-show, goes into escrow and from there to the stylist's wallet.
Around it, stylists are invited and approved, given branches, hours and services, and
talk with and are reviewed by the people they served.

| Component | State | Operations | Module |
|---|---|---|---|
| booking (`booking.service.ts`, `BookingValidator.ts`, `BookingQueryService.ts`) | booking documents: status, payment status, amounts, coupon, items, reschedule count, payment window | create, cancel, reschedule, change status, apply/remove coupon, expire (cron), lists, statistics | `BookingPayment` (money), `SlotBooking` (times), `BookingPhases` (end), `BookingReports` |
| payment (`payment.service.ts`) | payment documents: PENDING, COMPLETED | order for the advance or the remainder, verify, pay (remainder) from the wallet | `BookingPayment` |
| wallet (`wallet.service.ts`) | one balance per customer, transaction records | get, ensure, credit, debit, top-up order, verify top-up | `Wallet` |
| escrow (`escrow.service.ts`) | one document per booking: HELD, RELEASED, release date | hold, daily release (cron), lists | `EscrowRelease`, `EscrowBook` |
| stylistWallet (`stylistWallet.service.ts`) | one document per stylist | get, add earnings | `EscrowRelease` |
| coupon (`coupon.service.ts`) | code, discount, limit, used count | validate, count a use, administration | `BookingPayment` in part |
| slot (`slot.service.ts`, `SlotValidator.ts`, `SpecialSlotService.ts`) | special slots | block, unblock, create/cancel special slot, validate | `SlotBooking` |
| availability (`AvailabilityService.ts`) | none: the slots of a day are computed from nine queries, eight of which decide what is free | list | `Roster` |
| schedule, offDay, holiday | weekly schedules, overrides of a date, breaks, days off, holidays | edit, request, decide, take back | `Roster` |
| chat (`chat.service.ts`) | one room per customer and stylist, messages, previews, unread counts | open, write, read, close (by a message or by the cron) | `ChatRooms` |
| review (`review.service.ts`) | reviews, ratings of stylists and services | create, delete, restore | `Reviews` |
| auth (`AuthService.ts`, `OtpService.ts`, `ProfileService.ts`) | users, codes in redis | sign up, verify, reset, Google, apply, profile | `Accounts` |
| stylistInvite | invites, stylist documents | invite, accept, approve, reject, block | `Accounts` |
| stylistBranch | the active assignment of a stylist | assign, unassign, change | `Catalogue` |
| category, service, branchCategory, branchService, stylistService | documents and on/off mappings | create, update, remove, toggle; the public pages | `Catalogue` |
| pictures (profile, service) | an object in a bucket, an address in a document | upload, replace, delete | `Pictures` |
| lists by page (`PaginationQueryParser`, `QueryBuilderService`, 19 lists) | none | parse, filter, cut, answer | `Listings` |
| dashboards (`AdminMapper.ts`, `BookingQueryService.ts`) | none | statistics of a stylist, dashboard of the administrator | `BookingReports` |
| cron (`common/cron.ts`) | none | cleanup every 5 min, escrow release every 2 min, chat closing every hour | with the component each serves |
| notification, wishlist, socket, razorpay client, shell | | | section 7 |

Components meet in documents, not in messages: handlers of one read what handlers of
another write (booking is read by chat, review, slot and the dashboards), and call each
other inside a handler (a cancellation credits the wallet, a payment counts the coupon,
opens the chat and puts an amount into escrow).

**What is hard.** No handler opens a transaction and nearly every write selects its
document by `_id` alone, so a decision taken on a document that was read earlier is
written over whatever happened since. A handler makes up to a dozen awaited calls;
when one rejects, or the process dies, the earlier ones stay. `node-cron` starts a
run whether or not the run before has ended. Unique indexes (one escrow document per
booking, one wallet per customer, one per stylist, one active branch per stylist) turn
some races into exceptions, which themselves cut a handler short. Pages are collected
with several queries, each of another moment, while others go on writing.

**What makes the components correct.**

- booking: a cancelled booking stays cancelled; the price is fixed once the booking has
  been paid (unless staff set it back to waiting for payment, section 6); a booking that
  was never paid does not keep its slot for ever.
- payment: nothing is marked paid, refunded or escrowed without a payment; PAID means
  two payments that add up to the price; one payment counts once.
- wallet: the balance is what its records add up to; a verified top-up arrives.
- escrow and stylist wallet: one amount per booking; released only after it was
  credited, and in the end; the wallet is the sum of what was credited.
- slot and roster: one booking per stylist and time, of what a list can see of it; what is
  listed as available is free; an override stands until somebody takes it back; breaks
  keep their limits.
- accounts: a code reaches whom it is stored for; an active stylist can log in; one open
  invite per stylist.
- catalogue: a public page shows what is on offer, or as much of it as its card takes; a
  stylist is not lost between two branches; a picture a document names exists.
- chat and review: a room closes after its booking is over, and does close; ratings count
  the reviews that are shown.
- lists and dashboards: turning pages misses nothing; bars add up to the sums above them.

The hazards are listed one by one, at their lines, in `PROJECT.json`.

## 2. How the code is modelled

- **One action per awaited call.** Node runs a handler without interruption between two
  `await`s, and MongoDB reads or writes a single document atomically. The straight-line
  code after a call belongs to the action of that call; the first read of a handler and
  its early returns are the action that accepts the request. A request that is refused at
  once changes nothing and is not an action.
- **A handler in progress** is, in `BookingPayment` and `Wallet`, a program counter
  `pc[r]` naming its next awaited call and the data `arg[r]` it carries, above all
  `snap`, the document as it was read. The modules over `Handlers` say the same with a
  record: `request[r].todo` is the sequence of calls still to be made, and the other
  fields are the data. `Accept` begins a handler, `Advance` and `Continues` make a call,
  `Throw` ends it early, `AtOnce` is a handler whose only call that matters is the first.
- **Calls that cannot matter are merged or left out.** Reads whose result the
  properties cannot tell apart (names for a notification), notifications and logging
  are left out. A rejection of such a call is the same as the next fault below.
- **Faults.** `RequestFails`, `CronFails`, `TaskFails`, `JobFails`, `Crash` and `Cut` end
  handlers between two awaited calls, with everything written so far kept. This covers a
  call that rejects, an exception nobody catches and the death of the process.
  `MaxFaults` bounds their number.
- **Time.** The payment window and the time left before the appointment pass
  nondeterministically, in the classes the code compares with (24 hours, 2 hours).
  Escrow release dates are day numbers. A booking that is over is so for less or for more
  than a day (`BookingPhases`), an invite is due or not (`Accounts`).
- **Amounts** are integers. The booking's coupon flag stands for the coupon, discount,
  payable and advance fields, which the same two updates write; the operators
  `PayableAmount` and `AdvanceAmount` compute them as `applyCoupon` does.
- **Times of the day** are counted in cells of the availability grid. `Roster` is about
  one branch and one date. In `SlotBooking` every item has its own date and comes from the
  list of a branch, because a cart may mix both, while a booking keeps the branch of the
  request and the date of its first item, by which the lists look it up (`BookingsOf`).
  Dates are taken as the clients of this API send them, midnight UTC: bookings are
  matched by equality of their dates.
- **The clock of a list** is an input, `Earliest`: the first cell the list leaves on offer.
  It is 0 for a date to come, half an hour from now for the date it is at the saloon, and
  past the last cell when the date is over or more than 14 days off and the list is empty
  before any query. The code goes by the saloon's date (UTC + 5:30) for the half hour and by
  the UTC date for the window, so for some hours the list of a day that is over at the
  saloon is not cut at all; that is `earliest` = 0 too.
- **Lists and dashboards** are functions of rows and of bookings. `Listings` gives a
  list the rows its page is cut from and the rows its count sees, which differ when
  somebody writes between the two queries.
- **History variables** keep what no document records: how often an escrow was credited
  (`credited`), whether the lists of the days showed a booking's times as available when it
  took them (`listed`), from the list of which branch an item was picked (`branch` of an
  item, which the document does not keep), who was given a branch (`kept`), whether two handlers
  ever overlapped (`overlapped`), which bookings were taken up again or reached by a
  closing and an opening at once (`resumed`, `crossed`).
- `MaxRequests` bounds how many requests are accepted in a behaviour, `MaxDay` the
  days. The proofs hold for every value of both.

## 3. Modules

| Module | Models | State and actions |
|---|---|---|
| `BookingPayment` | `booking.service.ts`, `BookingValidator.ts`, the cleanup of `BookingQueryService.ts`, `payment.service.ts`, the calls they make to wallet, coupon and escrow | `booking`, `payment`, `balance`, `ledger`, `couponUsed`, `rooms`, `escrow`. `Begin` accepts the operations of a booking, grouped as the controllers group them (`ChangeCalls`, `CouponCalls`, `PaymentCalls`), `VerifyPayment` that of an order, `Continue` is the rest of each handler, `ExpireList`/`ExpireWrite` the cleanup |
| `EscrowBook` | abstract specification of the escrow: an amount is put aside, the stylist is paid, it is released | `entry`, `paidOut` |
| `EscrowRelease` | `escrow.service.ts`, `stylistWallet.service.ts` and their repositories | `escrow`, `wallet`, `pending` (inserts to come), `task[j][b]`: the tasks of a run, which run at the same time (`Promise.allSettled`). Implements `EscrowBook` |
| `Wallet` | `wallet.service.ts`, the routes that reach it | `wallet`, `records`, `topup`; the calls of credit, debit and top-up one by one |
| `SlotBooking` | the same `booking.service.ts` as seen by a stylist's calendar, `slot.service.ts`, `SlotValidator.ts`, `SpecialSlotService.ts`, and of `AvailabilityService.ts` which times bookings and blocks take, by branch and date | `booking` with its items, `special`, `request`. `CreateBooking`, `RescheduleBooking` and `CreateSpecialSlot` accept, `ValidateItem` validates one item, `InsertBooking`, `MoveBooking` and `InsertSpecialSlot` write; `SetStatus`/`WriteStatus` is every change of a status; `BlockTime`, `CancelSpecialSlot`, `UnblockSlot` |
| `Handlers` | what handlers have in common | `request`, the counters of requests and faults, `overlapped` |
| `Accounts` (over `Handlers`) | `AuthService.ts`, `ProfileService.ts`, `StylistInviteService.ts` with `OtpService.ts` and the repositories' writes | `user`, `stylist`, `invite`, `otp`. One action begins each route (`SignupCalls`, `ResetCalls`, `AccountCalls`, `InviteCalls`, `StylistCalls`), one makes each write (`InsertUser`, `StoreCode`, `SendCode`, `TakeInvite`, `WriteUser`, ...); `Clock` lets codes and invites expire |
| `Catalogue` (over `Handlers`) | category, service, branchCategory, branchService, stylistService, stylistBranch, and the four public pages | documents and mappings. `PublicPages` collects a page query by query, `Pages` cuts the card of a stylist to `CardLimit` services, `Administration` writes one document per call, `Staffing`, `Leave` and `Place` move a stylist |
| `Pictures` (over `Handlers`) | `S3Service.ts`, `ProfileService.ts`, `service.service.ts`: profile pictures and service images | `picture`, `bucket`; `Upload`, `Delete`, `WritePicture` |
| `Storefront` | composes `Catalogue` and `Pictures`: the handlers of both interleave, an image belongs to a service of the catalogue | their state |
| `Roster` (over `Handlers`) | `schedule.service.ts`, `offDay.service.ts`, `holiday.service.ts`, `AvailabilityService.ts` | the week, the override, breaks, days off, holidays, taken times. `DayList` (which looks at the clock), `Gather` and `Answer` put the list of the day together; one action per route edits |
| `BookingPhases` (over `Handlers`) | how a booking ends: `cancelBooking`, `updateBookingStatus` | status and age of bookings |
| `ChatRooms` (over `BookingPhases`) | `chat.service.ts`, `chatRoom.repository.ts`, the hourly job | `room`, `job`; opening, writing, reading, closing |
| `Reviews` (over `BookingPhases`) | `review.service.ts`, `review.repository.ts` | `review`, `rating`; a rating is the set of reviews it counts |
| `AfterCare` | composes `ChatRooms` and `Reviews` over the same bookings and handlers | their state |
| `Listings` | `PaginationQueryParser`, `PaginationResponseBuilder`, `QueryBuilderService`, the lists of 15 repositories and services and the controllers that call them | operators; `Turned` turns the pages of a list while a row is inserted or removed |
| `BookingReports` | `getStylistStats`, `AdminRepository.ts`, `AdminMapper.ts` | operators over the bookings of `BookingPayment`, which it extends |
| `MC*` | instances for TLC: the sets of operations, the people of each booking, symmetry | |
| `*_proofs` | theorems about the modules they extend; `Pages_proofs` about `Storefront` and `Roster` | |
| `Sums` | lemmas about sums over finite sets and over the parts of one, which the proofs about balances, totals and charts rest on | |

`BookingPayment` sees the customer's wallet as one that exists and never races with
other bookings' top-ups; `Wallet` shows what its document does under any mix of
requests. `BookingPayment` stops at the hold; `EscrowRelease` starts there, with
`HoldFind`/`HoldInsert` in both because the race for the document belongs to both.
`BookingPayment`, `SlotBooking` and `BookingPhases` share the booking document: the first
keeps its money and takes the appointment for granted, the second keeps its items and lets
the statuses that payments write come at any time, the third keeps how long it has been
over. `SlotBooking` takes the working day for granted, which `Roster` computes; `Roster`
in turn takes a booking as a time that `Take` marks as taken.

Four details of the code shape `SlotBooking`. `checkBookingOverlap` compares the text of
a stylist's document with an id (the repository has populated the item), so it finds
nothing, which `Text` states. The unique index covers the stylist and the start at the top
of a booking only, and a reschedule leaves that stylist as it was even when the new
items are someone else's. Blocking a time of the list stores a CANCELLED special slot:
the list hides it, the validation does not look at it. `findBookings` asks for a booking's
own branch and date, which are those of its first item, and then takes the times of all its
items: a later item of another date or branch is hidden by the list of the first one's day
and by none of its own.

`Catalogue` shows a page whole: cutting lists into pages, searching and sorting them is in
`Listings`. The one cut that belongs to a page itself is that of a stylist's card, which
names three services (`existing.length < 3`); which three depends on the order the mappings
come in, so `Pages` lets it be any.

Two details shape `Roster`. A list asks for the holidays of a branch by `branchId`
while holidays store `branchIds`, so only holidays of all branches close a day
(`ClosedByHoliday`). The limit on breaks counts those of the date and those of the day of
the week apart, so a day may have both.

Each module has a section of faulty variants of its definitions. The specification
does not use them: they are what shows that a property can fail.

## 4. Runs

| Run | Question | Instance |
|---|---|---|
| `booking_concurrent` | Can overlap or a failure settle, escrow or refund what nobody paid for, replace an escrow document, or enter a payment of nothing when the coupon takes off the whole price? No. | 1 booking, 2 payments, every operation, a coupon of the whole price, 2 requests at once out of 4, a cleanup run, 1 fault |
| `booking_serial` | Are the checks of the handlers enough when handlers do not overlap, but may be cut short? Yes: PAID after two payments, cancellation final, the price fixed once paid but for a booking that was set back or cut off from its payment by a fault (`PriceFixedOncePaid`), one move (`PutOffOnce`), a coupon only while it has uses (`CouponNeedsUses`) and each counted use paid for (`UsesWerePaid`). | 1 booking, 3 payments, 6 requests, 1 fault, every status |
| `booking_wallet` | Do the sums add up when nothing overlaps or fails? Refunds plus escrow never exceed what was collected and PAID is paid in full; the dashboards agree with whatever the bookings have become; turning the pages of a list misses nothing. | wallet payments only (orders are `two_advances`), 7 requests, no NO_SHOW |
| `booking_cleanup` | Is an expired unpaid booking freed in the end? Yes, although a wallet payment, a cancellation and a status change race the cleanup and one of them is cut short. | 1 booking, 2 requests at once out of 3, fair |
| `two_advances` | Is PAID paid in full when orders are used? No: two orders for the advance, verified one after the other, make the booking PAID for 40 % of its price. | violation |
| `escrow_overlap` | Do overlapping release runs, crashes and the race to create the stylist's wallet keep the escrow and the wallet right, and does held money reach the stylist? Yes; it may reach him more than once, but no more often than runs overlap and fail (`CreditsBounded`). | 2 bookings of a stylist, 2 days, 2 runs, 1 fault, fair |
| `wallet_concurrent` | Does a balance stay what the records add up to, how far can it be overdrawn, does a top-up arrive, and who is bringing it until then (`TopupOnItsWay`)? | 1 customer, 2 amounts, 3 requests at once out of 4, 1 fault, fair |
| `slot_calendar` | Which double bookings are impossible? Those of the same start, for bookings that were not moved, and those of two times the list showed as available, of items of the branch and day their bookings are looked up by. | 2 bookings, 2 stylists, 2 branches, 2 days, 8 carts, 1 special slot, 2 requests at once out of 6, any of them cut short |
| `accounts` | Do codes reach their owners, and can active stylists log in, under any overlap? Yes. Are invites handled one by one? As long as handlers do not overlap. | 2 users, 1 e-mail address, 1 telephone, 3 invites, 2 requests at once out of 4, 1 fault |
| `storefront` | Does a page that is collected while administrators edit agree with what was on offer? Does a stylist keep a branch, a document its picture? Yes. | 2 branches, 2 categories, 2 services, 1 stylist, cards of 1 service, 3 owners of pictures (a user and the services), 3 objects, 2 requests at once out of 3, 1 fault |
| `roster` | Does a list of the day agree with the day? Does an override stand? Are breaks limited? | a day of 4 cells of which the first has gone by, 2 breaks, 1 day off, a list and an edit at once out of 3 requests, 1 fault |
| `aftercare` | Does a room close only after its booking, and does it close? Do ratings count the reviews? | 2 bookings of one pair, 2 services, 2 requests at once out of 4, 1 fault, fair |

The type invariants of `BookingPayment`, `EscrowRelease` and `Wallet` are run. Those of
`SlotBooking`, `Storefront`, `Roster`, `Accounts` and `AfterCare` are not: section 5
proves them for every value of the constants, of these instances too.

**Why the bounds are enough.** In `BookingPayment`, bookings share only the coupon
counter and the customer's balance, and no property relates two bookings, so one booking
with every operation shows what handlers do to it. Every race in the code is between two
holders of the same snapshot: two requests and a cleanup run give every pair, and four
requests let two set a booking up for the other two. A price of 10 with a discount of 5
makes the advance 2 or 1 by rounding up, and the payable, advance and remainder distinct; a
discount of 10 is the edge where nothing is payable.
An opening balance of 10 or 20 lets a wallet payment fail and succeed. In the
escrow, two bookings of one stylist are what the race for the wallet and the sums
need, two runs are what overlap needs, two days what a release date needs. In the calendar a
double booking is between two bookings; the carts hold a long service, the second half
of it with the same and with the other stylist, and two services in a row with both, so
starts can differ while times overlap, and top-level fields can disagree with items. Two
carts have a second item on another day or at another branch, and two hold that item alone,
so a time no list hides is asked for twice, as is one that the first booking's own day
hides; six requests let a booking be made, cancelled, replaced, taken up again and moved.

In `Accounts`, two users with one address and one number are what a collision needs, and
four requests let a stylist be invited, accepted and approved while he is rejected or
invited again. In `Storefront` a page needs one service with a category to be moved
between, and two for a card of one to be cut, as the fourth is on a card of three; two
handlers exercise every pair of replacements. The initial states of `Catalogue` are an
empty and a set-up catalogue, since three requests would not set one up. In `Roster` four
cells with a shift of three are the shortest day in which a service of two cells may start
at two times, of which one has gone by, with a break or a booking in the other, and in
which it does not fit a shift (the second, of one cell); two requests at once are a list
and an edit, or two edits. In `AfterCare` both bookings are of one customer and stylist,
whose room both name in turn.

In `Listings`, lists have at most `MaxRows` = 3 rows and `Limits` of 1 and 2 per page, so
a list has up to three pages and the last one may be full or not; one row is inserted or
removed before or after any query of any page. In `BookingReports`, `Places` are a day
inside and on either side of each edge of a period. Both are stated of constants and hold or
fail in the first state that has a booking: they are evaluated in the wallet run because
its bookings are what the figures are about. One fault at any point is enough for each
property that says what a cut handler leaves behind.

**Fairness.** Weak fairness of `Continue(r)` and `Step(j, b)`, and in `AfterCare` of
`WritePhase`, `ChatGoesOn` and `ReviewGoesOn`, handler by handler: Node resumes a handler
whose awaited call has come back, and nothing in the code can disable the rest of a
handler. Weak fairness of `ExpireList`, `List` and `Job`: `cron.ts` starts them every five
minutes, every two minutes and every hour, for as long as the process lives, and it is
started again after a crash. Clients are never obliged to do anything. Strong fairness is
not used.

**Serial specifications.** `SerialSpec` allows a request to begin only when no other is in
progress. It is not how the process runs; it separates what the checks of a handler
achieve from what overlap undoes. The modules over `Handlers` say the same with the
history variable `overlapped` inside the property.

**Deadlock** is checked for the booking and escrow models. In the others the bound
`MaxRequests` ends behaviours, so their configurations set `CHECK_DEADLOCK FALSE`.

## 5. Proofs

Every invariant, every action property and the refinement that a run checks is a theorem;
what is left to TLC alone is liveness. The theorems hold for every set of bookings, orders,
customers, stylists, branches, services, objects, requests and cron runs, every price,
discount and amount, and without bounds on time, requests or faults; some of them are of
`SerialSpec`, and two of these under `WalletOnly` (below). They rest on the named assumptions of
the modules: amounts are natural numbers, the bounds are, "nothing" is no id and no
document, every booking has a stylist and belongs to two people, times lie within the day,
an address is no number, neither users nor stylists are services, services are what
has images, and what is summed over is finite (payment documents, bookings of a stylist, runs
and requests in memory, breaks).

**Sums.** The prover does not instantiate an induction principle, which takes a predicate
as its parameter. `Sums!MinimalSubset` says the same about sets: of any
collection of subsets of a finite set one is minimal. What holds for all finite
sets is shown by taking a minimal one for which it fails and removing an element. In this way
`Sums` proves that `SumFunctionOnSet`, whose definition is a recursion, has a value, does
not depend on the order of its elements (`SumSplits`), grows by what is added (`SumAdds`),
moves by what one element changes (`SumChanges`), is bounded and monotone, and that the
sums, or the numbers, of the disjoint parts of a set add up to that of the set
(`CountOfParts`, `SumOfParts`); the theorems about balances and charts cite these.

Money, booking by booking (`BookingPayment_proofs`):

| Theorem | Says | Argument |
|---|---|---|
| `TypeCorrect` | `TypeOK` | `TypeInv` adds `PaymentsBound` (a payment document names a booking) and `RequestsBound` (what a request in progress carries fits its program counter): without them a resumed handler could write to no booking |
| `SettledWasPaid` | `NothingSettledUnpaid` | not inductive, since a handler that has yet to write "paid" or a refund acts on what it read earlier. `PaidInv` adds `RequestsPaid`: a request that is about to settle something, and one whose snapshot says settled, has a completed payment behind it. The lemma `CompletedLasts` (a completed payment is never undone) carries this through the steps of all others |
| `NothingPaysNothing` | `PaymentsBringMoney` | not inductive: a payment is entered calls after its amount was looked at. `DueInv` adds that a request on its way to entering one found something due in the booking it read (`RequestDue`) |
| `EscrowStands` | `EscrowUntouched` | from `TypeInv`: only `Hold` writes the document, and the index refuses |
| `CancelledStays` | `CancelledIsFinal`, of `SerialSpec` | the property is about one step, which depends on what was checked calls ago. `SerialInv` adds `RequestAlone` and `RunAlone`: the snapshot of the only handler is the document still (`ReadIsFresh`), so its check still holds when it writes, and what the cleanup lists is unpaid. The reads the code repeats after a payment are where `ReadIsFresh` begins anew |
| `PriceFixed` | `PriceFixedOncePaid`, of `SerialSpec` | from `SerialInv` a handler at `couponWrite` read PENDING_PAYMENT, and the booking is that still. `ToldInv` adds that without faults a completed payment is told: the booking's payment status says so, or the handler that completed it is still recording it (`Recording`), which in serial order is not one of a coupon |
| `AppointmentsMoveOnce`, `CouponsHadUses` | `PutOffOnce`, `CouponNeedsUses`, of `SerialSpec` | `StandsInv`: what a handler checked still stands when it writes. One that is about to move a booking holds a snapshot that may be moved, which `SerialInv` says is the document still; one that is about to give a coupon finds uses left, since nobody else can have counted one |
| `UsesArePaid` | `UsesWerePaid`, of `SerialSpec` | `UsesInv` adds that a request between its completed payment and the count finds one use less than completed payments; that a payment is completed once is in `TwiceInv` |
| `PaidTwice` | `PaidByTwoPayments`, of `SerialSpec` | `TwiceInv` names the two payments (`TwoPaid`) of a booking that is PAID and of a request that is going to write so after an advance; the count follows from naming them |
| `NoMoneyMade`, `PaidEnough` | `MoneyConserved`, `PaidInFull`, of `SerialSpec` under `WalletOnly` | `MoneyInv` keeps books: what is kept of a booking (its completed payments less its refunds) covers what its status says was paid (`Owed`), escrow is that very amount, and a request past its payment brings what it is going to write (`Covers`) |

`WalletOnly` is the instance of the run `booking_wallet` in general terms, and each of its
parts is needed: with orders, the run `two_advances` shows PAID without the price; a
NO_SHOW puts an advance into escrow that a cancellation gives back; a booking set back to
PENDING_PAYMENT can have its coupon changed and be paid again; a fault between credit and
last write of a cancellation lets the retried one refund again.

Escrow and wallets:

| Theorem | Says | Argument |
|---|---|---|
| `EscrowRelease_proofs!TypeCorrect` | `TypeOK` | inductive as it stands |
| `EscrowRelease_proofs!ReleasedCredited` | `ReleasedWasCredited` | `ReleaseInv` adds `TasksKnow`: a task past the credit has credited, and the amount it carries is that of the document it was listed from; `EmptyDocuments`: no amount and no credit without a document |
| `EscrowRelease_proofs!EarningsCorrect` | `EarningsAddUp` | with `ReleaseInv`: a credit moves the wallet by the amount of the document and the sum by one more of it (`SumChanges`) |
| `EscrowRelease_proofs!CreditsLimited` | `CreditsBounded` | not inductive, since tasks that have yet to credit are allowed to. `CreditCovered`: while an escrow is HELD, its credits are those of tasks still to mark it, and those faults cut short; once it is RELEASED, credits and tasks to come are together within the bound |
| `EscrowRelease_proofs!Refines` | `ImplementsBook` | each step maps to `PutAside`, `PayOut`, `Release` or a stutter, under `ReleaseInv`. A second credit is a stutter of the book: its paying is at least once |
| `Wallet_proofs!TypeCorrect` | `TypeOK` | inductive as it stands |
| `Wallet_proofs!LedgerCorrect` | `NothingLost` | inductive under `TypeOK`: moving a balance adds the same amount to what is unrecorded (`SumAdds`), recording takes it out again (`SumSplits`) |
| `Wallet_proofs!OverdraftLimited` | `OverdraftBounded` | `AmountsKnown` bounds what a request takes. A debit that passes its check finds the balance at least its own amount, so what is left to take is that of the others (`SumBound`); a check that fails adds nothing |
| `Wallet_proofs!TopupsAreComing` | `TopupOnItsWay` | `WayInv` adds `WalletsThere` (who has an order has a wallet, so the credit finds one) and `VerifiesOwn` (a request that carries an order credits its customer): whoever marks the order goes on to credit it, and only a fault takes a request off that way |
| `Wallet_proofs!SerialCovered` | `NeverOverdrawn`, of `SerialSpec` (proved, in no run) | `SerialInv` adds `Checked`: a debit about to take its amount is covered by the balance, true as long as nobody else can move it |

Figures and lists (`BookingPayment_proofs`). These are about operators, for any bookings,
users and rows; no state matters to them beyond the types of `TypeCorrect`:

| Theorem | Says | Argument |
|---|---|---|
| `ChartsOfStylistsAddUp`, `DashboardsAddUp`, `GrowthsAddUp` | the bars of each chart add up to the figures above it, in number and in money, for any finite set of bookings or users; in a stylist's charts of the day and the year, of bookings that do not lie where `Misplaced` says a bar loses or doubles them | the bars of a chart are the parts of what it counts: each booking lies in one bar, and in no other (`OneBar`); numbers and sums go part by part (`Sums!CountOfParts`, `Sums!SumOfParts`). A ranking of stylists is complete as long as there are at most five |
| `ReportsAddUp` | `ChartsAddUp` | the sets of bookings it names are reportable, with amounts that are those of `TypeInv` |
| `InsertionsHideNothing` | for any list, of any length, with any limit, one row inserted anywhere at any moment hides no other from whoever turns the pages, unless the list was counted before the insertion and its page read after it | a list is a filter and a page of what the filter keeps (`EveryListAnswers`, one lemma per list); a filter goes part by part (`AmongJoins`), so one more row moves each row of the filtered list by one place at most (`Shifted`, `InsertedShifts`). A row that moved from its page is on the next, which is turned to, because whoever was told of it counted enough (`ReachedIf`, `TurningShows`) |
| `RemovalsRepeatNothing` | one row removed anywhere at any moment makes no other appear twice | rows only move towards earlier pages, which have been turned (`TurningRepeatsNothing`) |
| `PublicListsShowTheLive` | a public list shows nothing deleted, and but for the branches nothing switched off, whatever is asked of it | what the controller asks for overrides what the client asked |
| `PagesAreSound` | `PagesMissNothing` | the three before, at the bounds of `Listings` |

Filters and turned pages are written with recursive functions and sequences. What holds for
every sequence is shown by taking a shortest one for which it fails (`ShortestBad`).

Calendar, catalogue and roster:

| Theorem | Says | Argument |
|---|---|---|
| `SlotBooking_proofs!TypeCorrect` | `TypeOK` | `TypeInv` adds that a stored booking has items (`BookingsHaveItems`) and that a request carries what its operation needs (`RequestsFit`) |
| `SlotBooking_proofs!FirstItemsStayApart` | `FirstItemsApart` | the index speaks of top-level fields, the property of items: `IndexInv` adds `KeysFollow` (branch, stylist, date and start of both agree until a booking moves) and `KeysApart` (what the index keeps, for every write) |
| `SlotBooking_proofs!ClashesWereNotListed` | `ClashWasNotListed` | inductive under `TypeInv`: the lemma `AvailableIsFree` says that a time on the list overlaps no item of a booking that the list looks up and that holds its times. A booking is looked up by its own branch and date, hence the two `Sees` in `Clash` |
| `Pages_proofs!StorefrontTypes` | `StorefrontTypeOK` | `Shaped` says which sequences of calls a handler of each kind may have left, so that one that is about to leave or place somebody carries a stylist and a branch, and a picture's handler that deletes still has to write |
| `Pages_proofs!StylistsKeepTheirBranch` | `StylistKeepsBranch` | inductive under `TypeInv`: `Leave` leaves its own handler at `place`, no other step takes a handler away from `place` (`StillPlacing`), and a `Place` the index refuses found a branch there |
| `Pages_proofs!PicturesAreThere` | `PictureIsThere` | not inductive: the picture somebody deletes could be the one another document names. `PictureInv` adds `Owned` (no two documents name one picture, and what a handler read was its owner's), `Fresh` (an upload not yet written lies in the bucket and is nobody else's) and `InUse` (whatever is named was uploaded, so an upload is none of them). `CatalogueLeavesPictures` carries all of it through the steps of the catalogue |
| `Pages_proofs!PagesShowTheTruth` | `PagesShowTheOffer` | the property speaks of the last query of a page. `PageInv` says of every page, whatever queries are left, that it would be `Truthful` if they were all answered now: what would pass them (`WouldPass`) was offered at first, and what was and still is offered has not been lost, under the category it has now. An answer moves a query from the second half of that sentence to the first (`TruthfulOn`); an edit that opens nothing lets less pass (`TruthfulStays`); `Ordered` is the one thing it needs to know of the order of the queries: services are asked for once, and before their categories. A card that is cut still is part of what passes, and has as many as it takes |
| `Pages_proofs!RosterTypes` | `RosterTypeOK` | `RosterShaped` ties the calls a handler has left to the data it carries; `WeeklyStays` (nobody removes a week, so one that is about to be saved is there) |
| `Pages_proofs!OverridesStand` | `OverrideStands` | inductive under the types: the handler that removed an override is at `create` (`RestOverride`), no other step takes it from there (`Others`), and its create writes one, or is refused and says so. `NotedShaped` shows that an edit, which changes what the list in progress has noted, leaves every handler at its call |
| `Pages_proofs!ListsShowTheDay` | `ListShowsTheDay` | the same idea for the list of the day: `ListInv` is about the list that would be shown if the unread queries were answered now (`Mix`). A query answered changes nothing in that mixture (`GatheringKeeps`); an edit changes it in one answer, and the handler has noted which way. The clock only takes times away, the same ones at the beginning and at the end (`LaterOffers`) |
| `Pages_proofs!BreaksWithinLimit` | `BreaksLimited` | `BreakInv` adds that one handler is in progress at a time and that a break about to be inserted still fits (`Weighed`); inserting and removing move the sums by one break (`SumChanges`) |

Accounts and what follows an appointment:

| Theorem | Says | Argument |
|---|---|---|
| `Accounts_proofs!AccountsTypes` | `AccountsTypeOK` | `Shaped` says which calls each kind of handler has left and whom they are about; `Absent` (nothing is kept of a user who is not there) and `InvitesNamed` let a handler that read an invite find its user |
| `Accounts_proofs!CodesDoArrive` | `CodesArrive` | `Arrivals`: a stored code is that of the handler about to send it, under the key it sends to, or has been sent. A later request overwrites the code and the duty to send it together |
| `Accounts_proofs!ActiveStylistsHavePasswords` | `ActiveStylistHasPassword` | not inductive, since a handler activates after other calls. `Backed` adds that one which is to activate somebody has written a password first, or knew of one (`Relied`); `BecomesReady` shows that a user with a password keeps one |
| `Accounts_proofs!InvitesTakeTurns` | `InvitesInTurn` | `TurnInv`: one handler at a time, and what each kind of handler has seen to before the call that opens an invite or rejects somebody (`InTurn`: one that is about to invite has cancelled what was open, one that is about to reject too) |
| `AfterCare_proofs!AfterCareTypes` | `AfterCareTypeOK` | `Shaped` as above; `RoomsKnown` (a room there is names a booking of its two people), `WritersMet` and `JobMet` (handlers and the job deal with rooms there are): without them a write could make half a room |
| `AfterCare_proofs!ClosedRoomsWereOver` | `ClosedWasOver` | not inductive: a handler or the job closes on what it read calls ago. `ClosingInv` adds `Marked` and `JobMarked` (what they noted is the room's booking still, or the opening has crossed them) and `Decided` and `JobDecided` (what they are to close was over). `WasOverLasts` carries this through the steps that keep rooms (`RoomsKeep`); opening a room is the one that does not |
| `AfterCare_proofs!RatingsDoAddUp` | `RatingsAddUp` | `RatingInv` adds `OneByOne` (without overlap one handler at a time), `CountedRight` (what it counted is what there is to count) and, in `AddUp`, which handler the ratings that lag behind are due to (`Due`, which is `ToBeWritten` in terms of the next call) |

**What a proof changed in the models.** An earlier statement of `ListShowsTheDay` noted for a
whole day whether an edit had opened or closed something. Its invariant could not be
proved, and for a reason: a stylist's own break and the
breaks of the branch are read by different queries, and edits that close the day as a whole
can open it for a list that has asked one of them already. Three requests, the bound of the
run, are too few to show it. `Today` and `ClosesAtLeast` now note what an edit does to the
answer of each query, which is what the list is computed from, and the property of that is
the theorem.

**Only model-checked.** Liveness (`ExpiredIsFreed`, `HeldIsReleased`,
`TopupReachesWallet`, `ExpiredRoomCloses`): temporal properties under fairness are beyond
the prover. Of `TopupReachesWallet` the safety half is proved (`TopupsAreComing`). The
refutation of `PaidInFull` with orders is a run, `two_advances`.

## 6. What the checks say about the code

**Holds under overlap and failures.** Nothing is settled, escrowed or refunded without a
payment, and no payment is of nothing; escrow documents stand; releases follow credits;
held money is released; balances are what their records say unless a request was cut
short; an expired booking is freed; two bookings of one stylist whose times were on the
list when they took them do not clash with items of the branch and date the bookings are
looked up by; a code that is texted arrives; an active stylist has a password; a list of
the day and a public page agree with some moment between question and answer unless the
opposite was edited meanwhile; an override stands until taken back; a room closes after
its booking is over and in the end does. The order of the calls carries some of these:
approval writes the password before the activation, a picture is uploaded before the old
one goes, a change of branch is leave, then place.

**Holds only while handlers do not overlap.** A final cancellation, a price fixed once
paid, one payment counted once, one move of an appointment, a coupon given only while it
has uses left, one counted use per payment, no overdraft, invites in turn, breaks within
their limits, ratings that count the reviews. The price has the exceptions of
`PriceFixedOncePaid`: a booking set back, a payment a fault cut off. The write of each of
these operations names the document by `_id` alone, so two requests that read the document
in the same state both go through. Even without overlap, bookings that were given a coupon
before its uses ran out keep it and are counted when they are paid, so the count can pass
the limit. How far overlap can go is bounded by `OverdraftBounded` and `CreditsBounded`.

**Does not hold, with a run that shows it** (the finding of `PROJECT.json`): PAID is paid
in full (`two_advances`, even without overlap).

**Further disagreements met while modelling.** They are part of the models, and the
properties above are stated so that they hold in spite of them:

- *Money.* Two overlapping cancellations refund twice (`booking.service.ts:131`), and so
  does one retried after a fault. A paid booking that staff set back to PENDING_PAYMENT
  can be given another coupon, or lose the one it was paid with (`booking.service.ts:270`,
  which asks nothing about payments). A NO_SHOW booking that is cancelled refunds an
  advance already in escrow. Overlapping or failed release runs credit an escrow twice
  (`escrow.service.ts:118`). Overlapping debits overdraw a wallet.
- *Times.* `checkBookingOverlap` finds nothing (`SlotValidator.ts:99`), so a time inside
  another booking is accepted: what stands between a customer and a time that is taken is
  the list alone. The list in turn looks a booking up by its own branch and date
  (`slot.repository.ts:63`), those of its first item, and an item is stored with the date it
  was sent with (`booking.service.ts:489`) and validated at the branch of the booking: a
  later item of another date or branch is hidden by no list of its own, and two bookings of
  listed times can clash there.
  Overlapping reschedules move a booking twice (`booking.service.ts:218`).
  Overlapping special slots can both be inserted (`SpecialSlotService.ts:61`), also on
  holidays and days off; a cancelled one is still listed as SPECIAL. A start time may be
  sent without its colon (`slot.schema.ts:35`).
- *Hours.* Holidays of a branch never close a day. A refused replacement of an override has
  already deleted the old one. Weekly and dated breaks together give up to twice the
  limit (`schedule.service.ts:162`), overlapping requests for breaks more; an
  inverted break counts negatively (`schedule.service.ts:172`). Days off and bookings never
  look at each other.
- *Accounts.* `resendEmailOtp` stores a code it never mails. Signing up with both contacts
  stores the user, then answers that the credentials are invalid. Approving a stylist does
  not cancel his invite, and accepting it later deactivates him; an overlapping acceptance
  revives a cancelled invite. A rejected stylist who is approved stays blocked. Approving
  and rejecting do not ask whether the account is a stylist's. Only the token is checked
  when a request comes in, not whether its user has been blocked since (`blockMiddleware`
  reads `req.authUser`, which nothing sets).
- *Catalogue.* `toggleStatus` of a branch's service inserts a mapping without price or
  duration; a booking charges default values for a service that is not offered; the
  services of a disabled branch stay listed. A service is refused by name and category,
  the index by name alone. `service.update` may set any image address.
- *Chat and reviews.* The status route sets no `cancelledAt`, so the chat of a booking it
  cancels never closes. Two messages at once may leave the older as the preview. A deleted
  review keeps the unique index from a new one. The notification of a review is addressed
  to the id of the stylist's document, not of his user. A booking's status may change
  between the review's check and its insertion.
- *Figures.* `setUTCMonth` on the last day of a month skips the short months of the yearly
  chart and counts the next ones twice (`MonthShown`); an hour of one digit is in no bar.
  The administrator's revenue takes the undiscounted price of a booking whose payable
  is 0. A stylist's revenue counts bookings nobody has paid, and bookings of several
  stylists in full for each. The list of stylists shows his oldest invite, `listAll` the
  latest. A row inserted between a list's count and its page can hide the last row; a
  removed row lets a reader skip one.

## 7. What is not modelled

Within the modelled components: dates and their parsing, the contents of rows, percentage
coupons and their dates (the discount is a constant), names and their uniqueness, the
three days' notice of a day off, notifications, HTTP and the checks of who is logged in.
Razorpay signatures are either valid, and the request is one the model takes, or refused with
no effect. Express 5 discards what the validation middleware assigns to `req.query`, so
`Listings` parses what was sent. Rows that are equal under a sort come in the same order in
every query; the server's clock is UTC. Logging in, refreshing a token and changing a
password one knows write nothing that another handler decides on. Of the dashboards, the
counts of active customers, of active stylists and of pending escrows are left out.

Components without a module: notification and wishlist insert or toggle one row that
nothing reads back to decide; the socket keeps a rate limit in memory and otherwise forwards
to the chat; the Razorpay client wraps a library; of the shell, `Handlers` and `Listings` have
what its calls do, routing and configuration are left out. Administration of coupons
edits single documents.

## 8. Plan

Done: the money path, escrow with its refinement, wallet, calendar, accounts, the
catalogue with its pictures, the roster, what follows an appointment, lists and
dashboards, and the proofs of section 5. Left, in order of importance:

1. The safety half of `ExpiredIsFreed` as an invariant: which handler or run an expired slot
   is due to as long as it has not been freed.
2. Two rows inserted or removed while pages are turned; ties in the order of a list.
3. The administration of coupons together with their use by bookings.
