------------------------------ MODULE Listings ------------------------------
(***************************************************************************)
(* The lists the back end answers page by page: how a request is turned    *)
(* into a page, which rows each list holds, and how the answer says        *)
(* whether there is another page.                                          *)
(*                                                                         *)
(* A list is answered either by a query for the page and a second query    *)
(* that counts, sent together, or in memory, by cutting the page out of    *)
(* everything that was read.  Hence every list below is given the rows the *)
(* page is cut from and the rows the count sees; they differ when a row is *)
(* inserted or removed between the two queries.  Rows come in the order of *)
(* the sort; ties are taken to come in the same order every time.          *)
(***************************************************************************)
EXTENDS Integers, Sequences, SequencesExt, FiniteSetsExt

\* What a list can be asked for, and what its rows differ in: deleted or live,
\* switched on or off (an ACTIVE status, isActive, a HELD escrow), belonging to
\* the branch, stylist or role the list is about or not, hit by the searched
\* text or not.
Rows == [id : Nat, live : BOOLEAN, on : BOOLEAN, mine : BOOLEAN, hit : BOOLEAN]
Wishes == {"any", "yes", "no"}
Given(wish, is) == wish # "any" => (is <=> wish = "yes")
Found(ask, row) == ask.search => row.hit

\* The rows a filter keeps, in their order.
Among(rows, kept) ==
  LET upTo[n \in 0..Len(rows)] ==
        IF n = 0 THEN <<>>
        ELSE IF rows[n] \in kept THEN Append(upTo[n - 1], rows[n]) ELSE upTo[n - 1]
  IN  upTo[Len(rows)]

-----------------------------------------------------------------------------
(* Plausible slips of the code, for the mutation of the properties.         *)

ParseSkippingFirst(ask) ==
  LET limit == IF ask.limit = 0 THEN 10 ELSE Min({100, Max({1, ask.limit})})
      page == IF ask.page = 0 THEN 1 ELSE Max({1, ask.page})
  IN  [page |-> page, limit |-> limit, skip |-> page * limit]

-----------------------------------------------------------------------------
(* Turning a request into a page.                                           *)

DefaultLimit == 10
MaxLimit == 100

\* 0 stands for a page or a limit that was not given.
ParsePage(page) == IF page = 0 THEN 1 ELSE Max({1, page})
ParseLimit(limit) ==
  IF limit = 0 THEN DefaultLimit ELSE Min({MaxLimit, Max({1, limit})})

Parse(ask) ==
  LET page == ParsePage(ask.page)
      limit == ParseLimit(ask.limit)
  IN  [page |-> page, limit |-> limit, skip |-> (page - 1) * limit]

Slice(rows, p) == SubSeq(rows, p.skip + 1, Min({p.skip + p.limit, Len(rows)}))

Build(data, totalItems, p) ==
  LET totalPages == (totalItems + p.limit - 1) \div p.limit
  IN  [data |-> data, totalItems |-> totalItems, hasNextPage |-> p.page < totalPages]

\* The page and the count by two queries of one filter.
Paginate(found, counted, ask) ==
  LET p == Parse(ask)
  IN  Build(Slice(found, p), Len(counted), p)

\* The same, but a page without rows claims an empty list.
PaginateOrEmpty(found, counted, ask) ==
  LET answer == Paginate(found, counted, ask)
  IN  IF answer.data = <<>> THEN Build(<<>>, 0, Parse(ask)) ELSE answer

\* The page cut out of one reading.
InMemory(rows, ask) == Paginate(rows, rows, ask)

-----------------------------------------------------------------------------
(* Lists counted by a query of their own.                                   *)

BranchList(found, counted, ask) ==
  LET kept == {row \in Rows : Given(ask.live, row.live) /\ Found(ask, row)}
  IN  Paginate(Among(found, kept), Among(counted, kept), ask)

CategoryList(found, counted, ask) ==
  LET kept == {row \in Rows : Given(ask.live, row.live) /\ Given(ask.on, row.on) /\ Found(ask, row)}
  IN  PaginateOrEmpty(Among(found, kept), Among(counted, kept), ask)

\* ask.mine: of the category asked for.
ServiceList(found, counted, ask) ==
  LET kept == {row \in Rows : /\ Given(ask.live, row.live) /\ Given(ask.on, row.on)
                              /\ ask.mine = "yes" => row.mine
                              /\ Found(ask, row)}
  IN  PaginateOrEmpty(Among(found, kept), Among(counted, kept), ask)

\* row.live: the user is active and not blocked; ask.mine: of the branch asked for.
StylistList(found, counted, ask) ==
  LET kept == {row \in Rows : /\ Given(ask.live, row.live) /\ Given(ask.on, row.on)
                              /\ ask.mine = "yes" => row.mine
                              /\ Found(ask, row)}
  IN  Paginate(Among(found, kept), Among(counted, kept), ask)

\* row.mine: of the role USER, which the controller adds to every query.
UserList(found, counted, ask) ==
  LET kept == {row \in Rows : row.mine /\ Given(ask.on, row.on) /\ Found(ask, row)}
  IN  Paginate(Among(found, kept), Among(counted, kept), ask)

\* One status is asked for: ACTIVE, INACTIVE or DELETED.
CouponList(found, counted, ask) ==
  LET kept == {row \in Rows : IF ask.live = "no" THEN ~row.live /\ Found(ask, row)
                              ELSE row.live /\ Given(ask.on, row.on) /\ Found(ask, row)}
  IN  Paginate(Among(found, kept), Among(counted, kept), ask)

\* row.mine: an item or the whole booking is the asking stylist's; row.hit: the
\* customer's name is.
StylistBookingList(found, counted, ask) ==
  LET kept == {row \in Rows : row.mine /\ Given(ask.on, row.on) /\ Found(ask, row)}
  IN  Paginate(Among(found, kept), Among(counted, kept), ask)

EscrowList(found, counted, ask) ==
  LET kept == {row \in Rows : /\ ask.mine = "yes" => row.mine
                              /\ Given(ask.on, row.on) /\ Found(ask, row)}
  IN  Paginate(Among(found, kept), Among(counted, kept), ask)

\* Counted first; the page is then cut out of what a second query reads.  The
\* answer carries the total alone, from which the client tells the pages; what
\* was asked for is taken as it is.
ReviewList(found, counted, ask) ==
  LET page == IF ask.page = 0 THEN 1 ELSE ask.page
      limit == IF ask.limit = 0 THEN 10 ELSE ask.limit
      kept == {row \in Rows : /\ ask.live = "any" \/ row.live
                              /\ ask.mine = "yes" => row.mine
                              /\ Found(ask, row)}
      p == [page |-> page, limit |-> limit, skip |-> (page - 1) * limit]
  IN  Build(Slice(Among(found, kept), p), Len(Among(counted, kept)), p)

-----------------------------------------------------------------------------
(* Lists cut in memory.  row.mine: there is a mapping to the branch or the  *)
(* stylist; row.on: that mapping is active.                                 *)

BranchServiceList(rows, ask) ==
  LET kept == {row \in Rows : /\ row.live /\ Found(ask, row)
                              /\ Given(ask.mine, row.mine)
                              /\ Given(ask.on, row.mine /\ row.on)}
  IN  InMemory(Among(rows, kept), ask)

StylistServiceList(rows, ask) ==
  LET kept == {row \in Rows : /\ row.live /\ Found(ask, row)
                              /\ Given(ask.mine, row.mine)
                              /\ Given(ask.on, row.mine /\ row.on)}
  IN  InMemory(Among(rows, kept), ask)

BranchCategoryList(rows, ask) ==
  LET kept == {row \in Rows : row.live /\ Found(ask, row) /\ Given(ask.on, row.mine /\ row.on)}
  IN  InMemory(Among(rows, kept), ask)

\* row.live, row.on: the service is; row.mine: it is offered at the branch, in a
\* live category.
PublicBranchServiceList(rows, ask) ==
  LET kept == {row \in Rows : row.live /\ row.on /\ row.mine /\ Found(ask, row)}
  IN  InMemory(Among(rows, kept), ask)

UnassignedList(rows, ask) ==
  LET kept == {row \in Rows : ~row.mine /\ Found(ask, row)}
  IN  InMemory(Among(rows, kept), ask)

BranchStylistList(rows, ask) ==
  LET kept == {row \in Rows : row.mine /\ Found(ask, row)}
  IN  InMemory(Among(rows, kept), ask)

-----------------------------------------------------------------------------
(* What the controllers and services ask these lists for.                   *)

\* The parts of the request a controller copies, with its defaults.
Copied(ask, parts, limit) ==
  [page |-> IF ask.page = 0 THEN 1 ELSE ask.page,
   limit |-> IF ask.limit = 0 THEN limit ELSE ask.limit,
   search |-> ask.search,
   live |-> IF "live" \in parts THEN ask.live ELSE "any",
   on |-> IF "on" \in parts THEN ask.on ELSE "any",
   mine |-> IF "mine" \in parts THEN ask.mine ELSE "any"]

AskBranches(ask) == Copied(ask, {"live"}, 10)
AskPublicBranches(ask) == [Copied(ask, {}, 10) EXCEPT !.live = "yes"]
AskCategories(ask) == Copied(ask, {"live", "on"}, 10)
AskServices(ask) == Copied(ask, {"live", "on", "mine"}, 10)
AskPublicServices(ask) ==
  [Copied(ask, {"mine"}, 10) EXCEPT !.live = "yes", !.on = "yes"]
AskPublicStylists(ask) == [ask EXCEPT !.live = "yes", !.on = "yes"]
AskStylistEscrows(ask) == [ask EXCEPT !.mine = "yes"]
AskBranchServices(ask) == Copied(ask, {"on", "mine"}, 10)
AskPublicBranchServices(ask) == Copied(ask, {}, 9)
AskBranchCategories(ask) == Copied(ask, {"on"}, 10)
AskBranchStylists(ask) == Copied(ask, {}, 10)
AskUnassigned(ask) == Copied(ask, {}, 10)

CountedApart ==
  {"branches", "publicBranches", "categories", "services", "publicServices", "stylists",
   "publicStylists", "users", "coupons", "stylistBookings", "escrows", "stylistEscrows",
   "reviews"}
CutInMemory ==
  {"branchServices", "publicBranchServices", "stylistServices", "branchCategories",
   "branchStylists", "unassigned"}
PublicLists == {"publicBranches", "publicServices", "publicStylists", "publicBranchServices"}
Lists == CountedApart \cup CutInMemory

Answers(list, found, counted, ask) ==
  CASE list = "branches" -> BranchList(found, counted, AskBranches(ask))
    [] list = "publicBranches" -> BranchList(found, counted, AskPublicBranches(ask))
    [] list = "categories" -> CategoryList(found, counted, AskCategories(ask))
    [] list = "services" -> ServiceList(found, counted, AskServices(ask))
    [] list = "publicServices" -> ServiceList(found, counted, AskPublicServices(ask))
    [] list = "stylists" -> StylistList(found, counted, ask)
    [] list = "publicStylists" -> StylistList(found, counted, AskPublicStylists(ask))
    [] list = "users" -> UserList(found, counted, ask)
    [] list = "coupons" -> CouponList(found, counted, ask)
    [] list = "stylistBookings" -> StylistBookingList(found, counted, ask)
    [] list = "escrows" -> EscrowList(found, counted, ask)
    [] list = "stylistEscrows" -> EscrowList(found, counted, AskStylistEscrows(ask))
    [] list = "reviews" -> ReviewList(found, counted, ask)
    [] list = "branchServices" -> BranchServiceList(found, AskBranchServices(ask))
    [] list = "publicBranchServices" ->
         PublicBranchServiceList(found, AskPublicBranchServices(ask))
    [] list = "stylistServices" -> StylistServiceList(found, ask)
    [] list = "branchCategories" -> BranchCategoryList(found, AskBranchCategories(ask))
    [] list = "branchStylists" -> BranchStylistList(found, AskBranchStylists(ask))
    [] list = "unassigned" -> UnassignedList(found, AskUnassigned(ask))

-----------------------------------------------------------------------------
(* A reader who turns the pages until he is told there is no next one,      *)
(* while one row is inserted or removed.                                    *)

\* The two queries of page k are the ticks 2k-1 and 2k, in either order; before
\* the tick of the change the rows are `before`, from it on `after`.
Turned(list, before, after, change, countedFirst, ask) ==
  LET at(tick) == IF tick < change THEN before ELSE after
      pages == [k \in 1..Len(before) + 2 |->
        Answers(list,
                at(IF countedFirst THEN 2 * k ELSE 2 * k - 1),
                at(IF countedFirst THEN 2 * k - 1 ELSE 2 * k),
                [ask EXCEPT !.page = IF k = 1 THEN 0 ELSE k])]
      Reached(k) == \A j \in 1..k - 1 : pages[j].hasNextPage
  IN  [k \in {n \in DOMAIN pages : Reached(n)} |-> pages[k].data]

Shown(turned) == UNION {ToSet(turned[k]) : k \in DOMAIN turned}

\* A row belongs to what is asked for if it is counted where it is the only one.
Belongs(list, row, ask) ==
  Answers(list, <<row>>, <<row>>, [ask EXCEPT !.page = 0, !.limit = 0]).totalItems = 1

Row(id, mine) == [id |-> id, live |-> TRUE, on |-> TRUE, mine |-> mine, hit |-> TRUE]
Everything(limit) ==
  [page |-> 0, limit |-> limit, search |-> FALSE, live |-> "any", on |-> "any", mine |-> "any"]

\* Bounds: lists of at most MaxRows rows, turned one or two rows at a time.
MaxRows == 3
SomeRows ==
  UNION {{[i \in 1..n |-> Row(i, mine[i])] : mine \in [1..n -> BOOLEAN]} : n \in 0..MaxRows}
Limits == {1, 2}
Changes == 1..2 * (MaxRows + 2) + 1

\* Whoever turns the pages of a list is shown every row that belongs to it and
\* was there all along, although a row was inserted meanwhile - unless the list
\* was counted before that row and its page read after it.
InsertedMissesNothing ==
  \A list \in Lists, rows \in SomeRows, mine, countedFirst \in BOOLEAN,
     limit \in Limits, change \in Changes :
    \A place \in 1..Len(rows) + 1 :
      LET after == InsertAt(rows, place, Row(0, mine))
          turned == Turned(list, rows, after, change, countedFirst, Everything(limit))
      IN  \/ list \in CountedApart /\ countedFirst /\ change % 2 = 0
          \/ {row \in ToSet(rows) : Belongs(list, row, Everything(limit))} \subseteq Shown(turned)

\* He is shown nothing twice, although a row was removed meanwhile.
RemovedShowsNothingTwice ==
  \A list \in Lists, rows \in SomeRows, countedFirst \in BOOLEAN,
     limit \in Limits, change \in Changes :
    \A place \in DOMAIN rows :
      LET turned == Turned(list, rows, RemoveAt(rows, place), change, countedFirst,
                           Everything(limit))
      IN  \A j, k \in DOMAIN turned :
            ToSet(turned[j]) \cap ToSet(turned[k]) # {} => j = k

\* Whatever is asked of a public list, it shows nothing deleted or switched off.
PublicShowsTheLive ==
  \A list \in PublicLists :
  \A row \in [id : {0}, live : BOOLEAN, on : BOOLEAN, mine : BOOLEAN, hit : BOOLEAN],
     ask \in [page : {0}, limit : {0}, search : BOOLEAN, live : Wishes, on : Wishes, mine : Wishes] :
    Belongs(list, row, ask) => row.live /\ (row.on \/ list = "publicBranches")
=============================================================================
