------------------------------ MODULE Catalogue ------------------------------
(***************************************************************************)
(* What is offered where: categories and services, the mappings of a       *)
(* branch and of a stylist to them, and the branch a stylist works at.     *)
(* The public pages collect what they show with one query after the other, *)
(* while administrators go on editing, one document per call.  Names,      *)
(* prices, searches and sort orders are left out, and so is that a list is *)
(* shown a page at a time: nothing is decided on them.                     *)
(***************************************************************************)
EXTENDS Handlers, FiniteSetsExt

CONSTANTS
  Branches,
  Categories,
  Services,
  Stylists,
  CardLimit      \* the most services on the card of a stylist: 3

ASSUME CatalogueAssumption ==
  /\ None \notin Branches \cup Categories \cup Services \cup Stylists
  /\ CardLimit \in Nat

VARIABLES
  category,        \* the category collection
  service,         \* the service collection
  branchCategory,  \* isActive of the document of a branch and a category
  branchService,   \* isActive of the document of a branch and a service
  stylistService,  \* isActive of the document of a stylist and a service
  branchOf,        \* the active StylistBranch document of a stylist
  kept             \* history: stylists given a branch and not unassigned since

offerVars == <<category, service, branchCategory, branchService, stylistService>>
placeVars == <<branchOf, kept>>
catalogueVars == <<offerVars, placeVars>>

Status == {"NONE", "ACTIVE", "INACTIVE"}
Mapping == {"none", "on", "off"}
CategoryRecord == [status : Status, deleted : BOOLEAN]
ServiceRecord == [status : Status, deleted : BOOLEAN, category : Categories \cup {None}]
NoCategory == [status |-> "NONE", deleted |-> FALSE]
NoService == [status |-> "NONE", deleted |-> FALSE, category |-> None]

Reads == {"services", "categories", "branchCategories", "branchServices", "mappings"}
CatalogueLocal ==
  [todo : Seq(Reads \cup {"create", "leave", "place"}) \ {<<>>},
   branch : Branches \cup {None}, stylist : Stylists \cup {None},
   found : SUBSET Services, in : [Services -> Categories \cup {None}],
   before : SUBSET Services, opened : BOOLEAN, card : BOOLEAN]

CatalogueTypeOK ==
  /\ category \in [Categories -> CategoryRecord]
  /\ service \in [Services -> ServiceRecord]
  /\ branchCategory \in [Branches \X Categories -> Mapping]
  /\ branchService \in [Branches \X Services -> Mapping]
  /\ stylistService \in [Stylists \X Services -> Mapping]
  /\ branchOf \in [Stylists -> Branches \cup {None}]
  /\ kept \subseteq Stylists

\* A catalogue nobody has touched, or one set up by earlier calls: its categories are
\* active and all mappings on.
CatalogueInit ==
  /\ \E setUp \in BOOLEAN :
       LET on == IF setUp THEN "on" ELSE "none" IN
       /\ category = [c \in Categories |-> IF setUp THEN [NoCategory EXCEPT !.status = "ACTIVE"]
                                          ELSE NoCategory]
       /\ service \in [Services -> {NoService} \cup
                         {[status |-> "ACTIVE", deleted |-> FALSE, category |-> c] :
                            c \in IF setUp THEN Categories ELSE {}}]
       /\ branchCategory = [p \in Branches \X Categories |-> on]
       /\ branchService = [p \in Branches \X Services |-> on]
       /\ stylistService = [p \in Stylists \X Services |-> on]
  /\ branchOf \in [Stylists -> Branches \cup {None}]
  /\ kept = {t \in Stylists : branchOf[t] # None}

-----------------------------------------------------------------------------
(* What is offered.                                                         *)

Live(doc) == doc.status = "ACTIVE" /\ ~doc.deleted

\* A category that was never made is not live, nor is the one of no service.
LiveCategory(c) == c # None /\ Live(category[c])
Covers(b, c) == c # None /\ branchCategory[<<b, c>>] = "on"

Offered(b) ==
  {v \in Services : Live(service[v]) /\ LiveCategory(service[v].category)
                    /\ Covers(b, service[v].category) /\ branchService[<<b, v>>] = "on"}

\* What is switched on, for saying that something was opened.
Facts ==
  {<<"category", c>> : c \in {d \in Categories : LiveCategory(d)}}
  \cup {<<"service", v, service[v].category>> : v \in {w \in Services : Live(service[w])}}
  \cup {<<"branchCategory", p>> : p \in {q \in Branches \X Categories : branchCategory[q] = "on"}}
  \cup {<<"branchService", p>> : p \in {q \in Branches \X Services : branchService[q] = "on"}}
  \cup {<<"stylistService", p>> : p \in {q \in Stylists \X Services : stylistService[q] = "on"}}

-----------------------------------------------------------------------------
(* Faulty variants of definitions below, named after the slip they show.    *)
(* The specification does not use them.                                     *)

ProfileReadsUnfiltered ==
  {<<"mappings", "services", "branchServices">> \o p : p \in {<<"branchCategories">>}}
ChangeStepsOneWay == <<"leave">>

-----------------------------------------------------------------------------
(* The public pages.  A page that has nothing left to show goes on asking   *)
(* here, to no effect.                                                      *)

PublicReads == <<"services", "categories", "branchCategories", "branchServices">>

\* The order of queries that are sent together is anybody's guess.
Orders(steps) == {f \in [1..Cardinality(steps) -> steps] : \A s \in steps : \E i \in DOMAIN f : f[i] = s}

ProfileReads ==
  {<<"mappings", "services", "branchServices">> \o p : p \in Orders({"categories", "branchCategories"})}

CardReads ==
  {<<"mappings", "services">> \o p : p \in Orders({"categories", "branchCategories", "branchServices"})}

Local(todo, b, t, found, before) ==
  [todo |-> todo, branch |-> b, stylist |-> t, found |-> found,
   in |-> [v \in Services |-> None], before |-> before, opened |-> FALSE,
   card |-> todo \in CardReads]

ListPublic(r, b) ==
  /\ Accept(r, Local(PublicReads, b, None, Services, Offered(b)))
  /\ UNCHANGED catalogueVars

DetailsPublic(r, b, v) ==
  /\ Accept(r, Local(PublicReads, b, None, {v}, Offered(b) \cap {v}))
  /\ UNCHANGED catalogueVars

\* Somebody without a branch shows no services.
StylistPage(r, t, steps) ==
  /\ branchOf[t] # None
  /\ Accept(r, Local(steps, branchOf[t], t, Services,
                     {v \in Offered(branchOf[t]) : stylistService[<<t, v>>] = "on"}))
  /\ UNCHANGED catalogueVars

\* What passes the next query of a page.
Passing(local) ==
  {v \in local.found :
     CASE Head(local.todo) = "services"         -> Live(service[v])
       [] Head(local.todo) = "categories"       -> LiveCategory(local.in[v])
       [] Head(local.todo) = "branchCategories" -> Covers(local.branch, local.in[v])
       [] Head(local.todo) = "branchServices"   -> branchService[<<local.branch, v>>] = "on"
       [] Head(local.todo) = "mappings"         -> stylistService[<<local.stylist, v>>] = "on"}

\* The pages the last query can leave: a card keeps the first few of what passes, in
\* the order the mappings came in, which nothing fixes.
Pages(local) ==
  LET passing == Passing(local) IN
  IF local.card /\ Cardinality(passing) > CardLimit THEN kSubset(CardLimit, passing) ELSE {passing}

OfCatalogue(r) == request[r] # Idle /\ "opened" \in DOMAIN request[r]
Reading(r) == OfCatalogue(r) /\ Head(request[r].todo) \in Reads

Read(r) ==
  /\ Reading(r)
  /\ LET local == request[r] IN
     Continues(r, Rest([local EXCEPT
       !.found = Passing(local),
       !.in = IF Head(local.todo) = "services" THEN [v \in Services |-> service[v].category] ELSE @]))
  /\ UNCHANGED catalogueVars

-----------------------------------------------------------------------------
(* The administration: every call writes one document.                      *)

\* Every page in progress learns whether something was opened.
Marked(opens) ==
  [q \in Requests |-> IF OfCatalogue(q) THEN [request[q] EXCEPT !.opened = @ \/ opens]
                      ELSE request[q]]
Opens == {~(Facts' \subseteq Facts)}

Written ==
  /\ Counted
  /\ \E opens \in Opens : request' = Marked(opens)
  /\ UNCHANGED placeVars

CreateCategory(c) ==
  /\ category[c] = NoCategory
  /\ category' = [category EXCEPT ![c].status = "ACTIVE"]
  /\ UNCHANGED <<service, branchCategory, branchService, stylistService>>
  /\ Written

\* A deleted category may be set ACTIVE; restoring does not set a status.
Updates(doc) == {[doc EXCEPT !.status = s] : s \in {"ACTIVE", "INACTIVE"}}
Removals(doc) == {[doc EXCEPT !.deleted = TRUE, !.status = "INACTIVE"], [doc EXCEPT !.deleted = FALSE]}

EditCategory(c, docs) ==
  /\ category[c] # NoCategory
  /\ category' \in {[category EXCEPT ![c] = doc] : doc \in docs}
  /\ UNCHANGED <<service, branchCategory, branchService, stylistService>>
  /\ Written

UpdateCategory(c) == EditCategory(c, Updates(category[c]))
RemoveCategory(c) == EditCategory(c, Removals(category[c]))

\* The category is looked at first; it may be gone when the service is stored.
CreateService(r, v, c) ==
  /\ service[v] = NoService
  /\ category[c] # NoCategory /\ ~category[c].deleted
  /\ Accept(r, [Local(<<"create">>, None, None, {v}, {}) EXCEPT !.in = [w \in Services |-> c]])
  /\ UNCHANGED catalogueVars

InsertService(r) ==
  /\ At(r, "create")
  /\ LET v == CHOOSE w \in Services : request[r].found = {w} IN
     IF service[v] = NoService
     THEN service' = [service EXCEPT ![v] =
            [status |-> "ACTIVE", deleted |-> FALSE, category |-> request[r].in[v]]]
     ELSE UNCHANGED service
  /\ UNCHANGED <<category, branchCategory, branchService, stylistService, placeVars>>
  /\ UNCHANGED <<accepted, faults, overlapped>>
  /\ \E opens \in Opens : request' = [Marked(opens) EXCEPT ![r] = Idle]

\* The category of a service is changed without looking at it.
EditService(v, docs) ==
  /\ service[v] # NoService
  /\ service' \in {[service EXCEPT ![v] = doc] : doc \in docs}
  /\ UNCHANGED <<category, branchCategory, branchService, stylistService>>
  /\ Written

UpdateService(v) ==
  EditService(v, Updates(service[v]) \cup {[service[v] EXCEPT !.category = c] : c \in Categories})
RemoveService(v) == EditService(v, Removals(service[v]))

OnOff == {"on", "off"}

ToggleBranchCategory(b, c) ==
  /\ branchCategory' \in {[branchCategory EXCEPT ![<<b, c>>] = m] : m \in OnOff}
  /\ UNCHANGED <<category, service, branchService, stylistService>>
  /\ Written

\* upsert and toggleStatus: both insert a mapping that is not there.
SetBranchService(b, v) ==
  /\ branchService' \in {[branchService EXCEPT ![<<b, v>>] = m] : m \in OnOff}
  /\ UNCHANGED <<category, service, branchCategory, stylistService>>
  /\ Written

ToggleStylistService(t, v) ==
  /\ stylistService' \in {[stylistService EXCEPT ![<<t, v>>] = m] : m \in OnOff}
  /\ UNCHANGED <<category, service, branchCategory, branchService>>
  /\ Written

-----------------------------------------------------------------------------
(* The branch of a stylist.                                                 *)

Unassigned == {t \in Stylists : branchOf[t] = None}
StylistsOf(b) == {t \in Stylists : branchOf[t] = b}

Assign(r, t, b) ==
  /\ t \in Unassigned
  /\ Accept(r, Local(<<"place">>, b, t, {}, {}))
  /\ UNCHANGED catalogueVars

Unassign(t, b) ==
  /\ t \in StylistsOf(b)
  /\ AtOnce
  /\ branchOf' = [branchOf EXCEPT ![t] = None]
  /\ kept' = kept \ {t}
  /\ UNCHANGED offerVars

ChangeSteps == <<"leave", "place">>

ChangeBranch(r, t, b) ==
  /\ Accept(r, Local(ChangeSteps, b, t, {}, {}))
  /\ UNCHANGED catalogueVars

\* deactivateAnyActiveAssignment: whatever it finds.
Leave(r) ==
  /\ At(r, "leave")
  /\ branchOf' = [branchOf EXCEPT ![request[r].stylist] = None]
  /\ Advance(r)
  /\ UNCHANGED <<offerVars, kept>>

\* The unique index lets one active document of a stylist in.
Place(r) ==
  /\ At(r, "place")
  /\ LET t == request[r].stylist IN
     IF t \in Unassigned
     THEN /\ branchOf' = [branchOf EXCEPT ![t] = request[r].branch]
          /\ kept' = kept \cup {t}
          /\ Advance(r)
     ELSE Throw(r) /\ UNCHANGED placeVars
  /\ UNCHANGED offerVars

CatalogueFails(r) == OfCatalogue(r) /\ Cut(r) /\ UNCHANGED catalogueVars

-----------------------------------------------------------------------------
BranchPages(r) ==
  \E b \in Branches : ListPublic(r, b) \/ \E v \in Services : DetailsPublic(r, b, v)

PublicPages(r) ==
  \/ BranchPages(r)
  \/ \E t \in Stylists, steps \in ProfileReads \cup CardReads : StylistPage(r, t, steps)
  \/ Read(r)

Administration ==
  \/ \E c \in Categories : CreateCategory(c) \/ UpdateCategory(c) \/ RemoveCategory(c)
  \/ \E v \in Services : UpdateService(v) \/ RemoveService(v)
  \/ \E b \in Branches, c \in Categories : ToggleBranchCategory(b, c)
  \/ \E b \in Branches, v \in Services : SetBranchService(b, v)
  \/ \E t \in Stylists, v \in Services : ToggleStylistService(t, v)

Staffing(r) ==
  \E t \in Stylists, b \in Branches : Assign(r, t, b) \/ Unassign(t, b) \/ ChangeBranch(r, t, b)

CatalogueGoesOn(r) == InsertService(r) \/ Leave(r) \/ Place(r) \/ CatalogueFails(r)

CatalogueNext ==
  \/ \E r \in Requests :
       \/ PublicPages(r) \/ Staffing(r) \/ CatalogueGoesOn(r)
       \/ \E v \in Services, c \in Categories : CreateService(r, v, c)
  \/ Administration

-----------------------------------------------------------------------------
(* Properties.                                                              *)

\* What a page asked about that is still offered.
Remaining(local) ==
  {v \in local.before \cap Offered(local.branch) :
     local.stylist # None => stylistService[<<local.stylist, v>>] = "on"}

\* The four public pages collect what they show in different orders; as long as
\* nothing is opened while one is collected, it shows nothing that was not offered
\* when it was asked for, and everything that is still offered when it answers, or,
\* on the card of a stylist, as much as a card takes (listPaginatedPublic,
\* getDetailsPublic, getById, getPaginatedStylists).
PagesShowTheOffer ==
  \A r \in Requests : LET local == request[r] IN
    Reading(r) /\ ~local.opened /\ Len(local.todo) = 1 =>
      \A shown \in Pages(local) :
        /\ shown \subseteq local.before
        /\ \/ Remaining(local) \subseteq shown
           \/ local.card /\ Cardinality(shown) = CardLimit

\* A stylist who was given a branch and not unassigned has one, or is about to get
\* one, however changes, assignments and removals overlap, unless a handler was cut
\* short (changeBranch, assign, unassign).
StylistKeepsBranch ==
  \A t \in kept :
    \/ branchOf[t] # None
    \/ \E r \in Requests : At(r, "place") /\ request[r].stylist = t
    \/ faults > 0
=============================================================================
