---------------------------- MODULE Pages_proofs ----------------------------
(***************************************************************************)
(* Proofs about what pages show: Storefront (its types, that a stylist     *)
(* keeps a branch, that the picture a document names is in the bucket,     *)
(* that the public pages show what is offered) and Roster (its types, that *)
(* an override stands, that a list of the day agrees with the day, that    *)
(* breaks stay within their limits).  Neither defines a name of the other, *)
(* and both are made of the same Handlers.                                 *)
(***************************************************************************)
EXTENDS Storefront, Roster, Sums, SequenceTheorems, TLAPS

-----------------------------------------------------------------------------
(* Storefront: what handlers carry.                                         *)

\* Calls that neither assign nor remove a stylist.
Quiet == Reads \cup {"create"}

CatalogueShaped ==
  {local \in CatalogueLocal :
     \/ local.todo \in Seq(Quiet)
     \/ /\ local.todo \in {<<"leave", "place">>, <<"place">>}
        /\ local.stylist \in Stylists /\ local.branch \in Branches}

PictureShaped ==
  {local \in PictureLocal :
     local.todo \in {<<"upload", "delete", "write">>, <<"upload", "write">>,
                     <<"delete", "write">>, <<"write">>}}

Shaped == request \in [Requests -> {Idle} \cup CatalogueShaped \cup PictureShaped]

DocumentsOK == CatalogueTypeOK /\ PicturesTypeOK /\ HandlersTypeOK
TypeInv == DocumentsOK /\ Shaped

\* Handlers of the two kinds are told apart by what they carry.
LEMMA Kinds ==
  /\ \A local \in CatalogueLocal :
       local # Idle /\ "opened" \in DOMAIN local /\ "owner" \notin DOMAIN local
  /\ \A local \in PictureLocal :
       local # Idle /\ "owner" \in DOMAIN local /\ "opened" \notin DOMAIN local
  /\ "opened" \notin DOMAIN Idle /\ "owner" \notin DOMAIN Idle
<1>1. \A local \in CatalogueLocal : "opened" \in DOMAIN local /\ "owner" \notin DOMAIN local
  BY DEF CatalogueLocal
<1>2. \A local \in PictureLocal : "owner" \in DOMAIN local /\ "opened" \notin DOMAIN local
  BY DEF PictureLocal
<1>3. "opened" \notin DOMAIN Idle /\ "owner" \notin DOMAIN Idle
  BY DEF Idle
<1> QED
  BY <1>1, <1>2, <1>3

LEMMA NotEmpty ==
  ASSUME NEW s, Len(s) # 0
  PROVE  s # <<>>
OBVIOUS

LEMMA OneCall ==
  ASSUME NEW S, NEW x \in S
  PROVE  <<x>> \in Seq(S) /\ <<x>> # <<>>
OBVIOUS

LEMMA TwoCalls ==
  ASSUME NEW S, NEW x \in S, NEW y \in S
  PROVE  <<x, y>> \in Seq(S) /\ <<x, y>> # <<>>
OBVIOUS

\* A call made leaves the handler done or with the calls after it.
LEMMA RestCatalogue ==
  ASSUME NEW local \in CatalogueShaped
  PROVE  /\ Rest(local) \in {Idle} \cup CatalogueShaped
         /\ local.todo = <<"leave", "place">> =>
              /\ Rest(local) # Idle /\ Rest(local).todo = <<"place">>
              /\ Rest(local).stylist = local.stylist
<1> DEFINE rest == [local EXCEPT !.todo = Tail(@)]
<1>1. local \in CatalogueLocal /\ local.todo # <<>>
  BY DEF CatalogueShaped, CatalogueLocal
<1>2. CASE local.todo \in Seq(Quiet)
  <2>1. local.todo # <<"leave", "place">>
    <3>1. "leave" \notin Quiet
      BY DEF Quiet, Reads
    <3>2. local.todo = <<"leave", "place">> => local.todo[1] = "leave" /\ 1 \in 1 .. Len(local.todo)
      OBVIOUS
    <3> QED
      BY <1>2, <3>1, <3>2
  <2>2. CASE Len(local.todo) = 1
    BY <2>1, <2>2 DEF Rest
  <2>3. CASE Len(local.todo) # 1
    <3>1. Tail(local.todo) \in Seq(Quiet) /\ Len(Tail(local.todo)) = Len(local.todo) - 1
      BY <1>1, <1>2, HeadTailProperties
    <3>2. Len(local.todo) \in Nat \ {0}
      BY <1>1, <1>2, EmptySeq
    <3>3. Tail(local.todo) # <<>>
      <4>1. Len(Tail(local.todo)) # 0
        BY <2>3, <3>1, <3>2
      <4> QED
        BY <4>1, NotEmpty
    <3>4. Seq(Quiet) \subseteq Seq(Reads \cup {"create", "leave", "place"})
      BY DEF Quiet
    <3>5. rest \in CatalogueLocal /\ rest.todo \in Seq(Quiet)
      BY <1>1, <3>1, <3>3, <3>4 DEF CatalogueLocal
    <3>6. rest \in CatalogueShaped
      BY <3>5 DEF CatalogueShaped
    <3> QED
      BY <2>1, <2>3, <3>6 DEF Rest
  <2> QED
    BY <2>2, <2>3
<1>3. CASE local.todo = <<"place">>
  <2>1. Len(local.todo) = 1 /\ local.todo # <<"leave", "place">>
    BY <1>3
  <2> QED
    BY <2>1 DEF Rest
<1>4. CASE local.todo = <<"leave", "place">> /\ local.stylist \in Stylists /\ local.branch \in Branches
  <2>1. Len(local.todo) # 1 /\ Tail(local.todo) = <<"place">>
    BY <1>4
  <2>2. <<"place">> \in Seq(Reads \cup {"create", "leave", "place"}) \ {<<>>}
    BY OneCall
  <2>3. /\ rest \in CatalogueLocal /\ rest.todo = <<"place">>
        /\ rest.stylist = local.stylist /\ rest.branch = local.branch
    BY <1>1, <2>1, <2>2 DEF CatalogueLocal
  <2>4. Rest(local) = rest /\ rest \in CatalogueShaped /\ rest # Idle
    BY <1>4, <2>1, <2>3, Kinds DEF Rest, CatalogueShaped
  <2> QED
    BY <2>3, <2>4
<1> QED
  BY <1>2, <1>3, <1>4 DEF CatalogueShaped

LEMMA RestPicture ==
  ASSUME NEW local \in PictureShaped
  PROVE  /\ Rest(local) \in {Idle} \cup PictureShaped
         /\ Rest(local) # Idle => /\ Rest(local).owner = local.owner
                                  /\ Rest(local).old = local.old
                                  /\ Rest(local).new = local.new
         /\ Head(local.todo) = "write" => Rest(local) = Idle
         /\ Head(local.todo) = "delete" =>
              Rest(local) # Idle /\ Head(Rest(local).todo) = "write"
<1> DEFINE rest == [local EXCEPT !.todo = Tail(@)]
<1>1. local \in PictureLocal
  BY DEF PictureShaped
<1>2. CASE local.todo = <<"write">>
  <2>1. Len(local.todo) = 1 /\ Head(local.todo) = "write"
    BY <1>2
  <2> QED
    BY <2>1 DEF Rest
<1>3. ASSUME NEW tail \in {<<"delete", "write">>, <<"write">>},
             Len(local.todo) # 1, Tail(local.todo) = tail,
             Head(local.todo) = "delete" => tail = <<"write">>,
             Head(local.todo) # "write"
      PROVE  /\ Rest(local) \in PictureShaped
             /\ Rest(local) # Idle /\ Rest(local).owner = local.owner
             /\ Rest(local).old = local.old /\ Rest(local).new = local.new
             /\ Head(local.todo) = "delete" => Head(Rest(local).todo) = "write"
  <2>1. tail \in Seq({"upload", "delete", "write"}) \ {<<>>}
    <3>1. <<"write">> \in Seq({"upload", "delete", "write"}) \ {<<>>}
      BY OneCall
    <3>2. <<"delete", "write">> \in Seq({"upload", "delete", "write"}) \ {<<>>}
      BY TwoCalls
    <3> QED
      BY <3>1, <3>2
  <2>2. /\ rest \in PictureLocal /\ rest.todo = tail
        /\ rest.owner = local.owner /\ rest.old = local.old /\ rest.new = local.new
    BY <1>1, <1>3, <2>1 DEF PictureLocal
  <2>3. Rest(local) = rest /\ rest \in PictureShaped /\ rest # Idle
    BY <1>3, <2>2, Kinds DEF Rest, PictureShaped
  <2>4. tail = <<"write">> => Head(tail) = "write"
    OBVIOUS
  <2> QED
    BY <1>3, <2>2, <2>3, <2>4
<1>4. CASE local.todo = <<"delete", "write">>
  <2>1. /\ Len(local.todo) # 1 /\ Tail(local.todo) = <<"write">> /\ Head(local.todo) = "delete"
    BY <1>4
  <2> QED
    BY <1>3, <2>1
<1>5. CASE local.todo = <<"upload", "write">>
  <2>1. /\ Len(local.todo) # 1 /\ Tail(local.todo) = <<"write">> /\ Head(local.todo) = "upload"
    BY <1>5
  <2> QED
    BY <1>3, <2>1
<1>6. CASE local.todo = <<"upload", "delete", "write">>
  <2>1. /\ Len(local.todo) # 1 /\ Tail(local.todo) = <<"delete", "write">>
        /\ Head(local.todo) = "upload"
    BY <1>6
  <2> QED
    BY <1>3, <2>1
<1> QED
  BY <1>2, <1>4, <1>5, <1>6 DEF PictureShaped

-----------------------------------------------------------------------------
(* How the handlers of the process go on.                                   *)

LEMMA AcceptShaped ==
  ASSUME Shaped, HandlersTypeOK, NEW r \in Requests,
         NEW local \in CatalogueShaped \cup PictureShaped, Accept(r, local)
  PROVE  /\ Shaped' /\ HandlersTypeOK' /\ faults' = faults
         /\ request[r] = Idle /\ request'[r] = local
         /\ \A q \in Requests \ {r} : request'[q] = request[q]
BY DEF Shaped, HandlersTypeOK, Accept, Counted

LEMMA ContinueShaped ==
  ASSUME Shaped, HandlersTypeOK, NEW r \in Requests,
         NEW local \in {Idle} \cup CatalogueShaped \cup PictureShaped, Continues(r, local)
  PROVE  /\ Shaped' /\ HandlersTypeOK' /\ faults' = faults
         /\ request'[r] = local
         /\ \A q \in Requests \ {r} : request'[q] = request[q]
BY DEF Shaped, HandlersTypeOK, Continues

LEMMA AdvanceShaped ==
  ASSUME Shaped, HandlersTypeOK, NEW r \in Requests, request[r] # Idle, Advance(r)
  PROVE  /\ Shaped' /\ HandlersTypeOK' /\ faults' = faults
         /\ request'[r] = Rest(request[r])
         /\ \A q \in Requests \ {r} : request'[q] = request[q]
<1>1. request[r] \in CatalogueShaped \cup PictureShaped
  BY DEF Shaped
<1>2. Rest(request[r]) \in {Idle} \cup CatalogueShaped \cup PictureShaped
  BY <1>1, RestCatalogue, RestPicture
<1> QED
  BY <1>2, ContinueShaped DEF Advance

LEMMA CutShaped ==
  ASSUME Shaped, HandlersTypeOK, NEW r \in Requests, Cut(r)
  PROVE  Shaped' /\ HandlersTypeOK' /\ faults' > 0
BY DEF Shaped, HandlersTypeOK, Cut

LEMMA AtOnceShaped ==
  ASSUME Shaped, HandlersTypeOK, AtOnce
  PROVE  Shaped' /\ HandlersTypeOK' /\ faults' = faults /\ request' = request
BY DEF Shaped, HandlersTypeOK, AtOnce, Counted

\* A handler is of the catalogue when it carries what those carry.
LEMMA KindOf ==
  ASSUME Shaped, NEW q \in Requests
  PROVE  /\ OfCatalogue(q) <=> request[q] \in CatalogueShaped
         /\ OfPicture(q) <=> request[q] \in PictureShaped
         /\ request[q] \in CatalogueShaped => request[q] \notin PictureShaped \cup {Idle}
         /\ request[q] \in PictureShaped => request[q] # Idle
<1>1. request[q] \in {Idle} \cup CatalogueShaped \cup PictureShaped
  BY DEF Shaped
<1>2. CatalogueShaped \subseteq CatalogueLocal /\ PictureShaped \subseteq PictureLocal
  BY DEF CatalogueShaped, PictureShaped
<1> QED
  BY <1>1, <1>2, Kinds DEF OfCatalogue, OfPicture

\* Marking the pages in progress changes nothing else.
LEMMA MarkedShaped ==
  ASSUME Shaped, NEW opens \in BOOLEAN
  PROVE  /\ Marked(opens) \in [Requests -> {Idle} \cup CatalogueShaped \cup PictureShaped]
         /\ \A q \in Requests :
              /\ OfCatalogue(q) => /\ Marked(opens)[q] \in CatalogueShaped
                                   /\ Marked(opens)[q].todo = request[q].todo
                                   /\ Marked(opens)[q].stylist = request[q].stylist
              /\ ~OfCatalogue(q) => Marked(opens)[q] = request[q]
<1>1. ASSUME NEW q \in Requests, OfCatalogue(q)
      PROVE  /\ Marked(opens)[q] \in CatalogueShaped
             /\ Marked(opens)[q].todo = request[q].todo
             /\ Marked(opens)[q].stylist = request[q].stylist
  <2> DEFINE marked == [request[q] EXCEPT !.opened = request[q].opened \/ opens]
  <2>1. request[q] \in CatalogueLocal
    BY <1>1, KindOf DEF CatalogueShaped
  <2>2. (request[q].opened \/ opens) \in BOOLEAN
    OBVIOUS
  <2>3. PICK opened \in BOOLEAN : opened = (request[q].opened \/ opens)
    BY <2>2
  <2>4. PICK doc \in CatalogueLocal : doc = request[q]
    BY <2>1
  <2>5. marked = [doc EXCEPT !.opened = opened]
    BY <2>3, <2>4
  <2> HIDE DEF marked
  <2>6. /\ marked \in CatalogueLocal
        /\ marked.todo = doc.todo /\ marked.stylist = doc.stylist
        /\ marked.branch = doc.branch
    BY <2>5 DEF CatalogueLocal
  <2>7. marked \in CatalogueShaped
    BY <1>1, <2>4, <2>6, KindOf DEF CatalogueShaped
  <2>8. Marked(opens)[q] = marked
    BY <1>1 DEF Marked, marked
  <2> QED
    BY <2>4, <2>6, <2>7, <2>8
<1>2. ASSUME NEW q \in Requests, ~OfCatalogue(q)
      PROVE  Marked(opens)[q] = request[q]
  BY <1>2 DEF Marked
<1>3. ASSUME NEW q \in Requests
      PROVE  Marked(opens)[q] \in {Idle} \cup CatalogueShaped \cup PictureShaped
  <2>1. CASE OfCatalogue(q)
    BY <1>1, <2>1
  <2>2. CASE ~OfCatalogue(q)
    BY <1>2, <2>2 DEF Shaped
  <2> QED
    BY <2>1, <2>2
<1> QED
  BY <1>1, <1>2, <1>3 DEF Marked

\* A step leaves the handlers of pictures alone, and there are no new ones.
PicturesApart ==
  \A q \in Requests :
    /\ OfPicture(q)' <=> OfPicture(q)
    /\ OfPicture(q) => request'[q] = request[q]

LEMMA OneHandlerApart ==
  ASSUME Shaped, NEW r \in Requests, request[r] = Idle \/ OfCatalogue(r),
         request'[r] \in {Idle} \cup CatalogueShaped,
         \A q \in Requests \ {r} : request'[q] = request[q]
  PROVE  PicturesApart
<1>1. ~OfPicture(r)
  BY KindOf DEF OfPicture
<1>2. ~OfPicture(r)'
  BY Kinds DEF OfPicture, CatalogueShaped
<1>3. \A q \in Requests \ {r} : OfPicture(q)' <=> OfPicture(q)
  BY DEF OfPicture
<1> QED
  BY <1>1, <1>2, <1>3 DEF PicturesApart

LEMMA MarkedApart ==
  ASSUME Shaped, NEW opens \in BOOLEAN, request' = Marked(opens)
  PROVE  PicturesApart
<1>1. ASSUME NEW q \in Requests, OfCatalogue(q)
      PROVE  ~OfPicture(q) /\ ~OfPicture(q)'
  <2>1. request'[q] \in CatalogueShaped
    BY <1>1, MarkedShaped
  <2> QED
    BY <1>1, <2>1, Kinds, KindOf DEF OfPicture, CatalogueShaped
<1>2. ASSUME NEW q \in Requests, ~OfCatalogue(q)
      PROVE  request'[q] = request[q]
  BY <1>2, MarkedShaped
<1> QED
  BY <1>1, <1>2 DEF PicturesApart, OfPicture

-----------------------------------------------------------------------------
(* Types: the catalogue.                                                    *)

LEMMA LocalTyped ==
  ASSUME NEW todo \in Seq(Reads \cup {"create", "leave", "place"}), todo # <<>>,
         NEW b \in Branches \cup {None}, NEW t \in Stylists \cup {None},
         NEW found \in SUBSET Services, NEW before \in SUBSET Services
  PROVE  Local(todo, b, t, found, before) \in CatalogueLocal
<1>1. PICK card \in BOOLEAN : card = (todo \in CardReads)
  <2>1. (todo \in CardReads) \in BOOLEAN
    OBVIOUS
  <2> QED
    BY <2>1, Zenon
<1>2. PICK in \in [Services -> Categories \cup {None}] : in = [v \in Services |-> None]
  OBVIOUS
<1> QED
  BY <1>1, <1>2 DEF Local, CatalogueLocal

LEMMA PageShaped ==
  ASSUME NEW todo \in Seq(Reads), todo # <<>>, NEW b \in Branches, NEW t \in Stylists \cup {None},
         NEW found \in SUBSET Services, NEW before \in SUBSET Services
  PROVE  Local(todo, b, t, found, before) \in CatalogueShaped
<1>1. todo \in Seq(Quiet) /\ todo \in Seq(Reads \cup {"create", "leave", "place"})
  BY DEF Quiet
<1>2. Local(todo, b, t, found, before) \in CatalogueLocal
  BY <1>1, LocalTyped
<1>3. Local(todo, b, t, found, before).todo = todo
  BY DEF Local
<1> QED
  BY <1>1, <1>2, <1>3 DEF CatalogueShaped

LEMMA OfferedServices ==
  ASSUME NEW b
  PROVE  Offered(b) \subseteq Services
BY DEF Offered

\* Whatever order the queries come in, a page makes reads only.
LEMMA PublicReadsTyped == PublicReads \in Seq(Reads) /\ PublicReads # <<>>
BY DEF PublicReads, Reads

LEMMA OrdersTyped ==
  ASSUME NEW steps, IsFiniteSet(steps), NEW p \in Orders(steps)
  PROVE  p \in Seq(steps)
<1>1. Cardinality(steps) \in Nat
  BY FS_CardinalityType
<1>2. p \in [1..Cardinality(steps) -> steps]
  BY DEF Orders
<1> QED
  BY <1>1, <1>2

LEMMA PageReadsTyped ==
  ASSUME NEW todo \in ProfileReads \cup CardReads
  PROVE  todo \in Seq(Reads) /\ todo # <<>>
<1>1. ASSUME NEW prefix \in Seq(Reads), Len(prefix) > 0, NEW p \in Seq(Reads), todo = prefix \o p
      PROVE  todo \in Seq(Reads) /\ todo # <<>>
  <2>1. Len(prefix) \in Nat /\ Len(p) \in Nat
    OBVIOUS
  <2>2. todo \in Seq(Reads) /\ Len(todo) = Len(prefix) + Len(p)
    BY <1>1, ConcatProperties
  <2>3. Len(todo) # 0
    BY <1>1, <2>1, <2>2
  <2> QED
    BY <2>2, <2>3, NotEmpty
<1>2. CASE todo \in ProfileReads
  <2>1. PICK p \in Orders({"categories", "branchCategories"}) :
          todo = <<"mappings", "services", "branchServices">> \o p
    BY <1>2 DEF ProfileReads
  <2>2. IsFiniteSet({"categories"}) /\ {"categories"} \cup {"branchCategories"} = {"categories", "branchCategories"}
    BY FS_Singleton
  <2>3. IsFiniteSet({"categories", "branchCategories"})
    BY <2>2, FS_AddElement
  <2>4. p \in Seq({"categories", "branchCategories"})
    BY <2>3, OrdersTyped
  <2>5. p \in Seq(Reads)
    BY <2>4 DEF Reads
  <2>6. /\ <<"mappings", "services", "branchServices">> \in Seq(Reads)
        /\ Len(<<"mappings", "services", "branchServices">>) > 0
    BY DEF Reads
  <2> QED
    BY <1>1, <2>1, <2>5, <2>6
<1>3. CASE todo \in CardReads
  <2>1. PICK p \in Orders({"categories", "branchCategories", "branchServices"}) :
          todo = <<"mappings", "services">> \o p
    BY <1>3 DEF CardReads
  <2>2. /\ IsFiniteSet({"categories"})
        /\ {"categories"} \cup {"branchCategories"} = {"categories", "branchCategories"}
        /\ {"categories", "branchCategories"} \cup {"branchServices"}
             = {"categories", "branchCategories", "branchServices"}
    BY FS_Singleton
  <2>3. IsFiniteSet({"categories", "branchCategories"})
    BY <2>2, FS_AddElement
  <2>4. IsFiniteSet({"categories", "branchCategories", "branchServices"})
    BY <2>2, <2>3, FS_AddElement
  <2>5. p \in Seq({"categories", "branchCategories", "branchServices"})
    BY <2>4, OrdersTyped
  <2>6. p \in Seq(Reads)
    BY <2>5 DEF Reads
  <2>7. /\ <<"mappings", "services">> \in Seq(Reads)
        /\ Len(<<"mappings", "services">>) > 0
    BY DEF Reads
  <2> QED
    BY <1>1, <2>1, <2>6, <2>7
<1> QED
  BY <1>2, <1>3

LEMMA AskedTypes ==
  ASSUME TypeInv, NEW r \in Requests,
         PublicPages(r) /\ ~Read(r)
  PROVE  /\ Shaped' /\ HandlersTypeOK' /\ faults' = faults /\ UNCHANGED catalogueVars
         /\ request[r] = Idle /\ \A q \in Requests \ {r} : request'[q] = request[q]
         /\ PicturesApart
<1> USE DEF TypeInv, DocumentsOK
<1>1. ASSUME NEW b \in Branches, ListPublic(r, b)
      PROVE  \E local \in CatalogueShaped : Accept(r, local) /\ UNCHANGED catalogueVars
  <2>1. Local(PublicReads, b, None, Services, Offered(b)) \in CatalogueShaped
    BY PageShaped, PublicReadsTyped, OfferedServices
  <2> QED
    BY <1>1, <2>1 DEF ListPublic
<1>2. ASSUME NEW b \in Branches, NEW v \in Services, DetailsPublic(r, b, v)
      PROVE  \E local \in CatalogueShaped : Accept(r, local) /\ UNCHANGED catalogueVars
  <2>1. Local(PublicReads, b, None, {v}, Offered(b) \cap {v}) \in CatalogueShaped
    BY PageShaped, PublicReadsTyped, OfferedServices
  <2> QED
    BY <1>2, <2>1 DEF DetailsPublic
<1>3. ASSUME NEW t \in Stylists, NEW steps \in ProfileReads \cup CardReads, StylistPage(r, t, steps)
      PROVE  \E local \in CatalogueShaped : Accept(r, local) /\ UNCHANGED catalogueVars
  <2>1. branchOf[t] \in Branches
    BY <1>3 DEF StylistPage, CatalogueTypeOK
  <2>2. {v \in Offered(branchOf[t]) : stylistService[<<t, v>>] = "on"} \in SUBSET Services
    BY OfferedServices
  <2>3. Local(steps, branchOf[t], t, Services,
              {v \in Offered(branchOf[t]) : stylistService[<<t, v>>] = "on"}) \in CatalogueShaped
    BY <2>1, <2>2, PageShaped, PageReadsTyped
  <2> QED
    BY <1>3, <2>3 DEF StylistPage
<1>4. \E local \in CatalogueShaped : Accept(r, local) /\ UNCHANGED catalogueVars
  BY <1>1, <1>2, <1>3 DEF PublicPages, BranchPages
<1> QED
  BY <1>4, AcceptShaped, OneHandlerApart

\* A handler is about to give t a branch.
Placing(q, t) == At(q, "place") /\ request[q].stylist = t
StillPlacing == \A q \in Requests, t \in Stylists : Placing(q, t) => Placing(q, t)'

\* A step that touches one handler, and not one that is about to place somebody,
\* leaves those that are.
LEMMA OthersPlace ==
  ASSUME NEW r \in Requests, ~At(r, "place"),
         \A q \in Requests \ {r} : request'[q] = request[q]
  PROVE  StillPlacing
BY DEF StillPlacing, Placing, At

LEMMA ReadTypes ==
  ASSUME TypeInv, NEW r \in Requests, Read(r)
  PROVE  /\ Shaped' /\ HandlersTypeOK' /\ faults' = faults /\ UNCHANGED catalogueVars
         /\ StillPlacing /\ PicturesApart
<1> DEFINE local == request[r]
           in == IF Head(local.todo) = "services" THEN [v \in Services |-> service[v].category]
                 ELSE local.in
           now == [local EXCEPT !.found = Passing(local), !.in = in]
<1> USE DEF TypeInv, DocumentsOK
<1>1. OfCatalogue(r) /\ Head(local.todo) \in Reads
  BY DEF Read, Reading
<1>2. local \in CatalogueShaped /\ local \in CatalogueLocal
  BY <1>1, KindOf DEF CatalogueShaped
<1>3. Passing(local) \subseteq Services
  BY <1>2 DEF Passing, CatalogueLocal
<1>4. in \in [Services -> Categories \cup {None}]
  BY <1>2 DEF CatalogueTypeOK, ServiceRecord, CatalogueLocal
<1>5. /\ now \in CatalogueLocal /\ now.todo = local.todo
      /\ now.stylist = local.stylist /\ now.branch = local.branch
  <2>1. PICK doc \in CatalogueLocal : doc = local
    BY <1>2
  <2>2. PICK found \in SUBSET Services : found = Passing(local)
    BY <1>3
  <2>3. PICK named \in [Services -> Categories \cup {None}] : named = in
    BY <1>4
  <2>4. now = [doc EXCEPT !.found = found, !.in = named]
    BY <2>1, <2>2, <2>3
  <2> HIDE DEF local, now
  <2>5. /\ now \in CatalogueLocal /\ now.todo = doc.todo
        /\ now.stylist = doc.stylist /\ now.branch = doc.branch
    BY <2>4 DEF CatalogueLocal
  <2> QED
    BY <2>1, <2>5
<1>6. now \in CatalogueShaped
  BY <1>2, <1>5 DEF CatalogueShaped
<1>7. Continues(r, Rest(now)) /\ UNCHANGED catalogueVars
  BY DEF Read
<1>8. Rest(now) \in {Idle} \cup CatalogueShaped
  BY <1>6, RestCatalogue
<1>9. ~At(r, "place")
  BY <1>1 DEF At, Reads
<1> QED
  BY <1>1, <1>7, <1>8, <1>9, ContinueShaped, OthersPlace, OneHandlerApart

\* What an administrator writes; the pages in progress are marked.
LEMMA WrittenTypes ==
  ASSUME TypeInv, Written
  PROVE  /\ Shaped' /\ HandlersTypeOK' /\ faults' = faults /\ UNCHANGED placeVars
         /\ StillPlacing /\ PicturesApart
<1> USE DEF TypeInv, DocumentsOK
<1>1. PICK opens \in BOOLEAN : request' = Marked(opens)
  BY DEF Written, Opens
<1>2. /\ Shaped'
      /\ \A q \in Requests : /\ OfCatalogue(q) => /\ request'[q] \in CatalogueShaped
                                                  /\ request'[q].todo = request[q].todo
                                                  /\ request'[q].stylist = request[q].stylist
                             /\ ~OfCatalogue(q) => request'[q] = request[q]
  BY <1>1, MarkedShaped DEF Shaped
<1>3. HandlersTypeOK' /\ faults' = faults /\ UNCHANGED placeVars
  BY DEF Written, Counted, HandlersTypeOK
<1>4. ASSUME NEW q \in Requests, NEW t \in Stylists, Placing(q, t)
      PROVE  Placing(q, t)'
  <2>1. CASE OfCatalogue(q)
    <3>1. request'[q] # Idle
      BY <1>2, <2>1, Kinds DEF CatalogueShaped
    <3> QED
      BY <1>2, <1>4, <2>1, <3>1 DEF Placing, At
  <2>2. CASE ~OfCatalogue(q)
    BY <1>2, <1>4, <2>2 DEF Placing, At
  <2> QED
    BY <2>1, <2>2
<1> QED
  BY <1>1, <1>2, <1>3, <1>4, MarkedApart DEF StillPlacing

LEMMA AdministrationTypes ==
  ASSUME TypeInv, Administration
  PROVE  CatalogueTypeOK' /\ Written
<1> USE DEF TypeInv, DocumentsOK
<1>1. Written
  BY DEF Administration, CreateCategory, UpdateCategory, RemoveCategory, EditCategory,
         UpdateService, RemoveService, EditService, ToggleBranchCategory, SetBranchService,
         ToggleStylistService
<1>2. UNCHANGED placeVars
  BY <1>1 DEF Written
<1>3. ASSUME NEW c \in Categories, CreateCategory(c)
      PROVE  CatalogueTypeOK'
  BY <1>2, <1>3 DEF CreateCategory, CatalogueTypeOK, CategoryRecord, Status, placeVars
<1>4. ASSUME NEW c \in Categories, UpdateCategory(c) \/ RemoveCategory(c)
      PROVE  CatalogueTypeOK'
  <2>1. category[c] \in CategoryRecord
    BY DEF CatalogueTypeOK
  <2>2. Updates(category[c]) \subseteq CategoryRecord /\ Removals(category[c]) \subseteq CategoryRecord
    BY <2>1 DEF Updates, Removals, CategoryRecord, Status
  <2>3. PICK doc \in CategoryRecord : category' = [category EXCEPT ![c] = doc]
    BY <1>4, <2>2 DEF UpdateCategory, RemoveCategory, EditCategory
  <2>4. UNCHANGED <<service, branchCategory, branchService, stylistService>>
    BY <1>4 DEF UpdateCategory, RemoveCategory, EditCategory
  <2> QED
    BY <1>2, <2>3, <2>4 DEF CatalogueTypeOK, placeVars
<1>5. ASSUME NEW v \in Services, UpdateService(v) \/ RemoveService(v)
      PROVE  CatalogueTypeOK'
  <2>1. service[v] \in ServiceRecord
    BY DEF CatalogueTypeOK
  <2>2. /\ Updates(service[v]) \subseteq ServiceRecord /\ Removals(service[v]) \subseteq ServiceRecord
        /\ {[service[v] EXCEPT !.category = c] : c \in Categories} \subseteq ServiceRecord
    BY <2>1 DEF Updates, Removals, ServiceRecord, Status
  <2>3. PICK doc \in ServiceRecord : service' = [service EXCEPT ![v] = doc]
    BY <1>5, <2>2 DEF UpdateService, RemoveService, EditService
  <2>4. UNCHANGED <<category, branchCategory, branchService, stylistService>>
    BY <1>5 DEF UpdateService, RemoveService, EditService
  <2> QED
    BY <1>2, <2>3, <2>4 DEF CatalogueTypeOK, placeVars
<1>6. ASSUME NEW b \in Branches, NEW c \in Categories, ToggleBranchCategory(b, c)
      PROVE  CatalogueTypeOK'
  BY <1>2, <1>6 DEF ToggleBranchCategory, CatalogueTypeOK, OnOff, Mapping, placeVars
<1>7. ASSUME NEW b \in Branches, NEW v \in Services, SetBranchService(b, v)
      PROVE  CatalogueTypeOK'
  BY <1>2, <1>7 DEF SetBranchService, CatalogueTypeOK, OnOff, Mapping, placeVars
<1>8. ASSUME NEW t \in Stylists, NEW v \in Services, ToggleStylistService(t, v)
      PROVE  CatalogueTypeOK'
  BY <1>2, <1>8 DEF ToggleStylistService, CatalogueTypeOK, OnOff, Mapping, placeVars
<1> QED
  BY <1>1, <1>3, <1>4, <1>5, <1>6, <1>7, <1>8 DEF Administration

-----------------------------------------------------------------------------
(* A stylist keeps a branch.                                                *)

KeepInv == TypeInv /\ StylistKeepsBranch

\* What every step of the catalogue has to show.
CatalogueGood ==
  /\ CatalogueTypeOK' /\ HandlersTypeOK' /\ Shaped' /\ StylistKeepsBranch'
  /\ PicturesApart
  /\ faults' = faults \/ faults' > 0

LEMMA KeptOn ==
  ASSUME KeepInv, UNCHANGED placeVars, faults' = faults, StillPlacing
  PROVE  StylistKeepsBranch'
BY DEF KeepInv, TypeInv, DocumentsOK, CatalogueTypeOK, StylistKeepsBranch, StillPlacing,
       Placing, placeVars, At

LEMMA CutKeeps ==
  ASSUME KeepInv, NEW r \in Requests, Cut(r)
  PROVE  Shaped' /\ HandlersTypeOK' /\ faults' > 0 /\ StylistKeepsBranch'
BY CutShaped DEF KeepInv, TypeInv, DocumentsOK, StylistKeepsBranch

LEMMA PagesKeep ==
  ASSUME KeepInv, NEW r \in Requests, PublicPages(r)
  PROVE  CatalogueGood
<1>1. TypeInv /\ CatalogueTypeOK
  BY DEF KeepInv, TypeInv, DocumentsOK
<1>2. /\ Shaped' /\ HandlersTypeOK' /\ faults' = faults /\ UNCHANGED catalogueVars
      /\ StillPlacing /\ PicturesApart
  BY <1>1, AskedTypes, ReadTypes, OthersPlace DEF At
<1>3. CatalogueTypeOK' /\ UNCHANGED placeVars
  BY <1>1, <1>2 DEF CatalogueTypeOK, catalogueVars, offerVars, placeVars
<1> QED
  BY <1>2, <1>3, KeptOn DEF CatalogueGood

LEMMA RenamedIn ==
  ASSUME NEW local \in CatalogueLocal, NEW in \in [Services -> Categories \cup {None}]
  PROVE  LET now == [local EXCEPT !.in = in] IN
         now \in CatalogueLocal /\ now.todo = local.todo
BY DEF CatalogueLocal

LEMMA CreationKeeps ==
  ASSUME KeepInv, NEW r \in Requests,
         \/ \E v \in Services, c \in Categories : CreateService(r, v, c)
         \/ InsertService(r)
  PROVE  CatalogueGood
<1> USE DEF KeepInv, TypeInv, DocumentsOK
<1>1. ASSUME NEW v \in Services, NEW c \in Categories, CreateService(r, v, c)
      PROVE  CatalogueGood
  <2> DEFINE local == [Local(<<"create">>, None, None, {v}, {}) EXCEPT !.in = [w \in Services |-> c]]
  <2>1. <<"create">> \in Seq(Quiet) /\ <<"create">> \in Seq(Reads \cup {"create", "leave", "place"})
    BY OneCall DEF Quiet
  <2>2. <<"create">> # <<>>
    OBVIOUS
  <2>3. /\ Local(<<"create">>, None, None, {v}, {}) \in CatalogueLocal
        /\ Local(<<"create">>, None, None, {v}, {}).todo = <<"create">>
    BY <2>1, <2>2, LocalTyped DEF Local
  <2>4. [w \in Services |-> c] \in [Services -> Categories \cup {None}]
    OBVIOUS
  <2>5. local \in CatalogueLocal /\ local.todo = <<"create">>
    BY <2>3, <2>4, RenamedIn
  <2>6. local \in CatalogueShaped
    BY <2>1, <2>5 DEF CatalogueShaped
  <2>7. Accept(r, local) /\ UNCHANGED catalogueVars
    BY <1>1 DEF CreateService
  <2>8. /\ Shaped' /\ HandlersTypeOK' /\ faults' = faults /\ request[r] = Idle
        /\ \A q \in Requests \ {r} : request'[q] = request[q]
    BY <2>6, <2>7, AcceptShaped
  <2>9. CatalogueTypeOK' /\ UNCHANGED placeVars
    BY <2>7 DEF CatalogueTypeOK, catalogueVars, offerVars, placeVars
  <2>10. StillPlacing /\ PicturesApart
    BY <2>6, <2>7, <2>8, AcceptShaped, OthersPlace, OneHandlerApart DEF At
  <2> QED
    BY <2>8, <2>9, <2>10, KeptOn DEF CatalogueGood
<1>2. CASE InsertService(r)
  <2> DEFINE v == CHOOSE w \in Services : request[r].found = {w}
             doc == [status |-> "ACTIVE", deleted |-> FALSE, category |-> request[r].in[v]]
  <2>1. At(r, "create")
    BY <1>2 DEF InsertService
  <2>2. request[r] \in CatalogueShaped /\ request[r] \in CatalogueLocal
    <3>1. ASSUME request[r] \in PictureShaped
          PROVE  FALSE
      <4>1. Head(request[r].todo) \in {"upload", "delete", "write"}
        BY <3>1 DEF PictureShaped
      <4> QED
        BY <2>1, <4>1 DEF At
    <3> QED
      BY <2>1, <3>1 DEF At, Shaped, CatalogueShaped
  <2>3. v \in Services => doc \in ServiceRecord
    BY <2>2 DEF ServiceRecord, Status, CatalogueLocal
  <2>4. service' = [service EXCEPT ![v] = doc] \/ service' = service
    BY <1>2 DEF InsertService
  <2>5. service' \in [Services -> ServiceRecord]
    BY <2>3, <2>4 DEF CatalogueTypeOK
  <2>6. UNCHANGED <<category, branchCategory, branchService, stylistService, placeVars>>
    BY <1>2 DEF InsertService
  <2>7. CatalogueTypeOK'
    BY <2>5, <2>6 DEF CatalogueTypeOK, placeVars
  <2>8. PICK opens \in BOOLEAN : request' = [Marked(opens) EXCEPT ![r] = Idle]
    BY <1>2 DEF InsertService, Opens
  <2>9. Shaped'
    BY <2>8, MarkedShaped DEF Shaped
  <2>10. HandlersTypeOK' /\ faults' = faults
    BY <1>2 DEF InsertService, HandlersTypeOK
  <2>11. ASSUME NEW q \in Requests, NEW t \in Stylists, Placing(q, t)
         PROVE  Placing(q, t)'
    <3>1. q # r
      BY <2>1, <2>11 DEF Placing, At
    <3>2. request'[q] = Marked(opens)[q]
      BY <2>8, <3>1, MarkedShaped
    <3>3. CASE OfCatalogue(q)
      <4>1. request'[q] # Idle
        BY <3>2, <3>3, MarkedShaped, Kinds DEF CatalogueShaped
      <4> QED
        BY <2>11, <3>2, <3>3, <4>1, MarkedShaped DEF Placing, At
    <3>4. CASE ~OfCatalogue(q)
      BY <2>11, <3>2, <3>4, MarkedShaped DEF Placing, At
    <3> QED
      BY <3>3, <3>4
  <2>12. StillPlacing
    BY <2>11 DEF StillPlacing
  <2>13. PicturesApart
    <3>1. request'[r] = Idle /\ OfCatalogue(r) /\ ~OfPicture(r)
      BY <2>2, <2>8, KindOf, MarkedShaped
    <3>2. ASSUME NEW q \in Requests \ {r}
          PROVE  request'[q] = Marked(opens)[q]
      BY <2>8, <3>2, MarkedShaped
    <3>3. ASSUME NEW q \in Requests, OfCatalogue(q)
          PROVE  ~OfPicture(q) /\ ~OfPicture(q)'
      BY <3>1, <3>2, <3>3, MarkedShaped, Kinds, KindOf DEF OfPicture, CatalogueShaped
    <3>4. ASSUME NEW q \in Requests, ~OfCatalogue(q)
          PROVE  request'[q] = request[q]
      BY <3>1, <3>2, <3>4, MarkedShaped
    <3> QED
      BY <3>3, <3>4 DEF PicturesApart, OfPicture
  <2> QED
    BY <2>6, <2>7, <2>9, <2>10, <2>12, <2>13, KeptOn DEF CatalogueGood
<1> QED
  BY <1>1, <1>2

LEMMA PlaceShaped ==
  ASSUME NEW todo \in {<<"leave", "place">>, <<"place">>}, NEW b \in Branches, NEW t \in Stylists
  PROVE  Local(todo, b, t, {}, {}) \in CatalogueShaped
<1> DEFINE Steps == Reads \cup {"create", "leave", "place"}
<1>1. <<"leave", "place">> \in Seq(Steps) \ {<<>>}
  BY TwoCalls
<1>2. <<"place">> \in Seq(Steps) \ {<<>>}
  BY OneCall
<1>3. Local(todo, b, t, {}, {}) \in CatalogueLocal
  BY <1>1, <1>2, LocalTyped
<1> QED
  BY <1>3 DEF CatalogueShaped, Local

LEMMA StaffingKeeps ==
  ASSUME KeepInv, NEW r \in Requests, Staffing(r)
  PROVE  CatalogueGood
<1> USE DEF KeepInv, TypeInv, DocumentsOK
<1>1. PICK t \in Stylists, b \in Branches : Assign(r, t, b) \/ Unassign(t, b) \/ ChangeBranch(r, t, b)
  BY DEF Staffing
<1>2. CASE Assign(r, t, b) \/ ChangeBranch(r, t, b)
  <2>1. PICK local \in CatalogueShaped : Accept(r, local) /\ UNCHANGED catalogueVars
    BY <1>2, PlaceShaped DEF Assign, ChangeBranch, ChangeSteps
  <2>2. /\ Shaped' /\ HandlersTypeOK' /\ faults' = faults /\ request[r] = Idle
        /\ \A q \in Requests \ {r} : request'[q] = request[q]
    BY <2>1, AcceptShaped
  <2>3. CatalogueTypeOK' /\ UNCHANGED placeVars
    BY <2>1 DEF CatalogueTypeOK, catalogueVars, offerVars, placeVars
  <2>4. StillPlacing /\ PicturesApart
    BY <2>1, <2>2, AcceptShaped, OthersPlace, OneHandlerApart DEF At
  <2> QED
    BY <2>2, <2>3, <2>4, KeptOn DEF CatalogueGood
<1>3. CASE Unassign(t, b)
  <2>1. /\ Shaped' /\ HandlersTypeOK' /\ faults' = faults /\ request' = request
    BY <1>3, AtOnceShaped DEF Unassign
  <2>2. /\ branchOf' = [branchOf EXCEPT ![t] = None] /\ kept' = kept \ {t}
        /\ UNCHANGED offerVars
    BY <1>3 DEF Unassign
  <2>3. CatalogueTypeOK'
    BY <2>2 DEF CatalogueTypeOK, offerVars
  <2>4. StylistKeepsBranch'
    BY <2>1, <2>2 DEF StylistKeepsBranch, CatalogueTypeOK, At
  <2>5. PicturesApart
    BY <2>1 DEF PicturesApart, OfPicture
  <2> QED
    BY <2>1, <2>3, <2>4, <2>5 DEF CatalogueGood
<1> QED
  BY <1>1, <1>2, <1>3

\* What a handler that removes or places somebody carries.
LEMMA PlaceLocal ==
  ASSUME Shaped, NEW r \in Requests, At(r, "leave") \/ At(r, "place")
  PROVE  /\ request[r] \in CatalogueShaped
         /\ request[r].stylist \in Stylists /\ request[r].branch \in Branches
         /\ At(r, "leave") => request[r].todo = <<"leave", "place">>
<1>1. request[r] \notin PictureShaped
  <2>1. ASSUME request[r] \in PictureShaped
        PROVE  Head(request[r].todo) \in {"upload", "delete", "write"}
    BY <2>1 DEF PictureShaped
  <2> QED
    BY <2>1 DEF At
<1>2. request[r] \in CatalogueShaped /\ request[r] \in CatalogueLocal
  BY <1>1 DEF Shaped, At, CatalogueShaped
<1>3. request[r].todo \notin Seq(Quiet)
  <2>1. ASSUME request[r].todo \in Seq(Quiet)
        PROVE  Head(request[r].todo) \in Quiet
    BY <1>2, <2>1 DEF CatalogueLocal
  <2> QED
    BY <2>1 DEF At, Quiet, Reads
<1>4. request[r].todo = <<"place">> => ~At(r, "leave")
  BY DEF At
<1> QED
  BY <1>2, <1>3, <1>4 DEF CatalogueShaped

LEMMA LeaveKeeps ==
  ASSUME KeepInv, NEW r \in Requests, Leave(r)
  PROVE  CatalogueGood
<1> USE DEF KeepInv, TypeInv, DocumentsOK
<1> DEFINE t == request[r].stylist
<1>1. At(r, "leave") /\ Advance(r) /\ UNCHANGED <<offerVars, kept>>
      /\ branchOf' = [branchOf EXCEPT ![t] = None]
  BY DEF Leave
<1>2. request[r] \in CatalogueShaped /\ t \in Stylists /\ request[r].todo = <<"leave", "place">>
  BY <1>1, PlaceLocal
<1>3. /\ Shaped' /\ HandlersTypeOK' /\ faults' = faults /\ request'[r] = Rest(request[r])
      /\ \A q \in Requests \ {r} : request'[q] = request[q]
  BY <1>1, AdvanceShaped DEF At
<1>4. request'[r] # Idle /\ request'[r].todo = <<"place">> /\ request'[r].stylist = t
  BY <1>2, <1>3, RestCatalogue
<1>5. At(r, "place")' /\ request'[r].stylist = t
  BY <1>4 DEF At
<1>6. CatalogueTypeOK'
  BY <1>1 DEF CatalogueTypeOK, offerVars
<1>7. StylistKeepsBranch'
  <2> SUFFICES ASSUME NEW x \in kept, x # t, faults = 0
               PROVE  \/ branchOf'[x] # None
                      \/ \E q \in Requests : At(q, "place")' /\ request'[q].stylist = x
    BY <1>1, <1>3, <1>5 DEF StylistKeepsBranch, HandlersTypeOK
  <2>1. CASE branchOf[x] # None
    BY <1>1, <2>1 DEF CatalogueTypeOK
  <2>2. ASSUME NEW q \in Requests, At(q, "place"), request[q].stylist = x
        PROVE  At(q, "place")' /\ request'[q].stylist = x
    BY <1>1, <1>3, <2>2 DEF At
  <2> QED
    BY <2>1, <2>2 DEF StylistKeepsBranch
<1>8. PicturesApart
  BY <1>2, <1>3, RestCatalogue, KindOf, OneHandlerApart
<1> QED
  BY <1>3, <1>6, <1>7, <1>8 DEF CatalogueGood

LEMMA PlaceKeeps ==
  ASSUME KeepInv, NEW r \in Requests, Place(r)
  PROVE  CatalogueGood
<1> USE DEF KeepInv, TypeInv, DocumentsOK
<1> DEFINE t == request[r].stylist
<1>1. At(r, "place") /\ UNCHANGED offerVars
  BY DEF Place
<1>2. t \in Stylists /\ request[r].branch \in Branches /\ request[r].branch # None
  BY <1>1, PlaceLocal, CatalogueAssumption
<1>3. \/ /\ t \in Unassigned /\ Advance(r)
         /\ branchOf' = [branchOf EXCEPT ![t] = request[r].branch] /\ kept' = kept \cup {t}
      \/ t \notin Unassigned /\ Throw(r) /\ UNCHANGED placeVars
  BY DEF Place
<1>4. /\ Shaped' /\ HandlersTypeOK' /\ faults' = faults
      /\ \A q \in Requests \ {r} : request'[q] = request[q]
  BY <1>1, <1>3, AdvanceShaped, ContinueShaped DEF At, Throw
<1>5. CatalogueTypeOK' /\ branchOf'[t] # None
  BY <1>1, <1>2, <1>3 DEF CatalogueTypeOK, offerVars, placeVars, Unassigned
<1>6. \A x \in Stylists \ {t} : branchOf'[x] = branchOf[x] /\ (x \in kept' <=> x \in kept)
  BY <1>3 DEF CatalogueTypeOK, placeVars
<1>7. StylistKeepsBranch'
  <2> SUFFICES ASSUME NEW x \in kept', x # t, faults = 0
               PROVE  \/ branchOf'[x] # None
                      \/ \E q \in Requests : At(q, "place")' /\ request'[q].stylist = x
    BY <1>4, <1>5 DEF StylistKeepsBranch, HandlersTypeOK
  <2>1. x \in Stylists /\ x \in kept /\ branchOf'[x] = branchOf[x]
    BY <1>5, <1>6 DEF CatalogueTypeOK
  <2>2. ASSUME NEW q \in Requests, At(q, "place"), request[q].stylist = x
        PROVE  At(q, "place")' /\ request'[q].stylist = x
    BY <1>4, <2>2 DEF At
  <2> QED
    BY <2>1, <2>2 DEF StylistKeepsBranch
<1>8. PicturesApart
  <2>1. OfCatalogue(r) /\ request[r] \in CatalogueShaped
    BY <1>1, PlaceLocal, KindOf
  <2>2. request'[r] \in {Idle} \cup CatalogueShaped
    BY <1>1, <1>3, <2>1, AdvanceShaped, ContinueShaped, RestCatalogue DEF At, Throw
  <2> QED
    BY <1>4, <2>1, <2>2, OneHandlerApart
<1> QED
  BY <1>4, <1>5, <1>7, <1>8 DEF CatalogueGood

LEMMA CatalogueKeeps ==
  ASSUME KeepInv, CatalogueNext
  PROVE  CatalogueGood
<1>1. ASSUME Administration PROVE CatalogueGood
  <2>1. TypeInv
    BY DEF KeepInv
  <2> QED
    BY <1>1, <2>1, AdministrationTypes, WrittenTypes, KeptOn DEF CatalogueGood
<1>2. ASSUME NEW r \in Requests, CatalogueFails(r) PROVE CatalogueGood
  <2>1. CatalogueTypeOK'
    BY <1>2 DEF CatalogueFails, KeepInv, TypeInv, DocumentsOK, CatalogueTypeOK, catalogueVars,
                offerVars, placeVars
  <2>2. OfCatalogue(r) /\ request' = [request EXCEPT ![r] = Idle] /\ Shaped
    BY <1>2 DEF CatalogueFails, Cut, KeepInv, TypeInv
  <2>3. PicturesApart
    BY <2>2, OneHandlerApart DEF Shaped
  <2> QED
    BY <1>2, <2>1, <2>3, CutKeeps DEF CatalogueFails, CatalogueGood, placeVars, catalogueVars
<1> QED
  BY <1>1, <1>2, PagesKeep, CreationKeeps, StaffingKeeps, LeaveKeeps, PlaceKeeps
     DEF CatalogueNext, CatalogueGoesOn

-----------------------------------------------------------------------------
(* Pictures.                                                                *)

\* No two documents name one picture, and what a handler read is its owner's.
Owned ==
  /\ \A o, p \in Owners : picture[o] # NoPicture /\ picture[o] = picture[p] => o = p
  /\ \A r \in Requests, o \in Owners :
       OfPicture(r) /\ picture[o] # NoPicture /\ request[r].old = picture[o] => request[r].owner = o

\* What a handler has uploaded lies in the bucket, and nobody else knows of it.
Fresh ==
  \A r \in Requests : OfPicture(r) /\ request[r].new # NoPicture =>
    /\ request[r].new \in bucket
    /\ \A o \in Owners : picture[o] # request[r].new
    /\ \A q \in Requests : OfPicture(q) =>
         /\ request[q].old # request[r].new
         /\ q # r => request[q].new # request[r].new

\* Whatever is named was uploaded once.
InUse ==
  /\ \A o \in Owners : picture[o] \in used \cup {NoPicture}
  /\ \A r \in Requests : OfPicture(r) => request[r].old \in used \cup {NoPicture}

PictureInv == Owned /\ Fresh /\ InUse /\ PictureIsThere
StorefrontInv == KeepInv /\ PictureInv

\* What a step of a picture's handler has to show.
PictureGood ==
  /\ PicturesTypeOK' /\ HandlersTypeOK' /\ Shaped' /\ StylistKeepsBranch' /\ PictureInv'

LEMMA OneAndOne ==
  ASSUME NEW x, NEW y
  PROVE  <<x>> \o <<y>> = <<x, y>>
<1> DEFINE S == {x, y}
<1>1. <<x>> \in Seq(S) /\ <<y>> \in Seq(S) /\ <<x, y>> \in Seq(S)
  OBVIOUS
<1>2. (<<x>> \o <<y>>) \in Seq(S) /\ Len(<<x>> \o <<y>>) = 2
  BY <1>1, ConcatProperties
<1>3. \A i \in 1..2 : (<<x>> \o <<y>>)[i] = <<x, y>>[i]
  BY <1>1, ConcatProperties
<1> QED
  BY <1>1, <1>2, <1>3, SeqEqual

LEMMA TwoAndOne ==
  ASSUME NEW x, NEW y, NEW z
  PROVE  <<x, y>> \o <<z>> = <<x, y, z>>
<1> DEFINE S == {x, y, z}
<1>1. <<x, y>> \in Seq(S) /\ <<z>> \in Seq(S) /\ <<x, y, z>> \in Seq(S)
  OBVIOUS
<1>2. (<<x, y>> \o <<z>>) \in Seq(S) /\ Len(<<x, y>> \o <<z>>) = 3 /\ Len(<<x, y, z>>) = 3
  BY <1>1, ConcatProperties
<1>3. \A i \in 1..3 : (<<x, y>> \o <<z>>)[i] = <<x, y, z>>[i]
  BY <1>1, ConcatProperties
<1> QED
  BY <1>1, <1>2, <1>3, SeqEqual

LEMMA ReplaceShaped ==
  ASSUME NEW old
  PROVE  ReplaceSteps(old) \in {<<"upload", "delete", "write">>, <<"upload", "write">>}
<1>1. <<"upload">> \o <<>> = <<"upload">>
  <2>1. <<"upload">> \in Seq({"upload"})
    OBVIOUS
  <2> QED
    BY <2>1, ConcatEmptySeq
<1>2. CASE old = NoPicture
  BY <1>1, <1>2, OneAndOne DEF ReplaceSteps
<1>3. CASE old # NoPicture
  BY <1>3, OneAndOne, TwoAndOne DEF ReplaceSteps
<1> QED
  BY <1>2, <1>3

LEMMA PictureHead ==
  ASSUME Shaped, NEW r \in Requests, At(r, "upload") \/ At(r, "delete") \/ At(r, "write")
  PROVE  request[r] \in PictureShaped /\ OfPicture(r)
<1>1. ASSUME request[r] \in CatalogueShaped
      PROVE  Head(request[r].todo) \in Quiet \cup {"leave", "place"}
  <2>1. request[r].todo # <<>>
    BY <1>1 DEF CatalogueShaped, CatalogueLocal
  <2> QED
    BY <1>1, <2>1 DEF CatalogueShaped
<1>2. request[r] \in PictureShaped
  BY <1>1 DEF Shaped, At, Quiet, Reads
<1> QED
  BY <1>2, KindOf

\* A catalogue step leaves everything that is said of pictures.
LEMMA CatalogueLeavesPictures ==
  ASSUME StorefrontInv, UNCHANGED pictureVars, PicturesApart, HandlersTypeOK', 
         faults' = faults \/ faults' > 0
  PROVE  PictureInv'
<1> USE DEF StorefrontInv, PictureInv
<1>1. UNCHANGED <<picture, bucket, used>>
  BY DEF pictureVars
<1>2. \A q \in Requests : OfPicture(q)' => OfPicture(q) /\ request'[q] = request[q]
  BY DEF PicturesApart
<1>3. Owned'
  BY <1>1, <1>2 DEF Owned
<1>4. Fresh'
  BY <1>1, <1>2 DEF Fresh
<1>5. InUse'
  BY <1>1, <1>2 DEF InUse
<1>6. PictureIsThere'
  <2> SUFFICES ASSUME NEW o \in Owners, faults = 0, picture[o] \notin bucket \cup {NoPicture}
               PROVE  \E r \in Requests :
                        At(r, "write")' /\ request'[r].owner = o /\ request'[r].old = picture[o]
    BY <1>1 DEF PictureIsThere, KeepInv, TypeInv, DocumentsOK, HandlersTypeOK
  <2>1. PICK r \in Requests : At(r, "write") /\ request[r].owner = o /\ request[r].old = picture[o]
    BY DEF PictureIsThere
  <2>2. OfPicture(r)
    BY <2>1, PictureHead DEF KeepInv, TypeInv
  <2>3. request'[r] = request[r]
    BY <2>2 DEF PicturesApart
  <2> QED
    BY <2>1, <2>3 DEF At
<1> QED
  BY <1>3, <1>4, <1>5, <1>6

\* What a handler of a picture carries.
LEMMA Carried ==
  ASSUME Shaped, NEW r \in Requests, OfPicture(r)
  PROVE  /\ request[r] \in PictureShaped /\ request[r].owner \in Owners
         /\ request[r].old \in Objects \cup {NoPicture}
         /\ request[r].new \in Objects \cup {NoPicture}
         /\ ~At(r, "place")
<1>1. request[r] \in PictureShaped
  BY KindOf
<1>2. Head(request[r].todo) \in {"upload", "delete", "write"}
  BY <1>1 DEF PictureShaped
<1> QED
  BY <1>1, <1>2 DEF PictureShaped, PictureLocal, At

\* A step of one picture's handler touches no other handler and no stylist.
OneHandler(r) ==
  /\ Shaped' /\ HandlersTypeOK' /\ faults' = faults
  /\ \A q \in Requests \ {r} : request'[q] = request[q]

LEMMA OneHandlerKeeps ==
  ASSUME StorefrontInv, NEW r \in Requests, request[r] = Idle \/ OfPicture(r), OneHandler(r),
         UNCHANGED placeVars
  PROVE  /\ StylistKeepsBranch'
         /\ \A q \in Requests \ {r} : OfPicture(q)' <=> OfPicture(q)
<1> USE DEF StorefrontInv, KeepInv, TypeInv, OneHandler
<1>1. ~At(r, "place")
  BY Carried DEF At
<1> QED
  BY <1>1, OthersPlace, KeptOn DEF OfPicture

LEMMA AskingKeeps ==
  ASSUME StorefrontInv, NEW r \in Requests, NEW o \in Owners, UNCHANGED catalogueVars,
         NEW todo \in {<<"upload", "delete", "write">>, <<"upload", "write">>,
                       <<"delete", "write">>},
         PictureRequest(r, o, todo)
  PROVE  PictureGood
<1> USE DEF StorefrontInv, KeepInv, TypeInv, DocumentsOK, PictureInv
<1> DEFINE local == [todo |-> todo, owner |-> o, old |-> picture[o], new |-> NoPicture]
<1>1. Accept(r, local) /\ UNCHANGED <<picture, bucket, used>> /\ UNCHANGED placeVars
  BY DEF PictureRequest, pictureVars, catalogueVars
<1>2. local \in PictureShaped
  <2> DEFINE Steps == {"upload", "delete", "write"}
  <2>1. <<"upload", "delete", "write">> \in Seq(Steps) \ {<<>>}
    OBVIOUS
  <2>2. /\ <<"upload", "write">> \in Seq(Steps) \ {<<>>}
        /\ <<"delete", "write">> \in Seq(Steps) \ {<<>>}
    BY TwoCalls
  <2> QED
    BY <2>1, <2>2 DEF PicturesTypeOK, PictureShaped, PictureLocal
<1>3. OneHandler(r) /\ request[r] = Idle /\ request'[r] = local
  BY <1>1, <1>2, AcceptShaped DEF OneHandler
<1>4. StylistKeepsBranch' /\ \A q \in Requests \ {r} : OfPicture(q)' <=> OfPicture(q)
  BY <1>1, <1>3, OneHandlerKeeps
<1>5. \A q \in Requests \ {r} : request'[q] = request[q]
  BY <1>3 DEF OneHandler
<1>6. /\ request'[r].owner = o /\ request'[r].old = picture[o] /\ request'[r].new = NoPicture
  BY <1>3
<1>7. Owned'
  BY <1>1, <1>4, <1>5, <1>6 DEF Owned
<1>8. Fresh'
  BY <1>1, <1>4, <1>5, <1>6 DEF Fresh
<1>9. InUse'
  BY <1>1, <1>4, <1>5, <1>6 DEF InUse
<1>10. PictureIsThere'
  <2> SUFFICES ASSUME NEW p \in Owners, faults = 0, picture[p] \notin bucket \cup {NoPicture}
               PROVE  \E q \in Requests :
                        At(q, "write")' /\ request'[q].owner = p /\ request'[q].old = picture[p]
    BY <1>1, <1>3 DEF PictureIsThere, OneHandler, HandlersTypeOK
  <2>1. PICK q \in Requests : At(q, "write") /\ request[q].owner = p /\ request[q].old = picture[p]
    BY DEF PictureIsThere
  <2> QED
    BY <1>3, <1>5, <2>1 DEF At
<1>11. PicturesTypeOK'
  BY <1>1 DEF PicturesTypeOK
<1> QED
  BY <1>3, <1>4, <1>7, <1>8, <1>9, <1>10, <1>11 DEF PictureGood, OneHandler

\* How a handler goes on: it carries what it carried, but for what it uploads.
LEMMA GoingOn ==
  ASSUME StorefrontInv, NEW r \in Requests, OfPicture(r), UNCHANGED catalogueVars,
         NEW new \in Objects \cup {NoPicture},
         Continues(r, Rest([request[r] EXCEPT !.new = new]))
  PROVE  /\ OneHandler(r) /\ StylistKeepsBranch'
         /\ \A q \in Requests \ {r} : request'[q] = request[q]
         /\ \A q \in Requests \ {r} : OfPicture(q)' <=> OfPicture(q)
         /\ OfPicture(r)' => /\ request'[r].owner = request[r].owner
                              /\ request'[r].old = request[r].old
                              /\ request'[r].new = new
         /\ At(r, "write") => request'[r] = Idle
         /\ At(r, "delete") => /\ At(r, "write")' /\ request'[r].owner = request[r].owner
                                /\ request'[r].old = request[r].old
<1> USE DEF StorefrontInv, KeepInv, TypeInv, DocumentsOK
<1> DEFINE local == [request[r] EXCEPT !.new = new]
<1>1. request[r] \in PictureShaped
  BY Carried
<1>2. /\ local \in PictureShaped /\ local.todo = request[r].todo
      /\ local.owner = request[r].owner /\ local.old = request[r].old /\ local.new = new
  BY <1>1 DEF PictureShaped, PictureLocal
<1>3. Rest(local) \in {Idle} \cup PictureShaped
  BY <1>2, RestPicture
<1>4. OneHandler(r) /\ request'[r] = Rest(local)
  BY <1>3, ContinueShaped DEF OneHandler
<1>5. StylistKeepsBranch' /\ \A q \in Requests \ {r} : OfPicture(q)' <=> OfPicture(q)
  BY <1>4, OneHandlerKeeps DEF catalogueVars
<1>6. OfPicture(r)' => Rest(local) # Idle
  BY <1>4 DEF OfPicture
<1>7. At(r, "delete") => Rest(local) # Idle /\ Head(Rest(local).todo) = "write"
  BY <1>2, RestPicture DEF At
<1>8. At(r, "write") => Rest(local) = Idle
  BY <1>2, RestPicture DEF At
<1>9. Rest(local) # Idle => /\ Rest(local).owner = request[r].owner
                            /\ Rest(local).old = request[r].old
                            /\ Rest(local).new = new
  BY <1>2, RestPicture
<1>10. \A q \in Requests \ {r} : request'[q] = request[q]
  BY <1>4 DEF OneHandler
<1>11. At(r, "delete") => At(r, "write")'
  BY <1>4, <1>7 DEF At
<1> QED
  BY <1>4, <1>5, <1>6, <1>7, <1>8, <1>9, <1>10, <1>11

LEMMA Unmoved ==
  ASSUME StorefrontInv, NEW r \in Requests, OfPicture(r), Advance(r)
  PROVE  /\ request[r].new \in Objects \cup {NoPicture}
         /\ Continues(r, Rest([request[r] EXCEPT !.new = request[r].new]))
<1>1. request[r] \in PictureLocal /\ request[r].new \in Objects \cup {NoPicture}
  BY Carried DEF StorefrontInv, KeepInv, TypeInv, PictureShaped
<1>2. [request[r] EXCEPT !.new = request[r].new] = request[r]
  BY <1>1 DEF PictureLocal
<1> QED
  BY <1>1, <1>2 DEF Advance

\* What is left to show of PictureIsThere when nothing has failed so far.
LEMMA ThereNext ==
  ASSUME StorefrontInv, HandlersTypeOK', faults' = faults,
         \A o \in Owners : faults = 0 /\ picture'[o] \notin bucket' \cup {NoPicture} =>
           \E q \in Requests :
             At(q, "write")' /\ request'[q].owner = o /\ request'[q].old = picture'[o]
  PROVE  PictureIsThere'
BY DEF PictureIsThere, HandlersTypeOK, StorefrontInv, KeepInv, TypeInv, DocumentsOK

LEMMA UploadKeeps ==
  ASSUME StorefrontInv, UNCHANGED catalogueVars, NEW r \in Requests, Upload(r)
  PROVE  PictureGood
<1> USE DEF StorefrontInv, KeepInv, TypeInv, DocumentsOK, PictureInv
<1>1. PICK x \in Objects \ used : /\ used' = used \cup {x} /\ bucket' = bucket \cup {x}
                                  /\ Continues(r, Rest([request[r] EXCEPT !.new = x]))
  BY DEF Upload
<1>2. At(r, "upload") /\ picture' = picture /\ OfPicture(r) /\ x # NoPicture
  BY PictureHead, PictureAssumption DEF Upload
<1>3. /\ OneHandler(r) /\ StylistKeepsBranch'
      /\ \A q \in Requests \ {r} : request'[q] = request[q]
      /\ \A q \in Requests \ {r} : OfPicture(q)' <=> OfPicture(q)
      /\ OfPicture(r)' => /\ request'[r].owner = request[r].owner
                           /\ request'[r].old = request[r].old /\ request'[r].new = x
  BY <1>1, <1>2, GoingOn
<1>4. Owned'
  BY <1>2, <1>3 DEF Owned
<1>5. InUse'
  BY <1>1, <1>2, <1>3 DEF InUse
<1>6. /\ \A o \in Owners : picture[o] # x
      /\ \A q \in Requests : OfPicture(q) => request[q].old # x /\ request[q].new # x
  BY <1>1, <1>2 DEF InUse, Fresh, PicturesTypeOK
<1>7. Fresh'
  BY <1>1, <1>2, <1>3, <1>6 DEF Fresh
<1>8. PictureIsThere'
  <2> SUFFICES ASSUME NEW o \in Owners, picture[o] \notin bucket \cup {NoPicture}, faults = 0
               PROVE  \E q \in Requests :
                        At(q, "write")' /\ request'[q].owner = o /\ request'[q].old = picture[o]
    BY <1>1, <1>2, <1>3, ThereNext DEF OneHandler
  <2>1. PICK q \in Requests : At(q, "write") /\ request[q].owner = o /\ request[q].old = picture[o]
    BY DEF PictureIsThere, HandlersTypeOK
  <2>2. q # r
    BY <1>2, <2>1 DEF At
  <2> QED
    BY <1>3, <2>1, <2>2 DEF At
<1>9. PicturesTypeOK'
  BY <1>1, <1>2 DEF PicturesTypeOK
<1> QED
  BY <1>3, <1>4, <1>5, <1>7, <1>8, <1>9 DEF PictureGood, OneHandler

\* Deleting the picture that was read, or failing to.
LEMMA DeletionKeeps ==
  ASSUME StorefrontInv, UNCHANGED catalogueVars, NEW r \in Requests, Delete(r) \/ DeleteFails(r)
  PROVE  PictureGood
<1> USE DEF StorefrontInv, KeepInv, TypeInv, DocumentsOK, PictureInv
<1>1. /\ At(r, "delete") /\ Advance(r) /\ UNCHANGED <<picture, used>>
      /\ bucket' \in {bucket, bucket \ {request[r].old}}
  BY DEF Delete, DeleteFails, pictureVars
<1>2. OfPicture(r)
  BY <1>1, PictureHead
<1>3. /\ OneHandler(r) /\ StylistKeepsBranch'
      /\ \A q \in Requests \ {r} : request'[q] = request[q]
      /\ \A q \in Requests \ {r} : OfPicture(q)' <=> OfPicture(q)
      /\ OfPicture(r)' => /\ request'[r].owner = request[r].owner
                           /\ request'[r].old = request[r].old
                           /\ request'[r].new = request[r].new
      /\ At(r, "write")' /\ request'[r].owner = request[r].owner
      /\ request'[r].old = request[r].old
  BY <1>1, <1>2, Unmoved, GoingOn
<1>4. Owned'
  BY <1>1, <1>2, <1>3 DEF Owned
<1>5. InUse'
  BY <1>1, <1>2, <1>3 DEF InUse
<1>6. Fresh'
  BY <1>1, <1>2, <1>3 DEF Fresh
<1>7. PictureIsThere'
  <2> SUFFICES ASSUME NEW o \in Owners, picture[o] \notin bucket' \cup {NoPicture}, faults = 0
               PROVE  \E q \in Requests :
                        At(q, "write")' /\ request'[q].owner = o /\ request'[q].old = picture[o]
    BY <1>1, <1>3, ThereNext DEF OneHandler
  <2>1. CASE picture[o] \in bucket
    <3>1. picture[o] = request[r].old
      BY <1>1, <2>1
    <3>2. request[r].owner = o
      BY <1>2, <3>1 DEF Owned
    <3> QED
      BY <1>3, <3>1, <3>2
  <2>2. CASE picture[o] \notin bucket
    <3>1. PICK q \in Requests : At(q, "write") /\ request[q].owner = o /\ request[q].old = picture[o]
      BY <2>2 DEF PictureIsThere, HandlersTypeOK
    <3>2. q # r
      BY <1>1, <3>1 DEF At
    <3> QED
      BY <1>3, <3>1, <3>2 DEF At
  <2> QED
    BY <2>1, <2>2
<1>8. PicturesTypeOK'
  BY <1>1 DEF PicturesTypeOK
<1> QED
  BY <1>3, <1>4, <1>5, <1>6, <1>7, <1>8 DEF PictureGood, OneHandler

LEMMA WriteKeeps ==
  ASSUME StorefrontInv, UNCHANGED catalogueVars, NEW r \in Requests, WritePicture(r)
  PROVE  PictureGood
<1> USE DEF StorefrontInv, KeepInv, TypeInv, DocumentsOK, PictureInv
<1> DEFINE own == request[r].owner
           new == request[r].new
<1>1. /\ At(r, "write") /\ Advance(r) /\ UNCHANGED <<bucket, used>>
      /\ picture' = [picture EXCEPT ![own] = new]
  BY DEF WritePicture
<1>2. OfPicture(r) /\ own \in Owners /\ new \in Objects \cup {NoPicture}
  BY <1>1, PictureHead, Carried
<1>3. /\ OneHandler(r) /\ StylistKeepsBranch'
      /\ \A q \in Requests \ {r} : request'[q] = request[q]
      /\ \A q \in Requests \ {r} : OfPicture(q)' <=> OfPicture(q)
      /\ request'[r] = Idle
  BY <1>1, <1>2, Unmoved, GoingOn
<1>4. ~OfPicture(r)'
  BY <1>3 DEF OfPicture
<1>5. picture'[own] = new /\ \A o \in Owners \ {own} : picture'[o] = picture[o]
  BY <1>1, <1>2 DEF PicturesTypeOK
<1>6. /\ new # NoPicture => new \in bucket
      /\ new # NoPicture => \A o \in Owners : picture[o] # new
      /\ new # NoPicture => \A q \in Requests : OfPicture(q) =>
           request[q].old # new /\ (q # r => request[q].new # new)
  BY <1>2 DEF Fresh
<1>7. Owned'
  BY <1>2, <1>3, <1>4, <1>5, <1>6 DEF Owned
<1>8. Fresh'
  BY <1>1, <1>2, <1>3, <1>4, <1>5, <1>6 DEF Fresh
<1>9. InUse'
  BY <1>1, <1>2, <1>3, <1>4, <1>5, <1>6 DEF InUse, PicturesTypeOK
<1>10. PictureIsThere'
  <2> SUFFICES ASSUME NEW o \in Owners, picture'[o] \notin bucket \cup {NoPicture}, faults = 0
               PROVE  \E q \in Requests :
                        At(q, "write")' /\ request'[q].owner = o /\ request'[q].old = picture'[o]
    BY <1>1, <1>3, ThereNext DEF OneHandler
  <2>1. o # own /\ picture'[o] = picture[o]
    BY <1>5, <1>6
  <2>2. PICK q \in Requests : At(q, "write") /\ request[q].owner = o /\ request[q].old = picture[o]
    BY <2>1 DEF PictureIsThere, HandlersTypeOK
  <2>3. q # r
    BY <2>1, <2>2
  <2> QED
    BY <1>3, <2>1, <2>2, <2>3 DEF At
<1>11. PicturesTypeOK'
  BY <1>1, <1>2 DEF PicturesTypeOK
<1> QED
  BY <1>3, <1>7, <1>8, <1>9, <1>10, <1>11 DEF PictureGood, OneHandler

LEMMA FailureKeeps ==
  ASSUME StorefrontInv, UNCHANGED catalogueVars, NEW r \in Requests, PictureFails(r)
  PROVE  PictureGood
<1> USE DEF StorefrontInv, KeepInv, TypeInv, DocumentsOK, PictureInv
<1>1. Cut(r) /\ UNCHANGED <<picture, bucket, used>> /\ UNCHANGED placeVars
  BY DEF PictureFails, pictureVars, catalogueVars
<1>2. Shaped' /\ HandlersTypeOK' /\ faults' > 0 /\ StylistKeepsBranch'
  BY <1>1, CutKeeps
<1>3. \A q \in Requests : OfPicture(q)' => OfPicture(q) /\ request'[q] = request[q]
  BY <1>1 DEF Cut, OfPicture, Shaped
<1>4. Owned'
  BY <1>1, <1>3 DEF Owned
<1>5. Fresh'
  BY <1>1, <1>3 DEF Fresh
<1>6. InUse'
  BY <1>1, <1>3 DEF InUse
<1>7. PictureIsThere' /\ PicturesTypeOK'
  BY <1>1, <1>2 DEF PictureIsThere, PicturesTypeOK
<1> QED
  BY <1>2, <1>4, <1>5, <1>6, <1>7 DEF PictureGood

LEMMA PicturesKeep ==
  ASSUME StorefrontInv, PicturesNext, UNCHANGED catalogueVars
  PROVE  PictureGood
<1>1. ASSUME NEW r \in Requests, PortraitRequests(r) PROVE PictureGood
  <2>1. PICK u \in Portrayed : PictureRequest(r, u, ReplaceSteps(picture[u]))
    BY <1>1 DEF PortraitRequests, UploadProfilePicture
  <2> QED
    BY <2>1, ReplaceShaped, AskingKeeps DEF Owners
<1>2. ASSUME NEW r \in Requests, NEW v \in Services, ImageRequests(r, v) PROVE PictureGood
  <2>1. v \in Owners
    BY ImagesAssumption DEF Owners
  <2>2. \/ PictureRequest(r, v, ReplaceSteps(picture[v]))
        \/ PictureRequest(r, v, <<"delete", "write">>)
    BY <1>2 DEF ImageRequests, UploadServiceImage, DeleteServiceImage
  <2> QED
    BY <2>1, <2>2, ReplaceShaped, AskingKeeps
<1>3. ASSUME NEW r \in Requests, PictureGoesOn(r) PROVE PictureGood
  BY <1>3, UploadKeeps, DeletionKeeps, WriteKeeps, FailureKeeps DEF PictureGoesOn
<1> QED
  BY <1>1, <1>2, <1>3 DEF PicturesNext

-----------------------------------------------------------------------------
(* The specification.                                                       *)

LEMMA FirstRecords ==
  /\ NoCategory \in CategoryRecord /\ [NoCategory EXCEPT !.status = "ACTIVE"] \in CategoryRecord
  /\ NoService \in ServiceRecord
  /\ \A c \in Categories :
       [status |-> "ACTIVE", deleted |-> FALSE, category |-> c] \in ServiceRecord
<1>1. NoCategory \in CategoryRecord
  BY DEF NoCategory, CategoryRecord, Status
<1>2. [NoCategory EXCEPT !.status = "ACTIVE"] \in CategoryRecord
  BY DEF NoCategory, CategoryRecord, Status
<1>3. NoService \in ServiceRecord
  BY DEF NoService, ServiceRecord, Status
<1>4. \A c \in Categories :
        [status |-> "ACTIVE", deleted |-> FALSE, category |-> c] \in ServiceRecord
  BY DEF ServiceRecord, Status
<1> QED
  BY <1>1, <1>2, <1>3, <1>4

LEMMA Widened ==
  ASSUME NEW D, NEW S, NEW T, S \subseteq T, NEW f \in [D -> S]
  PROVE  f \in [D -> T]
OBVIOUS

LEMMA InitHolds == Init => StorefrontInv
<1> SUFFICES ASSUME Init PROVE StorefrontInv
  OBVIOUS
<1> USE DEF Init, HandlersInit, CatalogueInit, PicturesInit
<1>1. /\ \A r \in Requests : request[r] = Idle /\ ~OfPicture(r)
      /\ \A o \in Owners : picture[o] = NoPicture
  BY DEF OfPicture
<1>2. Shaped /\ HandlersTypeOK
  BY DEF Shaped, HandlersTypeOK
<1>3. PicturesTypeOK
  BY DEF PicturesTypeOK
<1>4. CatalogueTypeOK
  <2>0. PICK setUp \in BOOLEAN :
          /\ category = [c \in Categories |-> IF setUp THEN [NoCategory EXCEPT !.status = "ACTIVE"]
                                             ELSE NoCategory]
          /\ service \in [Services -> {NoService} \cup
                            {[status |-> "ACTIVE", deleted |-> FALSE, category |-> c] :
                               c \in IF setUp THEN Categories ELSE {}}]
          /\ branchCategory = [p \in Branches \X Categories |-> IF setUp THEN "on" ELSE "none"]
          /\ branchService = [p \in Branches \X Services |-> IF setUp THEN "on" ELSE "none"]
          /\ stylistService = [p \in Stylists \X Services |-> IF setUp THEN "on" ELSE "none"]
    OBVIOUS
  <2>1. category \in [Categories -> CategoryRecord]
    <3>1. {NoCategory, [NoCategory EXCEPT !.status = "ACTIVE"]} \subseteq CategoryRecord
      BY FirstRecords
    <3> HIDE DEF NoCategory
    <3> QED
      BY <2>0, <3>1
  <2>2. service \in [Services -> ServiceRecord]
    <3> DEFINE made == {[status |-> "ACTIVE", deleted |-> FALSE, category |-> c] :
                          c \in IF setUp THEN Categories ELSE {}}
    <3>1. {NoService} \cup made \subseteq ServiceRecord
      BY FirstRecords
    <3>2. service \in [Services -> {NoService} \cup made]
      BY <2>0
    <3> HIDE DEF made
    <3> QED
      BY <3>1, <3>2, Widened
  <2>3. /\ branchCategory \in [Branches \X Categories -> Mapping]
        /\ branchService \in [Branches \X Services -> Mapping]
        /\ stylistService \in [Stylists \X Services -> Mapping]
    BY <2>0 DEF Mapping
  <2> QED
    BY <2>1, <2>2, <2>3 DEF CatalogueTypeOK
<1>5. StylistKeepsBranch
  BY DEF StylistKeepsBranch
<1>6. PictureInv
  BY <1>1 DEF PictureInv, Owned, Fresh, InUse, PictureIsThere
<1> QED
  BY <1>2, <1>3, <1>4, <1>5, <1>6 DEF StorefrontInv, KeepInv, TypeInv, DocumentsOK

LEMMA NextHolds == StorefrontInv /\ [Next]_vars => StorefrontInv'
<1> SUFFICES ASSUME StorefrontInv, [Next]_vars PROVE StorefrontInv'
  OBVIOUS
<1>1. CASE CatalogueNext /\ UNCHANGED pictureVars
  <2>1. CatalogueGood
    BY <1>1, CatalogueKeeps DEF StorefrontInv
  <2>2. PictureInv'
    BY <1>1, <2>1, CatalogueLeavesPictures DEF CatalogueGood
  <2>3. PicturesTypeOK'
    BY <1>1 DEF PicturesTypeOK, pictureVars, StorefrontInv, KeepInv, TypeInv, DocumentsOK
  <2> QED
    BY <2>1, <2>2, <2>3 DEF CatalogueGood, StorefrontInv, KeepInv, TypeInv, DocumentsOK
<1>2. CASE PicturesNext /\ UNCHANGED catalogueVars
  <2>1. PictureGood
    BY <1>2, PicturesKeep
  <2>2. CatalogueTypeOK'
    BY <1>2 DEF CatalogueTypeOK, catalogueVars, offerVars, placeVars, StorefrontInv, KeepInv,
                TypeInv, DocumentsOK
  <2> QED
    BY <2>1, <2>2 DEF PictureGood, StorefrontInv, KeepInv, TypeInv, DocumentsOK
<1>3. CASE UNCHANGED vars
  <2>1. UNCHANGED <<picture, bucket, used, request, faults>>
    BY <1>3 DEF vars, pictureVars, handlerVars
  <2>2. TypeInv'
    BY <1>3 DEF vars, pictureVars, handlerVars, catalogueVars, offerVars, placeVars, StorefrontInv,
                KeepInv, TypeInv, DocumentsOK, Shaped, CatalogueTypeOK, PicturesTypeOK,
                HandlersTypeOK
  <2>3. StylistKeepsBranch'
    BY <1>3, <2>1 DEF vars, catalogueVars, placeVars, StorefrontInv, KeepInv, StylistKeepsBranch, At
  <2>4. PictureInv'
    BY <2>1 DEF StorefrontInv, PictureInv, Owned, Fresh, InUse, PictureIsThere, At, OfPicture
  <2> QED
    BY <2>2, <2>3, <2>4 DEF StorefrontInv, KeepInv
<1> QED
  BY <1>1, <1>2, <1>3 DEF Next

LEMMA InvHolds == Spec => []StorefrontInv
BY InitHolds, NextHolds, PTL DEF Spec

\* The documents of the catalogue and the pictures, and what handlers carry, are
\* of their types.
THEOREM StorefrontTypes == Spec => []StorefrontTypeOK
<1>1. StorefrontInv => StorefrontTypeOK
  <2>1. CatalogueShaped \subseteq CatalogueLocal /\ PictureShaped \subseteq PictureLocal
    BY DEF CatalogueShaped, PictureShaped
  <2> QED
    BY <2>1 DEF StorefrontInv, KeepInv, TypeInv, DocumentsOK, Shaped, StorefrontTypeOK
<1> QED
  BY <1>1, InvHolds, PTL

\* However many changes of branch, assignments and removals overlap, a stylist who
\* was given a branch and not unassigned has one or is about to get one (changeBranch).
THEOREM StylistsKeepTheirBranch == Spec => []StylistKeepsBranch
<1>1. StorefrontInv => StylistKeepsBranch
  BY DEF StorefrontInv, KeepInv
<1> QED
  BY <1>1, InvHolds, PTL

\* However many uploads and deletions overlap, the picture a document names lies in
\* the bucket, unless its replacement is about to be written (uploadProfilePicture,
\* uploadServiceImage, deleteServiceImage).
THEOREM PicturesAreThere == Spec => []PictureIsThere
<1>1. StorefrontInv => PictureIsThere
  BY DEF StorefrontInv, PictureInv
<1> QED
  BY <1>1, InvHolds, PTL

-----------------------------------------------------------------------------
(* Pages show the offer.                                                    *)

\* The queries of a page that are still to be made.
Left(todo) == {todo[i] : i \in 1 .. Len(todo)}

\* What a page takes for the category of a service, once it has it, or would now.
CategoryOf(local, v) == IF "services" \in Left(local.todo) THEN service[v].category ELSE local.in[v]

\* Whether a query lets a service pass.
Allows(q, b, t, c, v) ==
  /\ q = "services" => Live(service[v])
  /\ q = "categories" => LiveCategory(c)
  /\ q = "branchCategories" => Covers(b, c)
  /\ q = "branchServices" => branchService[<<b, v>>] = "on"
  /\ q = "mappings" => stylistService[<<t, v>>] = "on"

\* Whether a page would show a service if the rest of its queries were answered now.
WouldPass(local, v) ==
  \A q \in Left(local.todo) :
    Allows(q, local.branch, local.stylist, CategoryOf(local, v), v)

StillOffered(local, v) ==
  /\ v \in Offered(local.branch)
  /\ local.stylist # None => stylistService[<<local.stylist, v>>] = "on"

\* The services are asked for once, before anything about their categories.
Ordered(todo) ==
  \A i, j \in 1 .. Len(todo) :
    i < j /\ todo[j] = "services" => todo[i] \notin {"services", "categories", "branchCategories"}

\* What a page has left to ask, and of whom.
Asking(local) ==
  /\ local.todo \in Seq(Reads) /\ local.todo # <<>> /\ Ordered(local.todo)
  /\ local.branch \in Branches
  /\ "mappings" \in Left(local.todo) => local.stylist \in Stylists

\* A page answered now would show nothing that was not offered before, and has lost
\* nothing that was and still is.
Truthful(local) ==
  /\ \A v \in local.found : WouldPass(local, v) => v \in local.before
  /\ \A v \in local.before : StillOffered(local, v) =>
       v \in local.found /\ CategoryOf(local, v) = service[v].category

PageInv ==
  \A r \in Requests : Reading(r) =>
    Asking(request[r]) /\ (request[r].opened \/ Truthful(request[r]))

\* When nothing is opened, what is switched on was so before.
NothingOpened ==
  /\ \A c \in Categories : LiveCategory(c)' => LiveCategory(c)
  /\ \A v \in Services : Live(service[v])' =>
       Live(service[v]) /\ service'[v].category = service[v].category
  /\ \A p \in Branches \X Categories : branchCategory'[p] = "on" => branchCategory[p] = "on"
  /\ \A p \in Branches \X Services : branchService'[p] = "on" => branchService[p] = "on"
  /\ \A p \in Stylists \X Services : stylistService'[p] = "on" => stylistService[p] = "on"

LEMMA NothingNew ==
  ASSUME Facts' \subseteq Facts
  PROVE  NothingOpened
<1>1. ASSUME NEW c \in Categories, LiveCategory(c)' PROVE LiveCategory(c)
  <2>1. <<"category", c>> \in Facts
    BY <1>1 DEF Facts
  <2> QED
    BY <2>1 DEF Facts
<1>2. ASSUME NEW v \in Services, Live(service[v])'
      PROVE  Live(service[v]) /\ service'[v].category = service[v].category
  <2>1. <<"service", v, service'[v].category>> \in Facts
    BY <1>2 DEF Facts
  <2>2. PICK w \in {u \in Services : Live(service[u])} :
          <<"service", v, service'[v].category>> = <<"service", w, service[w].category>>
    BY <2>1 DEF Facts
  <2> QED
    BY <2>2
<1>3. ASSUME NEW p \in Branches \X Categories, branchCategory'[p] = "on"
      PROVE  branchCategory[p] = "on"
  <2>1. <<"branchCategory", p>> \in Facts
    BY <1>3 DEF Facts
  <2> QED
    BY <2>1 DEF Facts
<1>4. ASSUME NEW p \in Branches \X Services, branchService'[p] = "on"
      PROVE  branchService[p] = "on"
  <2>1. <<"branchService", p>> \in Facts
    BY <1>4 DEF Facts
  <2> QED
    BY <2>1 DEF Facts
<1>5. ASSUME NEW p \in Stylists \X Services, stylistService'[p] = "on"
      PROVE  stylistService[p] = "on"
  <2>1. <<"stylistService", p>> \in Facts
    BY <1>5 DEF Facts
  <2> QED
    BY <2>1 DEF Facts
<1> QED
  BY <1>1, <1>2, <1>3, <1>4, <1>5 DEF NothingOpened

\* What is offered passes every query.
LEMMA StillAllowed ==
  ASSUME NEW local, NEW v \in Services, StillOffered(local, v), NEW q,
         q = "mappings" => local.stylist # None
  PROVE  Allows(q, local.branch, local.stylist, service[v].category, v)
BY DEF Allows, StillOffered, Offered

\* The query that is next lets pass what it allows.
LEMMA PassingAllowed ==
  ASSUME NEW local \in CatalogueLocal, Asking(local), NEW v \in Services
  PROVE  /\ Head(local.todo) \in Left(local.todo) /\ Head(local.todo) \in Reads
         /\ v \in Passing(local) <=>
              v \in local.found /\ Allows(Head(local.todo), local.branch, local.stylist,
                                          CategoryOf(local, v), v)
<1> DEFINE todo == local.todo
           head == Head(todo)
<1>1. todo \in Seq(Reads) /\ todo # <<>> /\ Ordered(todo)
  BY DEF Asking
<1>2. head \in Reads /\ head = todo[1] /\ Len(todo) \in Nat /\ Len(todo) >= 1
  BY <1>1
<1>3. head \in Left(todo)
  BY <1>2 DEF Left
<1>4. head \in {"categories", "branchCategories"} => "services" \notin Left(todo)
  <2> SUFFICES ASSUME head \in {"categories", "branchCategories"}, NEW j \in 1 .. Len(todo),
                      todo[j] = "services"
               PROVE  FALSE
    BY DEF Left
  <2>1. 1 < j /\ 1 \in 1 .. Len(todo)
    BY <1>2
  <2> QED
    BY <1>1, <1>2, <2>1 DEF Ordered
<1>5. head \in {"categories", "branchCategories"} => CategoryOf(local, v) = local.in[v]
  BY <1>4 DEF CategoryOf
<1>6. head \in {"services", "categories", "branchCategories", "branchServices", "mappings"}
  BY <1>2 DEF Reads
<1> HIDE DEF head, todo
<1>7. v \in Passing(local) <=>
        v \in local.found /\ Allows(head, local.branch, local.stylist, CategoryOf(local, v), v)
  <2>1. CASE head = "services"
    BY <2>1 DEF Passing, Allows, head, todo
  <2>2. CASE head = "categories"
    BY <1>5, <2>2 DEF Passing, Allows, head, todo
  <2>3. CASE head = "branchCategories"
    BY <1>5, <2>3 DEF Passing, Allows, head, todo
  <2>4. CASE head = "branchServices"
    BY <2>4 DEF Passing, Allows, head, todo
  <2>5. CASE head = "mappings"
    BY <2>5 DEF Passing, Allows, head, todo
  <2> QED
    BY <1>6, <2>1, <2>2, <2>3, <2>4, <2>5
<1> QED
  BY <1>2, <1>3, <1>7 DEF head, todo

\* What the queries left after the next one are.
LEMMA LeftAfter ==
  ASSUME NEW todo \in Seq(Reads), todo # <<>>, Ordered(todo)
  PROVE  /\ Left(todo) = {Head(todo)} \cup Left(Tail(todo))
         /\ Ordered(Tail(todo)) /\ Tail(todo) \in Seq(Reads)
         /\ Head(todo) \in {"services", "categories", "branchCategories"} =>
              "services" \notin Left(Tail(todo))
         /\ Len(todo) # 1 => Tail(todo) # <<>>
         /\ Len(todo) = 1 => Left(todo) = {Head(todo)}
<1> DEFINE tail == Tail(todo)
<1>1. /\ Len(todo) \in Nat \ {0} /\ tail \in Seq(Reads) /\ Len(tail) = Len(todo) - 1
      /\ Head(todo) = todo[1] /\ \A i \in 1 .. Len(tail) : tail[i] = todo[i + 1]
  BY HeadTailProperties, EmptySeq
<1> HIDE DEF tail
<1>2. \A i \in 1 .. Len(tail) : i + 1 \in 1 .. Len(todo)
  BY <1>1
<1>3. \A i \in 1 .. Len(todo) : i = 1 \/ (i - 1 \in 1 .. Len(tail) /\ i = (i - 1) + 1)
  BY <1>1
<1>4. Left(tail) \subseteq Left(todo)
  BY <1>1, <1>2 DEF Left
<1>5. Head(todo) \in Left(todo)
  BY <1>1 DEF Left
<1>6. Left(todo) \subseteq {Head(todo)} \cup Left(tail)
  <2> SUFFICES ASSUME NEW i \in 1 .. Len(todo) PROVE todo[i] \in {Head(todo)} \cup Left(tail)
    BY DEF Left
  <2>1. CASE i = 1
    BY <1>1, <2>1
  <2>2. CASE i - 1 \in 1 .. Len(tail) /\ i = (i - 1) + 1
    <3>1. tail[i - 1] = todo[i]
      BY <1>1, <2>2
    <3> QED
      BY <2>2, <3>1 DEF Left
  <2> QED
    BY <1>3, <2>1, <2>2
<1>7. Ordered(tail)
  <2> SUFFICES ASSUME NEW i \in 1 .. Len(tail), NEW j \in 1 .. Len(tail), i < j,
                      tail[j] = "services"
               PROVE  tail[i] \notin {"services", "categories", "branchCategories"}
    BY DEF Ordered
  <2>1. i + 1 < j + 1
    OBVIOUS
  <2> QED
    BY <1>1, <1>2, <2>1 DEF Ordered
<1>8. ASSUME Head(todo) \in {"services", "categories", "branchCategories"}
      PROVE  "services" \notin Left(tail)
  <2> SUFFICES ASSUME NEW j \in 1 .. Len(tail), tail[j] = "services" PROVE FALSE
    BY DEF Left
  <2>1. 1 < j + 1 /\ 1 \in 1 .. Len(todo)
    BY <1>1
  <2> QED
    BY <1>1, <1>2, <1>8, <2>1 DEF Ordered
<1>9. Len(todo) # 1 => tail # <<>>
  <2>1. Len(todo) # 1 => Len(tail) # 0
    BY <1>1
  <2> QED
    BY <2>1, NotEmpty
<1>10. Len(todo) = 1 => Left(todo) = {Head(todo)}
  BY <1>1 DEF Left
<1> QED
  BY <1>1, <1>4, <1>5, <1>6, <1>7, <1>8, <1>9, <1>10 DEF tail

\* A page that is told the truth shows it with its last query.
LEMMA TruthShown ==
  ASSUME NEW local \in CatalogueLocal, Asking(local), Truthful(local), Len(local.todo) = 1
  PROVE  /\ Passing(local) \subseteq local.before
         /\ {v \in local.before \cap Offered(local.branch) :
               local.stylist # None => stylistService[<<local.stylist, v>>] = "on"}
              \subseteq Passing(local)
<1> DEFINE head == Head(local.todo)
<1>1. Left(local.todo) = {head} /\ local.found \subseteq Services /\ local.before \subseteq Services
  BY LeftAfter DEF Asking, CatalogueLocal
<1>2. ASSUME NEW v \in Passing(local) PROVE v \in local.before
  <2>1. v \in local.found
    BY <1>2 DEF Passing
  <2>2. Allows(head, local.branch, local.stylist, CategoryOf(local, v), v)
    BY <1>1, <1>2, <2>1, PassingAllowed
  <2>3. WouldPass(local, v)
    BY <1>1, <2>2 DEF WouldPass
  <2> QED
    BY <2>1, <2>3 DEF Truthful
<1>3. ASSUME NEW v \in local.before, StillOffered(local, v) PROVE v \in Passing(local)
  <2>1. v \in local.found /\ CategoryOf(local, v) = service[v].category
    BY <1>3 DEF Truthful
  <2>2. head = "mappings" => local.stylist # None
    BY <1>1, CatalogueAssumption DEF Asking
  <2>3. Allows(head, local.branch, local.stylist, CategoryOf(local, v), v)
    BY <1>1, <1>3, <2>1, <2>2, StillAllowed
  <2> QED
    BY <1>1, <2>1, <2>3, PassingAllowed
<1> QED
  BY <1>2, <1>3 DEF StillOffered

\* Switching things off tells no page an untruth.
LEMMA TruthfulStays ==
  ASSUME NEW local \in CatalogueLocal, Asking(local), Truthful(local), NothingOpened,
         CatalogueTypeOK, local.before \subseteq Services
  PROVE  Truthful(local)'
<1> DEFINE b == local.branch
           t == local.stylist
<1>0. /\ local.found \subseteq Services /\ b \in Branches
      /\ local.in \in [Services -> Categories \cup {None}]
      /\ "mappings" \in Left(local.todo) => t \in Stylists
      /\ t \in Stylists \cup {None}
  BY DEF Asking, CatalogueLocal
<1>1. ASSUME NEW v \in Services, NEW q, NEW c \in Categories \cup {None},
             q = "mappings" => t \in Stylists, Allows(q, b, t, c, v)'
      PROVE  Allows(q, b, t, c, v)
  BY <1>0, <1>1 DEF Allows, NothingOpened, LiveCategory, Covers
<1>2. ASSUME NEW v \in local.found, WouldPass(local, v)'
      PROVE  v \in local.before
  <2>1. CategoryOf(local, v) \in Categories \cup {None}
    BY <1>0 DEF CategoryOf, CatalogueTypeOK, ServiceRecord
  <2>0. PICK c : c = CategoryOf(local, v)'
    OBVIOUS
  <2>2. c = CategoryOf(local, v)
    <3>1. CASE "services" \in Left(local.todo)
      <4>1. Live(service[v])'
        BY <1>2, <3>1 DEF WouldPass, Allows
      <4> QED
        BY <1>0, <2>0, <3>1, <4>1 DEF CategoryOf, NothingOpened
    <3>2. CASE "services" \notin Left(local.todo)
      BY <2>0, <3>2 DEF CategoryOf
    <3> QED
      BY <3>1, <3>2
  <2>3. ASSUME NEW q \in Left(local.todo)
        PROVE  Allows(q, b, t, CategoryOf(local, v), v)
    <3>1. Allows(q, b, t, c, v)'
      BY <1>2, <2>0 DEF WouldPass
    <3> QED
      BY <1>0, <1>1, <2>1, <2>2, <3>1
  <2> QED
    BY <2>3 DEF WouldPass, Truthful
<1>3. ASSUME NEW v \in local.before, StillOffered(local, v)'
      PROVE  v \in local.found /\ CategoryOf(local, v)' = service'[v].category
  <2>1. v \in Services /\ Live(service[v])' /\ LiveCategory(service[v].category)'
        /\ Covers(b, service[v].category)' /\ branchService'[<<b, v>>] = "on"
    BY <1>3 DEF StillOffered, Offered
  <2>2. Live(service[v]) /\ service'[v].category = service[v].category
    BY <2>1 DEF NothingOpened
  <2>3. service[v].category \in Categories \cup {None}
    BY <2>1 DEF CatalogueTypeOK, ServiceRecord
  <2>4. LiveCategory(service[v].category) /\ Covers(b, service[v].category)
        /\ branchService[<<b, v>>] = "on"
    BY <1>0, <2>1, <2>2, <2>3 DEF NothingOpened, LiveCategory, Covers
  <2>5. t # None => stylistService[<<t, v>>] = "on"
    BY <1>0, <1>3, <2>1 DEF StillOffered, NothingOpened
  <2>6. StillOffered(local, v)
    BY <2>1, <2>2, <2>4, <2>5 DEF StillOffered, Offered
  <2>7. v \in local.found /\ CategoryOf(local, v) = service[v].category
    BY <2>6 DEF Truthful
  <2> QED
    BY <2>2, <2>7 DEF CategoryOf
<1> QED
  BY <1>2, <1>3 DEF Truthful

\* A query answered.
LEMMA TruthfulOn ==
  ASSUME CatalogueTypeOK, NEW local \in CatalogueLocal, Asking(local), Len(local.todo) # 1,
         NEW next \in CatalogueLocal,
         next.todo = Tail(local.todo), next.branch = local.branch,
         next.stylist = local.stylist, next.before = local.before,
         next.found = Passing(local),
         \A v \in Services :
           next.in[v] = IF Head(local.todo) = "services" THEN service[v].category ELSE local.in[v]
  PROVE  Asking(next) /\ (Truthful(local) => Truthful(next))
<1> DEFINE head == Head(local.todo)
           before == Left(local.todo)
           after == Left(next.todo)
<1>1. /\ before = {head} \cup after /\ Ordered(next.todo) /\ next.todo \in Seq(Reads)
      /\ next.todo # <<>>
      /\ head \in {"services", "categories", "branchCategories"} => "services" \notin after
  BY LeftAfter DEF Asking
<1>2. local.found \subseteq Services /\ local.before \subseteq Services
  BY DEF CatalogueLocal
<1> HIDE DEF head, before, after
<1>3. Asking(next)
  BY <1>1 DEF Asking, before, after
<1>4. ASSUME NEW v \in Services PROVE CategoryOf(next, v) = CategoryOf(local, v)
  <2>1. CASE head = "services"
    BY <1>1, <2>1 DEF CategoryOf, head, before, after
  <2>2. CASE head # "services"
    BY <1>1, <2>2 DEF CategoryOf, head, before, after
  <2> QED
    BY <2>1, <2>2
<1>5. ASSUME Truthful(local), NEW v \in next.found, WouldPass(next, v) PROVE v \in next.before
  <2>1. v \in local.found /\ v \in Services
    BY <1>2, <1>5 DEF Passing
  <2>2. Allows(head, local.branch, local.stylist, CategoryOf(local, v), v)
    BY <1>5, <2>1, PassingAllowed DEF head
  <2>3. \A q \in after : Allows(q, local.branch, local.stylist, CategoryOf(local, v), v)
    BY <1>4, <1>5, <2>1 DEF WouldPass, after
  <2>4. WouldPass(local, v)
    BY <1>1, <2>2, <2>3 DEF WouldPass, before
  <2> QED
    BY <1>5, <2>1, <2>4 DEF Truthful
<1>6. ASSUME Truthful(local), NEW v \in next.before, StillOffered(next, v)
      PROVE  v \in next.found /\ CategoryOf(next, v) = service[v].category
  <2>1. v \in Services /\ StillOffered(local, v)
    BY <1>2, <1>6 DEF StillOffered
  <2>2. v \in local.found /\ CategoryOf(local, v) = service[v].category
    BY <1>6, <2>1 DEF Truthful
  <2>3. head = "mappings" => local.stylist # None
    BY <1>1, CatalogueAssumption DEF Asking, before
  <2>4. Allows(head, local.branch, local.stylist, CategoryOf(local, v), v)
    BY <2>1, <2>2, <2>3, StillAllowed
  <2>5. v \in Passing(local)
    BY <2>1, <2>2, <2>4, PassingAllowed DEF head
  <2> QED
    BY <1>4, <2>1, <2>2, <2>5
<1> QED
  BY <1>3, <1>5, <1>6 DEF Truthful

\* A page begun.
LEMMA TruthfulFirst ==
  ASSUME NEW todo \in Seq(Reads), todo # <<>>, Ordered(todo), NEW b \in Branches,
         {"services", "categories", "branchCategories", "branchServices"} \subseteq Left(todo),
         NEW t \in Stylists \cup {None}, "mappings" \in Left(todo) <=> t # None,
         NEW found \in SUBSET Services, NEW before \in SUBSET Services,
         before = {v \in found \cap Offered(b) : t # None => stylistService[<<t, v>>] = "on"}
  PROVE  Asking(Local(todo, b, t, found, before)) /\ Truthful(Local(todo, b, t, found, before))
<1> DEFINE local == Local(todo, b, t, found, before)
<1>1. /\ local.todo = todo /\ local.branch = b /\ local.stylist = t
      /\ local.found = found /\ local.before = before
  BY DEF Local
<1> HIDE DEF local
<1>2. Asking(local)
  BY <1>1 DEF Asking
<1>3. \A v \in Services : CategoryOf(local, v) = service[v].category
  BY <1>1 DEF CategoryOf
<1>4. ASSUME NEW v \in found, WouldPass(local, v) PROVE v \in before
  <2>1. \A q \in Left(todo) : Allows(q, b, t, service[v].category, v)
    BY <1>1, <1>3, <1>4 DEF WouldPass
  <2>2. Live(service[v]) /\ LiveCategory(service[v].category) /\ Covers(b, service[v].category)
        /\ branchService[<<b, v>>] = "on"
    BY <2>1 DEF Allows
  <2>3. t # None => stylistService[<<t, v>>] = "on"
    BY <2>1 DEF Allows
  <2> QED
    BY <2>2, <2>3 DEF Offered
<1> QED
  BY <1>1, <1>2, <1>3, <1>4 DEF Truthful, local

\* What a page in progress is.
LEMMA ReadingLocal ==
  ASSUME Shaped, NEW r \in Requests, Reading(r)
  PROVE  /\ request[r] \in CatalogueShaped /\ request[r] \in CatalogueLocal
         /\ Head(request[r].todo) \in Reads
BY KindOf DEF Reading, CatalogueShaped

\* Handlers that a step leaves alone, or that are no pages.
PageKept(q) == Reading(q)' => Reading(q) /\ request'[q] = request[q]
PageFits(q) == Reading(q)' => Asking(request'[q]) /\ (request'[q].opened \/ Truthful(request[q])')

\* Nobody writes what is offered: the pages that are kept stay truthful.
LEMMA KeptFits ==
  ASSUME PageInv, NEW q \in Requests, PageKept(q), UNCHANGED offerVars
  PROVE  PageFits(q)
<1> SUFFICES ASSUME Reading(q)'
             PROVE  Asking(request'[q]) /\ (request'[q].opened \/ Truthful(request[q])')
  BY DEF PageFits
<1>1. Reading(q) /\ request'[q] = request[q]
  BY DEF PageKept
<1>2. Asking(request[q]) /\ (request[q].opened \/ Truthful(request[q]))
  BY <1>1 DEF PageInv
<1>3. Truthful(request[q]) => Truthful(request[q])'
  BY <1>1 DEF Truthful, WouldPass, StillOffered, Offered, Allows, CategoryOf, LiveCategory, Covers,
              offerVars
<1> QED
  BY <1>1, <1>2, <1>3

LEMMA AllFit ==
  ASSUME \A q \in Requests : PageFits(q)
  PROVE  PageInv'
BY DEF PageFits, PageInv

\* A handler that stays with another kind of call is no page.
LEMMA NoPage ==
  ASSUME NEW q, request'[q] = Idle \/ Head(request'[q].todo) \notin Reads
  PROVE  PageFits(q)
BY DEF PageFits, Reading, OfCatalogue

\* One handler moves, to what is no page.
LEMMA OtherPages ==
  ASSUME PageInv, NEW r \in Requests, \A q \in Requests \ {r} : request'[q] = request[q],
         request'[r] = Idle \/ Head(request'[r].todo) \notin Reads, UNCHANGED offerVars
  PROVE  PageInv'
<1>1. ASSUME NEW q \in Requests \ {r} PROVE PageFits(q)
  <2>1. PageKept(q)
    BY DEF PageKept, Reading, OfCatalogue
  <2> QED
    BY <2>1, KeptFits
<1> QED
  BY <1>1, NoPage, AllFit

\* An administrator writes: the pages learn whether something was opened.
LEMMA MarkedFits ==
  ASSUME PageInv, TypeInv, NEW opens, opens = ~(Facts' \subseteq Facts), NEW q \in Requests,
         request'[q] = Marked(opens)[q]
  PROVE  PageFits(q)
<1> SUFFICES ASSUME Reading(q)'
             PROVE  Asking(request'[q]) /\ (request'[q].opened \/ Truthful(request[q])')
  BY DEF PageFits
<1>1. opens \in BOOLEAN /\ Shaped /\ CatalogueTypeOK
  BY DEF TypeInv, DocumentsOK
<1>2. OfCatalogue(q)
  <2>1. ASSUME ~OfCatalogue(q) PROVE request'[q] = request[q]
    BY <1>1, <2>1, MarkedShaped
  <2> QED
    BY <2>1 DEF Reading, OfCatalogue
<1>3. /\ request'[q] \in CatalogueShaped /\ request'[q].todo = request[q].todo
      /\ request'[q].stylist = request[q].stylist
  BY <1>1, <1>2, MarkedShaped
<1>4. Reading(q)
  BY <1>2, <1>3 DEF Reading
<1>5. request[q] \in CatalogueLocal /\ request[q].before \subseteq Services
  BY <1>1, <1>4, ReadingLocal DEF CatalogueLocal
<1>6. /\ request'[q].branch = request[q].branch /\ request'[q].found = request[q].found
      /\ request'[q].in = request[q].in /\ request'[q].before = request[q].before
      /\ request'[q].opened = (request[q].opened \/ opens)
  BY <1>1, <1>2, <1>5 DEF Marked, CatalogueLocal
<1>7. Asking(request[q]) /\ (request[q].opened \/ Truthful(request[q]))
  BY <1>4 DEF PageInv
<1>8. Asking(request'[q])
  BY <1>3, <1>6, <1>7 DEF Asking
<1>9. CASE request[q].opened \/ opens
  BY <1>6, <1>8, <1>9
<1>10. CASE ~request[q].opened /\ ~opens
  <2>1. NothingOpened
    BY <1>10, NothingNew
  <2>2. PICK local \in CatalogueLocal : local = request[q]
    BY <1>5
  <2>3. Truthful(local)'
    BY <1>1, <1>5, <1>7, <1>10, <2>1, <2>2, TruthfulStays
  <2>4. Truthful(request[q])'
    BY <1>3, <1>6, <2>2, <2>3 DEF Truthful, WouldPass, StillOffered, CategoryOf
  <2> QED
    BY <1>8, <2>4
<1> QED
  BY <1>9, <1>10

\* The orders in which the stylists' pages ask.
LEMMA StylistReads ==
  ASSUME NEW todo \in ProfileReads \cup CardReads
  PROVE  /\ Ordered(todo)
         /\ {"mappings", "services", "categories", "branchCategories", "branchServices"}
              \subseteq Left(todo)
<1>1. ASSUME NEW prefix \in Seq(Reads), Len(prefix) \in Nat \ {0, 1},
             prefix[2] = "services", prefix[1] = "mappings",
             \A i \in 3 .. Len(prefix) : prefix[i] # "services",
             NEW steps \in SUBSET (Reads \ {"services"}), IsFiniteSet(steps), NEW p \in Orders(steps),
             todo = prefix \o p
      PROVE  /\ Ordered(todo)
             /\ \A i \in 1 .. Len(prefix) : prefix[i] \in Left(todo)
             /\ steps \subseteq Left(todo)
  <2>1. p \in Seq(steps) /\ p \in Seq(Reads) /\ Len(p) \in Nat
    <3>1. p \in Seq(steps)
      BY <1>1, OrdersTyped
    <3> QED
      BY <3>1
  <2>2. \A s \in steps : \E i \in 1 .. Len(p) : p[i] = s
    <3>1. DOMAIN p = 1 .. Len(p)
      BY <2>1
    <3> QED
      BY <3>1 DEF Orders
  <2>3. /\ Len(todo) = Len(prefix) + Len(p)
        /\ \A i \in 1 .. Len(prefix) + Len(p) :
             todo[i] = IF i <= Len(prefix) THEN prefix[i] ELSE p[i - Len(prefix)]
    BY <1>1, <2>1, ConcatProperties
  <2>4. \A i \in 1 .. Len(prefix) : todo[i] = prefix[i] /\ i \in 1 .. Len(todo)
    BY <1>1, <2>1, <2>3
  <2>5. \A i \in 1 .. Len(p) : todo[Len(prefix) + i] = p[i] /\ Len(prefix) + i \in 1 .. Len(todo)
    BY <1>1, <2>1, <2>3
  <2>6. ASSUME NEW j \in 1 .. Len(todo), todo[j] = "services" PROVE j = 2
    <3>1. CASE j <= Len(prefix)
      <4>1. prefix[j] = "services" /\ j \in 1 .. Len(prefix)
        BY <1>1, <2>3, <2>6, <3>1
      <4>2. j # 1 /\ j \notin 3 .. Len(prefix)
        BY <1>1, <4>1
      <4> QED
        BY <1>1, <4>1, <4>2
    <3>2. CASE ~(j <= Len(prefix))
      <4>1. j - Len(prefix) \in 1 .. Len(p) /\ p[j - Len(prefix)] = "services"
        BY <1>1, <2>1, <2>3, <2>6, <3>2
      <4>2. p[j - Len(prefix)] \in steps
        BY <2>1, <4>1
      <4> QED
        BY <1>1, <4>1, <4>2
    <3> QED
      BY <3>1, <3>2
  <2>7. Ordered(todo)
    <3> SUFFICES ASSUME NEW i \in 1 .. Len(todo), NEW j \in 1 .. Len(todo), i < j,
                        todo[j] = "services"
                 PROVE  todo[i] \notin {"services", "categories", "branchCategories"}
      BY DEF Ordered
    <3>1. j = 2
      BY <2>6
    <3>2. i = 1 /\ 1 \in 1 .. Len(prefix)
      BY <1>1, <3>1
    <3>3. todo[i] = "mappings"
      BY <1>1, <2>4, <3>2
    <3> QED
      BY <3>3
  <2> QED
    BY <2>2, <2>4, <2>5, <2>7 DEF Left
<1>2. CASE todo \in ProfileReads
  <2> DEFINE prefix == <<"mappings", "services", "branchServices">>
  <2>1. PICK p \in Orders({"categories", "branchCategories"}) : todo = prefix \o p
    BY <1>2 DEF ProfileReads
  <2>2. IsFiniteSet({"categories"}) /\ {"categories"} \cup {"branchCategories"} = {"categories", "branchCategories"}
    BY FS_Singleton
  <2>3. IsFiniteSet({"categories", "branchCategories"})
    BY <2>2, FS_AddElement
  <2>4. {"categories", "branchCategories"} \in SUBSET (Reads \ {"services"})
    BY DEF Reads
  <2>5. /\ prefix \in Seq(Reads) /\ Len(prefix) = 3 /\ prefix[1] = "mappings"
        /\ prefix[2] = "services" /\ prefix[3] = "branchServices"
    BY DEF Reads
  <2> HIDE DEF prefix
  <2>6. \A i \in 3 .. Len(prefix) : prefix[i] # "services"
    <3>1. \A i \in 3 .. 3 : i = 3
      OBVIOUS
    <3> QED
      BY <2>5, <3>1
  <2>7. Len(prefix) \in Nat \ {0, 1}
    BY <2>5
  <2>8. /\ Ordered(todo)
        /\ \A i \in 1 .. Len(prefix) : prefix[i] \in Left(todo)
        /\ {"categories", "branchCategories"} \subseteq Left(todo)
    BY <1>1, <2>1, <2>3, <2>4, <2>5, <2>6, <2>7
  <2>9. prefix[1] \in Left(todo) /\ prefix[2] \in Left(todo) /\ prefix[3] \in Left(todo)
    BY <2>5, <2>8
  <2> QED
    BY <2>5, <2>8, <2>9
<1>3. CASE todo \in CardReads
  <2> DEFINE prefix == <<"mappings", "services">>
  <2>1. PICK p \in Orders({"categories", "branchCategories", "branchServices"}) : todo = prefix \o p
    BY <1>3 DEF CardReads
  <2>2. /\ IsFiniteSet({"categories"})
        /\ {"categories"} \cup {"branchCategories"} = {"categories", "branchCategories"}
        /\ {"categories", "branchCategories"} \cup {"branchServices"}
             = {"categories", "branchCategories", "branchServices"}
    BY FS_Singleton
  <2>3. IsFiniteSet({"categories", "branchCategories"})
    BY <2>2, FS_AddElement
  <2>4. IsFiniteSet({"categories", "branchCategories", "branchServices"})
    BY <2>2, <2>3, FS_AddElement
  <2>5. {"categories", "branchCategories", "branchServices"} \in SUBSET (Reads \ {"services"})
    BY DEF Reads
  <2>6. /\ prefix \in Seq(Reads) /\ Len(prefix) = 2 /\ prefix[1] = "mappings"
        /\ prefix[2] = "services"
    BY DEF Reads
  <2> HIDE DEF prefix
  <2>7. Len(prefix) \in Nat \ {0, 1} /\ \A i \in 3 .. Len(prefix) : prefix[i] # "services"
    BY <2>6
  <2>8. /\ Ordered(todo)
        /\ \A i \in 1 .. Len(prefix) : prefix[i] \in Left(todo)
        /\ {"categories", "branchCategories", "branchServices"} \subseteq Left(todo)
    BY <1>1, <2>1, <2>4, <2>5, <2>6, <2>7
  <2>9. prefix[1] \in Left(todo) /\ prefix[2] \in Left(todo)
    BY <2>6, <2>8
  <2> QED
    BY <2>6, <2>8, <2>9
<1> QED
  BY <1>2, <1>3

LEMMA PublicOrdered ==
  /\ Ordered(PublicReads)
  /\ Left(PublicReads) = {"services", "categories", "branchCategories", "branchServices"}
<1>1. /\ Len(PublicReads) = 4 /\ PublicReads[1] = "services" /\ PublicReads[2] = "categories"
      /\ PublicReads[3] = "branchCategories" /\ PublicReads[4] = "branchServices"
  BY DEF PublicReads
<1>2. 1 .. 4 = {1, 2, 3, 4}
  OBVIOUS
<1>3. \A j \in 1 .. 4 : PublicReads[j] = "services" => j = 1
  BY <1>1, <1>2
<1>4. \A i, j \in 1 .. 4 : i < j => j # 1
  OBVIOUS
<1>5. Ordered(PublicReads)
  BY <1>1, <1>3, <1>4 DEF Ordered
<1>6. Left(PublicReads) = {"services", "categories", "branchCategories", "branchServices"}
  BY <1>1, <1>2 DEF Left
<1> QED
  BY <1>5, <1>6

\* A page begins, asking for everything.
LEMMA BegunFits ==
  ASSUME PageInv, TypeInv, NEW r \in Requests, NEW local \in CatalogueShaped, Accept(r, local),
         UNCHANGED catalogueVars, Asking(local), Truthful(local)
  PROVE  PageInv'
<1>1. /\ request'[r] = local /\ \A q \in Requests \ {r} : request'[q] = request[q]
      /\ UNCHANGED offerVars
  BY AcceptShaped DEF TypeInv, DocumentsOK, catalogueVars
<1>2. PageFits(r)
  <2>1. Truthful(local)'
    BY <1>1 DEF Truthful, WouldPass, StillOffered, Offered, Allows, CategoryOf, LiveCategory,
                Covers, offerVars
  <2>2. Truthful(request[r])'
    BY <1>1, <2>1 DEF Truthful, WouldPass, StillOffered, CategoryOf
  <2> QED
    BY <1>1, <2>2 DEF PageFits
<1>3. ASSUME NEW q \in Requests \ {r} PROVE PageFits(q)
  <2>1. PageKept(q)
    BY <1>1 DEF PageKept, Reading, OfCatalogue
  <2> QED
    BY <1>1, <2>1, KeptFits
<1> QED
  BY <1>2, <1>3, AllFit

LEMMA PagesBegin ==
  ASSUME PageInv, TypeInv, NEW r \in Requests, PublicPages(r), ~Read(r)
  PROVE  PageInv'
<1>1. ASSUME NEW b \in Branches, NEW found \in SUBSET Services, NEW before \in SUBSET Services,
             before = found \cap Offered(b), UNCHANGED catalogueVars,
             Accept(r, Local(PublicReads, b, None, found, before))
      PROVE  PageInv'
  <2> DEFINE local == Local(PublicReads, b, None, found, before)
  <2>1. local \in CatalogueShaped
    BY PageShaped, PublicReadsTyped
  <2>2. before = {v \in found \cap Offered(b) :
                    None # None => stylistService[<<None, v>>] = "on"}
    BY <1>1
  <2>3. "mappings" \notin Left(PublicReads)
    BY PublicOrdered
  <2>4. Asking(local) /\ Truthful(local)
    BY <2>2, <2>3, PublicOrdered, PublicReadsTyped, TruthfulFirst
  <2> QED
    BY <1>1, <2>1, <2>4, BegunFits
<1>2. ASSUME NEW t \in Stylists, NEW steps \in ProfileReads \cup CardReads, StylistPage(r, t, steps)
      PROVE  PageInv'
  <2>1. PICK b \in Branches : b = branchOf[t]
    BY <1>2 DEF StylistPage, TypeInv, DocumentsOK, CatalogueTypeOK
  <2>2. PICK before \in SUBSET Services :
          before = {v \in Offered(b) : stylistService[<<t, v>>] = "on"}
    BY OfferedServices
  <2> DEFINE local == Local(steps, b, t, Services, before)
  <2>3. Accept(r, local) /\ UNCHANGED catalogueVars
    BY <1>2, <2>1, <2>2 DEF StylistPage
  <2>4. local \in CatalogueShaped
    BY PageShaped, PageReadsTyped
  <2>5. t # None
    BY CatalogueAssumption
  <2>6. before = {v \in Services \cap Offered(b) : t # None => stylistService[<<t, v>>] = "on"}
    BY <2>2, <2>5, OfferedServices
  <2>7. Asking(local) /\ Truthful(local)
    BY <2>5, <2>6, StylistReads, PageReadsTyped, TruthfulFirst
  <2> QED
    BY <2>3, <2>4, <2>7, BegunFits
<1>3. ASSUME NEW b \in Branches, ListPublic(r, b) PROVE PageInv'
  <2>1. Offered(b) = Services \cap Offered(b)
    BY OfferedServices
  <2> QED
    BY <1>1, <1>3, <2>1 DEF ListPublic
<1>4. ASSUME NEW b \in Branches, NEW v \in Services, DetailsPublic(r, b, v) PROVE PageInv'
  <2>1. Offered(b) \cap {v} = {v} \cap Offered(b)
    OBVIOUS
  <2> QED
    BY <1>1, <1>4, <2>1 DEF DetailsPublic
<1> QED
  BY <1>2, <1>3, <1>4 DEF PublicPages, BranchPages

LEMMA ReadFits ==
  ASSUME PageInv, TypeInv, NEW r \in Requests, Read(r)
  PROVE  PageInv'
<1> DEFINE in == IF Head(request[r].todo) = "services" THEN [v \in Services |-> service[v].category]
                 ELSE request[r].in
<1>1. Reading(r) /\ Shaped /\ CatalogueTypeOK /\ UNCHANGED offerVars
  BY DEF Read, TypeInv, DocumentsOK, catalogueVars
<1>2. PICK local \in CatalogueLocal : local = request[r]
  BY <1>1, ReadingLocal
<1>3. Asking(local) /\ (local.opened \/ Truthful(local))
  BY <1>1, <1>2 DEF PageInv
<1>4. Passing(local) \subseteq Services
  BY DEF Passing, CatalogueLocal
<1>5. in \in [Services -> Categories \cup {None}]
  BY <1>1, <1>2 DEF CatalogueTypeOK, ServiceRecord, CatalogueLocal
<1>6. PICK now : now = [local EXCEPT !.found = Passing(local), !.in = in]
  BY Zenon
<1>7. /\ now \in CatalogueLocal /\ now.todo = local.todo /\ now.branch = local.branch
      /\ now.stylist = local.stylist /\ now.before = local.before /\ now.opened = local.opened
      /\ now.found = Passing(local) /\ now.in = in
  <2>1. PICK found \in SUBSET Services : found = Passing(local)
    BY <1>4
  <2>2. PICK named \in [Services -> Categories \cup {None}] : named = in
    BY <1>5
  <2> HIDE DEF in
  <2>3. now = [local EXCEPT !.found = found, !.in = named]
    BY <1>6, <2>1, <2>2, Zenon
  <2> QED
    BY <2>1, <2>2, <2>3 DEF CatalogueLocal
<1>8. request' = [request EXCEPT ![r] = Rest(now)]
  BY <1>2, <1>6 DEF Read, Continues
<1>9. request'[r] = Rest(now) /\ \A q \in Requests \ {r} : request'[q] = request[q]
  BY <1>1, <1>8 DEF Shaped
<1>10. CASE Len(local.todo) = 1
  <2>1. request'[r] = Idle
    BY <1>7, <1>9, <1>10 DEF Rest
  <2> QED
    BY <1>1, <1>9, <2>1, OtherPages
<1>11. CASE Len(local.todo) # 1
  <2>1. PICK next : next = [now EXCEPT !.todo = Tail(local.todo)]
    OBVIOUS
  <2>2. request'[r] = next
    BY <1>7, <1>9, <1>11, <2>1 DEF Rest
  <2>3. Tail(local.todo) \in Seq(Reads) /\ Tail(local.todo) # <<>>
    BY <1>3, <1>11, LeftAfter DEF Asking
  <2>4. Tail(local.todo) \in Seq(Reads \cup {"create", "leave", "place"}) \ {<<>>}
    BY <2>3
  <2>5. /\ next \in CatalogueLocal /\ next.todo = Tail(local.todo) /\ next.branch = local.branch
        /\ next.stylist = local.stylist /\ next.before = local.before
        /\ next.opened = local.opened /\ next.found = Passing(local) /\ next.in = in
    BY <1>7, <2>1, <2>4 DEF CatalogueLocal
  <2>6. \A v \in Services :
          next.in[v] = IF Head(local.todo) = "services" THEN service[v].category ELSE local.in[v]
    BY <1>2, <2>5
  <2>7. Asking(next) /\ (next.opened \/ Truthful(next))
    BY <1>1, <1>3, <1>11, <2>5, <2>6, TruthfulOn
  <2>8. Truthful(next) => Truthful(next)'
    BY <1>1 DEF Truthful, WouldPass, StillOffered, Offered, Allows, CategoryOf, LiveCategory,
                Covers, offerVars
  <2>9. Truthful(next)' => Truthful(request[r])'
    BY <2>2 DEF Truthful, WouldPass, StillOffered, CategoryOf
  <2>10. PageFits(r)
    BY <2>2, <2>7, <2>8, <2>9 DEF PageFits
  <2>11. ASSUME NEW q \in Requests \ {r} PROVE PageFits(q)
    <3>1. PageKept(q)
      BY <1>9 DEF PageKept, Reading, OfCatalogue
    <3> QED
      BY <1>1, <3>1, KeptFits
  <2> QED
    BY <2>10, <2>11, AllFit
<1> QED
  BY <1>10, <1>11

\* The other steps of the catalogue begin no page.
LEMMA CatalogueFits ==
  ASSUME PageInv, KeepInv, CatalogueNext
  PROVE  PageInv'
<1> USE DEF KeepInv, TypeInv, DocumentsOK
<1>1. ASSUME NEW r \in Requests, PublicPages(r) PROVE PageInv'
  BY <1>1, PagesBegin, ReadFits
<1>2. ASSUME NEW r \in Requests, NEW v \in Services, NEW c \in Categories, CreateService(r, v, c)
      PROVE  PageInv'
  <2>1. request'[r] = [Local(<<"create">>, None, None, {v}, {}) EXCEPT !.in = [w \in Services |-> c]]
    BY <1>2 DEF CreateService, Accept, Shaped
  <2>2. Head(request'[r].todo) \notin Reads
    BY <2>1 DEF Local, Reads
  <2>3. UNCHANGED offerVars /\ \A q \in Requests \ {r} : request'[q] = request[q]
    BY <1>2 DEF CreateService, Accept, Shaped, catalogueVars
  <2> QED
    BY <2>2, <2>3, OtherPages
<1>3. ASSUME NEW r \in Requests, InsertService(r) PROVE PageInv'
  <2>1. PICK opens \in BOOLEAN : /\ opens = ~(Facts' \subseteq Facts)
                                 /\ request' = [Marked(opens) EXCEPT ![r] = Idle]
    BY <1>3 DEF InsertService, Opens
  <2>2. request'[r] = Idle /\ \A q \in Requests \ {r} : request'[q] = Marked(opens)[q]
    BY <2>1, MarkedShaped
  <2>3. \A q \in Requests \ {r} : PageFits(q)
    BY <2>1, <2>2, MarkedFits
  <2> QED
    BY <2>2, <2>3, NoPage, AllFit
<1>4. ASSUME Administration PROVE PageInv'
  <2>1. PICK opens : opens = ~(Facts' \subseteq Facts) /\ request' = Marked(opens)
    BY <1>4, AdministrationTypes DEF Written, Opens
  <2>2. \A q \in Requests : PageFits(q)
    BY <2>1, MarkedFits
  <2> QED
    BY <2>2, AllFit
<1>5. ASSUME NEW r \in Requests, Staffing(r) PROVE PageInv'
  <2>1. PICK t \in Stylists, b \in Branches : Assign(r, t, b) \/ Unassign(t, b) \/ ChangeBranch(r, t, b)
    BY <1>5 DEF Staffing
  <2>2. CASE Assign(r, t, b) \/ ChangeBranch(r, t, b)
    <3>1. PICK todo \in {<<"leave", "place">>, <<"place">>} :
            Accept(r, Local(todo, b, t, {}, {})) /\ UNCHANGED catalogueVars
      BY <2>2 DEF Assign, ChangeBranch, ChangeSteps
    <3>2. request'[r] = Local(todo, b, t, {}, {})
      BY <3>1 DEF Accept, Shaped
    <3>3. Head(request'[r].todo) \notin Reads
      BY <3>2 DEF Local, Reads
    <3>4. UNCHANGED offerVars /\ \A q \in Requests \ {r} : request'[q] = request[q]
      BY <3>1 DEF Accept, Shaped, catalogueVars
    <3> QED
      BY <3>3, <3>4, OtherPages
  <2>3. CASE Unassign(t, b)
    <3>1. UNCHANGED offerVars /\ request' = request
      BY <2>3 DEF Unassign, AtOnce
    <3>2. \A q \in Requests : PageKept(q)
      BY <3>1 DEF PageKept, Reading, OfCatalogue
    <3> QED
      BY <3>1, <3>2, KeptFits, AllFit
  <2> QED
    BY <2>1, <2>2, <2>3
<1>6. ASSUME NEW r \in Requests, Leave(r) \/ Place(r) PROVE PageInv'
  <2>1. UNCHANGED offerVars /\ (Advance(r) \/ Throw(r))
    BY <1>6 DEF Leave, Place
  <2>2. /\ request[r] \in CatalogueShaped
        /\ request[r].todo \in {<<"leave", "place">>, <<"place">>}
    <3>1. request[r] \in CatalogueShaped /\ request[r] \in CatalogueLocal
      BY <1>6, PlaceLocal DEF Leave, Place, CatalogueShaped
    <3>2. request[r].todo \notin Seq(Quiet)
      <4>1. ASSUME request[r].todo \in Seq(Quiet)
            PROVE  Head(request[r].todo) \in Quiet
        BY <3>1, <4>1 DEF CatalogueLocal
      <4> QED
        BY <1>6, <4>1 DEF Leave, Place, At, Quiet, Reads
    <3> QED
      BY <3>1, <3>2 DEF CatalogueShaped
  <2>3. Rest(request[r]) = Idle \/ Rest(request[r]).todo = <<"place">>
    <3>1. CASE request[r].todo = <<"place">>
      BY <3>1 DEF Rest
    <3>2. CASE request[r].todo = <<"leave", "place">>
      BY <2>2, <3>2, RestCatalogue
    <3> QED
      BY <2>2, <3>1, <3>2
  <2>4. /\ request'[r] = Idle \/ request'[r].todo = <<"place">>
        /\ \A q \in Requests \ {r} : request'[q] = request[q]
    BY <2>1, <2>3 DEF Advance, Throw, Continues, Shaped
  <2>5. request'[r] = Idle \/ Head(request'[r].todo) \notin Reads
    BY <2>4 DEF Reads
  <2> QED
    BY <2>1, <2>4, <2>5, OtherPages
<1>7. ASSUME NEW r \in Requests, CatalogueFails(r) PROVE PageInv'
  <2>1. /\ UNCHANGED offerVars /\ request'[r] = Idle
        /\ \A q \in Requests \ {r} : request'[q] = request[q]
    BY <1>7 DEF CatalogueFails, Cut, Shaped, catalogueVars
  <2> QED
    BY <2>1, OtherPages
<1> QED
  BY <1>1, <1>2, <1>3, <1>4, <1>5, <1>6, <1>7 DEF CatalogueNext, CatalogueGoesOn

\* A handler of a picture is no page.
LEMMA PicturesFit ==
  ASSUME PageInv, StorefrontInv, PicturesNext, UNCHANGED catalogueVars
  PROVE  PageInv'
<1> USE DEF StorefrontInv, KeepInv, TypeInv, DocumentsOK
<1>1. UNCHANGED offerVars
  BY DEF catalogueVars
<1>2. ASSUME NEW r \in Requests, "opened" \notin DOMAIN request'[r],
             \A q \in Requests \ {r} : request'[q] = request[q]
      PROVE  PageInv'
  <2>1. ASSUME NEW q \in Requests PROVE PageKept(q)
    BY <1>2, <2>1 DEF PageKept, Reading, OfCatalogue
  <2> QED
    BY <1>1, <2>1, KeptFits, AllFit
<1>3. ASSUME NEW r \in Requests, NEW o, NEW todo, PictureRequest(r, o, todo) PROVE PageInv'
  <2>1. /\ request'[r] = [todo |-> todo, owner |-> o, old |-> picture[o], new |-> NoPicture]
        /\ \A q \in Requests \ {r} : request'[q] = request[q]
    BY <1>3 DEF PictureRequest, Accept, Shaped
  <2>2. "opened" \notin DOMAIN request'[r]
    BY <2>1
  <2> QED
    BY <1>2, <2>1, <2>2
<1>4. ASSUME NEW r \in Requests, NEW local \in PictureLocal, Continues(r, Rest(local)) PROVE PageInv'
  <2>1. /\ request'[r] = Rest(local) /\ \A q \in Requests \ {r} : request'[q] = request[q]
    BY <1>4 DEF Continues, Shaped
  <2>2. "opened" \notin DOMAIN [local EXCEPT !.todo = Tail(@)]
    BY DEF PictureLocal
  <2>3. "opened" \notin DOMAIN Rest(local)
    BY <2>2, Kinds DEF Rest
  <2> QED
    BY <1>2, <2>1, <2>3
<1>5. ASSUME NEW r \in Requests, PictureGoesOn(r) PROVE PageInv'
  <2>1. OfPicture(r)
    BY <1>5, PictureHead DEF PictureGoesOn, Upload, Delete, DeleteFails, WritePicture, PictureFails
  <2>2. request[r] \in PictureLocal
    BY <2>1, KindOf DEF PictureShaped
  <2>3. CASE Upload(r)
    <3>1. PICK x \in Objects : Continues(r, Rest([request[r] EXCEPT !.new = x]))
      BY <2>3 DEF Upload
    <3>2. [request[r] EXCEPT !.new = x] \in PictureLocal
      BY <2>2 DEF PictureLocal
    <3> QED
      BY <1>4, <3>1, <3>2
  <2>4. CASE Delete(r) \/ DeleteFails(r) \/ WritePicture(r)
    <3>1. Continues(r, Rest(request[r]))
      BY <2>4 DEF Delete, DeleteFails, WritePicture, Advance
    <3> QED
      BY <1>4, <2>2, <3>1
  <2>5. CASE PictureFails(r)
    <3>1. request'[r] = Idle /\ \A q \in Requests \ {r} : request'[q] = request[q]
      BY <2>5 DEF PictureFails, Cut, Shaped
    <3> QED
      BY <1>2, <3>1, Kinds
  <2> QED
    BY <1>5, <2>3, <2>4, <2>5 DEF PictureGoesOn
<1> QED
  BY <1>3, <1>5 DEF PicturesNext, PortraitRequests, ImageRequests, UploadProfilePicture,
                    UploadServiceImage, DeleteServiceImage

\* The four public pages collect what they show in different orders, while any
\* number of administrators edits; as long as nothing is opened while one is
\* collected, it shows nothing that was not offered when it was asked for, and
\* everything that is still offered when it answers, or, on the card of a stylist, as
\* much as a card takes (listPaginatedPublic, getDetailsPublic, getById,
\* getPaginatedStylists).
THEOREM PagesShowTheTruth == Spec => []PagesShowTheOffer
<1>1. Init => PageInv
  BY DEF Init, HandlersInit, PageInv, Reading, OfCatalogue
<1>2. StorefrontInv /\ PageInv /\ [Next]_vars => PageInv'
  <2> SUFFICES ASSUME StorefrontInv, PageInv, [Next]_vars PROVE PageInv'
    OBVIOUS
  <2>1. CASE UNCHANGED vars
    <3>1. UNCHANGED offerVars /\ request' = request
      BY <2>1 DEF vars, handlerVars, catalogueVars
    <3>2. \A q \in Requests : PageKept(q)
      BY <3>1 DEF PageKept, Reading, OfCatalogue
    <3> QED
      BY <3>1, <3>2, KeptFits, AllFit
  <2> QED
    BY <2>1, CatalogueFits, PicturesFit DEF Next, StorefrontInv
<1>3. StorefrontInv /\ PageInv => PagesShowTheOffer
  <2> SUFFICES ASSUME Shaped, PageInv, NEW r \in Requests, Reading(r), ~request[r].opened,
                      Len(request[r].todo) = 1
               PROVE  \A shown \in Pages(request[r]) :
                        /\ shown \subseteq request[r].before
                        /\ \/ Remaining(request[r]) \subseteq shown
                           \/ request[r].card /\ Cardinality(shown) = CardLimit
    BY DEF PagesShowTheOffer, StorefrontInv, KeepInv, TypeInv
  <2>1. request[r] \in CatalogueLocal /\ Asking(request[r]) /\ Truthful(request[r])
    BY ReadingLocal DEF PageInv
  <2>2. PICK local \in CatalogueLocal : local = request[r]
    BY <2>1
  <2>3. Passing(local) \subseteq local.before /\ Remaining(local) \subseteq Passing(local)
    BY <2>1, <2>2, TruthShown DEF Remaining
  <2>4. ASSUME NEW shown \in Pages(local)
        PROVE  \/ shown = Passing(local)
               \/ shown \subseteq Passing(local) /\ local.card /\ Cardinality(shown) = CardLimit
    BY DEF Pages, kSubset
  <2> QED
    BY <2>2, <2>3, <2>4
<1> QED
  BY <1>1, <1>2, <1>3, InitHolds, NextHolds, PTL DEF Spec

-----------------------------------------------------------------------------
(* Roster: what handlers carry.                                             *)

Saw ==
  [breaks : SUBSET Windows, branch : SUBSET Windows, bookings : SUBSET Windows,
   special : SUBSET Windows, offDays : BOOLEAN, overrides : HoursRecord \cup {None},
   weekly : HoursRecord \cup {None}, holidays : BOOLEAN]
ListLocal ==
  [todo : {<<"gather", "answer">>, <<"answer">>}, unread : SUBSET Queries, saw : Saw,
   duration : Durations, earliest : Earliest, before : SUBSET (0 .. Day),
   opened : BOOLEAN, closed : BOOLEAN]
SaveLocal == [todo : {<<"saveWeekly">>}, input : HoursRecord, read : HoursRecord, number : Nat]
WeekLocal == [todo : {<<"createWeekly">>}, input : HoursRecord, read : {None}, number : Nat]
OverrideLocal ==
  [todo : {<<"remove", "create">>, <<"create">>}, input : HoursRecord,
   read : OverrideRecord \cup {None}, number : Nat]
BreakLocal == [todo : {<<"insertBreak">>}, input : BreakRecord]
DecideLocal == [todo : {<<"decide">>}, input : OffDays \X {"APPROVED", "REJECTED"}]

EditLocal == SaveLocal \cup WeekLocal \cup OverrideLocal \cup BreakLocal \cup DecideLocal
Locals == ListLocal \cup EditLocal

RosterShaped == request \in [Requests -> {Idle} \cup Locals]

\* Nobody removes a week, so that one to be saved is there.
WeeklyStays == \A r \in Requests : At(r, "saveWeekly") => weekly # None

Types ==
  /\ weekly \in HoursRecord \cup {None}
  /\ override \in OverrideRecord \cup {None}
  /\ break \in [Breaks -> BreakRecord \cup {None}]
  /\ offDay \in [OffDays -> OffDayStatus]
  /\ holiday \subseteq {"all", "branch"}
  /\ defaults \subseteq Windows /\ booked \subseteq Windows /\ blocked \subseteq Windows
  /\ ruled \in BOOLEAN /\ lenient \in BOOLEAN

RosterTypeInv == Types /\ HandlersTypeOK /\ RosterShaped
RosterInv == RosterTypeInv /\ WeeklyStays /\ OverrideStands

LEMMA NotIdle ==
  /\ \A local \in Locals : local # Idle
  /\ \A local \in ListLocal : "before" \in DOMAIN local
  /\ \A local \in EditLocal : "before" \notin DOMAIN local
  /\ Idle.todo = <<>>
<1>1. \A local \in ListLocal : "before" \in DOMAIN local /\ "before" \notin DOMAIN Idle
  BY DEF ListLocal, Idle
<1>2. \A local \in EditLocal : "before" \notin DOMAIN local /\ "input" \in DOMAIN local
  BY DEF EditLocal, SaveLocal, WeekLocal, OverrideLocal, BreakLocal, DecideLocal
<1>3. "input" \notin DOMAIN Idle /\ Idle.todo = <<>>
  BY DEF Idle
<1> QED
  BY <1>1, <1>2, <1>3 DEF Locals

\* The call a handler is at tells what it carries.
LEMMA HeadsOf ==
  ASSUME NEW local \in Locals
  PROVE  /\ Head(local.todo) = "gather" => local \in ListLocal /\ local.todo = <<"gather", "answer">>
         /\ Head(local.todo) = "answer" => local \in ListLocal /\ local.todo = <<"answer">>
         /\ Head(local.todo) = "saveWeekly" => local \in SaveLocal
         /\ Head(local.todo) = "createWeekly" => local \in WeekLocal
         /\ Head(local.todo) = "remove" => local \in OverrideLocal /\ local.todo = <<"remove", "create">>
         /\ Head(local.todo) = "create" => local \in OverrideLocal /\ local.todo = <<"create">>
         /\ Head(local.todo) = "insertBreak" => local \in BreakLocal
         /\ Head(local.todo) = "decide" => local \in DecideLocal
<1>1. CASE local \in ListLocal
  <2>1. local.todo \in {<<"gather", "answer">>, <<"answer">>}
    BY <1>1 DEF ListLocal
  <2> QED
    BY <1>1, <2>1
<1>2. CASE local \in OverrideLocal
  <2>1. local.todo \in {<<"remove", "create">>, <<"create">>}
    BY <1>2 DEF OverrideLocal
  <2> QED
    BY <1>2, <2>1
<1>3. CASE local \in SaveLocal
  <2>1. local.todo = <<"saveWeekly">>
    BY <1>3 DEF SaveLocal
  <2> QED
    BY <1>3, <2>1
<1>4. CASE local \in WeekLocal
  <2>1. local.todo = <<"createWeekly">>
    BY <1>4 DEF WeekLocal
  <2> QED
    BY <1>4, <2>1
<1>5. CASE local \in BreakLocal
  <2>1. local.todo = <<"insertBreak">>
    BY <1>5 DEF BreakLocal
  <2> QED
    BY <1>5, <2>1
<1>6. CASE local \in DecideLocal
  <2>1. local.todo = <<"decide">>
    BY <1>6 DEF DecideLocal
  <2> QED
    BY <1>6, <2>1
<1> QED
  BY <1>1, <1>2, <1>3, <1>4, <1>5, <1>6 DEF Locals, EditLocal

LEMMA CarriedAt ==
  ASSUME RosterShaped, NEW r \in Requests
  PROVE  /\ At(r, "gather") => request[r] \in ListLocal /\ request[r].todo = <<"gather", "answer">>
         /\ At(r, "answer") => request[r] \in ListLocal /\ request[r].todo = <<"answer">>
         /\ At(r, "saveWeekly") => request[r] \in SaveLocal
         /\ At(r, "createWeekly") => request[r] \in WeekLocal
         /\ At(r, "remove") => request[r] \in OverrideLocal /\ request[r].todo = <<"remove", "create">>
         /\ At(r, "create") => request[r] \in OverrideLocal /\ request[r].todo = <<"create">>
         /\ At(r, "insertBreak") => request[r] \in BreakLocal
         /\ At(r, "decide") => request[r] \in DecideLocal
<1>1. request[r] # Idle => request[r] \in Locals
  BY DEF RosterShaped
<1> QED
  BY <1>1, HeadsOf DEF At

\* The handler of an override that removed the old one still has to create.
LEMMA RestOverride ==
  ASSUME NEW local \in OverrideLocal, local.todo = <<"remove", "create">>
  PROVE  Rest(local) \in OverrideLocal /\ Rest(local).todo = <<"create">>
<1>1. Len(local.todo) # 1 /\ Tail(local.todo) = <<"create">>
  OBVIOUS
<1>2. [local EXCEPT !.todo = <<"create">>] \in OverrideLocal
  BY DEF OverrideLocal
<1>3. [local EXCEPT !.todo = <<"create">>].todo = <<"create">>
  BY DEF OverrideLocal
<1> QED
  BY <1>1, <1>2, <1>3 DEF Rest

LEMMA RestList ==
  ASSUME NEW local \in ListLocal
  PROVE  /\ Rest(local) \in {Idle} \cup ListLocal
         /\ local.todo = <<"answer">> => Rest(local) = Idle
<1>1. CASE local.todo = <<"answer">>
  <2>1. Len(local.todo) = 1
    BY <1>1
  <2> QED
    BY <2>1 DEF Rest
<1>2. CASE local.todo = <<"gather", "answer">>
  <2>1. Len(local.todo) # 1 /\ Tail(local.todo) = <<"answer">> /\ local.todo # <<"answer">>
    BY <1>2
  <2>2. [local EXCEPT !.todo = <<"answer">>] \in ListLocal
    BY DEF ListLocal
  <2> QED
    BY <2>1, <2>2 DEF Rest
<1> QED
  BY <1>1, <1>2 DEF ListLocal

-----------------------------------------------------------------------------
(* How handlers begin and go on.                                            *)

\* All handlers but r are where they were.
Others(r) ==
  \A q \in Requests \ {r} :
    (request'[q] # Idle <=> request[q] # Idle) /\ request'[q].todo = request[q].todo

LEMMA NotedShaped ==
  ASSUME NEW requests \in [Requests -> {Idle} \cup Locals], NEW later
  PROVE  /\ Noted(requests, later) \in [Requests -> {Idle} \cup Locals]
         /\ \A q \in Requests :
              /\ Noted(requests, later)[q] # Idle <=> requests[q] # Idle
              /\ Noted(requests, later)[q].todo = requests[q].todo
<1>1. ASSUME NEW q \in Requests
      PROVE  /\ Noted(requests, later)[q] \in {Idle} \cup Locals
             /\ Noted(requests, later)[q] # Idle <=> requests[q] # Idle
             /\ Noted(requests, later)[q].todo = requests[q].todo
  <2>1. CASE requests[q] # Idle /\ q \in Readers /\ "before" \in DOMAIN requests[q]
    <3> DEFINE opens == ~ClosesAtLeast(later, Today)
               closes == ~ClosesAtLeast(Today, later)
               noted == [requests[q] EXCEPT !.opened = requests[q].opened \/ opens,
                                            !.closed = requests[q].closed \/ closes]
    <3>1. requests[q] \in ListLocal
      BY <2>1, NotIdle DEF Locals
    <3>2. (requests[q].opened \/ opens) \in BOOLEAN /\ (requests[q].closed \/ closes) \in BOOLEAN
      OBVIOUS
    <3>3. noted \in ListLocal /\ noted.todo = requests[q].todo
      BY <3>1, <3>2 DEF ListLocal
    <3>4. Noted(requests, later)[q] = noted
      BY <2>1 DEF Noted
    <3> QED
      BY <2>1, <3>3, <3>4, NotIdle DEF Locals
  <2>2. CASE ~(requests[q] # Idle /\ q \in Readers /\ "before" \in DOMAIN requests[q])
    <3>1. Noted(requests, later)[q] = requests[q]
      BY <2>2 DEF Noted
    <3> QED
      BY <3>1
  <2> QED
    BY <2>1, <2>2
<1> QED
  BY <1>1 DEF Noted

LEMMA Begins ==
  ASSUME RosterTypeInv, NEW r \in Requests, NEW local \in Locals, Accept(r, local)
  PROVE  /\ RosterShaped' /\ HandlersTypeOK' /\ faults' = faults /\ Others(r)
         /\ request[r] = Idle /\ request'[r] = local
BY DEF RosterTypeInv, RosterShaped, HandlersTypeOK, Accept, Counted, Others

LEMMA GoesOn ==
  ASSUME RosterTypeInv, NEW r \in Requests, NEW local \in {Idle} \cup Locals, Continues(r, local)
  PROVE  /\ RosterShaped' /\ HandlersTypeOK' /\ faults' = faults /\ Others(r)
         /\ request'[r] = local
BY DEF RosterTypeInv, RosterShaped, HandlersTypeOK, Continues, Others

LEMMA Throws ==
  ASSUME RosterTypeInv, NEW r \in Requests, Throw(r)
  PROVE  /\ RosterShaped' /\ HandlersTypeOK' /\ faults' = faults /\ Others(r)
         /\ request'[r] = Idle
BY GoesOn DEF Throw

LEMMA EditsOn ==
  ASSUME RosterTypeInv, NEW r \in Requests, NEW local \in {Idle} \cup Locals, EditedBy(r, local)
  PROVE  /\ RosterShaped' /\ HandlersTypeOK' /\ faults' = faults /\ Others(r)
         /\ request'[r] # Idle <=> local # Idle
         /\ request'[r].todo = local.todo
<1>1. PICK later : request' = Noted([request EXCEPT ![r] = local], later)
  BY DEF EditedBy
<1>2. [request EXCEPT ![r] = local] \in [Requests -> {Idle} \cup Locals]
  BY DEF RosterTypeInv, RosterShaped
<1>3. /\ request' \in [Requests -> {Idle} \cup Locals]
      /\ \A q \in Requests :
           /\ request'[q] # Idle <=> [request EXCEPT ![r] = local][q] # Idle
           /\ request'[q].todo = [request EXCEPT ![r] = local][q].todo
  BY <1>1, <1>2, NotedShaped
<1>4. /\ [request EXCEPT ![r] = local][r] = local
      /\ \A q \in Requests \ {r} : [request EXCEPT ![r] = local][q] = request[q]
  BY DEF RosterTypeInv, RosterShaped
<1>5. HandlersTypeOK' /\ faults' = faults
  BY DEF RosterTypeInv, HandlersTypeOK, EditedBy
<1> QED
  BY <1>3, <1>4, <1>5 DEF RosterShaped, Others

LEMMA EditsAtOnce ==
  ASSUME RosterTypeInv, Edited
  PROVE  /\ RosterShaped' /\ HandlersTypeOK' /\ faults' = faults
         /\ \A q \in Requests : (request'[q] # Idle <=> request[q] # Idle)
                                /\ request'[q].todo = request[q].todo
<1>1. PICK later : request' = Noted(request, later)
  BY DEF Edited
<1>2. /\ request' \in [Requests -> {Idle} \cup Locals]
      /\ \A q \in Requests : /\ request'[q] # Idle <=> request[q] # Idle
                             /\ request'[q].todo = request[q].todo
  BY <1>1, NotedShaped DEF RosterTypeInv, RosterShaped
<1>3. HandlersTypeOK' /\ faults' = faults
  BY DEF RosterTypeInv, HandlersTypeOK, Edited, Counted
<1> QED
  BY <1>2, <1>3 DEF RosterShaped

\* What is left to show of a step of one handler.
LEMMA OneStep ==
  ASSUME RosterInv, Types', RosterShaped', HandlersTypeOK', faults' = faults,
         NEW r \in Requests, Others(r),
         At(r, "saveWeekly")' => weekly' # None,
         weekly # None => weekly' # None,
         \/ override' # None
         \/ ~ruled'
         \/ At(r, "create")'
         \/ UNCHANGED <<override, ruled>> /\ ~At(r, "create")
  PROVE  RosterInv'
<1> USE DEF RosterInv
<1>1. \A q \in Requests \ {r}, step \in {"saveWeekly", "create"} : At(q, step)' <=> At(q, step)
  BY DEF Others, At
<1>2. WeeklyStays'
  BY <1>1 DEF WeeklyStays
<1>3. OverrideStands'
  BY <1>1 DEF OverrideStands
<1> QED
  BY <1>2, <1>3 DEF RosterTypeInv

\* The same of an edit at once.
LEMMA OneEdit ==
  ASSUME RosterInv, Types', Edited, UNCHANGED weekly,
         UNCHANGED <<override, ruled>> \/ ~ruled'
  PROVE  RosterInv'
<1> USE DEF RosterInv
<1>1. /\ RosterShaped' /\ HandlersTypeOK' /\ faults' = faults
      /\ \A q \in Requests, step \in {"saveWeekly", "create"} : At(q, step)' <=> At(q, step)
  BY EditsAtOnce DEF At
<1>2. WeeklyStays'
  BY <1>1 DEF WeeklyStays
<1>3. OverrideStands'
  BY <1>1 DEF OverrideStands
<1> QED
  BY <1>1, <1>2, <1>3 DEF RosterTypeInv

LEMMA DocumentsStay ==
  ASSUME Types, UNCHANGED <<hourVars, breakVars, closeVars, takenVars>>
  PROVE  Types' /\ UNCHANGED <<weekly, override, ruled>>
BY DEF Types, hourVars, breakVars, closeVars, takenVars

-----------------------------------------------------------------------------
(* What the queries of a list bring.                                        *)

LEMMA TodayTyped ==
  ASSUME Types
  PROVE  Today \in Saw
<1>1. OwnBreaks \subseteq Windows
  BY DEF OwnBreaks, Types, BreakRecord
<1>2. Off \in BOOLEAN /\ ClosedByHoliday \in BOOLEAN
  BY DEF Off, ClosedByHoliday
<1>3. (IF override = None THEN None ELSE override.hours) \in HoursRecord \cup {None}
  BY DEF Types, OverrideRecord
<1> QED
  BY <1>1, <1>2, <1>3 DEF Today, Saw, Types

LEMMA TodayTypedNext ==
  ASSUME Types'
  PROVE  Today' \in Saw
<1>1. OwnBreaks' \subseteq Windows
  BY DEF OwnBreaks, Types, BreakRecord
<1>2. Off' \in BOOLEAN /\ ClosedByHoliday' \in BOOLEAN
  BY DEF Off, ClosedByHoliday
<1>3. (IF override' = None THEN None ELSE override'.hours) \in HoursRecord \cup {None}
  BY DEF Types, OverrideRecord
<1> QED
  BY <1>1, <1>2, <1>3 DEF Today, Saw, Types

LEMMA SawTyped ==
  ASSUME NEW saw \in Saw, NEW today \in Saw, NEW q \in Queries
  PROVE  [saw EXCEPT ![q] = today[q]] \in Saw
<1>1. CASE q = "breaks"
  BY <1>1 DEF Saw
<1>2. CASE q = "branch"
  BY <1>2 DEF Saw
<1>3. CASE q = "bookings"
  BY <1>3 DEF Saw
<1>4. CASE q = "special"
  BY <1>4 DEF Saw
<1>5. CASE q = "offDays"
  BY <1>5 DEF Saw
<1>6. CASE q = "overrides"
  BY <1>6 DEF Saw
<1>7. CASE q = "weekly"
  BY <1>7 DEF Saw
<1>8. CASE q = "holidays"
  BY <1>8 DEF Saw
<1> QED
  BY <1>1, <1>2, <1>3, <1>4, <1>5, <1>6, <1>7, <1>8 DEF Queries

-----------------------------------------------------------------------------
(* The steps.                                                               *)

\* Beginning a handler that neither saves a week nor is about to create.
LEMMA BeginningKeeps ==
  ASSUME RosterInv, NEW r \in Requests, NEW local \in Locals, Accept(r, local),
         UNCHANGED <<hourVars, breakVars, closeVars, takenVars>>,
         Head(local.todo) = "saveWeekly" => weekly # None
  PROVE  RosterInv'
<1> USE DEF RosterInv, RosterTypeInv
<1>1. Types' /\ UNCHANGED <<weekly, override, ruled>>
  BY DocumentsStay
<1>2. /\ RosterShaped' /\ HandlersTypeOK' /\ faults' = faults /\ Others(r)
      /\ request[r] = Idle /\ request'[r] = local
  BY Begins
<1>3. ~At(r, "create") /\ (At(r, "saveWeekly")' => weekly' # None)
  BY <1>1, <1>2 DEF At
<1> QED
  BY <1>1, <1>2, <1>3, OneStep

LEMMA ListsKeep ==
  ASSUME RosterInv, NEW r \in Requests,
         ListCalls(r) \/ (\E q \in Queries : Gather(r, q)) \/ Answer(r)
  PROVE  RosterInv'
<1> USE DEF RosterInv, RosterTypeInv
<1>1. CASE ListCalls(r)
  <2>1. PICK d \in Durations, t \in Earliest : DayList(r, d, t)
    BY <1>1 DEF ListCalls
  <2> DEFINE local == [todo |-> <<"gather", "answer">>, unread |-> Queries, saw |-> Nothing,
                       duration |-> d, earliest |-> t, before |-> Free(d),
                       opened |-> FALSE, closed |-> FALSE]
  <2>2. Nothing \in Saw
    BY DEF Nothing, Saw
  <2>3. Free(d) \subseteq 0 .. Day
    BY DEF Free
  <2>4. local \in ListLocal
    BY <2>2, <2>3 DEF ListLocal
  <2>5. Head(local.todo) # "saveWeekly" /\ local \in Locals
    BY <2>4 DEF Locals
  <2>6. Accept(r, local) /\ UNCHANGED <<hourVars, breakVars, closeVars, takenVars>>
    BY <2>1 DEF DayList
  <2> QED
    BY <2>5, <2>6, BeginningKeeps
<1>2. ASSUME NEW q \in Queries, Gather(r, q) PROVE RosterInv'
  <2> DEFINE saw == Brought(request[r].saw, q)
             local == [request[r] EXCEPT !.unread = request[r].unread \ {q}, !.saw = saw]
             next == IF local.unread = {} THEN Rest(local) ELSE local
  <2>1. At(r, "gather") /\ Continues(r, next)
        /\ UNCHANGED <<hourVars, breakVars, closeVars, takenVars>>
    BY <1>2 DEF Gather
  <2>2. request[r] \in ListLocal
    BY <2>1, CarriedAt
  <2>3. saw \in Saw
    BY <2>2, SawTyped, TodayTyped DEF ListLocal, Brought
  <2>4. local \in ListLocal
    BY <2>2, <2>3 DEF ListLocal
  <2>5. next \in {Idle} \cup ListLocal
    BY <2>4, RestList
  <2> HIDE DEF next
  <2>6. /\ RosterShaped' /\ HandlersTypeOK' /\ faults' = faults /\ Others(r) /\ request'[r] = next
    BY <2>1, <2>5, GoesOn DEF Locals
  <2>7. ~At(r, "saveWeekly")' /\ ~At(r, "create")
    <3>1. ASSUME next \in ListLocal PROVE Head(next.todo) # "saveWeekly"
      <4>1. next.todo \in {<<"gather", "answer">>, <<"answer">>}
        BY <3>1 DEF ListLocal
      <4> QED
        BY <4>1
    <3> QED
      BY <2>1, <2>5, <2>6, <3>1 DEF At
  <2>8. Types' /\ UNCHANGED <<weekly, override, ruled>>
    BY <2>1, DocumentsStay
  <2> QED
    BY <2>6, <2>7, <2>8, OneStep
<1>3. CASE Answer(r)
  <2>1. At(r, "answer") /\ Continues(r, Rest(request[r]))
        /\ UNCHANGED <<hourVars, breakVars, closeVars, takenVars>>
    BY <1>3 DEF Answer, Advance
  <2>2. Rest(request[r]) = Idle
    BY <2>1, CarriedAt, RestList
  <2>3. /\ RosterShaped' /\ HandlersTypeOK' /\ faults' = faults /\ Others(r) /\ request'[r] = Idle
    BY <2>1, <2>2, GoesOn
  <2>4. Types' /\ UNCHANGED <<weekly, override, ruled>>
    BY <2>1, DocumentsStay
  <2>5. ~At(r, "saveWeekly")' /\ ~At(r, "create")
    BY <2>1, <2>3 DEF At
  <2> QED
    BY <2>3, <2>4, <2>5, OneStep
<1> QED
  BY <1>1, <1>2, <1>3

LEMMA WeekKeeps ==
  ASSUME RosterInv, NEW r \in Requests,
         (\E h \in Hours : UpdateWeekly(r, h)) \/ SaveWeekly(r) \/ CreateWeekly(r)
  PROVE  RosterInv'
<1> USE DEF RosterInv, RosterTypeInv
<1>1. ASSUME NEW h \in Hours, UpdateWeekly(r, h) PROVE RosterInv'
  <2> DEFINE todo == IF weekly = None THEN <<"createWeekly">> ELSE <<"saveWeekly">>
             local == [todo |-> todo, input |-> h, read |-> weekly, number |-> accepted]
  <2>1. Accept(r, local) /\ UNCHANGED <<hourVars, breakVars, closeVars, takenVars>>
    BY <1>1 DEF UpdateWeekly, Edit
  <2>2. h \in HoursRecord /\ accepted \in Nat
    BY RosterAssumption DEF HandlersTypeOK
  <2>3. weekly = None => local \in WeekLocal /\ Head(local.todo) = "createWeekly"
    BY <2>2 DEF WeekLocal
  <2>4. weekly # None => local \in SaveLocal
    BY <2>2 DEF SaveLocal, Types
  <2>5. local \in Locals /\ (Head(local.todo) = "saveWeekly" => weekly # None)
    BY <2>3, <2>4 DEF Locals, EditLocal
  <2> QED
    BY <2>1, <2>5, BeginningKeeps
<1>2. CASE SaveWeekly(r)
  <2> DEFINE new == request[r].input
             read == request[r].read
             saved == [working |-> IF new.working = read.working THEN weekly.working ELSE new.working,
                       shifts |-> IF new.shifts = read.shifts THEN weekly.shifts ELSE new.shifts]
  <2>1. At(r, "saveWeekly") /\ UNCHANGED <<override, ruled, breakVars, closeVars, takenVars>>
    BY <1>2 DEF SaveWeekly
  <2>2. new \in HoursRecord /\ weekly \in HoursRecord /\ weekly # None
    BY <2>1, CarriedAt DEF SaveLocal, WeeklyStays, Types
  <2>3. saved \in HoursRecord
    BY <2>2 DEF HoursRecord
  <2>4. \/ Throw(r) /\ UNCHANGED weekly
        \/ weekly' = saved /\ EditedBy(r, Idle)
    BY <1>2 DEF SaveWeekly
  <2>5. /\ RosterShaped' /\ HandlersTypeOK' /\ faults' = faults /\ Others(r) /\ request'[r] = Idle
    BY <2>4, Throws, EditsOn
  <2>6. Types' /\ weekly' # None
    BY <2>1, <2>2, <2>3, <2>4, RosterAssumption DEF Types, breakVars, closeVars, takenVars
  <2>7. ~At(r, "create")
    BY <2>1 DEF At
  <2> QED
    BY <2>1, <2>5, <2>6, <2>7, OneStep
<1>3. CASE CreateWeekly(r)
  <2>1. At(r, "createWeekly") /\ UNCHANGED <<override, ruled, breakVars, closeVars, takenVars>>
    BY <1>3 DEF CreateWeekly
  <2>2. request[r].input \in HoursRecord
    BY <2>1, CarriedAt DEF WeekLocal
  <2>3. \/ Throw(r) /\ UNCHANGED weekly
        \/ weekly' = request[r].input /\ EditedBy(r, Idle)
    BY <1>3 DEF CreateWeekly
  <2>4. /\ RosterShaped' /\ HandlersTypeOK' /\ faults' = faults /\ Others(r) /\ request'[r] = Idle
    BY <2>3, Throws, EditsOn
  <2>5. Types' /\ (weekly # None => weekly' # None)
    BY <2>1, <2>2, <2>3, RosterAssumption DEF Types, breakVars, closeVars, takenVars
  <2>6. ~At(r, "create") /\ ~At(r, "saveWeekly")'
    BY <2>1, <2>4 DEF At
  <2> QED
    BY <2>1, <2>4, <2>5, <2>6, OneStep
<1> QED
  BY <1>1, <1>2, <1>3

LEMMA OverridesKeep ==
  ASSUME RosterInv, NEW r \in Requests, OverrideCalls(r) \/ RemoveOverride(r) \/ CreateOverride(r)
  PROVE  RosterInv'
<1> USE DEF RosterInv, RosterTypeInv
<1>1. CASE DeleteDailyOverride
  <2>1. /\ override' = None /\ ruled' = FALSE /\ Edited
        /\ UNCHANGED <<weekly, breakVars, closeVars, takenVars>>
    BY <1>1 DEF DeleteDailyOverride
  <2>2. Types'
    BY <2>1 DEF Types, breakVars, closeVars, takenVars
  <2> QED
    BY <2>1, <2>2, OneEdit
<1>2. ASSUME NEW h \in Hours, CreateDailyOverride(r, h) PROVE RosterInv'
  <2> DEFINE todo == IF override = None THEN <<"create">> ELSE <<"remove", "create">>
             local == [todo |-> todo, input |-> h, read |-> override, number |-> accepted]
  <2>1. Accept(r, local) /\ UNCHANGED <<hourVars, breakVars, closeVars, takenVars>>
    BY <1>2 DEF CreateDailyOverride, Edit
  <2>2. h \in HoursRecord /\ accepted \in Nat
    BY RosterAssumption DEF HandlersTypeOK
  <2>3. local \in OverrideLocal
    BY <2>2 DEF OverrideLocal, Types
  <2>4. Head(local.todo) # "saveWeekly"
    <3>1. Head(<<"create">>) # "saveWeekly" /\ Head(<<"remove", "create">>) # "saveWeekly"
      OBVIOUS
    <3> QED
      BY <3>1
  <2> QED
    BY <2>1, <2>3, <2>4, BeginningKeeps DEF Locals, EditLocal
<1>3. CASE RemoveOverride(r)
  <2>1. /\ At(r, "remove") /\ EditedBy(r, Rest(request[r]))
        /\ UNCHANGED <<weekly, ruled, breakVars, closeVars, takenVars>>
        /\ override' \in {None, override}
    BY <1>3 DEF RemoveOverride
  <2>2. Rest(request[r]) \in OverrideLocal /\ Rest(request[r]).todo = <<"create">>
    BY <2>1, CarriedAt, RestOverride
  <2>3. Rest(request[r]) \in Locals /\ Rest(request[r]) # Idle
    BY <2>2, NotIdle DEF Locals, EditLocal
  <2>4. /\ RosterShaped' /\ HandlersTypeOK' /\ faults' = faults /\ Others(r)
        /\ request'[r] # Idle /\ request'[r].todo = <<"create">>
    BY <2>1, <2>2, <2>3, EditsOn
  <2>5. At(r, "create")' /\ ~At(r, "saveWeekly")'
    BY <2>4 DEF At
  <2>6. Types'
    BY <2>1 DEF Types, breakVars, closeVars, takenVars
  <2> QED
    BY <2>1, <2>4, <2>5, <2>6, OneStep
<1>4. CASE CreateOverride(r)
  <2> DEFINE made == [hours |-> request[r].input, by |-> request[r].number]
  <2>1. At(r, "create") /\ UNCHANGED <<weekly, breakVars, closeVars, takenVars>>
    BY <1>4 DEF CreateOverride
  <2>2. made \in OverrideRecord
    BY <2>1, CarriedAt DEF OverrideLocal, OverrideRecord
  <2>3. \/ Throw(r) /\ ruled' = (ruled /\ override # None) /\ UNCHANGED override
        \/ Throw(r) /\ override # None /\ UNCHANGED <<override, ruled>>
        \/ override' = made /\ ruled' = TRUE /\ EditedBy(r, Idle)
    BY <1>4 DEF CreateOverride
  <2>4. /\ RosterShaped' /\ HandlersTypeOK' /\ faults' = faults /\ Others(r) /\ ~At(r, "saveWeekly")'
    BY <2>3, Throws, EditsOn DEF At
  <2>5. (ruled /\ override # None) \in BOOLEAN
    OBVIOUS
  <2>6. Types'
    BY <2>1, <2>2, <2>3, <2>5 DEF Types, breakVars, closeVars, takenVars
  <2>7. override' # None \/ ~ruled'
    BY <2>2, <2>3, RosterAssumption
  <2> QED
    BY <2>1, <2>4, <2>6, <2>7, OneStep
<1> QED
  BY <1>1, <1>2, <1>3, <1>4 DEF OverrideCalls

LEMMA BreaksKeep ==
  ASSUME RosterInv, NEW r \in Requests, BreakCalls(r) \/ \E i \in Breaks : InsertBreak(r, i)
  PROVE  RosterInv'
<1> USE DEF RosterInv, RosterTypeInv
<1>1. ASSUME NEW i \in Breaks, DeleteBreak(i) PROVE RosterInv'
  <2>1. /\ break' = [break EXCEPT ![i] = None] /\ Edited
        /\ UNCHANGED <<hourVars, lenient, defaults, closeVars, takenVars>>
    BY <1>1 DEF DeleteBreak
  <2>2. Types' /\ UNCHANGED <<weekly, override, ruled>>
    BY <2>1 DEF Types, hourVars, closeVars, takenVars
  <2> QED
    BY <2>1, <2>2, OneEdit
<1>2. ASSUME NEW i \in Breaks, NEW new \in BreakRecord, AdminAddsBreak(i, new) PROVE RosterInv'
  <2>1. /\ break' = [break EXCEPT ![i] = new] /\ lenient' = TRUE /\ Edited
        /\ UNCHANGED <<hourVars, defaults, closeVars, takenVars>>
    BY <1>2 DEF AdminAddsBreak
  <2>2. Types' /\ UNCHANGED <<weekly, override, ruled>>
    BY <2>1 DEF Types, hourVars, closeVars, takenVars
  <2> QED
    BY <2>1, <2>2, OneEdit
<1>3. ASSUME NEW new \in BreakRecord, AddBreak(r, new) PROVE RosterInv'
  <2> DEFINE local == [todo |-> <<"insertBreak">>, input |-> new]
  <2>1. local \in BreakLocal /\ Head(local.todo) # "saveWeekly"
    BY DEF BreakLocal
  <2>2. Accept(r, local) /\ UNCHANGED <<hourVars, breakVars, closeVars, takenVars>>
    BY <1>3 DEF AddBreak
  <2> QED
    BY <2>1, <2>2, BeginningKeeps DEF Locals, EditLocal
<1>4. ASSUME NEW i \in Breaks, InsertBreak(r, i) PROVE RosterInv'
  <2>1. /\ At(r, "insertBreak") /\ break' = [break EXCEPT ![i] = request[r].input]
        /\ UNCHANGED <<hourVars, lenient, defaults, closeVars, takenVars>> /\ EditedBy(r, Idle)
    BY <1>4 DEF InsertBreak
  <2>2. request[r].input \in BreakRecord
    BY <2>1, CarriedAt DEF BreakLocal
  <2>3. Types' /\ UNCHANGED <<weekly, override, ruled>>
    BY <2>1, <2>2 DEF Types, hourVars, closeVars, takenVars
  <2>4. /\ RosterShaped' /\ HandlersTypeOK' /\ faults' = faults /\ Others(r)
        /\ ~At(r, "saveWeekly")' /\ ~At(r, "create")
    BY <2>1, EditsOn DEF At
  <2> QED
    BY <2>3, <2>4, OneStep
<1>5. ASSUME NEW w \in BreakTimes, NEW k \in {"weekly", "dated", "both"}
      PROVE  [kind |-> k, time |-> w] \in BreakRecord
  BY RosterAssumption DEF BreakRecord
<1> QED
  BY <1>1, <1>2, <1>3, <1>4, <1>5 DEF BreakCalls

LEMMA OffDaysKeep ==
  ASSUME RosterInv, NEW r \in Requests, OffDayCalls(r) \/ Decide(r)
  PROVE  RosterInv'
<1> USE DEF RosterInv, RosterTypeInv
<1>1. ASSUME NEW o \in OffDays, DeleteOffDay(o) PROVE RosterInv'
  <2>1. /\ offDay' = [offDay EXCEPT ![o] = "NONE"] /\ Edited
        /\ UNCHANGED <<holiday, takenVars, hourVars, breakVars>>
    BY <1>1 DEF DeleteOffDay, CloseOrTake
  <2>2. Types' /\ UNCHANGED <<weekly, override, ruled>>
    BY <2>1 DEF Types, hourVars, breakVars, takenVars, OffDayStatus
  <2> QED
    BY <2>1, <2>2, OneEdit
<1>2. ASSUME NEW o \in OffDays, NEW s \in {"APPROVED", "REJECTED"}, UpdateOffDayStatus(r, o, s)
      PROVE  RosterInv'
  <2> DEFINE local == [todo |-> <<"decide">>, input |-> <<o, s>>]
  <2>1. local \in DecideLocal /\ Head(local.todo) # "saveWeekly"
    BY DEF DecideLocal
  <2>2. Accept(r, local) /\ UNCHANGED <<hourVars, breakVars, closeVars, takenVars>>
    BY <1>2 DEF UpdateOffDayStatus
  <2> QED
    BY <2>1, <2>2, BeginningKeeps DEF Locals, EditLocal
<1>3. CASE Decide(r)
  <2> DEFINE o == request[r].input[1]
  <2>1. /\ At(r, "decide") /\ EditedBy(r, Idle)
        /\ UNCHANGED <<hourVars, breakVars, holiday, takenVars>>
        /\ offDay' \in {offDay, [offDay EXCEPT ![o] = request[r].input[2]]}
    BY <1>3 DEF Decide
  <2>2. o \in OffDays /\ request[r].input[2] \in OffDayStatus
    BY <2>1, CarriedAt DEF DecideLocal, OffDayStatus
  <2>3. Types' /\ UNCHANGED <<weekly, override, ruled>>
    BY <2>1, <2>2 DEF Types, hourVars, breakVars, takenVars
  <2>4. /\ RosterShaped' /\ HandlersTypeOK' /\ faults' = faults /\ Others(r)
        /\ ~At(r, "saveWeekly")' /\ ~At(r, "create")
    BY <2>1, EditsOn DEF At
  <2> QED
    BY <2>3, <2>4, OneStep
<1> QED
  BY <1>1, <1>2, <1>3 DEF OffDayCalls

LEMMA EditsKeep ==
  ASSUME RosterInv, Edits
  PROVE  RosterInv'
<1> USE DEF RosterInv, RosterTypeInv
<1>1. CASE UpdateBranch
  <2>1. /\ defaults' \in BranchBreaks /\ Edited
        /\ UNCHANGED <<hourVars, break, lenient, closeVars, takenVars>>
    BY <1>1 DEF UpdateBranch
  <2>2. Types' /\ UNCHANGED <<weekly, override, ruled>>
    BY <2>1, RosterAssumption DEF Types, hourVars, closeVars, takenVars
  <2> QED
    BY <2>1, <2>2, OneEdit
<1>2. ASSUME NEW o \in OffDays, RequestOffDay(o) PROVE RosterInv'
  <2>1. /\ offDay' = [offDay EXCEPT ![o] = "PENDING"] /\ Edited
        /\ UNCHANGED <<holiday, takenVars, hourVars, breakVars>>
    BY <1>2 DEF RequestOffDay, CloseOrTake
  <2>2. Types' /\ UNCHANGED <<weekly, override, ruled>>
    BY <2>1 DEF Types, hourVars, breakVars, takenVars, OffDayStatus
  <2> QED
    BY <2>1, <2>2, OneEdit
<1>3. ASSUME NEW scope \in {"all", "branch"}, CreateHoliday(scope) \/ DeleteHoliday(scope)
      PROVE  RosterInv'
  <2>1. /\ holiday' \subseteq {"all", "branch"} /\ Edited
        /\ UNCHANGED <<offDay, takenVars, hourVars, breakVars>>
    BY <1>3 DEF CreateHoliday, DeleteHoliday, CloseOrTake, Types
  <2>2. Types' /\ UNCHANGED <<weekly, override, ruled>>
    BY <2>1 DEF Types, hourVars, breakVars, takenVars
  <2> QED
    BY <2>1, <2>2, OneEdit
<1>4. ASSUME NEW w \in Bookable, Take(w) PROVE RosterInv'
  <2>1. /\ booked' \subseteq booked \cup {w} /\ blocked' \subseteq blocked \cup {w} /\ Edited
        /\ UNCHANGED <<closeVars, hourVars, breakVars>>
    BY <1>4 DEF Take, CloseOrTake
  <2>2. w \in Windows
    BY RosterAssumption
  <2>3. Types' /\ UNCHANGED <<weekly, override, ruled>>
    BY <2>1, <2>2 DEF Types, hourVars, breakVars, closeVars
  <2> QED
    BY <2>1, <2>3, OneEdit
<1> QED
  BY <1>1, <1>2, <1>3, <1>4 DEF Edits

LEMMA RosterFailureKeeps ==
  ASSUME RosterInv, NEW r \in Requests, RosterFails(r)
  PROVE  RosterInv'
<1> USE DEF RosterInv, RosterTypeInv
<1>1. Cut(r) /\ Types' /\ UNCHANGED <<weekly, override, ruled>>
  BY DocumentsStay DEF RosterFails
<1>2. RosterShaped' /\ HandlersTypeOK' /\ faults' > 0
  BY <1>1 DEF Cut, RosterShaped, HandlersTypeOK
<1>3. WeeklyStays'
  BY <1>1 DEF Cut, WeeklyStays, At, RosterShaped
<1> QED
  BY <1>1, <1>2, <1>3 DEF OverrideStands

-----------------------------------------------------------------------------
(* The specification.                                                       *)

LEMMA RosterInitHolds == RosterInit => RosterInv
<1> SUFFICES ASSUME RosterInit PROVE RosterInv
  OBVIOUS
<1> USE DEF RosterInit
<1>1. RosterShaped /\ HandlersTypeOK /\ \A r \in Requests : request[r] = Idle
  BY DEF HandlersInit, RosterShaped, HandlersTypeOK
<1>2. Types
  BY RosterAssumption DEF Types, OffDayStatus
<1>3. WeeklyStays /\ OverrideStands
  BY <1>1 DEF WeeklyStays, OverrideStands, At
<1> QED
  BY <1>1, <1>2, <1>3 DEF RosterInv, RosterTypeInv

LEMMA RosterNextHolds == RosterInv /\ [RosterNext]_rosterVars => RosterInv'
<1> SUFFICES ASSUME RosterInv, [RosterNext]_rosterVars PROVE RosterInv'
  OBVIOUS
<1>1. CASE UNCHANGED rosterVars
  <2>1. UNCHANGED <<hourVars, breakVars, closeVars, takenVars, handlerVars>>
    BY <1>1 DEF rosterVars
  <2>2. Types' /\ UNCHANGED <<weekly, override, ruled>>
    BY <2>1, DocumentsStay DEF RosterInv, RosterTypeInv
  <2>3. UNCHANGED <<request, accepted, faults, overlapped>>
    BY <2>1 DEF handlerVars
  <2> QED
    BY <2>2, <2>3 DEF RosterInv, RosterTypeInv, RosterShaped, HandlersTypeOK, WeeklyStays, OverrideStands, At
<1>2. ASSUME NEW r \in Requests, RosterGoesOn(r) PROVE RosterInv'
  BY <1>2, ListsKeep, WeekKeeps, OverridesKeep, BreaksKeep, OffDaysKeep DEF RosterGoesOn
<1>3. ASSUME NEW r \in Requests,
             \/ \E h \in Hours : UpdateWeekly(r, h)
             \/ OverrideCalls(r) \/ BreakCalls(r) \/ OffDayCalls(r) \/ ListCalls(r)
      PROVE  RosterInv'
  BY <1>3, ListsKeep, WeekKeeps, OverridesKeep, BreaksKeep, OffDaysKeep
<1> QED
  BY <1>1, <1>2, <1>3, EditsKeep, RosterFailureKeeps DEF RosterNext

LEMMA RosterInvHolds == RosterSpec => []RosterInv
BY RosterInitHolds, RosterNextHolds, PTL DEF RosterSpec

\* The documents of the roster, and what handlers have left to do, are of their types.
THEOREM RosterTypes == RosterSpec => []RosterTypeOK
<1>1. RosterInv => RosterTypeOK
  <2>1. \A local \in Locals : local.todo \in
          {<<"gather", "answer">>, <<"answer">>, <<"saveWeekly">>, <<"createWeekly">>,
           <<"remove", "create">>, <<"create">>, <<"insertBreak">>, <<"decide">>}
    BY DEF Locals, EditLocal, ListLocal, SaveLocal, WeekLocal, OverrideLocal, BreakLocal,
           DecideLocal
  <2> QED
    BY <2>1 DEF RosterInv, RosterTypeInv, Types, RosterShaped, RosterTypeOK
<1> QED
  BY <1>1, RosterInvHolds, PTL

\* Whatever replacements, removals and creations overlap, a date that was overridden
\* has an override or is about to get one, until it is taken back or a replacement is
\* refused (createDailyOverride, deleteDailyOverride).
THEOREM OverridesStand == RosterSpec => []OverrideStands
<1>1. RosterInv => OverrideStands
  BY DEF RosterInv
<1> QED
  BY <1>1, RosterInvHolds, PTL

-----------------------------------------------------------------------------
(* What a list shows, in cells.                                             *)

Scheduled(saw) == IF saw.overrides # None THEN saw.overrides ELSE saw.weekly
Resting(saw) == IF saw.breaks = {} THEN saw.branch ELSE saw.breaks
Span(t, duration) == [from |-> t, to |-> t + duration]

LEMMA MeetsCells ==
  ASSUME NEW t \in Nat, NEW d \in Nat \ {0}, NEW w \in Windows
  PROVE  Meets(t, d, w) <=> Cells(Span(t, d)) \cap Cells(w) # {}
<1>1. w.from \in Nat /\ w.to \in Nat /\ w.from < w.to
  BY RosterAssumption DEF Windows
<1>2. Cells(Span(t, d)) = t .. t + d - 1 /\ Cells(w) = w.from .. w.to - 1
  BY DEF Cells, Span
<1>3. ASSUME Meets(t, d, w) PROVE Cells(Span(t, d)) \cap Cells(w) # {}
  <2>1. PICK c \in {t, w.from} : c >= t /\ c >= w.from
    BY <1>1
  <2>2. c \in t .. t + d - 1 /\ c \in w.from .. w.to - 1
    BY <1>1, <1>3, <2>1 DEF Meets
  <2> QED
    BY <1>2, <2>2
<1>4. ASSUME NEW c \in t .. t + d - 1, c \in w.from .. w.to - 1 PROVE Meets(t, d, w)
  BY <1>1, <1>4 DEF Meets
<1> QED
  BY <1>2, <1>3, <1>4

LEMMA WithinCells ==
  ASSUME NEW t \in Nat, NEW d \in Nat \ {0}, NEW w \in Windows
  PROVE  Cells(Span(t, d)) \subseteq Cells(w) <=> w.from <= t /\ t + d <= w.to
<1>1. w.from \in Nat /\ w.to \in Nat /\ w.from < w.to
  BY RosterAssumption DEF Windows
<1>2. Cells(Span(t, d)) = t .. t + d - 1 /\ Cells(w) = w.from .. w.to - 1
  BY DEF Cells, Span
<1>3. ASSUME t .. t + d - 1 \subseteq w.from .. w.to - 1 PROVE w.from <= t /\ t + d <= w.to
  <2>1. t \in t .. t + d - 1 /\ t + d - 1 \in t .. t + d - 1
    OBVIOUS
  <2>2. t \in w.from .. w.to - 1 /\ t + d - 1 \in w.from .. w.to - 1
    BY <1>3, <2>1
  <2> QED
    BY <1>1, <2>2
<1>4. ASSUME w.from <= t, t + d <= w.to PROVE t .. t + d - 1 \subseteq w.from .. w.to - 1
  BY <1>1, <1>4
<1> QED
  BY <1>2, <1>3, <1>4

LEMMA CoveredJoins ==
  ASSUME NEW X, NEW Y, NEW Z
  PROVE  Covered(X \cup Y \cup Z) = Covered(X) \cup Covered(Y) \cup Covered(Z)
BY DEF Covered

\* What a list offers before the clock is looked at.
Offers(saw, duration) == Shown(saw, duration, 0)

LEMMA LaterOffers ==
  ASSUME NEW saw, NEW d, NEW e \in Nat
  PROVE  Shown(saw, d, e) = {t \in Offers(saw, d) : t >= e}
<1>1. \A t \in 0 .. Day : t >= 0
  BY RosterAssumption
<1> QED
  BY <1>1 DEF Shown, Offers

\* A time of the list is worked through and meets nothing that is taken.
ShownAt(saw, duration, t) ==
  /\ t \in 0 .. Day
  /\ ~saw.holidays /\ ~saw.offDays
  /\ Worked(Scheduled(saw), Span(t, duration))
  /\ Cells(Span(t, duration)) \cap Covered(Resting(saw) \cup saw.special \cup saw.bookings) = {}

LEMMA MeetsNothing ==
  ASSUME NEW t \in Nat, NEW d \in Nat \ {0}, NEW W \in SUBSET Windows
  PROVE  (~\E w \in W : Meets(t, d, w)) <=> Cells(Span(t, d)) \cap Covered(W) = {}
<1>1. \A w \in W : Meets(t, d, w) <=> Cells(Span(t, d)) \cap Cells(w) # {}
  BY MeetsCells
<1> QED
  BY <1>1 DEF Covered

LEMMA WorksThrough ==
  ASSUME NEW t \in Nat, NEW d \in Nat \ {0}, NEW hours \in HoursRecord
  PROVE  (hours.working /\ \E shift \in hours.shifts : shift.from <= t /\ t + d <= shift.to)
            <=> Worked(hours, Span(t, d))
<1>1. \A shift \in hours.shifts : shift \in Windows
  BY DEF HoursRecord
<1>2. \A shift \in hours.shifts :
        Cells(Span(t, d)) \subseteq Cells(shift) <=> shift.from <= t /\ t + d <= shift.to
  BY <1>1, WithinCells
<1> QED
  BY <1>2, RosterAssumption DEF Worked

LEMMA ShownCells ==
  ASSUME NEW saw \in Saw, NEW d \in Durations, NEW t
  PROVE  t \in Offers(saw, d) <=> ShownAt(saw, d, t)
<1>1. d \in Nat \ {0} /\ (t \in 0 .. Day => t \in Nat)
  BY RosterAssumption
<1>2. Resting(saw) \cup saw.special \cup saw.bookings \in SUBSET Windows
  BY DEF Resting, Saw
<1>3. CASE saw.holidays \/ saw.offDays \/ Scheduled(saw) = None
  BY <1>3 DEF Offers, Shown, ShownAt, Scheduled, Worked
<1>4. CASE ~(saw.holidays \/ saw.offDays \/ Scheduled(saw) = None)
  <2>1. Scheduled(saw) \in HoursRecord
    BY <1>4 DEF Scheduled, Saw
  <2>2. t \in Offers(saw, d) <=>
          /\ t \in 0 .. Day
          /\ Scheduled(saw).working
          /\ \E shift \in Scheduled(saw).shifts : shift.from <= t /\ t + d <= shift.to
          /\ ~\E w \in Resting(saw) \cup saw.special \cup saw.bookings : Meets(t, d, w)
    BY <1>4 DEF Offers, Shown, Scheduled, Resting
  <2> QED
    BY <1>1, <1>2, <1>4, <2>1, <2>2, MeetsNothing, WorksThrough DEF ShownAt
<1> QED
  BY <1>3, <1>4

\* What the queries would show now is what is free.
LEMMA FreeIsShown ==
  ASSUME Types, NEW d \in Durations
  PROVE  Free(d) = Offers(Today, d)
<1>1. Today \in Saw
  BY TodayTyped
<1>2. /\ Scheduled(Today) = HoursInForce /\ Resting(Today) = BreaksInForce
      /\ Today.special = blocked /\ Today.bookings = booked
      /\ Today.offDays = Off /\ Today.holidays = ClosedByHoliday
  <2>1. override # None => override.hours # None
    BY RosterAssumption DEF Types, OverrideRecord
  <2> QED
    BY <2>1 DEF Today, Scheduled, Resting, HoursInForce, BreaksInForce
<1>3. ASSUME NEW t PROVE t \in Free(d) <=> ShownAt(Today, d, t)
  <2>1. t \in 0 .. Day => Cells(Span(t, d)) = t .. t + d - 1
    BY RosterAssumption DEF Cells, Span
  <2>2. (\A w \in BreaksInForce \cup blocked \cup booked : (t .. t + d - 1) \cap Cells(w) = {})
          <=> (t .. t + d - 1) \cap Covered(BreaksInForce \cup blocked \cup booked) = {}
    BY DEF Covered
  <2>3. t \in Free(d) <=>
          /\ t \in 0 .. Day
          /\ ~ClosedByHoliday /\ ~Off
          /\ HoursInForce # None /\ HoursInForce.working
          /\ \E shift \in HoursInForce.shifts : (t .. t + d - 1) \subseteq Cells(shift)
          /\ \A w \in BreaksInForce \cup blocked \cup booked : (t .. t + d - 1) \cap Cells(w) = {}
    BY DEF Free
  <2> QED
    BY <1>2, <2>1, <2>2, <2>3 DEF ShownAt, Worked
<1> QED
  BY <1>1, <1>3, ShownCells

-----------------------------------------------------------------------------
(* A list in progress: what it was told, completed by what it would be told  *)
(* now, shows no more than was free if nothing was opened, and no less if    *)
(* nothing was closed.                                                      *)

Mix(unread, today, saw) ==
  [breaks |-> IF "breaks" \in unread THEN today.breaks ELSE saw.breaks,
   branch |-> IF "branch" \in unread THEN today.branch ELSE saw.branch,
   bookings |-> IF "bookings" \in unread THEN today.bookings ELSE saw.bookings,
   special |-> IF "special" \in unread THEN today.special ELSE saw.special,
   offDays |-> IF "offDays" \in unread THEN today.offDays ELSE saw.offDays,
   overrides |-> IF "overrides" \in unread THEN today.overrides ELSE saw.overrides,
   weekly |-> IF "weekly" \in unread THEN today.weekly ELSE saw.weekly,
   holidays |-> IF "holidays" \in unread THEN today.holidays ELSE saw.holidays]

Accurate(local, shown) ==
  /\ ~local.opened => shown \subseteq local.before
  /\ ~local.closed => local.before \subseteq shown

GoodList(local, today) ==
  /\ Accurate(local, Offers(Mix(local.unread, today, local.saw), local.duration))
  /\ local.todo = <<"answer">> => local.unread = {}

GoodLists(requests, today) ==
  \A r \in Requests : requests[r] \in ListLocal => r \in Readers /\ GoodList(requests[r], today)

ListInv == GoodLists(request, Today)

LEMMA MixTyped ==
  ASSUME NEW unread, NEW today \in Saw, NEW saw \in Saw
  PROVE  Mix(unread, today, saw) \in Saw
BY DEF Mix, Saw

\* A list is not changed by the order its queries are answered in, only by edits.
LEMMA GatheringKeeps ==
  ASSUME NEW unread, NEW today \in Saw, NEW saw \in Saw, NEW q \in unread, q \in Queries
  PROVE  Mix(unread \ {q}, today, [saw EXCEPT ![q] = today[q]]) = Mix(unread, today, saw)
<1>1. CASE q = "breaks"
  BY <1>1 DEF Saw, Mix
<1>2. CASE q = "branch"
  BY <1>2 DEF Saw, Mix
<1>3. CASE q = "bookings"
  BY <1>3 DEF Saw, Mix
<1>4. CASE q = "special"
  BY <1>4 DEF Saw, Mix
<1>5. CASE q = "offDays"
  BY <1>5 DEF Saw, Mix
<1>6. CASE q = "overrides"
  BY <1>6 DEF Saw, Mix
<1>7. CASE q = "weekly"
  BY <1>7 DEF Saw, Mix
<1>8. CASE q = "holidays"
  BY <1>8 DEF Saw, Mix
<1> QED
  BY <1>1, <1>2, <1>3, <1>4, <1>5, <1>6, <1>7, <1>8 DEF Queries

LEMMA AllBrought ==
  ASSUME NEW today \in Saw, NEW saw \in Saw
  PROVE  Mix({}, today, saw) = saw
BY DEF Mix, Saw

LEMMA NoneBrought ==
  ASSUME NEW today \in Saw, NEW saw \in Saw
  PROVE  Mix(Queries, today, saw) = today
BY DEF Mix, Saw, Queries

\* Answers that close at least what others close show no more than they do, ...
LEMMA ClosingShowsLess ==
  ASSUME NEW a \in Saw, NEW b \in Saw, ClosesAtLeast(b, a), NEW d \in Durations
  PROVE  Offers(b, d) \subseteq Offers(a, d)
<1>1. SUFFICES ASSUME NEW t, ShownAt(b, d, t) PROVE ShownAt(a, d, t)
  BY ShownCells
<1>2. ~a.holidays /\ ~a.offDays /\ t \in 0 .. Day
  BY <1>1 DEF ShownAt, ClosesAtLeast
<1>3. Worked(Scheduled(a), Span(t, d))
  <2>1. CASE b.overrides # None
    BY <1>1, <2>1 DEF ShownAt, Scheduled, ClosesAtLeast
  <2>2. CASE b.overrides = None
    <3>1. Scheduled(a) = a.weekly /\ Scheduled(b) = b.weekly
      BY <2>2 DEF Scheduled, ClosesAtLeast
    <3>2. Worked(b.weekly, Span(t, d))
      BY <1>1, <3>1 DEF ShownAt
    <3>3. Span(t, d) \in Windows
      <4>1. PICK shift \in b.weekly.shifts : Cells(Span(t, d)) \subseteq Cells(shift)
        BY <3>2 DEF Worked
      <4>2. shift \in Windows
        BY <3>2, <4>1 DEF Worked, Saw, HoursRecord
      <4>3. t \in Nat /\ d \in Nat \ {0}
        BY <1>2, RosterAssumption
      <4>4. t + d <= shift.to /\ shift.to \in 1 .. Day
        BY <4>1, <4>2, <4>3, WithinCells DEF Windows
      <4>5. t \in 0 .. Day - 1 /\ t + d \in 1 .. Day /\ t < t + d
        BY <4>3, <4>4, RosterAssumption
      <4> QED
        BY <4>5 DEF Span, Windows
    <3> QED
      BY <3>1, <3>2, <3>3 DEF ClosesAtLeast
  <2> QED
    BY <2>1, <2>2
<1>4. Covered(Resting(a) \cup a.special \cup a.bookings)
        \subseteq Covered(Resting(b) \cup b.special \cup b.bookings)
  <2>1. Covered(a.breaks) \subseteq Covered(b.breaks) /\ Covered(a.branch) \subseteq Covered(b.branch)
        /\ Covered(a.special) \subseteq Covered(b.special)
        /\ Covered(a.bookings) \subseteq Covered(b.bookings)
    BY DEF ClosesAtLeast
  <2>2. Covered(Resting(a)) \subseteq Covered(Resting(b))
    BY <2>1 DEF Resting, ClosesAtLeast
  <2>3. /\ Covered(Resting(a) \cup a.special \cup a.bookings)
             = Covered(Resting(a)) \cup Covered(a.special) \cup Covered(a.bookings)
        /\ Covered(Resting(b) \cup b.special \cup b.bookings)
             = Covered(Resting(b)) \cup Covered(b.special) \cup Covered(b.bookings)
    BY CoveredJoins
  <2> QED
    BY <2>1, <2>2, <2>3
<1> QED
  BY <1>1, <1>2, <1>3, <1>4 DEF ShownAt

\* ... and so do the mixtures of them with what was brought before.
LEMMA MixCloses ==
  ASSUME NEW a \in Saw, NEW b \in Saw, NEW saw \in Saw, NEW unread, ClosesAtLeast(b, a)
  PROVE  ClosesAtLeast(Mix(unread, b, saw), Mix(unread, a, saw))
<1> DEFINE ma == Mix(unread, a, saw)
           mb == Mix(unread, b, saw)
<1>1. mb.overrides = ma.overrides
  BY DEF Mix, ClosesAtLeast
<1>2. \A w \in Windows : Worked(mb.weekly, w) => Worked(ma.weekly, w)
  <2>1. /\ ma.weekly = IF "weekly" \in unread THEN a.weekly ELSE saw.weekly
        /\ mb.weekly = IF "weekly" \in unread THEN b.weekly ELSE saw.weekly
    BY DEF Mix
  <2> QED
    BY <2>1 DEF ClosesAtLeast
<1>3. (mb.breaks = {}) <=> (ma.breaks = {})
  BY DEF Mix, ClosesAtLeast
<1>4. Covered(ma.breaks) \subseteq Covered(mb.breaks)
  BY DEF Mix, ClosesAtLeast
<1>5. Covered(ma.branch) \subseteq Covered(mb.branch)
  BY DEF Mix, ClosesAtLeast
<1>6. Covered(ma.bookings) \subseteq Covered(mb.bookings)
  BY DEF Mix, ClosesAtLeast
<1>7. Covered(ma.special) \subseteq Covered(mb.special)
  BY DEF Mix, ClosesAtLeast
<1>8. (ma.offDays => mb.offDays) /\ (ma.holidays => mb.holidays)
  BY DEF Mix, ClosesAtLeast
<1> HIDE DEF ma, mb
<1>9. \A q \in {"breaks", "branch", "bookings", "special"} : Covered(ma[q]) \subseteq Covered(mb[q])
  BY <1>4, <1>5, <1>6, <1>7
<1> QED
  BY <1>1, <1>2, <1>3, <1>8, <1>9 DEF ClosesAtLeast, ma, mb

-----------------------------------------------------------------------------
(* What a step can be, as far as lists and breaks are concerned.            *)

\* A handler begins, or goes on.
Paced(r) ==
  \/ Counted /\ request[r] = Idle
  \/ request[r] # Idle /\ UNCHANGED overlapped

\* An edit of one call.
EditStep ==
  /\ Edited
  /\ \/ UNCHANGED <<break, lenient>>
     \/ lenient'
     \/ \E i \in Breaks : break' = [break EXCEPT ![i] = None] /\ UNCHANGED lenient

\* An edit of a handler.
ActStep(r) ==
  /\ request[r] # Idle /\ UNCHANGED overlapped
  /\ \E local \in {Idle} \cup OverrideLocal : EditedBy(r, local)
  /\ UNCHANGED <<break, lenient>> \/ \E i \in Breaks : InsertBreak(r, i)

\* No document changes, and the handler carries local; one that carries a break has
\* weighed it.
CallStep(r) ==
  /\ UNCHANGED Today /\ UNCHANGED <<break, lenient>>
  /\ Paced(r)
  /\ \E local \in {Idle} \cup EditLocal :
       /\ request' = [request EXCEPT ![r] = local]
       /\ local \in BreakLocal => BreakTime(WeighedWith(local.input.kind)) + Length(local.input.time) <= BreakLimit

\* A list begins or goes on.
ListStep(r) ==
  /\ UNCHANGED Today /\ UNCHANGED <<break, lenient>>
  /\ Paced(r)
  /\ (\E d \in Durations, t \in Earliest : DayList(r, d, t)) \/ \E q \in Queries : Gather(r, q)

LEMMA TodayStays ==
  ASSUME UNCHANGED <<weekly, override, break, defaults, offDay, holiday, booked, blocked>>
  PROVE  UNCHANGED Today
BY DEF Today, OwnBreaks, Off, ClosedByHoliday

LEMMA NothingElse ==
  ASSUME UNCHANGED <<hourVars, breakVars, closeVars, takenVars>>
  PROVE  UNCHANGED Today /\ UNCHANGED <<break, lenient>>
BY TodayStays DEF hourVars, breakVars, closeVars, takenVars

LEMMA EditLocals ==
  /\ SaveLocal \subseteq EditLocal /\ WeekLocal \subseteq EditLocal /\ OverrideLocal \subseteq EditLocal
  /\ BreakLocal \subseteq EditLocal /\ DecideLocal \subseteq EditLocal
  /\ \A local \in SaveLocal \cup WeekLocal \cup OverrideLocal \cup DecideLocal : local \notin BreakLocal
  /\ \A local \in EditLocal : local \notin ListLocal /\ local # Idle
  /\ Idle \notin ListLocal /\ Idle \notin BreakLocal
<1>1. \A local \in SaveLocal \cup WeekLocal \cup OverrideLocal : "read" \in DOMAIN local
  BY DEF SaveLocal, WeekLocal, OverrideLocal
<1>2. \A local \in BreakLocal : "read" \notin DOMAIN local /\ local.todo = <<"insertBreak">>
  BY DEF BreakLocal
<1>3. \A local \in DecideLocal : local.todo = <<"decide">>
  BY DEF DecideLocal
<1>4. <<"decide">> # <<"insertBreak">>
  OBVIOUS
<1>5. \A local \in SaveLocal \cup WeekLocal \cup OverrideLocal \cup DecideLocal : local \notin BreakLocal
  BY <1>1, <1>2, <1>3, <1>4
<1>6. \A local \in EditLocal : local \notin ListLocal /\ local # Idle
  BY NotIdle DEF Locals
<1>7. Idle \notin ListLocal /\ Idle \notin BreakLocal
  BY NotIdle DEF Locals, EditLocal
<1> QED
  BY <1>5, <1>6, <1>7 DEF EditLocal

\* Beginning or throwing.
LEMMA CallAccepted ==
  ASSUME NEW r \in Requests, NEW local \in EditLocal, local \notin BreakLocal, Accept(r, local),
         UNCHANGED <<hourVars, breakVars, closeVars, takenVars>>
  PROVE  CallStep(r)
BY NothingElse DEF Accept, CallStep, Paced

LEMMA CallEnds ==
  ASSUME NEW r \in Requests, request[r] # Idle, UNCHANGED overlapped,
         request' = [request EXCEPT ![r] = Idle],
         UNCHANGED Today, UNCHANGED <<break, lenient>>
  PROVE  CallStep(r)
BY EditLocals DEF CallStep, Paced

LEMMA EditsAre ==
  ASSUME RosterInv
  PROVE  /\ Edits => EditStep
         /\ DeleteDailyOverride => EditStep
         /\ \A i \in Breaks : DeleteBreak(i) => EditStep
         /\ \A i \in Breaks : \A new : AdminAddsBreak(i, new) => EditStep
         /\ \A o \in OffDays : DeleteOffDay(o) => EditStep
<1>1. ASSUME Edits PROVE EditStep
  BY <1>1 DEF Edits, UpdateBranch, RequestOffDay, CreateHoliday, DeleteHoliday, Take, CloseOrTake,
              EditStep, breakVars
<1>2. ASSUME DeleteDailyOverride PROVE EditStep
  BY <1>2 DEF DeleteDailyOverride, EditStep, breakVars
<1>3. ASSUME NEW i \in Breaks, DeleteBreak(i) PROVE EditStep
  BY <1>3 DEF DeleteBreak, EditStep
<1>4. ASSUME NEW i \in Breaks, NEW new, AdminAddsBreak(i, new) PROVE EditStep
  BY <1>4 DEF AdminAddsBreak, EditStep
<1>5. ASSUME NEW o \in OffDays, DeleteOffDay(o) PROVE EditStep
  BY <1>5 DEF DeleteOffDay, CloseOrTake, EditStep, breakVars
<1> QED
  BY <1>1, <1>2, <1>3, <1>4, <1>5

LEMMA ActsAre ==
  ASSUME RosterInv, NEW r \in Requests,
         \/ SaveWeekly(r) \/ CreateWeekly(r) \/ RemoveOverride(r) \/ CreateOverride(r)
         \/ (\E i \in Breaks : InsertBreak(r, i))
         \/ Decide(r) \/ Answer(r) \/ RosterFails(r)
  PROVE  ActStep(r) \/ CallStep(r)
<1> USE DEF RosterInv, RosterTypeInv
<1>1. ASSUME NEW local \in {Idle} \cup OverrideLocal, EditedBy(r, local), request[r] # Idle,
             UNCHANGED <<break, lenient>> \/ \E i \in Breaks : InsertBreak(r, i)
      PROVE  ActStep(r)
  BY <1>1 DEF ActStep, EditedBy
<1>2. ASSUME Throw(r), request[r] # Idle,
             UNCHANGED <<weekly, override, break, lenient, defaults, offDay, holiday, booked, blocked>>
      PROVE  CallStep(r)
  BY <1>2, TodayStays, CallEnds DEF Throw, Continues
<1>3. CASE SaveWeekly(r)
  <2>1. /\ request[r] # Idle
        /\ UNCHANGED <<override, break, lenient, defaults, offDay, holiday, booked, blocked>>
        /\ EditedBy(r, Idle) \/ (Throw(r) /\ UNCHANGED weekly)
    BY <1>3 DEF SaveWeekly, At, breakVars, closeVars, takenVars
  <2> QED
    BY <2>1, <1>1, <1>2
<1>4. CASE CreateWeekly(r)
  <2>1. /\ request[r] # Idle
        /\ UNCHANGED <<override, break, lenient, defaults, offDay, holiday, booked, blocked>>
        /\ EditedBy(r, Idle) \/ (Throw(r) /\ UNCHANGED weekly)
    BY <1>4 DEF CreateWeekly, At, breakVars, closeVars, takenVars
  <2> QED
    BY <2>1, <1>1, <1>2
<1>5. CASE RemoveOverride(r)
  <2>1. At(r, "remove") /\ UNCHANGED <<break, lenient>> /\ EditedBy(r, Rest(request[r]))
    BY <1>5 DEF RemoveOverride, breakVars
  <2>2. Rest(request[r]) \in OverrideLocal
    BY <2>1, CarriedAt, RestOverride
  <2> QED
    BY <2>1, <2>2, <1>1 DEF At
<1>6. CASE CreateOverride(r)
  <2>1. /\ request[r] # Idle
        /\ UNCHANGED <<weekly, break, lenient, defaults, offDay, holiday, booked, blocked>>
        /\ EditedBy(r, Idle) \/ (Throw(r) /\ UNCHANGED override)
    BY <1>6 DEF CreateOverride, At, breakVars, closeVars, takenVars
  <2> QED
    BY <2>1, <1>1, <1>2
<1>7. CASE \E i \in Breaks : InsertBreak(r, i)
  <2>1. request[r] # Idle /\ EditedBy(r, Idle)
    BY <1>7 DEF InsertBreak, At
  <2> QED
    BY <1>1, <1>7, <2>1
<1>8. CASE Decide(r)
  <2>1. request[r] # Idle /\ EditedBy(r, Idle) /\ UNCHANGED <<break, lenient>>
    BY <1>8 DEF Decide, At, breakVars
  <2> QED
    BY <1>1, <2>1
<1>9. CASE Answer(r)
  <2>1. At(r, "answer") /\ Continues(r, Rest(request[r]))
        /\ UNCHANGED <<hourVars, breakVars, closeVars, takenVars>>
    BY <1>9 DEF Answer, Advance
  <2>2. Rest(request[r]) = Idle
    BY <2>1, CarriedAt, RestList
  <2> QED
    BY <2>1, <2>2, NothingElse, CallEnds DEF At, Continues
<1>10. CASE RosterFails(r)
  BY <1>10, NothingElse, CallEnds DEF RosterFails, Cut
<1> QED
  BY <1>3, <1>4, <1>5, <1>6, <1>7, <1>8, <1>9, <1>10

LEMMA BeginningsAre ==
  ASSUME RosterInv, NEW r \in Requests
  PROVE  /\ \A h \in Hours : UpdateWeekly(r, h) => CallStep(r)
         /\ \A h \in Hours : CreateDailyOverride(r, h) => CallStep(r)
         /\ \A new \in BreakRecord : AddBreak(r, new) => CallStep(r)
         /\ \A o \in OffDays, s \in {"APPROVED", "REJECTED"} : UpdateOffDayStatus(r, o, s) => CallStep(r)
<1> USE DEF RosterInv, RosterTypeInv
<1>1. ASSUME NEW h \in Hours, UpdateWeekly(r, h) PROVE CallStep(r)
  <2> DEFINE todo == IF weekly = None THEN <<"createWeekly">> ELSE <<"saveWeekly">>
             local == [todo |-> todo, input |-> h, read |-> weekly, number |-> accepted]
  <2>1. Accept(r, local) /\ UNCHANGED <<hourVars, breakVars, closeVars, takenVars>>
    BY <1>1 DEF UpdateWeekly, Edit
  <2>2. h \in HoursRecord /\ accepted \in Nat
    BY RosterAssumption DEF HandlersTypeOK
  <2>3. weekly = None => local \in WeekLocal
    BY <2>2 DEF WeekLocal
  <2>4. weekly # None => local \in SaveLocal
    BY <2>2 DEF SaveLocal, Types
  <2>5. local \in EditLocal /\ local \notin BreakLocal
    BY <2>3, <2>4, EditLocals
  <2> QED
    BY <2>1, <2>5, CallAccepted
<1>2. ASSUME NEW h \in Hours, CreateDailyOverride(r, h) PROVE CallStep(r)
  <2> DEFINE todo == IF override = None THEN <<"create">> ELSE <<"remove", "create">>
             local == [todo |-> todo, input |-> h, read |-> override, number |-> accepted]
  <2>1. Accept(r, local) /\ UNCHANGED <<hourVars, breakVars, closeVars, takenVars>>
    BY <1>2 DEF CreateDailyOverride, Edit
  <2>2. h \in HoursRecord /\ accepted \in Nat
    BY RosterAssumption DEF HandlersTypeOK
  <2>3. local \in OverrideLocal
    BY <2>2 DEF OverrideLocal, Types
  <2> QED
    BY <2>1, <2>3, EditLocals, CallAccepted
<1>3. ASSUME NEW new \in BreakRecord, AddBreak(r, new) PROVE CallStep(r)
  <2> DEFINE local == [todo |-> <<"insertBreak">>, input |-> new]
  <2>1. local \in BreakLocal
    BY DEF BreakLocal
  <2>2. Accept(r, local) /\ UNCHANGED <<hourVars, breakVars, closeVars, takenVars>>
    BY <1>3 DEF AddBreak
  <2>3. BreakTime(WeighedWith(local.input.kind)) + Length(local.input.time) <= BreakLimit
    BY <1>3 DEF AddBreak
  <2> QED
    BY <2>1, <2>2, <2>3, EditLocals, NothingElse DEF Accept, CallStep, Paced
<1>4. ASSUME NEW o \in OffDays, NEW s \in {"APPROVED", "REJECTED"}, UpdateOffDayStatus(r, o, s)
      PROVE  CallStep(r)
  <2> DEFINE local == [todo |-> <<"decide">>, input |-> <<o, s>>]
  <2>1. local \in DecideLocal
    BY DEF DecideLocal
  <2>2. Accept(r, local) /\ UNCHANGED <<hourVars, breakVars, closeVars, takenVars>>
    BY <1>4 DEF UpdateOffDayStatus
  <2> QED
    BY <2>1, <2>2, EditLocals, CallAccepted
<1> QED
  BY <1>1, <1>2, <1>3, <1>4

LEMMA ListsAre ==
  ASSUME NEW r \in Requests, ListCalls(r) \/ \E q \in Queries : Gather(r, q)
  PROVE  ListStep(r)
<1>1. CASE ListCalls(r)
  <2>1. PICK d \in Durations, t \in Earliest : DayList(r, d, t)
    BY <1>1 DEF ListCalls
  <2> QED
    BY <2>1, NothingElse DEF DayList, Accept, ListStep, Paced
<1>2. ASSUME NEW q \in Queries, Gather(r, q) PROVE ListStep(r)
  BY <1>2, NothingElse DEF Gather, Continues, At, ListStep, Paced
<1> QED
  BY <1>1, <1>2

LEMMA StepsAre ==
  ASSUME RosterInv, RosterNext
  PROVE  EditStep \/ \E r \in Requests : ActStep(r) \/ CallStep(r) \/ ListStep(r)
<1>1. ASSUME NEW r \in Requests, RosterGoesOn(r) \/ RosterFails(r)
      PROVE  ActStep(r) \/ CallStep(r) \/ ListStep(r)
  BY <1>1, ActsAre, ListsAre DEF RosterGoesOn
<1>2. ASSUME NEW r \in Requests, (\E h \in Hours : UpdateWeekly(r, h)) \/ OverrideCalls(r)
      PROVE  EditStep \/ CallStep(r)
  BY <1>2, BeginningsAre, EditsAre DEF OverrideCalls
<1>3. ASSUME NEW r \in Requests, BreakCalls(r)
      PROVE  EditStep \/ CallStep(r)
  <2>1. \A w \in BreakTimes, k \in {"weekly", "dated", "both"} : [kind |-> k, time |-> w] \in BreakRecord
    BY RosterAssumption DEF BreakRecord
  <2> QED
    BY <1>3, <2>1, BeginningsAre, EditsAre DEF BreakCalls
<1>4. ASSUME NEW r \in Requests, OffDayCalls(r)
      PROVE  EditStep \/ CallStep(r)
  BY <1>4, BeginningsAre, EditsAre DEF OffDayCalls
<1> QED
  BY <1>1, <1>2, <1>3, <1>4, ListsAre, EditsAre DEF RosterNext

-----------------------------------------------------------------------------
(* Lists show the day.                                                      *)

\* An edit tells the lists in progress what it opened and closed.
LEMMA NotedLists ==
  ASSUME Types, NEW later \in Saw, NEW requests \in [Requests -> {Idle} \cup Locals],
         GoodLists(requests, Today)
  PROVE  GoodLists(Noted(requests, later), later)
<1>1. SUFFICES ASSUME NEW r \in Requests, Noted(requests, later)[r] \in ListLocal
               PROVE  r \in Readers /\ GoodList(Noted(requests, later)[r], later)
  BY DEF GoodLists
<1>2. requests[r] \in ListLocal
  <2>1. CASE requests[r] \in ListLocal
    BY <2>1
  <2>2. CASE requests[r] \in {Idle} \cup EditLocal
    <3>1. Noted(requests, later)[r] = requests[r]
      BY <2>2, NotIdle DEF Noted
    <3> QED
      BY <1>1, <3>1
  <2> QED
    BY <2>1, <2>2 DEF Locals
<1>3. r \in Readers /\ GoodList(requests[r], Today)
  BY <1>2 DEF GoodLists
<1> DEFINE opens == ~ClosesAtLeast(later, Today)
           closes == ~ClosesAtLeast(Today, later)
           local == requests[r]
           noted == [local EXCEPT !.opened = local.opened \/ opens, !.closed = local.closed \/ closes]
           before == Mix(local.unread, Today, local.saw)
           after == Mix(local.unread, later, local.saw)
<1>4. Noted(requests, later)[r] = noted
  BY <1>2, <1>3, NotIdle DEF Noted, Locals
<1>5. /\ noted.unread = local.unread /\ noted.saw = local.saw /\ noted.duration = local.duration
      /\ noted.before = local.before /\ noted.todo = local.todo
      /\ noted.opened = (local.opened \/ opens) /\ noted.closed = (local.closed \/ closes)
  BY <1>2 DEF ListLocal
<1>6. Today \in Saw /\ local.saw \in Saw /\ local.duration \in Durations
  BY <1>2, TodayTyped DEF ListLocal
<1>7. before \in Saw /\ after \in Saw
  BY <1>6, MixTyped
<1>8. ~opens => Offers(after, local.duration) \subseteq Offers(before, local.duration)
  BY <1>6, <1>7, MixCloses, ClosingShowsLess
<1>9. ~closes => Offers(before, local.duration) \subseteq Offers(after, local.duration)
  BY <1>6, <1>7, MixCloses, ClosingShowsLess
<1>10. /\ ~local.opened => Offers(before, local.duration) \subseteq local.before
       /\ ~local.closed => local.before \subseteq Offers(before, local.duration)
       /\ local.todo = <<"answer">> => local.unread = {}
  BY <1>3 DEF GoodList, Accurate
<1> HIDE DEF noted, opens, closes, before
<1>11. Accurate(noted, Offers(after, noted.duration))
  BY <1>5, <1>8, <1>9, <1>10 DEF Accurate
<1> QED
  BY <1>3, <1>4, <1>5, <1>10, <1>11 DEF GoodList

\* What else handlers do leaves lists alone.
LEMMA ListsStay ==
  ASSUME RosterShaped, ListInv, UNCHANGED Today, NEW r \in Requests, NEW local,
         request' = [request EXCEPT ![r] = local],
         local \in ListLocal => r \in Readers /\ GoodList(local, Today)
  PROVE  ListInv'
<1>1. SUFFICES ASSUME NEW q \in Requests, request'[q] \in ListLocal
               PROVE  q \in Readers /\ GoodList(request'[q], Today)
  BY DEF ListInv, GoodLists
<1>2. CASE q = r
  BY <1>1, <1>2 DEF RosterShaped
<1>3. CASE q # r
  BY <1>1, <1>3 DEF RosterShaped, ListInv, GoodLists
<1> QED
  BY <1>2, <1>3

LEMMA EditedLists ==
  ASSUME RosterTypeInv, Types', ListInv, EditStep \/ \E r \in Requests : ActStep(r)
  PROVE  ListInv'
<1>1. PICK requests : /\ request' = Noted(requests, Today')
                      /\ \/ requests = request
                         \/ \E r \in Requests, local \in {Idle} \cup OverrideLocal :
                              requests = [request EXCEPT ![r] = local]
  BY DEF EditStep, ActStep, Edited, EditedBy
<1>2. requests \in [Requests -> {Idle} \cup Locals] /\ GoodLists(requests, Today)
  <2>1. CASE requests = request
    BY <2>1 DEF RosterTypeInv, RosterShaped, ListInv
  <2>2. ASSUME NEW r \in Requests, NEW local \in {Idle} \cup OverrideLocal,
               requests = [request EXCEPT ![r] = local]
        PROVE  requests \in [Requests -> {Idle} \cup Locals] /\ GoodLists(requests, Today)
    <3>1. local \in {Idle} \cup Locals /\ local \notin ListLocal
      BY EditLocals DEF Locals
    <3>2. \A q \in Requests : requests[q] = IF q = r THEN local ELSE request[q]
      BY <2>2 DEF RosterTypeInv, RosterShaped
    <3> QED
      BY <2>2, <3>1, <3>2 DEF RosterTypeInv, RosterShaped, ListInv, GoodLists
  <2> QED
    BY <1>1, <2>1, <2>2
<1>3. Today' \in Saw
  BY TodayTypedNext
<1>4. GoodLists(Noted(requests, Today'), Today')
  BY <1>2, <1>3, NotedLists DEF RosterTypeInv
<1> QED
  BY <1>1, <1>4 DEF ListInv

LEMMA ListsGoOn ==
  ASSUME RosterTypeInv, ListInv, NEW r \in Requests, ListStep(r)
  PROVE  ListInv'
<1> USE DEF RosterTypeInv
<1>1. UNCHANGED Today /\ Today \in Saw
  BY TodayTyped DEF ListStep
<1>2. ASSUME NEW d \in Durations, NEW t \in Earliest, DayList(r, d, t) PROVE ListInv'
  <2> DEFINE local == [todo |-> <<"gather", "answer">>, unread |-> Queries, saw |-> Nothing,
                       duration |-> d, earliest |-> t, before |-> Free(d),
                       opened |-> FALSE, closed |-> FALSE]
  <2>1. r \in Readers /\ request' = [request EXCEPT ![r] = local]
    BY <1>2 DEF DayList, Accept
  <2>2. Nothing \in Saw
    BY DEF Nothing, Saw
  <2>3. Offers(Mix(Queries, Today, Nothing), d) = Free(d)
    BY <1>1, <2>2, NoneBrought, FreeIsShown
  <2>4. local.todo # <<"answer">>
    OBVIOUS
  <2>5. GoodList(local, Today)
    BY <2>3, <2>4 DEF GoodList, Accurate
  <2> QED
    BY <1>1, <2>1, <2>5, ListsStay
<1>3. ASSUME NEW q \in Queries, Gather(r, q) PROVE ListInv'
  <2> DEFINE old == request[r]
             saw == [old.saw EXCEPT ![q] = Today[q]]
             local == [old EXCEPT !.unread = old.unread \ {q}, !.saw = saw]
             next == IF local.unread = {} THEN Rest(local) ELSE local
  <2>1. At(r, "gather") /\ request' = [request EXCEPT ![r] = next] /\ q \in old.unread
    BY <1>3 DEF Gather, Continues, Brought
  <2>2. old \in ListLocal /\ old.todo = <<"gather", "answer">>
    BY <2>1, CarriedAt
  <2>3. r \in Readers /\ GoodList(old, Today)
    BY <2>2 DEF ListInv, GoodLists
  <2>4. /\ local.unread = old.unread \ {q} /\ local.saw = saw /\ local.duration = old.duration
        /\ local.before = old.before /\ local.opened = old.opened /\ local.closed = old.closed
        /\ local.todo = old.todo
    BY <2>2 DEF ListLocal
  <2>5. Mix(local.unread, Today, local.saw) = Mix(old.unread, Today, old.saw)
    BY <1>1, <2>1, <2>2, <2>4, GatheringKeeps DEF ListLocal
  <2>6. GoodList(next, Today)
    <3>1. CASE local.unread = {}
      <4>1. Len(local.todo) # 1 /\ Tail(local.todo) = <<"answer">>
        <5>1. local.todo = <<"gather", "answer">>
          BY <2>2, <2>4
        <5> HIDE DEF local
        <5> QED
          BY <5>1
      <4>2. next = [local EXCEPT !.todo = <<"answer">>]
        BY <3>1, <4>1 DEF Rest
      <4>3. local \in ListLocal
        BY <1>1, <2>2, <2>4, SawTyped DEF ListLocal
      <4>4. /\ next.unread = local.unread /\ next.saw = local.saw /\ next.duration = local.duration
            /\ next.before = local.before /\ next.opened = local.opened /\ next.closed = local.closed
        BY <4>2, <4>3 DEF ListLocal
      <4> HIDE DEF next, local
      <4> QED
        BY <2>3, <2>4, <2>5, <3>1, <4>4 DEF GoodList, Accurate
    <3>2. CASE local.unread # {}
      <4>1. <<"gather", "answer">> # <<"answer">>
        OBVIOUS
      <4>2. next = local
        BY <3>2
      <4> HIDE DEF next, local
      <4> QED
        BY <2>2, <2>3, <2>4, <2>5, <4>1, <4>2 DEF GoodList, Accurate
    <3> QED
      BY <3>1, <3>2
  <2> QED
    BY <1>1, <2>1, <2>3, <2>6, ListsStay
<1> QED
  BY <1>2, <1>3 DEF ListStep

LEMMA ListNextHolds == RosterInv /\ RosterInv' /\ ListInv /\ [RosterNext]_rosterVars => ListInv'
<1> SUFFICES ASSUME RosterInv, RosterInv', ListInv, [RosterNext]_rosterVars PROVE ListInv'
  OBVIOUS
<1> USE DEF RosterInv, RosterTypeInv
<1>1. CASE UNCHANGED rosterVars
  <2>1. UNCHANGED Today /\ UNCHANGED request
    BY <1>1, NothingElse DEF rosterVars, handlerVars
  <2> QED
    BY <2>1 DEF ListInv, GoodLists
<1>2. CASE EditStep \/ \E r \in Requests : ActStep(r)
  BY <1>2, EditedLists
<1>3. ASSUME NEW r \in Requests, CallStep(r) PROVE ListInv'
  <2>1. PICK local \in {Idle} \cup EditLocal : request' = [request EXCEPT ![r] = local]
    BY <1>3 DEF CallStep
  <2>2. local \notin ListLocal
    BY EditLocals
  <2>3. UNCHANGED Today
    BY <1>3 DEF CallStep
  <2> QED
    BY <2>1, <2>2, <2>3, ListsStay
<1>4. ASSUME NEW r \in Requests, ListStep(r) PROVE ListInv'
  BY <1>4, ListsGoOn
<1> QED
  BY <1>1, <1>2, <1>3, <1>4, StepsAre

\* However the answers to the queries of a list interleave with edits, it shows no time
\* that was not free when it was asked for unless an edit opened something since, and
\* every time that was, and has not gone by, unless one closed something
\* (getDynamicAvailability).
THEOREM ListsShowTheDay == RosterSpec => []ListShowsTheDay
<1>1. RosterInit => ListInv
  <2>1. RosterInit => \A r \in Requests : request[r] \notin ListLocal
    BY EditLocals DEF RosterInit, HandlersInit
  <2> QED
    BY <2>1 DEF ListInv, GoodLists
<1>2. RosterSpec => []ListInv
  BY <1>1, RosterInvHolds, ListNextHolds, PTL DEF RosterSpec
<1>3. RosterInv /\ ListInv => ListShowsTheDay
  <2>1. SUFFICES ASSUME RosterInv, ListInv, NEW r \in Requests, At(r, "answer")
                 PROVE  LET local == request[r]
                            shown == Shown(local.saw, local.duration, local.earliest)
                        IN  /\ ~local.opened => shown \subseteq local.before
                            /\ ~local.closed => {t \in local.before : t >= local.earliest} \subseteq shown
    BY DEF ListShowsTheDay
  <2>2. request[r] \in ListLocal /\ request[r].todo = <<"answer">>
    BY <2>1, CarriedAt DEF RosterInv, RosterTypeInv
  <2>3. GoodList(request[r], Today)
    BY <2>1, <2>2 DEF ListInv, GoodLists
  <2>4. Mix({}, Today, request[r].saw) = request[r].saw
    BY <2>1, <2>2, TodayTyped, AllBrought DEF RosterInv, RosterTypeInv, ListLocal
  <2>5. Accurate(request[r], Offers(request[r].saw, request[r].duration))
    BY <2>2, <2>3, <2>4 DEF GoodList
  <2>6. request[r].earliest \in Nat
    BY <2>2, RosterAssumption DEF ListLocal
  <2>7. Shown(request[r].saw, request[r].duration, request[r].earliest)
          = {t \in Offers(request[r].saw, request[r].duration) : t >= request[r].earliest}
    BY <2>6, LaterOffers
  <2> QED
    BY <2>5, <2>7 DEF Accurate
<1> QED
  BY <1>2, <1>3, RosterInvHolds, PTL

-----------------------------------------------------------------------------
(* Breaks stay within the limit.                                            *)

\* As long as handlers have not overlapped, there is one at a time.
OneAtATime ==
  overlapped \/ \A q, r \in Requests : request[q] # Idle /\ request[r] # Idle => q = r

WithinLimit ==
  /\ BreakTime({"dated", "both"}) <= BreakLimit
  /\ BreakTime({"weekly"}) <= BreakLimit

\* A break that is about to be inserted still fits, because nothing is inserted
\* between the weighing and the insertion.
Weighed ==
  \A r \in Requests : request[r] \in BreakLocal =>
    BreakTime(WeighedWith(request[r].input.kind)) + Length(request[r].input.time) <= BreakLimit

BreakInv == OneAtATime /\ (overlapped \/ lenient \/ (WithinLimit /\ Weighed))

\* What break i adds to the time of breaks of these kinds.
Share(breaks, kinds) ==
  [i \in Breaks |->
     IF breaks[i] # None /\ breaks[i].kind \in kinds THEN Length(breaks[i].time) ELSE 0]

LEMMA BreakTimeIs ==
  ASSUME NEW kinds
  PROVE  BreakTime(kinds) = SumFunctionOnSet(Share(break, kinds), Breaks)
BY DEF BreakTime, Share

LEMMA BreakTimeWillBe ==
  ASSUME NEW kinds
  PROVE  BreakTime(kinds)' = SumFunctionOnSet(Share(break', kinds), Breaks)
BY DEF BreakTime, Share

LEMMA SharesTyped ==
  ASSUME NEW breaks \in [Breaks -> BreakRecord \cup {None}], NEW kinds, NEW i \in Breaks
  PROVE  Share(breaks, kinds)[i] \in Nat
<1>1. ASSUME breaks[i] # None PROVE Length(breaks[i].time) \in Nat
  <2>1. breaks[i].time \in Windows
    BY <1>1 DEF BreakRecord
  <2> QED
    BY <2>1, RosterAssumption DEF Length, Windows
<1> QED
  BY <1>1 DEF Share

Adds(new, kinds) == IF new.kind \in kinds THEN Length(new.time) ELSE 0

\* A break more adds its length to the kinds it is of.
LEMMA InsertedBreak ==
  ASSUME NEW breaks \in [Breaks -> BreakRecord \cup {None}], NEW i \in Breaks, breaks[i] = None,
         NEW later \in [Breaks -> BreakRecord \cup {None}], later[i] \in BreakRecord,
         \A j \in Breaks : j # i => later[j] = breaks[j],
         NEW kinds
  PROVE  /\ SumFunctionOnSet(Share(breaks, kinds), Breaks) \in Int
         /\ SumFunctionOnSet(Share(later, kinds), Breaks)
              = SumFunctionOnSet(Share(breaks, kinds), Breaks)
                  + Adds(later[i], kinds)
<1> DEFINE f == Share(breaks, kinds)
           g == Share(later, kinds)
<1>2. \A j \in Breaks : f[j] \in Nat /\ g[j] \in Nat
  BY SharesTyped
<1>3. later[i] # None
  BY RosterAssumption
<1>4. f[i] = 0 /\ g[i] = Adds(later[i], kinds)
  BY <1>3 DEF Share, Adds
<1>5. \A j \in Breaks : j # i => f[j] = g[j]
  BY DEF Share
<1> HIDE DEF f, g
<1>6. IsFiniteSet(Breaks) /\ \A j \in Breaks : f[j] \in Int /\ g[j] \in Int
  BY <1>2, RosterAssumption
<1>7. SumFunctionOnSet(g, Breaks) = SumFunctionOnSet(f, Breaks) + (g[i] - f[i])
  BY <1>5, <1>6, SumChanges
<1>8. SumFunctionOnSet(f, Breaks) \in Int
  BY <1>6, SumType
<1>9. g[i] - f[i] = Adds(later[i], kinds)
  BY <1>2, <1>4
<1> QED
  BY <1>7, <1>8, <1>9 DEF f, g

\* Fewer breaks, or fewer kinds, take no more time.
LEMMA RemovedBreak ==
  ASSUME NEW breaks \in [Breaks -> BreakRecord \cup {None}], NEW i \in Breaks, NEW kinds
  PROVE  /\ SumFunctionOnSet(Share([breaks EXCEPT ![i] = None], kinds), Breaks)
              <= SumFunctionOnSet(Share(breaks, kinds), Breaks)
         /\ SumFunctionOnSet(Share(breaks, kinds), Breaks) \in Int
         /\ SumFunctionOnSet(Share([breaks EXCEPT ![i] = None], kinds), Breaks) \in Int
<1> DEFINE later == [breaks EXCEPT ![i] = None]
           f == Share(later, kinds)
           g == Share(breaks, kinds)
<1>1. later \in [Breaks -> BreakRecord \cup {None}]
  OBVIOUS
<1>2. \A j \in Breaks : f[j] \in Nat /\ g[j] \in Nat
  BY <1>1, SharesTyped
<1>3. \A j \in Breaks : f[j] = IF j = i THEN 0 ELSE g[j]
  BY DEF Share
<1> HIDE DEF f, g
<1>4. \A j \in Breaks : f[j] \in Int /\ g[j] \in Int /\ f[j] <= g[j]
  BY <1>2, <1>3
<1> QED
  BY <1>4, RosterAssumption, SumMonotone, SumType DEF f, g

LEMMA FewerKinds ==
  ASSUME Types
  PROVE  /\ BreakTime({"weekly"}) <= BreakTime(WeighedWith("weekly"))
         /\ BreakTime({"weekly"}) \in Int /\ BreakTime(WeighedWith("weekly")) \in Int
<1> DEFINE f == Share(break, {"weekly"})
           g == Share(break, WeighedWith("weekly"))
<1>1. break \in [Breaks -> BreakRecord \cup {None}]
  BY DEF Types
<1>2. \A j \in Breaks : f[j] \in Nat /\ g[j] \in Nat
  BY <1>1, SharesTyped
<1>3. \A j \in Breaks : f[j] = g[j] \/ f[j] = 0
  BY DEF Share, WeighedWith
<1> HIDE DEF f, g
<1>4. \A j \in Breaks : f[j] \in Int /\ g[j] \in Int /\ f[j] <= g[j]
  BY <1>2, <1>3
<1>5. SumFunctionOnSet(f, Breaks) <= SumFunctionOnSet(g, Breaks)
      /\ SumFunctionOnSet(f, Breaks) \in Int /\ SumFunctionOnSet(g, Breaks) \in Int
  BY <1>4, RosterAssumption, SumMonotone, SumType
<1> QED
  BY <1>5, BreakTimeIs DEF f, g

\* Marking a list leaves the others as they are.
LEMMA NotedBreaks ==
  ASSUME NEW requests \in [Requests -> {Idle} \cup Locals], NEW later, NEW q \in Requests
  PROVE  /\ Noted(requests, later)[q] = requests[q] \/ requests[q] \in ListLocal
         /\ Noted(requests, later)[q] \in BreakLocal => Noted(requests, later)[q] = requests[q]
<1>1. CASE requests[q] \in ListLocal
  <2>1. /\ Noted(requests, later)[q] \in {Idle} \cup Locals
        /\ Noted(requests, later)[q].todo = requests[q].todo
    BY NotedShaped
  <2>2. Head(requests[q].todo) # "insertBreak"
    <3>1. requests[q].todo \in {<<"gather", "answer">>, <<"answer">>}
      BY <1>1 DEF ListLocal
    <3> QED
      BY <3>1
  <2>3. \A local \in BreakLocal : Head(local.todo) = "insertBreak"
    <3>1. \A local \in BreakLocal : local.todo = <<"insertBreak">>
      BY DEF BreakLocal
    <3> QED
      BY <3>1
  <2> QED
    BY <1>1, <2>1, <2>2, <2>3
<1>2. CASE requests[q] \notin ListLocal
  BY <1>2, NotIdle DEF Noted, Locals
<1> QED
  BY <1>1, <1>2

\* What edits do to handlers.
LEMMA EditsAlone ==
  ASSUME RosterTypeInv, EditStep, ~overlapped'
  PROVE  ~overlapped /\ \A q \in Requests : request[q] = Idle /\ request'[q] = Idle
<1>1. ~overlapped /\ \A q \in Requests : request[q] = Idle
  BY DEF EditStep, Edited, Counted, RosterTypeInv, HandlersTypeOK
<1>2. \A q \in Requests : request'[q] = Idle
  BY <1>1, EditsAtOnce DEF EditStep, RosterShaped
<1> QED
  BY <1>1, <1>2

LEMMA ActsAlone ==
  ASSUME RosterTypeInv, NEW r \in Requests, ActStep(r)
  PROVE  /\ UNCHANGED overlapped
         /\ \A q \in Requests : request'[q] # Idle => request[q] # Idle
         /\ \A q \in Requests : request'[q] \in BreakLocal => q # r /\ request'[q] = request[q]
<1>1. UNCHANGED overlapped /\ request[r] # Idle
  BY DEF ActStep
<1>2. PICK local \in {Idle} \cup OverrideLocal : EditedBy(r, local)
  BY DEF ActStep
<1>3. local \in {Idle} \cup Locals /\ local \notin BreakLocal /\ local \notin ListLocal
  BY EditLocals DEF Locals
<1>4. \A q \in Requests : request'[q] # Idle => request[q] # Idle
  BY <1>1, <1>2, <1>3, EditsOn DEF Others
<1>5. PICK later : request' = Noted([request EXCEPT ![r] = local], later)
  BY <1>2 DEF EditedBy
<1> DEFINE requests == [request EXCEPT ![r] = local]
<1>6. requests \in [Requests -> {Idle} \cup Locals]
  BY <1>3 DEF RosterTypeInv, RosterShaped
<1>7. requests[r] = local /\ \A q \in Requests \ {r} : requests[q] = request[q]
  BY DEF RosterTypeInv, RosterShaped
<1>8. \A q \in Requests : request'[q] \in BreakLocal => request'[q] = requests[q]
  <2> HIDE DEF requests
  <2> QED
    BY <1>5, <1>6, NotedBreaks DEF requests
<1> HIDE DEF requests
<1> QED
  BY <1>1, <1>3, <1>4, <1>7, <1>8

\* The insertion of a break that fits.
LEMMA InsertionFits ==
  ASSUME RosterTypeInv, WithinLimit, Weighed, NEW r \in Requests, NEW i \in Breaks, InsertBreak(r, i)
  PROVE  WithinLimit'
<1> USE DEF RosterTypeInv
<1>1. At(r, "insertBreak") /\ break[i] = None /\ break' = [break EXCEPT ![i] = request[r].input]
  BY DEF InsertBreak
<1>2. request[r] \in BreakLocal
  BY <1>1, CarriedAt
<1>3. PICK new \in BreakRecord : new = request[r].input
  BY <1>2 DEF BreakLocal
<1>4. BreakTime(WeighedWith(new.kind)) + Length(new.time) <= BreakLimit
  BY <1>2, <1>3 DEF Weighed
<1>5. break \in [Breaks -> BreakRecord \cup {None}]
  BY DEF Types
<1>6. \A kinds : /\ BreakTime(kinds) \in Int
                 /\ BreakTime(kinds)' = BreakTime(kinds) + Adds(new, kinds)
  <2>1. ASSUME NEW kinds
        PROVE  /\ BreakTime(kinds) \in Int
               /\ BreakTime(kinds)' = BreakTime(kinds) + Adds(new, kinds)
    <3>1. /\ BreakTime(kinds) = SumFunctionOnSet(Share(break, kinds), Breaks)
          /\ BreakTime(kinds)' = SumFunctionOnSet(Share(break', kinds), Breaks)
      BY BreakTimeIs, BreakTimeWillBe
    <3>2. break' = [break EXCEPT ![i] = new]
      BY <1>1, <1>3
    <3>3. /\ SumFunctionOnSet(Share(break, kinds), Breaks) \in Int
          /\ SumFunctionOnSet(Share(break', kinds), Breaks)
               = SumFunctionOnSet(Share(break, kinds), Breaks)
                   + Adds(new, kinds)
      <4>1. break[i] = None /\ break' \in [Breaks -> BreakRecord \cup {None}] /\ break'[i] = new
            /\ \A j \in Breaks : j # i => break'[j] = break[j]
        BY <1>1, <1>5, <3>2
      <4> QED
        BY <1>5, <4>1, InsertedBreak
    <3> QED
      BY <3>1, <3>3
  <2> QED
    BY <2>1
<1>7. Length(new.time) \in Nat /\ BreakLimit \in Nat
  BY RosterAssumption DEF Length, Windows, BreakRecord
<1>8. CASE new.kind = "weekly"
  <2>1. BreakTime({"weekly"}) <= BreakTime(WeighedWith("weekly"))
    BY FewerKinds
  <2>2. BreakTime({"weekly"})' = BreakTime({"weekly"}) + Length(new.time)
    BY <1>6, <1>8 DEF Adds
  <2>3. BreakTime({"dated", "both"})' = BreakTime({"dated", "both"}) + 0
    BY <1>6, <1>8 DEF Adds
  <2>4. BreakTime(WeighedWith("weekly")) + Length(new.time) <= BreakLimit
    BY <1>4, <1>8
  <2>5. BreakTime({"weekly"}) \in Int /\ BreakTime({"dated", "both"}) \in Int
        /\ BreakTime(WeighedWith("weekly")) \in Int
    BY <1>6
  <2>6. BreakTime({"weekly"})' <= BreakLimit
    BY <1>7, <2>1, <2>2, <2>4, <2>5
  <2>7. BreakTime({"dated", "both"})' <= BreakLimit
    BY <2>3, <2>5 DEF WithinLimit
  <2> QED
    BY <2>6, <2>7 DEF WithinLimit
<1>9. CASE new.kind # "weekly"
  <2>1. new.kind \in {"dated", "both"} /\ WeighedWith(new.kind) = {"dated", "both"}
    BY <1>9 DEF WeighedWith, BreakRecord
  <2>2. BreakTime({"weekly"})' = BreakTime({"weekly"}) + 0
    BY <1>6, <1>9 DEF Adds
  <2>3. BreakTime({"dated", "both"})' = BreakTime({"dated", "both"}) + Length(new.time)
    BY <1>6, <2>1 DEF Adds
  <2>4. BreakTime({"dated", "both"}) + Length(new.time) <= BreakLimit
    BY <1>4, <2>1
  <2>5. BreakTime({"weekly"}) \in Int
    BY <1>6
  <2> QED
    BY <2>2, <2>3, <2>4, <2>5 DEF WithinLimit
<1> QED
  BY <1>8, <1>9

LEMMA BreakTimeStays ==
  ASSUME UNCHANGED break
  PROVE  \A kinds : BreakTime(kinds)' = BreakTime(kinds)
BY DEF BreakTime

LEMMA BreakNextHolds == RosterInv /\ BreakInv /\ [RosterNext]_rosterVars => BreakInv'
<1> SUFFICES ASSUME RosterInv, BreakInv, [RosterNext]_rosterVars PROVE BreakInv'
  OBVIOUS
<1> USE DEF RosterInv, RosterTypeInv
<1>1. CASE UNCHANGED rosterVars
  <2>1. UNCHANGED <<break, lenient, request, overlapped>>
    BY <1>1 DEF rosterVars, breakVars, handlerVars
  <2> QED
    BY <2>1, BreakTimeStays DEF BreakInv, OneAtATime, WithinLimit, Weighed
<1>2. CASE EditStep
  <2>1. SUFFICES ASSUME ~overlapped' PROVE BreakInv'
    BY DEF BreakInv, OneAtATime
  <2>2. ~overlapped /\ \A q \in Requests : request[q] = Idle /\ request'[q] = Idle
    BY <1>2, <2>1, EditsAlone
  <2>3. OneAtATime' /\ Weighed'
    BY <2>2, EditLocals DEF OneAtATime, Weighed
  <2>4. SUFFICES ASSUME ~lenient' PROVE WithinLimit'
    BY <2>3 DEF BreakInv
  <2>5. CASE UNCHANGED <<break, lenient>>
    BY <2>2, <2>4, <2>5, BreakTimeStays DEF BreakInv, WithinLimit
  <2>6. ASSUME NEW i \in Breaks, break' = [break EXCEPT ![i] = None], UNCHANGED lenient
        PROVE  WithinLimit'
    <3>1. break \in [Breaks -> BreakRecord \cup {None}]
      BY DEF Types
    <3>2. \A kinds : /\ BreakTime(kinds)' <= BreakTime(kinds)
                     /\ BreakTime(kinds) \in Int /\ BreakTime(kinds)' \in Int
      BY <2>6, <3>1, RemovedBreak, BreakTimeIs, BreakTimeWillBe
    <3>3. WithinLimit
      BY <2>2, <2>4, <2>6 DEF BreakInv
    <3>4. BreakLimit \in Nat
      BY RosterAssumption
    <3>5. \A kinds : BreakTime(kinds) <= BreakLimit => BreakTime(kinds)' <= BreakLimit
      BY <3>2, <3>4
    <3> QED
      BY <3>3, <3>5 DEF WithinLimit
  <2> QED
    BY <1>2, <2>4, <2>5, <2>6 DEF EditStep
<1>3. ASSUME NEW r \in Requests, ActStep(r) PROVE BreakInv'
  <2>1. /\ UNCHANGED overlapped
        /\ \A q \in Requests : request'[q] # Idle => request[q] # Idle
        /\ \A q \in Requests : request'[q] \in BreakLocal => q # r /\ request'[q] = request[q]
    BY <1>3, ActsAlone
  <2>2. OneAtATime'
    BY <2>1 DEF BreakInv, OneAtATime
  <2>3. SUFFICES ASSUME ~overlapped, ~lenient' PROVE WithinLimit' /\ Weighed'
    BY <2>1, <2>2 DEF BreakInv
  <2>4. \A q \in Requests : request'[q] \notin BreakLocal
    <3>1. \A q \in Requests : q # r => request[q] = Idle
      BY <1>3, <2>3 DEF ActStep, BreakInv, OneAtATime
    <3> QED
      BY <2>1, <3>1, EditLocals
  <2>5. Weighed'
    BY <2>4 DEF Weighed
  <2>6. CASE UNCHANGED <<break, lenient>>
    BY <2>3, <2>5, <2>6, BreakTimeStays DEF BreakInv, WithinLimit
  <2>7. ASSUME NEW i \in Breaks, InsertBreak(r, i) PROVE WithinLimit'
    <3>1. UNCHANGED lenient
      BY <2>7 DEF InsertBreak
    <3> QED
      BY <2>3, <2>7, <3>1, InsertionFits DEF BreakInv
  <2> QED
    BY <1>3, <2>5, <2>6, <2>7 DEF ActStep
<1>4. ASSUME NEW r \in Requests, CallStep(r) PROVE BreakInv'
  <2>1. PICK local \in {Idle} \cup EditLocal :
          /\ request' = [request EXCEPT ![r] = local]
          /\ local \in BreakLocal =>
               BreakTime(WeighedWith(local.input.kind)) + Length(local.input.time) <= BreakLimit
    BY <1>4 DEF CallStep
  <2>2. /\ UNCHANGED <<break, lenient>>
        /\ \/ Counted /\ request[r] = Idle
           \/ request[r] # Idle /\ UNCHANGED overlapped
    BY <1>4 DEF CallStep, Paced
  <2>3. request'[r] = local /\ \A q \in Requests \ {r} : request'[q] = request[q]
    BY <2>1 DEF RosterShaped
  <2>4. SUFFICES ASSUME ~overlapped' PROVE BreakInv'
    BY DEF BreakInv, OneAtATime
  <2>5. ~overlapped /\ \A q \in Requests : q # r => request[q] = Idle
    BY <2>2, <2>4 DEF Counted, BreakInv, OneAtATime, HandlersTypeOK
  <2>6. OneAtATime'
    BY <2>3, <2>5 DEF OneAtATime
  <2>7. ASSUME ~lenient PROVE WithinLimit' /\ Weighed'
    <3>1. WithinLimit'
      BY <2>2, <2>5, <2>7, BreakTimeStays DEF BreakInv, WithinLimit
    <3>2. Weighed'
      BY <2>1, <2>2, <2>3, <2>5, BreakTimeStays, EditLocals DEF Weighed
    <3> QED
      BY <3>1, <3>2
  <2> QED
    BY <2>2, <2>6, <2>7 DEF BreakInv
<1>5. ASSUME NEW r \in Requests, ListStep(r) PROVE BreakInv'
  <2>1. PICK local : request' = [request EXCEPT ![r] = local] /\ local \notin BreakLocal
    <3>1. ASSUME NEW d \in Durations, NEW t \in Earliest, DayList(r, d, t)
          PROVE  \E local : request' = [request EXCEPT ![r] = local] /\ local \notin BreakLocal
      <4> DEFINE local == [todo |-> <<"gather", "answer">>, unread |-> Queries, saw |-> Nothing,
                           duration |-> d, earliest |-> t, before |-> Free(d),
                           opened |-> FALSE, closed |-> FALSE]
      <4>1. request' = [request EXCEPT ![r] = local]
        BY <3>1 DEF DayList, Accept
      <4>2. "input" \notin DOMAIN local /\ \A b \in BreakLocal : "input" \in DOMAIN b
        BY DEF BreakLocal
      <4> QED
        BY <4>1, <4>2
    <3>2. ASSUME NEW q \in Queries, Gather(r, q)
          PROVE  \E local : request' = [request EXCEPT ![r] = local] /\ local \notin BreakLocal
      <4> DEFINE old == request[r]
                 saw == [old.saw EXCEPT ![q] = Today[q]]
                 local == [old EXCEPT !.unread = old.unread \ {q}, !.saw = saw]
                 next == IF local.unread = {} THEN Rest(local) ELSE local
      <4>1. At(r, "gather") /\ request' = [request EXCEPT ![r] = next]
        BY <3>2 DEF Gather, Continues, Brought
      <4>2. local \in ListLocal
        BY <4>1, CarriedAt, SawTyped, TodayTyped DEF ListLocal
      <4>3. next \in {Idle} \cup ListLocal
        BY <4>2, RestList
      <4> HIDE DEF next
      <4> QED
        BY <4>1, <4>3, EditLocals
    <3> QED
      BY <1>5, <3>1, <3>2 DEF ListStep
  <2>2. /\ UNCHANGED <<break, lenient>>
        /\ \/ Counted /\ request[r] = Idle
           \/ request[r] # Idle /\ UNCHANGED overlapped
    BY <1>5 DEF ListStep, Paced
  <2>3. request'[r] = local /\ \A q \in Requests \ {r} : request'[q] = request[q]
    BY <2>1 DEF RosterShaped
  <2>4. SUFFICES ASSUME ~overlapped' PROVE BreakInv'
    BY DEF BreakInv, OneAtATime
  <2>5. ~overlapped /\ \A q \in Requests : q # r => request[q] = Idle
    BY <2>2, <2>4 DEF Counted, BreakInv, OneAtATime, HandlersTypeOK
  <2>6. OneAtATime' /\ Weighed'
    BY <2>1, <2>3, <2>5, EditLocals DEF OneAtATime, Weighed
  <2>7. ~lenient => WithinLimit'
    BY <2>2, <2>5, BreakTimeStays DEF BreakInv, WithinLimit
  <2> QED
    BY <2>2, <2>6, <2>7 DEF BreakInv
<1> QED
  BY <1>1, <1>2, <1>3, <1>4, <1>5, StepsAre

\* Stylists whose requests do not overlap and who are not helped by administrators keep
\* the breaks of a date, and those of a day of the week, within the limit (addBreak).
THEOREM BreaksWithinLimit == RosterSpec => []BreaksLimited
<1>1. RosterInit => BreakInv
  <2>1. SUFFICES ASSUME RosterInit PROVE BreakInv
    OBVIOUS
  <2>2. \A r \in Requests : request[r] = Idle
    BY <2>1 DEF RosterInit, HandlersInit
  <2>3. break = [i \in Breaks |-> None]
    BY <2>1 DEF RosterInit
  <2>4. ASSUME NEW kinds PROVE BreakTime(kinds) <= BreakLimit
    <3>1. \A i \in Breaks : Share(break, kinds)[i] \in 0 .. 0
      BY <2>3 DEF Share
    <3>2. IsFiniteSet(Breaks) /\ 0 \in Nat /\ BreakLimit \in Nat
      BY RosterAssumption
    <3>3. /\ BreakTime(kinds) \in Nat
          /\ BreakTime(kinds) <= Cardinality(Breaks) * 0
      BY <3>1, <3>2, SumBound, BreakTimeIs
    <3>4. Cardinality(Breaks) * 0 = 0
      BY <3>2, FS_CardinalityType
    <3> QED
      BY <3>2, <3>3, <3>4
  <2> QED
    BY <2>2, <2>4, EditLocals DEF BreakInv, OneAtATime, WithinLimit, Weighed
<1>2. RosterSpec => []BreakInv
  BY <1>1, RosterInvHolds, BreakNextHolds, PTL DEF RosterSpec
<1>3. BreakInv => BreaksLimited
  BY DEF BreakInv, WithinLimit, BreaksLimited
<1> QED
  BY <1>2, <1>3, PTL
=============================================================================
