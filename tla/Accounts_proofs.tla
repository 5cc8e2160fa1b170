---------------------------- MODULE Accounts_proofs ----------------------------
(***************************************************************************)
(* Proofs about Accounts: its types, that codes arrive, that an active     *)
(* stylist has a password and, while handlers do not overlap, that invites *)
(* are handled in turn.                                                    *)
(***************************************************************************)
EXTENDS Accounts, SequenceTheorems, FiniteSetTheorems, TLAPS

-----------------------------------------------------------------------------
(* What handlers carry: the calls they may have left, and whose documents   *)
(* these calls are about.                                                   *)

InsertTodos == {<<"insert">>, <<"insert", "draft">>, <<"insert", "draft", "invite">>}
CodeTodos == {<<"code", "send">>, <<"send">>, <<"drop", "verify">>, <<"drop">>, <<"verify">>}
TakeTodos == {<<"take", "accepted">>, <<"accepted">>}

\* Approvals that have a password to rely on.
ReadyTodos == {<<"activate", "approve", "profile">>, <<"approve", "profile">>, <<"profile">>}
ApprovalTodos == {<<"password", "activate", "approve", "profile">>} \cup ReadyTodos
RejectionTodos ==
  {<<"cancel", "deactivate", "reject", "block">>, <<"deactivate", "reject", "block">>,
   <<"reject", "block">>, <<"block">>}
InvitationTodos ==
  {<<"pend", "cancel", "invite">>, <<"cancel", "invite">>, <<"invite">>,
   <<"draft", "invite">>, <<"draft">>}
StaffTodos == ApprovalTodos \cup RejectionTodos \cup InvitationTodos \cup {<<"update">>}

\* Documents that are there.
Stored == {doc \in UserRecord : doc.status # "NONE"}

InsertLocal ==
  [todo : InsertTodos, user : {None}, doc : Stored, key : Keys \cup {None}, invite : {None}]
SignupLocal ==
  [todo : {<<"insert", "code", "send">>}, user : {None}, doc : Stored, key : Keys,
   invite : {None}]
CodeLocal ==
  [todo : CodeTodos, user : Users \cup {None}, doc : UserRecord, key : Keys, invite : {None}]
StaffLocal ==
  [todo : StaffTodos, user : Users, doc : UserRecord, key : Keys \cup {None}, invite : {None}]
TakeLocal ==
  [todo : TakeTodos, user : Users, doc : UserRecord, key : Keys \cup {None}, invite : Invites]
Locals == InsertLocal \cup SignupLocal \cup CodeLocal \cup StaffLocal \cup TakeLocal

Shaped == request \in [Requests -> {Idle} \cup Locals]

Types ==
  /\ user \in [Users -> UserRecord]
  /\ stylist \in [Users -> {"NONE", "INACTIVE", "ACTIVE"}]
  /\ invite \in [Invites -> InviteRecord]
  /\ otp \in [Keys -> {None, "known", "lost"} \cup Requests]

TypeInv == Types /\ HandlersTypeOK /\ Shaped

\* There is nothing of a user who is not there.
Absent == \A u \in Users : ~Exists(u) => user[u] = NoUser

\* The user of an invite is there; an open one has a user.
InvitesNamed ==
  \A i \in Invites : /\ invite[i].user \in Users => Exists(invite[i].user)
                     /\ invite[i].status = "PENDING" => invite[i].user \in Users

\* So is the user a handler writes to; he has a password when he is to be activated.
Whose(local) ==
  local.todo \in StaffTodos \cup TakeTodos => local.user \in Users /\ Exists(local.user)
Relied(local) == local.todo \in ReadyTodos => user[local.user].password
Backed == \A r \in Requests : Whose(request[r]) /\ Relied(request[r])

\* A stored code is that of a handler about to send it, under its key.
Arriving(k) ==
  \/ otp[k] \in {None, "known"}
  \/ otp[k] \in Requests /\ At(otp[k], "send") /\ request[otp[k]].key = k
  \/ otp[k] = "lost" /\ (faults > 0 \/ k \in {<<"signup", e>> : e \in Emails})
Arrivals == \A k \in Keys : Arriving(k)

AccountsInv ==
  TypeInv /\ Absent /\ InvitesNamed /\ Backed /\ ActiveStylistHasPassword /\ Arrivals

-----------------------------------------------------------------------------
(* Sequences of calls.                                                      *)

LEMMA IdleHasNothing ==
  /\ Idle.todo = <<>>
  /\ \A local \in Locals : local # Idle
<1>1. "user" \notin DOMAIN Idle /\ Idle.todo = <<>>
  BY DEF Idle
<1>2. \A local \in Locals : "user" \in DOMAIN local
  BY DEF Locals, InsertLocal, SignupLocal, CodeLocal, StaffLocal, TakeLocal
<1> QED
  BY <1>1, <1>2

LEMMA Heads ==
  /\ \A todo \in InsertTodos \cup {<<"insert", "code", "send">>} : Head(todo) = "insert"
  /\ \A todo \in TakeTodos : Head(todo) \in {"take", "accepted"}
  /\ \A todo \in ApprovalTodos : Head(todo) \in {"password", "activate", "approve", "profile"}
  /\ \A todo \in RejectionTodos : Head(todo) \in {"cancel", "deactivate", "reject", "block"}
  /\ \A todo \in InvitationTodos : Head(todo) \in {"pend", "cancel", "invite", "draft"}
  /\ \A todo \in {<<"update">>} : Head(todo) = "update"
  /\ \A todo \in CodeTodos : Head(todo) \in {"code", "send", "drop", "verify"}
BY DEF InsertTodos, TakeTodos, ApprovalTodos, ReadyTodos, RejectionTodos, InvitationTodos,
       CodeTodos

\* The call a handler is at tells which calls it has left.
LEMMA CodeHeads ==
  ASSUME NEW todo \in CodeTodos
  PROVE  /\ Head(todo) = "code" => todo = <<"code", "send">>
         /\ Head(todo) = "send" => todo = <<"send">>
BY DEF CodeTodos

LEMMA StaffHeads ==
  ASSUME NEW todo \in StaffTodos \cup TakeTodos
  PROVE  /\ Head(todo) = "take" => todo = <<"take", "accepted">>
         /\ Head(todo) = "accepted" => todo = <<"accepted">>
         /\ Head(todo) = "password" => todo = <<"password", "activate", "approve", "profile">>
         /\ Head(todo) = "profile" => todo = <<"profile">>
         /\ Head(todo) = "update" => todo = <<"update">>
<1>1. CASE todo \in ApprovalTodos
  BY <1>1 DEF ApprovalTodos, ReadyTodos
<1>2. CASE todo \in RejectionTodos
  BY <1>2 DEF RejectionTodos
<1>3. CASE todo \in InvitationTodos
  BY <1>3 DEF InvitationTodos
<1>4. CASE todo \in TakeTodos \cup {<<"update">>}
  BY <1>4 DEF TakeTodos
<1> QED
  BY <1>1, <1>2, <1>3, <1>4 DEF StaffTodos

\* What is left after a call.
LEMMA TailCodes ==
  ASSUME NEW todo \in CodeTodos
  PROVE  Len(todo) = 1 \/ (Len(todo) # 1 /\ Tail(todo) \in CodeTodos)
<1>1. /\ Len(<<"code", "send">>) # 1 /\ Tail(<<"code", "send">>) = <<"send">>
      /\ Len(<<"send">>) = 1
      /\ Len(<<"drop", "verify">>) # 1 /\ Tail(<<"drop", "verify">>) = <<"verify">>
      /\ Len(<<"drop">>) = 1
      /\ Len(<<"verify">>) = 1
  OBVIOUS
<1> QED
  BY <1>1, Zenon DEF CodeTodos

LEMMA TailInserts ==
  /\ \A todo \in InsertTodos :
       Len(todo) = 1 \/ (Len(todo) # 1 /\ Tail(todo) \in InvitationTodos)
  /\ Len(<<"insert", "code", "send">>) # 1 /\ Tail(<<"insert", "code", "send">>) \in CodeTodos
BY DEF InsertTodos, CodeTodos, InvitationTodos

LEMMA TailStaff ==
  ASSUME NEW todo \in StaffTodos
  PROVE  Len(todo) = 1 \/ (Len(todo) # 1 /\ Tail(todo) \in StaffTodos)
<1>1. CASE todo \in ApprovalTodos
  <2>1. /\ Len(<<"password", "activate", "approve", "profile">>) # 1
        /\ Tail(<<"password", "activate", "approve", "profile">>) = <<"activate", "approve", "profile">>
        /\ Len(<<"activate", "approve", "profile">>) # 1
        /\ Tail(<<"activate", "approve", "profile">>) = <<"approve", "profile">>
        /\ Len(<<"approve", "profile">>) # 1 /\ Tail(<<"approve", "profile">>) = <<"profile">>
        /\ Len(<<"profile">>) = 1
    OBVIOUS
  <2> QED
    BY <1>1, <2>1, Zenon DEF ApprovalTodos, ReadyTodos, StaffTodos
<1>2. CASE todo \in RejectionTodos
  <2>1. /\ Len(<<"cancel", "deactivate", "reject", "block">>) # 1
        /\ Tail(<<"cancel", "deactivate", "reject", "block">>) = <<"deactivate", "reject", "block">>
        /\ Len(<<"deactivate", "reject", "block">>) # 1
        /\ Tail(<<"deactivate", "reject", "block">>) = <<"reject", "block">>
        /\ Len(<<"reject", "block">>) # 1 /\ Tail(<<"reject", "block">>) = <<"block">>
        /\ Len(<<"block">>) = 1
    OBVIOUS
  <2> QED
    BY <1>2, <2>1, Zenon DEF RejectionTodos, StaffTodos
<1>3. CASE todo \in InvitationTodos
  <2>1. /\ Len(<<"pend", "cancel", "invite">>) # 1
        /\ Tail(<<"pend", "cancel", "invite">>) = <<"cancel", "invite">>
        /\ Len(<<"cancel", "invite">>) # 1 /\ Tail(<<"cancel", "invite">>) = <<"invite">>
        /\ Len(<<"invite">>) = 1
        /\ Len(<<"draft", "invite">>) # 1 /\ Tail(<<"draft", "invite">>) = <<"invite">>
        /\ Len(<<"draft">>) = 1
    OBVIOUS
  <2> QED
    BY <1>3, <2>1, Zenon DEF InvitationTodos, StaffTodos
<1>4. CASE todo = <<"update">>
  BY <1>4
<1> QED
  BY <1>1, <1>2, <1>3, <1>4 DEF StaffTodos

LEMMA TailTake ==
  ASSUME NEW todo \in TakeTodos
  PROVE  Len(todo) = 1 \/ (Len(todo) # 1 /\ Tail(todo) \in TakeTodos)
<1>1. /\ Len(<<"take", "accepted">>) # 1 /\ Tail(<<"take", "accepted">>) = <<"accepted">>
      /\ Len(<<"accepted">>) = 1
  OBVIOUS
<1> QED
  BY <1>1, Zenon DEF TakeTodos

LEMMA ReadyHeads ==
  ASSUME NEW todo \in ReadyTodos
  PROVE  todo # <<>> /\ Head(todo) \in {"activate", "approve", "profile"}
BY DEF ReadyTodos

\* Only a password that was written or relied on leads to an activation.
LEMMA BecomesReady ==
  ASSUME NEW todo \in StaffTodos, Tail(todo) \in ReadyTodos
  PROVE  todo \in ReadyTodos \/ Head(todo) = "password"
<1>1. CASE todo \in ApprovalTodos
  BY <1>1 DEF ApprovalTodos
<1>2. CASE todo \in RejectionTodos
  <2>1. Tail(todo) = <<>> \/ Head(Tail(todo)) \in {"deactivate", "reject", "block"}
    BY <1>2 DEF RejectionTodos
  <2> QED
    BY <2>1, ReadyHeads
<1>3. CASE todo \in InvitationTodos
  <2>1. Tail(todo) = <<>> \/ Head(Tail(todo)) \in {"cancel", "invite"}
    BY <1>3 DEF InvitationTodos
  <2> QED
    BY <2>1, ReadyHeads
<1>4. CASE todo = <<"update">>
  BY <1>4 DEF ReadyTodos
<1> QED
  BY <1>1, <1>2, <1>3, <1>4 DEF StaffTodos

LEMMA TodosApart ==
  /\ (InsertTodos \cup {<<"insert", "code", "send">>} \cup CodeTodos)
       \cap (StaffTodos \cup TakeTodos) = {}
  /\ TakeTodos \cap ReadyTodos = {}
  /\ ReadyTodos \subseteq StaffTodos
  /\ <<>> \notin StaffTodos \cup TakeTodos
<1>1. \A todo \in StaffTodos \cup TakeTodos :
        Head(todo) \notin {"insert", "code", "send", "drop", "verify"} /\ Len(todo) > 0
  <2>1. \A todo \in ApprovalTodos \cup RejectionTodos : Len(todo) > 0
    BY DEF ApprovalTodos, ReadyTodos, RejectionTodos
  <2>2. \A todo \in InvitationTodos \cup TakeTodos \cup {<<"update">>} : Len(todo) > 0
    BY DEF InvitationTodos, TakeTodos
  <2> QED
    BY <2>1, <2>2, Heads DEF StaffTodos
<1>2. \A todo \in InsertTodos \cup {<<"insert", "code", "send">>} \cup CodeTodos :
        Head(todo) \in {"insert", "code", "send", "drop", "verify"}
  BY Heads
<1>3. TakeTodos \cap ReadyTodos = {}
  BY Heads DEF ApprovalTodos, TakeTodos, ReadyTodos
<1>4. Len(<<>>) = 0
  OBVIOUS
<1> QED
  BY <1>1, <1>2, <1>3, <1>4 DEF StaffTodos, ApprovalTodos

-----------------------------------------------------------------------------
(* Where a handler is, and what it carries then.                            *)

LEMMA Carrying ==
  ASSUME Shaped, NEW r \in Requests, request[r] # Idle
  PROVE  /\ request[r] \in Locals
         /\ Head(request[r].todo) = "insert" => request[r] \in InsertLocal \cup SignupLocal
         /\ Head(request[r].todo) \in {"code", "send", "drop", "verify"} => request[r] \in CodeLocal
         /\ Head(request[r].todo) \in {"take", "accepted"} => request[r] \in TakeLocal
         /\ Head(request[r].todo) \in UserSteps \cup {"draft", "cancel", "invite", "profile", "update"}
              => request[r] \in StaffLocal
<1>1. request[r] \in Locals
  BY DEF Shaped
<1>2. CASE request[r] \in InsertLocal \cup SignupLocal
  <2>1. request[r].todo \in InsertTodos \cup {<<"insert", "code", "send">>}
    BY <1>2 DEF InsertLocal, SignupLocal
  <2>2. Head(request[r].todo) = "insert"
    BY <2>1, Heads
  <2> QED
    BY <1>1, <1>2, <2>2 DEF UserSteps
<1>3. CASE request[r] \in CodeLocal
  <2>1. Head(request[r].todo) \in {"code", "send", "drop", "verify"}
    BY <1>3, Heads DEF CodeLocal
  <2> QED
    BY <1>1, <1>3, <2>1 DEF UserSteps
<1>4. CASE request[r] \in TakeLocal
  <2>1. Head(request[r].todo) \in {"take", "accepted"}
    BY <1>4, Heads DEF TakeLocal
  <2> QED
    BY <1>1, <1>4, <2>1 DEF UserSteps
<1>5. CASE request[r] \in StaffLocal
  <2>1. Head(request[r].todo) \notin {"insert", "code", "send", "drop", "verify", "take", "accepted"}
    BY <1>5, Heads DEF StaffLocal, StaffTodos
  <2> QED
    BY <1>1, <1>5, <2>1
<1> QED
  BY <1>1, <1>2, <1>3, <1>4, <1>5 DEF Locals

\* A record with other calls left, or another user.
LEMMA Changed ==
  /\ \A local \in CodeLocal, todo \in CodeTodos :
       LET next == [local EXCEPT !.todo = todo] IN
       next \in CodeLocal /\ next.todo = todo /\ next.key = local.key
  /\ \A local \in StaffLocal, todo \in StaffTodos :
       LET next == [local EXCEPT !.todo = todo] IN
       next \in StaffLocal /\ next.todo = todo /\ next.user = local.user
  /\ \A local \in TakeLocal, todo \in TakeTodos :
       LET next == [local EXCEPT !.todo = todo] IN
       next \in TakeLocal /\ next.todo = todo /\ next.user = local.user
<1>1. ASSUME NEW local \in CodeLocal, NEW todo \in CodeTodos
      PROVE  LET next == [local EXCEPT !.todo = todo] IN
             next \in CodeLocal /\ next.todo = todo /\ next.key = local.key
  BY DEF CodeLocal
<1>2. ASSUME NEW local \in StaffLocal, NEW todo \in StaffTodos
      PROVE  LET next == [local EXCEPT !.todo = todo] IN
             next \in StaffLocal /\ next.todo = todo /\ next.user = local.user
  BY DEF StaffLocal
<1>3. ASSUME NEW local \in TakeLocal, NEW todo \in TakeTodos
      PROVE  LET next == [local EXCEPT !.todo = todo] IN
             next \in TakeLocal /\ next.todo = todo /\ next.user = local.user
  BY DEF TakeLocal
<1> QED
  BY <1>1, <1>2, <1>3

LEMMA RestCode ==
  ASSUME NEW local \in CodeLocal
  PROVE  /\ Rest(local) \in {Idle} \cup CodeLocal
         /\ Len(local.todo) # 1 =>
              /\ Rest(local).todo = Tail(local.todo) /\ Rest(local).key = local.key
              /\ Rest(local) \in CodeLocal
<1>1. local.todo \in CodeTodos
  BY DEF CodeLocal
<1>2. Len(local.todo) = 1 \/ (Len(local.todo) # 1 /\ Tail(local.todo) \in CodeTodos)
  BY <1>1, TailCodes
<1> QED
  BY <1>2, Changed DEF Rest

LEMMA RestStaff ==
  ASSUME NEW local \in StaffLocal
  PROVE  \/ Rest(local) = Idle
         \/ /\ Rest(local) \in StaffLocal
            /\ Rest(local).todo = Tail(local.todo) /\ Rest(local).user = local.user
<1>1. local.todo \in StaffTodos
  BY DEF StaffLocal
<1>2. Len(local.todo) = 1 \/ (Len(local.todo) # 1 /\ Tail(local.todo) \in StaffTodos)
  BY <1>1, TailStaff
<1> QED
  BY <1>2, Changed DEF Rest

LEMMA RestTake ==
  ASSUME NEW local \in TakeLocal
  PROVE  \/ Rest(local) = Idle
         \/ (Rest(local) \in TakeLocal /\ Rest(local).user = local.user)
<1>1. local.todo \in TakeTodos
  BY DEF TakeLocal
<1>2. Len(local.todo) = 1 \/ (Len(local.todo) # 1 /\ Tail(local.todo) \in TakeTodos)
  BY <1>1, TailTake
<1> QED
  BY <1>2, Changed DEF Rest

\* The user that was inserted is the one the handler goes on with.
LEMMA RestInsert ==
  ASSUME NEW local \in InsertLocal \cup SignupLocal, NEW u \in Users
  PROVE  LET next == Rest([local EXCEPT !.user = u]) IN
         \/ next = Idle \/ next \in CodeLocal
         \/ (next \in StaffLocal /\ next.user = u /\ next.todo \in InvitationTodos)
<1> DEFINE placed == [local EXCEPT !.user = u]
<1>1. placed.todo = local.todo
  BY DEF InsertLocal, SignupLocal
<1>2. CASE local \in InsertLocal
  <2>1. \A todo \in InvitationTodos :
          LET next == [placed EXCEPT !.todo = todo] IN
          next \in StaffLocal /\ next.user = u /\ next.todo = todo
    <3>1. InvitationTodos \subseteq StaffTodos
      BY DEF StaffTodos
    <3>2. Stored \subseteq UserRecord
      BY DEF Stored
    <3> QED
      BY <1>2, <3>1, <3>2 DEF InsertLocal, StaffLocal
  <2>2. local.todo \in InsertTodos
    BY <1>2 DEF InsertLocal
  <2>3. Len(placed.todo) = 1 \/ (Len(placed.todo) # 1 /\ Tail(placed.todo) \in InvitationTodos)
    BY <1>1, <2>2, TailInserts
  <2> QED
    BY <2>1, <2>3 DEF Rest
<1>3. CASE local \in SignupLocal
  <2>1. \A todo \in CodeTodos : [placed EXCEPT !.todo = todo] \in CodeLocal
    <3>1. Stored \subseteq UserRecord
      BY DEF Stored
    <3> QED
      BY <1>3, <3>1 DEF SignupLocal, CodeLocal
  <2>2. local.todo = <<"insert", "code", "send">>
    BY <1>3 DEF SignupLocal
  <2>3. Len(placed.todo) # 1 /\ Tail(placed.todo) \in CodeTodos
    BY <1>1, <2>2, TailInserts
  <2> QED
    BY <2>1, <2>3 DEF Rest
<1> QED
  BY <1>2, <1>3

-----------------------------------------------------------------------------
(* What is left to show of a step.                                          *)

\* Users stay, and keep their passwords.
Grows ==
  \A u \in Users :
    Exists(u) => user'[u].status # "NONE" /\ (user[u].password => user'[u].password)

\* The record a handler is left with is backed by the users of the next state.
BackedNext(local) ==
  /\ local.todo \in StaffTodos \cup TakeTodos =>
       local.user \in Users /\ user'[local.user].status # "NONE"
  /\ local.todo \in ReadyTodos => user'[local.user].password

\* The documents after the step.
DocsNext ==
  /\ Types' /\ HandlersTypeOK' /\ (faults > 0 => faults' > 0)
  /\ Grows /\ Absent' /\ InvitesNamed' /\ ActiveStylistHasPassword'

\* Whoever has a password is there.
LEMMA PasswordsOfUsers ==
  ASSUME Absent, NEW u \in Users, user[u].password
  PROVE  Exists(u)
BY DEF Absent, NoUser

LEMMA OthersBacked ==
  ASSUME AccountsInv, Grows, NEW r \in Requests
  PROVE  BackedNext(request[r])
<1>1. Whose(request[r]) /\ Relied(request[r])
  BY DEF AccountsInv, Backed
<1>2. request[r].todo \in ReadyTodos => request[r].user \in Users /\ Exists(request[r].user)
  BY <1>1, TodosApart DEF Whose
<1> QED
  BY <1>1, <1>2 DEF Whose, Relied, BackedNext, Grows

LEMMA IdleBacked == BackedNext(Idle)
BY IdleHasNothing, TodosApart DEF BackedNext

LEMMA OneStep ==
  ASSUME AccountsInv, DocsNext, Arrivals', NEW r \in Requests,
         NEW local \in {Idle} \cup Locals, BackedNext(local),
         request' = [request EXCEPT ![r] = local]
  PROVE  AccountsInv'
<1>1. Shaped'
  BY DEF AccountsInv, TypeInv, Shaped
<1>2. ASSUME NEW q \in Requests PROVE BackedNext(request'[q])
  <2>1. CASE q = r
    BY <2>1 DEF AccountsInv, TypeInv, Shaped
  <2>2. CASE q # r
    <3>1. request'[q] = request[q]
      BY <2>2 DEF AccountsInv, TypeInv, Shaped
    <3> QED
      BY <3>1, OthersBacked DEF DocsNext
  <2> QED
    BY <2>1, <2>2
<1>3. Backed'
  BY <1>2 DEF Backed, BackedNext, Whose, Relied, Exists
<1> QED
  BY <1>1, <1>3 DEF AccountsInv, TypeInv, DocsNext

\* Steps of no handler.
LEMMA NoStep ==
  ASSUME AccountsInv, DocsNext, Arrivals', UNCHANGED request
  PROVE  AccountsInv'
<1>1. \A q \in Requests : BackedNext(request'[q])
  BY OthersBacked DEF DocsNext
<1>2. Backed'
  BY <1>1 DEF Backed, BackedNext, Whose, Relied, Exists
<1> QED
  BY <1>2 DEF AccountsInv, TypeInv, Shaped, DocsNext

\* A step that leaves the codes alone, of a handler that is not about to send one.
LEMMA CodesStay ==
  ASSUME AccountsInv, UNCHANGED otp, faults > 0 => faults' > 0, NEW r \in Requests,
         \A q \in Requests \ {r} : request'[q] = request[q],
         ~At(r, "send") \/ request'[r] = request[r]
  PROVE  Arrivals'
<1>1. ASSUME NEW k \in Keys PROVE Arriving(k)'
  <2>1. Arriving(k)
    BY DEF AccountsInv, Arrivals
  <2>2. CASE otp[k] \in {None, "known"}
    BY <2>2 DEF Arriving
  <2>3. CASE otp[k] \in Requests /\ At(otp[k], "send") /\ request[otp[k]].key = k
    <3>1. request'[otp[k]] = request[otp[k]]
      BY <2>3
    <3> QED
      BY <2>3, <3>1 DEF Arriving, At
  <2>4. CASE otp[k] = "lost" /\ (faults > 0 \/ k \in {<<"signup", e>> : e \in Emails})
    BY <2>4 DEF Arriving
  <2> QED
    BY <2>1, <2>2, <2>3, <2>4 DEF Arriving
<1> QED
  BY <1>1 DEF Arrivals

\* Users that stay carry the invites that stay and the stylists that stay.
LEMMA Standing ==
  ASSUME AccountsInv, Grows
  PROVE  /\ UNCHANGED invite => InvitesNamed'
         /\ UNCHANGED stylist => ActiveStylistHasPassword'
<1>1. ASSUME UNCHANGED invite PROVE InvitesNamed'
  BY <1>1 DEF AccountsInv, InvitesNamed, Grows, Exists
<1>2. ASSUME UNCHANGED stylist, NEW u \in Users, stylist'[u] = "ACTIVE" PROVE user'[u].password
  <2>1. user[u].password
    BY <1>2 DEF AccountsInv, ActiveStylistHasPassword
  <2> QED
    BY <2>1, PasswordsOfUsers DEF AccountsInv, Grows
<1> QED
  BY <1>1, <1>2 DEF ActiveStylistHasPassword

LEMMA UsersStay ==
  ASSUME AccountsInv, UNCHANGED user
  PROVE  Grows /\ Absent'
BY DEF AccountsInv, Absent, Exists, Grows

LEMMA DocsStay ==
  ASSUME AccountsInv, UNCHANGED docVars, HandlersTypeOK', faults > 0 => faults' > 0,
         otp' \in [Keys -> {None, "known", "lost"} \cup Requests]
  PROVE  DocsNext
<1>1. UNCHANGED <<user, stylist, invite>>
  BY DEF docVars
<1> QED
  BY <1>1, UsersStay, Standing DEF AccountsInv, TypeInv, Types, DocsNext

\* A handler begins.
LEMMA Begins ==
  ASSUME AccountsInv, NEW r \in Requests, NEW local \in Locals, Accept(r, local),
         UNCHANGED <<docVars, otp>>, Whose(local), Relied(local)
  PROVE  AccountsInv'
<1>1. /\ HandlersTypeOK' /\ faults' = faults
      /\ request[r] = Idle /\ request' = [request EXCEPT ![r] = local]
  BY DEF AccountsInv, TypeInv, HandlersTypeOK, Accept, Counted
<1>2. DocsNext
  BY <1>1, DocsStay DEF AccountsInv, TypeInv, Types
<1>3. BackedNext(local)
  BY DEF Whose, Relied, Exists, BackedNext, docVars
<1>4. Arrivals'
  BY <1>1, CodesStay DEF AccountsInv, TypeInv, Shaped, At
<1> QED
  BY <1>1, <1>2, <1>3, <1>4, OneStep

\* A handler makes a call and goes on.
LEMMA GoesOn ==
  ASSUME AccountsInv, NEW r \in Requests, NEW local \in {Idle} \cup Locals,
         Continues(r, local), BackedNext(local), Types', Grows, Absent', InvitesNamed',
         ActiveStylistHasPassword', UNCHANGED otp, ~At(r, "send")
  PROVE  AccountsInv'
<1>1. /\ HandlersTypeOK' /\ faults' = faults /\ request' = [request EXCEPT ![r] = local]
  BY DEF AccountsInv, TypeInv, HandlersTypeOK, Continues
<1>2. DocsNext
  BY <1>1 DEF DocsNext
<1>3. Arrivals'
  BY <1>1, CodesStay DEF AccountsInv, TypeInv, Shaped
<1> QED
  BY <1>1, <1>2, <1>3, OneStep

\* One user is written.
LEMMA OneUser ==
  ASSUME AccountsInv, NEW u \in Users, NEW doc \in Stored,
         user[u].password => doc.password, user' = [user EXCEPT ![u] = doc]
  PROVE  /\ user' \in [Users -> UserRecord] /\ Grows /\ Absent' /\ user'[u] = doc
<1>1. user \in [Users -> UserRecord] /\ doc \in UserRecord /\ doc.status # "NONE"
  BY DEF AccountsInv, TypeInv, Types, Stored
<1> QED
  BY <1>1 DEF AccountsInv, Absent, Exists, Grows

-----------------------------------------------------------------------------
(* Handlers begin.                                                          *)

LEMMA Records ==
  /\ NoUser \in UserRecord
  /\ \A email \in MaybeEmails, phone \in MaybePhones :
       /\ NewUser(email, phone) \in Stored /\ Applicant(email, phone) \in Stored
       /\ [NoUser EXCEPT !.email = email, !.phone = phone] \in UserRecord
  /\ \A email \in Emails : GoogleUser(email) \in Stored /\ Invited(email) \in Stored
  /\ \A phone \in MaybePhones : [NoUser EXCEPT !.phone = phone] \in UserRecord
<1>1. NoUser \in UserRecord
  BY DEF NoUser, UserRecord, UserStatus
<1>2. ASSUME NEW email \in MaybeEmails, NEW phone \in MaybePhones
      PROVE  /\ NewUser(email, phone) \in Stored /\ Applicant(email, phone) \in Stored
             /\ [NoUser EXCEPT !.email = email, !.phone = phone] \in UserRecord
  BY <1>2 DEF NewUser, Applicant, NoUser, Stored, UserRecord, UserStatus, MaybeEmails, MaybePhones
<1>3. ASSUME NEW email \in Emails
      PROVE  GoogleUser(email) \in Stored /\ Invited(email) \in Stored
  BY <1>3 DEF GoogleUser, Invited, NoUser, Stored, UserRecord, UserStatus
<1>4. ASSUME NEW phone \in MaybePhones PROVE [NoUser EXCEPT !.phone = phone] \in UserRecord
  BY <1>4 DEF NoUser, UserRecord, UserStatus, MaybePhones
<1> QED
  BY <1>1, <1>2, <1>3, <1>4

\* Handlers that insert a user or deal with codes are about nobody's document yet.
LEMMA AboutNobody ==
  ASSUME NEW local \in InsertLocal \cup SignupLocal \cup CodeLocal
  PROVE  Whose(local) /\ Relied(local) /\ BackedNext(local)
<1>1. local.todo \in InsertTodos \cup {<<"insert", "code", "send">>} \cup CodeTodos
  BY DEF InsertLocal, SignupLocal, CodeLocal
<1> QED
  BY <1>1, TodosApart DEF Whose, Relied, BackedNext

LEMMA InsertingBegins ==
  ASSUME AccountsInv, NEW r \in Requests, NEW doc \in Stored, NEW key \in Keys \cup {None},
         NEW todo \in InsertTodos, Accept(r, Carry(None, doc, key, None, todo)),
         UNCHANGED <<docVars, otp>>
  PROVE  AccountsInv'
<1>1. Carry(None, doc, key, None, todo) \in InsertLocal
  BY DEF Carry, InsertLocal
<1> QED
  BY <1>1, AboutNobody, Begins DEF Locals

LEMMA CodeBegins ==
  ASSUME AccountsInv, NEW r \in Requests, NEW key \in Keys, NEW todo \in CodeTodos,
         Accept(r, Carry(None, NoUser, key, None, todo)), UNCHANGED <<docVars, otp>>
  PROVE  AccountsInv'
<1>1. Carry(None, NoUser, key, None, todo) \in CodeLocal
  BY Records DEF Carry, CodeLocal
<1> QED
  BY <1>1, AboutNobody, Begins DEF Locals

LEMMA KeysOf ==
  /\ \A c \in Contacts : <<"signup", c>> \in Keys
  /\ \A e \in Emails : <<"reset", e>> \in Keys
BY DEF Keys

LEMMA SignupKeeps ==
  ASSUME AccountsInv, NEW r \in Requests, NEW email \in MaybeEmails, NEW phone \in MaybePhones,
         Signup(r, email, phone)
  PROVE  AccountsInv'
<1> DEFINE key == <<"signup", IF email # None THEN email ELSE phone>>
<1>1. key \in Keys
  BY KeysOf DEF Signup, MaybeEmails, MaybePhones, Contacts
<1>2. NewUser(email, phone) \in Stored
  BY Records
<1>3. CASE None \notin {email, phone}
  <2>1. Accept(r, Carry(None, NewUser(email, phone), key, None, <<"insert">>))
    BY <1>3 DEF Signup
  <2> QED
    BY <1>1, <1>2, <2>1, InsertingBegins DEF Signup, InsertTodos
<1>4. CASE None \in {email, phone}
  <2> DEFINE local == Carry(None, NewUser(email, phone), key, None, <<"insert", "code", "send">>)
  <2>1. Accept(r, local)
    BY <1>4 DEF Signup
  <2>2. local \in SignupLocal
    BY <1>1, <1>2 DEF Carry, SignupLocal
  <2> QED
    BY <2>1, <2>2, AboutNobody, Begins DEF Signup, Locals
<1> QED
  BY <1>3, <1>4

LEMMA CodeCallsKeep ==
  ASSUME AccountsInv, NEW r \in Requests,
         \/ \E phone \in Phones : SendSmsOtp(r, phone)
         \/ \E email \in Emails : ForgotPassword(r, email)
         \/ \E key \in Keys : VerifyOtp(r, key)
  PROVE  AccountsInv'
<1>1. {<<"code", "send">>, <<"drop", "verify">>, <<"drop">>} \subseteq CodeTodos
  BY DEF CodeTodos
<1>2. ASSUME NEW phone \in Phones, SendSmsOtp(r, phone) PROVE AccountsInv'
  <2>1. <<"signup", phone>> \in Keys
    BY KeysOf DEF Contacts
  <2> QED
    BY <1>1, <1>2, <2>1, CodeBegins DEF SendSmsOtp, SmsSteps
<1>3. ASSUME NEW email \in Emails, ForgotPassword(r, email) PROVE AccountsInv'
  <2>1. <<"reset", email>> \in Keys
    BY KeysOf
  <2> QED
    BY <1>1, <1>3, <2>1, CodeBegins DEF ForgotPassword
<1>4. ASSUME NEW key \in Keys, VerifyOtp(r, key) PROVE AccountsInv'
  <2> DEFINE todo == IF key[1] = "signup" THEN <<"drop", "verify">> ELSE <<"drop">>
  <2>1. todo \in CodeTodos
    BY <1>1
  <2>2. Accept(r, Carry(None, NoUser, key, None, todo)) /\ UNCHANGED <<docVars, otp>>
    BY <1>4 DEF VerifyOtp
  <2> QED
    BY <2>1, <2>2, CodeBegins
<1> QED
  BY <1>2, <1>3, <1>4

LEMMA ComingsKeep ==
  ASSUME AccountsInv, NEW r \in Requests,
         \/ \E email \in Emails : GoogleLogin(r, email) \/ CreateInvite(r, email)
         \/ \E email \in MaybeEmails, phone \in MaybePhones : ApplyAsStylist(r, email, phone)
  PROVE  AccountsInv'
<1>1. ASSUME NEW email \in Emails, GoogleLogin(r, email) PROVE AccountsInv'
  <2>1. GoogleUser(email) \in Stored
    BY Records
  <2> QED
    BY <1>1, <2>1, InsertingBegins DEF GoogleLogin, InsertTodos
<1>2. ASSUME NEW email \in Emails, CreateInvite(r, email) PROVE AccountsInv'
  <2>1. Invited(email) \in Stored
    BY Records
  <2> QED
    BY <1>2, <2>1, InsertingBegins DEF CreateInvite, InsertTodos
<1>3. ASSUME NEW email \in MaybeEmails, NEW phone \in MaybePhones,
             ApplyAsStylist(r, email, phone)
      PROVE  AccountsInv'
  <2>1. Applicant(email, phone) \in Stored
    BY Records
  <2> QED
    BY <1>3, <2>1, InsertingBegins DEF ApplyAsStylist, InsertTodos
<1> QED
  BY <1>1, <1>2, <1>3

\* Handlers about a user who is there.
LEMMA StaffBegins ==
  ASSUME AccountsInv, NEW r \in Requests, NEW u \in Users, Exists(u), NEW doc \in UserRecord,
         NEW todo \in StaffTodos, todo \in ReadyTodos => user[u].password,
         Accept(r, Carry(u, doc, None, None, todo)), UNCHANGED <<docVars, otp>>
  PROVE  AccountsInv'
<1> DEFINE local == Carry(u, doc, None, None, todo)
<1>1. local \in StaffLocal /\ local.user = u /\ local.todo = todo
  BY DEF Carry, StaffLocal
<1>2. Whose(local) /\ Relied(local)
  BY <1>1 DEF Whose, Relied
<1> QED
  BY <1>1, <1>2, Begins DEF Locals

LEMMA Stylists == AccountsInv => \A u \in Users : user[u].role = "STYLIST" => Exists(u)
BY DEF AccountsInv, Absent, NoUser

\* Approval of somebody without a password begins with one.
LEMMA ApprovalCalls ==
  ASSUME NEW u \in Users
  PROVE  ApprovalSteps(u) \in ApprovalTodos
         /\ (ApprovalSteps(u) \in ReadyTodos => user[u].password)
<1> DEFINE calls == {"password", "activate", "approve", "profile"}
           steps == <<"activate", "approve", "profile">>
<1>1. steps \in Seq(calls) /\ <<"password">> \in Seq(calls) /\ Len(steps) = 3
  OBVIOUS
<1>2. CASE user[u].password
  <2>1. ApprovalSteps(u) = <<>> \o steps
    BY <1>2 DEF ApprovalSteps
  <2>2. <<>> \o steps = steps
    BY <1>1, ConcatEmptySeq
  <2> QED
    BY <1>2, <2>1, <2>2 DEF ApprovalTodos, ReadyTodos
<1>3. CASE ~user[u].password
  <2> DEFINE all == <<"password", "activate", "approve", "profile">>
  <2>1. ApprovalSteps(u) = <<"password">> \o steps
    BY <1>3 DEF ApprovalSteps
  <2>2. all \in Seq(calls) /\ Len(all) = 4
    OBVIOUS
  <2>3. /\ <<"password">> \o steps \in Seq(calls) /\ Len(<<"password">> \o steps) = 4
    BY <1>1, ConcatProperties
  <2>4. \A i \in 1 .. 4 : (<<"password">> \o steps)[i] = all[i]
    BY <1>1, ConcatProperties
  <2>5. <<"password">> \o steps = all
    BY <2>2, <2>3, <2>4, SeqEqual
  <2>6. Head(all) = "password"
    OBVIOUS
  <2> QED
    BY <2>1, <2>5, <2>6, ReadyHeads DEF ApprovalTodos
<1> QED
  BY <1>2, <1>3

LEMMA StaffCallsKeep ==
  ASSUME AccountsInv, NEW r \in Requests, NEW u \in Users,
         \/ SendInvite(r, u) \/ ApproveStylist(r, u) \/ RejectStylist(r, u)
         \/ \E email \in MaybeEmails, phone \in MaybePhones : UpdateProfile(r, u, email, phone)
  PROVE  AccountsInv'
<1>1. CASE SendInvite(r, u)
  <2> DEFINE todo == <<"pend", "cancel", "invite">>
  <2>1. todo \in StaffTodos /\ todo \notin ReadyTodos
    <3>1. todo \in InvitationTodos /\ Head(todo) = "pend"
      BY DEF InvitationTodos
    <3> QED
      BY <3>1, ReadyHeads DEF StaffTodos
  <2>2. /\ Exists(u) /\ Accept(r, Carry(u, NoUser, None, None, todo)) /\ UNCHANGED <<docVars, otp>>
    BY <1>1, Stylists DEF SendInvite, Invitable
  <2> QED
    BY <2>1, <2>2, Records, StaffBegins
<1>2. CASE ApproveStylist(r, u)
  <2>1. /\ Exists(u) /\ Accept(r, Carry(u, NoUser, None, None, ApprovalSteps(u)))
        /\ UNCHANGED <<docVars, otp>>
    BY <1>2 DEF ApproveStylist
  <2>2. PICK todo : todo = ApprovalSteps(u)
    OBVIOUS
  <2>3. todo \in StaffTodos /\ (todo \in ReadyTodos => user[u].password)
    BY <2>2, ApprovalCalls DEF StaffTodos
  <2> QED
    BY <2>1, <2>2, <2>3, Records, StaffBegins
<1>3. CASE RejectStylist(r, u)
  <2>1. RejectionSteps \in StaffTodos /\ RejectionSteps \notin ReadyTodos
    <3>1. RejectionSteps \in RejectionTodos /\ Head(RejectionSteps) = "cancel"
      BY DEF RejectionTodos, RejectionSteps
    <3> QED
      BY <3>1, ReadyHeads DEF StaffTodos
  <2>2. /\ Exists(u) /\ Accept(r, Carry(u, NoUser, None, None, RejectionSteps))
        /\ UNCHANGED <<docVars, otp>>
    BY <1>3 DEF RejectStylist
  <2> QED
    BY <2>1, <2>2, Records, StaffBegins
<1>4. ASSUME NEW email \in MaybeEmails, NEW phone \in MaybePhones,
             UpdateProfile(r, u, email, phone)
      PROVE  AccountsInv'
  <2> DEFINE todo == <<"update">>
             doc == [NoUser EXCEPT !.email = email, !.phone = phone]
  <2>1. todo \in StaffTodos /\ todo \notin ReadyTodos /\ doc \in UserRecord
    <3>1. Head(todo) = "update"
      OBVIOUS
    <3> QED
      BY <3>1, ReadyHeads, Records DEF StaffTodos
  <2>2. Exists(u) /\ Accept(r, Carry(u, doc, None, None, todo)) /\ UNCHANGED <<docVars, otp>>
    BY <1>4 DEF UpdateProfile
  <2> QED
    BY <2>1, <2>2, StaffBegins
<1> QED
  BY <1>1, <1>2, <1>3, <1>4

LEMMA AcceptanceKeeps ==
  ASSUME AccountsInv, NEW r \in Requests, NEW i \in Invites, NEW phone \in MaybePhones,
         AcceptInvite(r, i, phone)
  PROVE  AccountsInv'
<1> DEFINE doc == [NoUser EXCEPT !.phone = phone]
           local == Carry(invite[i].user, doc, None, i, <<"take", "accepted">>)
<1>1. invite[i].user \in Users /\ Exists(invite[i].user)
  BY DEF AccountsInv, InvitesNamed, AcceptInvite
<1>2. local \in TakeLocal /\ local.user = invite[i].user /\ local.todo \in TakeTodos
  BY <1>1, Records DEF Carry, TakeLocal, TakeTodos
<1>3. Whose(local) /\ Relied(local)
  BY <1>1, <1>2, TodosApart DEF Whose, Relied
<1>4. Accept(r, local) /\ UNCHANGED <<docVars, otp>>
  BY DEF AcceptInvite
<1> QED
  BY <1>2, <1>3, <1>4, Begins DEF Locals

-----------------------------------------------------------------------------
(* Handlers of one call.                                                    *)

LEMMA AtOnceKeeps ==
  ASSUME AccountsInv, AtOnce, Types', Grows, Absent', InvitesNamed', ActiveStylistHasPassword',
         Arrivals'
  PROVE  AccountsInv'
<1>1. HandlersTypeOK' /\ faults' = faults /\ UNCHANGED request
  BY DEF AccountsInv, TypeInv, HandlersTypeOK, AtOnce, Counted
<1> QED
  BY <1>1, NoStep DEF DocsNext

LEMMA AtOnceCodes ==
  ASSUME AccountsInv, AtOnce, UNCHANGED otp
  PROVE  Arrivals'
<1>1. UNCHANGED <<request, faults>>
  BY DEF AtOnce, Counted
<1> QED
  BY <1>1 DEF AccountsInv, Arrivals, Arriving, At

LEMMA ResendKeeps ==
  ASSUME AccountsInv, NEW email \in Emails, ResendEmailOtp(email)
  PROVE  AccountsInv'
<1> DEFINE key == <<"signup", email>>
<1>1. /\ AtOnce /\ otp' = [otp EXCEPT ![key] = "lost"] /\ UNCHANGED <<user, stylist, invite>>
  BY DEF ResendEmailOtp, docVars
<1>2. Types'
  BY <1>1 DEF AccountsInv, TypeInv, Types
<1>3. Arrivals'
  <2>1. UNCHANGED <<request, faults>>
    BY <1>1 DEF AtOnce, Counted
  <2>2. ASSUME NEW k \in Keys PROVE Arriving(k)'
    <3>1. Arriving(k) /\ otp \in [Keys -> {None, "known", "lost"} \cup Requests]
      BY DEF AccountsInv, Arrivals, TypeInv, Types
    <3>2. CASE k = key
      BY <1>1, <3>1, <3>2 DEF Arriving
    <3>3. CASE k # key
      <4>1. otp'[k] = otp[k]
        BY <1>1, <3>1, <3>3
      <4> QED
        BY <2>1, <3>1, <4>1 DEF Arriving, At
    <3> QED
      BY <3>2, <3>3
  <2> QED
    BY <2>2 DEF Arrivals
<1> QED
  BY <1>1, <1>2, <1>3, UsersStay, Standing, AtOnceKeeps

LEMMA ResetKeeps ==
  ASSUME AccountsInv, NEW email \in Emails, ResetPassword(email)
  PROVE  AccountsInv'
<1>1. /\ AtOnce /\ UNCHANGED <<stylist, invite, otp>>
      /\ user' = [u \in Users |-> IF Has(u, email) THEN [user[u] EXCEPT !.password = TRUE]
                                                  ELSE user[u]]
  BY DEF ResetPassword
<1>2. user \in [Users -> UserRecord]
  BY DEF AccountsInv, TypeInv, Types
<1>3. \A doc \in UserRecord :
        LET new == [doc EXCEPT !.password = TRUE] IN
        new \in UserRecord /\ new.status = doc.status /\ new.password
  BY DEF UserRecord
<1>4. Types'
  BY <1>1, <1>2, <1>3 DEF AccountsInv, TypeInv, Types
<1>5. Grows /\ Absent'
  BY <1>1, <1>2, <1>3 DEF AccountsInv, Absent, Grows, Exists, Has
<1> QED
  BY <1>1, <1>4, <1>5, Standing, AtOnceCodes, AtOnceKeeps

LEMMA BlockKeeps ==
  ASSUME AccountsInv, NEW u \in Users, ToggleBlock(u)
  PROVE  AccountsInv'
<1> DEFINE doc == [user[u] EXCEPT !.blocked = ~user[u].blocked]
<1>1. Exists(u) /\ AtOnce /\ user' = [user EXCEPT ![u] = doc] /\ UNCHANGED <<stylist, invite, otp>>
  BY DEF ToggleBlock
<1>2. user[u] \in UserRecord
  BY DEF AccountsInv, TypeInv, Types
<1>3. doc \in Stored /\ doc.password = user[u].password
  BY <1>1, <1>2 DEF Stored, UserRecord, Exists
<1>4. user' \in [Users -> UserRecord] /\ Grows /\ Absent'
  BY <1>1, <1>3, OneUser
<1>5. Types'
  BY <1>1, <1>4 DEF AccountsInv, TypeInv, Types
<1> QED
  BY <1>1, <1>4, <1>5, Standing, AtOnceCodes, AtOnceKeeps

\* An invite that changes its status stays its user's, and is not opened again.
LEMMA OneInvite ==
  ASSUME AccountsInv, Grows, NEW i \in Invites, NEW new \in InviteRecord,
         new.user = invite[i].user, new.status = "PENDING" => invite[i].status = "PENDING",
         invite' = [invite EXCEPT ![i] = new]
  PROVE  invite' \in [Invites -> InviteRecord] /\ InvitesNamed'
<1>1. invite \in [Invites -> InviteRecord]
  BY DEF AccountsInv, TypeInv, Types
<1>2. invite' \in [Invites -> InviteRecord]
  BY <1>1
<1>3. ASSUME NEW j \in Invites
      PROVE  /\ invite'[j].user \in Users => user'[invite'[j].user].status # "NONE"
             /\ invite'[j].status = "PENDING" => invite'[j].user \in Users
  <2>1. /\ invite'[j].user = invite[j].user
        /\ invite'[j].status = "PENDING" => invite[j].status = "PENDING"
    BY <1>1
  <2>2. /\ invite[j].user \in Users => Exists(invite[j].user)
        /\ invite[j].status = "PENDING" => invite[j].user \in Users
    BY DEF AccountsInv, InvitesNamed
  <2> QED
    BY <2>1, <2>2 DEF Grows
<1> QED
  BY <1>2, <1>3 DEF InvitesNamed, Exists

LEMMA ExpiryKeeps ==
  ASSUME AccountsInv, NEW i \in Invites, ExpireInvite(i)
  PROVE  AccountsInv'
<1> DEFINE new == [invite[i] EXCEPT !.status = "EXPIRED"]
<1>1. /\ AtOnce /\ invite' = [invite EXCEPT ![i] = new] /\ UNCHANGED <<user, stylist, otp>>
      /\ invite[i].status = "PENDING"
  BY DEF ExpireInvite
<1>2. invite[i] \in InviteRecord
  BY DEF AccountsInv, TypeInv, Types
<1>3. new \in InviteRecord /\ new.user = invite[i].user /\ new.status # "PENDING"
  BY <1>2 DEF InviteRecord, InviteStatus
<1>4. Grows /\ Absent'
  BY <1>1, UsersStay
<1>5. invite' \in [Invites -> InviteRecord] /\ InvitesNamed'
  BY <1>1, <1>3, <1>4, OneInvite
<1>6. Types'
  BY <1>1, <1>5 DEF AccountsInv, TypeInv, Types
<1> QED
  BY <1>1, <1>4, <1>5, <1>6, Standing, AtOnceCodes, AtOnceKeeps

-----------------------------------------------------------------------------
(* Codes.                                                                   *)

LEMMA CodeGoesOn ==
  ASSUME AccountsInv, NEW r \in Requests, request[r] # Idle, request[r] \in CodeLocal, Advance(r),
         UNCHANGED docVars, otp' \in [Keys -> {None, "known", "lost"} \cup Requests], Arrivals'
  PROVE  AccountsInv'
<1>1. /\ HandlersTypeOK' /\ faults' = faults
      /\ request' = [request EXCEPT ![r] = Rest(request[r])]
  BY DEF AccountsInv, TypeInv, HandlersTypeOK, Advance, Continues
<1>2. Rest(request[r]) \in {Idle} \cup CodeLocal /\ BackedNext(Rest(request[r]))
  BY RestCode, AboutNobody, IdleBacked
<1>3. DocsNext
  BY <1>1, DocsStay
<1> QED
  BY <1>1, <1>2, <1>3, OneStep DEF Locals

\* The other handlers about to send still are, and what becomes of the code of one key.
LEMMA CodesNext ==
  ASSUME AccountsInv, NEW r \in Requests, NEW key \in Keys, NEW to,
         faults' = faults, \A q \in Requests \ {r} : request'[q] = request[q],
         otp' = [otp EXCEPT ![key] = to],
         \A k \in Keys \ {key} : otp[k] # r,
         \/ to \in {None, "known"}
         \/ to = r /\ At(r, "send")' /\ request'[r].key = key
         \/ to = otp[key] /\ to # r
  PROVE  Arrivals'
<1>1. otp \in [Keys -> {None, "known", "lost"} \cup Requests]
  BY DEF AccountsInv, TypeInv, Types
<1>2. ASSUME NEW k \in Keys, otp[k] # r, otp'[k] = otp[k] PROVE Arriving(k)'
  <2>1. Arriving(k)
    BY DEF AccountsInv, Arrivals
  <2>2. CASE otp[k] \in Requests /\ At(otp[k], "send") /\ request[otp[k]].key = k
    <3>1. request'[otp[k]] = request[otp[k]]
      BY <1>2, <2>2
    <3> QED
      BY <1>2, <2>2, <3>1 DEF Arriving, At
  <2>3. CASE \/ otp[k] \in {None, "known"}
             \/ (otp[k] = "lost" /\ (faults > 0 \/ k \in {<<"signup", e>> : e \in Emails}))
    BY <1>2, <2>3 DEF Arriving
  <2> QED
    BY <2>1, <2>2, <2>3 DEF Arriving
<1>3. ASSUME NEW k \in Keys PROVE Arriving(k)'
  <2>1. CASE k # key
    BY <1>1, <1>2, <2>1
  <2>2. CASE k = key
    <3>1. otp'[k] = to
      BY <1>1, <2>2
    <3>2. CASE to \in {None, "known"}
      BY <3>1, <3>2 DEF Arriving
    <3>3. CASE to = r /\ At(r, "send")' /\ request'[r].key = key
      BY <2>2, <3>1, <3>3 DEF Arriving, At
    <3>4. CASE to = otp[key] /\ to # r
      BY <1>2, <2>2, <3>1, <3>4
    <3> QED
      BY <3>2, <3>3, <3>4
  <2> QED
    BY <2>1, <2>2
<1> QED
  BY <1>3 DEF Arrivals

LEMMA CodeKeeps ==
  ASSUME AccountsInv, NEW r \in Requests, StoreCode(r) \/ SendCode(r) \/ DropCode(r)
  PROVE  AccountsInv'
<1> DEFINE key == request[r].key
<1>1. /\ request[r] # Idle /\ request[r] \in CodeLocal /\ Advance(r) /\ UNCHANGED docVars
  BY Carrying DEF AccountsInv, TypeInv, StoreCode, SendCode, DropCode, At
<1>2. key \in Keys /\ request[r].todo \in CodeTodos
  BY <1>1 DEF CodeLocal
<1>3. /\ faults' = faults /\ request' = [request EXCEPT ![r] = Rest(request[r])]
      /\ \A q \in Requests \ {r} : request'[q] = request[q]
      /\ request'[r] = Rest(request[r])
  BY <1>1 DEF AccountsInv, TypeInv, Shaped, Advance, Continues
<1>4. otp \in [Keys -> {None, "known", "lost"} \cup Requests]
  BY DEF AccountsInv, TypeInv, Types
<1>5. r \notin {None, "known", "lost"}
  BY CodeAssumption
<1>6. \A k \in Keys : otp[k] = r => At(r, "send") /\ k = key
  BY <1>5 DEF AccountsInv, Arrivals, Arriving
<1>7. CASE StoreCode(r)
  <2>1. otp' = [otp EXCEPT ![key] = r] /\ ~At(r, "send") /\ request[r].todo = <<"code", "send">>
    BY <1>2, <1>7, CodeHeads DEF StoreCode, At
  <2>2. /\ Len(request[r].todo) # 1 /\ Tail(request[r].todo) = <<"send">>
    BY <2>1
  <2>3. Rest(request[r]) \in CodeLocal /\ Rest(request[r]).todo = <<"send">> /\ Rest(request[r]).key = key
    BY <1>1, <2>2, RestCode
  <2>4. At(r, "send")' /\ request'[r].key = key
    <3>1. request'[r] # Idle /\ Head(<<"send">>) = "send"
      BY <1>3, <2>3, IdleHasNothing DEF Locals
    <3> QED
      BY <1>3, <2>3, <3>1 DEF At
  <2>5. Arrivals'
    BY <1>2, <1>3, <1>6, <2>1, <2>4, CodesNext
  <2>6. otp' \in [Keys -> {None, "known", "lost"} \cup Requests]
    BY <1>4, <2>1
  <2> QED
    BY <1>1, <2>5, <2>6, CodeGoesOn
<1>8. CASE SendCode(r)
  <2> DEFINE to == IF otp[key] = r THEN "known" ELSE otp[key]
  <2>1. otp' = [otp EXCEPT ![key] = to]
    BY <1>8 DEF SendCode
  <2>2. to = "known" \/ (to = otp[key] /\ to # r)
    OBVIOUS
  <2>3. Arrivals'
    BY <1>2, <1>3, <1>6, <2>1, <2>2, CodesNext
  <2>4. otp' \in [Keys -> {None, "known", "lost"} \cup Requests]
    BY <1>2, <1>4, <2>1
  <2> QED
    BY <1>1, <2>3, <2>4, CodeGoesOn
<1>9. CASE DropCode(r)
  <2>1. otp' = [otp EXCEPT ![key] = None] /\ ~At(r, "send")
    BY <1>9 DEF DropCode, At
  <2>2. Arrivals'
    BY <1>2, <1>3, <1>6, <2>1, CodesNext
  <2>3. otp' \in [Keys -> {None, "known", "lost"} \cup Requests]
    BY <1>4, <2>1
  <2> QED
    BY <1>1, <2>2, <2>3, CodeGoesOn
<1> QED
  BY <1>7, <1>8, <1>9

LEMMA VerificationKeeps ==
  ASSUME AccountsInv, NEW r \in Requests, MarkVerified(r)
  PROVE  AccountsInv'
<1> DEFINE c == request[r].key[2]
<1>1. /\ At(r, "verify") /\ Advance(r) /\ UNCHANGED <<stylist, invite, otp>>
      /\ user' = [u \in Users |-> IF Has(u, c) THEN Verified(user[u], c) ELSE user[u]]
  BY DEF MarkVerified
<1>2. request[r] \in CodeLocal /\ ~At(r, "send")
  BY <1>1, Carrying DEF AccountsInv, TypeInv, At
<1>3. user \in [Users -> UserRecord]
  BY DEF AccountsInv, TypeInv, Types
<1>4. \A doc \in UserRecord :
        /\ Verified(doc, c) \in UserRecord /\ Verified(doc, c).status # "NONE"
        /\ Verified(doc, c).password = doc.password
  BY DEF UserRecord, UserStatus, Verified
<1>5. Types'
  BY <1>1, <1>3, <1>4 DEF AccountsInv, TypeInv, Types
<1>6. Grows /\ Absent'
  BY <1>1, <1>3, <1>4 DEF AccountsInv, Absent, Grows, Exists, Has
<1>7. Rest(request[r]) \in {Idle} \cup Locals /\ BackedNext(Rest(request[r]))
  BY <1>2, RestCode, AboutNobody, IdleBacked DEF Locals
<1> QED
  BY <1>1, <1>2, <1>5, <1>6, <1>7, Standing, GoesOn DEF Advance

LEMMA CodeExpiryKeeps ==
  ASSUME AccountsInv, NEW key \in Keys, CodeExpires(key)
  PROVE  AccountsInv'
<1>1. /\ otp' = [otp EXCEPT ![key] = None] /\ UNCHANGED <<docVars, request, accepted, faults, overlapped>>
  BY DEF CodeExpires, handlerVars
<1>2. otp \in [Keys -> {None, "known", "lost"} \cup Requests]
  BY DEF AccountsInv, TypeInv, Types
<1>3. DocsNext
  BY <1>1, <1>2, DocsStay DEF AccountsInv, TypeInv, HandlersTypeOK
<1>4. Arrivals'
  <2>1. ASSUME NEW k \in Keys PROVE Arriving(k)'
    <3>1. otp'[k] = None \/ (otp'[k] = otp[k] /\ Arriving(k))
      BY <1>1, <1>2 DEF AccountsInv, Arrivals
    <3> QED
      BY <1>1, <3>1 DEF Arriving, At
  <2> QED
    BY <2>1 DEF Arrivals
<1> QED
  BY <1>1, <1>3, <1>4, NoStep

-----------------------------------------------------------------------------
(* Users come, are written, and go on.                                      *)

LEMMA InsertKeeps ==
  ASSUME AccountsInv, NEW r \in Requests, NEW u \in Users, InsertUser(r, u)
  PROVE  AccountsInv'
<1> DEFINE doc == request[r].doc
           next == Rest([request[r] EXCEPT !.user = u])
<1>1. /\ At(r, "insert") /\ ~Exists(u) /\ user' = [user EXCEPT ![u] = doc]
      /\ Continues(r, next) /\ UNCHANGED <<stylist, invite, otp>>
  BY DEF InsertUser
<1>2. request[r] \in InsertLocal \cup SignupLocal /\ ~At(r, "send")
  BY <1>1, Carrying DEF AccountsInv, TypeInv, At
<1>3. doc \in Stored
  BY <1>2 DEF InsertLocal, SignupLocal
<1>4. ~user[u].password
  BY <1>1, PasswordsOfUsers DEF AccountsInv
<1>5. user' \in [Users -> UserRecord] /\ Grows /\ Absent' /\ user'[u] = doc
  BY <1>1, <1>3, <1>4, OneUser
<1>6. Types'
  BY <1>1, <1>5 DEF AccountsInv, TypeInv, Types
<1>7. \/ next = Idle \/ next \in CodeLocal
      \/ (next \in StaffLocal /\ next.user = u /\ next.todo \in InvitationTodos)
  BY <1>2, RestInsert
<1>8. next \in {Idle} \cup Locals /\ BackedNext(next)
  <2>1. CASE next = Idle \/ next \in CodeLocal
    BY <2>1, IdleBacked, AboutNobody DEF Locals
  <2>2. CASE next \in StaffLocal /\ next.user = u /\ next.todo \in InvitationTodos
    <3>1. next.todo \notin ReadyTodos
      BY <2>2, Heads, ReadyHeads
    <3>2. user'[u].status # "NONE"
      BY <1>3, <1>5 DEF Stored
    <3> QED
      BY <2>2, <3>1, <3>2 DEF BackedNext, Locals
  <2> QED
    BY <1>7, <2>1, <2>2
<1> QED
  BY <1>1, <1>2, <1>5, <1>6, <1>8, Standing, GoesOn

LEMMA RefusalKeeps ==
  ASSUME AccountsInv, NEW r \in Requests, InsertRefused(r)
  PROVE  AccountsInv'
<1>1. /\ Continues(r, Idle) /\ ~At(r, "send") /\ UNCHANGED <<user, stylist, invite, otp>>
  BY DEF InsertRefused, Throw, At, docVars
<1>2. Types'
  BY <1>1 DEF AccountsInv, TypeInv, Types
<1> QED
  BY <1>1, <1>2, UsersStay, Standing, IdleBacked, GoesOn

\* Handlers about a user: what they go on with is backed, if activation comes after
\* the password.
LEMMA StaffBacked ==
  ASSUME AccountsInv, Grows, NEW r \in Requests, request[r] \in StaffLocal,
         Head(request[r].todo) = "password" => user'[request[r].user].password
  PROVE  Rest(request[r]) \in {Idle} \cup Locals /\ BackedNext(Rest(request[r]))
<1> DEFINE next == Rest(request[r])
<1>1. BackedNext(request[r]) /\ request[r].todo \in StaffTodos
  BY OthersBacked DEF StaffLocal
<1>2. CASE next = Idle
  BY <1>2, IdleBacked
<1>3. CASE next \in StaffLocal /\ next.todo = Tail(request[r].todo) /\ next.user = request[r].user
  <2>1. next.user \in Users /\ user'[next.user].status # "NONE"
    BY <1>1, <1>3 DEF BackedNext
  <2>2. next.todo \in ReadyTodos => user'[next.user].password
    BY <1>1, <1>3, BecomesReady DEF BackedNext
  <2> QED
    BY <1>3, <2>1, <2>2 DEF BackedNext, Locals
<1> QED
  BY <1>2, <1>3, RestStaff

LEMMA StaffGoesOn ==
  ASSUME AccountsInv, NEW r \in Requests, request[r] \in StaffLocal, ~At(r, "send"), Advance(r),
         Head(request[r].todo) = "password" => user'[request[r].user].password,
         Types', Grows, Absent', InvitesNamed', ActiveStylistHasPassword', UNCHANGED otp
  PROVE  AccountsInv'
BY StaffBacked, GoesOn DEF Advance

\* The user of a handler is there.
LEMMA UserOf ==
  ASSUME AccountsInv, NEW r \in Requests, request[r] \in StaffLocal \cup TakeLocal
  PROVE  request[r].user \in Users /\ Exists(request[r].user)
<1>1. request[r].todo \in StaffTodos \cup TakeTodos
  BY DEF StaffLocal, TakeLocal
<1> QED
  BY <1>1 DEF AccountsInv, Backed, Whose

LEMMA DraftKeeps ==
  ASSUME AccountsInv, NEW r \in Requests, InsertDraft(r)
  PROVE  AccountsInv'
<1>1. /\ At(r, "draft") /\ stylist' = [stylist EXCEPT ![request[r].user] = "INACTIVE"]
      /\ Advance(r) /\ UNCHANGED <<user, invite, otp>>
  BY DEF InsertDraft
<1>2. request[r] \in StaffLocal /\ ~At(r, "send") /\ Head(request[r].todo) # "password"
  BY <1>1, Carrying DEF AccountsInv, TypeInv, At
<1>3. Types'
  BY <1>1 DEF AccountsInv, TypeInv, Types
<1>4. ActiveStylistHasPassword'
  BY <1>1 DEF AccountsInv, TypeInv, Types, ActiveStylistHasPassword
<1> QED
  BY <1>1, <1>2, <1>3, <1>4, UsersStay, Standing, StaffGoesOn

\* The handler that activates a profile relies on a password that is there.
LEMMA ProfileKeeps ==
  ASSUME AccountsInv, NEW r \in Requests, ActivateProfile(r)
  PROVE  AccountsInv'
<1> DEFINE u == request[r].user
           new == IF stylist[u] = "NONE" THEN "NONE" ELSE "ACTIVE"
<1>1. /\ At(r, "profile") /\ stylist' = [stylist EXCEPT ![u] = new]
      /\ Advance(r) /\ UNCHANGED <<user, invite, otp>>
  BY DEF ActivateProfile
<1>2. request[r] \in StaffLocal /\ ~At(r, "send") /\ Head(request[r].todo) = "profile"
  BY <1>1, Carrying DEF AccountsInv, TypeInv, At
<1>3. user[u].password
  <2>1. request[r].todo \in StaffTodos
    BY <1>2 DEF StaffLocal
  <2>2. request[r].todo \in ReadyTodos
    BY <1>2, <2>1, StaffHeads DEF ReadyTodos
  <2> QED
    BY <2>2 DEF AccountsInv, Backed, Relied
<1>4. stylist \in [Users -> {"NONE", "INACTIVE", "ACTIVE"}]
  BY DEF AccountsInv, TypeInv, Types
<1>5. Types'
  BY <1>1, <1>4 DEF AccountsInv, TypeInv, Types
<1>6. ActiveStylistHasPassword'
  BY <1>1, <1>3, <1>4 DEF AccountsInv, ActiveStylistHasPassword
<1> QED
  BY <1>1, <1>2, <1>5, <1>6, UsersStay, Standing, StaffGoesOn

LEMMA WrittenKeeps ==
  ASSUME NEW doc \in Stored, NEW step \in UserSteps
  PROVE  /\ Written(step, doc) \in Stored
         /\ doc.password => Written(step, doc).password
         /\ step = "password" => Written(step, doc).password
<1>1. CASE step = "password"
  BY <1>1 DEF Written, Stored, UserRecord, UserStatus
<1>2. CASE step = "activate"
  BY <1>2 DEF Written, Stored, UserRecord, UserStatus
<1>3. CASE step = "approve"
  BY <1>3 DEF Written, Stored, UserRecord, UserStatus
<1>4. CASE step = "deactivate"
  BY <1>4 DEF Written, Stored, UserRecord, UserStatus
<1>5. CASE step = "reject"
  BY <1>5 DEF Written, Stored, UserRecord, UserStatus
<1>6. CASE step = "block"
  BY <1>6 DEF Written, Stored, UserRecord, UserStatus
<1>7. CASE step = "pend"
  BY <1>7 DEF Written, Stored, UserRecord, UserStatus
<1> QED
  BY <1>1, <1>2, <1>3, <1>4, <1>5, <1>6, <1>7 DEF UserSteps

LEMMA WriteKeeps ==
  ASSUME AccountsInv, NEW r \in Requests, WriteUser(r)
  PROVE  AccountsInv'
<1> DEFINE u == request[r].user
<1>1. PICK step \in UserSteps : At(r, step) /\ user' = [user EXCEPT ![u] = Written(step, user[u])]
  BY DEF WriteUser
<1>2. Advance(r) /\ UNCHANGED <<stylist, invite, otp>>
  BY DEF WriteUser
<1>3. request[r] \in StaffLocal /\ ~At(r, "send") /\ Head(request[r].todo) = step
  BY <1>1, Carrying DEF AccountsInv, TypeInv, At, UserSteps
<1>4. u \in Users /\ user[u] \in Stored
  BY <1>3, UserOf DEF AccountsInv, TypeInv, Types, Exists, Stored
<1>5. PICK doc : doc = Written(step, user[u])
  OBVIOUS
<1>6. doc \in Stored /\ (user[u].password => doc.password) /\ (step = "password" => doc.password)
  BY <1>4, <1>5, WrittenKeeps
<1>7. user' \in [Users -> UserRecord] /\ Grows /\ Absent' /\ user'[u] = doc
  BY <1>1, <1>4, <1>5, <1>6, OneUser
<1>8. Types'
  BY <1>2, <1>7 DEF AccountsInv, TypeInv, Types
<1> QED
  BY <1>2, <1>3, <1>6, <1>7, <1>8, Standing, StaffGoesOn

LEMMA ProfileWriteKeeps ==
  ASSUME AccountsInv, NEW r \in Requests, WriteProfile(r)
  PROVE  AccountsInv'
<1> DEFINE u == request[r].user
           doc == request[r].doc
           new == WithContacts(user[u], doc)
<1>1. At(r, "update") /\ Advance(r) /\ UNCHANGED <<stylist, invite, otp>>
  BY DEF WriteProfile
<1>2. request[r] \in StaffLocal /\ ~At(r, "send") /\ Head(request[r].todo) # "password"
  BY <1>1, Carrying DEF AccountsInv, TypeInv, At
<1>3. u \in Users /\ Exists(u) /\ user[u] \in UserRecord /\ doc \in UserRecord
  BY <1>2, UserOf DEF AccountsInv, TypeInv, Types, StaffLocal
<1>4. new \in Stored /\ new.password = user[u].password
  BY <1>3 DEF Stored, UserRecord, Exists, WithContacts
<1>5. UNCHANGED user \/ user' = [user EXCEPT ![u] = new]
  BY DEF WriteProfile
<1>6. user' \in [Users -> UserRecord] /\ Grows /\ Absent'
  BY <1>3, <1>4, <1>5, OneUser, UsersStay DEF AccountsInv, TypeInv, Types
<1>7. Types'
  BY <1>1, <1>6 DEF AccountsInv, TypeInv, Types
<1> QED
  BY <1>1, <1>2, <1>6, <1>7, Standing, StaffGoesOn

-----------------------------------------------------------------------------
(* Invites.                                                                 *)

LEMMA InviteKeeps ==
  ASSUME AccountsInv, NEW r \in Requests, NEW i \in Invites, InsertInvite(r, i)
  PROVE  AccountsInv'
<1> DEFINE new == [status |-> "PENDING", user |-> request[r].user, due |-> FALSE]
<1>1. /\ At(r, "invite") /\ Advance(r) /\ UNCHANGED <<user, stylist, otp>>
      /\ invite' = [invite EXCEPT ![i] = new]
  BY DEF InsertInvite
<1>2. request[r] \in StaffLocal /\ ~At(r, "send") /\ Head(request[r].todo) # "password"
  BY <1>1, Carrying DEF AccountsInv, TypeInv, At
<1>3. request[r].user \in Users /\ Exists(request[r].user)
  BY <1>2, UserOf
<1>4. new \in InviteRecord
  BY <1>3 DEF InviteRecord, InviteStatus
<1>5. Types'
  BY <1>1, <1>4 DEF AccountsInv, TypeInv, Types
<1>6. InvitesNamed'
  BY <1>1, <1>3 DEF AccountsInv, TypeInv, Types, InvitesNamed, Exists
<1> QED
  BY <1>1, <1>2, <1>5, <1>6, UsersStay, Standing, StaffGoesOn

LEMMA CancelKeeps ==
  ASSUME AccountsInv, NEW r \in Requests, Cancel(r)
  PROVE  AccountsInv'
<1> DEFINE cancelled(i) == [invite[i] EXCEPT !.status = "CANCELLED"]
<1>1. /\ At(r, "cancel") /\ Advance(r) /\ UNCHANGED <<user, stylist, otp>>
      /\ invite' = [i \in Invites |-> IF i \in PendingOf(request[r].user)
                                      THEN cancelled(i) ELSE invite[i]]
  BY DEF Cancel, CancelInvites
<1>2. request[r] \in StaffLocal /\ ~At(r, "send") /\ Head(request[r].todo) # "password"
  BY <1>1, Carrying DEF AccountsInv, TypeInv, At
<1>3. \A i \in Invites : invite[i] \in InviteRecord
  BY DEF AccountsInv, TypeInv, Types
<1>4. \A i \in Invites : cancelled(i) \in InviteRecord /\ cancelled(i).user = invite[i].user
  BY <1>3 DEF InviteRecord, InviteStatus
<1>5. Types'
  BY <1>1, <1>3, <1>4 DEF AccountsInv, TypeInv, Types
<1>6. \A i \in Invites : /\ invite'[i].user = invite[i].user
                        /\ invite'[i].status = "PENDING" => invite[i].status = "PENDING"
  BY <1>1, <1>4 DEF PendingOf
<1>7. InvitesNamed'
  BY <1>1, <1>6 DEF AccountsInv, InvitesNamed, Exists
<1> QED
  BY <1>1, <1>2, <1>5, <1>7, UsersStay, Standing, StaffGoesOn

LEMMA DayKeeps ==
  ASSUME AccountsInv, NEW i \in Invites, InvitePasses(i)
  PROVE  AccountsInv'
<1> DEFINE new == [invite[i] EXCEPT !.due = TRUE]
<1>1. /\ invite' = [invite EXCEPT ![i] = new] /\ invite[i].status = "PENDING"
      /\ UNCHANGED <<user, stylist, otp, request, accepted, faults, overlapped>>
  BY DEF InvitePasses, handlerVars
<1>2. invite[i] \in InviteRecord
  BY DEF AccountsInv, TypeInv, Types
<1>3. new \in InviteRecord /\ new.user = invite[i].user
  BY <1>2 DEF InviteRecord
<1>4. Grows /\ Absent'
  BY <1>1, UsersStay
<1>5. invite' \in [Invites -> InviteRecord] /\ InvitesNamed'
  BY <1>1, <1>3, <1>4, OneInvite
<1>6. DocsNext
  BY <1>1, <1>4, <1>5, Standing DEF AccountsInv, TypeInv, Types, HandlersTypeOK, DocsNext
<1>7. Arrivals'
  BY <1>1 DEF AccountsInv, Arrivals, Arriving, At
<1> QED
  BY <1>1, <1>6, <1>7, NoStep

\* Of a handler that accepts an invite: it goes on with the same user.
LEMMA TakeBacked ==
  ASSUME AccountsInv, Grows, NEW r \in Requests, request[r] \in TakeLocal
  PROVE  Rest(request[r]) \in {Idle} \cup Locals /\ BackedNext(Rest(request[r]))
<1> DEFINE next == Rest(request[r])
<1>1. CASE next = Idle
  BY <1>1, IdleBacked
<1>2. CASE next \in TakeLocal /\ next.user = request[r].user
  <2>1. next.todo \in TakeTodos
    BY <1>2 DEF TakeLocal
  <2>2. next.user \in Users /\ user'[next.user].status # "NONE"
    BY <1>2, UserOf DEF Grows
  <2> QED
    BY <1>2, <2>1, <2>2, TodosApart DEF BackedNext, Locals
<1> QED
  BY <1>1, <1>2, RestTake

LEMMA TakeKeeps ==
  ASSUME AccountsInv, NEW r \in Requests, TakeInvite(r)
  PROVE  AccountsInv'
<1> DEFINE u == request[r].user
           phone == request[r].doc.phone
           new == Completed(user[u], phone)
<1>1. At(r, "take") /\ UNCHANGED <<stylist, invite, otp>>
  BY DEF TakeInvite
<1>2. \/ Continues(r, Idle) /\ UNCHANGED user
      \/ Continues(r, Rest(request[r])) /\ user' = [user EXCEPT ![u] = new]
  BY DEF TakeInvite, Throw, Advance
<1>3. request[r] \in TakeLocal /\ ~At(r, "send")
  BY <1>1, Carrying DEF AccountsInv, TypeInv, At
<1>4. u \in Users /\ user[u] \in UserRecord /\ phone \in Phones \cup {None}
  BY <1>3, UserOf DEF AccountsInv, TypeInv, Types, TakeLocal, UserRecord
<1>5. new \in Stored /\ new.password
  <2>1. (IF phone = None THEN user[u].verified \ {"phone"} ELSE user[u].verified \cup {"phone"})
          \in SUBSET {"email", "phone"}
    BY <1>4 DEF UserRecord
  <2> QED
    BY <1>4, <2>1 DEF Completed, Stored, UserRecord, UserStatus
<1>6. user' \in [Users -> UserRecord] /\ Grows /\ Absent'
  BY <1>2, <1>4, <1>5, OneUser, UsersStay DEF AccountsInv, TypeInv, Types
<1>7. Types'
  BY <1>1, <1>6 DEF AccountsInv, TypeInv, Types
<1>8. Rest(request[r]) \in {Idle} \cup Locals /\ BackedNext(Rest(request[r]))
  BY <1>3, <1>6, TakeBacked
<1> QED
  BY <1>1, <1>2, <1>3, <1>6, <1>7, <1>8, Standing, IdleBacked, GoesOn

LEMMA AcceptedKeeps ==
  ASSUME AccountsInv, NEW r \in Requests, MarkAccepted(r)
  PROVE  AccountsInv'
<1> DEFINE i == request[r].invite
           new == [invite[i] EXCEPT !.status = "ACCEPTED"]
<1>1. /\ At(r, "accepted") /\ Advance(r) /\ invite' = [invite EXCEPT ![i] = new]
      /\ UNCHANGED <<user, stylist, otp>>
  BY DEF MarkAccepted
<1>2. request[r] \in TakeLocal /\ ~At(r, "send")
  BY <1>1, Carrying DEF AccountsInv, TypeInv, At
<1>3. /\ i \in Invites /\ new \in InviteRecord /\ new.user = invite[i].user
      /\ new.status # "PENDING"
  <2>1. i \in Invites /\ invite[i] \in InviteRecord
    BY <1>2 DEF AccountsInv, TypeInv, Types, TakeLocal
  <2> QED
    BY <2>1 DEF InviteRecord, InviteStatus
<1>4. Grows /\ Absent'
  BY <1>1, UsersStay
<1>5. invite' \in [Invites -> InviteRecord] /\ InvitesNamed'
  BY <1>1, <1>3, <1>4, OneInvite
<1>6. Types'
  BY <1>1, <1>5 DEF AccountsInv, TypeInv, Types
<1>7. Rest(request[r]) \in {Idle} \cup Locals /\ BackedNext(Rest(request[r]))
  BY <1>2, <1>4, TakeBacked
<1> QED
  BY <1>1, <1>2, <1>4, <1>5, <1>6, <1>7, Standing, GoesOn DEF Advance

-----------------------------------------------------------------------------
(* The specification.                                                       *)

LEMMA FailureKeeps ==
  ASSUME AccountsInv, NEW r \in Requests, RequestFails(r)
  PROVE  AccountsInv'
<1>1. /\ request' = [request EXCEPT ![r] = Idle] /\ faults' = faults + 1
      /\ UNCHANGED <<accepted, overlapped, docVars>>
      /\ otp' = [k \in Keys |-> IF otp[k] = r THEN "lost" ELSE otp[k]]
  BY DEF RequestFails, Cut
<1>2. HandlersTypeOK' /\ faults' > 0
  BY <1>1 DEF AccountsInv, TypeInv, HandlersTypeOK
<1>3. otp \in [Keys -> {None, "known", "lost"} \cup Requests]
  BY DEF AccountsInv, TypeInv, Types
<1>4. DocsNext
  BY <1>1, <1>2, <1>3, DocsStay
<1>5. ASSUME NEW k \in Keys PROVE Arriving(k)'
  <2>1. CASE otp[k] = r
    BY <1>1, <1>2, <2>1 DEF Arriving
  <2>2. CASE otp[k] # r
    <3>1. otp'[k] = otp[k] /\ Arriving(k)
      BY <1>1, <2>2 DEF AccountsInv, Arrivals
    <3>2. otp[k] \in Requests => request'[otp[k]] = request[otp[k]]
      BY <1>1, <2>2
    <3> QED
      BY <1>2, <3>1, <3>2 DEF Arriving, At
  <2> QED
    BY <2>1, <2>2
<1>6. Arrivals'
  BY <1>5 DEF Arrivals
<1> QED
  BY <1>1, <1>4, <1>6, IdleBacked, OneStep

LEMMA InitHolds == Init => AccountsInv
<1> SUFFICES ASSUME Init PROVE AccountsInv
  OBVIOUS
<1> USE DEF Init
<1>1. NoUser \in UserRecord /\ NoInvite \in InviteRecord
  BY Records DEF NoInvite, InviteRecord
<1>2. Shaped /\ HandlersTypeOK /\ \A r \in Requests : request[r] = Idle
  BY DEF HandlersInit, Shaped, HandlersTypeOK
<1>3. Types
  BY <1>1 DEF Types
<1>4. Absent
  BY DEF Absent
<1>5. InvitesNamed
  BY ContactAssumption DEF InvitesNamed, NoInvite
<1>6. Backed
  BY <1>2, IdleHasNothing, TodosApart DEF Backed, Whose, Relied
<1>7. ActiveStylistHasPassword /\ Arrivals
  BY DEF ActiveStylistHasPassword, Arrivals, Arriving
<1> QED
  BY <1>2, <1>3, <1>4, <1>5, <1>6, <1>7 DEF AccountsInv, TypeInv

LEMMA BeginHolds ==
  ASSUME AccountsInv, NEW r \in Requests, Begin(r)
  PROVE  AccountsInv'
<1>1. CASE SignupCalls(r)
  BY <1>1, SignupKeeps, CodeCallsKeep, ResendKeeps DEF SignupCalls
<1>2. CASE ResetCalls(r)
  BY <1>2, CodeCallsKeep, ResetKeeps DEF ResetCalls
<1>3. CASE AccountCalls(r)
  BY <1>3, ComingsKeep, StaffCallsKeep DEF AccountCalls
<1>4. CASE InviteCalls(r)
  BY <1>4, ComingsKeep, ExpiryKeeps, AcceptanceKeeps, StaffCallsKeep DEF InviteCalls
<1>5. CASE StylistCalls
  BY <1>5, BlockKeeps DEF StylistCalls
<1> QED
  BY <1>1, <1>2, <1>3, <1>4, <1>5 DEF Begin

LEMMA ContinueHolds ==
  ASSUME AccountsInv, NEW r \in Requests, Continue(r)
  PROVE  AccountsInv'
BY CodeKeeps, VerificationKeeps, InsertKeeps, RefusalKeeps, DraftKeeps, InviteKeeps, CancelKeeps,
   TakeKeeps, AcceptedKeeps, WriteKeeps, ProfileKeeps, ProfileWriteKeeps DEF Continue

LEMMA NextHolds == AccountsInv /\ [Next]_vars => AccountsInv'
<1> SUFFICES ASSUME AccountsInv, [Next]_vars PROVE AccountsInv'
  OBVIOUS
<1>1. CASE UNCHANGED vars
  <2>1. UNCHANGED <<docVars, otp, request, accepted, faults, overlapped>>
    BY <1>1 DEF vars, docVars, handlerVars
  <2>2. DocsNext
    BY <2>1, DocsStay DEF AccountsInv, TypeInv, Types, HandlersTypeOK
  <2>3. Arrivals'
    BY <2>1 DEF AccountsInv, Arrivals, Arriving, At
  <2> QED
    BY <2>1, <2>2, <2>3, NoStep
<1>2. CASE Clock
  BY <1>2, CodeExpiryKeeps, DayKeeps DEF Clock
<1> QED
  BY <1>1, <1>2, BeginHolds, ContinueHolds, FailureKeeps DEF Next

LEMMA InvHolds == Spec => []AccountsInv
BY InitHolds, NextHolds, PTL DEF Spec

\* Everything the handlers carry is of the type the specification gives it.
LEMMA LocalsTyped == Locals \subseteq Local
<1> DEFINE steps == UserSteps \cup OtherSteps
<1>1. InsertTodos \cup {<<"insert", "code", "send">>} \subseteq Seq(steps) \ {<<>>}
  BY DEF InsertTodos, UserSteps, OtherSteps
<1>2. CodeTodos \cup TakeTodos \subseteq Seq(steps) \ {<<>>}
  BY DEF CodeTodos, TakeTodos, UserSteps, OtherSteps
<1>3. ApprovalTodos \cup RejectionTodos \subseteq Seq(steps) \ {<<>>}
  BY DEF ApprovalTodos, ReadyTodos, RejectionTodos, UserSteps, OtherSteps
<1>4. InvitationTodos \cup {<<"update">>} \subseteq Seq(steps) \ {<<>>}
  BY DEF InvitationTodos, UserSteps, OtherSteps
<1>5. StaffTodos \subseteq Seq(steps) \ {<<>>}
  BY <1>3, <1>4 DEF StaffTodos
<1>6. InsertLocal \cup SignupLocal \subseteq Local
  BY <1>1 DEF InsertLocal, SignupLocal, Local, Stored
<1>7. CodeLocal \subseteq Local
  BY <1>2 DEF CodeLocal, Local
<1>8. StaffLocal \cup TakeLocal \subseteq Local
  BY <1>2, <1>5 DEF StaffLocal, TakeLocal, Local
<1> QED
  BY <1>6, <1>7, <1>8 DEF Locals

\* Users, stylists, invites and codes, and what handlers carry, are of their types.
THEOREM AccountsTypes == Spec => []AccountsTypeOK
<1>1. AccountsInv => AccountsTypeOK
  BY LocalsTyped DEF AccountsInv, TypeInv, Types, Shaped, AccountsTypeOK
<1> QED
  BY <1>1, InvHolds, PTL

\* Whatever requests for codes overlap, a stored code that is sent is known to the
\* one it is for or about to be (sendSmsOtp, forgotPassword).
THEOREM CodesDoArrive == Spec => []CodesArrive
<1>1. AccountsInv => CodesArrive
  BY DEF AccountsInv, Arrivals, Arriving, CodesArrive
<1> QED
  BY <1>1, InvHolds, PTL

\* However approvals, acceptances and rejections overlap, a stylist whose document is
\* active has a password (approveStylist).
THEOREM ActiveStylistsHavePasswords == Spec => []ActiveStylistHasPassword
<1>1. AccountsInv => ActiveStylistHasPassword
  BY DEF AccountsInv
<1> QED
  BY <1>1, InvHolds, PTL
-----------------------------------------------------------------------------
(* Invites in turn, as long as handlers do not overlap.                     *)

\* The only handler, unless handlers have overlapped.
OneByOne ==
  overlapped \/ \A q, r \in Requests : request[q] # Idle /\ request[r] # Idle => q = r

\* One open invite at most, and none of a rejected stylist.
Orderly ==
  \A u \in Users :
    /\ \A i, j \in PendingOf(u) : i = j
    /\ user[u].status = "REJECTED" => PendingOf(u) = {}

Inserting == InsertTodos \cup {<<"insert", "code", "send">>}
Adding == {<<"draft", "invite">>, <<"invite">>}
Renewing == {<<"cancel", "invite">>}
Refusing == {<<"deactivate", "reject", "block">>, <<"reject", "block">>}
Turning == Inserting \cup Adding \cup Renewing \cup Refusing

\* A handler that is about to invite, or to reject, has seen to it that nothing is open,
\* and the one it invites is not rejected.
InTurn(local) ==
  /\ local.todo \in Inserting => local.doc.status # "REJECTED"
  /\ local.todo \in Adding => PendingOf(local.user) = {}
  /\ local.todo \in Adding \cup Renewing => user[local.user].status # "REJECTED"
  /\ local.todo \in Refusing => PendingOf(local.user) = {}

TurnInv == OneByOne /\ (overlapped \/ (Orderly /\ \A r \in Requests : InTurn(request[r])))

\* The head of what is left tells these apart from all others.
LEMMA TurningHeads ==
  /\ \A todo \in Inserting : Head(todo) = "insert"
  /\ \A todo \in Adding : Head(todo) \in {"draft", "invite"}
  /\ \A todo \in Renewing : Head(todo) = "cancel"
  /\ \A todo \in Refusing : Head(todo) \in {"deactivate", "reject"}
  /\ \A todo \in Turning : Len(todo) > 0
BY DEF Inserting, InsertTodos, Adding, Renewing, Refusing, Turning

LEMMA NotTurning ==
  /\ CodeTodos \cap Turning = {} /\ TakeTodos \cap Turning = {}
  /\ ApprovalTodos \cap Turning = {}
  /\ <<>> \notin Turning
  /\ <<"update">> \notin Turning /\ <<"pend", "cancel", "invite">> \notin Turning
  /\ <<"block">> \notin Turning /\ <<"draft">> \notin Turning
  /\ RejectionSteps \notin Turning
<1>1. \A todo \in Turning :
        Head(todo) \in {"insert", "draft", "invite", "cancel", "deactivate", "reject"}
  BY TurningHeads DEF Turning
<1>2. CodeTodos \cap Turning = {} /\ TakeTodos \cap Turning = {} /\ ApprovalTodos \cap Turning = {}
  BY <1>1, Heads
<1>3. <<>> \notin Turning
  <2>1. Len(<<>>) = 0
    OBVIOUS
  <2> QED
    BY <2>1, TurningHeads
<1>4. /\ Head(<<"update">>) = "update" /\ Head(<<"pend", "cancel", "invite">>) = "pend"
      /\ Head(<<"block">>) = "block"
  OBVIOUS
<1>5. <<"draft">> \notin Turning
  <2>1. Head(<<"draft">>) = "draft" /\ Len(<<"draft">>) = 1
    OBVIOUS
  <2>2. \A todo \in Adding : Head(todo) = "draft" => Len(todo) = 2
    BY DEF Adding
  <2> QED
    BY <2>1, <2>2, TurningHeads DEF Turning
<1>6. RejectionSteps \notin Turning
  <2>1. Head(RejectionSteps) = "cancel" /\ Len(RejectionSteps) = 4
    BY DEF RejectionSteps
  <2>2. \A todo \in Renewing : Len(todo) = 2
    BY DEF Renewing
  <2> QED
    BY <2>1, <2>2, TurningHeads DEF Turning
<1> QED
  BY <1>1, <1>2, <1>3, <1>4, <1>5, <1>6

\* Each kind of them apart.
LEMMA TurnsApart ==
  /\ Inserting \cap (Adding \cup Renewing \cup Refusing) = {}
  /\ Adding \cap (Renewing \cup Refusing) = {}
  /\ Renewing \cap Refusing = {}
  /\ Adding \cup Renewing \cup Refusing \subseteq StaffTodos
<1>1. Adding \cup Renewing \cup Refusing \subseteq StaffTodos
  BY DEF Adding, Renewing, Refusing, StaffTodos, InvitationTodos, RejectionTodos
<1> QED
  BY <1>1, TurningHeads

\* The call tells which calls follow.
LEMMA TurnHeads ==
  ASSUME NEW todo \in StaffTodos
  PROVE  /\ Head(todo) = "draft" => todo \in {<<"draft", "invite">>, <<"draft">>}
         /\ Head(todo) = "invite" => todo = <<"invite">>
         /\ Head(todo) = "cancel" => todo \in {RejectionSteps, <<"cancel", "invite">>}
         /\ Head(todo) = "deactivate" => todo = <<"deactivate", "reject", "block">>
         /\ Head(todo) = "reject" => todo = <<"reject", "block">>
         /\ Head(todo) = "block" => todo = <<"block">>
         /\ Head(todo) = "pend" => todo = <<"pend", "cancel", "invite">>
         /\ Head(todo) \in {"password", "activate", "approve"} =>
              todo \in ApprovalTodos /\ todo # <<"profile">>
<1>1. CASE todo \in ApprovalTodos
  <2>1. Head(<<"profile">>) = "profile"
    OBVIOUS
  <2> QED
    BY <1>1, <2>1, Heads
<1>2. CASE todo \in RejectionTodos
  BY <1>2 DEF RejectionTodos, RejectionSteps
<1>3. CASE todo \in InvitationTodos
  BY <1>3 DEF InvitationTodos
<1>4. CASE todo = <<"update">>
  BY <1>4
<1> QED
  BY <1>1, <1>2, <1>3, <1>4 DEF StaffTodos

LEMMA TurnTails ==
  /\ Tail(<<"draft", "invite">>) = <<"invite">> /\ Len(<<"draft">>) = 1
  /\ Len(<<"draft", "invite">>) = 2
  /\ Len(<<"invite">>) = 1
  /\ Tail(RejectionSteps) = <<"deactivate", "reject", "block">> /\ Len(RejectionSteps) = 4
  /\ Tail(<<"cancel", "invite">>) = <<"invite">> /\ Len(<<"cancel", "invite">>) = 2
  /\ Tail(<<"deactivate", "reject", "block">>) = <<"reject", "block">>
  /\ Tail(<<"reject", "block">>) = <<"block">>
  /\ Len(<<"block">>) = 1
  /\ Tail(<<"pend", "cancel", "invite">>) = <<"cancel", "invite">>
  /\ \A todo \in ApprovalTodos : Len(todo) = 1 \/ Tail(todo) \in ApprovalTodos
<1>1. /\ Tail(<<"draft", "invite">>) = <<"invite">> /\ Len(<<"draft">>) = 1
      /\ Len(<<"draft", "invite">>) = 2
      /\ Len(<<"invite">>) = 1
      /\ Tail(<<"cancel", "invite">>) = <<"invite">> /\ Len(<<"cancel", "invite">>) = 2
      /\ Tail(<<"deactivate", "reject", "block">>) = <<"reject", "block">>
      /\ Tail(<<"reject", "block">>) = <<"block">>
      /\ Len(<<"block">>) = 1
      /\ Tail(<<"pend", "cancel", "invite">>) = <<"cancel", "invite">>
  OBVIOUS
<1>2. Tail(RejectionSteps) = <<"deactivate", "reject", "block">> /\ Len(RejectionSteps) = 4
  BY DEF RejectionSteps
<1>3. \A todo \in ApprovalTodos : Len(todo) = 1 \/ Tail(todo) \in ApprovalTodos
  <2>1. /\ Tail(<<"password", "activate", "approve", "profile">>) = <<"activate", "approve", "profile">>
        /\ Tail(<<"activate", "approve", "profile">>) = <<"approve", "profile">>
        /\ Tail(<<"approve", "profile">>) = <<"profile">>
        /\ Len(<<"profile">>) = 1
    OBVIOUS
  <2> QED
    BY <2>1, Zenon DEF ApprovalTodos, ReadyTodos
<1> QED
  BY <1>1, <1>2, <1>3

-----------------------------------------------------------------------------
(* What a step has to show for the turns.                                   *)

OpenNext(u) == {i \in Invites : invite'[i].status = "PENDING" /\ invite'[i].user = u}

InTurnNext(local) ==
  /\ local.todo \in Inserting => local.doc.status # "REJECTED"
  /\ local.todo \in Adding => OpenNext(local.user) = {}
  /\ local.todo \in Adding \cup Renewing => user'[local.user].status # "REJECTED"
  /\ local.todo \in Refusing => OpenNext(local.user) = {}

\* No invite is opened and nobody is rejected.
NoneOpened == \A u \in Users : OpenNext(u) \subseteq PendingOf(u)
NoneRejected == \A u \in Users : user'[u].status = "REJECTED" => user[u].status = "REJECTED"

LEMMA OthersInTurn ==
  ASSUME NEW local, local.todo \notin Turning
  PROVE  InTurnNext(local)
BY DEF InTurnNext, Turning

LEMMA IdleInTurn == InTurnNext(Idle)
BY IdleHasNothing, NotTurning, OthersInTurn

LEMMA StaysOrderly ==
  ASSUME Orderly, NoneOpened, NoneRejected
  PROVE  Orderly'
<1>1. \A u \in Users : PendingOf(u)' = OpenNext(u)
  BY DEF PendingOf, OpenNext
<1> QED
  BY <1>1 DEF Orderly, NoneOpened, NoneRejected

LEMMA StaysInTurn ==
  ASSUME NEW local, Whose(local), InTurn(local), NoneOpened, NoneRejected
  PROVE  InTurnNext(local)
<1>1. local.todo \in Adding \cup Renewing \cup Refusing => local.user \in Users
  BY TurnsApart DEF Whose
<1> QED
  BY <1>1 DEF InTurn, InTurnNext, NoneOpened, NoneRejected

\* A handler begins or goes on while no other is in progress.
LEMMA TurnNext ==
  ASSUME AccountsInv, TurnInv, NEW r \in Requests, NEW local,
         request' = [request EXCEPT ![r] = local],
         \/ overlapped' = (overlapped \/ \E q \in Requests : request[q] # Idle)
         \/ request[r] # Idle /\ overlapped' = overlapped,
         ~overlapped => Orderly' /\ InTurnNext(local)
  PROVE  TurnInv'
<1>1. CASE overlapped'
  BY <1>1 DEF TurnInv, OneByOne
<1>2. CASE ~overlapped'
  <2>1. ~overlapped /\ \A q \in Requests \ {r} : request'[q] = Idle
    <3>1. ~overlapped
      BY <1>2
    <3>2. \A q \in Requests \ {r} : request'[q] = request[q]
      BY DEF AccountsInv, TypeInv, Shaped
    <3>3. \A q \in Requests \ {r} : request[q] = Idle
      BY <1>2, <3>1 DEF TurnInv, OneByOne
    <3> QED
      BY <3>1, <3>2, <3>3
  <2>2. request'[r] = local
    BY DEF AccountsInv, TypeInv, Shaped
  <2>3. OneByOne'
    BY <2>1 DEF OneByOne
  <2>4. \A q \in Requests : InTurnNext(request'[q])
    BY <2>1, <2>2, IdleInTurn
  <2>5. \A q \in Requests : InTurn(request[q])'
    BY <2>4 DEF InTurn, InTurnNext, PendingOf, OpenNext
  <2> QED
    BY <2>1, <2>3, <2>5 DEF TurnInv
<1> QED
  BY <1>1, <1>2

\* A handler of one call: there is no other, or they have overlapped.
LEMMA TurnAtOnce ==
  ASSUME AccountsInv, TurnInv, AtOnce, NoneOpened, NoneRejected
  PROVE  TurnInv'
<1>1. /\ UNCHANGED request
      /\ overlapped' = (overlapped \/ \E q \in Requests : request[q] # Idle)
  BY DEF AtOnce, Counted
<1>2. CASE overlapped'
  BY <1>2 DEF TurnInv, OneByOne
<1>3. CASE ~overlapped'
  <2>1. ~overlapped /\ \A q \in Requests : request'[q] = Idle
    BY <1>1, <1>3
  <2>2. \A q \in Requests : InTurn(request[q])'
    BY <2>1, IdleInTurn DEF InTurn, InTurnNext, PendingOf, OpenNext
  <2>3. OneByOne' /\ Orderly'
    BY <2>1, StaysOrderly DEF TurnInv, OneByOne
  <2> QED
    BY <2>2, <2>3 DEF TurnInv
<1> QED
  BY <1>2, <1>3

\* The day passes, or a code expires.
LEMMA TurnClock ==
  ASSUME AccountsInv, TurnInv, UNCHANGED <<request, overlapped>>, NoneOpened, NoneRejected
  PROVE  TurnInv'
<1>1. CASE overlapped
  BY <1>1 DEF TurnInv, OneByOne
<1>2. CASE ~overlapped
  <2>1. \A q \in Requests : InTurnNext(request[q])
    BY <1>2, StaysInTurn DEF TurnInv, AccountsInv, Backed
  <2>2. \A q \in Requests : InTurn(request[q])'
    BY <2>1 DEF InTurn, InTurnNext, PendingOf, OpenNext
  <2>3. OneByOne' /\ Orderly'
    BY <1>2, StaysOrderly DEF TurnInv, OneByOne
  <2> QED
    BY <2>2, <2>3 DEF TurnInv
<1> QED
  BY <1>1, <1>2

\* A call after which neither inviting nor rejecting is left.
LEMMA TurnEnds ==
  ASSUME AccountsInv, TurnInv, NEW r \in Requests, NEW local, request[r] # Idle,
         request' = [request EXCEPT ![r] = local], overlapped' = overlapped,
         local.todo \notin Turning, NoneOpened, NoneRejected
  PROVE  TurnInv'
BY TurnNext, OthersInTurn, StaysOrderly DEF TurnInv

\* Documents that stay, and invites that stay with users of the same status.
LEMMA NothingOpened == UNCHANGED invite => NoneOpened
BY DEF NoneOpened, OpenNext, PendingOf

LEMMA NobodyRejected == UNCHANGED user => NoneRejected
BY DEF NoneRejected

\* A handler begins that has no turn to wait for.
LEMMA TurnBegins ==
  ASSUME AccountsInv, TurnInv, NEW r \in Requests, NEW local, Accept(r, local),
         UNCHANGED docVars,
         \/ local.todo \notin Turning
         \/ local.todo \in Inserting /\ local.doc.status # "REJECTED"
  PROVE  TurnInv'
<1>1. NoneOpened /\ NoneRejected
  BY NothingOpened, NobodyRejected DEF docVars
<1>2. InTurnNext(local)
  BY OthersInTurn, TurnsApart DEF InTurnNext
<1>3. /\ request' = [request EXCEPT ![r] = local]
      /\ overlapped' = (overlapped \/ \E q \in Requests : request[q] # Idle)
  BY DEF Accept, Counted
<1> QED
  BY <1>1, <1>2, <1>3, TurnNext, StaysOrderly DEF TurnInv

-----------------------------------------------------------------------------
(* The turns of each route and call.                                        *)

\* New users are not rejected.
LEMMA ComingsTurn ==
  ASSUME AccountsInv, TurnInv, NEW r \in Requests,
         \/ \E email \in MaybeEmails, phone \in MaybePhones :
              Signup(r, email, phone) \/ ApplyAsStylist(r, email, phone)
         \/ \E email \in Emails : GoogleLogin(r, email) \/ CreateInvite(r, email)
  PROVE  TurnInv'
<1>1. /\ <<"insert">> \in Inserting /\ <<"insert", "code", "send">> \in Inserting
      /\ <<"insert", "draft">> \in Inserting /\ <<"insert", "draft", "invite">> \in Inserting
  BY DEF Inserting, InsertTodos
<1>2. ASSUME NEW doc, NEW key, NEW todo \in Inserting, doc.status # "REJECTED",
             Accept(r, Carry(None, doc, key, None, todo)), UNCHANGED docVars
      PROVE  TurnInv'
  <2>1. /\ Carry(None, doc, key, None, todo).todo = todo
        /\ Carry(None, doc, key, None, todo).doc = doc
    BY DEF Carry
  <2> QED
    BY <1>2, <2>1, TurnBegins
<1>3. \A email, phone :
        /\ NewUser(email, phone).status = "ACTIVE" /\ Applicant(email, phone).status = "APPLIED"
        /\ GoogleUser(email).status = "ACTIVE" /\ Invited(email).status = "PENDING"
  BY DEF NewUser, Applicant, GoogleUser, Invited, NoUser
<1>4. ASSUME NEW email \in MaybeEmails, NEW phone \in MaybePhones, Signup(r, email, phone)
      PROVE  TurnInv'
  <2> DEFINE key == <<"signup", IF email # None THEN email ELSE phone>>
  <2>1. PICK todo \in Inserting : Accept(r, Carry(None, NewUser(email, phone), key, None, todo))
    BY <1>1, <1>4 DEF Signup
  <2>2. UNCHANGED docVars /\ NewUser(email, phone).status # "REJECTED"
    BY <1>3, <1>4 DEF Signup
  <2> QED
    BY <1>2, <2>1, <2>2
<1>5. ASSUME NEW email \in MaybeEmails, NEW phone \in MaybePhones,
             ApplyAsStylist(r, email, phone)
      PROVE  TurnInv'
  BY <1>1, <1>2, <1>3, <1>5 DEF ApplyAsStylist
<1>6. ASSUME NEW email \in Emails, GoogleLogin(r, email) PROVE TurnInv'
  BY <1>1, <1>2, <1>3, <1>6 DEF GoogleLogin
<1>7. ASSUME NEW email \in Emails, CreateInvite(r, email) PROVE TurnInv'
  BY <1>1, <1>2, <1>3, <1>7 DEF CreateInvite
<1> QED
  BY <1>4, <1>5, <1>6, <1>7

\* Of the other handlers, none begins with a call that has to wait for its turn.
LEMMA OthersTurn ==
  ASSUME AccountsInv, TurnInv, NEW r \in Requests,
         \/ \E phone \in Phones : SendSmsOtp(r, phone)
         \/ \E email \in Emails : ForgotPassword(r, email)
         \/ \E key \in Keys : VerifyOtp(r, key)
         \/ \E i \in Invites, phone \in MaybePhones : AcceptInvite(r, i, phone)
         \/ \E u \in Users : SendInvite(r, u) \/ ApproveStylist(r, u) \/ RejectStylist(r, u)
         \/ \E u \in Users, email \in MaybeEmails, phone \in MaybePhones :
              UpdateProfile(r, u, email, phone)
  PROVE  TurnInv'
<1>1. ASSUME NEW u, NEW doc, NEW key, NEW i, NEW todo, todo \notin Turning,
             Accept(r, Carry(u, doc, key, i, todo)), UNCHANGED docVars
      PROVE  TurnInv'
  <2>1. Carry(u, doc, key, i, todo).todo = todo
    BY DEF Carry
  <2> QED
    BY <1>1, <2>1, TurnBegins
<1>2. /\ SmsSteps \notin Turning /\ <<"code", "send">> \notin Turning
      /\ <<"drop", "verify">> \notin Turning /\ <<"drop">> \notin Turning
      /\ <<"take", "accepted">> \notin Turning
  BY NotTurning DEF CodeTodos, TakeTodos, SmsSteps
<1>3. ASSUME NEW phone \in Phones, SendSmsOtp(r, phone) PROVE TurnInv'
  BY <1>1, <1>2, <1>3 DEF SendSmsOtp
<1>4. ASSUME NEW email \in Emails, ForgotPassword(r, email) PROVE TurnInv'
  BY <1>1, <1>2, <1>4 DEF ForgotPassword
<1>5. ASSUME NEW key \in Keys, VerifyOtp(r, key) PROVE TurnInv'
  BY <1>1, <1>2, <1>5 DEF VerifyOtp
<1>6. ASSUME NEW i \in Invites, NEW phone \in MaybePhones, AcceptInvite(r, i, phone)
      PROVE  TurnInv'
  BY <1>1, <1>2, <1>6 DEF AcceptInvite
<1>7. ASSUME NEW u \in Users, SendInvite(r, u) PROVE TurnInv'
  BY <1>1, <1>7, NotTurning DEF SendInvite
<1>8. ASSUME NEW u \in Users, ApproveStylist(r, u) PROVE TurnInv'
  <2>1. PICK todo : todo = ApprovalSteps(u)
    OBVIOUS
  <2>2. todo \notin Turning
    BY <2>1, ApprovalCalls, NotTurning
  <2>3. Accept(r, Carry(u, NoUser, None, None, todo)) /\ UNCHANGED docVars
    BY <1>8, <2>1 DEF ApproveStylist
  <2> QED
    BY <1>1, <2>2, <2>3
<1>9. ASSUME NEW u \in Users, RejectStylist(r, u) PROVE TurnInv'
  BY <1>1, <1>9, NotTurning DEF RejectStylist
<1>10. ASSUME NEW u \in Users, NEW email \in MaybeEmails, NEW phone \in MaybePhones,
              UpdateProfile(r, u, email, phone)
       PROVE  TurnInv'
  BY <1>1, <1>10, NotTurning DEF UpdateProfile
<1> QED
  BY <1>3, <1>4, <1>5, <1>6, <1>7, <1>8, <1>9, <1>10

\* Statuses stay when a field of a user's record is written that is none.
LEMMA StatusKept ==
  ASSUME NEW doc \in UserRecord
  PROVE  /\ [doc EXCEPT !.password = TRUE].status = doc.status
         /\ [doc EXCEPT !.active = TRUE].status = doc.status
         /\ [doc EXCEPT !.active = FALSE].status = doc.status
         /\ [doc EXCEPT !.blocked = TRUE].status = doc.status
         /\ \A new \in BOOLEAN : [doc EXCEPT !.blocked = new].status = doc.status
         /\ \A local \in UserRecord : WithContacts(doc, local).status = doc.status
         /\ \A c : Verified(doc, c).status = "ACTIVE"
         /\ \A phone : Completed(doc, phone).status = "ACCEPTED"
BY DEF UserRecord, WithContacts, Verified, Completed

\* Handlers of one call reject nobody and open nothing.
LEMMA AtOnceTurn ==
  ASSUME AccountsInv, TurnInv,
         \/ \E email \in Emails : ResendEmailOtp(email) \/ ResetPassword(email)
         \/ \E i \in Invites : ExpireInvite(i)
         \/ StylistCalls
  PROVE  TurnInv'
<1>1. user \in [Users -> UserRecord] /\ invite \in [Invites -> InviteRecord]
  BY DEF AccountsInv, TypeInv, Types
<1>2. ASSUME NEW email \in Emails, ResendEmailOtp(email) PROVE TurnInv'
  BY <1>2, TurnAtOnce, NothingOpened, NobodyRejected DEF ResendEmailOtp, docVars
<1>3. ASSUME NEW email \in Emails, ResetPassword(email) PROVE TurnInv'
  <2>1. AtOnce /\ UNCHANGED invite
        /\ \A u \in Users : \/ user'[u] = user[u]
                            \/ user'[u] = [user[u] EXCEPT !.password = TRUE]
    BY <1>3 DEF ResetPassword
  <2>2. NoneRejected
    BY <1>1, <2>1, StatusKept DEF NoneRejected
  <2> QED
    BY <2>1, <2>2, NothingOpened, TurnAtOnce
<1>4. ASSUME NEW i \in Invites, ExpireInvite(i) PROVE TurnInv'
  <2>1. AtOnce /\ UNCHANGED user /\ invite' = [invite EXCEPT ![i].status = "EXPIRED"]
    BY <1>4 DEF ExpireInvite
  <2>2. \A j \in Invites : invite'[j].status = "PENDING" => invite'[j] = invite[j]
    BY <1>1, <2>1 DEF InviteRecord
  <2>3. NoneOpened
    BY <2>2 DEF NoneOpened, OpenNext, PendingOf
  <2> QED
    BY <2>1, <2>3, NobodyRejected, TurnAtOnce
<1>5. ASSUME NEW u \in Users, ToggleBlock(u) PROVE TurnInv'
  <2>1. /\ AtOnce /\ UNCHANGED invite
        /\ user' = [user EXCEPT ![u] = [user[u] EXCEPT !.blocked = ~user[u].blocked]]
    BY <1>5 DEF ToggleBlock
  <2>2. user[u].blocked \in BOOLEAN
    BY <1>1 DEF UserRecord
  <2>3. NoneRejected
    BY <1>1, <2>1, <2>2, StatusKept DEF NoneRejected
  <2> QED
    BY <2>1, <2>3, NothingOpened, TurnAtOnce
<1> QED
  BY <1>2, <1>3, <1>4, <1>5 DEF StylistCalls

\* What is left to a handler of each kind has no turn to wait for.
LEMMA PlainLeft ==
  /\ \A local \in CodeLocal : Rest(local).todo \notin Turning
  /\ \A local \in TakeLocal : Rest(local).todo \notin Turning
  /\ Idle.todo \notin Turning
<1>1. Idle.todo \notin Turning
  BY IdleHasNothing, NotTurning
<1>2. \A local \in CodeLocal : local.todo \notin Turning
  BY NotTurning DEF CodeLocal
<1>3. \A local \in TakeLocal : local.todo \notin Turning
  BY NotTurning DEF TakeLocal
<1> QED
  BY <1>1, <1>2, <1>3, RestCode, RestTake

\* Calls about codes.
LEMMA CodesTurn ==
  ASSUME AccountsInv, TurnInv, NEW r \in Requests,
         StoreCode(r) \/ SendCode(r) \/ DropCode(r) \/ MarkVerified(r)
  PROVE  TurnInv'
<1>1. /\ request[r] # Idle /\ Advance(r) /\ UNCHANGED invite
      /\ Head(request[r].todo) \in {"code", "send", "drop", "verify"}
  BY DEF StoreCode, SendCode, DropCode, MarkVerified, At, docVars
<1>2. Rest(request[r]).todo \notin Turning
  BY <1>1, Carrying, PlainLeft DEF AccountsInv, TypeInv
<1>3. NoneRejected
  <2>1. \A u \in Users : user[u] \in UserRecord
    BY DEF AccountsInv, TypeInv, Types
  <2>2. UNCHANGED user \/ \A u \in Users : user'[u] = user[u] \/ \E c : user'[u] = Verified(user[u], c)
    BY DEF StoreCode, SendCode, DropCode, MarkVerified, docVars
  <2> QED
    BY <2>1, <2>2, StatusKept DEF NoneRejected
<1> QED
  BY <1>1, <1>2, <1>3, NothingOpened, TurnEnds DEF Advance, Continues

\* A user comes, who has no invite yet.
LEMMA InsertTurn ==
  ASSUME AccountsInv, TurnInv, NEW r \in Requests, NEW u \in Users, InsertUser(r, u)
  PROVE  TurnInv'
<1> DEFINE placed == [request[r] EXCEPT !.user = u]
<1>1. /\ request[r] # Idle /\ Head(request[r].todo) = "insert" /\ UNCHANGED invite
      /\ ~Exists(u) /\ user' = [user EXCEPT ![u] = request[r].doc]
      /\ request' = [request EXCEPT ![r] = Rest(placed)] /\ overlapped' = overlapped
  BY DEF InsertUser, At, Continues
<1>2. request[r] \in InsertLocal \cup SignupLocal
  BY <1>1, Carrying DEF AccountsInv, TypeInv
<1>3. PendingOf(u) = {}
  BY <1>1 DEF AccountsInv, InvitesNamed, PendingOf
<1>4. OpenNext(u) = {}
  BY <1>1, <1>3 DEF OpenNext, PendingOf
<1>5. request[r].todo \in Inserting
  BY <1>2 DEF InsertLocal, SignupLocal, Inserting
<1>6. user \in [Users -> UserRecord]
  BY DEF AccountsInv, TypeInv, Types
<1>7. ASSUME ~overlapped PROVE Orderly' /\ InTurnNext(Rest(placed))
  <2>1. request[r].doc.status # "REJECTED"
    BY <1>5, <1>7 DEF TurnInv, InTurn
  <2>2. NoneOpened /\ user'[u].status # "REJECTED" /\ NoneRejected
    BY <1>1, <1>6, <2>1, NothingOpened DEF NoneRejected
  <2>3. Orderly'
    BY <1>7, <2>2, StaysOrderly DEF TurnInv
  <2>4. CASE Rest(placed) = Idle \/ Rest(placed) \in CodeLocal
    <3>1. Rest(placed).todo \notin Turning
      BY <2>4, IdleHasNothing, NotTurning DEF CodeLocal
    <3> QED
      BY <2>3, <3>1, OthersInTurn
  <2>5. CASE /\ Rest(placed) \in StaffLocal /\ Rest(placed).user = u
             /\ Rest(placed).todo \in InvitationTodos
    <3>1. Rest(placed).todo \notin Inserting \cup Refusing
      BY <2>5, Heads, TurningHeads
    <3> QED
      BY <1>4, <2>2, <2>3, <2>5, <3>1 DEF InTurnNext
  <2> QED
    BY <1>2, <2>4, <2>5, RestInsert
<1> HIDE DEF placed
<1> QED
  BY <1>1, <1>7, TurnNext

LEMMA RefusalTurn ==
  ASSUME AccountsInv, TurnInv, NEW r \in Requests, InsertRefused(r) \/ RequestFails(r)
  PROVE  TurnInv'
<1>1. /\ request[r] # Idle /\ UNCHANGED <<user, invite>>
      /\ request' = [request EXCEPT ![r] = Idle] /\ overlapped' = overlapped
  BY DEF InsertRefused, RequestFails, Cut, Throw, Continues, At, docVars
<1> QED
  BY <1>1, PlainLeft, NothingOpened, NobodyRejected, TurnEnds

\* A handler about a stylist, and what is left to it.
LEMMA StaffLeft ==
  ASSUME AccountsInv, NEW r \in Requests, request[r] # Idle,
         Head(request[r].todo) \in UserSteps \cup {"draft", "cancel", "invite", "profile", "update"}
  PROVE  /\ request[r] \in StaffLocal /\ request[r].user \in Users
         /\ request[r].todo \in StaffTodos
         /\ \/ Rest(request[r]) = Idle
            \/ /\ Rest(request[r]).todo = Tail(request[r].todo)
               /\ Rest(request[r]).user = request[r].user
         /\ Len(request[r].todo) = 1 => Rest(request[r]) = Idle
<1>1. request[r] \in StaffLocal
  BY Carrying DEF AccountsInv, TypeInv
<1> QED
  BY <1>1, RestStaff DEF StaffLocal, Rest

LEMMA DraftTurn ==
  ASSUME AccountsInv, TurnInv, NEW r \in Requests, InsertDraft(r)
  PROVE  TurnInv'
<1> DEFINE local == Rest(request[r])
<1>1. /\ request[r] # Idle /\ Head(request[r].todo) = "draft" /\ UNCHANGED <<user, invite>>
      /\ request' = [request EXCEPT ![r] = local] /\ overlapped' = overlapped
  BY DEF InsertDraft, At, Advance, Continues
<1>2. NoneOpened /\ NoneRejected
  BY <1>1, NothingOpened, NobodyRejected
<1>3. ASSUME ~overlapped PROVE Orderly' /\ InTurnNext(local)
  <2>1. Orderly' /\ InTurn(request[r])
    BY <1>2, <1>3, StaysOrderly DEF TurnInv
  <2>2. CASE local = Idle
    BY <2>1, <2>2, IdleInTurn
  <2>3. CASE local # Idle
    <3>1. /\ request[r].user \in Users /\ local.user = request[r].user
          /\ local.todo = Tail(request[r].todo) /\ request[r].todo # <<"draft">>
          /\ request[r].todo \in StaffTodos
      BY <1>1, <2>3, StaffLeft, TurnTails
    <3>2. request[r].todo = <<"draft", "invite">> /\ local.todo = <<"invite">>
      BY <1>1, <3>1, TurnHeads, TurnTails
    <3>3. request[r].todo \in Adding /\ local.todo \in Adding
      BY <3>2 DEF Adding
    <3>4. InTurnNext(local)
      BY <1>2, <2>1, <3>1, <3>3, TurnsApart DEF InTurn, InTurnNext, NoneOpened, NoneRejected
    <3> QED
      BY <2>1, <3>4
  <2> QED
    BY <2>2, <2>3
<1> HIDE DEF local
<1> QED
  BY <1>1, <1>3, TurnNext

\* An invite is opened for one who has none.
LEMMA InviteTurn ==
  ASSUME AccountsInv, TurnInv, NEW r \in Requests, NEW i \in Invites, InsertInvite(r, i)
  PROVE  TurnInv'
<1>1. PICK u : u = request[r].user
  OBVIOUS
<1>2. /\ request[r] # Idle /\ Head(request[r].todo) = "invite" /\ UNCHANGED user
      /\ invite' = [invite EXCEPT ![i] = [status |-> "PENDING", user |-> u, due |-> FALSE]]
      /\ request' = [request EXCEPT ![r] = Rest(request[r])] /\ overlapped' = overlapped
  BY <1>1 DEF InsertInvite, At, Advance, Continues
<1>3. u \in Users /\ request[r].todo = <<"invite">> /\ Rest(request[r]) = Idle
  BY <1>1, <1>2, StaffLeft, TurnHeads, TurnTails
<1>4. invite \in [Invites -> InviteRecord]
  BY DEF AccountsInv, TypeInv, Types
<1>5. ASSUME ~overlapped PROVE Orderly'
  <2>1. Orderly /\ PendingOf(u) = {} /\ user[u].status # "REJECTED"
    BY <1>1, <1>3, <1>5 DEF TurnInv, InTurn, Adding
  <2>2. OpenNext(u) \subseteq {i}
    BY <1>2, <1>4, <2>1 DEF OpenNext, PendingOf
  <2>3. ASSUME NEW v \in Users, v # u PROVE OpenNext(v) \subseteq PendingOf(v)
    BY <1>2, <1>4, <2>3 DEF OpenNext, PendingOf
  <2>4. \A v \in Users : PendingOf(v)' = OpenNext(v)
    BY DEF PendingOf, OpenNext
  <2>5. ASSUME NEW v \in Users
        PROVE  /\ \A j, k \in OpenNext(v) : j = k
               /\ user'[v].status = "REJECTED" => OpenNext(v) = {}
    <3>1. CASE v = u
      BY <1>2, <2>1, <2>2, <3>1
    <3>2. CASE v # u
      BY <1>2, <2>1, <2>3, <3>2 DEF Orderly
    <3> QED
      BY <3>1, <3>2
  <2> QED
    BY <2>4, <2>5 DEF Orderly
<1> QED
  BY <1>2, <1>3, <1>5, IdleInTurn, TurnNext

\* The open invites of one stylist are closed.
LEMMA CancelTurn ==
  ASSUME AccountsInv, TurnInv, NEW r \in Requests, Cancel(r)
  PROVE  TurnInv'
<1>1. PICK u : u = request[r].user
  OBVIOUS
<1>2. PICK local : local = Rest(request[r])
  OBVIOUS
<1>3. /\ request[r] # Idle /\ Head(request[r].todo) = "cancel" /\ UNCHANGED user
      /\ invite' = [i \in Invites |-> IF i \in PendingOf(u)
                                      THEN [invite[i] EXCEPT !.status = "CANCELLED"] ELSE invite[i]]
      /\ request' = [request EXCEPT ![r] = local] /\ overlapped' = overlapped
  BY <1>1, <1>2 DEF Cancel, CancelInvites, At, Advance, Continues
<1>4. invite \in [Invites -> InviteRecord]
  BY DEF AccountsInv, TypeInv, Types
<1>5. \A i \in Invites :
        /\ i \in PendingOf(u) => invite'[i].status # "PENDING"
        /\ i \notin PendingOf(u) => invite'[i] = invite[i]
  BY <1>3, <1>4 DEF InviteRecord
<1>6. NoneOpened /\ OpenNext(u) = {}
  BY <1>5 DEF NoneOpened, OpenNext, PendingOf
<1>7. NoneRejected
  BY <1>3, NobodyRejected
<1>8. ASSUME ~overlapped PROVE Orderly' /\ InTurnNext(local)
  <2>1. Orderly' /\ InTurn(request[r])
    BY <1>6, <1>7, <1>8, StaysOrderly DEF TurnInv
  <2>2. /\ u \in Users /\ request[r].todo \in StaffTodos
        /\ local = Idle \/ (local.todo = Tail(request[r].todo) /\ local.user = u)
    BY <1>1, <1>2, <1>3, StaffLeft
  <2>3. CASE local = Idle
    BY <2>1, <2>3, IdleInTurn
  <2>4. CASE local # Idle /\ request[r].todo = RejectionSteps
    <3>1. local.todo \in Refusing
      BY <2>2, <2>4, TurnTails DEF Refusing
    <3> QED
      BY <1>6, <2>1, <2>2, <2>4, <3>1, TurnsApart DEF InTurnNext
  <2>5. CASE local # Idle /\ request[r].todo = <<"cancel", "invite">>
    <3>1. local.todo \in Adding /\ request[r].todo \in Renewing
      BY <2>2, <2>5, TurnTails DEF Adding, Renewing
    <3>2. user'[u].status # "REJECTED"
      BY <1>1, <1>3, <2>1, <3>1 DEF InTurn
    <3> QED
      BY <1>6, <2>1, <2>2, <2>5, <3>1, <3>2, TurnsApart DEF InTurnNext
  <2> QED
    BY <1>3, <2>2, <2>3, <2>4, <2>5, TurnHeads
<1> QED
  BY <1>3, <1>8, TurnNext

LEMMA TakeTurn ==
  ASSUME AccountsInv, TurnInv, NEW r \in Requests, TakeInvite(r) \/ MarkAccepted(r)
  PROVE  TurnInv'
<1>1. /\ user \in [Users -> UserRecord] /\ invite \in [Invites -> InviteRecord]
      /\ request[r] # Idle /\ request[r] \in TakeLocal
  BY Carrying DEF AccountsInv, TypeInv, Types, TakeInvite, MarkAccepted, At
<1>2. PICK local \in {Idle, Rest(request[r])} :
        request' = [request EXCEPT ![r] = local] /\ overlapped' = overlapped
  BY DEF TakeInvite, MarkAccepted, Advance, Throw, Continues
<1>3. local.todo \notin Turning
  BY <1>1, <1>2, PlainLeft
<1>4. NoneOpened
  <2>1. CASE TakeInvite(r)
    BY <2>1, NothingOpened DEF TakeInvite
  <2>2. CASE MarkAccepted(r)
    <3>1. \A i \in Invites : invite'[i].status = "PENDING" => invite'[i] = invite[i]
      BY <1>1, <2>2 DEF MarkAccepted, InviteRecord
    <3> QED
      BY <3>1 DEF NoneOpened, OpenNext, PendingOf
  <2> QED
    BY <2>1, <2>2
<1>5. NoneRejected
  <2>1. \/ UNCHANGED user
        \/ user' = [user EXCEPT ![request[r].user] =
                      Completed(user[request[r].user], request[r].doc.phone)]
    BY DEF TakeInvite, MarkAccepted
  <2>2. request[r].user \in Users
    BY <1>1 DEF TakeLocal
  <2>3. user[request[r].user] \in UserRecord
    BY <1>1, <2>2
  <2>4. Completed(user[request[r].user], request[r].doc.phone).status = "ACCEPTED"
    BY <2>3, StatusKept
  <2> QED
    BY <1>1, <2>1, <2>2, <2>4 DEF NoneRejected
<1> QED
  BY <1>1, <1>2, <1>3, <1>4, <1>5, TurnEnds

\* Profiles have no status that counts.
LEMMA ProfilesTurn ==
  ASSUME AccountsInv, TurnInv, NEW r \in Requests, ActivateProfile(r) \/ WriteProfile(r)
  PROVE  TurnInv'
<1>1. /\ request[r] # Idle /\ Head(request[r].todo) \in {"profile", "update"}
      /\ request' = [request EXCEPT ![r] = Rest(request[r])] /\ overlapped' = overlapped
      /\ UNCHANGED invite
  BY DEF ActivateProfile, WriteProfile, At, Advance, Continues
<1>2. request[r] \in StaffLocal /\ request[r].user \in Users /\ request[r].todo \in StaffTodos
  BY <1>1, StaffLeft
<1>3. Rest(request[r]) = Idle
  <2>1. Len(<<"profile">>) = 1 /\ Len(<<"update">>) = 1
    OBVIOUS
  <2>2. request[r].todo \in {<<"profile">>, <<"update">>}
    BY <1>1, <1>2, StaffHeads
  <2> QED
    BY <1>1, <2>1, <2>2, StaffLeft
<1>4. NoneRejected
  <2>1. request[r].doc \in UserRecord /\ user \in [Users -> UserRecord]
    BY <1>2 DEF StaffLocal, AccountsInv, TypeInv, Types
  <2>2. user[request[r].user] \in UserRecord
    BY <1>2, <2>1
  <2>3. WithContacts(user[request[r].user], request[r].doc).status = user[request[r].user].status
    BY <2>1, <2>2, StatusKept
  <2>4. \/ UNCHANGED user
        \/ user' = [user EXCEPT ![request[r].user] =
                      WithContacts(user[request[r].user], request[r].doc)]
    BY DEF ActivateProfile, WriteProfile
  <2> QED
    BY <1>2, <2>1, <2>3, <2>4 DEF NoneRejected
<1> QED
  BY <1>1, <1>3, <1>4, NothingOpened, PlainLeft, TurnEnds

\* What becomes of a status.
LEMMA StatusWritten ==
  ASSUME NEW doc \in UserRecord
  PROVE  /\ \A step \in UserSteps \ {"approve", "reject", "pend"} :
              Written(step, doc).status = doc.status
         /\ Written("approve", doc).status = "ACTIVE"
         /\ Written("reject", doc).status = "REJECTED"
         /\ Written("pend", doc).status = "PENDING"
BY DEF UserRecord, UserSteps, Written

\* A rejection has closed what was open; an invitation has set the status.
LEMMA WriteTurn ==
  ASSUME AccountsInv, TurnInv, NEW r \in Requests, WriteUser(r)
  PROVE  TurnInv'
<1>1. PICK u : u = request[r].user
  OBVIOUS
<1>2. PICK local : local = Rest(request[r])
  OBVIOUS
<1>3. PICK step \in UserSteps :
        /\ request[r] # Idle /\ Head(request[r].todo) = step
        /\ user' = [user EXCEPT ![u] = Written(step, user[u])]
  BY <1>1 DEF WriteUser, At
<1>4. /\ UNCHANGED invite
      /\ request' = [request EXCEPT ![r] = local] /\ overlapped' = overlapped
  BY <1>2 DEF WriteUser, Advance, Continues
<1>5. /\ u \in Users /\ request[r].todo \in StaffTodos
      /\ local = Idle \/ (local.todo = Tail(request[r].todo) /\ local.user = u)
      /\ Len(request[r].todo) = 1 => local = Idle
  BY <1>1, <1>2, <1>3, StaffLeft
<1>6. user \in [Users -> UserRecord] /\ user[u] \in UserRecord
  BY <1>5 DEF AccountsInv, TypeInv, Types
<1>7. NoneOpened /\ OpenNext(u) \subseteq PendingOf(u)
  BY <1>4, <1>5, NothingOpened DEF NoneOpened
<1>8. user'[u] = Written(step, user[u]) /\ \A v \in Users \ {u} : user'[v] = user[v]
  BY <1>3, <1>5, <1>6
<1>9. ASSUME ~overlapped, step # "reject" PROVE Orderly' /\ NoneRejected
  <2>1. NoneRejected
    BY <1>6, <1>8, <1>9, StatusWritten DEF NoneRejected
  <2> QED
    BY <1>7, <1>9, <2>1, StaysOrderly DEF TurnInv
<1>10. ASSUME ~overlapped PROVE Orderly' /\ InTurnNext(local)
  <2>1. Orderly /\ InTurn(request[r])
    BY <1>10 DEF TurnInv
  <2>2. CASE step \in {"password", "activate", "approve"}
    <3>1. request[r].todo \in ApprovalTodos
      BY <1>3, <1>5, <2>2, TurnHeads
    <3>2. local.todo \notin Turning
      BY <1>5, <3>1, TurnTails, NotTurning, PlainLeft
    <3> QED
      BY <1>9, <1>10, <2>2, <3>2, OthersInTurn
  <2>3. CASE step = "deactivate"
    <3>1. request[r].todo = <<"deactivate", "reject", "block">>
      BY <1>3, <1>5, <2>3, TurnHeads
    <3>2. OpenNext(u) = {}
      BY <1>1, <1>7, <2>1, <3>1 DEF InTurn, Refusing
    <3>3. local = Idle \/ (local.user = u /\ local.todo \in Refusing)
      BY <1>5, <3>1, TurnTails DEF Refusing
    <3>4. InTurnNext(local)
      BY <3>2, <3>3, IdleInTurn, TurnsApart DEF InTurnNext
    <3> QED
      BY <1>9, <1>10, <2>3, <3>4
  <2>4. CASE step = "reject"
    <3>1. request[r].todo = <<"reject", "block">>
      BY <1>3, <1>5, <2>4, TurnHeads
    <3>2. OpenNext(u) = {}
      BY <1>1, <1>7, <2>1, <3>1 DEF InTurn, Refusing
    <3>3. local.todo \notin Turning
      BY <1>5, <3>1, TurnTails, NotTurning, PlainLeft
    <3>4. \A v \in Users : PendingOf(v)' = OpenNext(v)
      BY DEF PendingOf, OpenNext
    <3>5. \A v \in Users :
            /\ \A i, j \in OpenNext(v) : i = j
            /\ user'[v].status = "REJECTED" => OpenNext(v) = {}
      BY <1>7, <1>8, <2>1, <3>2 DEF Orderly, NoneOpened
    <3>6. Orderly'
      BY <3>4, <3>5 DEF Orderly
    <3> QED
      BY <3>3, <3>6, OthersInTurn
  <2>5. CASE step = "block"
    <3>1. local = Idle
      BY <1>3, <1>5, <2>5, TurnHeads, TurnTails
    <3> QED
      BY <1>9, <1>10, <2>5, <3>1, IdleInTurn
  <2>6. CASE step = "pend"
    <3>1. request[r].todo = <<"pend", "cancel", "invite">>
      BY <1>3, <1>5, <2>6, TurnHeads
    <3>2. local = Idle \/ (local.user = u /\ local.todo \in Renewing)
      BY <1>5, <3>1, TurnTails DEF Renewing
    <3>3. user'[u].status # "REJECTED"
      BY <1>6, <1>8, <2>6, StatusWritten
    <3>4. InTurnNext(local)
      BY <3>2, <3>3, IdleInTurn, TurnsApart DEF InTurnNext
    <3> QED
      BY <1>9, <1>10, <2>6, <3>4
  <2> QED
    BY <2>2, <2>3, <2>4, <2>5, <2>6 DEF UserSteps
<1> QED
  BY <1>3, <1>4, <1>10, TurnNext

LEMMA ClockTurn ==
  ASSUME AccountsInv, TurnInv, Clock
  PROVE  TurnInv'
<1>1. UNCHANGED <<user, request, overlapped>>
  BY DEF Clock, CodeExpires, InvitePasses, docVars, handlerVars
<1>2. NoneOpened
  <2>1. CASE \E key \in Keys : CodeExpires(key)
    BY <2>1, NothingOpened DEF CodeExpires, docVars
  <2>2. ASSUME NEW i \in Invites, InvitePasses(i) PROVE NoneOpened
    <3>1. invite' = [invite EXCEPT ![i].due = TRUE] /\ invite \in [Invites -> InviteRecord]
      BY <2>2 DEF InvitePasses, AccountsInv, TypeInv, Types
    <3>2. \A j \in Invites :
            invite'[j].status = invite[j].status /\ invite'[j].user = invite[j].user
      BY <3>1 DEF InviteRecord
    <3> QED
      BY <3>2 DEF NoneOpened, OpenNext, PendingOf
  <2> QED
    BY <2>1, <2>2 DEF Clock
<1> QED
  BY <1>1, <1>2, NobodyRejected, TurnClock

LEMMA BeginTurn ==
  ASSUME AccountsInv, TurnInv, NEW r \in Requests, Begin(r)
  PROVE  TurnInv'
<1>1. CASE SignupCalls(r)
  BY <1>1, ComingsTurn, OthersTurn, AtOnceTurn DEF SignupCalls
<1>2. CASE ResetCalls(r)
  BY <1>2, OthersTurn, AtOnceTurn DEF ResetCalls
<1>3. CASE AccountCalls(r)
  BY <1>3, ComingsTurn, OthersTurn DEF AccountCalls
<1>4. CASE InviteCalls(r)
  BY <1>4, ComingsTurn, OthersTurn, AtOnceTurn DEF InviteCalls
<1>5. CASE StylistCalls
  BY <1>5, AtOnceTurn
<1> QED
  BY <1>1, <1>2, <1>3, <1>4, <1>5 DEF Begin

LEMMA TurnHolds == AccountsInv /\ TurnInv /\ [Next]_vars => TurnInv'
<1> SUFFICES ASSUME AccountsInv, TurnInv, [Next]_vars PROVE TurnInv'
  OBVIOUS
<1>1. CASE UNCHANGED vars
  BY <1>1, NothingOpened, NobodyRejected, TurnClock DEF vars, docVars, handlerVars
<1>2. ASSUME NEW r \in Requests, Continue(r) PROVE TurnInv'
  BY <1>2, CodesTurn, InsertTurn, RefusalTurn, DraftTurn, InviteTurn, CancelTurn, TakeTurn,
     WriteTurn, ProfilesTurn DEF Continue
<1> QED
  BY <1>1, <1>2, BeginTurn, RefusalTurn, ClockTurn DEF Next

LEMMA TurnStarts == Init => TurnInv
<1> SUFFICES ASSUME Init PROVE TurnInv
  OBVIOUS
<1>1. \A r \in Requests : request[r] = Idle
  BY DEF Init, HandlersInit
<1>2. \A u \in Users : PendingOf(u) = {} /\ user[u].status = "NONE"
  BY DEF Init, NoInvite, NoUser, PendingOf
<1>3. \A r \in Requests : InTurn(request[r])
  BY <1>1, IdleHasNothing, NotTurning DEF InTurn, Turning
<1> QED
  BY <1>1, <1>2, <1>3 DEF TurnInv, OneByOne, Orderly

\* While handlers do not overlap, and wherever they are cut short, a stylist has one open
\* invite at most, and none once rejected (sendInviteToAppliedStylist, rejectStylist).
THEOREM InvitesTakeTurns == Spec => []InvitesInTurn
<1>1. Spec => [](AccountsInv /\ TurnInv)
  BY InitHolds, NextHolds, TurnStarts, TurnHolds, PTL DEF Spec
<1>2. TurnInv => InvitesInTurn
  <2>1. ASSUME NEW u \in Users, \A i, j \in PendingOf(u) : i = j
        PROVE  Cardinality(PendingOf(u)) <= 1
    <3>1. CASE PendingOf(u) = {}
      BY <3>1, FS_EmptySet
    <3>2. CASE PendingOf(u) # {}
      <4>1. PICK i : PendingOf(u) = {i}
        BY <2>1, <3>2
      <4> QED
        BY <4>1, FS_Singleton
    <3> QED
      BY <3>1, <3>2
  <2> QED
    BY <2>1 DEF TurnInv, Orderly, InvitesInTurn
<1> QED
  BY <1>1, <1>2, PTL
=============================================================================
