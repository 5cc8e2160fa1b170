-------------------------------- MODULE Wallet --------------------------------
(***************************************************************************)
(* The customers' wallets: a balance document per customer, a collection   *)
(* of transaction records, and the payment documents of top-up orders.     *)
(*                                                                         *)
(* Requests run at the same time and interleave where they await a         *)
(* database call; one action is one awaited call with the code that        *)
(* follows it.  A movement of money is an increment of the balance and,    *)
(* one call later, a record; nothing ties the two together.                *)
(***************************************************************************)
EXTENDS Integers, FiniteSetsExt

CONSTANTS
  Users,        \* customers
  Amounts,      \* the amounts of credits, debits and top-ups
  Orders,       \* ids of top-up orders
  Requests,     \* slots for requests in progress at the same time
  MaxRequests,  \* bound: requests served in one behaviour
  MaxFaults     \* bound: requests cut short in one behaviour

\* Amounts are numbers of the language, and the process has finitely many
\* requests in memory, at least one when something happens.
ASSUME AmountsAssumption == Amounts \subseteq Nat \ {0} /\ IsFiniteSet(Amounts)
ASSUME RequestsAssumption == IsFiniteSet(Requests) /\ Requests # {}
ASSUME BoundsAssumption == MaxRequests \in Nat /\ MaxFaults \in Nat

VARIABLES
  wallet,    \* the wallet collection, at most one document per customer
  records,   \* per customer, the sums of the recorded credits and debits
  topup,     \* the payment documents of top-up orders
  pc,        \* the next awaited call of each request
  arg,       \* what each request works on
  credited,  \* history: how often a top-up was added to a balance
  begun,     \* how much of MaxRequests is used up
  faults     \* how much of MaxFaults is used up

db == <<wallet, records, topup, credited>>
vars == <<wallet, records, topup, pc, arg, credited, begun, faults>>

NoOrder == "no order"

\* The ids of orders are given by the gateway.
ASSUME OrdersAssumption == NoOrder \notin Orders

Kinds == {"open", "credit", "debit", "order"}
Labels == {"idle", "get", "ensure", "create", "move", "record", "insert", "mark"}
WalletRecord == [exists : BOOLEAN, balance : Int]
RecordSums == [credit : Nat, debit : Nat]
TopupRecord == [state : {"NONE", "PENDING", "COMPLETED"}, u : Users, amount : Nat]
LocalData == [kind : Kinds, u : Users, amount : Nat, o : Orders \cup {NoOrder}]

TypeOK ==
  /\ wallet \in [Users -> WalletRecord]
  /\ records \in [Users -> RecordSums]
  /\ topup \in [Orders -> TopupRecord]
  /\ pc \in [Requests -> Labels]
  /\ arg \in [Requests -> LocalData]
  /\ credited \in [Orders -> Nat]
  /\ begun \in Nat /\ faults \in Nat

Init ==
  /\ wallet = [u \in Users |-> [exists |-> FALSE, balance |-> 0]]
  /\ records = [u \in Users |-> [credit |-> 0, debit |-> 0]]
  /\ \E u \in Users :
       /\ topup = [o \in Orders |-> [state |-> "NONE", u |-> u, amount |-> 0]]
       /\ arg = [r \in Requests |-> [kind |-> "open", u |-> u, amount |-> 0, o |-> NoOrder]]
  /\ pc = [r \in Requests |-> "idle"]
  /\ credited = [o \in Orders |-> 0]
  /\ begun = 0 /\ faults = 0

-----------------------------------------------------------------------------
(* Faulty variants of definitions below, named after the slip they show.    *)
(* The specification does not use them: each one, put in the place of its   *)
(* original, must make TLC find a property of this module violated.         *)

CoveredAlways(u, amount) == TRUE
RecordedSigned(sums, kind, amount) ==
  IF kind = "debit" THEN [sums EXCEPT !.debit = @ - amount] ELSE [sums EXCEPT !.credit = @ + amount]
RecordedAsCredit(sums, kind, amount) == [sums EXCEPT !.credit = @ + amount]
FirstCallOrderAtOnce(kind) ==
  CASE kind = "order" -> "insert" [] kind = "credit" -> "ensure" [] OTHER -> "get"

-----------------------------------------------------------------------------
(* Control of a request.                                                    *)

\* getWalletByUserId for the pages and for debits, ensureWalletExists for
\* credits and for new orders.
FirstCall(kind) == IF kind \in {"credit", "order"} THEN "ensure" ELSE "get"

\* An idle slot takes a request; its work begins with the call at the label.
Accept(r, label, data) ==
  /\ pc[r] = "idle" /\ begun < MaxRequests
  /\ pc' = [pc EXCEPT ![r] = label]
  /\ arg' = [arg EXCEPT ![r] = data]
  /\ begun' = begun + 1
  /\ UNCHANGED <<db, faults>>

Goto(r, label) ==
  /\ pc' = [pc EXCEPT ![r] = label]
  /\ UNCHANGED <<arg, begun, faults>>

Answer(r) == Goto(r, "idle")

-----------------------------------------------------------------------------
(* Requests.                                                                *)

\* WalletService.getWalletByUserId, creditBalance, debitBalance and
\* createTopupOrder.  The first has no amount.
Ask(r, kind, u, amount) ==
  Accept(r, FirstCall(kind), [kind |-> kind, u |-> u, amount |-> amount, o |-> NoOrder])

\* WalletService.verifyTopupAndCredit with a valid signature finds the payment
\* document of the order, whatever its status; the customer who placed the
\* order asks for it, as often as they like.
VerifyTopup(r, o) ==
  /\ topup[o].state # "NONE"
  /\ Accept(r, "mark", [kind |-> "credit", u |-> topup[o].u, amount |-> topup[o].amount, o |-> o])

-----------------------------------------------------------------------------
(* Awaited calls.                                                           *)

\* debitBalance: the balance it has just read covers the amount.
Covered(u, amount) == wallet[u].balance >= amount

\* What comes after the wallet is found or created: a page is answered, an
\* order is placed, a debit the balance does not cover is refused, and money
\* is moved.
Found(r) ==
  CASE arg[r].kind = "open" -> Answer(r)
    [] arg[r].kind = "order" -> Goto(r, "insert")
    [] arg[r].kind = "debit" ->
         IF Covered(arg[r].u, arg[r].amount) THEN Goto(r, "move") ELSE Answer(r)
    [] arg[r].kind = "credit" -> Goto(r, "move")

\* getWalletByUserId and, if that finds none, ensureWalletExists.
Get(r) ==
  /\ pc[r] = "get"
  /\ IF wallet[arg[r].u].exists THEN Found(r) ELSE Goto(r, "ensure")
  /\ UNCHANGED db

Ensure(r) ==
  /\ pc[r] = "ensure"
  /\ IF wallet[arg[r].u].exists THEN Found(r) ELSE Goto(r, "create")
  /\ UNCHANGED db

\* The unique index on userId refuses a second wallet, which ends the request;
\* a new wallet is empty.
Create(r) ==
  /\ pc[r] = "create"
  /\ IF wallet[arg[r].u].exists
     THEN Answer(r) /\ UNCHANGED wallet
     ELSE Found(r) /\ wallet' = [wallet EXCEPT ![arg[r].u].exists = TRUE]
  /\ UNCHANGED <<records, topup, credited>>

Delta(r) == IF arg[r].kind = "debit" THEN -arg[r].amount ELSE arg[r].amount

\* WalletRepository.updateBalance adds to the balance there is.
Move(r) ==
  /\ pc[r] = "move"
  /\ wallet' = [wallet EXCEPT ![arg[r].u].balance = @ + Delta(r)]
  /\ credited' = [o \in Orders |-> IF o = arg[r].o THEN credited[o] + 1 ELSE credited[o]]
  /\ Goto(r, "record")
  /\ UNCHANGED <<records, topup>>

\* The record has the amount without a sign, and a type.
Recorded(sums, kind, amount) ==
  IF kind = "debit" THEN [sums EXCEPT !.debit = @ + amount] ELSE [sums EXCEPT !.credit = @ + amount]

Record(r) ==
  /\ pc[r] = "record"
  /\ records' = [records EXCEPT ![arg[r].u] = Recorded(@, arg[r].kind, arg[r].amount)]
  /\ Answer(r)
  /\ UNCHANGED <<wallet, topup, credited>>

\* createTopupOrder: the gateway gives the order a new id.
Insert(r) ==
  /\ pc[r] = "insert"
  /\ \E o \in Orders :
       /\ topup[o].state = "NONE"
       /\ topup' = [topup EXCEPT ![o] =
            [state |-> "PENDING", u |-> arg[r].u, amount |-> arg[r].amount]]
  /\ Answer(r)
  /\ UNCHANGED <<wallet, records, credited>>

\* verifyTopupAndCredit goes on to creditBalance.
Mark(r) ==
  /\ pc[r] = "mark"
  /\ topup' = [topup EXCEPT ![arg[r].o].state = "COMPLETED"]
  /\ Goto(r, FirstCall("credit"))
  /\ UNCHANGED <<wallet, records, credited>>

\* A call rejects or the process dies: the request ends where it is.
RequestFails(r) ==
  /\ pc[r] # "idle" /\ faults < MaxFaults
  /\ pc' = [pc EXCEPT ![r] = "idle"]
  /\ faults' = faults + 1
  /\ UNCHANGED <<db, arg, begun>>

Continue(r) ==
  Get(r) \/ Ensure(r) \/ Create(r) \/ Move(r) \/ Record(r) \/ Insert(r) \/ Mark(r)

\* Bound: requests for new orders are taken while the model has an id for each.
OrderLeft ==
  Cardinality({r \in Requests : pc[r] # "idle" /\ arg[r].kind = "order"})
    < Cardinality({o \in Orders : topup[o].state = "NONE"})

Next ==
  \E r \in Requests :
    \/ \E u \in Users : Ask(r, "open", u, 0)
    \/ \E k \in {"credit", "debit"}, u \in Users, a \in Amounts : Ask(r, k, u, a)
    \/ \E u \in Users, a \in Amounts : OrderLeft /\ Ask(r, "order", u, a)
    \/ \E o \in Orders : VerifyTopup(r, o)
    \/ Continue(r)
    \/ RequestFails(r)

Spec == Init /\ [][Next]_vars

\* Node resumes a request when its awaited call has come back.
FairSpec == Spec /\ \A r \in Requests : WF_vars(Continue(r))

\* No request begins before the one before it is answered.
OneAtATime == \A r, s \in Requests : pc[r] # "idle" /\ pc[s] # "idle" => r = s
SerialSpec == Init /\ [][Next /\ OneAtATime']_vars

-----------------------------------------------------------------------------
(* Properties.                                                              *)

\* What requests in progress have moved and not yet recorded.
Recording(u) == {r \in Requests : pc[r] = "record" /\ arg[r].u = u}
Deltas == [r \in Requests |-> Delta(r)]
Unrecorded(u) == SumFunctionOnSet(Deltas, Recording(u))

\* As long as no request was cut short, every balance is what the records and
\* the records to come add up to: overlapping requests lose no increment
\* (updateBalance uses $inc) and each one is recorded with its own sign.
NothingLost ==
  faults = 0 =>
    \A u \in Users :
      wallet[u].balance = records[u].credit - records[u].debit + Unrecorded(u)

\* What debits in progress are about to take.
Taken(u) == {r \in Requests : pc[r] = "move" /\ arg[r].kind = "debit" /\ arg[r].u = u}
Takes == [r \in Requests |-> arg[r].amount]
Taking(u) == SumFunctionOnSet(Takes, Taken(u))

MaxAmount == Max(Amounts \cup {0})

\* Debits that overlap can overdraw a wallet (debitBalance checks a balance
\* that others still change), but by no more than all but one of the requests
\* in progress can take: once a balance is short, no debit passes the check.
OverdraftBounded ==
  \A u \in Users :
    wallet[u].balance - Taking(u) >= -((Cardinality(Requests) - 1) * MaxAmount)

\* A balance is never negative.
NeverOverdrawn == \A u \in Users : wallet[u].balance >= 0

\* A verified top-up is on its way until it has reached the wallet: as long as no
\* request was cut short, one that found the order is still going to add it
\* (verifyTopupAndCredit marks the payment before it credits the wallet).
Crediting(o) == \E r \in Requests : arg[r].o = o /\ pc[r] \in {"ensure", "create", "move"}

TopupOnItsWay ==
  \A o \in Orders :
    topup[o].state = "COMPLETED" /\ faults = 0 => credited[o] > 0 \/ Crediting(o)

\* A verified top-up reaches the wallet unless a request is cut short: no
\* request for the same customer can make the credit fail after the mark,
\* because the wallet was there before the order was placed (createTopupOrder).
TopupReachesWallet ==
  \A o \in Orders : topup[o].state = "COMPLETED" ~> credited[o] > 0 \/ faults > 0
=============================================================================
