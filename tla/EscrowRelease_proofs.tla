------------------------- MODULE EscrowRelease_proofs -------------------------
(***************************************************************************)
(* Proofs about EscrowRelease: its types, that nothing is released without *)
(* having been credited, that it implements EscrowBook, that a stylist's   *)
(* balance is the sum of what was credited, and how often that may be.     *)
(***************************************************************************)
EXTENDS EscrowRelease, Sums, TLAPS

-----------------------------------------------------------------------------
(* Types.                                                                   *)

LEMMA TypeInit == Init => TypeOK
BY BoundsAssumption
DEF Init, TypeOK, NoDocument, NoTask, EscrowRecord, WalletRecord, TaskRecord

\* The task of run j for b goes on to the call at the label; all others stand.
OnlyMoves(j, b, label) ==
  /\ task'[j][b] = [at |-> label, amount |-> task[j][b].amount]
  /\ \A i \in Runs, c \in Bookings : i # j \/ c # b => task'[i][c] = task[i][c]

\* The step of a task to another label keeps its amount (addEarnings and
\* updateStatus are called with the document findHeldBeforeDate returned).
LEMMA AdvanceTyped ==
  ASSUME TypeOK, NEW j \in Runs, NEW b \in Bookings,
         NEW label \in {"none", "find", "create", "add", "mark"}, Advance(j, b, label)
  PROVE  /\ task' \in [Runs -> [Bookings -> TaskRecord]]
         /\ OnlyMoves(j, b, label)
<1>1. task[j] \in [Bookings -> TaskRecord] /\ task[j][b] \in TaskRecord
  BY DEF TypeOK
<1>2. [task[j][b] EXCEPT !.at = label] = [at |-> label, amount |-> task[j][b].amount]
  BY <1>1 DEF TaskRecord
<1>3. [at |-> label, amount |-> task[j][b].amount] \in TaskRecord
  BY <1>1 DEF TaskRecord
<1>4. task' = [task EXCEPT ![j] = [task[j] EXCEPT ![b] = [task[j][b] EXCEPT !.at = label]]]
  BY DEF Advance
<1> QED
  BY <1>1, <1>2, <1>3, <1>4 DEF TypeOK, OnlyMoves

\* A wallet stays one when an amount is added to both of its balances
\* (StylistWalletRepository.updateBalance).
LEMMA IncrementTyped ==
  ASSUME NEW w \in WalletRecord, NEW amount \in Nat
  PROVE  Incremented(w, amount) \in WalletRecord
<1>1. w.withdrawable + amount \in Nat /\ w.total + amount \in Nat
  BY DEF WalletRecord
<1> QED
  BY <1>1, Zenon DEF WalletRecord, Incremented

LEMMA TypeStep == TypeOK /\ [Next]_vars => TypeOK'
<1> SUFFICES ASSUME TypeOK, [Next]_vars PROVE TypeOK'
  OBVIOUS
<1>1. ASSUME NEW b \in Bookings, NEW a \in Amounts, HoldFind(b, a) PROVE TypeOK'
  BY <1>1 DEF HoldFind, Hold, TypeOK
<1>2. ASSUME NEW h \in pending, HoldInsert(h) PROVE TypeOK'
  <2>1. h.b \in Bookings /\ h.amount \in Nat
    BY AmountsAssumption DEF TypeOK, Hold
  <2>2. escrow' \in [Bookings -> EscrowRecord]
    BY <1>2, <2>1 DEF HoldInsert, TypeOK, EscrowRecord
  <2> QED
    BY <1>2, <2>2 DEF HoldInsert, TypeOK
<1>3. ASSUME NEW j \in Runs, List(j) PROVE TypeOK'
  <2>1. \A b \in Bookings :
          (IF Due(b) THEN [at |-> "find", amount |-> escrow[b].amount] ELSE NoTask) \in TaskRecord
    BY DEF TypeOK, TaskRecord, NoTask, EscrowRecord
  <2>2. task' \in [Runs -> [Bookings -> TaskRecord]]
    BY <1>3, <2>1 DEF List, TypeOK
  <2> QED
    BY <1>3, <2>2 DEF List, TypeOK
<1>4. ASSUME NEW j \in Runs, NEW b \in Bookings, Step(j, b) \/ TaskFails(j, b)
      PROVE TypeOK'
  <2>1. CASE FindWallet(j, b)
    <3>1. NextCall(wallet[StylistOf[b]].exists) \in {"add", "create"}
      BY DEF NextCall
    <3> QED
      BY <2>1, <3>1, AdvanceTyped DEF FindWallet, TypeOK
  <2>2. CASE CreateWallet(j, b)
    <3>1. StylistOf[b] \in Stylists
      BY StylistOfAssumption
    <3>2. wallet' \in [Stylists -> WalletRecord]
      <4>1. [wallet EXCEPT ![StylistOf[b]].exists = TRUE] \in [Stylists -> WalletRecord]
        BY <3>1 DEF TypeOK, WalletRecord
      <4> QED
        BY <2>2, <4>1 DEF CreateWallet, TypeOK
    <3>3. Advance(j, b, "none") \/ Advance(j, b, "add")
      BY <2>2 DEF CreateWallet, NextCall
    <3> QED
      BY <2>2, <3>2, <3>3, AdvanceTyped DEF CreateWallet, TypeOK
  <2>3. CASE AddEarnings(j, b)
    <3>1. StylistOf[b] \in Stylists
      BY StylistOfAssumption
    <3>2. task[j][b].amount \in Nat
      BY DEF TypeOK, TaskRecord
    <3>3. wallet' \in [Stylists -> WalletRecord]
      BY <2>3, <3>1, <3>2, IncrementTyped DEF AddEarnings, TypeOK
    <3>4. credited' \in [Bookings -> Nat]
      BY <2>3 DEF AddEarnings, TypeOK
    <3>5. task' \in [Runs -> [Bookings -> TaskRecord]]
      BY <2>3, AdvanceTyped DEF AddEarnings
    <3> QED
      BY <2>3, <3>3, <3>4, <3>5 DEF AddEarnings, TypeOK
  <2>4. CASE MarkReleased(j, b)
    <3>1. escrow' \in [Bookings -> EscrowRecord]
      BY <2>4 DEF MarkReleased, TypeOK, EscrowRecord
    <3> QED
      BY <2>4, <3>1, AdvanceTyped DEF MarkReleased, TypeOK
  <2>5. CASE TaskFails(j, b)
    <3>1. task' \in [Runs -> [Bookings -> TaskRecord]]
      BY <2>5, AdvanceTyped DEF TaskFails
    <3> QED
      BY <2>5, <3>1 DEF TaskFails, TypeOK
  <2> QED
    BY <1>4, <2>1, <2>2, <2>3, <2>4, <2>5 DEF Step
<1>5. ASSUME NEW s \in Stylists, GetWallet(s) PROVE TypeOK'
  <2>1. wallet' \in [Stylists -> WalletRecord]
    BY <1>5 DEF GetWallet, TypeOK, WalletRecord
  <2> QED
    BY <1>5, <2>1 DEF GetWallet, TypeOK
<1>6. CASE NextDay
  BY <1>6 DEF NextDay, TypeOK
<1>7. CASE Crash
  <2>1. task' \in [Runs -> [Bookings -> TaskRecord]]
    BY <1>7 DEF Crash, NoTask, TaskRecord
  <2> QED
    BY <1>7, <2>1 DEF Crash, TypeOK
<1>8. CASE UNCHANGED vars
  BY <1>8 DEF vars, TypeOK
<1> QED
  BY <1>1, <1>2, <1>3, <1>4, <1>5, <1>6, <1>7, <1>8 DEF Next

\* Every document, task and wallet has its type in every reachable state:
\* in particular a balance that starts at zero never goes below it.
THEOREM TypeCorrect == Spec => []TypeOK
BY TypeInit, TypeStep, PTL DEF Spec

-----------------------------------------------------------------------------
(* What the tasks in progress know.                                         *)

\* A task works on a document that exists, with the amount the document has,
\* and one that is about to mark it has added the amount to the wallet.
TaskKnows(j, b) ==
  task[j][b].at # "none" =>
    /\ escrow[b].status # "NONE"
    /\ task[j][b].amount = escrow[b].amount
    /\ task[j][b].at = "mark" => credited[b] > 0

TasksKnow == \A j \in Runs, b \in Bookings : TaskKnows(j, b)

\* A booking without a document has the empty one and was never credited.
EmptyDocuments ==
  \A b \in Bookings :
    escrow[b].status = "NONE" => escrow[b] = NoDocument /\ credited[b] = 0

ReleaseInv == TypeOK /\ TasksKnow /\ EmptyDocuments /\ ReleasedWasCredited

LEMMA ReleaseInit == Init => ReleaseInv
BY TypeInit
DEF Init, ReleaseInv, TasksKnow, TaskKnows, EmptyDocuments, ReleasedWasCredited,
    NoDocument, NoTask

\* The invariant looks at escrow, task and credited only, so a step that adds
\* no task and leaves the documents and the history alone keeps it.
LEMMA TaskStepKeeps ==
  ASSUME ReleaseInv, TypeOK', UNCHANGED <<escrow, credited>>,
         \A j \in Runs, b \in Bookings :
           \/ task'[j][b].at = "none"
           \/ /\ task[j][b].at # "none" /\ task'[j][b].at # "mark"
              /\ task'[j][b].amount = task[j][b].amount
           \/ task'[j][b] = task[j][b]
  PROVE  ReleaseInv'
<1>1. TasksKnow'
  BY DEF ReleaseInv, TasksKnow, TaskKnows
<1> QED
  BY <1>1 DEF ReleaseInv, EmptyDocuments, ReleasedWasCredited

\* One task that is under way goes on, to another call than the mark.
LEMMA TaskAdvanceKeeps ==
  ASSUME ReleaseInv, TypeOK', UNCHANGED <<escrow, credited>>,
         NEW j \in Runs, NEW b \in Bookings, task[j][b].at # "none",
         NEW label \in {"none", "find", "create", "add", "mark"}, label # "mark",
         Advance(j, b, label)
  PROVE  ReleaseInv'
<1>0. TypeOK
  BY DEF ReleaseInv
<1>1. OnlyMoves(j, b, label)
  BY <1>0, AdvanceTyped
<1>a. task'[j][b].at = label /\ task'[j][b].amount = task[j][b].amount
  BY <1>1 DEF OnlyMoves
<1>2. \A i \in Runs, c \in Bookings :
        \/ task'[i][c].at = "none"
        \/ /\ task[i][c].at # "none" /\ task'[i][c].at # "mark"
           /\ task'[i][c].amount = task[i][c].amount
        \/ task'[i][c] = task[i][c]
  <2> TAKE i \in Runs, c \in Bookings
  <2>1. CASE i # j \/ c # b
    BY <1>1, <2>1 DEF OnlyMoves
  <2>2. CASE i = j /\ c = b
    BY <1>a, <2>2
  <2> QED
    BY <2>1, <2>2
<1> QED
  BY <1>2, TaskStepKeeps

LEMMA ReleaseStep == ReleaseInv /\ [Next]_vars => ReleaseInv'
<1> SUFFICES ASSUME ReleaseInv, [Next]_vars PROVE ReleaseInv'
  OBVIOUS
<1>0. TypeOK /\ TypeOK'
  BY TypeStep DEF ReleaseInv
<1>1. ASSUME NEW b \in Bookings, NEW a \in Amounts, HoldFind(b, a) PROVE ReleaseInv'
  BY <1>0, <1>1, TaskStepKeeps DEF HoldFind
<1>2. ASSUME NEW h \in pending, HoldInsert(h) PROVE ReleaseInv'
  <2>1. h.b \in Bookings
    BY <1>0 DEF TypeOK, Hold
  <2>2. CASE IndexRefuses(h.b)
    BY <1>0, <1>2, <2>2, TaskStepKeeps DEF HoldInsert
  <2>3. CASE ~IndexRefuses(h.b)
    <3>1. /\ \A c \in Bookings : c # h.b => escrow'[c] = escrow[c]
          /\ escrow[h.b].status = "NONE" /\ escrow'[h.b].status = "HELD"
          /\ UNCHANGED <<task, credited>>
      BY <1>0, <1>2, <2>1, <2>3 DEF HoldInsert, IndexRefuses, TypeOK, EscrowRecord
    <3> QED
      BY <1>0, <3>1
      DEF ReleaseInv, TasksKnow, TaskKnows, EmptyDocuments, ReleasedWasCredited
  <2> QED
    BY <2>2, <2>3
<1>3. ASSUME NEW j \in Runs, List(j) PROVE ReleaseInv'
  <2>1. /\ \A b \in Bookings :
             \/ task'[j][b] = NoTask
             \/ /\ escrow[b].status = "HELD"
                /\ task'[j][b] = [at |-> "find", amount |-> escrow[b].amount]
        /\ \A i \in Runs : i # j => task'[i] = task[i]
    BY <1>0, <1>3 DEF List, Due, TypeOK
  <2>2. TasksKnow'
    BY <1>3, <2>1 DEF List, ReleaseInv, TasksKnow, TaskKnows, NoTask
  <2> QED
    BY <1>0, <1>3, <2>2 DEF List, ReleaseInv, EmptyDocuments, ReleasedWasCredited
<1>4. ASSUME NEW j \in Runs, NEW b \in Bookings, FindWallet(j, b) PROVE ReleaseInv'
  <2>1. NextCall(wallet[StylistOf[b]].exists) \in {"add", "create"}
    BY DEF NextCall
  <2> QED
    BY <1>0, <1>4, <2>1, TaskAdvanceKeeps DEF FindWallet
<1>5. ASSUME NEW j \in Runs, NEW b \in Bookings, CreateWallet(j, b) PROVE ReleaseInv'
  <2>1. Advance(j, b, "none") \/ Advance(j, b, "add")
    BY <1>5 DEF CreateWallet, NextCall
  <2>2. task[j][b].at = "create" /\ UNCHANGED <<escrow, credited>>
    BY <1>5 DEF CreateWallet
  <2> QED
    BY <1>0, <2>1, <2>2, TaskAdvanceKeeps
<1>6. ASSUME NEW j \in Runs, NEW b \in Bookings, AddEarnings(j, b) PROVE ReleaseInv'
  <2>1. /\ task[j][b].at = "add" /\ UNCHANGED escrow
        /\ credited'[b] = credited[b] + 1 /\ credited[b] \in Nat
        /\ \A c \in Bookings : c # b => credited'[c] = credited[c]
    BY <1>0, <1>6 DEF AddEarnings, TypeOK
  <2>2. OnlyMoves(j, b, "mark")
    BY <1>0, <1>6, AdvanceTyped DEF AddEarnings
  <2>3. escrow[b].status # "NONE" /\ task[j][b].amount = escrow[b].amount
    BY <2>1 DEF ReleaseInv, TasksKnow, TaskKnows
  <2>4. \A c \in Bookings : credited[c] > 0 => credited'[c] > 0
    BY <1>0, <2>1 DEF TypeOK
  <2>5. credited'[b] > 0
    BY <2>1
  <2>6. TasksKnow'
    BY <2>1, <2>2, <2>3, <2>4, <2>5 DEF ReleaseInv, TasksKnow, TaskKnows, OnlyMoves
  <2> QED
    BY <1>0, <2>1, <2>3, <2>4, <2>6 DEF ReleaseInv, EmptyDocuments, ReleasedWasCredited
<1>7. ASSUME NEW j \in Runs, NEW b \in Bookings, MarkReleased(j, b) PROVE ReleaseInv'
  <2>1. task[j][b].at = "mark" /\ UNCHANGED credited
    BY <1>7 DEF MarkReleased
  <2>2. /\ escrow'[b].status = "RELEASED" /\ escrow'[b].amount = escrow[b].amount
        /\ \A c \in Bookings : c # b => escrow'[c] = escrow[c]
    BY <1>0, <1>7 DEF MarkReleased, TypeOK, EscrowRecord
  <2>3. OnlyMoves(j, b, "none")
    BY <1>0, <1>7, AdvanceTyped DEF MarkReleased
  <2>4. credited[b] > 0
    BY <2>1 DEF ReleaseInv, TasksKnow, TaskKnows
  <2>5. TasksKnow'
    BY <2>1, <2>2, <2>3 DEF ReleaseInv, TasksKnow, TaskKnows, OnlyMoves
  <2> QED
    BY <1>0, <2>1, <2>2, <2>4, <2>5 DEF ReleaseInv, EmptyDocuments, ReleasedWasCredited
<1>8. ASSUME NEW j \in Runs, NEW b \in Bookings, TaskFails(j, b) PROVE ReleaseInv'
  BY <1>0, <1>8, TaskAdvanceKeeps DEF TaskFails
<1>9. CASE (\E s \in Stylists : GetWallet(s)) \/ NextDay \/ UNCHANGED vars
  BY <1>0, <1>9, TaskStepKeeps DEF GetWallet, NextDay, vars
<1>10. CASE Crash
  <2>1. \A j \in Runs, b \in Bookings : task'[j][b].at = "none"
    BY <1>10 DEF Crash, NoTask
  <2> QED
    BY <1>0, <1>10, <2>1, TaskStepKeeps DEF Crash
<1> QED
  BY <1>1, <1>2, <1>3, <1>4, <1>5, <1>6, <1>7, <1>8, <1>9, <1>10 DEF Next, Step

\* A released document was added to the stylist's wallet at least once: the
\* mark comes after the credit in every task of releaseDailyEscrow, and
\* nothing else writes the status.
THEOREM ReleasedCredited == Spec => []ReleasedWasCredited
<1>1. ReleaseInv => ReleasedWasCredited
  BY DEF ReleaseInv
<1> QED
  BY ReleaseInit, ReleaseStep, <1>1, PTL DEF Spec

-----------------------------------------------------------------------------
(* Refinement.                                                              *)

Entries == [b \in Bookings |-> [status |-> escrow[b].status, amount |-> escrow[b].amount]]
PaidOut == {b \in Bookings : credited[b] > 0}

\* A step that touches neither a document nor the history is no step of the book.
LEMMA BookStutters == UNCHANGED <<escrow, credited>> => UNCHANGED Book!bookVars
BY DEF Book!bookVars

\* Every step of the escrow documents is a step of the book or none of it.
LEMMA BookStep == ReleaseInv /\ [Next]_vars => [Book!BookNext]_(Book!bookVars)
<1> SUFFICES ASSUME ReleaseInv, [Next]_vars PROVE Book!BookNext \/ UNCHANGED Book!bookVars
  OBVIOUS
<1> DEFINE Goal == Book!BookNext \/ UNCHANGED Book!bookVars
<1>0. TypeOK /\ TypeOK'
  BY TypeStep DEF ReleaseInv
<1>1. ASSUME NEW h \in pending, HoldInsert(h) PROVE Goal
  <2>1. h.b \in Bookings /\ h.amount \in Amounts
    BY <1>0 DEF TypeOK, Hold
  <2>2. CASE IndexRefuses(h.b)
    BY <1>1, <2>2, BookStutters DEF HoldInsert
  <2>3. CASE ~IndexRefuses(h.b)
    <3>1. Entries[h.b] = Book!NoEntry
      BY <2>1, <2>3 DEF IndexRefuses, Entries, Book!NoEntry, ReleaseInv, EmptyDocuments, NoDocument
    <3>2. /\ escrow'[h.b].status = "HELD" /\ escrow'[h.b].amount = h.amount
          /\ \A c \in Bookings : c # h.b => escrow'[c] = escrow[c]
          /\ UNCHANGED credited
      BY <1>0, <1>1, <2>1, <2>3 DEF HoldInsert, TypeOK
    <3>3. Entries' = [Entries EXCEPT ![h.b] = [status |-> "HELD", amount |-> h.amount]]
      BY <2>1, <3>2 DEF Entries
    <3>4. UNCHANGED PaidOut
      BY <3>2 DEF PaidOut
    <3>5. Book!PutAside(h.b, h.amount)
      BY <3>1, <3>3, <3>4 DEF Book!PutAside, Entries, PaidOut
    <3> QED
      BY <2>1, <3>5 DEF Book!BookNext
  <2> QED
    BY <2>2, <2>3
<1>2. ASSUME NEW j \in Runs, NEW b \in Bookings, AddEarnings(j, b) PROVE Goal
  <2>1. /\ UNCHANGED escrow
        /\ credited[b] \in Nat /\ credited'[b] = credited[b] + 1
        /\ \A c \in Bookings : c # b => credited'[c] = credited[c]
    BY <1>0, <1>2 DEF AddEarnings, TypeOK
  <2>2. UNCHANGED Entries
    BY <2>1 DEF Entries
  <2>3. PaidOut' = PaidOut \cup {b}
    BY <2>1 DEF PaidOut
  <2>4. CASE b \in PaidOut
    <3>1. UNCHANGED PaidOut
      BY <2>3, <2>4
    <3> QED
      BY <2>2, <3>1 DEF Book!bookVars, Entries, PaidOut
  <2>5. CASE b \notin PaidOut
    <3>1. escrow[b].status # "NONE"
      BY <1>2 DEF AddEarnings, ReleaseInv, TasksKnow, TaskKnows
    <3>2. escrow[b].status # "RELEASED"
      BY <2>5 DEF PaidOut, ReleaseInv, ReleasedWasCredited
    <3>3. Entries[b].status = "HELD"
      BY <1>0, <3>1, <3>2 DEF Entries, TypeOK, EscrowRecord
    <3>4. Book!PayOut(b)
      BY <2>2, <2>3, <3>3 DEF Book!PayOut, Entries, PaidOut
    <3> QED
      BY <3>4 DEF Book!BookNext
  <2> QED
    BY <2>4, <2>5
<1>3. ASSUME NEW j \in Runs, NEW b \in Bookings, MarkReleased(j, b) PROVE Goal
  <2>1. /\ escrow'[b].status = "RELEASED" /\ escrow'[b].amount = escrow[b].amount
        /\ \A c \in Bookings : c # b => escrow'[c] = escrow[c]
        /\ UNCHANGED credited
    BY <1>0, <1>3 DEF MarkReleased, TypeOK, EscrowRecord
  <2>2. escrow[b].status # "NONE" /\ credited[b] > 0
    BY <1>3 DEF MarkReleased, ReleaseInv, TasksKnow, TaskKnows
  <2>3. UNCHANGED PaidOut
    BY <2>1 DEF PaidOut
  <2>4. Entries' = [Entries EXCEPT ![b] = [status |-> "RELEASED", amount |-> Entries[b].amount]]
    BY <2>1 DEF Entries
  <2>5. CASE escrow[b].status = "HELD"
    <3>1. Book!Release(b)
      BY <2>2, <2>3, <2>4, <2>5 DEF Book!Release, Entries, PaidOut
    <3> QED
      BY <3>1 DEF Book!BookNext
  <2>6. CASE escrow[b].status = "RELEASED"
    <3>1. UNCHANGED Entries
      BY <2>1, <2>6 DEF Entries
    <3> QED
      BY <2>3, <3>1 DEF Book!bookVars, Entries, PaidOut
  <2> QED
    BY <1>0, <2>2, <2>5, <2>6 DEF TypeOK, EscrowRecord
<1>4. ASSUME NEW b \in Bookings, NEW a \in Amounts, HoldFind(b, a) PROVE Goal
  BY <1>4, BookStutters DEF HoldFind
<1>5. ASSUME NEW j \in Runs, List(j) PROVE Goal
  BY <1>5, BookStutters DEF List
<1>6. ASSUME NEW j \in Runs, NEW b \in Bookings,
             FindWallet(j, b) \/ CreateWallet(j, b) \/ TaskFails(j, b)
      PROVE Goal
  BY <1>6, BookStutters DEF FindWallet, CreateWallet, TaskFails
<1>7. CASE (\E s \in Stylists : GetWallet(s)) \/ NextDay \/ Crash \/ UNCHANGED vars
  BY <1>7, BookStutters DEF GetWallet, NextDay, Crash, vars
<1> QED
  BY <1>1, <1>2, <1>3, <1>4, <1>5, <1>6, <1>7 DEF Next, Step

\* The escrow documents, the cron runs that overlap and fail, and the wallets
\* implement the abstract book: one amount per booking, a release that is for
\* good and that comes after the payment (escrow.service.ts).
THEOREM Refines == Spec => ImplementsBook
<1>1. Init => Book!BookInit
  BY DEF Init, Book!BookInit, NoDocument, Book!NoEntry
<1> QED
  BY <1>1, ReleaseInit, ReleaseStep, BookStep, PTL DEF Spec, ImplementsBook, Book!BookSpec

-----------------------------------------------------------------------------
(* The balances of the stylists.                                            *)

EarningsInv == ReleaseInv /\ EarningsAddUp

LEMMA BookingsFinite == \A s : IsFiniteSet(BookingsOf(s))
<1> SUFFICES ASSUME NEW s PROVE IsFiniteSet(BookingsOf(s))
  OBVIOUS
<1> QED
  BY FinitenessAssumption, FS_Subset DEF BookingsOf

LEMMA EarnedTyped ==
  ASSUME TypeOK
  PROVE  \A b \in Bookings : Earned[b] = credited[b] * escrow[b].amount /\ Earned[b] \in Nat
BY DEF TypeOK, EscrowRecord, Earned

\* A step that changes neither what was earned nor a balance keeps the books.
LEMMA EarningsKeep ==
  ASSUME TypeOK, TypeOK', EarningsAddUp,
         \A b \in Bookings : Earned'[b] = Earned[b],
         \A s \in Stylists : /\ wallet'[s].total = wallet[s].total
                             /\ wallet'[s].withdrawable = wallet[s].withdrawable
  PROVE  EarningsAddUp'
<1> SUFFICES ASSUME NEW s \in Stylists
             PROVE  /\ wallet'[s].withdrawable = wallet'[s].total
                    /\ wallet'[s].total = SumFunctionOnSet(Earned', BookingsOf(s))
  BY DEF EarningsAddUp, BookingsOf
<1>1. \A b \in BookingsOf(s) : Earned[b] = Earned'[b]
  BY DEF BookingsOf
<1>2. SumFunctionOnSet(Earned, BookingsOf(s)) = SumFunctionOnSet(Earned', BookingsOf(s))
  BY <1>1, BookingsFinite, SumSame
<1> QED
  BY <1>2 DEF EarningsAddUp

\* Nothing was credited, so nothing was earned.
LEMMA EarningsInit == Init => EarningsAddUp
<1> SUFFICES ASSUME Init, NEW s \in Stylists
             PROVE  /\ wallet[s].withdrawable = wallet[s].total
                    /\ wallet[s].total = SumFunctionOnSet(Earned, BookingsOf(s))
  BY DEF EarningsAddUp
<1>1. wallet[s].withdrawable = 0 /\ wallet[s].total = 0
  BY DEF Init
<1>2. \A b \in BookingsOf(s) : Earned[b] \in 0..0
  BY DEF Init, NoDocument, Earned, BookingsOf
<1>3. /\ SumFunctionOnSet(Earned, BookingsOf(s)) \in Nat
      /\ SumFunctionOnSet(Earned, BookingsOf(s)) <= Cardinality(BookingsOf(s)) * 0
  <2>1. 0 \in Nat
    OBVIOUS
  <2> QED
    BY <1>2, <2>1, BookingsFinite, SumBound
<1>4. Cardinality(BookingsOf(s)) * 0 = 0
  BY BookingsFinite, FS_CardinalityType
<1> QED
  BY <1>1, <1>3, <1>4

\* addEarnings raises both balances of the stylist by the amount of the document.
LEMMA CreditKeeps ==
  ASSUME ReleaseInv, TypeOK', EarningsAddUp, NEW j \in Runs, NEW b \in Bookings, AddEarnings(j, b)
  PROVE  EarningsAddUp'
<1> DEFINE t == StylistOf[b]
           amount == escrow[b].amount
<1>0. TypeOK
  BY DEF ReleaseInv
<1>1. t \in Stylists /\ amount \in Nat /\ credited[b] \in Nat
  BY <1>0, StylistOfAssumption DEF TypeOK, EscrowRecord
<1>2. task[j][b].amount = amount
  BY DEF AddEarnings, ReleaseInv, TasksKnow, TaskKnows
<1>3. /\ wallet'[t].total = wallet[t].total + amount
      /\ wallet'[t].withdrawable = wallet[t].withdrawable + amount
      /\ \A s \in Stylists : s # t => wallet'[s] = wallet[s]
  BY <1>0, <1>1, <1>2 DEF AddEarnings, Incremented, TypeOK, WalletRecord
<1>4. /\ credited'[b] = credited[b] + 1 /\ UNCHANGED escrow
      /\ \A c \in Bookings : c # b => credited'[c] = credited[c]
  BY <1>0, <1>1 DEF AddEarnings, TypeOK
<1>5. /\ Earned'[b] = Earned[b] + amount
      /\ \A c \in Bookings : c # b => Earned'[c] = Earned[c]
  <2>1. (credited[b] + 1) * amount = credited[b] * amount + amount
    BY <1>1
  <2> QED
    BY <1>4, <2>1 DEF Earned
<1>6. \A c \in Bookings : Earned[c] \in Int /\ Earned'[c] \in Int
  BY <1>0, <1>5, <1>1, EarnedTyped
<1> HIDE DEF t, amount
<1> SUFFICES ASSUME NEW s \in Stylists
             PROVE  /\ wallet'[s].withdrawable = wallet'[s].total
                    /\ wallet'[s].total = SumFunctionOnSet(Earned', BookingsOf(s))
  BY DEF EarningsAddUp, BookingsOf
<1>7. /\ wallet[s].withdrawable = wallet[s].total
      /\ wallet[s].total = SumFunctionOnSet(Earned, BookingsOf(s))
  BY DEF EarningsAddUp
<1>8. \A c \in BookingsOf(s) : Earned[c] \in Int /\ Earned'[c] \in Int
  BY <1>6 DEF BookingsOf
<1>9. CASE s = t
  <2>1. b \in BookingsOf(s)
    BY <1>9 DEF BookingsOf, t
  <2>2. SumFunctionOnSet(Earned', BookingsOf(s)) =
          SumFunctionOnSet(Earned, BookingsOf(s)) + (Earned'[b] - Earned[b])
    <3>1. \A c \in BookingsOf(s) : c # b => Earned[c] = Earned'[c]
      BY <1>5 DEF BookingsOf
    <3> QED
      BY <1>8, <2>1, <3>1, BookingsFinite, SumChanges
  <2>3. Earned'[b] - Earned[b] = amount
    BY <1>1, <1>5, <1>6
  <2> QED
    BY <1>3, <1>7, <1>9, <2>2, <2>3
<1>10. CASE s # t
  <2>1. \A c \in BookingsOf(s) : Earned[c] = Earned'[c]
    BY <1>5, <1>10 DEF BookingsOf, t
  <2>2. SumFunctionOnSet(Earned, BookingsOf(s)) = SumFunctionOnSet(Earned', BookingsOf(s))
    BY <2>1, BookingsFinite, SumSame
  <2> QED
    BY <1>3, <1>7, <1>10, <2>2
<1> QED
  BY <1>9, <1>10

LEMMA EarningsStep == EarningsInv /\ [Next]_vars => EarningsInv'
<1> SUFFICES ASSUME EarningsInv, [Next]_vars PROVE EarningsAddUp'
  BY ReleaseStep DEF EarningsInv
<1>0. ReleaseInv /\ EarningsAddUp /\ TypeOK /\ TypeOK'
  BY TypeStep DEF EarningsInv, ReleaseInv
<1>1. ASSUME UNCHANGED <<escrow, credited, wallet>> PROVE EarningsAddUp'
  BY <1>0, <1>1, EarningsKeep DEF Earned
<1>2. ASSUME NEW h \in pending, HoldInsert(h) PROVE EarningsAddUp'
  <2>1. h.b \in Bookings
    BY <1>0 DEF TypeOK, Hold
  <2>2. CASE IndexRefuses(h.b)
    BY <1>1, <1>2, <2>2 DEF HoldInsert
  <2>3. CASE ~IndexRefuses(h.b)
    <3>1. credited[h.b] = 0
      BY <1>0, <2>1, <2>3 DEF IndexRefuses, ReleaseInv, EmptyDocuments
    <3>2. /\ UNCHANGED <<credited, wallet>>
          /\ \A c \in Bookings : c # h.b => escrow'[c] = escrow[c]
      BY <1>0, <1>2, <2>1, <2>3 DEF HoldInsert, TypeOK
    <3>3. escrow[h.b].amount \in Nat /\ escrow'[h.b].amount \in Nat
      BY <1>0, <2>1 DEF TypeOK, EscrowRecord
    <3>4. Earned'[h.b] = 0 /\ Earned[h.b] = 0
      BY <2>1, <3>1, <3>2, <3>3 DEF Earned
    <3>5. \A c \in Bookings : Earned'[c] = Earned[c]
      BY <3>2, <3>4 DEF Earned
    <3> QED
      BY <1>0, <3>2, <3>5, EarningsKeep
  <2> QED
    BY <2>2, <2>3
<1>3. ASSUME NEW j \in Runs, NEW b \in Bookings, CreateWallet(j, b) PROVE EarningsAddUp'
  <2>1. UNCHANGED <<escrow, credited>>
    BY <1>3 DEF CreateWallet
  <2>2. \A s \in Stylists : /\ wallet'[s].total = wallet[s].total
                            /\ wallet'[s].withdrawable = wallet[s].withdrawable
    <3>1. \/ UNCHANGED wallet
          \/ wallet' = [wallet EXCEPT ![StylistOf[b]].exists = TRUE]
      BY <1>3 DEF CreateWallet
    <3>2. wallet \in [Stylists -> WalletRecord]
      BY <1>0 DEF TypeOK
    <3> QED
      BY <3>1, <3>2 DEF WalletRecord
  <2> QED
    BY <1>0, <2>1, <2>2, EarningsKeep DEF Earned
<1>4. ASSUME NEW s \in Stylists, GetWallet(s) PROVE EarningsAddUp'
  <2>1. \A r \in Stylists : /\ wallet'[r].total = wallet[r].total
                            /\ wallet'[r].withdrawable = wallet[r].withdrawable
    BY <1>0, <1>4 DEF GetWallet, TypeOK, WalletRecord
  <2> QED
    BY <1>0, <1>4, <2>1, EarningsKeep DEF Earned, GetWallet
<1>5. ASSUME NEW j \in Runs, NEW b \in Bookings, MarkReleased(j, b) PROVE EarningsAddUp'
  <2>1. \A c \in Bookings : escrow'[c].amount = escrow[c].amount
    BY <1>0, <1>5 DEF MarkReleased, TypeOK, EscrowRecord
  <2>2. \A c \in Bookings : Earned'[c] = Earned[c]
    BY <1>5, <2>1 DEF MarkReleased, Earned
  <2> QED
    BY <1>0, <1>5, <2>2, EarningsKeep DEF MarkReleased
<1>6. ASSUME NEW j \in Runs, NEW b \in Bookings, AddEarnings(j, b) PROVE EarningsAddUp'
  BY <1>0, <1>6, CreditKeeps
<1>7. ASSUME NEW b \in Bookings, NEW a \in Amounts, HoldFind(b, a) PROVE EarningsAddUp'
  BY <1>1, <1>7 DEF HoldFind
<1>8. ASSUME NEW j \in Runs, List(j) PROVE EarningsAddUp'
  BY <1>1, <1>8 DEF List
<1>9. ASSUME NEW j \in Runs, NEW b \in Bookings, FindWallet(j, b) \/ TaskFails(j, b)
      PROVE EarningsAddUp'
  BY <1>1, <1>9 DEF FindWallet, TaskFails
<1>10. CASE NextDay \/ Crash \/ UNCHANGED vars
  BY <1>1, <1>10 DEF NextDay, Crash, vars
<1> QED
  BY <1>2, <1>3, <1>4, <1>5, <1>6, <1>7, <1>8, <1>9, <1>10 DEF Next, Step

\* The two balances of a stylist are equal and are the sum of the escrows
\* credited to that stylist, however many runs of releaseDailyEscrow overlap:
\* updateBalance increments in the database and loses nothing.
THEOREM EarningsCorrect == Spec => []EarningsAddUp
<1>1. Init => EarningsInv
  BY ReleaseInit, EarningsInit DEF EarningsInv
<1>2. EarningsInv => EarningsAddUp
  BY DEF EarningsInv
<1> QED
  BY <1>1, <1>2, EarningsStep, PTL DEF Spec

-----------------------------------------------------------------------------
(* How often an escrow is credited.                                         *)

\* The runs that hold a task for the booking: before the credit, and after it.
Working(b) == {j \in Runs : task[j][b].at \in {"find", "create", "add"}}
Marking(b) == {j \in Runs : task[j][b].at = "mark"}

\* While an amount is held, each credit stands beside a task that is about to
\* mark the document, or beside the fault that ended that task; once it is
\* released, a run can credit it again only with a task it has already.
CreditCovered(b) ==
  /\ escrow[b].status = "HELD" =>
       credited[b] <= Cardinality(Marking(b)) + Cardinality(Runs) * faults
  /\ escrow[b].status = "RELEASED" =>
       credited[b] + Cardinality(Working(b)) <= Cardinality(Runs) * (1 + faults)

CreditsInv == ReleaseInv /\ \A b \in Bookings : CreditCovered(b)

LEMMA RunsCount ==
  Cardinality(Runs) \in Nat
BY FinitenessAssumption, FS_CardinalityType

LEMMA TasksCount ==
  ASSUME NEW b
  PROVE  /\ IsFiniteSet(Working(b)) /\ IsFiniteSet(Marking(b))
         /\ Cardinality(Working(b)) \in Nat /\ Cardinality(Marking(b)) \in Nat
         /\ Cardinality(Working(b)) + Cardinality(Marking(b)) <= Cardinality(Runs)
<1>1. Working(b) \in SUBSET Runs /\ Marking(b) \in SUBSET Runs
  BY DEF Working, Marking
<1>2. IsFiniteSet(Working(b)) /\ IsFiniteSet(Marking(b))
  BY <1>1, FinitenessAssumption, FS_Subset
<1>3. Cardinality(Working(b)) \in Nat /\ Cardinality(Marking(b)) \in Nat
  BY <1>2, FS_CardinalityType
<1>4. Working(b) \cup Marking(b) \in SUBSET Runs /\ Working(b) \cap Marking(b) = {}
  BY DEF Working, Marking
<1>5. Cardinality(Working(b) \cup Marking(b)) <= Cardinality(Runs)
  BY <1>4, FinitenessAssumption, FS_Subset
<1>6. Cardinality(Working(b) \cup Marking(b)) =
        Cardinality(Working(b)) + Cardinality(Marking(b)) - Cardinality({})
  BY <1>2, <1>4, FS_Union
<1> QED
  BY <1>2, <1>3, <1>5, <1>6, FS_EmptySet

\* Fewer tasks count less.
LEMMA FewerTasks ==
  ASSUME NEW S, NEW T \in SUBSET S, IsFiniteSet(S)
  PROVE  Cardinality(T) <= Cardinality(S) /\ Cardinality(T) \in Nat /\ Cardinality(S) \in Nat
BY FS_Subset, FS_CardinalityType

\* A step that leaves the status and the count of a booking alone, starts no
\* task on a document that is released and ends none that is about to mark.
LEMMA CoverKeeps ==
  ASSUME TypeOK, NEW b \in Bookings, CreditCovered(b), UNCHANGED faults,
         escrow'[b].status = escrow[b].status, credited'[b] = credited[b],
         Marking(b) \subseteq Marking(b)',
         escrow[b].status = "RELEASED" => Working(b)' \subseteq Working(b)
  PROVE  CreditCovered(b)'
<1>1. IsFiniteSet(Marking(b)') /\ Marking(b)' \in SUBSET Runs
  <2>1. Marking(b)' \in SUBSET Runs
    BY DEF Marking
  <2> QED
    BY <2>1, FinitenessAssumption, FS_Subset
<1>2. Cardinality(Marking(b)) <= Cardinality(Marking(b)') /\ Cardinality(Marking(b)') \in Nat
  BY <1>1, FewerTasks
<1>3. escrow[b].status = "RELEASED" =>
        Cardinality(Working(b)') <= Cardinality(Working(b)) /\ Cardinality(Working(b)') \in Nat
  BY TasksCount, FewerTasks
<1>4. credited[b] \in Nat /\ faults \in Nat
  BY DEF TypeOK
<1>5. Cardinality(Runs) * faults \in Nat /\ Cardinality(Runs) * (1 + faults) \in Nat
  BY <1>4, RunsCount
<1>6. ASSUME escrow'[b].status = "HELD"
      PROVE  credited'[b] <= Cardinality(Marking(b)') + Cardinality(Runs) * faults
  <2>1. credited[b] <= Cardinality(Marking(b)) + Cardinality(Runs) * faults
    BY <1>6 DEF CreditCovered
  <2> QED
    BY <1>2, <1>4, <1>5, <2>1, TasksCount
<1>7. ASSUME escrow'[b].status = "RELEASED"
      PROVE  credited'[b] + Cardinality(Working(b)') <= Cardinality(Runs) * (1 + faults)
  <2>1. credited[b] + Cardinality(Working(b)) <= Cardinality(Runs) * (1 + faults)
    BY <1>7 DEF CreditCovered
  <2> QED
    BY <1>3, <1>4, <1>5, <1>7, <2>1, TasksCount
<1> QED
  BY <1>6, <1>7 DEF CreditCovered, Marking, Working

\* A fault covers as many credits as there are runs.
LEMMA FaultKeeps ==
  ASSUME TypeOK, TypeOK', NEW b \in Bookings, CreditCovered(b), faults' = faults + 1,
         escrow'[b].status = escrow[b].status, credited'[b] = credited[b],
         Working(b)' \subseteq Working(b)
  PROVE  CreditCovered(b)'
<1> DEFINE R == Cardinality(Runs)
<1>1. credited[b] \in Nat /\ faults \in Nat /\ R \in Nat
  BY RunsCount DEF TypeOK
<1>2. /\ R * (faults + 1) = R * faults + R /\ R * (1 + faults) = R * faults + R
      /\ R * (1 + (faults + 1)) = R * faults + R + R /\ R * faults \in Nat
  BY <1>1
<1>3. IsFiniteSet(Marking(b)')
  <2>1. Marking(b)' \in SUBSET Runs
    BY DEF Marking
  <2> QED
    BY <2>1, FinitenessAssumption, FS_Subset
<1>4. Cardinality(Marking(b)') \in Nat
  BY <1>3, FS_CardinalityType
<1>5. Cardinality(Working(b)') <= Cardinality(Working(b)) /\ Cardinality(Working(b)') \in Nat
  BY TasksCount, FewerTasks
<1> HIDE DEF R
<1>6. ASSUME escrow'[b].status = "HELD"
      PROVE  credited'[b] <= Cardinality(Marking(b)') + R * (faults + 1)
  <2>1. credited[b] <= Cardinality(Marking(b)) + R * faults
    BY <1>6 DEF CreditCovered, R
  <2>2. Cardinality(Marking(b)) <= R /\ Cardinality(Marking(b)) \in Nat
    BY RunsCount, TasksCount DEF R
  <2> QED
    BY <1>1, <1>2, <1>4, <2>1, <2>2
<1>7. ASSUME escrow'[b].status = "RELEASED"
      PROVE  credited'[b] + Cardinality(Working(b)') <= R * (1 + (faults + 1))
  <2>1. credited[b] + Cardinality(Working(b)) <= R * (1 + faults)
    BY <1>7 DEF CreditCovered, R
  <2>2. Cardinality(Working(b)) \in Nat
    BY TasksCount
  <2> QED
    BY <1>1, <1>2, <1>5, <2>1, <2>2
<1> QED
  BY <1>6, <1>7 DEF CreditCovered, Marking, Working, R

\* A credit turns a task that works into one that is about to mark.
LEMMA CreditIsCovered ==
  ASSUME TypeOK, TypeOK', NEW j \in Runs, NEW b \in Bookings, AddEarnings(j, b), CreditCovered(b)
  PROVE  CreditCovered(b)'
<1> DEFINE R == Cardinality(Runs)
<1>1. /\ task[j][b].at = "add" /\ UNCHANGED <<escrow, faults>>
      /\ credited'[b] = credited[b] + 1 /\ credited[b] \in Nat /\ faults \in Nat
  BY DEF AddEarnings, TypeOK
<1>2. OnlyMoves(j, b, "mark")
  BY AdvanceTyped DEF AddEarnings
<1>3. Marking(b)' = Marking(b) \cup {j} /\ j \notin Marking(b)
  BY <1>1, <1>2 DEF OnlyMoves, Marking
<1>4. Working(b)' = Working(b) \ {j} /\ j \in Working(b)
  BY <1>1, <1>2 DEF OnlyMoves, Working
<1>5. Cardinality(Marking(b)') = Cardinality(Marking(b)) + 1
  BY <1>3, TasksCount, FS_AddElement
<1>6. Cardinality(Working(b)') = Cardinality(Working(b)) - 1
  BY <1>4, TasksCount, FS_RemoveElement
<1>7. R * faults \in Nat /\ R * (1 + faults) \in Nat
  BY <1>1, RunsCount
<1>8. Cardinality(Working(b)) \in Nat /\ Cardinality(Marking(b)) \in Nat
  BY TasksCount
<1> HIDE DEF R
<1>9. ASSUME escrow'[b].status = "HELD"
      PROVE  credited'[b] <= Cardinality(Marking(b)') + R * faults
  <2>1. credited[b] <= Cardinality(Marking(b)) + R * faults
    BY <1>1, <1>9 DEF CreditCovered, R
  <2> QED
    BY <1>1, <1>5, <1>7, <1>8, <2>1
<1>10. ASSUME escrow'[b].status = "RELEASED"
       PROVE  credited'[b] + Cardinality(Working(b)') <= R * (1 + faults)
  <2>1. credited[b] + Cardinality(Working(b)) <= R * (1 + faults)
    BY <1>1, <1>10 DEF CreditCovered, R
  <2> QED
    BY <1>1, <1>6, <1>7, <1>8, <2>1
<1> QED
  BY <1>1, <1>9, <1>10 DEF CreditCovered, Marking, Working, R

\* The mark: every credit so far came from a task that has just ended or is
\* about to mark as well, and those that still work may credit once more each.
LEMMA MarkIsCovered ==
  ASSUME ReleaseInv, TypeOK', NEW j \in Runs, NEW b \in Bookings, MarkReleased(j, b), CreditCovered(b)
  PROVE  CreditCovered(b)'
<1> DEFINE R == Cardinality(Runs)
<1>0. TypeOK
  BY DEF ReleaseInv
<1>1. /\ task[j][b].at = "mark" /\ UNCHANGED <<credited, faults>>
      /\ credited[b] \in Nat /\ faults \in Nat /\ escrow'[b].status = "RELEASED"
  BY <1>0 DEF MarkReleased, TypeOK, EscrowRecord
<1>2. escrow[b].status \in {"HELD", "RELEASED"}
  BY <1>0, <1>1 DEF ReleaseInv, TasksKnow, TaskKnows, TypeOK, EscrowRecord
<1>3. OnlyMoves(j, b, "none")
  BY <1>0, AdvanceTyped DEF MarkReleased
<1>4. Working(b)' = Working(b)
  BY <1>1, <1>3 DEF OnlyMoves, Working
<1>5. R \in Nat /\ R * faults \in Nat /\ R * (1 + faults) = R * faults + R
  BY <1>1, RunsCount
<1>6. /\ Cardinality(Working(b)) \in Nat /\ Cardinality(Marking(b)) \in Nat
      /\ Cardinality(Working(b)) + Cardinality(Marking(b)) <= R
  BY TasksCount
<1>7. \/ credited[b] <= Cardinality(Marking(b)) + R * faults
      \/ credited[b] + Cardinality(Working(b)) <= R * (1 + faults)
  BY <1>2 DEF CreditCovered
<1> HIDE DEF R
<1>8. credited[b] + Cardinality(Working(b)) <= R * (1 + faults)
  BY <1>1, <1>5, <1>6, <1>7
<1>9. credited'[b] + Cardinality(Working(b)') <= R * (1 + faults)
  BY <1>1, <1>4, <1>8
<1> QED
  BY <1>1, <1>9 DEF CreditCovered, Working, R

\* A task that is not about to mark goes on to a call other than the mark: it
\* leaves every booking covered.
LEMMA MoveIsCovered ==
  ASSUME TypeOK, NEW j \in Runs, NEW c \in Bookings, task[j][c].at \in {"find", "create"},
         NEW label \in {"none", "create", "add"}, OnlyMoves(j, c, label),
         UNCHANGED <<escrow, credited, faults>>, NEW b \in Bookings, CreditCovered(b)
  PROVE  CreditCovered(b)'
<1>1. Marking(b) \subseteq Marking(b)'
  BY DEF OnlyMoves, Marking
<1>2. Working(b)' \subseteq Working(b)
  BY DEF OnlyMoves, Working
<1> QED
  BY <1>1, <1>2, CoverKeeps

\* An action on one booking leaves the tasks on the others alone.
LEMMA OthersStand ==
  ASSUME NEW j \in Runs, NEW c \in Bookings, NEW label, OnlyMoves(j, c, label),
         NEW b \in Bookings, b # c
  PROVE  Marking(b)' = Marking(b) /\ Working(b)' = Working(b)
BY DEF OnlyMoves, Marking, Working

LEMMA CreditsStep == CreditsInv /\ [Next]_vars => CreditsInv'
<1> SUFFICES ASSUME CreditsInv, [Next]_vars, NEW b \in Bookings PROVE CreditCovered(b)'
  BY ReleaseStep DEF CreditsInv
<1>0. ReleaseInv /\ TypeOK /\ TypeOK' /\ CreditCovered(b)
  BY TypeStep DEF CreditsInv, ReleaseInv
<1>1. ASSUME UNCHANGED <<escrow, credited, faults, task>> PROVE CreditCovered(b)'
  BY <1>0, <1>1 DEF CreditCovered, Marking, Working
<1>2. ASSUME NEW h \in pending, HoldInsert(h) PROVE CreditCovered(b)'
  <2>1. h.b \in Bookings
    BY <1>0 DEF TypeOK, Hold
  <2>2. CASE IndexRefuses(h.b)
    BY <1>1, <1>2, <2>2 DEF HoldInsert
  <2>3. CASE ~IndexRefuses(h.b) /\ b # h.b
    <3>1. escrow'[b] = escrow[b] /\ UNCHANGED <<credited, faults, task>>
      BY <1>0, <1>2, <2>1, <2>3 DEF HoldInsert, TypeOK
    <3>2. Marking(b)' = Marking(b) /\ Working(b)' = Working(b)
      BY <3>1 DEF Marking, Working
    <3> QED
      BY <1>0, <3>1, <3>2, CoverKeeps
  <2>4. CASE ~IndexRefuses(h.b) /\ b = h.b
    <3>1. /\ escrow'[b].status = "HELD" /\ UNCHANGED <<credited, faults, task>>
          /\ credited[b] = 0
      BY <1>0, <1>2, <2>1, <2>4
      DEF HoldInsert, IndexRefuses, TypeOK, ReleaseInv, EmptyDocuments
    <3>2. Cardinality(Runs) * faults \in Nat
      BY <1>0, RunsCount DEF TypeOK
    <3>3. credited'[b] <= Cardinality(Marking(b)) + Cardinality(Runs) * faults'
      BY <3>1, <3>2, TasksCount
    <3>4. Marking(b)' = Marking(b)
      BY <3>1 DEF Marking
    <3> QED
      BY <3>1, <3>3, <3>4 DEF CreditCovered, Marking
  <2> QED
    BY <2>2, <2>3, <2>4
<1>3. ASSUME NEW j \in Runs, List(j) PROVE CreditCovered(b)'
  <2>1. /\ \A i \in Runs : i # j => task'[i] = task[i]
        /\ task[j][b].at = "none"
        /\ task'[j][b].at \in {"none", "find"}
        /\ escrow[b].status = "RELEASED" => task'[j][b].at = "none"
    BY <1>0, <1>3 DEF List, RunIdle, Due, NoTask, TypeOK
  <2>2. Marking(b) \subseteq Marking(b)'
    BY <2>1 DEF Marking
  <2>3. escrow[b].status = "RELEASED" => Working(b)' \subseteq Working(b)
    BY <2>1 DEF Working
  <2> QED
    BY <1>0, <1>3, <2>2, <2>3, CoverKeeps DEF List
<1>4. ASSUME NEW j \in Runs, NEW c \in Bookings, FindWallet(j, c) PROVE CreditCovered(b)'
  <2>1. NextCall(wallet[StylistOf[c]].exists) \in {"add", "create"}
    BY DEF NextCall
  <2>2. OnlyMoves(j, c, NextCall(wallet[StylistOf[c]].exists))
    BY <1>0, <1>4, <2>1, AdvanceTyped DEF FindWallet
  <2> QED
    BY <1>0, <1>4, <2>1, <2>2, MoveIsCovered DEF FindWallet
<1>5. ASSUME NEW j \in Runs, NEW c \in Bookings, CreateWallet(j, c) PROVE CreditCovered(b)'
  <2>1. Advance(j, c, "none") \/ Advance(j, c, "add")
    BY <1>5 DEF CreateWallet, NextCall
  <2>2. OnlyMoves(j, c, "none") \/ OnlyMoves(j, c, "add")
    BY <1>0, <2>1, AdvanceTyped
  <2> QED
    BY <1>0, <1>5, <2>2, MoveIsCovered DEF CreateWallet
<1>6. ASSUME NEW j \in Runs, NEW c \in Bookings, AddEarnings(j, c) PROVE CreditCovered(b)'
  <2>1. CASE b # c
    <3>1. OnlyMoves(j, c, "mark")
      BY <1>0, <1>6, AdvanceTyped DEF AddEarnings
    <3>2. escrow'[b] = escrow[b] /\ credited'[b] = credited[b] /\ UNCHANGED faults
      BY <1>0, <1>6, <2>1 DEF AddEarnings, TypeOK
    <3> QED
      BY <1>0, <2>1, <3>1, <3>2, OthersStand, CoverKeeps
  <2> QED
    BY <1>0, <1>6, <2>1, CreditIsCovered
<1>7. ASSUME NEW j \in Runs, NEW c \in Bookings, MarkReleased(j, c) PROVE CreditCovered(b)'
  <2>1. CASE b # c
    <3>1. OnlyMoves(j, c, "none")
      BY <1>0, <1>7, AdvanceTyped DEF MarkReleased
    <3>2. escrow'[b] = escrow[b] /\ credited'[b] = credited[b] /\ UNCHANGED faults
      BY <1>0, <1>7, <2>1 DEF MarkReleased, TypeOK
    <3> QED
      BY <1>0, <2>1, <3>1, <3>2, OthersStand, CoverKeeps
  <2> QED
    BY <1>0, <1>7, <2>1, MarkIsCovered
<1>8. ASSUME NEW j \in Runs, NEW c \in Bookings, TaskFails(j, c) PROVE CreditCovered(b)'
  <2>1. OnlyMoves(j, c, "none")
    BY <1>0, <1>8, AdvanceTyped DEF TaskFails
  <2>2. Working(b)' \subseteq Working(b)
    BY <2>1 DEF OnlyMoves, Working
  <2> QED
    BY <1>0, <1>8, <2>2, FaultKeeps DEF TaskFails
<1>9. CASE Crash
  <2>1. Working(b)' \subseteq Working(b)
    BY <1>9 DEF Crash, Working, NoTask
  <2> QED
    BY <1>0, <1>9, <2>1, FaultKeeps DEF Crash
<1>10. ASSUME NEW c \in Bookings, NEW a \in Amounts, HoldFind(c, a) PROVE CreditCovered(b)'
  BY <1>1, <1>10 DEF HoldFind
<1>11. CASE (\E s \in Stylists : GetWallet(s)) \/ NextDay \/ UNCHANGED vars
  BY <1>1, <1>11 DEF GetWallet, NextDay, vars
<1> QED
  BY <1>2, <1>3, <1>4, <1>5, <1>6, <1>7, <1>8, <1>9, <1>10, <1>11 DEF Next, Step

\* The escrow of a booking is credited at most once by each run that may be in
\* progress, and as often again for every task or process cut short: the check
\* and the mark of releaseDailyEscrow leave no room for more, for any number of
\* runs, bookings and faults.
THEOREM CreditsLimited == Spec => []CreditsBounded
<1>1. Init => CreditsInv
  BY ReleaseInit DEF Init, CreditsInv, CreditCovered, NoDocument
<1>2. CreditsInv => CreditsBounded
  <2> SUFFICES ASSUME CreditsInv, NEW b \in Bookings
               PROVE  credited[b] <= Cardinality(Runs) * (1 + faults)
    BY DEF CreditsBounded
  <2>1. /\ credited[b] \in Nat /\ faults \in Nat
        /\ escrow[b].status \in {"NONE", "HELD", "RELEASED"} /\ CreditCovered(b)
        /\ escrow[b].status = "NONE" => credited[b] = 0
    BY DEF CreditsInv, ReleaseInv, TypeOK, EscrowRecord, EmptyDocuments
  <2>2. Cardinality(Runs) * (1 + faults) = Cardinality(Runs) * faults + Cardinality(Runs)
        /\ Cardinality(Runs) * faults \in Nat /\ Cardinality(Runs) \in Nat
    BY <2>1, RunsCount
  <2>3. CASE escrow[b].status = "NONE"
    BY <2>1, <2>2, <2>3
  <2>4. CASE escrow[b].status = "HELD"
    <3>1. credited[b] <= Cardinality(Marking(b)) + Cardinality(Runs) * faults
      BY <2>1, <2>4 DEF CreditCovered
    <3> QED
      BY <2>1, <2>2, <3>1, TasksCount
  <2>5. CASE escrow[b].status = "RELEASED"
    <3>1. credited[b] + Cardinality(Working(b)) <= Cardinality(Runs) * (1 + faults)
      BY <2>1, <2>5 DEF CreditCovered
    <3> QED
      BY <2>1, <2>2, <3>1, TasksCount
  <2> QED
    BY <2>1, <2>3, <2>4, <2>5
<1> QED
  BY <1>1, <1>2, CreditsStep, PTL DEF Spec
=============================================================================
