----------------------------- MODULE Wallet_proofs -----------------------------
(***************************************************************************)
(* Proofs about Wallet: its types, that a balance stays covered as long as *)
(* requests are served one at a time, and, when they overlap, that the     *)
(* records account for every movement, by how much a balance can be        *)
(* overdrawn, and that a top-up that is marked as paid has arrived or has  *)
(* a request that is going to credit it.                                   *)
(***************************************************************************)
EXTENDS Wallet, Sums, TLAPS

-----------------------------------------------------------------------------
(* Types.                                                                   *)

LEMMA TypeInit == Init => TypeOK
BY DEF Init, TypeOK, WalletRecord, RecordSums, TopupRecord, LocalData, Kinds, Labels

\* What a request in progress works on has its types.
LEMMA ArgTyped ==
  ASSUME TypeOK, NEW r \in Requests
  PROVE  /\ arg[r].kind \in Kinds /\ arg[r].u \in Users /\ arg[r].amount \in Nat
         /\ Delta(r) \in Int
BY DEF TypeOK, LocalData, Delta

\* A movement between two calls keeps the control variables typed.
LEMMA GotoTyped ==
  ASSUME TypeOK, NEW r \in Requests, NEW label \in Labels, Goto(r, label)
  PROVE  /\ pc' \in [Requests -> Labels]
         /\ arg' \in [Requests -> LocalData] /\ begun' \in Nat /\ faults' \in Nat
BY DEF TypeOK, Goto

\* Whatever follows the search for a wallet is such a movement.
LEMMA FoundGoes ==
  ASSUME TypeOK, NEW r \in Requests, Found(r)
  PROVE  \E label \in {"idle", "insert", "move"} : Goto(r, label)
<1>1. arg[r].kind \in {"open", "credit", "debit", "order"}
  BY ArgTyped DEF Kinds
<1> QED
  BY <1>1 DEF Found, Answer

LEMMA FoundTyped ==
  ASSUME TypeOK, NEW r \in Requests, Found(r)
  PROVE  /\ pc' \in [Requests -> Labels]
         /\ arg' \in [Requests -> LocalData] /\ begun' \in Nat /\ faults' \in Nat
<1>1. PICK label \in {"idle", "insert", "move"} : Goto(r, label)
  BY FoundGoes
<1>2. label \in Labels
  BY DEF Labels
<1> QED
  BY <1>1, <1>2, GotoTyped

LEMMA AcceptTyped ==
  ASSUME TypeOK, NEW r \in Requests, NEW label \in Labels, NEW data \in LocalData,
         Accept(r, label, data)
  PROVE  TypeOK'
BY DEF TypeOK, Accept, db

\* The sums of a customer's records never shrink, so they stay natural numbers.
LEMMA RecordedTyped ==
  ASSUME NEW sums \in RecordSums, NEW kind, NEW amount \in Nat
  PROVE  Recorded(sums, kind, amount) \in RecordSums
BY DEF RecordSums, Recorded

LEMMA TypeContinue ==
  ASSUME TypeOK, NEW r \in Requests, Continue(r)
  PROVE  TypeOK'
<1>0. /\ "idle" \in Labels /\ "ensure" \in Labels /\ "create" \in Labels
      /\ "record" \in Labels /\ FirstCall("credit") \in Labels
  BY DEF Labels, FirstCall
<1>1. CASE Get(r)
  BY <1>0, <1>1, FoundTyped, GotoTyped DEF Get, db, TypeOK
<1>2. CASE Ensure(r)
  BY <1>0, <1>2, FoundTyped, GotoTyped DEF Ensure, db, TypeOK
<1>3. CASE Create(r)
  <2>1. wallet' \in [Users -> WalletRecord]
    <3>1. [wallet EXCEPT ![arg[r].u].exists = TRUE] \in [Users -> WalletRecord]
      BY ArgTyped DEF TypeOK, WalletRecord
    <3> QED
      BY <1>3, <3>1 DEF Create, TypeOK
  <2>2. Goto(r, "idle") \/ Found(r)
    BY <1>3 DEF Create, Answer
  <2>3. /\ pc' \in [Requests -> Labels]
        /\ arg' \in [Requests -> LocalData] /\ begun' \in Nat /\ faults' \in Nat
    BY <1>0, <2>2, FoundTyped, GotoTyped
  <2> QED
    BY <1>3, <2>1, <2>3 DEF Create, TypeOK
<1>4. CASE Move(r)
  <2>1. wallet' \in [Users -> WalletRecord]
    <3>1. wallet[arg[r].u].balance + Delta(r) \in Int
      BY ArgTyped DEF TypeOK, WalletRecord
    <3> QED
      BY <1>4, <3>1, ArgTyped DEF Move, TypeOK, WalletRecord
  <2>2. credited' \in [Orders -> Nat]
    BY <1>4 DEF Move, TypeOK
  <2>3. /\ pc' \in [Requests -> Labels]
        /\ arg' \in [Requests -> LocalData] /\ begun' \in Nat /\ faults' \in Nat
    BY <1>0, <1>4, GotoTyped DEF Move
  <2> QED
    BY <1>4, <2>1, <2>2, <2>3 DEF Move, TypeOK
<1>5. CASE Record(r)
  <2>1. Recorded(records[arg[r].u], arg[r].kind, arg[r].amount) \in RecordSums
    BY ArgTyped, RecordedTyped DEF TypeOK
  <2>2. records' \in [Users -> RecordSums]
    BY <1>5, <2>1 DEF Record, TypeOK
  <2>3. /\ pc' \in [Requests -> Labels]
        /\ arg' \in [Requests -> LocalData] /\ begun' \in Nat /\ faults' \in Nat
    BY <1>0, <1>5, GotoTyped DEF Record, Answer
  <2> QED
    BY <1>5, <2>2, <2>3 DEF Record, TypeOK
<1>6. CASE Insert(r)
  <2>1. topup' \in [Orders -> TopupRecord]
    BY <1>6, ArgTyped DEF Insert, TypeOK, TopupRecord
  <2>2. /\ pc' \in [Requests -> Labels]
        /\ arg' \in [Requests -> LocalData] /\ begun' \in Nat /\ faults' \in Nat
    BY <1>0, <1>6, GotoTyped DEF Insert, Answer
  <2> QED
    BY <1>6, <2>1, <2>2 DEF Insert, TypeOK
<1>7. CASE Mark(r)
  <2>1. topup' \in [Orders -> TopupRecord]
    BY <1>7 DEF Mark, TypeOK, TopupRecord
  <2>2. /\ pc' \in [Requests -> Labels]
        /\ arg' \in [Requests -> LocalData] /\ begun' \in Nat /\ faults' \in Nat
    BY <1>0, <1>7, GotoTyped DEF Mark
  <2> QED
    BY <1>7, <2>1, <2>2 DEF Mark, TypeOK
<1> QED
  BY <1>1, <1>2, <1>3, <1>4, <1>5, <1>6, <1>7 DEF Continue

LEMMA AskTyped ==
  ASSUME TypeOK, NEW r \in Requests, NEW k \in Kinds, NEW u \in Users, NEW a \in Nat,
         Ask(r, k, u, a)
  PROVE  TypeOK'
<1>1. FirstCall(k) \in Labels
  BY DEF FirstCall, Labels
<1>2. [kind |-> k, u |-> u, amount |-> a, o |-> NoOrder] \in LocalData
  BY DEF LocalData
<1> QED
  BY <1>1, <1>2, AcceptTyped DEF Ask

LEMMA TypeStep == TypeOK /\ [Next]_vars => TypeOK'
<1> SUFFICES ASSUME TypeOK, [Next]_vars PROVE TypeOK'
  OBVIOUS
<1>1. ASSUME NEW r \in Requests, NEW u \in Users, Ask(r, "open", u, 0) PROVE TypeOK'
  BY <1>1, AskTyped DEF Kinds
<1>2. ASSUME NEW r \in Requests, NEW k \in {"credit", "debit", "order"}, NEW u \in Users,
             NEW a \in Amounts, Ask(r, k, u, a)
      PROVE TypeOK'
  <2>1. k \in Kinds /\ a \in Nat
    BY AmountsAssumption DEF Kinds
  <2> QED
    BY <1>2, <2>1, AskTyped
<1>3. ASSUME NEW r \in Requests, NEW o \in Orders, VerifyTopup(r, o) PROVE TypeOK'
  <2>1. [kind |-> "credit", u |-> topup[o].u, amount |-> topup[o].amount, o |-> o] \in LocalData
    BY DEF LocalData, TypeOK, TopupRecord, Kinds
  <2>2. "mark" \in Labels
    BY DEF Labels
  <2> QED
    BY <1>3, <2>1, <2>2, AcceptTyped DEF VerifyTopup
<1>4. ASSUME NEW r \in Requests, RequestFails(r) PROVE TypeOK'
  BY <1>4 DEF RequestFails, TypeOK, Labels, db
<1>5. CASE UNCHANGED vars
  BY <1>5 DEF vars, TypeOK
<1> QED
  BY <1>1, <1>2, <1>3, <1>4, <1>5, TypeContinue DEF Next

\* Every document, record and request has its type in every reachable state,
\* whatever requests overlap and fail: in particular the recorded sums are
\* never negative.
THEOREM TypeCorrect == Spec => []TypeOK
BY TypeInit, TypeStep, PTL DEF Spec

-----------------------------------------------------------------------------
(* One request at a time.                                                   *)

\* A debit about to be taken is covered.
Checked ==
  \A r \in Requests :
    pc[r] = "move" /\ arg[r].kind = "debit" => wallet[arg[r].u].balance >= arg[r].amount

SerialInv == TypeOK /\ OneAtATime /\ Checked /\ NeverOverdrawn

LEMMA SerialInit == Init => SerialInv
BY TypeInit DEF Init, SerialInv, OneAtATime, Checked, NeverOverdrawn

\* The step that follows the search for a wallet checks a debit and leaves the
\* balances as they are.
LEMMA FoundChecks ==
  ASSUME SerialInv, TypeOK', OneAtATime', NEW r \in Requests, pc[r] # "idle", Found(r),
         \A u \in Users : wallet'[u].balance = wallet[u].balance
  PROVE  SerialInv'
<1>0. TypeOK /\ arg[r].u \in Users /\ arg[r].kind \in {"open", "credit", "debit", "order"}
  BY ArgTyped DEF SerialInv, Kinds
<1>1. UNCHANGED arg /\ \A s \in Requests : s # r => pc'[s] = pc[s]
  BY <1>0, FoundGoes DEF Goto, TypeOK
<1>2. \A s \in Requests : s # r => pc'[s] = "idle"
  BY <1>1 DEF SerialInv, OneAtATime
<1>3. pc'[r] = "move" /\ arg[r].kind = "debit" => wallet[arg[r].u].balance >= arg[r].amount
  BY <1>0 DEF Found, Covered, Answer, Goto, TypeOK
<1>4. Checked'
  BY <1>0, <1>1, <1>2, <1>3 DEF Checked
<1> QED
  BY <1>4 DEF SerialInv, NeverOverdrawn

\* A step that moves no money and brings no request to the movement keeps the
\* balances covered.
LEMMA OthersKeep ==
  ASSUME SerialInv, TypeOK', OneAtATime',
         \A u \in Users : wallet'[u].balance = wallet[u].balance,
         \A r \in Requests : pc'[r] = "move" => pc[r] = "move" /\ arg'[r] = arg[r]
  PROVE  SerialInv'
<1>0. \A r \in Requests : arg[r].u \in Users
  BY ArgTyped DEF SerialInv
<1>1. Checked'
  BY <1>0 DEF SerialInv, Checked
<1> QED
  BY <1>1 DEF SerialInv, NeverOverdrawn

LEMMA SerialContinue ==
  ASSUME SerialInv, TypeOK', OneAtATime', NEW r \in Requests, Continue(r)
  PROVE  SerialInv'
<1>0. TypeOK /\ arg[r].u \in Users /\ arg[r].amount \in Nat
  BY ArgTyped DEF SerialInv
<1>1. ASSUME NEW label \in Labels \ {"move"}, Goto(r, label),
             \A u \in Users : wallet'[u].balance = wallet[u].balance
      PROVE  SerialInv'
  BY <1>0, <1>1, OthersKeep DEF Goto, TypeOK
<1>2. /\ "idle" \in Labels \ {"move"} /\ "ensure" \in Labels \ {"move"}
      /\ "create" \in Labels \ {"move"} /\ FirstCall("credit") \in Labels \ {"move"}
  BY DEF Labels, FirstCall
<1>3. CASE Get(r) \/ Ensure(r)
  <2>1. pc[r] # "idle" /\ (Found(r) \/ Goto(r, "ensure") \/ Goto(r, "create"))
    BY <1>3 DEF Get, Ensure
  <2>2. \A u \in Users : wallet'[u].balance = wallet[u].balance
    BY <1>3 DEF Get, Ensure, db
  <2> QED
    BY <1>1, <1>2, <2>1, <2>2, FoundChecks
<1>4. CASE Create(r)
  <2>1. \A u \in Users : wallet'[u].balance = wallet[u].balance
    BY <1>0, <1>4 DEF Create, TypeOK, WalletRecord
  <2>2. pc[r] # "idle" /\ (Found(r) \/ Goto(r, "idle"))
    BY <1>4 DEF Create, Answer
  <2> QED
    BY <1>1, <1>2, <2>1, <2>2, FoundChecks
<1>5. CASE Move(r)
  <2>1. pc[r] = "move" /\ UNCHANGED arg /\ pc' = [pc EXCEPT ![r] = "record"]
    BY <1>5 DEF Move, Goto
  <2>2. pc'[r] = "record" /\ \A s \in Requests : s # r => pc'[s] = pc[s]
    BY <1>0, <2>1 DEF TypeOK
  <2>3. \A s \in Requests : s # r => pc'[s] = "idle"
    BY <2>1, <2>2 DEF SerialInv, OneAtATime
  <2>4. Checked'
    BY <2>2, <2>3 DEF Checked
  <2>5. wallet[arg[r].u].balance \in Int /\ wallet[arg[r].u].balance + Delta(r) >= 0
    BY <1>0, <2>1 DEF SerialInv, Checked, NeverOverdrawn, Delta, TypeOK, WalletRecord
  <2>6. /\ wallet'[arg[r].u].balance = wallet[arg[r].u].balance + Delta(r)
        /\ \A u \in Users : u # arg[r].u => wallet'[u] = wallet[u]
    BY <1>0, <1>5 DEF Move, TypeOK, WalletRecord
  <2>7. NeverOverdrawn'
    BY <2>5, <2>6 DEF SerialInv, NeverOverdrawn
  <2> QED
    BY <2>4, <2>7 DEF SerialInv
<1>6. CASE Record(r) \/ Insert(r) \/ Mark(r)
  <2>1. Goto(r, "idle") \/ Goto(r, FirstCall("credit"))
    BY <1>6 DEF Record, Insert, Mark, Answer
  <2>2. \A u \in Users : wallet'[u].balance = wallet[u].balance
    BY <1>6 DEF Record, Insert, Mark
  <2> QED
    BY <1>1, <1>2, <2>1, <2>2
<1> QED
  BY <1>3, <1>4, <1>5, <1>6 DEF Continue

LEMMA SerialStep == SerialInv /\ [Next /\ OneAtATime']_vars => SerialInv'
<1> SUFFICES ASSUME SerialInv, [Next /\ OneAtATime']_vars PROVE SerialInv'
  OBVIOUS
<1>0. TypeOK /\ TypeOK'
  BY TypeStep DEF SerialInv
<1>1. CASE UNCHANGED vars
  BY <1>0, <1>1 DEF vars, SerialInv, OneAtATime, Checked, NeverOverdrawn
<1>2. CASE Next /\ OneAtATime'
  <2>1. ASSUME NEW r \in Requests, NEW label \in Labels \ {"move"}, NEW data,
               Accept(r, label, data)
        PROVE  SerialInv'
    BY <1>0, <1>2, <2>1, OthersKeep DEF Accept, db, TypeOK
  <2>2. ASSUME NEW r \in Requests, NEW k, NEW u, NEW a, Ask(r, k, u, a)
        PROVE  SerialInv'
    <3>1. FirstCall(k) \in Labels \ {"move"}
      BY DEF FirstCall, Labels
    <3> QED
      BY <2>1, <2>2, <3>1 DEF Ask
  <2>3. ASSUME NEW r \in Requests, NEW o \in Orders, VerifyTopup(r, o) PROVE SerialInv'
    <3>1. "mark" \in Labels \ {"move"}
      BY DEF Labels
    <3> QED
      BY <2>1, <2>3, <3>1 DEF VerifyTopup
  <2>4. ASSUME NEW r \in Requests, RequestFails(r) PROVE SerialInv'
    BY <1>0, <1>2, <2>4, OthersKeep DEF RequestFails, db, TypeOK
  <2> QED
    BY <1>0, <1>2, <2>2, <2>3, <2>4, SerialContinue DEF Next
<1> QED
  BY <1>1, <1>2

\* Served one at a time, requests never overdraw a wallet: the check of
\* debitBalance is enough when nothing comes between it and the debit, even
\* if requests are cut short anywhere.
THEOREM SerialCovered == SerialSpec => []NeverOverdrawn
<1>1. SerialInv => NeverOverdrawn
  BY DEF SerialInv
<1> QED
  BY SerialInit, SerialStep, <1>1, PTL DEF SerialSpec

-----------------------------------------------------------------------------
(* What is recorded.                                                        *)

LEMMA RecordingFinite ==
  ASSUME NEW u
  PROVE  /\ IsFiniteSet(Recording(u)) /\ Recording(u) \subseteq Requests
         /\ IsFiniteSet(Taken(u)) /\ Taken(u) \subseteq Requests
<1>1. Recording(u) \in SUBSET Requests /\ Taken(u) \in SUBSET Requests
  BY DEF Recording, Taken
<1> QED
  BY <1>1, RequestsAssumption, FS_Subset

LEMMA DeltasTyped ==
  ASSUME TypeOK
  PROVE  \A r \in Requests : /\ Deltas[r] = Delta(r) /\ Deltas[r] \in Int
                             /\ Takes[r] = arg[r].amount /\ Takes[r] \in Nat
BY ArgTyped DEF Deltas, Takes

\* A step that moves and records nothing, brings no request to its record and
\* takes none away from it.
LEMMA LedgerKeeps ==
  ASSUME TypeOK, NothingLost, faults' = faults, UNCHANGED records,
         \A u \in Users : wallet'[u].balance = wallet[u].balance,
         \A r \in Requests : pc'[r] = "record" <=> pc[r] = "record",
         \A r \in Requests : pc[r] = "record" => arg'[r] = arg[r]
  PROVE  NothingLost'
<1> SUFFICES ASSUME faults = 0, NEW u \in Users
             PROVE  wallet'[u].balance
                      = records[u].credit - records[u].debit + Unrecorded(u)'
  BY DEF NothingLost, Unrecorded, Recording
<1>1. Recording(u)' = Recording(u)
  BY DEF Recording
<1>2. \A r \in Recording(u) : Deltas[r] = Deltas'[r]
  BY DEF Recording, Deltas, Delta
<1>3. SumFunctionOnSet(Deltas, Recording(u)) = SumFunctionOnSet(Deltas', Recording(u))
  BY <1>2, RecordingFinite, SumSame
<1>4. Unrecorded(u)' = Unrecorded(u)
  BY <1>1, <1>3 DEF Unrecorded
<1> QED
  BY <1>4 DEF NothingLost

\* A request that goes on to a call that is neither the movement nor the record.
LEMMA GotoLedger ==
  ASSUME TypeOK, NothingLost, NEW r \in Requests, pc[r] # "record",
         NEW label, label # "record", Goto(r, label), UNCHANGED records,
         \A u \in Users : wallet'[u].balance = wallet[u].balance
  PROVE  NothingLost'
<1>1. \A s \in Requests : pc'[s] = "record" <=> pc[s] = "record"
  BY DEF Goto, TypeOK
<1> QED
  BY <1>1, LedgerKeeps DEF Goto

\* The movement adds to the balance what the record has yet to say.
LEMMA MoveLedger ==
  ASSUME TypeOK, NothingLost, NEW r \in Requests, Move(r)
  PROVE  NothingLost'
<1>0. arg[r].u \in Users /\ Delta(r) \in Int
  BY ArgTyped
<1>1. /\ pc[r] = "move" /\ pc'[r] = "record" /\ UNCHANGED <<arg, records, faults>>
      /\ \A s \in Requests : s # r => pc'[s] = pc[s]
  BY DEF Move, Goto, TypeOK
<1>2. /\ wallet'[arg[r].u].balance = wallet[arg[r].u].balance + Delta(r)
      /\ \A u \in Users : u # arg[r].u => wallet'[u] = wallet[u]
  BY <1>0 DEF Move, TypeOK, WalletRecord
<1>3. UNCHANGED Deltas
  BY <1>1 DEF Deltas, Delta
<1> SUFFICES ASSUME faults = 0, NEW u \in Users
             PROVE  wallet'[u].balance
                      = records[u].credit - records[u].debit + Unrecorded(u)'
  BY <1>1 DEF NothingLost, Unrecorded, Recording
<1>4. wallet[u].balance = records[u].credit - records[u].debit + Unrecorded(u)
  BY DEF NothingLost
<1>5. CASE u = arg[r].u
  <2>1. Recording(u)' = Recording(u) \cup {r} /\ r \notin Recording(u)
    BY <1>1, <1>5 DEF Recording
  <2>2. SumFunctionOnSet(Deltas, Recording(u) \cup {r})
          = SumFunctionOnSet(Deltas, Recording(u)) + Deltas[r]
    <3>1. \A s \in Recording(u) : Deltas[s] \in Int
      BY DeltasTyped, RecordingFinite
    <3> QED
      BY <2>1, <3>1, DeltasTyped, RecordingFinite, SumAdds
  <2>3. Unrecorded(u)' = Unrecorded(u) + Delta(r)
    BY <1>3, <2>1, <2>2, DeltasTyped DEF Unrecorded
  <2>4. Unrecorded(u) \in Int
    <3>1. \A s \in Recording(u) : Deltas[s] \in Int
      BY DeltasTyped, RecordingFinite
    <3> QED
      BY <3>1, RecordingFinite, SumType DEF Unrecorded
  <2>5. records[u].credit \in Int /\ records[u].debit \in Int
    BY DEF TypeOK, RecordSums
  <2>6. wallet'[u].balance = wallet[u].balance + Delta(r)
    BY <1>2, <1>5
  <2> HIDE DEF Unrecorded
  <2> QED
    BY <1>0, <1>4, <2>3, <2>4, <2>5, <2>6
<1>6. CASE u # arg[r].u
  <2>1. Recording(u)' = Recording(u)
    BY <1>1, <1>6 DEF Recording
  <2>2. Unrecorded(u)' = Unrecorded(u)
    BY <1>3, <2>1 DEF Unrecorded
  <2> QED
    BY <1>2, <1>4, <1>6, <2>2
<1> QED
  BY <1>5, <1>6

\* The record says what the movement added.
LEMMA RecordLedger ==
  ASSUME TypeOK, NothingLost, NEW r \in Requests, Record(r)
  PROVE  NothingLost'
<1>0. arg[r].u \in Users /\ Delta(r) \in Int /\ arg[r].amount \in Nat
  BY ArgTyped
<1>1. /\ pc[r] = "record" /\ pc'[r] = "idle" /\ UNCHANGED <<arg, wallet, faults>>
      /\ \A s \in Requests : s # r => pc'[s] = pc[s]
  BY DEF Record, Answer, Goto, TypeOK
<1>2. /\ records'[arg[r].u].credit - records'[arg[r].u].debit
           = records[arg[r].u].credit - records[arg[r].u].debit + Delta(r)
      /\ \A u \in Users : u # arg[r].u => records'[u] = records[u]
  <2>1. records[arg[r].u] \in RecordSums /\ records \in [Users -> RecordSums]
    BY <1>0 DEF TypeOK
  <2>2. /\ records'[arg[r].u] = Recorded(records[arg[r].u], arg[r].kind, arg[r].amount)
        /\ \A u \in Users : u # arg[r].u => records'[u] = records[u]
    BY <1>0, <2>1 DEF Record
  <2>3. CASE arg[r].kind = "debit"
    BY <1>0, <2>1, <2>2, <2>3 DEF Recorded, RecordSums, Delta
  <2>4. CASE arg[r].kind # "debit"
    BY <1>0, <2>1, <2>2, <2>4 DEF Recorded, RecordSums, Delta
  <2> QED
    BY <2>2, <2>3, <2>4
<1>3. UNCHANGED Deltas
  BY <1>1 DEF Deltas, Delta
<1> SUFFICES ASSUME faults = 0, NEW u \in Users
             PROVE  wallet[u].balance
                      = records'[u].credit - records'[u].debit + Unrecorded(u)'
  BY <1>1 DEF NothingLost, Unrecorded, Recording
<1>4. wallet[u].balance = records[u].credit - records[u].debit + Unrecorded(u)
  BY DEF NothingLost
<1>5. CASE u = arg[r].u
  <2>1. Recording(u)' = Recording(u) \ {r} /\ r \in Recording(u)
    BY <1>1, <1>5 DEF Recording
  <2>2. \A s \in Recording(u) : Deltas[s] \in Int
    BY DeltasTyped, RecordingFinite
  <2>3. Unrecorded(u) = Delta(r) + Unrecorded(u)'
    <3>1. SumFunctionOnSet(Deltas, Recording(u))
            = Deltas[r] + SumFunctionOnSet(Deltas, Recording(u) \ {r})
      BY <2>1, <2>2, RecordingFinite, SumSplits
    <3> QED
      BY <1>3, <2>1, <3>1, DeltasTyped DEF Unrecorded
  <2>4. Unrecorded(u)' \in Int
    <3>1. IsFiniteSet(Recording(u) \ {r})
      BY RecordingFinite, FS_RemoveElement
    <3>2. SumFunctionOnSet(Deltas, Recording(u) \ {r}) \in Int
      BY <2>2, <3>1, SumType
    <3> QED
      BY <1>3, <2>1, <3>2 DEF Unrecorded
  <2>5. /\ records[u].credit \in Int /\ records[u].debit \in Int
        /\ records[u].credit - records[u].debit \in Int
    BY DEF TypeOK, RecordSums
  <2>6. records'[u].credit - records'[u].debit = records[u].credit - records[u].debit + Delta(r)
    BY <1>2, <1>5
  <2> QED
    BY <1>0, <1>4, <2>3, <2>4, <2>5, <2>6
<1>6. CASE u # arg[r].u
  <2>1. Recording(u)' = Recording(u)
    BY <1>1, <1>6 DEF Recording
  <2>2. Unrecorded(u)' = Unrecorded(u)
    BY <1>3, <2>1 DEF Unrecorded
  <2> QED
    BY <1>2, <1>4, <1>6, <2>2
<1> QED
  BY <1>5, <1>6

LedgerInv == TypeOK /\ NothingLost

LEMMA LedgerInit == Init => NothingLost
<1> SUFFICES ASSUME Init, NEW u \in Users
             PROVE  wallet[u].balance = records[u].credit - records[u].debit + Unrecorded(u)
  BY DEF NothingLost
<1>1. Recording(u) = {}
  BY DEF Init, Recording
<1>2. Unrecorded(u) = 0
  BY <1>1, SumEmpty DEF Unrecorded
<1> QED
  BY <1>2 DEF Init

LEMMA LedgerContinue ==
  ASSUME TypeOK, NothingLost, NEW r \in Requests, Continue(r)
  PROVE  NothingLost'
<1>1. ASSUME pc[r] # "record", UNCHANGED records, Found(r),
             \A u \in Users : wallet'[u].balance = wallet[u].balance
      PROVE  NothingLost'
  <2>1. PICK label \in {"idle", "insert", "move"} : Goto(r, label)
    BY <1>1, FoundGoes
  <2> QED
    BY <1>1, <2>1, GotoLedger
<1>2. CASE Get(r) \/ Ensure(r)
  <2>1. /\ pc[r] # "record" /\ UNCHANGED <<records, wallet>>
        /\ Found(r) \/ Goto(r, "ensure") \/ Goto(r, "create")
    BY <1>2 DEF Get, Ensure, db
  <2> QED
    BY <1>1, <2>1, GotoLedger
<1>3. CASE Create(r)
  <2>1. \A u \in Users : wallet'[u].balance = wallet[u].balance
    BY <1>3, ArgTyped DEF Create, TypeOK, WalletRecord
  <2>2. pc[r] # "record" /\ UNCHANGED records /\ (Found(r) \/ Goto(r, "idle"))
    BY <1>3 DEF Create, Answer
  <2> QED
    BY <1>1, <2>1, <2>2, GotoLedger
<1>4. CASE Insert(r) \/ Mark(r)
  <2>1. Goto(r, "idle") \/ Goto(r, "ensure")
    BY <1>4 DEF Insert, Mark, Answer, FirstCall
  <2>2. pc[r] # "record" /\ UNCHANGED <<records, wallet>>
    BY <1>4 DEF Insert, Mark
  <2> QED
    BY <2>1, <2>2, GotoLedger
<1> QED
  BY <1>2, <1>3, <1>4, MoveLedger, RecordLedger DEF Continue

LEMMA LedgerStep == LedgerInv /\ [Next]_vars => LedgerInv'
<1> SUFFICES ASSUME LedgerInv, [Next]_vars PROVE NothingLost'
  BY TypeStep DEF LedgerInv
<1>0. TypeOK /\ NothingLost
  BY DEF LedgerInv
<1>1. ASSUME NEW r \in Requests, NEW label, label # "record", NEW data, Accept(r, label, data)
      PROVE  NothingLost'
  <2>1. /\ pc[r] = "idle" /\ pc'[r] # "record" /\ UNCHANGED <<wallet, records, faults>>
        /\ \A s \in Requests : s # r => pc'[s] = pc[s] /\ arg'[s] = arg[s]
    BY <1>0, <1>1 DEF Accept, db, TypeOK
  <2> QED
    BY <1>0, <2>1, LedgerKeeps
<1>2. ASSUME NEW r \in Requests, NEW k, NEW u, NEW a, Ask(r, k, u, a) PROVE NothingLost'
  BY <1>1, <1>2 DEF Ask, FirstCall
<1>3. ASSUME NEW r \in Requests, NEW o \in Orders, VerifyTopup(r, o) PROVE NothingLost'
  BY <1>1, <1>3 DEF VerifyTopup
<1>4. ASSUME NEW r \in Requests, RequestFails(r) PROVE NothingLost'
  BY <1>0, <1>4 DEF RequestFails, TypeOK, NothingLost
<1>5. CASE UNCHANGED vars
  BY <1>0, <1>5, LedgerKeeps DEF vars
<1> QED
  BY <1>0, <1>2, <1>3, <1>4, <1>5, LedgerContinue DEF Next

\* As long as no request was cut short, what the records of a customer add up
\* to is the balance, but for the movements whose record is still to come -
\* for any number of overlapping requests.
THEOREM LedgerCorrect == Spec => []NothingLost
<1>1. Init => LedgerInv
  BY TypeInit, LedgerInit DEF LedgerInv
<1>2. LedgerInv => NothingLost
  BY DEF LedgerInv
<1> QED
  BY <1>1, <1>2, LedgerStep, PTL DEF Spec

-----------------------------------------------------------------------------
(* How far a wallet can be overdrawn.                                       *)

Allowed == (Cardinality(Requests) - 1) * MaxAmount

LEMMA AllowedTyped ==
  /\ MaxAmount \in Nat /\ \A a \in Amounts : a <= MaxAmount
  /\ Cardinality(Requests) - 1 \in Nat /\ Allowed \in Nat
<1>1. /\ IsFiniteSet(Amounts \cup {0}) /\ Amounts \cup {0} # {}
      /\ \A a \in Amounts \cup {0} : a \in Int /\ a \in Nat
  BY AmountsAssumption, FS_AddElement
<1>2. MaxAmount \in Amounts \cup {0} /\ \A a \in Amounts \cup {0} : a <= MaxAmount
  BY <1>1, MaxIsLargest DEF MaxAmount
<1>3. Cardinality(Requests) \in Nat /\ Cardinality(Requests) # 0
  BY RequestsAssumption, FS_CardinalityType, FS_EmptySet
<1>4. Cardinality(Requests) - 1 \in Nat
  BY <1>3
<1>5. MaxAmount \in Nat
  BY <1>1, <1>2
<1>6. Allowed \in Nat
  <2> DEFINE n == Cardinality(Requests) - 1
  <2>1. n \in Nat
    BY <1>4
  <2> HIDE DEF n
  <2>2. n * MaxAmount \in Nat
    BY <1>5, <2>1
  <2> QED
    BY <2>2 DEF Allowed, n
<1> QED
  BY <1>2, <1>4, <1>5, <1>6

LEMMA TakingTyped ==
  ASSUME TypeOK, NEW u
  PROVE  Taking(u) \in Nat
<1>1. \A r \in Taken(u) : Takes[r] \in Nat
  BY DeltasTyped, RecordingFinite
<1> QED
  BY <1>1, RecordingFinite, SumOfPart DEF Taking

\* An amount that is moved is one of those asked for, a top-up's or the zero of
\* a page.
AmountsKnown ==
  /\ \A r \in Requests : arg[r].amount \in Amounts \cup {0}
  /\ \A o \in Orders : topup[o].amount \in Amounts \cup {0}

LEMMA TakesBounded ==
  ASSUME TypeOK, AmountsKnown
  PROVE  \A r \in Requests : Takes[r] \in 0..MaxAmount
BY DeltasTyped, AllowedTyped DEF AmountsKnown

OverdraftInv == TypeOK /\ AmountsKnown /\ OverdraftBounded

LEMMA OverdraftInit == Init => AmountsKnown /\ OverdraftBounded
<1> SUFFICES ASSUME Init PROVE AmountsKnown /\ OverdraftBounded
  OBVIOUS
<1>1. AmountsKnown
  BY DEF Init, AmountsKnown
<1>2. ASSUME NEW u \in Users PROVE wallet[u].balance - Taking(u) >= -Allowed
  <2>1. Taken(u) = {}
    BY DEF Init, Taken
  <2>2. Taking(u) = 0
    BY <2>1, SumEmpty DEF Taking
  <2>3. wallet[u].balance = 0
    BY DEF Init
  <2> QED
    BY <2>2, <2>3, AllowedTyped
<1> QED
  BY <1>1, <1>2 DEF OverdraftBounded, Allowed

\* A step that takes nothing from a balance and adds no debit about to be taken.
LEMMA BoundKeeps ==
  ASSUME TypeOK, TypeOK', OverdraftBounded,
         \A u \in Users : wallet'[u].balance >= wallet[u].balance,
         \A r \in Requests :
           pc'[r] = "move" /\ arg'[r].kind = "debit" => pc[r] = "move" /\ arg'[r] = arg[r]
  PROVE  OverdraftBounded'
<1> SUFFICES ASSUME NEW u \in Users PROVE wallet'[u].balance - Taking(u)' >= -Allowed
  BY DEF OverdraftBounded, Allowed, Taking, Taken
<1>1. wallet[u].balance - Taking(u) >= -Allowed
  BY DEF OverdraftBounded, Allowed
<1>2. Taken(u)' \in SUBSET Taken(u) /\ \A r \in Taken(u)' : Takes[r] = Takes'[r]
  BY DEF Taken, Takes
<1>3. IsFiniteSet(Taken(u)')
  BY <1>2, RecordingFinite, FS_Subset
<1>4. SumFunctionOnSet(Takes, Taken(u)') = SumFunctionOnSet(Takes', Taken(u)')
  BY <1>2, <1>3, SumSame
<1>5. /\ SumFunctionOnSet(Takes, Taken(u)') \in Nat
      /\ SumFunctionOnSet(Takes, Taken(u)') <= SumFunctionOnSet(Takes, Taken(u))
  <2>1. \A r \in Taken(u) : Takes[r] \in Nat
    BY DeltasTyped, RecordingFinite
  <2> QED
    BY <1>2, <2>1, RecordingFinite, SumOfPart
<1>6. Taking(u)' \in Nat /\ Taking(u)' <= Taking(u)
  BY <1>4, <1>5 DEF Taking
<1>7. wallet[u].balance \in Int /\ wallet'[u].balance \in Int /\ wallet'[u].balance >= wallet[u].balance
  BY DEF TypeOK, WalletRecord
<1> QED
  BY <1>1, <1>6, <1>7, AllowedTyped, TakingTyped

LEMMA GotoBound ==
  ASSUME TypeOK, TypeOK', OverdraftBounded, NEW r \in Requests, NEW label, Goto(r, label),
         label # "move" \/ arg[r].kind # "debit",
         \A u \in Users : wallet'[u].balance = wallet[u].balance
  PROVE  OverdraftBounded'
<1>1. \A s \in Requests :
        pc'[s] = "move" /\ arg'[s].kind = "debit" => pc[s] = "move" /\ arg'[s] = arg[s]
  BY DEF Goto, TypeOK
<1>2. \A u \in Users : wallet'[u].balance >= wallet[u].balance
  BY DEF TypeOK, WalletRecord
<1> QED
  BY <1>1, <1>2, BoundKeeps

\* A debit that passes the check finds what the others about to be taken leave
\* uncovered at most: the amounts of all requests but itself.
LEMMA CheckedBound ==
  ASSUME TypeOK, TypeOK', AmountsKnown, OverdraftBounded, NEW r \in Requests,
         pc[r] # "move", arg[r].kind = "debit", Covered(arg[r].u, arg[r].amount),
         Goto(r, "move"), \A u \in Users : wallet'[u].balance = wallet[u].balance
  PROVE  OverdraftBounded'
<1>0. arg[r].u \in Users /\ arg[r].amount \in Nat
  BY ArgTyped
<1>1. /\ pc'[r] = "move" /\ UNCHANGED arg
      /\ \A s \in Requests : s # r => pc'[s] = pc[s]
  BY DEF Goto, TypeOK
<1>2. UNCHANGED Takes
  BY <1>1 DEF Takes
<1> SUFFICES ASSUME NEW u \in Users PROVE wallet[u].balance - Taking(u)' >= -Allowed
  BY DEF OverdraftBounded, Allowed, Taking, Taken
<1>3. wallet[u].balance \in Int
  BY DEF TypeOK, WalletRecord
<1>4. CASE u # arg[r].u
  <2>1. Taken(u)' = Taken(u)
    BY <1>1, <1>4 DEF Taken
  <2>2. Taking(u)' = Taking(u)
    BY <1>2, <2>1 DEF Taking
  <2> QED
    BY <2>2 DEF OverdraftBounded, Allowed
<1>5. CASE u = arg[r].u
  <2>1. Taken(u)' = Taken(u) \cup {r} /\ r \notin Taken(u)
    BY <1>1, <1>5 DEF Taken
  <2>2. \A s \in Taken(u) : Takes[s] \in Int /\ Takes[s] \in 0..MaxAmount
    BY DeltasTyped, TakesBounded, RecordingFinite
  <2>3. SumFunctionOnSet(Takes, Taken(u) \cup {r})
          = SumFunctionOnSet(Takes, Taken(u)) + Takes[r]
    BY <2>1, <2>2, DeltasTyped, RecordingFinite, SumAdds
  <2>4. Taking(u)' = Taking(u) + arg[r].amount
    BY <1>2, <2>1, <2>3, DeltasTyped DEF Taking
  <2>5. Taking(u) <= Cardinality(Taken(u)) * MaxAmount
    BY <2>2, RecordingFinite, AllowedTyped, SumBound DEF Taking
  <2>6. /\ Cardinality(Taken(u)) \in Nat
        /\ Cardinality(Taken(u)) <= Cardinality(Requests) - 1
    <3>1. IsFiniteSet(Requests \ {r})
          /\ Cardinality(Requests \ {r}) = Cardinality(Requests) - 1
      BY RequestsAssumption, FS_RemoveElement
    <3>2. Taken(u) \in SUBSET (Requests \ {r})
      BY <2>1, RecordingFinite
    <3> QED
      BY <3>1, <3>2, RecordingFinite, FS_CardinalityType, FS_Subset
  <2>7. Cardinality(Taken(u)) * MaxAmount <= Allowed
    <3> DEFINE n == Cardinality(Requests) - 1
               k == Cardinality(Taken(u))
    <3>1. n \in Nat /\ k \in Nat /\ k <= n /\ MaxAmount \in Nat
      BY <2>6, AllowedTyped
    <3> HIDE DEF n, k
    <3>2. n * MaxAmount = k * MaxAmount + (n - k) * MaxAmount /\ (n - k) * MaxAmount \in Nat
          /\ k * MaxAmount \in Nat
      BY <3>1
    <3>3. k * MaxAmount <= n * MaxAmount
      BY <3>2
    <3> QED
      BY <3>3 DEF n, k, Allowed
  <2>8. Cardinality(Taken(u)) * MaxAmount \in Nat
    BY <2>6, AllowedTyped
  <2>9. wallet[u].balance >= arg[r].amount
    BY <1>5 DEF Covered
  <2>10. Taking(u) \in Nat
    BY TakingTyped
  <2> HIDE DEF Taking
  <2>11. Taking(u) <= Allowed
    BY <2>5, <2>7, <2>8, <2>10, AllowedTyped
  <2> QED
    BY <1>0, <1>3, <2>4, <2>9, <2>10, <2>11, AllowedTyped
<1> QED
  BY <1>4, <1>5

\* The movement of a debit takes what was about to be taken.
LEMMA MoveBound ==
  ASSUME TypeOK, TypeOK', OverdraftBounded, NEW r \in Requests, Move(r)
  PROVE  OverdraftBounded'
<1>0. arg[r].u \in Users /\ arg[r].amount \in Nat
  BY ArgTyped
<1>1. /\ pc[r] = "move" /\ pc'[r] = "record" /\ UNCHANGED arg
      /\ \A s \in Requests : s # r => pc'[s] = pc[s]
  BY DEF Move, Goto, TypeOK
<1>2. /\ wallet'[arg[r].u].balance = wallet[arg[r].u].balance + Delta(r)
      /\ \A u \in Users : u # arg[r].u => wallet'[u] = wallet[u]
  BY <1>0 DEF Move, TypeOK, WalletRecord
<1>3. CASE arg[r].kind # "debit"
  <2>1. \A u \in Users : wallet'[u].balance >= wallet[u].balance
    BY <1>0, <1>2, <1>3 DEF Delta, TypeOK, WalletRecord
  <2>2. \A s \in Requests :
          pc'[s] = "move" /\ arg'[s].kind = "debit" => pc[s] = "move" /\ arg'[s] = arg[s]
    BY <1>1
  <2> QED
    BY <2>1, <2>2, BoundKeeps
<1>4. CASE arg[r].kind = "debit"
  <2>1. UNCHANGED Takes
    BY <1>1 DEF Takes
  <2> SUFFICES ASSUME NEW u \in Users PROVE wallet'[u].balance - Taking(u)' >= -Allowed
    BY DEF OverdraftBounded, Allowed, Taking, Taken
  <2>2. wallet[u].balance - Taking(u) >= -Allowed
    BY DEF OverdraftBounded, Allowed
  <2>3. CASE u # arg[r].u
    <3>1. Taken(u)' = Taken(u)
      BY <1>1, <2>3 DEF Taken
    <3>2. Taking(u)' = Taking(u)
      BY <2>1, <3>1 DEF Taking
    <3> QED
      BY <1>2, <2>2, <2>3, <3>2
  <2>4. CASE u = arg[r].u
    <3>1. Taken(u)' = Taken(u) \ {r} /\ r \in Taken(u)
      BY <1>1, <1>4, <2>4 DEF Taken
    <3>2. \A s \in Taken(u) : Takes[s] \in Int /\ Takes[s] \in Nat
      BY DeltasTyped, RecordingFinite
    <3>3. SumFunctionOnSet(Takes, Taken(u))
            = Takes[r] + SumFunctionOnSet(Takes, Taken(u) \ {r})
      BY <3>1, <3>2, RecordingFinite, SumSplits
    <3>4. Taking(u) = arg[r].amount + Taking(u)'
      BY <2>1, <3>1, <3>3, DeltasTyped DEF Taking
    <3>5. SumFunctionOnSet(Takes, Taken(u) \ {r}) \in Nat
      BY <3>2, RecordingFinite, SumOfPart
    <3>6. Taking(u)' \in Nat
      BY <2>1, <3>1, <3>5 DEF Taking
    <3>7. wallet[u].balance \in Int /\ wallet'[u].balance = wallet[u].balance - arg[r].amount
      BY <1>0, <1>2, <1>4, <2>4 DEF Delta, TypeOK, WalletRecord
    <3> QED
      BY <1>0, <2>2, <3>4, <3>6, <3>7, AllowedTyped
  <2> QED
    BY <2>3, <2>4
<1> QED
  BY <1>3, <1>4

LEMMA BoundContinue ==
  ASSUME TypeOK, TypeOK', AmountsKnown, OverdraftBounded, NEW r \in Requests, Continue(r)
  PROVE  AmountsKnown' /\ OverdraftBounded'
<1>1. AmountsKnown'
  <2>1. UNCHANGED arg
    <3>1. ASSUME Found(r) PROVE UNCHANGED arg
      BY <3>1, FoundGoes DEF Goto
    <3> QED
      BY <3>1 DEF Continue, Get, Ensure, Create, Move, Record, Insert, Mark, Goto, Answer
  <2>2. \A o \in Orders : topup'[o].amount \in Amounts \cup {0}
    <3>1. CASE UNCHANGED topup
      BY <3>1 DEF AmountsKnown
    <3>2. CASE Insert(r)
      BY <3>2 DEF AmountsKnown, Insert, TypeOK
    <3>3. CASE Mark(r)
      BY <3>3 DEF AmountsKnown, Mark, TypeOK, TopupRecord
    <3> QED
      BY <3>1, <3>2, <3>3 DEF Continue, Get, Ensure, Create, Move, Record, db
  <2> QED
    BY <2>1, <2>2 DEF AmountsKnown
<1>2. ASSUME pc[r] # "move", Found(r), \A u \in Users : wallet'[u].balance = wallet[u].balance
      PROVE  OverdraftBounded'
  <2>1. CASE arg[r].kind = "debit" /\ Covered(arg[r].u, arg[r].amount)
    <3>1. Goto(r, "move")
      BY <1>2, <2>1 DEF Found
    <3> QED
      BY <1>2, <2>1, <3>1, CheckedBound
  <2>2. CASE ~(arg[r].kind = "debit" /\ Covered(arg[r].u, arg[r].amount))
    <3>1. arg[r].kind \in {"open", "credit", "debit", "order"}
      BY ArgTyped DEF Kinds
    <3>2. Goto(r, "idle") \/ Goto(r, "insert") \/ (arg[r].kind # "debit" /\ Goto(r, "move"))
      BY <1>2, <2>2, <3>1 DEF Found, Answer
    <3> QED
      BY <1>2, <3>2, GotoBound
  <2> QED
    BY <2>1, <2>2
<1>b. ASSUME NEW label \in {"idle", "ensure", "create"}, Goto(r, label),
             \A u \in Users : wallet'[u].balance = wallet[u].balance
      PROVE  OverdraftBounded'
  BY <1>b, GotoBound
<1>3. CASE Get(r) \/ Ensure(r)
  <2>1. /\ pc[r] # "move" /\ \A u \in Users : wallet'[u].balance = wallet[u].balance
        /\ Found(r) \/ Goto(r, "ensure") \/ Goto(r, "create")
    BY <1>3 DEF Get, Ensure, db
  <2> QED
    BY <1>1, <1>2, <1>b, <2>1
<1>4. CASE Create(r)
  <2>1. \A u \in Users : wallet'[u].balance = wallet[u].balance
    BY <1>4, ArgTyped DEF Create, TypeOK, WalletRecord
  <2>2. pc[r] # "move" /\ (Found(r) \/ Goto(r, "idle"))
    BY <1>4 DEF Create, Answer
  <2> QED
    BY <1>1, <1>2, <1>b, <2>1, <2>2
<1>5. CASE Record(r) \/ Insert(r) \/ Mark(r)
  <2>1. Goto(r, "idle") \/ Goto(r, "ensure")
    BY <1>5 DEF Record, Insert, Mark, Answer, FirstCall
  <2>2. \A u \in Users : wallet'[u].balance = wallet[u].balance
    BY <1>5 DEF Record, Insert, Mark
  <2> QED
    BY <1>1, <1>b, <2>1, <2>2
<1> QED
  BY <1>1, <1>3, <1>4, <1>5, MoveBound DEF Continue

LEMMA OverdraftStep == OverdraftInv /\ [Next]_vars => OverdraftInv'
<1> SUFFICES ASSUME OverdraftInv, [Next]_vars PROVE AmountsKnown' /\ OverdraftBounded'
  BY TypeStep DEF OverdraftInv
<1>0. TypeOK /\ TypeOK' /\ AmountsKnown /\ OverdraftBounded
  BY TypeStep DEF OverdraftInv
<1>a. \A u \in Users : wallet[u].balance \in Int
  BY <1>0 DEF TypeOK, WalletRecord
<1>1. ASSUME NEW r \in Requests, NEW label, label # "move", NEW data,
             data.amount \in Amounts \cup {0}, Accept(r, label, data)
      PROVE  AmountsKnown' /\ OverdraftBounded'
  <2>1. /\ pc'[r] # "move" /\ arg'[r] = data /\ UNCHANGED <<wallet, topup>>
        /\ \A s \in Requests : s # r => pc'[s] = pc[s] /\ arg'[s] = arg[s]
    BY <1>0, <1>1 DEF Accept, db, TypeOK
  <2>2. AmountsKnown'
    BY <1>0, <1>1, <2>1 DEF AmountsKnown
  <2>3. \A u \in Users : wallet'[u].balance >= wallet[u].balance
    BY <1>a, <2>1
  <2> QED
    BY <1>0, <2>1, <2>2, <2>3, BoundKeeps
<1>2. ASSUME NEW r \in Requests, NEW k, NEW u, NEW a \in Amounts \cup {0}, Ask(r, k, u, a)
      PROVE AmountsKnown' /\ OverdraftBounded'
  BY <1>1, <1>2 DEF Ask, FirstCall
<1>3. ASSUME NEW r \in Requests, NEW o \in Orders, VerifyTopup(r, o)
      PROVE AmountsKnown' /\ OverdraftBounded'
  BY <1>0, <1>1, <1>3 DEF VerifyTopup, AmountsKnown
<1>4. ASSUME NEW r \in Requests, RequestFails(r) PROVE AmountsKnown' /\ OverdraftBounded'
  <2>1. /\ UNCHANGED <<wallet, topup, arg>> /\ pc'[r] = "idle"
        /\ \A s \in Requests : s # r => pc'[s] = pc[s]
    BY <1>0, <1>4 DEF RequestFails, db, TypeOK
  <2>2. \A u \in Users : wallet'[u].balance >= wallet[u].balance
    BY <1>a, <2>1
  <2> QED
    BY <1>0, <2>1, <2>2, BoundKeeps DEF AmountsKnown
<1>5. CASE UNCHANGED vars
  <2>1. \A u \in Users : wallet'[u].balance >= wallet[u].balance
    BY <1>a, <1>5 DEF vars
  <2> QED
    BY <1>0, <1>5, <2>1, BoundKeeps DEF vars, AmountsKnown
<1> QED
  BY <1>0, <1>2, <1>3, <1>4, <1>5, BoundContinue DEF Next

\* Debits that overlap can overdraw a wallet, but by no more than the largest
\* amount for each request in progress but one: once a balance is short, no
\* further debit passes the check of debitBalance.
THEOREM OverdraftLimited == Spec => []OverdraftBounded
<1>1. Init => OverdraftInv
  BY TypeInit, OverdraftInit DEF OverdraftInv
<1>2. OverdraftInv => OverdraftBounded
  BY DEF OverdraftInv
<1> QED
  BY <1>1, <1>2, OverdraftStep, PTL DEF Spec

-----------------------------------------------------------------------------
(* Top-ups on their way.  Between the mark and the credit a handler may be  *)
(* stopped only by the wallet: by none being there, and another request     *)
(* creating it in between.  But the wallet of an order was there before the *)
(* order was.                                                               *)

\* The wallet of an order, and of an order about to be placed.
WalletsThere ==
  /\ \A o \in Orders : topup[o].state # "NONE" => wallet[topup[o].u].exists
  /\ \A r \in Requests : pc[r] = "insert" => wallet[arg[r].u].exists

\* What a request that verifies knows of its order.
VerifiesOwn(r) ==
  pc[r] # "idle" /\ arg[r].o # NoOrder =>
    /\ arg[r].o \in Orders /\ arg[r].kind = "credit"
    /\ topup[arg[r].o].state # "NONE" /\ arg[r].u = topup[arg[r].o].u
    /\ pc[r] \in {"mark", "ensure", "move", "record"}

WayInv ==
  /\ WalletsThere
  /\ \A r \in Requests : VerifiesOwn(r)
  /\ TopupOnItsWay

\* Once a wallet is there it stays, and an order stays with its customer.
LEMMA WalletsStay ==
  ASSUME TypeOK, [Next]_vars
  PROVE  /\ \A u \in Users : wallet[u].exists => wallet'[u].exists
         /\ \A o \in Orders : topup[o].state # "NONE" =>
              topup'[o].state # "NONE" /\ topup'[o].u = topup[o].u
         /\ \A o \in Orders : credited[o] > 0 => credited'[o] > 0
<1> USE DEF TypeOK, WalletRecord, TopupRecord
<1>1. ASSUME NEW r \in Requests, Create(r) \/ Move(r)
      PROVE  \A u \in Users : wallet[u].exists => wallet'[u].exists
  <2>1. CASE UNCHANGED wallet
    BY <2>1
  <2>2. CASE wallet' = [wallet EXCEPT ![arg[r].u].exists = TRUE]
    BY <2>2
  <2>3. ASSUME NEW b, wallet' = [wallet EXCEPT ![arg[r].u].balance = b]
        PROVE  \A u \in Users : wallet[u].exists => wallet'[u].exists
    BY <2>3
  <2> QED
    BY <1>1, <2>1, <2>2, <2>3 DEF Create, Move
<1>2. ASSUME NEW r \in Requests, Insert(r) \/ Mark(r)
      PROVE  \A o \in Orders : topup[o].state # "NONE" =>
               topup'[o].state # "NONE" /\ topup'[o].u = topup[o].u
  <2>1. ASSUME NEW p \in Orders, NEW t, topup[p].state = "NONE", topup' = [topup EXCEPT ![p] = t]
        PROVE  \A o \in Orders : topup[o].state # "NONE" => topup'[o] = topup[o]
    BY <2>1
  <2>2. ASSUME NEW p, topup' = [topup EXCEPT ![p].state = "COMPLETED"]
        PROVE  \A o \in Orders : topup'[o].u = topup[o].u /\
                 (topup'[o].state = topup[o].state \/ topup'[o].state = "COMPLETED")
    BY <2>2
  <2>3. CASE Insert(r)
    BY <2>1, <2>3 DEF Insert
  <2>4. CASE Mark(r)
    BY <2>2, <2>4 DEF Mark
  <2> QED
    BY <1>2, <2>3, <2>4
<1>3. ASSUME NEW r \in Requests, Move(r)
      PROVE  \A o \in Orders : credited[o] > 0 => credited'[o] > 0
  BY <1>3 DEF Move
<1>4. CASE UNCHANGED db
  BY <1>4 DEF db
<1>5. ASSUME NEW r \in Requests, Continue(r)
      PROVE  /\ \A u \in Users : wallet[u].exists => wallet'[u].exists
             /\ \A o \in Orders : topup[o].state # "NONE" =>
                  topup'[o].state # "NONE" /\ topup'[o].u = topup[o].u
             /\ \A o \in Orders : credited[o] > 0 => credited'[o] > 0
  BY <1>1, <1>2, <1>3, <1>4, <1>5 DEF Continue, Get, Ensure, Create, Move, Record, Insert, Mark
<1> QED
  BY <1>4, <1>5 DEF Next, Ask, VerifyTopup, Accept, RequestFails, vars, db

\* A step of a request that leaves the orders alone, or marks its own, and after
\* which it is still on its way or has credited.
LEMMA WayOfOne ==
  ASSUME TypeOK, WayInv, [Next]_vars, NEW r \in Requests,
         \A q \in Requests : q # r => pc'[q] = pc[q] /\ arg'[q] = arg[q],
         UNCHANGED faults \/ faults' # 0,
         pc'[r] = "insert" => wallet'[arg'[r].u].exists,
         \A o \in Orders : topup'[o].state # "NONE" =>
           topup[o].state # "NONE" \/ wallet'[topup'[o].u].exists,
         \A o \in Orders : topup'[o].state = "COMPLETED" => topup[o].state = "COMPLETED" \/ Crediting(o)',
         VerifiesOwn(r)',
         pc[r] \in {"ensure", "create", "move"} /\ arg[r].o \in Orders /\ faults' = 0 =>
           credited'[arg[r].o] > 0 \/ (arg'[r].o = arg[r].o /\ pc'[r] \in {"ensure", "create", "move"})
  PROVE  WayInv'
<1>1. /\ \A u \in Users : wallet[u].exists => wallet'[u].exists
      /\ \A o \in Orders : topup[o].state # "NONE" =>
           topup'[o].state # "NONE" /\ topup'[o].u = topup[o].u
      /\ \A o \in Orders : credited[o] > 0 => credited'[o] > 0
  BY WalletsStay
<1>2. WalletsThere'
  <2>1. ASSUME NEW o \in Orders, topup'[o].state # "NONE" PROVE wallet'[topup'[o].u].exists
    <3>1. topup[o].state # "NONE" => topup[o].u \in Users /\ wallet[topup[o].u].exists
      BY DEF WayInv, WalletsThere, TypeOK, TopupRecord
    <3> QED
      BY <1>1, <2>1, <3>1
  <2>2. ASSUME NEW q \in Requests, pc'[q] = "insert" PROVE wallet'[arg'[q].u].exists
    <3>1. CASE q = r
      BY <2>2, <3>1
    <3>2. CASE q # r
      BY <1>1, <2>2, <3>2, ArgTyped DEF WayInv, WalletsThere
    <3> QED
      BY <3>1, <3>2
  <2> QED
    BY <2>1, <2>2 DEF WalletsThere
<1>3. \A q \in Requests : VerifiesOwn(q)'
  BY <1>1 DEF WayInv, VerifiesOwn
<1>4. TopupOnItsWay'
  <2> SUFFICES ASSUME NEW o \in Orders, topup'[o].state = "COMPLETED", faults' = 0
               PROVE  credited'[o] > 0 \/ Crediting(o)'
    BY DEF TopupOnItsWay
  <2>1. CASE topup[o].state = "COMPLETED"
    <3>1. credited[o] > 0 \/ Crediting(o)
      BY <2>1 DEF WayInv, TopupOnItsWay
    <3>2. ASSUME NEW q \in Requests, arg[q].o = o, pc[q] \in {"ensure", "create", "move"}
          PROVE  credited'[o] > 0 \/ Crediting(o)'
      BY <3>2 DEF Crediting
    <3> QED
      BY <1>1, <3>1, <3>2 DEF Crediting
  <2>2. CASE topup[o].state # "COMPLETED"
    BY <2>2
  <2> QED
    BY <2>1, <2>2
<1> QED
  BY <1>2, <1>3, <1>4 DEF WayInv

\* What the search for a wallet leads to.
LEMMA FoundWay ==
  ASSUME TypeOK, NEW r \in Requests, Found(r)
  PROVE  /\ arg'[r] = arg[r] /\ UNCHANGED faults
         /\ \A q \in Requests : q # r => pc'[q] = pc[q] /\ arg'[q] = arg[q]
         /\ pc'[r] \in {"idle", "insert", "move"}
         /\ arg[r].kind = "credit" => pc'[r] = "move"
<1>1. arg[r].kind \in {"open", "credit", "debit", "order"}
  BY ArgTyped DEF Kinds
<1> QED
  BY <1>1 DEF Found, Answer, Goto, TypeOK

LEMMA WayContinue ==
  ASSUME TypeOK, WayInv, [Next]_vars, NEW r \in Requests, Continue(r)
  PROVE  WayInv'
<1>0. /\ pc \in [Requests -> Labels] /\ arg \in [Requests -> LocalData] /\ arg[r].u \in Users
      /\ pc[r] # "idle" /\ VerifiesOwn(r)
      /\ topup \in [Orders -> TopupRecord] /\ wallet \in [Users -> WalletRecord]
      /\ credited \in [Orders -> Nat]
  BY ArgTyped DEF TypeOK, WayInv, Continue, Get, Ensure, Create, Move, Record, Insert, Mark
<1> DEFINE o == arg[r].o
<1>1. o = NoOrder => o \notin Orders
  BY OrdersAssumption
<1>2. o # NoOrder =>
        /\ o \in Orders /\ arg[r].kind = "credit" /\ topup[o].state # "NONE"
        /\ arg[r].u = topup[o].u /\ wallet[arg[r].u].exists
        /\ pc[r] \in {"mark", "ensure", "move", "record"}
  BY <1>0 DEF VerifiesOwn, WayInv, WalletsThere
\* The steps that leave the orders and the credits as they are.
<1>3. ASSUME UNCHANGED topup, arg'[r] = arg[r], UNCHANGED faults,
             \A q \in Requests : q # r => pc'[q] = pc[q] /\ arg'[q] = arg[q],
             pc'[r] = "insert" => wallet'[arg[r].u].exists,
             o # NoOrder => pc'[r] \in {"mark", "ensure", "move", "record"} \/ pc'[r] = "idle",
             pc[r] \in {"ensure", "create", "move"} /\ o # NoOrder =>
               credited'[o] > 0 \/ pc'[r] \in {"ensure", "create", "move"}
      PROVE  WayInv'
  <2>1. VerifiesOwn(r)'
    BY <1>2, <1>3 DEF VerifiesOwn
  <2>2. \A p \in Orders : topup'[p].state # "NONE" =>
          topup[p].state # "NONE" \/ wallet'[topup'[p].u].exists
    BY <1>3
  <2>3. pc[r] \in {"ensure", "create", "move"} /\ arg[r].o \in Orders =>
          credited'[arg[r].o] > 0 \/ (arg'[r].o = arg[r].o /\ pc'[r] \in {"ensure", "create", "move"})
    BY <1>1, <1>3
  <2>4. \A p \in Orders : topup'[p].state = "COMPLETED" => topup[p].state = "COMPLETED"
    BY <1>3
  <2> QED
    BY <1>3, <2>1, <2>2, <2>3, <2>4, WayOfOne
<1>4. CASE Get(r)
  <2>1. pc[r] = "get" /\ UNCHANGED db /\ o = NoOrder
    BY <1>2, <1>4 DEF Get
  <2>2. CASE Found(r) /\ wallet[arg[r].u].exists
    BY <1>3, <2>1, <2>2, FoundWay DEF db
  <2>3. CASE Goto(r, "ensure")
    BY <1>0, <1>3, <2>1, <2>3 DEF Goto, db
  <2> QED
    BY <1>4, <2>2, <2>3 DEF Get
<1>5. CASE Ensure(r)
  <2>1. pc[r] = "ensure" /\ UNCHANGED db
    BY <1>5 DEF Ensure
  <2>2. CASE Found(r) /\ wallet[arg[r].u].exists
    BY <1>2, <1>3, <2>1, <2>2, FoundWay DEF db
  <2>3. CASE Goto(r, "create") /\ ~wallet[arg[r].u].exists
    BY <1>0, <1>2, <1>3, <2>1, <2>3 DEF Goto, db
  <2> QED
    BY <1>5, <2>2, <2>3 DEF Ensure
<1>6. CASE Create(r)
  <2>1. pc[r] = "create" /\ UNCHANGED <<topup, credited>> /\ o = NoOrder
    BY <1>2, <1>6 DEF Create
  <2>2. CASE Answer(r)
    BY <1>0, <1>3, <2>1, <2>2 DEF Answer, Goto
  <2>3. CASE Found(r) /\ wallet' = [wallet EXCEPT ![arg[r].u].exists = TRUE]
    <3>1. wallet'[arg[r].u].exists
      BY <1>0, <2>3 DEF WalletRecord
    <3> QED
      BY <1>3, <2>1, <2>3, <3>1, FoundWay
  <2> QED
    BY <1>6, <2>2, <2>3 DEF Create
<1>7. CASE Move(r)
  <2>1. pc[r] = "move" /\ UNCHANGED topup /\ Goto(r, "record")
    BY <1>7 DEF Move
  <2>2. o # NoOrder => credited'[o] > 0
    BY <1>0, <1>2, <1>7 DEF Move
  <2> QED
    BY <1>0, <1>3, <2>1, <2>2 DEF Goto
<1>8. CASE Record(r)
  BY <1>0, <1>3, <1>8 DEF Record, Answer, Goto
<1>9. CASE Insert(r)
  <2>1. /\ pc[r] = "insert" /\ pc'[r] = "idle" /\ wallet[arg[r].u].exists
        /\ UNCHANGED <<wallet, faults>>
        /\ \A q \in Requests : q # r => pc'[q] = pc[q] /\ arg'[q] = arg[q]
    BY <1>0, <1>9 DEF Insert, Answer, Goto, WayInv, WalletsThere
  <2>2. PICK p \in Orders :
          /\ topup[p].state = "NONE"
          /\ topup' = [topup EXCEPT ![p] =
               [state |-> "PENDING", u |-> arg[r].u, amount |-> arg[r].amount]]
    BY <1>9 DEF Insert
  <2>3. \A q \in Orders : /\ topup'[q].state = "COMPLETED" => topup[q].state = "COMPLETED"
                          /\ topup'[q].state # "NONE" =>
                               topup[q].state # "NONE" \/ wallet'[topup'[q].u].exists
    BY <1>0, <2>1, <2>2
  <2>4. VerifiesOwn(r)'
    BY <2>1 DEF VerifiesOwn
  <2> QED
    BY <2>1, <2>3, <2>4, WayOfOne
<1>10. CASE Mark(r)
  <2>1. /\ pc[r] = "mark" /\ pc'[r] = "ensure" /\ UNCHANGED <<wallet, faults>> /\ arg'[r] = arg[r]
        /\ \A q \in Requests : q # r => pc'[q] = pc[q] /\ arg'[q] = arg[q]
        /\ topup' = [topup EXCEPT ![o].state = "COMPLETED"]
    BY <1>0, <1>10 DEF Mark, Goto, FirstCall
  <2>2. \A p \in Orders : /\ p # o => topup'[p] = topup[p]
                          /\ p = o => topup'[p].u = topup[p].u /\ topup'[p].state = "COMPLETED"
    BY <1>0, <2>1 DEF TopupRecord
  <2>3. VerifiesOwn(r)'
    BY <1>2, <2>1, <2>2 DEF VerifiesOwn
  <2>4. ASSUME NEW p \in Orders, topup'[p].state = "COMPLETED"
        PROVE  topup[p].state = "COMPLETED" \/ Crediting(p)'
    <3>1. CASE p = o
      BY <2>1, <3>1 DEF Crediting
    <3>2. CASE p # o
      BY <2>2, <2>4, <3>2
    <3> QED
      BY <3>1, <3>2
  <2>5. \A p \in Orders : topup'[p].state # "NONE" =>
          topup[p].state # "NONE" \/ wallet'[topup'[p].u].exists
    BY <1>1, <1>2, <2>2
  <2> QED
    BY <2>1, <2>3, <2>4, <2>5, WayOfOne
<1> QED
  BY <1>4, <1>5, <1>6, <1>7, <1>8, <1>9, <1>10 DEF Continue

LEMMA WayStep == TypeOK /\ WayInv /\ [Next]_vars => WayInv'
<1> SUFFICES ASSUME TypeOK, WayInv, [Next]_vars PROVE WayInv'
  OBVIOUS
<1>0. pc \in [Requests -> Labels] /\ arg \in [Requests -> LocalData] /\ faults \in Nat
  BY DEF TypeOK
<1>1. ASSUME NEW r \in Requests, NEW label \in {"get", "ensure", "mark"}, NEW data,
             Accept(r, label, data),
             data.o = NoOrder \/ /\ label = "mark" /\ data.o \in Orders /\ data.kind = "credit"
                                 /\ topup[data.o].state # "NONE" /\ data.u = topup[data.o].u
      PROVE  WayInv'
  <2>1. /\ pc[r] = "idle" /\ pc'[r] = label /\ arg'[r] = data /\ UNCHANGED <<db, faults>>
        /\ \A q \in Requests : q # r => pc'[q] = pc[q] /\ arg'[q] = arg[q]
    BY <1>0, <1>1 DEF Accept
  <2>2. VerifiesOwn(r)'
    BY <1>1, <2>1 DEF VerifiesOwn, db
  <2> QED
    BY <1>1, <2>1, <2>2, WayOfOne DEF db
<1>2. ASSUME NEW r \in Requests, NEW k, NEW u, NEW a, Ask(r, k, u, a) PROVE WayInv'
  <2>1. FirstCall(k) \in {"get", "ensure", "mark"}
    BY DEF FirstCall
  <2> QED
    BY <1>1, <1>2, <2>1 DEF Ask
<1>3. ASSUME NEW r \in Requests, NEW o \in Orders, VerifyTopup(r, o) PROVE WayInv'
  BY <1>1, <1>3 DEF VerifyTopup
<1>4. ASSUME NEW r \in Requests, RequestFails(r) PROVE WayInv'
  <2>1. /\ pc'[r] = "idle" /\ faults' # 0 /\ UNCHANGED db /\ UNCHANGED arg
        /\ \A q \in Requests : q # r => pc'[q] = pc[q] /\ arg'[q] = arg[q]
    BY <1>0, <1>4 DEF RequestFails
  <2>2. VerifiesOwn(r)'
    BY <2>1 DEF VerifiesOwn
  <2> QED
    BY <2>1, <2>2, WayOfOne DEF db
<1>5. CASE UNCHANGED vars
  BY <1>5 DEF vars, WayInv, WalletsThere, VerifiesOwn, TopupOnItsWay, Crediting
<1> QED
  BY <1>2, <1>3, <1>4, <1>5, WayContinue DEF Next

\* Whatever requests overlap, a top-up that is marked as paid and not yet in the
\* wallet has a request that is going to add it, as long as none was cut short
\* (verifyTopupAndCredit, createTopupOrder): the safety half of
\* TopupReachesWallet.
THEOREM TopupsAreComing == Spec => []TopupOnItsWay
<1>1. Init => WayInv
  BY DEF Init, WayInv, WalletsThere, VerifiesOwn, TopupOnItsWay
<1>2. WayInv => TopupOnItsWay
  BY DEF WayInv
<1> QED
  BY TypeInit, TypeStep, WayStep, <1>1, <1>2, PTL DEF Spec
=============================================================================
