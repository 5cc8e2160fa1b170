------------------------------- MODULE Handlers -------------------------------
(***************************************************************************)
(* What the request handlers of the process have in common.  A handler     *)
(* decides on what it reads first and then makes its awaited calls, one    *)
(* after the other; todo names those that are left.  Between two calls     *)
(* anything may happen, and a call that rejects, or the death of the       *)
(* process, ends the handler with the earlier calls done.                  *)
(***************************************************************************)
EXTENDS Naturals, Sequences

CONSTANTS
  Requests,     \* handlers in progress at the same time
  MaxRequests,  \* bound: handlers started in one behaviour
  MaxFaults,    \* bound: handlers cut short in one behaviour
  None          \* no document, no id, nothing given

ASSUME HandlerAssumption == MaxRequests \in Nat /\ MaxFaults \in Nat

VARIABLES
  request,    \* handlers in progress: todo and the data they carry
  accepted,   \* how much of MaxRequests is used up
  faults,     \* how much of MaxFaults is used up
  overlapped  \* history: a handler began while another was in progress

handlerVars == <<request, accepted, faults, overlapped>>

Idle == [todo |-> <<>>]

HandlersInit ==
  /\ request = [r \in Requests |-> Idle]
  /\ accepted = 0
  /\ faults = 0
  /\ overlapped = FALSE

HandlersTypeOK ==
  /\ accepted \in Nat
  /\ faults \in Nat
  /\ overlapped \in BOOLEAN

Counted ==
  /\ accepted < MaxRequests
  /\ accepted' = accepted + 1
  /\ overlapped' = (overlapped \/ \E q \in Requests : request[q] # Idle)
  /\ UNCHANGED faults

\* A handler with calls to make; local is what it carries.
Accept(r, local) ==
  /\ request[r] = Idle
  /\ Counted
  /\ request' = [request EXCEPT ![r] = local]

\* A handler whose only call that matters is the first one.
AtOnce == Counted /\ UNCHANGED request

At(r, step) == request[r] # Idle /\ Head(request[r].todo) = step

Rest(local) == IF Len(local.todo) = 1 THEN Idle ELSE [local EXCEPT !.todo = Tail(@)]

Continues(r, local) ==
  /\ request' = [request EXCEPT ![r] = local]
  /\ UNCHANGED <<accepted, faults, overlapped>>

Advance(r) == Continues(r, Rest(request[r]))

\* The handler throws: what is left is not done.
Throw(r) == Continues(r, Idle)

Cut(r) ==
  /\ request[r] # Idle
  /\ faults < MaxFaults
  /\ faults' = faults + 1
  /\ request' = [request EXCEPT ![r] = Idle]
  /\ UNCHANGED <<accepted, overlapped>>
=============================================================================
