SPECIFICATION Spec
CONSTANTS
  Bookings = {b1}
  Orders = {o1, o2}
  Requests = {r1, r2}
  CronJobs = {j1}
  NoBooking = NoBooking
  NoOrder = NoOrder
  NoEscrow = NoEscrow
  Price = 10
  Discount = 10
  OpeningBalance = 10
  MaxUsage = 1
  Ops <- AllOps
  StatusTargets = {"NO_SHOW", "CONFIRMED"}
  MaxRequests = 4
  MaxFaults = 1
SYMMETRY Symmetry
INVARIANT TypeOK
INVARIANT NothingSettledUnpaid
INVARIANT PaymentsBringMoney
PROPERTY EscrowUntouched
