SPECIFICATION SerialSpec
CONSTANTS
  Bookings = {b1}
  Orders = {o1, o2, o3}
  Requests = {r1}
  CronJobs = {j1}
  NoBooking = NoBooking
  NoOrder = NoOrder
  NoEscrow = NoEscrow
  Price = 10
  Discount = 5
  OpeningBalance = 20
  MaxUsage = 1
  Ops <- WalletOps
  StatusTargets = {"CONFIRMED", "COMPLETED", "CANCELLED"}
  MaxRequests = 7
  MaxFaults = 0
SYMMETRY Symmetry
INVARIANT MoneyConserved
INVARIANT PaidInFull
INVARIANT ChartsAddUp
INVARIANT PagesMissNothing
