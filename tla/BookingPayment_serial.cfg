SPECIFICATION SerialSpec
CONSTANTS
  Bookings = {b1}
  Orders = {o1, o2, o3}
  Requests = {r1}
  CronJobs = {j1}
  NoBooking = NoBooking
  NoOrder = NoOrder
  NoEscrow = NoEscrow
  Price = 10
  Discount = 5
  OpeningBalance = 20
  MaxUsage = 1
  Ops <- AllOps
  StatusTargets = {"PENDING_PAYMENT", "CONFIRMED", "COMPLETED", "NO_SHOW", "CANCELLED"}
  MaxRequests = 6
  MaxFaults = 1
SYMMETRY Symmetry
INVARIANT PaidByTwoPayments
INVARIANT UsesWerePaid
PROPERTY CancelledIsFinal
PROPERTY PriceFixedOncePaid
PROPERTY PutOffOnce
PROPERTY CouponNeedsUses
