SPECIFICATION SerialSpec
CONSTANTS
  Bookings = {b1}
  Orders = {o1, o2}
  Requests = {r1}
  CronJobs = {j1}
  NoBooking = NoBooking
  NoOrder = NoOrder
  NoEscrow = NoEscrow
  Price = 10
  Discount = 5
  OpeningBalance = 10
  MaxUsage = 1
  Ops = {"createOrder", "verify"}
  StatusTargets = {}
  MaxRequests = 4
  MaxFaults = 0
INVARIANT PaidInFull
