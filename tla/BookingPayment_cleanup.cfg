SPECIFICATION FairSpec
CONSTANTS
  Bookings = {b1}
  Orders = {o1, o2}
  Requests = {r1, r2}
  CronJobs = {j1}
  NoBooking = NoBooking
  NoOrder = NoOrder
  NoEscrow = NoEscrow
  Price = 10
  Discount = 5
  OpeningBalance = 10
  MaxUsage = 1
  Ops = {"cancel", "status", "payWithWallet"}
  StatusTargets = {"PENDING_PAYMENT", "COMPLETED"}
  MaxRequests = 3
  MaxFaults = 1
PROPERTY ExpiredIsFreed
