SPECIFICATION FairSpec
CONSTANTS
  b1 = b1
  b2 = b2
  p1 = p1
  s1 = s1
  v1 = v1
  v2 = v2
  Bookings = {b1, b2}
  Pairs = {p1}
  PairOf <- TwoOfOnePair
  Stylists = {s1}
  Services = {v1, v2}
  StylistOf <- OneStylist
  ServiceOf <- TwoServices
  None = None
  Requests = {r1, r2}
  MaxRequests = 4
  MaxFaults = 1
INVARIANT ClosedWasOver
INVARIANT RatingsAddUp
PROPERTY ExpiredRoomCloses
CHECK_DEADLOCK FALSE
