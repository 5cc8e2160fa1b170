SPECIFICATION Spec
CONSTANTS
  s1 = s1
  s2 = s2
  here = here
  there = there
  today = today
  tomorrow = tomorrow
  Bookings = {b1, b2}
  Specials = {x1}
  Stylists = {s1, s2}
  Branches = {here, there}
  Days = {today, tomorrow}
  Requests = {r1, r2}
  Carts <- AllCarts
  Spans <- Halves
  StatusInputs = {"CONFIRMED", "BLOCKED"}
  None = None
  MaxRequests = 6
SYMMETRY Interchangeable
CHECK_DEADLOCK FALSE
INVARIANT FirstItemsApart
INVARIANT ClashWasNotListed
