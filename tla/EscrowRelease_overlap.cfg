SPECIFICATION FairSpec
CONSTANTS
  b1 = b1
  b2 = b2
  s1 = s1
  Bookings = {b1, b2}
  Stylists = {s1}
  StylistOf <- TwoOfOne
  Amounts = {2}
  Runs = {j1, j2}
  MaxDay = 1
  MaxFaults = 1
INVARIANT TypeOK
INVARIANT ReleasedWasCredited
INVARIANT EarningsAddUp
INVARIANT CreditsBounded
PROPERTY ImplementsBook
PROPERTY HeldIsReleased
