SPECIFICATION FairSpec
CONSTANTS
  Users = {u1}
  Amounts = {1, 2}
  Orders = {o1}
  Requests = {r1, r2, r3}
  MaxRequests = 4
  MaxFaults = 1
INVARIANT TypeOK
INVARIANT NothingLost
INVARIANT OverdraftBounded
INVARIANT TopupOnItsWay
PROPERTY TopupReachesWallet
CHECK_DEADLOCK FALSE
