SPECIFICATION Spec
CONSTANTS
  Users = {u1, u2}
  Emails = {e1}
  Phones = {p1}
  Invites = {i1, i2, i3}
  Requests = {r1, r2}
  None = None
  MaxRequests = 4
  MaxFaults = 1
SYMMETRY Interchangeable
CHECK_DEADLOCK FALSE
INVARIANT CodesArrive
INVARIANT ActiveStylistHasPassword
INVARIANT InvitesInTurn
