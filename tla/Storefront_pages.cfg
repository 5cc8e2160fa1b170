SPECIFICATION Spec
CONSTANTS
  Branches = {b1, b2}
  Categories = {c1, c2}
  Services = {s1, s2}
  Stylists = {t1}
  CardLimit = 1
  Portrayed = {u1}
  Illustrated = {s1, s2}
  Objects = {x1, x2, x3}
  Requests = {r1, r2}
  None = None
  NoPicture = NoPicture
  MaxRequests = 3
  MaxFaults = 1
SYMMETRY Interchangeable
CHECK_DEADLOCK FALSE
 
INVARIANT StylistKeepsBranch
INVARIANT PictureIsThere
