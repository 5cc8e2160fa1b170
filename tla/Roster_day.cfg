SPECIFICATION RosterSpec
CONSTANTS
  Day = 4
  Hours <- AllHours
  BreakTimes <- Afternoon
  Bookable <- Middle
  Durations = {2}
  Earliest = {1}
  BranchBreaks <- Lunches
  Breaks = {i1, i2}
  OffDays = {o1}
  BreakLimit = 2
  Readers = {r1}
  Requests = {r1, r2}
  None = None
  MaxRequests = 3
  MaxFaults = 1
SYMMETRY Interchangeable
CHECK_DEADLOCK FALSE
INVARIANT ListShowsTheDay
INVARIANT OverrideStands
INVARIANT BreaksLimited
