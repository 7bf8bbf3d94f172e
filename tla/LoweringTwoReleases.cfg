CONSTANTS
  Depth = 3
  MaxWindow = 2
  MaxPre = 3
  MaxBody = 3
  MaxPost = 0
  MaxInner = 0
  MaxAround = 0
  MaxCalls = 0
  TripCounts = {2}
  NestTrips = {2}
  Steps = {1}
  OneReleaseOnly = FALSE
  SteadyLoopsOnly = TRUE
  AlignedLoopsOnly = TRUE
SPECIFICATION Spec
INVARIANTS LocksMatchWindow
