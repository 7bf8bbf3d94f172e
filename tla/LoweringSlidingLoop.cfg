CONSTANTS
  Depth = 3
  MaxWindow = 2
  MaxPre = 0
  MaxBody = 2
  MaxPost = 0
  MaxInner = 0
  MaxAround = 0
  MaxCalls = 0
  TripCounts = {6}
  NestTrips = {1}
  Steps = {1}
  OneReleaseOnly = TRUE
  SteadyLoopsOnly = FALSE
  AlignedLoopsOnly = TRUE
SPECIFICATION Spec
INVARIANTS LocksMatchWindow
