CONSTANTS
  Depth = 3
  MaxWindow = 3
  MaxPre = 1
  MaxBody = 3
  MaxPost = 1
  MaxInner = 2
  MaxAround = 1
  MaxCalls = 3
  TripCounts = {2, 4, 5, 7, 8}
  NestTrips = {2, 4, 7}
  Steps = {1, 2}
  OneReleaseOnly = TRUE
  SteadyLoopsOnly = TRUE
  AlignedLoopsOnly = TRUE
SPECIFICATION Spec
INVARIANTS LocksMatchWindow SubviewIsWindow LegalAccepted UnrollingAligns
