CONSTANTS
  Channels = {"MM2S", "S2MM"}
  NumBds = 3
  Chains <- MCChains
  MaxTasks = 3
  AwaitInOrder = TRUE
SPECIFICATION FairSpec
INVARIANTS TypeOK NoReuseInFlight AwaitMeansDone GeneratorIsExact
PROPERTIES TasksComplete AwaitsReturn
