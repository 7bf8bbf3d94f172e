CONSTANTS
  Channels = {"MM2S", "S2MM"}
  NumBds = 3
  Chains <- ShortChains
  MaxTasks = 3
  AwaitInOrder = FALSE
SPECIFICATION Spec
INVARIANTS NoReuseInFlight
