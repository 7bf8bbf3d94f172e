CONSTANTS
  Links <- TileLinkOfTwoDepths
  Objects = 5
SPECIFICATION Spec
INVARIANTS PartsInOrder
