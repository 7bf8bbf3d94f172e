CONSTANTS
  Links <- DistributeLink
  Objects = 5
SPECIFICATION Spec
INVARIANTS PartsInOrder
