CONSTANTS
  Links <- MCLinks
  Objects = 6
SPECIFICATION FairSpec
INVARIANTS TypeOK LocksConserved PlainLinksInOrder
PROPERTIES Completes
