CONSTANTS
  Depth = 3
  MaxProduce = 2
  MaxConsume = 2
  MaxAcquire <- MCMaxAcquire
  Objects = 7
SPECIFICATION FairSpec
INVARIANTS TypeOK IndicesFrameSubview
PROPERTIES ContractSpec Completes
