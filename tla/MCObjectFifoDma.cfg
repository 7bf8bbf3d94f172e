CONSTANTS
  Consumers = {"c1", "c2"}
  ProdWindow = 2
  ConsWindow = 2
  ProdDepth = 2
  ConsDepth = 2
  IsArray = FALSE
  MaxAcquire <- MCMixedAcquire
  ElemNumber <- MCElemNumber
  StreamDepth = 1
  Objects = 4
SPECIFICATION FairSpec
INVARIANTS TypeOK MutualExclusion
PROPERTIES ContractSpec Completes
