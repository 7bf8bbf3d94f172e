------------------------- MODULE MCObjectFifoLocks -------------------------
(* Instances of ObjectFifoLocks: the two windows as a function.             *)
EXTENDS ObjectFifoLocks

CONSTANTS MaxProduce, MaxConsume

MCMaxAcquire == [p \in Ports |-> IF p = "Produce" THEN MaxProduce ELSE MaxConsume]
=============================================================================
