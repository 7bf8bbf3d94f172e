---------------------- MODULE MCObjectFifoBinaryLocks ----------------------
(* Instances of ObjectFifoBinaryLocks: the two windows as a function.       *)
EXTENDS ObjectFifoBinaryLocks

CONSTANTS MaxProduce, MaxConsume

MCMaxAcquire == [p \in Ports |-> IF p = "Produce" THEN MaxProduce ELSE MaxConsume]
=============================================================================
