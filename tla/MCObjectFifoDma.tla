-------------------------- MODULE MCObjectFifoDma --------------------------
(* Instances of ObjectFifoDma: windows and depths per end.                 *)
EXTENDS ObjectFifoDma

CONSTANTS ProdWindow, ConsWindow, ProdDepth, ConsDepth

MCMaxAcquire == [e \in Ends |-> IF e = Prod THEN ProdWindow ELSE ConsWindow]
MCElemNumber == [e \in Ends |-> IF e = Prod THEN ProdDepth ELSE ConsDepth]

(* The first consumer slides a window, the others read one object a time.  *)
MCMixedAcquire == [e \in Ends |-> IF e = Prod THEN ProdWindow
                                  ELSE IF e = "c1" THEN ConsWindow ELSE 1]
=============================================================================
