--------------------------- MODULE MCRuntimeTasks ---------------------------
(* Instances of RuntimeTasks: one or two descriptors, with or without an   *)
(* identifier written by the user.                                         *)
EXTENDS RuntimeTasks

MCChains == {<<None>>, <<None, None>>, <<None, 0>>}
ShortChains == {<<None>>}
=============================================================================
