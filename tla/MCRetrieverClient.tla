-------------------------- MODULE MCRetrieverClient --------------------------
(* Instances of RetrieverClient for model checking.                         *)
EXTENDS RetrieverClient

CONSTANTS t1, t2, t3, t4, owner

Trajectories == {t1, t2, t3, t4}
=============================================================================
