----------------------------- MODULE MCEvalQueue -----------------------------
(* Instances of EvalQueue for model checking.                               *)
EXTENDS EvalQueue

AllNamesBound == {}
NamesOfTheCode == {"probe", "aggregate"}
=============================================================================
