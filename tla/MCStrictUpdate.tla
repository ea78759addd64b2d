---------------------------- MODULE MCStrictUpdate ----------------------------
(* Instances of StrictUpdate for model checking.                            *)
EXTENDS StrictUpdate, TLC

RankSymmetry == Permutations(Ranks)
=============================================================================
