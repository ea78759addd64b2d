---------------------------- MODULE MCRunDirectory ----------------------------
(* Instances of RunDirectory for model checking.                            *)
EXTENDS RunDirectory, TLC

RankSymmetry == Permutations(Ranks)
=============================================================================
