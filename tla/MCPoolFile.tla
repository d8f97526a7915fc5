----------------------------- MODULE MCPoolFile -----------------------------
(* Constants of PoolFile for the model checker.                             *)
EXTENDS PoolFile, TLC

(* No id is special.                                                        *)
IdSymmetry == Permutations(Ids)
=============================================================================
