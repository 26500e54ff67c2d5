------------------------------ MODULE MCSubset ------------------------------
(* Four validators, one of them faulty, at a late stage. *)
EXTENDS Subset, TLC

CONSTANTS v1, v2, v3, v4

(* Whose proposals are done is the only difference among the correct. *)
Symm == Permutations(Finished \ Faulty)
=============================================================================
