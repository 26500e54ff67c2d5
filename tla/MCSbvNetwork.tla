---------------------------- MODULE MCSbvNetwork ----------------------------
(* A round among four validators, one of them faulty. *)
EXTENDS SbvNetwork, TLC

CONSTANTS v1, v2, v3, v4

(* The faulty validator backs true, wherever and whenever it likes. *)
Partisan == {Msg(v, 0, type, TRUE) : v \in Faulty, type \in {"BVal", "Aux"}}

Symm == Permutations(CorrectValidators)
=============================================================================
