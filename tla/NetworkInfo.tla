---------------------------- MODULE NetworkInfo ----------------------------
(***************************************************************************)
(* The data every algorithm instance shares (src/src/network_info.rs): who *)
(* the validators are, which further nodes only observe, and the numbers   *)
(* N, f and N - f that all thresholds are built from.  Key material is not *)
(* modelled; who is faulty is not known to the program and is a parameter  *)
(* of the model only.                                                      *)
(***************************************************************************)
EXTENDS Integers, FiniteSets

CONSTANTS Validators,  \* the keys of `public_keys'
          Observers,   \* nodes that run the code but are not validators
          Faulty       \* the validators that do not follow the protocol

ASSUME NodesAssumption ==
    /\ IsFiniteSet(Validators)
    /\ Validators # {}
    /\ Observers \cap Validators = {}
    /\ Faulty \subseteq Validators

num_nodes == Cardinality(Validators)

(* util.rs: the greatest number less than one third of n *)
max_faulty(n) == (n - 1) \div 3

num_faulty == max_faulty(num_nodes)

num_correct == num_nodes - num_faulty

(* is_validator and is_node_validator *)
is_validator(n) == n \in Validators

ASSUME FaultyAssumption == Cardinality(Faulty) <= num_faulty

(* The nodes whose steps are the program's: correct validators, observers. *)
Correct == (Validators \cup Observers) \ Faulty

CorrectValidators == Validators \ Faulty
=============================================================================
