---------------------------- MODULE MCBroadcast ----------------------------
(* Broadcast among four validators, one of them faulty. *)
EXTENDS Broadcast, TLC

CONSTANTS v1, v2, v3, v4, r1, r2

EnoughShards == {S \in SUBSET Validators : Cardinality(S) >= data_shard_count}

(* Every root is one that an honest proposer could have made. *)
AllRebuild == [r \in Roots |-> EnoughShards]

(* Under a dishonest root only the faulty validator's leaf is off: with it *)
(* and two more at hand the missing one comes out right.                   *)
OneLeafOff ==
    [r \in Roots |-> IF r \in HonestRoots
                       THEN EnoughShards
                       ELSE {S \in SUBSET Validators : Faulty \subseteq S /\ Cardinality(S) >= 3}]

(* Correct validators that do not propose are interchangeable. *)
Symm == Permutations(CorrectValidators \ {Proposer})
=============================================================================
