-------------------------- MODULE MCKeyGeneration --------------------------
(* Key generation with f = 1. *)
EXTENDS KeyGeneration, TLC

CONSTANTS n1, n2, n3, n4, o1, q

(* A Part that is good for two of three correct nodes only, another one,   *)
(* good for all but of too high a degree, and one with rows missing.       *)
Parts ==
    {[commit |-> GoodCommit(n4, PubKeys), rows |-> {n1, n2, n4}],
     [commit |-> [poly |-> q, degree |-> 2], rows |-> PubKeys],
     [commit |-> GoodCommit(n4, PubKeys), rows |-> Malformed]}

(* Acks with good values for everybody, for one node, or too few of them.  *)
Values == {PubKeys, {n1}, Malformed}
=============================================================================
