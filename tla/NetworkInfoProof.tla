-------------------------- MODULE NetworkInfoProof --------------------------
(***************************************************************************)
(* What the numbers of network_info.rs are chosen for: facts about N, f    *)
(* and N - f and about sets of validators that are so large, for any       *)
(* number of validators.                                                   *)
(***************************************************************************)
EXTENDS NetworkInfo, FiniteSetTheorems, WellFoundedInduction, TLAPS

(* N, f and N - f are what network_info.rs computes; 3f < N. *)
LEMMA Thresholds ==
    /\ num_nodes \in Nat /\ num_nodes > 0
    /\ num_faulty \in Nat /\ 3 * num_faulty < num_nodes
    /\ num_correct = num_nodes - num_faulty
    /\ IsFiniteSet(Faulty) /\ Cardinality(Faulty) \in Nat
    /\ Cardinality(Faulty) <= num_faulty
<1>1. num_nodes \in Nat
  BY NodesAssumption, FS_CardinalityType DEF num_nodes
<1>2. num_nodes > 0
  BY <1>1, NodesAssumption, FS_EmptySet DEF num_nodes
<1>3. num_faulty \in Nat /\ 3 * num_faulty < num_nodes
  BY <1>1, <1>2 DEF num_faulty, max_faulty
<1>4. IsFiniteSet(Faulty) /\ Cardinality(Faulty) \in Nat
  BY NodesAssumption, FS_Subset, FS_CardinalityType
<1> QED
  BY <1>1, <1>2, <1>3, <1>4, FaultyAssumption DEF num_correct

(* Sets of validators are finite, and larger sets count more. *)
LEMMA Counting ==
    ASSUME NEW S \in SUBSET Validators, NEW T \in SUBSET Validators
    PROVE  /\ IsFiniteSet(S) /\ Cardinality(S) \in Nat
           /\ S \subseteq T => Cardinality(S) <= Cardinality(T)
<1>1. IsFiniteSet(S) /\ IsFiniteSet(T)
  BY NodesAssumption, FS_Subset
<1> QED
  BY <1>1, FS_CardinalityType, FS_Subset

(* A non-empty set of natural numbers has a least element. *)
LEMMA Least ==
    ASSUME NEW T \in SUBSET Nat, T # {}
    PROVE  \E k \in T : \A j \in T : k <= j
<1>1. PICK k \in T : \A j \in T : ~(<<j, k>> \in OpToRel(<, Nat))
  BY NatLessThanWellFounded, WFMin
<1>2. \A j \in T : ~(j < k)
  BY <1>1 DEF OpToRel
<1> QED
  BY <1>2

(* More than f validators include a correct one. *)
LEMMA CorrectMember ==
    ASSUME NEW S \in SUBSET Validators, Cardinality(S) > num_faulty
    PROVE  \E v \in S : v \in CorrectValidators
<1>1. SUFFICES ASSUME S \subseteq Faulty PROVE FALSE
  BY DEF CorrectValidators
<1>2. Cardinality(S) <= Cardinality(Faulty)
  BY <1>1, Thresholds, FS_Subset
<1> QED
  BY <1>2, Thresholds, Counting

(* Two sets of N - f validators share a correct one. *)
LEMMA QuorumIntersection ==
    ASSUME NEW P \in SUBSET Validators, Cardinality(P) >= num_correct,
           NEW Q \in SUBSET Validators, Cardinality(Q) >= num_correct
    PROVE  \E v \in P \cap Q : v \in CorrectValidators
<1>1. /\ IsFiniteSet(P) /\ IsFiniteSet(Q)
      /\ Cardinality(P) \in Nat /\ Cardinality(Q) \in Nat
      /\ Cardinality(P \cap Q) \in Nat /\ Cardinality(P \cup Q) \in Nat
  BY Counting
<1>2. Cardinality(P \cup Q) = Cardinality(P) + Cardinality(Q) - Cardinality(P \cap Q)
  BY <1>1, FS_Union
<1>3. Cardinality(P \cup Q) <= num_nodes
  BY NodesAssumption, FS_Subset DEF num_nodes
<1>4. Cardinality(P \cap Q) > num_faulty
  BY <1>1, <1>2, <1>3, Thresholds
<1> QED
  BY <1>4, CorrectMember

(* Leaving the faulty out of a set of validators takes away at most f.     *)
LEMMA WithoutFaulty ==
    ASSUME NEW S \in SUBSET Validators
    PROVE  /\ Cardinality(S \ Faulty) \in Nat
           /\ Cardinality(S \ Faulty) >= Cardinality(S) - num_faulty
<1>1. IsFiniteSet(S) /\ Cardinality(S) \in Nat /\ Cardinality(S \ Faulty) \in Nat /\ Cardinality(S \cap Faulty) \in Nat
  BY Counting
<1>2. Cardinality(S \ Faulty) = Cardinality(S) - Cardinality(S \cap Faulty)
  BY <1>1, FS_Difference
<1>3. Cardinality(S \cap Faulty) <= Cardinality(Faulty)
  BY Thresholds, FS_Subset
<1> QED
  BY <1>1, <1>2, <1>3, Thresholds

(* There are at least N - f, and so 2f + 1, correct validators. *)
LEMMA EnoughCorrect ==
    /\ Cardinality(CorrectValidators) \in Nat
    /\ Cardinality(CorrectValidators) >= num_correct
    /\ Cardinality(CorrectValidators) > 2 * num_faulty
<1>1. Cardinality(CorrectValidators) \in Nat /\ Cardinality(CorrectValidators) >= num_nodes - num_faulty
  BY WithoutFaulty DEF CorrectValidators, num_nodes
<1> QED
  BY <1>1, Thresholds

LEMMA CorrectNodes ==
    /\ CorrectValidators \subseteq Correct /\ CorrectValidators \subseteq Validators
    /\ Correct \cap Validators = CorrectValidators
    /\ \A v \in Validators : v \notin Faulty => v \in CorrectValidators
BY NodesAssumption DEF Correct, CorrectValidators
=============================================================================
