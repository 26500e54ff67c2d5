----------------------------- MODULE SyncKeyGen -----------------------------
(***************************************************************************)
(* Synchronous distributed key generation (src/src/sync_key_gen.rs): every *)
(* node deals a secret with a Part; an Ack by each of the others, with a   *)
(* value for everybody, shows that the Part was good.  All nodes handle    *)
(* the same messages in the same order.                                    *)
(*                                                                         *)
(* Of a polynomial the model has a name and the degree: that is what a     *)
(* commitment is.  A Part is its commitment and the set of nodes whose     *)
(* encrypted row agrees with it, an Ack the proposer it is for and the set *)
(* of nodes whose encrypted value is right; either is Malformed if it has  *)
(* the wrong number of rows or values.  The operators map the state kg of  *)
(* node n to the one after the call.                                       *)
(***************************************************************************)
EXTENDS Integers, FiniteSets

CONSTANTS None, Malformed

(* util.rs: the greatest number less than one third of n *)
max_faulty(n) == (n - 1) \div 3

(* SyncKeyGen::new; ProposalState::new *)
KgNew(pub_keys) == [pub_keys |-> pub_keys, parts |-> [p \in pub_keys |-> None]]

NewPart(commit) == [commit |-> commit, values |-> {}, acks |-> {}]

Threshold(kg) == max_faulty(Cardinality(kg.pub_keys))

(* The Part of a correct node n, whose polynomial has the degree t, and    *)
(* its Ack for the Part of p.                                              *)
GoodCommit(n, pub_keys) == [poly |-> n, degree |-> max_faulty(Cardinality(pub_keys))]

GoodPart(n, pub_keys) == [commit |-> GoodCommit(n, pub_keys), rows |-> pub_keys]

GoodAck(p, pub_keys) == [proposer |-> p, values |-> pub_keys]
-----------------------------------------------------------------------------
IsCompleteSoon(part, threshold) ==  \* mutant: enough Acks to share the secret
    part # None /\ Cardinality(part.acks) > threshold

IsCompleteLate(part, threshold) ==  \* mutant
    part # None /\ Cardinality(part.acks) > 2 * threshold + 1

(* is_complete: 2 t + 1 Acks, good or bad *)
IsComplete(part, threshold) == part # None /\ Cardinality(part.acks) > 2 * threshold

is_node_ready(kg, p) == IsComplete(kg.parts[p], Threshold(kg))

Completed(kg) == {p \in kg.pub_keys : is_node_ready(kg, p)}

count_complete(kg) == Cardinality(Completed(kg))

is_ready(kg) == count_complete(kg) > Threshold(kg)

(* handle_part and handle_part_or_fault: whether the Part is a fault of    *)
(* its sender (its degree is not looked at), ...                           *)
PartFault(kg, n, sender, part) ==
    \/ part.rows = Malformed
    \/ IF kg.parts[sender] # None
         THEN kg.parts[sender].commit # part.commit
         ELSE n \in kg.pub_keys /\ n \notin part.rows

(* ... whether it calls for an Ack ... *)
Acks(kg, n, sender, part) ==
    /\ n \in kg.pub_keys /\ kg.parts[sender] = None
    /\ ~PartFault(kg, n, sender, part)

HandlePartChecked(kg, n, sender, part) ==  \* mutant: only those who can use a Part keep it
    IF part.rows = Malformed \/ kg.parts[sender] # None \/ n \notin part.rows
      THEN kg
      ELSE [kg EXCEPT !.parts[sender] = NewPart(part.commit)]

(* ... and what it leads to.  A Part is kept before its row is looked at.  *)
HandlePart(kg, n, sender, part) ==
    IF part.rows = Malformed \/ kg.parts[sender] # None
      THEN kg
      ELSE [kg EXCEPT !.parts[sender] = NewPart(part.commit)]

(* handle_ack and handle_ack_or_fault: an Ack counts before its value is   *)
(* looked at.                                                              *)
AckFault(kg, n, sender, ack) ==
    \/ ack.values = Malformed
    \/ kg.parts[ack.proposer] = None
    \/ /\ sender \notin kg.parts[ack.proposer].acks
       /\ n \in kg.pub_keys /\ n \notin ack.values

HandleAckChecked(kg, n, sender, ack) ==  \* mutant: an Ack with a bad value does not count
    IF AckFault(kg, n, sender, ack) \/ sender \in kg.parts[ack.proposer].acks
      THEN kg
      ELSE [kg EXCEPT !.parts[ack.proposer].acks = @ \cup {sender},
                      !.parts[ack.proposer].values = @ \cup {v \in {sender} : n \in kg.pub_keys}]

HandleAckMixedUp(kg, n, sender, ack) ==  \* mutant: the value is noted under the proposer
    IF ack.values = Malformed \/ kg.parts[ack.proposer] = None \/ sender \in kg.parts[ack.proposer].acks
      THEN kg
      ELSE [kg EXCEPT !.parts[ack.proposer].acks = @ \cup {sender},
                      !.parts[ack.proposer].values =
                          @ \cup {v \in {ack.proposer} : n \in kg.pub_keys /\ n \in ack.values}]

HandleAck(kg, n, sender, ack) ==
    IF ack.values = Malformed \/ kg.parts[ack.proposer] = None \/ sender \in kg.parts[ack.proposer].acks
      THEN kg
      ELSE [kg EXCEPT !.parts[ack.proposer].acks = @ \cup {sender},
                      !.parts[ack.proposer].values =
                          @ \cup {v \in {sender} : n \in kg.pub_keys /\ n \in ack.values}]

(* generate: the public key is the sum over the complete Parts, and so is  *)
(* the node's share of the secret key.                                     *)
PublicKeySet(kg) == {<<p, kg.parts[p].commit>> : p \in Completed(kg)}

(* A summand is interpolated from the first t + 1 values, or from all if   *)
(* they are fewer.  It is the one that the commitment stands for only if   *)
(* the values that are used outnumber the degree.                          *)
GoodSummand(kg, p) ==
    LET part == kg.parts[p]
    IN  part.commit.degree < Cardinality(part.values) /\ part.commit.degree < Threshold(kg) + 1

HasShare(kg, n) == n \in kg.pub_keys /\ \A p \in Completed(kg) : GoodSummand(kg, p)
=============================================================================
