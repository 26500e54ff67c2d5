------------------------- MODULE KeyGenerationProof -------------------------
(***************************************************************************)
(* Safety of the key generation for any number of nodes, with fewer than a *)
(* third of them faulty, dealing and acknowledging whatever they like.     *)
(*                                                                         *)
(* The tables of two correct nodes are equal but for the values, as a Part *)
(* and an Ack count before it is known whether they are of any use to the  *)
(* node; and a value is there for every Ack of a correct node.             *)
(***************************************************************************)
EXTENDS KeyGeneration, FiniteSetTheorems, TLAPS

SyncKeyGenType == [pub_keys : {PubKeys}, parts : [PubKeys -> ProposalState \cup {None}]]

(* The inductive invariant *)
MapsInv ==
    /\ key_gen \in [Correct -> SyncKeyGenType]
    /\ acked \in [Correct -> SUBSET PubKeys]
    /\ faults \in [Correct -> SUBSET PubKeys]
    /\ finished \in [Correct -> BOOLEAN]

(* Which Parts there are, their commitments and who has sent Acks for them *)
(* is the same everywhere.                                                 *)
SamePartsInv ==
    \A m, n \in Correct : \A p \in PubKeys :
        LET a == key_gen[m].parts[p]
            b == key_gen[n].parts[p]
        IN  (a = None <=> b = None) /\ (a # None => a.commit = b.commit /\ a.acks = b.acks)

(* Nobody goes on with the key generation alone. *)
FinishedInv == \A m, n \in Correct : finished[m] <=> finished[n]

(* A value comes with its Ack, and the Acks of correct nodes have good ones. *)
ValuesInv ==
    \A n \in Correct : \A p \in PubKeys :
        LET part == key_gen[n].parts[p]
        IN  part # None => part.values \subseteq part.acks /\ (n \in Dealers => part.acks \ Faulty \subseteq part.values)

(* A correct dealer's Part is its own, and an Ack comes after its Part. *)
DealersInv ==
    \A n \in Correct :
        /\ \A d \in Dealers : key_gen[n].parts[d] # None => key_gen[n].parts[d].commit = GoodCommit(d, PubKeys)
        /\ \A p \in acked[n] : key_gen[n].parts[p] # None

IInv == MapsInv /\ SamePartsInv /\ FinishedInv /\ ValuesInv /\ DealersInv
-----------------------------------------------------------------------------
(* What the handlers do *)

LEMMA Sets ==
    /\ Dealers \subseteq PubKeys /\ Dealers \subseteq Correct /\ Faulty \subseteq PubKeys
    /\ Dealers \cap Faulty = {} /\ Correct \cap Faulty = {}
    /\ \A n \in Correct : n \in PubKeys <=> n \in Dealers
BY KeyGenerationAssumption DEF Dealers, Correct

LEMMA NewPartType ==
    ASSUME NEW c \in Commitments
    PROVE  /\ NewPart(c) \in ProposalState /\ NewPart(c) # None
           /\ NewPart(c).commit = c /\ NewPart(c).values = {} /\ NewPart(c).acks = {}
BY KeyGenerationAssumption DEF NewPart, ProposalState

(* handle_part stores a first well-formed Part. *)
LEMMA HandlePartFacts ==
    ASSUME NEW kg \in SyncKeyGenType, NEW n, NEW sender \in PubKeys, NEW part,
           part.commit \in Commitments
    PROVE  LET after == HandlePart(kg, n, sender, part)
           IN  /\ after \in SyncKeyGenType
               /\ \A p \in PubKeys :
                     after.parts[p] = IF p = sender /\ part.rows # Malformed /\ kg.parts[p] = None
                                        THEN NewPart(part.commit) ELSE kg.parts[p]
<1>1. NewPart(part.commit) \in ProposalState
  BY NewPartType
<1> QED
  BY <1>1 DEF HandlePart, SyncKeyGenType

Counts(kg, sender, ack) ==
    ack.values # Malformed /\ kg.parts[ack.proposer] # None /\ sender \notin kg.parts[ack.proposer].acks

(* The value that an Ack has for node n, under its sender, if it is right. *)
ValueFor(n, sender, ack) == {v \in {sender} : n \in PubKeys /\ n \in ack.values}

(* handle_ack counts a first well-formed Ack for a Part that is there. *)
AckEffect(kg, after, n, sender, ack) ==
    /\ after \in SyncKeyGenType
    /\ \A p \in PubKeys :
          /\ p = ack.proposer /\ Counts(kg, sender, ack) =>
                /\ after.parts[p] # None
                /\ after.parts[p].commit = kg.parts[p].commit
                /\ after.parts[p].acks = kg.parts[p].acks \cup {sender}
                /\ after.parts[p].values = kg.parts[p].values \cup ValueFor(n, sender, ack)
          /\ ~(p = ack.proposer /\ Counts(kg, sender, ack)) => after.parts[p] = kg.parts[p]

LEMMA HandleAckFacts ==
    ASSUME NEW kg \in SyncKeyGenType, NEW n, NEW sender \in PubKeys, NEW ack, ack.proposer \in PubKeys
    PROVE  AckEffect(kg, HandleAck(kg, n, sender, ack), n, sender, ack)
<1> DEFINE p == ack.proposer
           old == kg.parts[p]
           vals == ValueFor(n, sender, ack)
           new == [old EXCEPT !.acks = @ \cup {sender}, !.values = @ \cup vals]
           after == HandleAck(kg, n, sender, ack)
<1>1. CASE ~Counts(kg, sender, ack)
  BY <1>1 DEF HandleAck, Counts, AckEffect
<1>2. CASE Counts(kg, sender, ack)
  <2>1. old \in ProposalState
    BY <1>2 DEF Counts, SyncKeyGenType
  <2>2. /\ new \in ProposalState /\ new # None /\ new.commit = old.commit
        /\ new.acks = old.acks \cup {sender}
        /\ new.values = old.values \cup vals
    <3>1. vals \in SUBSET PubKeys /\ {sender} \in SUBSET PubKeys /\ None \notin ProposalState
      BY KeyGenerationAssumption DEF ValueFor
    <3> HIDE DEF vals, old
    <3> QED
      BY <2>1, <3>1 DEF ProposalState
  <2>3. after = [kg EXCEPT !.parts = [kg.parts EXCEPT ![p] = new]]
    BY <1>2, <2>1 DEF HandleAck, Counts, ValueFor, SyncKeyGenType, ProposalState
  <2> HIDE DEF new
  <2>4. after \in SyncKeyGenType /\ \A q \in PubKeys : after.parts[q] = IF q = p THEN new ELSE kg.parts[q]
    BY <2>2, <2>3 DEF SyncKeyGenType
  <2> QED
    BY <1>2, <2>2, <2>4 DEF AckEffect
<1> QED
  BY <1>1, <1>2

-----------------------------------------------------------------------------
(* How the steps preserve the invariant *)

(* A Part is committed: a correct dealer's is its own. *)
LEMMA CommitPartInv ==
    ASSUME IInv, NEW sender \in PubKeys, NEW part,
           part.commit \in Commitments,
           sender \in Dealers => part.commit = GoodCommit(sender, PubKeys),
           CommitPart(sender, part)
    PROVE  IInv'
<1> USE Sets
<1>0. Ongoing = Correct
  BY DEF CommitPart, Ongoing, IInv, FinishedInv
<1>1. /\ \A n \in Correct : key_gen'[n] = HandlePart(key_gen[n], n, sender, part)
      /\ key_gen' = [n \in Correct |-> key_gen'[n]]
  BY <1>0 DEF CommitPart
<1>2. \A n \in Correct :
         /\ key_gen'[n] \in SyncKeyGenType
         /\ \A p \in PubKeys :
               key_gen'[n].parts[p] = IF p = sender /\ part.rows # Malformed /\ key_gen[n].parts[p] = None
                                        THEN NewPart(part.commit) ELSE key_gen[n].parts[p]
  <2>1. \A n \in Correct : key_gen[n] \in SyncKeyGenType
    BY DEF IInv, MapsInv
  <2> QED
    BY <1>1, <2>1, HandlePartFacts
<1>3. /\ NewPart(part.commit) # None /\ NewPart(part.commit).commit = part.commit
      /\ NewPart(part.commit).values = {} /\ NewPart(part.commit).acks = {}
  BY NewPartType
<1>4. \A n \in Correct : \A p \in acked'[n] :
         \/ p \in acked[n]
         \/ p = sender /\ key_gen[n].parts[sender] = None /\ part.rows # Malformed
  BY DEF CommitPart, Acks, PartFault
<1>5. MapsInv'
  <2>1. key_gen' \in [Correct -> SyncKeyGenType]
    BY <1>1, <1>2
  <2>2. /\ acked' \in [Correct -> SUBSET PubKeys] /\ faults' \in [Correct -> SUBSET PubKeys]
        /\ finished' \in [Correct -> BOOLEAN]
    BY DEF CommitPart, IInv, MapsInv
  <2> QED
    BY <2>1, <2>2 DEF MapsInv
<1>6. SamePartsInv'
  <2> SUFFICES ASSUME NEW m \in Correct, NEW n \in Correct, NEW p \in PubKeys
               PROVE  LET a == key_gen'[m].parts[p]
                          b == key_gen'[n].parts[p]
                      IN  (a = None <=> b = None) /\ (a # None => a.commit = b.commit /\ a.acks = b.acks)
    BY DEF SamePartsInv
  <2>1. LET a == key_gen[m].parts[p]
            b == key_gen[n].parts[p]
        IN  (a = None <=> b = None) /\ (a # None => a.commit = b.commit /\ a.acks = b.acks)
    BY DEF IInv, SamePartsInv
  <2> QED
    BY <2>1, <1>2
<1>7. ValuesInv'
  BY <1>2, <1>3 DEF IInv, ValuesInv
<1>8. DealersInv'
  BY <1>2, <1>3, <1>4 DEF IInv, DealersInv, MapsInv
<1>9. FinishedInv'
  BY DEF CommitPart, IInv, FinishedInv
<1> QED
  BY <1>5, <1>6, <1>7, <1>8, <1>9 DEF IInv

(* An Ack is committed: a correct node's has good values for everybody. *)
LEMMA CommitAckInv ==
    ASSUME IInv, NEW sender \in PubKeys, NEW ack, ack.proposer \in PubKeys,
           sender \in Dealers => ack.values = PubKeys,
           CommitAck(sender, ack)
    PROVE  IInv'
<1> USE Sets
<1>0. Ongoing = Correct
  BY DEF CommitAck, Ongoing, IInv, FinishedInv
<1>1. /\ \A n \in Correct : key_gen'[n] = HandleAck(key_gen[n], n, sender, ack)
      /\ key_gen' = [n \in Correct |-> key_gen'[n]]
      /\ acked' = acked
  BY <1>0 DEF CommitAck
<1>2. \A n \in Correct : AckEffect(key_gen[n], key_gen'[n], n, sender, ack)
  <2>1. \A n \in Correct : key_gen[n] \in SyncKeyGenType
    BY DEF IInv, MapsInv
  <2> QED
    BY <1>1, <2>1, HandleAckFacts
<1>3. \A m, n \in Correct : Counts(key_gen[m], sender, ack) <=> Counts(key_gen[n], sender, ack)
  BY DEF IInv, SamePartsInv, Counts
<1>4. \A n \in Correct : \A p \in PubKeys : key_gen'[n].parts[p] = None <=> key_gen[n].parts[p] = None
  BY <1>2 DEF Counts, AckEffect
<1>5. MapsInv'
  <2>1. key_gen' \in [Correct -> SyncKeyGenType]
    BY <1>1, <1>2 DEF AckEffect
  <2>2. /\ acked' \in [Correct -> SUBSET PubKeys] /\ faults' \in [Correct -> SUBSET PubKeys]
        /\ finished' \in [Correct -> BOOLEAN]
    BY DEF CommitAck, IInv, MapsInv
  <2> QED
    BY <2>1, <2>2 DEF MapsInv
<1>6. SamePartsInv'
  <2> SUFFICES ASSUME NEW m \in Correct, NEW n \in Correct, NEW p \in PubKeys
               PROVE  LET a == key_gen'[m].parts[p]
                          b == key_gen'[n].parts[p]
                      IN  (a = None <=> b = None) /\ (a # None => a.commit = b.commit /\ a.acks = b.acks)
    BY DEF SamePartsInv
  <2>1. LET a == key_gen[m].parts[p]
            b == key_gen[n].parts[p]
        IN  (a = None <=> b = None) /\ (a # None => a.commit = b.commit /\ a.acks = b.acks)
    BY DEF IInv, SamePartsInv
  <2>2. CASE p = ack.proposer /\ Counts(key_gen[n], sender, ack)
    <3>1. Counts(key_gen[m], sender, ack) /\ key_gen[m].parts[p] # None
      BY <1>3, <2>2 DEF Counts
    <3>2. /\ key_gen'[m].parts[p] # None /\ key_gen'[n].parts[p] # None
          /\ key_gen'[m].parts[p].commit = key_gen[m].parts[p].commit
          /\ key_gen'[n].parts[p].commit = key_gen[n].parts[p].commit
          /\ key_gen'[m].parts[p].acks = key_gen[m].parts[p].acks \cup {sender}
          /\ key_gen'[n].parts[p].acks = key_gen[n].parts[p].acks \cup {sender}
      BY <1>2, <2>2, <3>1 DEF AckEffect
    <3> QED
      BY <2>1, <3>1, <3>2
  <2>3. CASE ~(p = ack.proposer /\ Counts(key_gen[n], sender, ack))
    BY <1>2, <1>3, <2>1, <2>3 DEF AckEffect
  <2> QED
    BY <2>2, <2>3
<1>7. ValuesInv'
  <2> SUFFICES ASSUME NEW n \in Correct, NEW p \in PubKeys, key_gen'[n].parts[p] # None
               PROVE  /\ key_gen'[n].parts[p].values \subseteq key_gen'[n].parts[p].acks
                      /\ n \in Dealers => key_gen'[n].parts[p].acks \ Faulty \subseteq key_gen'[n].parts[p].values
    BY DEF ValuesInv
  <2>1. /\ key_gen[n].parts[p].values \subseteq key_gen[n].parts[p].acks
        /\ n \in Dealers => key_gen[n].parts[p].acks \ Faulty \subseteq key_gen[n].parts[p].values
    BY <1>4 DEF IInv, ValuesInv
  <2>2. CASE p = ack.proposer /\ Counts(key_gen[n], sender, ack)
    <3>1. /\ ValueFor(n, sender, ack) \subseteq {sender}
          /\ n \in Dealers /\ sender \notin Faulty => sender \in ValueFor(n, sender, ack)
      BY DEF ValueFor, Dealers
    <3> QED
      BY <1>2, <2>1, <2>2, <3>1 DEF AckEffect
  <2>3. CASE ~(p = ack.proposer /\ Counts(key_gen[n], sender, ack))
    BY <1>2, <2>1, <2>3 DEF AckEffect
  <2> QED
    BY <2>2, <2>3
<1>8. DealersInv'
  BY <1>1, <1>2, <1>4 DEF IInv, DealersInv, MapsInv, AckEffect
<1>9. FinishedInv'
  BY DEF CommitAck, IInv, FinishedInv
<1> QED
  BY <1>5, <1>6, <1>7, <1>8, <1>9 DEF IInv

(* All find the same Parts complete. *)
LEMMA SameCompleted ==
    ASSUME IInv, NEW m \in Correct, NEW n \in Correct
    PROVE  /\ Completed(key_gen[m]) = Completed(key_gen[n])
           /\ Ready(key_gen[m]) <=> Ready(key_gen[n])
<1>1. key_gen[m].pub_keys = PubKeys /\ key_gen[n].pub_keys = PubKeys
  BY DEF IInv, MapsInv, SyncKeyGenType
<1>2. \A p \in PubKeys : is_node_ready(key_gen[m], p) <=> is_node_ready(key_gen[n], p)
  BY <1>1 DEF is_node_ready, IsComplete, Threshold, IInv, SamePartsInv
<1>3. Completed(key_gen[m]) = Completed(key_gen[n])
  BY <1>1, <1>2 DEF Completed
<1> QED
  BY <1>1, <1>3 DEF Ready, is_ready, count_complete, Threshold

(* A batch ends: all are ready, or none is. *)
LEMMA EndBatchInv ==
    ASSUME IInv, EndBatch
    PROVE  IInv'
<1>1. MapsInv'
  BY DEF EndBatch, IInv, MapsInv, Ready, is_ready
<1>2. FinishedInv'
  <2>1. \A n \in Correct : finished'[n] = (finished[n] \/ Ready(key_gen[n]))
    BY DEF EndBatch
  <2> QED
    BY <2>1, SameCompleted DEF IInv, FinishedInv
<1>3. SamePartsInv' /\ ValuesInv' /\ DealersInv'
  BY DEF EndBatch, IInv, SamePartsInv, ValuesInv, DealersInv
<1> QED
  BY <1>1, <1>2, <1>3 DEF IInv

(* At the start there are the Parts of Finished, with all correct Acks.    *)
LEMMA InitInv == Init => IInv
<1> SUFFICES ASSUME Init PROVE IInv
  OBVIOUS
<1> USE Sets
<1>1. \A n \in Correct :
         /\ key_gen[n] \in SyncKeyGenType
         /\ \A p \in PubKeys :
               IF p \in Finished
                 THEN /\ key_gen[n].parts[p] # None /\ key_gen[n].parts[p].commit = GoodCommit(p, PubKeys)
                      /\ key_gen[n].parts[p].acks = Dealers
                      /\ key_gen[n].parts[p].values = IF n \in PubKeys THEN Dealers ELSE {}
                 ELSE key_gen[n].parts[p] = None
  <2> SUFFICES ASSUME NEW n \in Correct
               PROVE  /\ key_gen[n] \in SyncKeyGenType
                      /\ \A p \in PubKeys :
                            IF p \in Finished
                              THEN /\ key_gen[n].parts[p] # None /\ key_gen[n].parts[p].commit = GoodCommit(p, PubKeys)
                                   /\ key_gen[n].parts[p].acks = Dealers
                                   /\ key_gen[n].parts[p].values = IF n \in PubKeys THEN Dealers ELSE {}
                              ELSE key_gen[n].parts[p] = None
    OBVIOUS
  <2> DEFINE done(p) == [NewPart(GoodCommit(p, PubKeys)) EXCEPT !.acks = Dealers,
                                                                !.values = IF n \in PubKeys THEN Dealers ELSE {}]
             parts == [p \in PubKeys |-> IF p \in Finished THEN done(p) ELSE None]
  <2>1. key_gen[n] = [pub_keys |-> PubKeys, parts |-> parts]
    BY DEF Init, KgNew
  <2>2. \A p \in PubKeys :
           /\ done(p) \in ProposalState /\ done(p) # None /\ done(p).commit = GoodCommit(p, PubKeys)
           /\ done(p).acks = Dealers /\ done(p).values = IF n \in PubKeys THEN Dealers ELSE {}
    BY KeyGenerationAssumption DEF NewPart, ProposalState, Commitments
  <2> HIDE DEF done
  <2> QED
    BY <2>1, <2>2 DEF SyncKeyGenType
<1>2. MapsInv
  <2>1. key_gen = [n \in Correct |-> key_gen[n]]
    BY DEF Init
  <2>2. /\ acked \in [Correct -> SUBSET PubKeys] /\ faults \in [Correct -> SUBSET PubKeys]
        /\ finished \in [Correct -> BOOLEAN]
    BY KeyGenerationAssumption DEF Init
  <2> QED
    BY <1>1, <2>1, <2>2 DEF MapsInv
<1>3. SamePartsInv /\ ValuesInv
  BY <1>1 DEF SamePartsInv, ValuesInv
<1>4. DealersInv
  BY <1>1, KeyGenerationAssumption DEF DealersInv, Init
<1>5. FinishedInv
  BY DEF FinishedInv, Init
<1> QED
  BY <1>2, <1>3, <1>4, <1>5 DEF IInv

(* The invariant holds throughout. *)
LEMMA Invariant == Spec => []IInv
<1>1. IInv /\ [Next]_vars => IInv'
  <2> SUFFICES ASSUME IInv, [Next]_vars PROVE IInv'
    OBVIOUS
  <2> USE Sets
  <2>1. ASSUME NEW n \in Dealers, DealerPart(n) PROVE IInv'
    <3>1. GoodPart(n, PubKeys).commit = GoodCommit(n, PubKeys) /\ GoodCommit(n, PubKeys) \in Commitments
      BY DEF GoodPart, Commitments
    <3> QED
      BY <2>1, <3>1, CommitPartInv DEF DealerPart
  <2>2. ASSUME NEW n \in Dealers, DealerAck(n) PROVE IInv'
    <3>1. PICK p \in acked[n] : CommitAck(n, GoodAck(p, PubKeys))
      BY <2>2 DEF DealerAck
    <3>2. p \in PubKeys /\ GoodAck(p, PubKeys).proposer = p /\ GoodAck(p, PubKeys).values = PubKeys
      BY DEF GoodAck, IInv, MapsInv
    <3> QED
      BY <3>1, <3>2, CommitAckInv
  <2>3. ASSUME NEW n \in Faulty, NEW part \in FaultyParts, CommitPart(n, part) PROVE IInv'
    <3>1. part.commit \in Commitments
      BY DEF Commitments
    <3> QED
      BY <2>3, <3>1, CommitPartInv
  <2>4. ASSUME NEW n \in Faulty, NEW p \in PubKeys, NEW vs \in FaultyValues,
               CommitAck(n, [proposer |-> p, values |-> vs])
        PROVE  IInv'
    BY <2>4, CommitAckInv
  <2>5. CASE EndBatch
    BY <2>5, EndBatchInv
  <2>6. CASE UNCHANGED vars
    BY <2>6 DEF vars, IInv, MapsInv, SamePartsInv, FinishedInv, ValuesInv, DealersInv
  <2> QED
    BY <2>1, <2>2, <2>3, <2>4, <2>5, <2>6 DEF Next
<1> QED
  BY <1>1, InitInv, PTL DEF Spec
-----------------------------------------------------------------------------
(* The maps hold what struct SyncKeyGen says, whatever the faulty commit.  *)
THEOREM TypeCorrect == Spec => []TypeOK
<1>1. IInv => TypeOK
  <2> SUFFICES ASSUME IInv, NEW n \in Correct
               PROVE  /\ key_gen[n].pub_keys = PubKeys
                      /\ \A p \in PubKeys :
                            key_gen[n].parts[p] = None \/
                              (key_gen[n].parts[p].values \subseteq key_gen[n].parts[p].acks /\ key_gen[n].parts[p].acks \subseteq PubKeys)
                      /\ acked[n] \subseteq PubKeys
    BY DEF TypeOK
  <2>1. key_gen[n] \in SyncKeyGenType /\ acked[n] \subseteq PubKeys
    BY DEF IInv, MapsInv
  <2> QED
    BY <2>1 DEF IInv, ValuesInv, SyncKeyGenType, ProposalState
<1> QED
  BY <1>1, Invariant, PTL

(* With the same Parts and Acks committed, all correct nodes find the same *)
(* Parts complete and generate the same public key set, after the same     *)
(* batch: what the faulty put into rows and values for one node or another *)
(* makes no difference.                                                    *)
THEOREM SameKeyTheorem == Spec => []SameKey
<1>1. IInv => SameKey
  <2> SUFFICES ASSUME IInv, NEW m \in Correct, NEW n \in Correct
               PROVE  /\ Completed(key_gen[m]) = Completed(key_gen[n])
                      /\ PublicKeySet(key_gen[m]) = PublicKeySet(key_gen[n])
                      /\ finished[m] = finished[n]
    BY DEF SameKey
  <2>1. key_gen[m].pub_keys = PubKeys /\ key_gen[n].pub_keys = PubKeys
    BY DEF IInv, MapsInv, SyncKeyGenType
  <2>2. Completed(key_gen[m]) = Completed(key_gen[n])
    BY SameCompleted
  <2>3. \A p \in Completed(key_gen[n]) : key_gen[m].parts[p].commit = key_gen[n].parts[p].commit
    BY <2>1 DEF Completed, is_node_ready, IsComplete, IInv, SamePartsInv
  <2>4. PublicKeySet(key_gen[m]) = PublicKeySet(key_gen[n])
    BY <2>2, <2>3 DEF PublicKeySet
  <2>5. finished[m] = finished[n]
    <3>1. finished[m] \in BOOLEAN /\ finished[n] \in BOOLEAN /\ (finished[m] <=> finished[n])
      BY DEF IInv, MapsInv, FinishedInv
    <3> QED
      BY <3>1
  <2> QED
    BY <2>2, <2>4, <2>5
<1> QED
  BY <1>1, Invariant, PTL

(* What a correct node interpolates from t + 1 values is its share of the  *)
(* Part, if the Part has no higher degree than t, as all of the correct    *)
(* dealers' do: of the 2t + 1 Acks at most t are by faulty nodes.          *)
THEOREM SharesMatchTheorem == Spec => []SharesMatch
<1>1. IInv => SharesMatch
  <2> SUFFICES ASSUME IInv, NEW n \in Dealers, NEW p \in Completed(key_gen[n]),
                      p \in Dealers \/ key_gen[n].parts[p].commit.degree <= Threshold(key_gen[n])
               PROVE  GoodSummand(key_gen[n], p)
    BY DEF SharesMatch
  <2> DEFINE part == key_gen[n].parts[p]
             t == max_faulty(Cardinality(PubKeys))
  <2>1. /\ key_gen[n] \in SyncKeyGenType /\ n \in Correct /\ p \in PubKeys /\ part # None
        /\ Threshold(key_gen[n]) = t /\ Cardinality(part.acks) > 2 * t
    BY Sets DEF IInv, MapsInv, SyncKeyGenType, Completed, is_node_ready, IsComplete, Threshold
  <2>2. part.acks \subseteq PubKeys /\ part.values \subseteq PubKeys /\ part.acks \ Faulty \subseteq part.values
    BY <2>1 DEF SyncKeyGenType, ProposalState, IInv, ValuesInv
  <2> HIDE DEF part
  <2>3. /\ IsFiniteSet(PubKeys) /\ IsFiniteSet(Faulty) /\ IsFiniteSet(part.acks) /\ IsFiniteSet(part.values)
        /\ Cardinality(Faulty) <= t
    BY <2>2, KeyGenerationAssumption, FS_Subset
  <2>4. t \in Int /\ Cardinality(Faulty) \in Nat /\ Cardinality(part.acks) \in Nat /\ Cardinality(part.values) \in Nat
    BY <2>3, FS_CardinalityType DEF max_faulty
  <2>5. /\ IsFiniteSet(part.acks \cap Faulty) /\ Cardinality(part.acks \cap Faulty) \in Nat
        /\ Cardinality(part.acks \cap Faulty) <= Cardinality(Faulty)
    BY <2>3, FS_Intersection, FS_CardinalityType
  <2>6. /\ Cardinality(part.acks \ Faulty) = Cardinality(part.acks) - Cardinality(part.acks \cap Faulty)
        /\ Cardinality(part.acks \ Faulty) <= Cardinality(part.values)
    BY <2>2, <2>3, FS_Difference, FS_Subset
  <2>7. Cardinality(part.values) > t
    BY <2>1, <2>3, <2>4, <2>5, <2>6
  <2>8. part.commit.degree <= t /\ part.commit.degree \in Int
    <3>1. CASE p \in Dealers
      <4>1. part.commit = GoodCommit(p, PubKeys)
        BY <2>1, <3>1 DEF IInv, DealersInv, part
      <4>2. part.commit.degree = t
        BY <4>1 DEF GoodCommit
      <4> QED
        BY <2>4, <4>2
    <3>2. CASE p \notin Dealers
      <4>1. part.commit.degree <= t
        BY <2>1, <3>2 DEF part
      <4>2. part.commit \in Commitments
        BY <2>1 DEF SyncKeyGenType, ProposalState, part
      <4>3. CASE part.commit \in {GoodCommit(q, PubKeys) : q \in PubKeys}
        BY <2>4, <4>1, <4>3 DEF GoodCommit
      <4>4. CASE part.commit \in {q.commit : q \in FaultyParts}
        BY <4>1, <4>4, KeyGenerationAssumption
      <4> QED
        BY <4>2, <4>3, <4>4 DEF Commitments
    <3> QED
      BY <3>1, <3>2
  <2> QED
    BY <2>1, <2>4, <2>7, <2>8 DEF part, GoodSummand
<1> QED
  BY <1>1, Invariant, PTL

(* No correct node is blamed for its Part or for an Ack: the first is the  *)
(* same whenever it is committed, the second comes after its Part.         *)
THEOREM NoFalseAccusationTheorem == Spec => []NoFalseAccusation
<1>1. Init => NoFalseAccusation
  BY DEF Init, NoFalseAccusation
<1>2. IInv /\ NoFalseAccusation /\ [Next]_vars => NoFalseAccusation'
  <2> SUFFICES ASSUME IInv, NoFalseAccusation, [Next]_vars PROVE NoFalseAccusation'
    OBVIOUS
  <2> USE Sets
  <2>1. ASSUME NEW n \in Dealers, DealerPart(n) PROVE NoFalseAccusation'
    <3>1. \A m \in Correct : ~PartFault(key_gen[m], m, n, GoodPart(n, PubKeys))
      <4>1. \A m \in Correct : key_gen[m].parts[n] # None => key_gen[m].parts[n].commit = GoodCommit(n, PubKeys)
        BY DEF IInv, DealersInv
      <4> QED
        BY <4>1, KeyGenerationAssumption DEF PartFault, GoodPart, IInv, MapsInv, SyncKeyGenType
    <3> QED
      BY <2>1, <3>1 DEF DealerPart, CommitPart, NoFalseAccusation
  <2>2. ASSUME NEW n \in Dealers, DealerAck(n) PROVE NoFalseAccusation'
    <3>1. PICK p \in acked[n] : CommitAck(n, GoodAck(p, PubKeys))
      BY <2>2 DEF DealerAck
    <3>2. \A m \in Correct : key_gen[m].parts[p] # None
      BY DEF IInv, MapsInv, DealersInv, SamePartsInv
    <3>3. \A m \in Correct : ~AckFault(key_gen[m], m, n, GoodAck(p, PubKeys))
      BY <3>2, KeyGenerationAssumption DEF AckFault, GoodAck, IInv, MapsInv, SyncKeyGenType
    <3> QED
      BY <3>1, <3>3 DEF CommitAck, NoFalseAccusation
  <2>3. ASSUME NEW n \in Faulty, NEW part \in FaultyParts, CommitPart(n, part) PROVE NoFalseAccusation'
    BY <2>3 DEF CommitPart, NoFalseAccusation
  <2>4. ASSUME NEW n \in Faulty, NEW p \in PubKeys, NEW vs \in FaultyValues,
               CommitAck(n, [proposer |-> p, values |-> vs])
        PROVE  NoFalseAccusation'
    BY <2>4 DEF CommitAck, NoFalseAccusation
  <2>5. CASE EndBatch
    BY <2>5 DEF EndBatch, NoFalseAccusation
  <2>6. CASE UNCHANGED vars
    BY <2>6 DEF vars, NoFalseAccusation
  <2> QED
    BY <2>1, <2>2, <2>3, <2>4, <2>5, <2>6 DEF Next
<1> QED
  BY <1>1, <1>2, Invariant, PTL DEF Spec
=============================================================================
