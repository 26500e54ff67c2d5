--------------------------- MODULE KeyGeneration ---------------------------
(***************************************************************************)
(* A key generation among PubKeys, as Dynamic Honey Badger runs it: Parts  *)
(* and Acks are committed in batches, in any order that agrees with when   *)
(* they were sent, possibly by several proposers, and every node handles   *)
(* each as it is committed, until it finds enough Parts complete at the    *)
(* end of a batch.  Faulty nodes deal and acknowledge what they like.      *)
(***************************************************************************)
EXTENDS SyncKeyGen

CONSTANTS PubKeys,      \* the nodes that are to have key shares
          Observers,    \* correct nodes that only follow
          Faulty,
          Finished,     \* bound: the dealers whose Parts are complete at the start
          FaultyParts,  \* the Parts that a faulty node may commit
          FaultyValues  \* whom its Acks may have the right value for

(* ProposalState, for the commitments that occur *)
Commitments == {GoodCommit(p, PubKeys) : p \in PubKeys} \cup {part.commit : part \in FaultyParts}

ProposalState == [commit : Commitments, values : SUBSET PubKeys, acks : SUBSET PubKeys]

ASSUME KeyGenerationAssumption ==
    /\ IsFiniteSet(PubKeys) /\ None \notin ProposalState
    /\ Faulty \subseteq PubKeys /\ Cardinality(Faulty) <= max_faulty(Cardinality(PubKeys))
    /\ Observers \cap PubKeys = {} /\ Finished \subseteq PubKeys \ Faulty
    /\ \A part \in FaultyParts : part.commit.degree \in Nat
    /\ \A ps \in SUBSET PubKeys : Malformed # ps

VARIABLES key_gen,  \* the SyncKeyGen of each correct node
          acked,    \* node -> whose Parts it has sent an Ack for
          faults,   \* node -> whom it has blamed
          finished  \* node -> whether it has taken the keys into use

vars == <<key_gen, acked, faults, finished>>

Dealers == PubKeys \ Faulty

Correct == Dealers \cup Observers

(* SyncKeyGen::new, and the Parts in Finished with the Acks of all correct *)
(* nodes, which is a state that correct nodes get to.                      *)
Init ==
    /\ key_gen = [n \in Correct |->
                     [KgNew(PubKeys) EXCEPT !.parts = [p \in PubKeys |->
                         IF p \in Finished
                           THEN [NewPart(GoodCommit(p, PubKeys)) EXCEPT !.acks = Dealers, !.values = IF n \in PubKeys THEN Dealers ELSE {}]
                           ELSE @[p]]]]
    /\ acked = [n \in Correct |-> IF n \in PubKeys THEN Finished ELSE {}]
    /\ faults = [n \in Correct |-> {}]
    /\ finished = [n \in Correct |-> FALSE]

(* KeyGenState::is_ready *)
Ready(kg) == is_ready(kg) /\ count_complete(kg) * 3 > 2 * Cardinality(kg.pub_keys)

(* The nodes whose key_gen_state is still there *)
Ongoing == {n \in Correct : ~finished[n]}

(* A message of the batch that is being processed *)
CommitPart(sender, part) ==
    /\ Ongoing # {}
    /\ key_gen' = [n \in Correct |-> IF n \in Ongoing THEN HandlePart(key_gen[n], n, sender, part) ELSE key_gen[n]]
    /\ acked' = [n \in Correct |->
                    acked[n] \cup {s \in {sender} : n \in Ongoing /\ Acks(key_gen[n], n, sender, part)}]
    /\ faults' = [n \in Correct |->
                     faults[n] \cup {s \in {sender} : n \in Ongoing /\ PartFault(key_gen[n], n, sender, part)}]
    /\ UNCHANGED finished

CommitAck(sender, ack) ==
    /\ Ongoing # {}
    /\ key_gen' = [n \in Correct |-> IF n \in Ongoing THEN HandleAck(key_gen[n], n, sender, ack) ELSE key_gen[n]]
    /\ faults' = [n \in Correct |->
                     faults[n] \cup {s \in {sender} : n \in Ongoing /\ AckFault(key_gen[n], n, sender, ack)}]
    /\ UNCHANGED <<acked, finished>>

(* The batch is over: process_output now looks whether the key generation  *)
(* is ready, which it may have been for some messages of the batch.  The   *)
(* end of a batch after which no node is ready changes nothing.            *)
EndBatch ==
    /\ \E n \in Ongoing : Ready(key_gen[n])
    /\ finished' = [n \in Correct |-> finished[n] \/ Ready(key_gen[n])]
    /\ UNCHANGED <<key_gen, acked, faults>>

(* A correct node's messages are signed by it and cannot be made up. *)
DealerPart(n) == CommitPart(n, GoodPart(n, PubKeys))

DealerAck(n) == \E p \in acked[n] : CommitAck(n, GoodAck(p, PubKeys))

Next ==
    \/ \E n \in Dealers : DealerPart(n) \/ DealerAck(n)
    \/ \E n \in Faulty, part \in FaultyParts : CommitPart(n, part)
    \/ \E n \in Faulty, p \in PubKeys, vs \in FaultyValues : CommitAck(n, [proposer |-> p, values |-> vs])
    \/ EndBatch

Spec == Init /\ [][Next]_vars

(* A correct node's message is in every contribution of its sender until   *)
(* it is committed, and sooner or later one of these is in a batch, all of *)
(* which a call processes to its end.                                      *)
FairSpec ==
    Spec /\ WF_vars(EndBatch) /\ \A n \in Dealers : WF_vars(DealerPart(n) \/ DealerAck(n))
-----------------------------------------------------------------------------
(* The maps have the types of struct SyncKeyGen, and only who deals or     *)
(* acknowledges is in them.                                                *)
TypeOK ==
    \A n \in Correct :
        /\ key_gen[n].pub_keys = PubKeys
        /\ \A p \in PubKeys :
              key_gen[n].parts[p] = None \/
                (key_gen[n].parts[p].values \subseteq key_gen[n].parts[p].acks /\ key_gen[n].parts[p].acks \subseteq PubKeys)
        /\ acked[n] \subseteq PubKeys

(* sync_key_gen.rs: with "the exact same sequence of Part and Ack          *)
(* messages", key shares match: whatever faulty nodes put into rows and    *)
(* values for different nodes, all correct nodes count the same Parts as   *)
(* complete, so that they finish after the same batch with the same public *)
(* key.                                                                    *)
SameKey ==
    \A m, n \in Correct :
        /\ Completed(key_gen[m]) = Completed(key_gen[n]) /\ PublicKeySet(key_gen[m]) = PublicKeySet(key_gen[n])
        /\ finished[m] = finished[n]

(* sync_key_gen.rs: "If this message receives enough Acks, it will be used *)
(* as summand": what a correct node interpolates is its share of the Part, *)
(* for each complete Part of a correct dealer and for those of a faulty    *)
(* one with the degree that they should have, although values in Acks of   *)
(* faulty nodes may be wrong for it, and its own row as well.  Nothing     *)
(* keeps a faulty dealer to that degree; of a Part with a higher one,      *)
(* t + 1 values do not give the share.                                     *)
SharesMatch ==
    \A n \in Dealers : \A p \in Completed(key_gen[n]) :
        p \in Dealers \/ key_gen[n].parts[p].commit.degree <= Threshold(key_gen[n]) => GoodSummand(key_gen[n], p)

(* sync_key_gen.rs, on Part and Ack outcomes: only a node that is faulty   *)
(* is blamed.  An Ack is never handled before its Part.                    *)
NoFalseAccusation == \A n \in Correct : faults[n] \subseteq Faulty

(* The key generation ends, without help of the faulty. *)
Completes == <>(\A n \in Correct : finished[n])
=============================================================================
