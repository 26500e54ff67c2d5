---------------------------- MODULE VoteCounter ----------------------------
(***************************************************************************)
(* The votes for changes in one era (src/src/dynamic_honey_badger/         *)
(* votes.rs).  A signed vote is [voter, change, era, num, genuine], where  *)
(* genuine says whether the signature is the voter's.  Pending votes come  *)
(* from their voters, committed ones in batches.  Node ids are numbers: a  *)
(* BTreeMap is iterated in their order.                                    *)
(***************************************************************************)
EXTENDS SyncKeyGen

CONSTANT Nodes

ASSUME VoteCounterAssumption == Nodes \subseteq Nat /\ IsFiniteSet(Nodes)

(* VoteCounter::new *)
VcNew(validators, era) ==
    [validators |-> validators, era |-> era,
     pending |-> [n \in Nodes |-> None], committed |-> [n \in Nodes |-> None]]

(* validate *)
Validate(vc, vote) == vote.voter \in vc.validators /\ vote.genuine

(* Whether there is such a vote, or a later one, already. *)
Superseded(votes, vote) == votes[vote.voter] # None /\ votes[vote.voter].num >= vote.num

(* sign_vote_for *)
SignVoteFor(vc, n, change) ==
    [vc EXCEPT !.pending[n] =
        [voter |-> n, change |-> change, era |-> vc.era, num |-> IF @ = None THEN 0 ELSE @.num + 1, genuine |-> TRUE]]

(* add_pending_vote, and whether it is a fault of the sender *)
AddPendingVote(vc, vote) ==
    IF vote.era # vc.era \/ Superseded(vc.pending, vote) \/ ~Validate(vc, vote)
      THEN vc
      ELSE [vc EXCEPT !.pending[vote.voter] = vote]

PendingVoteFault(vc, vote) ==
    vote.era = vc.era /\ ~Superseded(vc.pending, vote) /\ ~Validate(vc, vote)

(* pending_votes *)
PendingVotes(vc) ==
    {vc.pending[n] : n \in {v \in Nodes : vc.pending[v] # None /\ ~Superseded(vc.committed, vc.pending[v])}}

AddCommittedVoteAny(vc, vote) ==  \* mutant: an older vote replaces a newer one
    IF vote.era # vc.era \/ ~Validate(vc, vote)
      THEN vc
      ELSE [vc EXCEPT !.committed[vote.voter] = vote]

(* add_committed_vote, and whether it is a fault of the proposer *)
AddCommittedVote(vc, vote) ==
    IF Superseded(vc.committed, vote) \/ vote.era # vc.era \/ ~Validate(vc, vote)
      THEN vc
      ELSE [vc EXCEPT !.committed[vote.voter] = vote]

CommittedVoteFault(vc, vote) ==
    ~Superseded(vc.committed, vote) /\ (vote.era # vc.era \/ ~Validate(vc, vote))

(* The votes for a change by the voters up to v *)
CountUpTo(vc, v, change) ==
    Cardinality({n \in Nodes : n <= v /\ vc.committed[n] # None /\ vc.committed[n].change = change})

ComputeWinnerHasty(vc) ==  \* mutant: f votes are enough
    LET enough == {v \in Nodes : vc.committed[v] # None /\ CountUpTo(vc, v, vc.committed[v].change) >= max_faulty(Cardinality(vc.validators))}
    IN  IF enough = {} THEN None ELSE vc.committed[CHOOSE v \in enough : \A w \in enough : v <= w].change

ComputeWinnerPending(vc) ==  \* mutant: votes that are not in a batch count
    LET voted == {n \in Nodes : vc.committed[n] # None \/ vc.pending[n] # None}
        vote(n) == IF vc.pending[n] # None THEN vc.pending[n].change ELSE vc.committed[n].change
        count(v) == Cardinality({n \in voted : n <= v /\ vote(n) = vote(v)})
        enough == {v \in voted : count(v) > max_faulty(Cardinality(vc.validators))}
    IN  IF enough = {} THEN None ELSE vote(CHOOSE v \in enough : \A w \in enough : v <= w)

(* compute_winner: the first change to get to f + 1, in the voters' order *)
ComputeWinner(vc) ==
    LET enough == {v \in Nodes : vc.committed[v] # None /\ CountUpTo(vc, v, vc.committed[v].change) > max_faulty(Cardinality(vc.validators))}
    IN  IF enough = {} THEN None ELSE vc.committed[CHOOSE v \in enough : \A w \in enough : v <= w].change
=============================================================================
