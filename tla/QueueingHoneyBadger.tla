------------------------ MODULE QueueingHoneyBadger ------------------------
(***************************************************************************)
(* Queueing Honey Badger (src/src/queueing_honey_badger/mod.rs): Dynamic   *)
(* Honey Badger with a transaction queue, which proposes by itself, in a   *)
(* network of such nodes.                                                  *)
(*                                                                         *)
(* Honey Badger is represented by what it promises (HoneyBadger.tla): one  *)
(* batch for each era and epoch, with the proposals of N - f validators or *)
(* more, chosen when the first node outputs it.  Votes and key generation  *)
(* messages reach every node once, in any order, when it is in their era,  *)
(* which is what the sender queue sees to.                                 *)
(***************************************************************************)
EXTENDS DynamicHoneyBadger

CONSTANTS Faulty,
          Scenarios,      \* initial validators, and node -> inputs to come
          FaultyContribs, \* what a faulty validator may contribute
          LastEpoch(_)    \* bound: so many validators propose up to this epoch

VARIABLES node,       \* the state of each correct node, None until it joins
          inputs,     \* node -> its inputs to come
          proposals,  \* [from, era, epoch, contribution]
          agreed,     \* the batches of Honey Badger: [era, epoch, contributions]
          sent,       \* the votes and key generation messages broadcast so far
          got         \* node -> those of its era that it has handled

vars == <<node, inputs, proposals, agreed, sent, got>>

Correct == Nodes \ Faulty

Joined == {n \in Correct : node[n] # None}

ASSUME QueueingAssumption ==
    /\ Faulty \subseteq Nodes
    /\ \A k \in 1 .. Cardinality(Nodes) : LastEpoch(k) \in Nat
    /\ \A s \in Scenarios : Cardinality(Faulty \cap s.validators) <= max_faulty(Cardinality(s.validators))
-----------------------------------------------------------------------------
(* The queue, what it has made Honey Badger propose, and the batches that  *)
(* came of it at once.                                                     *)
QhbNew(d) == d @@ [queue |-> {}, proposed |-> {}, made |-> {}]

(* remove_multiple *)
RemoveMultiple(s, batches) ==
    [s EXCEPT !.queue = @ \ UNION {UNION Range(b.contributions) : b \in batches}]

(* can_propose *)
CanPropose(s, n) == n \in s.validators /\ ~s.has_input /\ (s.queue # {} \/ ShouldPropose(s, n))

(* One turn of the loop in propose.  There are no more transactions than   *)
(* the proposal may have, so that choose returns them all.  If we are the  *)
(* only validator, Honey Badger outputs the batch at once.                 *)
ProposeOnce(s, n) ==
    LET c == Contribution(s, s.queue)
        t == [s EXCEPT !.has_input = TRUE,
                       !.proposed = @ \cup {[from |-> n, era |-> s.era, epoch |-> s.epoch, contribution |-> c]}]
        batch == [era |-> s.era, epoch |-> s.epoch, contributions |-> n :> c]
    IN  IF s.validators = {n}
          THEN ProcessOutput([t EXCEPT !.made = @ \cup {batch}], n, <<batch>>)
          ELSE t

(* propose: while we can, but for the bound *)
QhbPropose(s, n) ==
    LET bound(t) == LastEpoch(Cardinality(t.validators))
    IN  FoldLeft(LAMBDA t, i : IF CanPropose(t, n) /\ t.era + t.epoch <= bound(t) THEN ProposeOnce(t, n) ELSE t,
                 s, [i \in 1 .. LastEpoch(1) + 1 |-> i])

ApplyLate(s, t, n) ==  \* mutant: the first batch is not taken from the queue
    QhbPropose(RemoveMultiple(t, {t.output[i] : i \in Len(s.output) + 2 .. Len(t.output)}), n)

(* apply, after Dynamic Honey Badger went from s to t *)
Apply(s, t, n) ==
    LET new == {t.output[i] : i \in Len(s.output) + 1 .. Len(t.output)}
    IN  QhbPropose(RemoveMultiple(t, new), n)

(* handle_input, push_transaction, vote_for, vote_to_add, vote_to_remove *)
HandleInput(s, n, input) ==
    CASE input.type = "User" -> QhbPropose([s EXCEPT !.queue = @ \cup {input.tx}], n)
      [] input.type = "Change" -> Apply(s, VoteFor(s, n, input.change), n)
      [] input.type = "Add" -> Apply(s, VoteToAdd(s, n, input.id), n)
      [] input.type = "Remove" -> Apply(s, VoteToRemove(s, n, input.id), n)
-----------------------------------------------------------------------------
Init ==
    \E scenario \in Scenarios :
        /\ node = [n \in Correct |-> IF n \in scenario.validators THEN QhbNew(DhbNew(scenario.validators, 0, {}, "Always")) ELSE None]
        /\ inputs = scenario.inputs
        /\ proposals = {} /\ agreed = {} /\ sent = {}
        /\ got = [n \in Correct |-> {}]

(* A call into node n takes it to state s; after it n has handled ms. *)
Becomes(n, s, ms) ==
    /\ node' = [node EXCEPT ![n] = [s EXCEPT !.sent = {}, !.proposed = {}, !.made = {}]]
    /\ proposals' = proposals \cup s.proposed
    /\ agreed' = agreed \cup s.made
    /\ sent' = sent \cup s.sent
    /\ got' = [got EXCEPT ![n] = {m \in ms : m.era = s.era}]

Input(n) ==
    /\ inputs[n] # <<>>
    /\ inputs' = [inputs EXCEPT ![n] = Tail(@)]
    /\ Becomes(n, HandleInput(node[n], n, Head(inputs[n])), got[n])

(* handle_message, for a vote or key generation message *)
Receive(n, m) ==
    /\ m.from # n /\ m.era = node[n].era /\ m \notin got[n]
    /\ Becomes(n, Apply(node[n], HandleMessage(node[n], m), n), got[n] \cup {m})
    /\ UNCHANGED inputs

(* What a validator's contribution to the next batch of s can be *)
Offers(s, v) ==
    IF v \in Faulty
      THEN FaultyContribs
      ELSE {q.contribution : q \in {q \in proposals : q.from = v /\ q.era = s.era /\ q.epoch = s.epoch}}

(* handle_message, when it lets Honey Badger know of more than f others'   *)
(* proposals in the epoch.  Fewer make no difference to a node.            *)
ReceiveProposals(n) ==
    LET s == node[n]
        others == {v \in s.validators \ {n} : Offers(s, v) # {}}
        few == max_faulty(Cardinality(s.validators))
    IN  /\ n \in s.validators /\ ~s.has_input
        /\ s.received_proposals <= few /\ Cardinality(others) > few
        /\ Becomes(n, Apply(s, [s EXCEPT !.received_proposals = few + 1], n), got[n])
        /\ UNCHANGED inputs

(* N - f contributions or more *)
Possible(s) ==
    LET offering == {v \in s.validators : Offers(s, v) # {}}
        enough == {vs \in SUBSET offering : Cardinality(vs) >= Cardinality(s.validators) - max_faulty(Cardinality(s.validators))}
    IN  UNION {{c \in [vs -> UNION {Offers(s, v) : v \in vs}] : \A v \in vs : c[v] \in Offers(s, v)} : vs \in enough}

AgreedOn(era, epoch) == {b \in agreed : b.era = era /\ b.epoch = epoch}

(* handle_message, when it makes Honey Badger output a batch that nobody   *)
(* has output before                                                       *)
OutputFirst(n) ==
    LET s == node[n]
    IN  /\ AgreedOn(s.era, s.epoch) = {}
        /\ \E c \in Possible(s) :
              LET b == [era |-> s.era, epoch |-> s.epoch, contributions |-> c]
              IN  Becomes(n, Apply(s, ProcessOutput([s EXCEPT !.made = {b}], n, <<b>>), n), got[n])
        /\ UNCHANGED inputs

(* The same for k batches at a time that others have output *)
OutputAgreed(n, k) ==
    LET s == node[n]
        b(i) == CHOOSE b \in AgreedOn(s.era, s.epoch + i - 1) : TRUE
    IN  /\ \A i \in 1 .. k : AgreedOn(s.era, s.epoch + i - 1) # {}
        /\ Becomes(n, Apply(s, ProcessOutput(s, n, [i \in 1 .. k |-> b(i)]), n), got[n])
        /\ UNCHANGED inputs

(* builder_joining and build, with the JoinPlan of a batch that begins the *)
(* key generation for a change that adds n                                 *)
Join(n) ==
    /\ node[n] = None
    /\ \E p \in Joined : \E i \in 1 .. Len(node[p].output) :
          LET batch == node[p].output[i]
          IN  /\ batch.change.state = "InProgress" /\ n \in batch.change.change.pub_keys \ batch.validators
              /\ Becomes(n, QhbPropose(QhbNew(NewJoining(n, JoinPlan(batch))), n), {})
    /\ UNCHANGED inputs

Next ==
    \/ \E n \in Joined :
          \/ Input(n) \/ ReceiveProposals(n) \/ OutputFirst(n)
          \/ \E m \in sent : Receive(n, m)
          \/ \E k \in 1 .. Cardinality(agreed) : OutputAgreed(n, k)
    \/ \E n \in Correct : Join(n)

Spec == Init /\ [][Next]_vars
-----------------------------------------------------------------------------
(* Every node's state has the types of the structs, no call has returned   *)
(* an error, and only key generation messages of the era are kept.         *)
TypeOK ==
    \A n \in Joined :
        LET s == node[n]
        IN  /\ {s.era, s.epoch} \subseteq Nat /\ s.validators \subseteq Nodes /\ ~s.error
            /\ s.vote_counter.era = s.era /\ s.vote_counter.validators = s.validators
            /\ \A m \in s.key_gen_msg_buffer : m.era = s.era
            /\ s.received_proposals \in 0 .. Cardinality(s.validators)
            /\ s.key_gen_state # None => s.key_gen_state.msg_count \in [Nodes -> Nat]

(* batch.rs, public_eq: any two correct nodes' batches of an epoch have    *)
(* the same era, contributions, change, validators and keys, whatever is   *)
(* pending at either and wherever it joined; and a node outputs one batch  *)
(* for each epoch, across restarts of Honey Badger.                        *)
BatchesAgree ==
    \A m, n \in Joined :
        LET a == node[m].output
            b == node[n].output
        IN  /\ \A i \in DOMAIN a, j \in DOMAIN b : a[i].epoch = b[j].epoch => a[i] = b[j]
            /\ \A i \in 1 .. Len(a) - 1 : a[i + 1].epoch = a[i].epoch + 1

(* votes.rs: "Returns the change that has at least f + 1 votes": the       *)
(* faulty cannot make a change; what a batch announces was voted for by a  *)
(* correct node.                                                           *)
ChangesVotedFor ==
    \A n \in Joined : \A i \in DOMAIN node[n].output :
        LET change == node[n].output[i].change
        IN  change.state # "None" => \E m \in sent : m.type = "SignedVote" /\ m.payload.change = change.change

(* votes.rs: "casting another vote revokes the previous one": once a vote  *)
(* has come out in a batch, its voter's earlier ones no longer count, even *)
(* if somebody who has not seen it commits one of them later.              *)
VotesRevoked ==
    \A n \in Joined : \A b \in agreed :
        b.era = node[n].era /\ b.epoch < node[n].epoch =>
            \A id \in DOMAIN b.contributions : \A vote \in b.contributions[id].votes :
                vote.genuine /\ vote.era = b.era =>
                    /\ node[n].vote_counter.committed[vote.voter] # None
                    /\ node[n].vote_counter.committed[vote.voter].num >= vote.num

(* fault_log.rs: no correct node is blamed, for votes that another era     *)
(* made obsolete, for the number of its key generation messages, or for    *)
(* what it relays.                                                         *)
NoFalseAccusation == \A n \in Joined : node[n].faults \subseteq Faulty

(* mod.rs, on queue: "pending transactions that haven't been output in a   *)
(* batch yet".                                                             *)
QueueIsPending ==
    \A n \in Joined : \A i \in DOMAIN node[n].output :
        node[n].queue \cap UNION Range(node[n].output[i].contributions) = {}

(* dynamic_honey_badger.rs, on should_propose: "the network won't advance  *)
(* if fewer than f + 1 nodes have pending contributions", and otherwise it *)
(* does.  When there is nothing left to happen that correct nodes can      *)
(* bring about, at most f validators have transactions or votes of their   *)
(* own left, and no key generation is under way.                           *)
Quiet ==
    /\ \A n \in Correct : (node[n] # None => inputs[n] = <<>>) /\ ~ENABLED Join(n)
    /\ \A n \in Joined :
          LET s == node[n]
              proposers == {v \in s.validators \ Faulty : Offers(s, v) # {}}
              few == max_faulty(Cardinality(s.validators))
          IN  /\ \A m \in sent : m.from # n /\ m.era = s.era => m \in got[n]
              /\ AgreedOn(s.era, s.epoch) = {}
              /\ Cardinality(proposers) < Cardinality(s.validators) - few
              /\ n \in s.validators /\ ~s.has_input => Cardinality(proposers) <= few

NoStall ==
    Quiet => \A n \in Joined :
        LET eager == {v \in Joined \cap node[n].validators :
                         node[v].queue # {} \/ \E vote \in PendingVotes(node[v].vote_counter) : vote.voter = v}
        IN  node[n].key_gen_state = None /\ Cardinality(eager) <= max_faulty(Cardinality(node[n].validators))
=============================================================================
