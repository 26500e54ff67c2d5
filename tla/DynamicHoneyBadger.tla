------------------------- MODULE DynamicHoneyBadger -------------------------
(***************************************************************************)
(* Dynamic Honey Badger (src/src/dynamic_honey_badger): Honey Badger with  *)
(* votes on changes.  Votes and key generation messages are broadcast,     *)
(* collected, and handled when they come out of Honey Badger in a batch.   *)
(* A change to the validators takes a key generation; when one begins or   *)
(* ends, Honey Badger is restarted, in a new era.                          *)
(*                                                                         *)
(* The operators map the state d of node n to the one after the call.      *)
(* Besides the fields of the structs, d has what the node has output, whom *)
(* it has blamed and what it has sent.  Honey Badger is represented by its *)
(* epoch, its input and the number of proposals received in the epoch.     *)
(***************************************************************************)
EXTENDS VoteCounter, Sequences, SequencesExt

NodeChange(pub_keys) == [type |-> "NodeChange", pub_keys |-> pub_keys]

EncryptionSchedule(schedule) == [type |-> "EncryptionSchedule", schedule |-> schedule]

ChangeState(state, change) == [state |-> state, change |-> change]

NoChange == ChangeState("None", None)

(* DynamicHoneyBadgerBuilder::build; key is the public key set *)
DhbNew(validators, era, key, schedule) ==
    [era |-> era, validators |-> validators, key |-> key, share |-> TRUE, schedule |-> schedule,
     vote_counter |-> VcNew(validators, era), key_gen_msg_buffer |-> {}, key_gen_state |-> None,
     epoch |-> 0, has_input |-> FALSE, received_proposals |-> 0,
     output |-> <<>>, faults |-> {}, sent |-> {}, error |-> FALSE]

DhbBlame(d, v) == [d EXCEPT !.faults = @ \cup {v}]

(* Message::SignedVote, Message::KeyGen and SignedKeyGenMsg *)
VoteMsg(vote) == [type |-> "SignedVote", era |-> vote.era, from |-> vote.voter, payload |-> vote]

KeyGenMsg(era, n, msg) == [type |-> "KeyGen", era |-> era, from |-> n, payload |-> msg]

Part(n, pub_keys) == [type |-> "Part", part |-> GoodPart(n, pub_keys)]

Ack(p, pub_keys) == [type |-> "Ack", ack |-> GoodAck(p, pub_keys)]
-----------------------------------------------------------------------------
(* send_transaction *)
SendTransaction(d, n, msg) ==
    LET signed == KeyGenMsg(d.era, n, msg)
    IN  [d EXCEPT !.key_gen_msg_buffer = @ \cup {signed_msg \in {signed} : n \in d.validators},
                  !.sent = @ \cup {signed}]

RestartHoneyBadgerKeeps(d, era) ==  \* mutant: votes of the old era stay
    [d EXCEPT !.era = era, !.epoch = 0, !.has_input = FALSE, !.received_proposals = 0,
              !.key_gen_msg_buffer = {m \in @ : m.era >= era}]

(* restart_honey_badger *)
RestartHoneyBadger(d, era) ==
    [d EXCEPT !.era = era, !.epoch = 0, !.has_input = FALSE, !.received_proposals = 0,
              !.key_gen_msg_buffer = {m \in @ : m.era >= era},
              !.vote_counter = VcNew(d.validators, era)]

(* update_encryption_schedule *)
UpdateEncryptionSchedule(d, era, schedule) ==
    RestartHoneyBadger([d EXCEPT !.schedule = schedule], era)

KeyGenState(pub_keys) == [key_gen |-> KgNew(pub_keys), msg_count |-> [v \in Nodes |-> 0]]

(* update_key_gen *)
UpdateKeyGen(d, n, era, pub_keys) ==
    LET t == [RestartHoneyBadger(d, era) EXCEPT !.key_gen_state = KeyGenState(pub_keys)]
    IN  IF d.key_gen_state # None /\ d.key_gen_state.key_gen.pub_keys = pub_keys
          THEN d
          ELSE IF n \in pub_keys THEN SendTransaction(t, n, Part(n, pub_keys)) ELSE t

(* Batch::join_plan *)
JoinPlan(batch) ==
    [era |-> batch.epoch + 1, change |-> batch.change, key |-> batch.key, validators |-> batch.validators,
     schedule |-> batch.schedule]

(* DynamicHoneyBadger::new_joining *)
NewJoining(n, plan) ==
    LET d == [DhbNew(plan.validators, plan.era, plan.key, plan.schedule) EXCEPT !.share = FALSE]
    IN  IF plan.change.state = "InProgress" THEN UpdateKeyGen(d, n, d.era, plan.change.change.pub_keys) ELSE d

(* vote_for, vote_to_add and vote_to_remove *)
VoteFor(d, n, change) ==
    LET vc == SignVoteFor(d.vote_counter, n, change)
    IN  IF n \notin d.validators
          THEN d
          ELSE [d EXCEPT !.vote_counter = vc, !.sent = @ \cup {VoteMsg(vc.pending[n])}]

VoteToAdd(d, n, v) == VoteFor(d, n, NodeChange(d.validators \cup {v}))

VoteToRemove(d, n, v) == VoteFor(d, n, NodeChange(d.validators \ {v}))
-----------------------------------------------------------------------------
(* verify_signature; the signatures in the model are their senders' *)
VerifySignature(d, sender) ==
    sender \in d.validators \/ (d.key_gen_state # None /\ sender \in d.key_gen_state.key_gen.pub_keys)

HandleKeyGenMessageStrict(d, sender, m) ==  \* mutant: one message too few
    LET count == d.key_gen_state.msg_count[sender] + 1
    IN  IF ~VerifySignature(d, sender) \/ d.key_gen_state = None \/ count > Cardinality(d.key_gen_state.key_gen.pub_keys)
          THEN DhbBlame(d, sender)
          ELSE [d EXCEPT !.key_gen_state.msg_count[sender] = count, !.key_gen_msg_buffer = @ \cup {m}]

(* handle_key_gen_message: N + 1 messages of each sender are accepted. *)
HandleKeyGenMessage(d, sender, m) ==
    IF ~VerifySignature(d, sender) \/ d.key_gen_state = None
      THEN DhbBlame(d, sender)
      ELSE LET count == d.key_gen_state.msg_count[sender] + 1
               t == [d EXCEPT !.key_gen_state.msg_count[sender] = count]
           IN  IF count > Cardinality(d.key_gen_state.key_gen.pub_keys) + 1
                 THEN DhbBlame(t, sender)
                 ELSE [t EXCEPT !.key_gen_msg_buffer = @ \cup {m}]

(* handle_message, for votes and key generation messages *)
HandleMessage(d, m) ==
    IF m.era > d.era THEN DhbBlame(d, m.from)
    ELSE IF m.era < d.era THEN d
    ELSE IF m.type = "KeyGen" THEN HandleKeyGenMessage(d, m.from, m)
    ELSE [d EXCEPT !.vote_counter = AddPendingVote(@, m.payload),
                   !.faults = @ \cup {v \in {m.from} : PendingVoteFault(d.vote_counter, m.payload)}]

ShouldProposeVotes(d, n) ==  \* mutant: key generation messages can wait
    /\ n \in d.validators /\ ~d.has_input
    /\ \/ d.received_proposals > max_faulty(Cardinality(d.validators))
       \/ \E vote \in PendingVotes(d.vote_counter) : vote.voter = n

(* should_propose, with honey_badger's has_input *)
ShouldPropose(d, n) ==
    /\ n \in d.validators /\ ~d.has_input
    /\ \/ d.received_proposals > max_faulty(Cardinality(d.validators))
       \/ \E vote \in PendingVotes(d.vote_counter) : vote.voter = n
       \/ d.key_gen_msg_buffer # {}

(* propose: the InternalContrib of a validator *)
Contribution(d, contrib) ==
    [contrib |-> contrib,
     key_gen_messages |-> {m \in d.key_gen_msg_buffer : m.era = d.era},
     votes |-> PendingVotes(d.vote_counter)]
-----------------------------------------------------------------------------
(* handle_part and handle_ack.  One by a node that gets no key is an error *)
(* of the whole call.                                                      *)
OnPart(d, n, sender, part) ==
    LET kg == d.key_gen_state.key_gen
        t == [d EXCEPT !.key_gen_state.key_gen = HandlePart(@, n, sender, part)]
    IN  IF d.key_gen_state = None THEN DhbBlame(d, sender)
        ELSE IF sender \notin kg.pub_keys THEN [d EXCEPT !.error = TRUE]
        ELSE IF PartFault(kg, n, sender, part) THEN DhbBlame(t, sender)
        ELSE IF Acks(kg, n, sender, part) THEN SendTransaction(t, n, Ack(sender, kg.pub_keys)) ELSE t

OnAck(d, n, sender, ack) ==
    LET kg == d.key_gen_state.key_gen
        t == [d EXCEPT !.key_gen_state.key_gen = HandleAck(@, n, sender, ack)]
    IN  IF d.key_gen_state = None THEN DhbBlame(d, sender)
        ELSE IF sender \notin kg.pub_keys THEN [d EXCEPT !.error = TRUE]
        ELSE IF AckFault(kg, n, sender, ack) THEN DhbBlame(t, sender) ELSE t

(* process_output, for a key generation message in the contribution of id *)
OnKeyGenMsg(d, n, id, m) ==
    IF m.era # d.era \/ ~VerifySignature(d, m.from) THEN DhbBlame(d, id)
    ELSE IF m.payload.type = "Part" THEN OnPart(d, n, m.from, m.payload.part)
    ELSE OnAck(d, n, m.from, m.payload.ack)

(* process_output, for a vote in the contribution of id *)
OnVote(d, id, vote) ==
    [d EXCEPT !.vote_counter = AddCommittedVote(@, vote),
              !.faults = @ \cup {v \in {id} : CommittedVoteFault(d.vote_counter, vote)}]

(* process_output, for the contribution of id *)
OnContribution(d, n, id, c) ==
    LET t == FoldSet(LAMBDA vote, u : OnVote(u, id, vote), d, c.votes)
    IN  FoldSet(LAMBDA m, u : OnKeyGenMsg(u, n, id, m),
                [t EXCEPT !.key_gen_msg_buffer = @ \ c.key_gen_messages], c.key_gen_messages)

(* take_ready_key_gen, KeyGenState::is_ready *)
KeyGenReady(d) ==
    /\ d.key_gen_state # None
    /\ LET kg == d.key_gen_state.key_gen
       IN  is_ready(kg) /\ count_complete(kg) * 3 > 2 * Cardinality(kg.pub_keys)

(* process_output: what follows the contributions of a batch, as the state *)
(* and the change that the batch announces.                                *)
CompleteChange(d, n, next_era) ==
    LET kg == d.key_gen_state.key_gen
        t == [d EXCEPT !.key_gen_state = None, !.validators = kg.pub_keys,
                       !.key = PublicKeySet(kg), !.share = HasShare(kg, n)]
    IN  <<RestartHoneyBadger(t, next_era), ChangeState("Complete", NodeChange(kg.pub_keys))>>

ApplyWinner(d, n, next_era, change) ==
    IF change.type = "NodeChange"
      THEN <<UpdateKeyGen(d, n, next_era, change.pub_keys), ChangeState("InProgress", change)>>
      ELSE <<UpdateEncryptionSchedule(d, next_era, change.schedule), ChangeState("Complete", change)>>

UpdateChange(d, n, next_era) ==
    IF KeyGenReady(d) THEN CompleteChange(d, n, next_era)
    ELSE IF ComputeWinner(d.vote_counter) # None THEN ApplyWinner(d, n, next_era, ComputeWinner(d.vote_counter))
    ELSE <<d, NoChange>>

(* The Batch that d outputs, when Honey Badger's had these contributions *)
Batch(d, epoch, era, change, contributions) ==
    [epoch |-> epoch, era |-> era, change |-> change,
     contributions |-> [id \in DOMAIN contributions |-> contributions[id].contrib],
     validators |-> d.validators, key |-> d.key, schedule |-> d.schedule]

(* process_output, for one batch: epoch is Honey Badger's, and the era the *)
(* one that the node is in by now.                                         *)
ProcessBatch(d, n, hb_batch) ==
    LET ids == SetToSortSeq(DOMAIN hb_batch.contributions, <)
        t == FoldLeft(LAMBDA u, id : OnContribution(u, n, id, hb_batch.contributions[id]), d, ids)
        batch_epoch == hb_batch.epoch + d.era
        update == UpdateChange(t, n, batch_epoch + 1)
        u == update[1]
    IN  IF d.error \/ t.error
          THEN t
          ELSE [u EXCEPT !.output = Append(@, Batch(u, batch_epoch, d.era, update[2], hb_batch.contributions))]

(* process_output, Honey Badger having gone on past all the batches *)
ProcessOutput(d, n, hb_batches) ==
    FoldLeft(LAMBDA u, b : ProcessBatch(u, n, b),
             [d EXCEPT !.epoch = @ + Len(hb_batches), !.has_input = FALSE, !.received_proposals = 0], hb_batches)
=============================================================================
