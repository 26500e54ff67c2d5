# A TLA+ verification of hbbft

hbbft is a Rust library for asynchronous Byzantine fault tolerant consensus. This
directory holds TLA+ models of its algorithms, TLC configurations that check them
on small instances, and proofs, checked by TLAPS, that hold for every instance.
Paths below are relative to `src/src/`.

## 1. The system

The library does no I/O. Each algorithm is a state machine with one call for
input and one for a message from a peer; a call runs to its end and returns a
*step*: outputs, messages to send and a log of faulty peers. All concurrency is
between nodes: the network may delay and reorder messages, and up to `f`
validators (the greatest number less than a third of `N`) may send anything to anyone.
Nothing is persisted and there are no timers; a node that was away
joins again with a plan that others give it. The algorithms are layers:

    QueueingHoneyBadger -> DynamicHoneyBadger -> HoneyBadger -> Subset -> Broadcast, BinaryAgreement
                           (votes, SyncKeyGen)   (ThresholdDecrypt)       (SbvBroadcast, ThresholdSign)
    SenderQueue wraps any of the first three.

| component (source) | state | operations | what makes it correct, what is hard |
|---|---|---|---|
| Broadcast (`broadcast/`) | `value_sent`, `echo_sent`, `ready_sent`, `decided`, `echos`, `readys` | broadcast; Value, Echo, Ready | all correct nodes output the same value or none does; quorums over competing roots, equality tests on counts, observers, undecodable trees |
| SbvBroadcast (`binary_agreement/sbv_broadcast.rs`) | `bin_values`, received BVals and Auxs, `sent_bval`, `terminated` | send_bval; BVal, Aux; clear | singleton outputs agree; values come from correct nodes; everyone outputs. Counts also move through a node's own messages and through Terms |
| ThresholdSign (`threshold_sign.rs`) | shares, `had_input`, `terminated` | sign; share | a node that ends has sent its share |
| BinaryAgreement (`binary_agreement/binary_agreement.rs`) | `epoch`, `estimated`, `decision`, `conf_values`, the coin, `received_conf`, `received_term`, the queue for later epochs | propose; BVal, Aux, Conf, Term, Coin | agreement, validity, progress. Nodes are in different epochs; a call may go through several epochs and handles queued messages on its way |
| Subset (`subset/`) | a state for each proposal, `decided` | propose; messages of the 2N sub-algorithms | same set of at least N - f proposals everywhere; Done last; values and decisions come in any order |
| HoneyBadger, EpochState (`honey_badger/`), ThresholdDecrypt | `epoch`, `has_input`, epoch states; decryption state for each proposer | propose; Subset and decryption messages | batches in order and the same everywhere; shares before ciphertexts, invalid ciphertexts, epochs that complete early |
| SenderQueue (`sender_queue/`) | `peer_epochs`, `outgoing_queue`, `last_epochs`, participants, `is_removed` | input, message, EpochStarted | every message reaches its peer when that can handle it, none is lost or sent too early; peers are removed and added again |
| VoteCounter (`dynamic_honey_badger/votes.rs`) | pending and committed votes | sign, pending, committed, winner | the newest vote of each voter counts; the winner is the same everywhere |
| DynamicHoneyBadger, SyncKeyGen | `era`, key generation state and message buffer; parts and acks | propose, vote, messages; process_output | all nodes change era after the same batch with the same keys; a restart in the middle of several batches |
| QueueingHoneyBadger, TransactionQueue | queue, batch size | push, vote, messages | transactions leave the queue once committed; when to propose |

Messages, targets and fault logs (`traits.rs`, `messaging.rs`, `fault_log.rs`) are sets of
messages and of blamed nodes in the models. The test network (`../hbbft_testing`) is where nodes
with sender queues meet, are removed and restarted.

The hazards of this code, with the lines where they bite and the properties that
are about them, are listed in `PROJECT.json`.

## 2. Modules

| module | models | contents |
|---|---|---|
| `NetworkInfo` | `network_info.rs`, `util.rs` | validators, observers, the faulty; N, f, N - f |
| `NetworkInfoProof` | | what these numbers are for: quorums meet in a correct validator, f + 1 hold one; the least-number principle, for arguments by induction |
| `Broadcast` | `broadcast/broadcast.rs` | a network of nodes running one broadcast; all actions and properties |
| `BroadcastProof` | | inductive invariant and theorems of `Broadcast` |
| `ThresholdSign` | `threshold_sign.rs` | handlers as operators on a record |
| `SbvBroadcast` | `sbv_broadcast.rs`, `bool_multimap.rs` | handlers as operators on a record |
| `SbvNetwork` | | one round of SbvBroadcast as a network of its own |
| `SbvNetworkProof` | | inductive invariant and theorems of `SbvNetwork` |
| `BinaryAgreement` | `binary_agreement.rs` | handlers on a record that extends SbvBroadcast's and holds ThresholdSign's; the network |
| `BinaryAgreementProof` | | inductive invariant and theorems of `BinaryAgreement` |
| `BinaryAgreementSettled` | | that its nested calls go on until the epoch is open again |
| `Subset` | `subset.rs`, `proposal_state.rs` | a network of nodes, over the promises of Broadcast and BinaryAgreement |
| `SubsetProof` | | inductive invariant and theorems of `Subset` |
| `ThresholdDecrypt` | `threshold_decrypt.rs` | handlers as operators on a record |
| `EpochState` | `honey_badger/epoch_state.rs` | handlers on a record with a ThresholdDecrypt for each proposer |
| `HoneyBadger` | `honey_badger/honey_badger.rs` | nodes with epoch states, over the promise of Subset |
| `AtomicBroadcast` | | what Honey Badger promises; implemented by `HoneyBadger` |
| `HoneyBadgerProof` | | inductive invariant and theorems of `HoneyBadger`, `EpochState` and `ThresholdDecrypt`; the refinement |
| `SenderQueue` | `sender_queue/` | handlers on a record, around an algorithm known by its epochs and messages |
| `VirtualNet` | `../hbbft_testing/src/lib.rs` | the network of nodes with sender queues |
| `SyncKeyGen` | `sync_key_gen.rs` | handlers on a record |
| `KeyGeneration` | | one key generation with faulty dealers, committed message by message |
| `KeyGenerationProof` | | inductive invariant and theorems of `KeyGeneration` |
| `VoteCounter` | `dynamic_honey_badger/votes.rs` | handlers on a record |
| `DynamicHoneyBadger` | `dynamic_honey_badger/` | handlers on a record with a vote counter and a key generation |
| `QueueingHoneyBadger` | `queueing_honey_badger/mod.rs` | handlers, and the network of such nodes over the promise of Honey Badger |
| `MC...` | | constants of the instances |

One action is one call into one node, made atomic by `&mut self`: everything the
code does before it returns, messages to itself included, is in the action. Messages sent are
kept in a set, so that each can arrive at any later time; a faulty validator's
messages need not be in it. The operators ending in `Hasty`, `Late`, `Silent` and so on, marked
`mutant`, are wrong variants of the definition after them; each makes one property fail.

*Broadcast.* A Merkle proof is represented by its root: a valid proof for index `i` and
root `r` fixes leaf `i`, and `validate_proof` ties `i` to the sender. What
`decode_from_shards` makes of the leaves at hand is the constant `Rebuilds`, of which
`CodingAssumption` says only that roots made by `send_shards` decode from any
`N - 2f` leaves. `output[n]` is the root that was decoded, `None` while not `decided`.
Repeated equal messages change nothing in the code and are no steps. Proofs that do not
validate are the action `HandleInvalid`.

*SbvBroadcast, ThresholdSign, BinaryAgreement.* Handlers call each other (and
`update_epoch` calls itself through them), so they are operators from state to state;
what they multicast gathers in the field `out` and goes to the network when the call ends.
The recursion is the function `Calls[d]`, what a call leads to if calls nest `d` deep at most. `Depth` bounds it by `2 |queue| + 1`:
each nested `update_epoch` but the first is due to a message that was queued, and each is followed by a call for the loop over the messages of the
new epoch. That no call is cut off is part of what the proof of `Settled` shows.
`queue` is `incoming_queue`, `First` its iteration order. `estimated`, `decision`, `coin` and
`conf_values` are `None` where the Rust `Option` is; `coin` stands for `CoinState`.
The value of a toss is chosen at the start, one for each epoch. A coin share is known by
its sender and whether it verifies. A *setting* says which validators are open, that is, may send
arbitrary members of `open_msgs` (the faulty, or all peers of one node), and where to start and stop.

*Subset.* `states` are the ProposalStates, `voted` the agreements that the node has
proposed in. `inputs` and `decision` stand for the BinaryAgreement instances:
an agreement may decide what some correct validator proposed, everybody gets the same
decision, before, after or as the result of its own vote (`Answers`). `delivered` and
`proposed` stand for the Broadcasts. `Finished` proposals are done in the initial state,
a state the program reaches with every message about them delivered first.

*ThresholdDecrypt, EpochState, HoneyBadger.* A decryption share is known by sender and validity; a
contribution by what becomes of it: `"ok"`, `"junk"` (does not deserialize), `"invalid"` (a ciphertext that
does not verify) or `"garbled"` (no ciphertext). Entries of the Rust maps that do not exist yet are fresh ones.
What Subset will say is chosen at the start, the same for all nodes (`SameSet`, `DoneIsLast`); it comes out in
any portions, a proposer's contribution not before it was made. `Runners` run the code; other correct
validators are represented by the shares they must send, as early as possible.

*SenderQueue, VirtualNet.* The wrapped algorithm is a `Timeline` of batches, each with its era and
epoch, its validators and the participants it changes to; a validator's messages for an entry are one HoneyBadger
message, and a KeyGen message good for an era. It outputs a batch with N - f messages.
The real `is_premature`, `is_obsolete` and `first_epoch` decide what happens to a message. A broadcast at the test
network reaches the nodes that are on it. A node that has removed itself is taken off at any time and
restarted, as the tests do it, when all others have output the batch that announces its return and none has gone on.

*SyncKeyGen, KeyGeneration.* A commitment is the name of a polynomial and its degree. A Part is its commitment and for whom its row is right, an Ack its proposer
and for whom its value is right. `generate` interpolates from t + 1 values, which gives the summand that was committed to if they outnumber the degree (`GoodSummand`). All nodes handle each message when it is committed, with different results: a faulty
dealer's may be good for some only. Messages may be committed again, by several proposers. A node that is ready still handles the rest of the batch;
at its end (`EndBatch`) it takes the keys into use. Which messages can share a batch is left open.

*VoteCounter, DynamicHoneyBadger, QueueingHoneyBadger.* Votes, key generation messages, restarts, joining and
the queue are the code's. Of Honey Badger there are the epoch, `has_input` and whether proposals of more than f
others were received; a batch is any N - f or more of the contributions made for its era and epoch, faulty ones
among them, chosen when the first node outputs it; a node may output several at once. Votes and
key generation messages arrive once, when the receiver is in their era (the sender queue holds
them back, and drops them when they are obsolete). Node ids are numbers because contributions and votes are handled in
their order. A public key set is the set of the Parts that it is the sum of.

## 3. Runs

| run | instance | shows |
|---|---|---|
| `Broadcast_byz_proposer` | 4 validators, faulty proposer, 2 roots, one with a leaf off its codeword | `Agreement`, `NoMissedOutput`, `ReadyMeansDecodable` |
| `Broadcast_delivery` | 4 validators, correct proposer, a faulty peer with a second root, fair | `ProposerDelivers`, `TypeOK`, `Validity`, `NoFalseAccusation` |
| `Sbv_round` | 4 validators, a faulty one backing `true` selectively | `SingletonsAgree`, `Justified`, `EveryoneOutputs` |
| `BA_epochs` | one node with three arbitrary peers, in epochs 0 and 1 and in epoch 2 with its coin; 4 validators, one faulty, in epochs 3 and 4 | `NoThresholdSkipped`, `Settled`, `EarlyCounts`, `CoinShareSent`, `Agreement`, `Validity`, `NoFalseAccusation` |
| `BA_stall` | the last of these | finding: `NoStall` fails |
| `Subset_late` | 4 validators, one faulty, two proposals open | `SameSet`, `DoneIsLast`, `NoEarlyRejection`, `NoStall` |
| `HB_batches` | one node, two correct peers, a faulty one; three epochs, encrypted and not, both handling strategies | `ImplementsAtomicBroadcast`, `NoFalseAccusation`, `LeavesShares`, `NoStall` |
| `HB_invalid_ciphertext` | the same, with an accepted contribution that is no valid ciphertext | finding: `NoStall` fails |
| `SQ_network` | three nodes; one is removed, restarted and added again | `NeverPremature`, `NothingLost`, `ProgressButForTheRemoved` |
| `KeyGen_faulty_dealer` | four dealers, one faulty, an observer, fair | `SameKey`, `SharesMatch`, `Completes`, `TypeOK`, `NoFalseAccusation` |
| `QHB_changes` | four scenarios: 4 validators with a faulty one and changing votes; a sole validator that adds a node, which removes it; two of which one is removed; two that vote each other out | `BatchesAgree`, `ChangesVotedFor`, `VotesRevoked`, `NoFalseAccusation`, `QueueIsPending`, `NoStall`, `TypeOK` |
| `QHB_single` | a sole validator with a transaction | finding: `QueueIsPending` fails |

*Bounds.* Four validators are the fewest with a faulty one, and with `f = 1` the thresholds
f + 1, 2f + 1 and N - f are 2, 3, 3 (f + 1 and 2f + 1 differ, so that relaying and
accepting are separate events). Two roots are what a quorum argument needs. `FaultyEchos` and `FaultyReadys` bound what
faulty validators send: everything in `Broadcast_byz_proposer`; in `Broadcast_delivery`, which has no symmetry because of its liveness property, Echos for the other root and Readys for both. With an observer
the state space is too large; observers, and the early return of `send_ready` at them, are covered by the theorem `NoMissedOutput`. In `BinaryAgreement` a setting's
`last` leaves a node alone once it is past that epoch, and its `open_msgs` limit what arbitrary peers
say to the messages that make the interesting orders possible. Epochs 3 and 4 stand for any two with the coin values true and
false: an epoch starts from nothing but the estimates and the Terms received, and
nobody has sent Terms when all start afresh. In `Divide` the faulty validator tells 1, 2 and 3
different things; in `Sbv_round` it backs one value only, by symmetry of
the values the case of interest. That `count_aux` counts a validator twice that sends both Auxs is beyond this run (with the other Aux it is too large), and covered by the
theorem `SingletonsAgree`, where the faulty send what they like. Three correct validators over two full epochs with an
unrestricted faulty one are out of TLC's reach. `max_future_epochs` is 2 there instead of 1000 and 1 in `HB_batches`, so that
the limit is reached. Three epochs with a limit of one let an epoch complete before the current one, and a message come
too early. `FaultyShares` names the shares a faulty peer sends, for accepted and for other proposers. The `Timeline`
of `SQ_network` has each of the participant changes (in progress, complete; away, back) once, and two
epochs of one era at its end. In `KeyGen_faulty_dealer` two Parts are complete at the start, so that
readiness (three of four) is close and the other Parts decide; the faulty dealer's are one that is bad for a node, one of degree 2 where the threshold is 1, and a malformed one. `LastEpoch` ends the proposals in `QHB_changes`:
four validators vote over four batches, smaller networks go through two key generations. A key
generation among four nodes together with votes is beyond TLC; `KeyGeneration` has the faulty dealers, and
`QHB_changes` the restarts.

*Fairness and progress.* `Broadcast!FairSpec` assumes that a correct proposer is given its
input and that messages between correct nodes arrive (weak fairness of their first
delivery); the library asks both of its user (`broadcast/mod.rs`). `KeyGeneration!FairSpec` assumes that each correct dealer's messages
get committed, and that batches are processed to their end: the messages are in its buffer, and so in every contribution it makes, until they come
out in a batch, and others propose them too. In the other models
progress is an invariant: every delivery happens once, so that a behaviour with a
network that delivers ends in a state with nothing left to deliver, and the property says
what such a state looks like (`EveryoneOutputs`, `NoStall`, `ProgressButForTheRemoved`). `NoStall` of `QueueingHoneyBadger` allows what
`should_propose` documents: with at most f validators that have something to propose, nothing happens. Deadlock checking is off
because all these systems end.

*Refinement.* `HoneyBadger!ImplementsAtomicBroadcast` is the specification of `AtomicBroadcast`, with the log mapped to the
contributions in Subset's output that deserialize: each call is an abstract step in which a node may propose and may output
any number of batches, the next ones in order, equal to the log, with correct contributors' proposals made before.
`QueueingHoneyBadger` relies on that promise.

## 4. Findings

Shown by runs:

* **BinaryAgreement can get stuck** (`BA_stall`). `handle_message` drops BVals of past epochs,
  so a node that has left an epoch does not relay BVal any more. With N = 4: node 1
  leaves epoch 3 with `{false}` before it relayed `true`; node 2, with the faulty
  validator's BVal, believes in both and leaves too; node 3 never gets a third
  BVal(true). When the faulty validator falls silent, 3 waits in epoch 3 and 1 and 2
  wait for it in epoch 4. The doc's "if any correct node believes in v, every correct node
  will" holds for nodes that stay (`Sbv_round`), not for ones that move on.
* **A batch that never comes** (`HB_invalid_ciphertext`). An accepted contribution that is no valid ciphertext is logged
  as a fault (`epoch_state.rs:378-391`), but its proposer stays in `accepted_proposers`, and `try_output_batch` waits for
  a completed decryption of it.
* **The endless proposal** (`QHB_single`). A sole validator's batch comes out inside the loop of
  `QueueingHoneyBadger::propose`, where nothing removes its transactions from the queue.

Found while modelling, and followed by the models as the code has it:

* `broadcast.rs:356`: leaves that are present are not compared with what the erasure code would
  give, so a tree whose leaves lie on no codeword decodes only at a node that has all N Echos by then. That node outputs; another
  one may not, against "either all correct validators will receive the same value, or none" (`broadcast/mod.rs:7`).
* `binary_agreement.rs:514`: `update_epoch` drops the rest of an epoch's queue when one of
  its messages ends the epoch, Terms among them, which are "kept throughout epoch updates" (155).
* `binary_agreement.rs:310`: the Conf round is checked when a Conf comes, not when
  `bin_values` grows and makes earlier Confs acceptable.
* A comment in `handle_sbvb_step` gives the coin schedule as "false, true, get_coin()";
  `coin_state` and the module's doc have true first.
* `sender_queue/mod.rs:196`: a removed node ignores `EpochStarted`, so that what it had deferred for nodes behind it is
  never sent; `ProgressButForTheRemoved` states progress up to that. `restart` sends the joining node's
  messages without deferring them (`sender_queue/dynamic_honey_badger.rs:152`).
* `dynamic_honey_badger.rs:394`: a change of the encryption schedule during a key generation restarts Honey Badger, which drops the
  buffered key generation messages (428) and keeps `key_gen_state`: that key generation never completes. The scenarios
  avoid the combination.
* `dynamic_honey_badger.rs:502`: the comment requires a joining node's Part to be complete; `KeyGenState::is_ready` (`mod.rs:178`) requires
  more than two thirds of all Parts.
* `sync_key_gen.rs:486-512`: nothing compares the degree of a dealer's commitment with the threshold, which is documented as "the degree of the generated polynomial" (313).
  A faulty dealer's Part of a higher degree, with rows and values that all verify, can get complete, and `generate` (451) interpolates each node's summand from
  threshold + 1 values, too few for that degree: all finish with the same public key, and without shares of it. `KeyGen_faulty_dealer` has such a Part. `SharesMatch` states
  what holds: right shares of the correct dealers' Parts, and of a faulty one's with no higher degree.
* `sync_key_gen.rs:378,399`: a Part or Ack signed by a current validator that gets no key in the change is an error of
  the whole call of `process_output` rather than a fault of its sender (`error` in the model). No correct node sends one.
* `honey_badger.rs:219`: `TickTock(n, m)` encrypts n + 1 of n + m epochs, the comment (207) says n.
* `dynamic_honey_badger/builder.rs:105` makes the vote counter for era 0 whatever the era is; `new_joining`
  does its own set-up. `hbbft_testing/src/lib.rs:820` ignores its parameter `error_on_fault`.
* Batches of a key generation after the first have `ChangeState::None`, not `InProgress`.
* `process_output` numbers all batches of a step with the era it has reached by then; correct because no correct node
  proposes in an era after the batch that ends it, so that batch is the last of its step (`BatchesAgree` includes the numbering).

## 5. Proofs

The theorems hold for every finite set of validators, any observers and any faulty set of at most `f` of the `N`
validators. The properties are the ones that the runs check.

| module | theorems |
|---|---|
| `BroadcastProof` | `TypeOK`, `Agreement`, `ReadyMeansDecodable`, `Validity`, `NoFalseAccusation`, `NoMissedOutput` |
| `SbvNetworkProof` | `SingletonsAgree`, `Justified`, `EveryoneOutputs` |
| `BinaryAgreementProof` | `Agreement`, `Validity`, `NoThresholdSkipped`, `CoinShareSent` |
| `BinaryAgreementSettled` | `Settled` |
| `SubsetProof` | `SameSet`, `DoneIsLast`, `NoEarlyRejection`, `NoStall` |
| `HoneyBadgerProof` | `ImplementsAtomicBroadcast`, `NoFalseAccusation`, `LeavesShares`, and `NoStall` where accepted ciphertexts are valid |
| `KeyGenerationProof` | `TypeOK`, `SameKey`, `SharesMatch`, `NoFalseAccusation` |

They are laid out alike. None of the properties is inductive; `IInv` is the conjunction of what the argument needs, each
handler has a lemma about the state it returns, each action one that it preserves `IInv`, and the theorem `Invariant`
puts them together. `NetworkInfoProof` has the counting: 3f < N, any f + 1 validators include a correct one
(`CorrectMember`), any two sets of N - f share a correct one (`QuorumIntersection`).

*Broadcast.* Besides `TypeOK`: `EchoInv`, the Echo of a correct validator that anyone holds is the one it has on
record for itself, which is on the network; `ReadyInv`, the same for Ready, and that a correct validator has a Ready only for a
root that N - f validators, the faulty included, may have echoed; `OutputInv`, an output rests on 2f + 1 Readys held by its node;
`InputInv`, with a correct proposer no correct validator echoes anything but its input.
Two outputs rest on Readys of correct validators, these on N - f echoes each, and the two sets share a correct
validator, which has one Echo only. For `NoFalseAccusation`, a correct proposer is blamed only when N - 2f leaves of
one root do not decode, and that root, having 2f + 1 Readys, is its own. `NoMissedOutput` covers the path that no handler checks: `send_ready`
returns early at an observer, before `compute_output`. By `ReadyNoticed`, a node that is not ready yet has at most f Readys for any root,
so that the check could not have succeeded.

*SbvBroadcast.* For each node: what it holds of a correct validator was sent by it, its own BVal and Aux are on record,
`bin_values` are exactly the values with more than 2f BVals, values with more than f are relayed, and an output that is due is there
(`Recorded`, `OwnBVal`, `OwnAux`, `BinValues`, `Echoed`, `OutputDue`, `OutputBacked`); a correct validator sends one Aux. This is where equality tests on counts matter: a count moves by one
at a time because own messages are counted at once, which the invariant states and every handler's lemma uses.
`EveryoneOutputs` then needs that correct validators outnumber 2f: one of the two values was input by f + 1 of them, so all relay it, all
believe in it, and N - f Auxs are for values that everybody believes in.

*Binary Agreement.* Nodes are in different epochs and forget an epoch when they leave it, so the argument is about what a node *knows*: the messages that it
was given and its own, which only grow. `Evidence` says what a correct node multicasts: a BVal for its estimate or after f + 1
others, one Aux in an epoch, a Term for what it has decided (`Rules`); an estimate rests on the epoch before (`Estimate`: N - f Auxs, or the coin and 2f + 1 BVals).
A Term counts as BVal and Aux of each later epoch. `Grounded` adds that among those with a BVal somebody was the first, so that the value was
estimated, or comes from a Term. An epoch is *decisive* for b if b is its coin and somebody knows N - f Auxs for b; a decision or Term goes back to a decisive epoch
(`DecisionSource`). In the first decisive epoch two sets of N - f Auxs share a correct validator, so all that leave it estimate b, and no later
epoch has anything else (`Locked`): hence `Agreement`, and `Validity` by the same path back to the inputs (`OnlyInputs`).
`Sound` links a node's state to what it knows: the sets it counts are just the senders it knows of, `bin_values` are the values with
2f + 1 BVals, candidate values are backed by N - f Auxs, a coin is the epoch's coin and our share is out when it was tossed. Each handler has a lemma that it keeps
`Sound` if the calls that it makes do; that `Calls[d]` keep it is by induction on d, with the least d for which they do not (`Least`).
`NoThresholdSkipped` and `CoinShareSent` hold whatever peers send, also in the settings where all of them are open.

`Settled` needs more than `Sound`: a call that is cut off would leave an epoch that is over. `Quiet` says that a call leaves the epoch open and only takes
messages out of the queue, and the lemmas count: with k messages queued, `Calls[2k + 1]` is enough (`CallsSettle`). A sole validator is the exception, it completes
epoch 0 with its own BVal and Aux; epoch 1 has a fixed coin too, and it decides in one of them.

*Subset.* `Truthful`, a node's proposal states follow the agreements' decisions; `OutputIs`, what was output is what is `CompleteTrue`;
`Settled`, after a call N - f accepted proposals have made the node vote on the rest, and it is done exactly when all are complete;
who has received a value has voted. `try_output` compares the number of accepted proposals with N - f for equality: the proof that it is not stepped over
(a call adds at most one, or the votes are cast already) is `TryOutputInv`.

*Honey Badger.* `Shares` says whose a decryption share may be: invalid ones, and ones for a proposer that is not accepted, are the faulty nodes'. A
ciphertext is there exactly when our own share is sent, and then invalid shares are gone, so f + 1 shares give what was encrypted (`Settled`). `Entry`
links this to the epoch: accepted means decrypting, decrypted means that our share is out. `NodeInv`: the output is the log up to `epoch`, a node in `epoch` has proposed
for it or may do so. `Backed`: what counts as contributed was proposed, which is the guard of an abstract step. That the loop of `try_output_batches`
ends is `NextIncompleteFacts`, by the least epoch that is not complete.
`NoStall` has the hypothesis `Decryptable`, without which it is false (`HB_invalid_ciphertext`): among nodes with the least epoch, all that was accepted was proposed,
so Subset is done; every correct validator, there or ahead, has sent its shares; these are N - f > f.

*Key generation.* All correct nodes have the same Parts with the same commitments and Acks (`SamePartsInv`); a correct node holds
the value of every correct node that has acked a Part (`ValuesInv`), so of 2f + 1 Acks f + 1 have a right value for it, which outnumber a degree of f; a correct dealer's Part is its own and has that degree, and
an Ack comes after its Part (`DealersInv`). Being ready depends on the Parts and Acks only, so all finish after the same batch (`FinishedInv`).

*Assumptions.* `NodesAssumption` and `FaultyAssumption` (at most f faulty); `CodingAssumption` (Broadcast); `AgreementAssumption` (BinaryAgreement), validators
are numbers because `incoming_queue` is ordered, and a setting's arbitrary messages come from those it declares open; `HoneyBadgerAssumption`, what Subset
promises of its outcomes; `FinishedAssumption` (Subset), fewer than N - f proposals are finished initially; `KeyGenerationAssumption`, and
`NoneAssumption`, `AnswersAssumption`: `None` and the like are no value of the sets they are added to. TLC evaluates them on every run.

*Model-checked only:*

* `ProposerDelivers` and `Completes`: liveness under fairness.
* `EarlyCounts` and `NoFalseAccusation` of BinaryAgreement. They are not true of every instance: a node that is more than `max_future_epochs` ahead
  of another one is blamed by it and its messages are dropped, and a second Coin of a faulty peer for a later epoch is not kept. The runs have the epochs they hold for.
* VirtualNet. `NeverPremature` holds for the timeline of the run (a broadcast also reaches a removed node that is still on the network). What the
  handlers put together for each peer is a fold over messages and participants.
* QueueingHoneyBadger. A batch is handled by folds over its contributions and their votes, and a step by a fold over its batches: what these compute for every
  input takes induction over data, which the library states with an operator as a parameter that the provers cannot instantiate. `Calls[d]` above is different:
  the induction there is over a number, and over one property.

## 6. Not modelled

Merkle hashing and cryptography are data: the models assume that hashes and signatures do what they are for, and
say of ciphertexts and shares only whether they verify, and of polynomials their degree. `examples/` (socket and terminal I/O, a simulated
clock) is not part of the library's logic. Of the test network, limits, traces and the tampering of
faulty nodes are left out: faulty nodes are part of the other models. Serialization errors and the errors returned for
wrong use of the interface (unknown senders, double input) end a call without effect. The random choice of transactions
(`transaction_queue.rs:48`) is left out, with proposals that hold the whole queue.

## 7. Plan

Left for later: `NoFalseAccusation` of BinaryAgreement under the hypothesis that no correct node gets `max_future_epochs` ahead of another one;
parts of the folds that can be stated without them, in `SenderQueue` (what is deferred for a peer depends on
that peer alone) for VirtualNet, with the invariant that a node never has a greater epoch for a peer than the peer itself;
`BatchesAgree` of QueueingHoneyBadger, where all nodes process the same batches from the same state.
