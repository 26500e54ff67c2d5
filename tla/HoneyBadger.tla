---------------------------- MODULE HoneyBadger ----------------------------
(***************************************************************************)
(* Honey Badger (src/src/honey_badger/honey_badger.rs): a node goes from   *)
(* epoch to epoch, several of which may be under way, and outputs a batch  *)
(* for each in order.  A network of nodes that run the code, of correct    *)
(* peers that are represented by what they may send, and of faulty ones.   *)
(* Subset is represented by what it promises: the same contributions at    *)
(* all correct nodes, chosen for each epoch at the start, in any order and *)
(* with Done at the end.  The sender queue keeps correct peers from        *)
(* sending messages for epochs that are too far ahead.                     *)
(***************************************************************************)
EXTENDS EpochState

CONSTANTS Runners,            \* the correct nodes that run the code here
          Agreements,         \* the outcomes of Subset, epoch -> proposer -> value
          FaultyShares,       \* <<epoch, proposer>> that the faulty send shares for
          Handling,           \* the subset handling strategies in use
          encryption_schedule,
          max_future_epochs,
          LastEpoch           \* bound: a node past this epoch is left alone

Epochs == 0 .. LastEpoch

Values == {"ok", "junk", "invalid", "garbled"}

(* subset/mod.rs: N - f contributions or more, those of correct nodes as   *)
(* they made them.                                                         *)
ASSUME HoneyBadgerAssumption ==
    /\ Runners \subseteq Correct
    /\ FaultyShares \subseteq Epochs \X Validators
    /\ Handling \subseteq Strategies
    /\ LastEpoch \in Nat /\ max_future_epochs \in Nat
    /\ None \notin Values \cup {Garbage} /\ \A ps \in SUBSET Validators : None # ps
    /\ \A a \in Agreements : \A e \in Epochs :
          /\ DOMAIN a[e] \subseteq Validators /\ Cardinality(DOMAIN a[e]) >= num_correct
          /\ \A p \in DOMAIN a[e] : a[e][p] \in Values /\ (p \notin Faulty => a[e][p] = "ok")

VARIABLES agreed,  \* epoch -> accepted proposer -> its value
          node     \* the state of each node that runs the code

vars == <<agreed, node>>

(* EncryptionSchedule::use_on_epoch; TickTock's <= is the code's. *)
use_on_epoch(schedule, epoch) ==
    CASE schedule.type = "Always" -> TRUE
      [] schedule.type = "Never" -> FALSE
      [] schedule.type = "EveryNthEpoch" -> epoch % schedule.n = 0
      [] schedule.type = "TickTock" -> epoch % (schedule.on + schedule.off) <= schedule.on

Encrypted(e) == use_on_epoch(encryption_schedule, e)

(* HoneyBadgerBuilder::build.  An epoch state that was not made yet is a   *)
(* new one.  Besides the struct's fields: the epochs that the node has     *)
(* proposed for, its output, whom it blamed, its decryption shares.        *)
New(strategy) ==
    [epoch |-> 0, has_input |-> FALSE, epochs |-> [e \in Epochs |-> EsNew(strategy)], strategy |-> strategy,
     proposed |-> {}, output |-> [e \in 0 .. -1 |-> {}], faults |-> {}, sent |-> {}]

Init ==
    /\ agreed \in Agreements
    /\ \E strategy \in [Runners -> Handling] : node = [n \in Runners |-> New(strategy[n])]
-----------------------------------------------------------------------------
(* Epoch e's state becomes es; what that reports is the node's. *)
Put(s, e, es) ==
    [s EXCEPT !.epochs[e] = [es EXCEPT !.sent = {}, !.faults = {}],
              !.sent = @ \cup {<<e, p>> : p \in es.sent},
              !.faults = @ \cup es.faults]

(* Where the loop of try_output_batches ends *)
NextIncomplete(s) ==
    CHOOSE k \in s.epoch .. LastEpoch + 1 :
        /\ k \in Epochs => ~CanOutput(s.epochs[k])
        /\ \A e \in s.epoch .. k - 1 : CanOutput(s.epochs[e])

AdvanceStale(s, k) ==  \* mutant: has_input is left as it is
    [s EXCEPT !.epoch = k,
              !.epochs = [e \in Epochs |-> IF e < k THEN EsNew(s.strategy) ELSE @[e]],
              !.output = [e \in 0 .. k - 1 |-> IF e < s.epoch THEN @[e] ELSE Contributors(s.epochs[e])],
              !.faults = @ \cup UNION {BatchFaults(s.epochs[e]) : e \in s.epoch .. k - 1}]

(* The batches up to epoch k and update_epoch after each of them *)
Advance(s, k) ==
    [s EXCEPT !.epoch = k, !.has_input = @ /\ k = s.epoch,
              !.epochs = [e \in Epochs |-> IF e < k THEN EsNew(s.strategy) ELSE @[e]],
              !.output = [e \in 0 .. k - 1 |-> IF e < s.epoch THEN @[e] ELSE Contributors(s.epochs[e])],
              !.faults = @ \cup UNION {BatchFaults(s.epochs[e]) : e \in s.epoch .. k - 1}]

(* try_output_batches *)
TryOutputBatches(s) == Advance(s, NextIncomplete(s))

(* A call into node n has taken the state of its epoch e to es. *)
Becomes(n, s, e, es) ==
    /\ node' = [node EXCEPT ![n] = TryOutputBatches(Put(s, e, es))]
    /\ UNCHANGED agreed

(* propose by a validator.  Subset has nothing to output yet, unless there *)
(* is nobody else.                                                         *)
Propose(n) ==
    LET s == node[n]
        es == s.epochs[s.epoch]
    IN  /\ is_validator(n) /\ ~s.has_input /\ s.epoch \in Epochs
        /\ Becomes(n, [s EXCEPT !.has_input = TRUE, !.proposed = @ \cup {s.epoch}], s.epoch,
                   IF num_nodes = 1 /\ accepted_ids(es) = None
                     THEN ProcessSubset(es, n, {n}, TRUE, agreed[s.epoch], Encrypted(s.epoch))
                     ELSE es)

(* handle_message: the epochs it handles messages of *)
Handled(s) == {e \in Epochs : e >= s.epoch /\ e <= s.epoch + max_future_epochs}

(* What Subset may still output for epoch e: contributions that were made. *)
Contributed(s, e) == s.epochs[e].accepted_proposers \cup s.epochs[e].held

Forthcoming(s, e) ==
    {p \in DOMAIN agreed[e] \ Contributed(s, e) : p \in Runners => e \in node[p].proposed}

(* handle_message, with a message that makes Subset output *)
SubsetOutput(n, e, ps, done) ==
    LET s == node[n]
    IN  /\ e \in Handled(s) /\ accepted_ids(s.epochs[e]) = None
        /\ done => Contributed(s, e) \cup ps = DOMAIN agreed[e]
        /\ ps # {} \/ done
        /\ Becomes(n, s, e, ProcessSubset(s.epochs[e], n, ps, done, agreed[e], Encrypted(e)))

(* A correct peer sends its share of each accepted ciphertext once. *)
Sent(sender, e, p) ==
    IF sender \in Runners
      THEN <<e, p>> \in node[sender].sent
      ELSE Encrypted(e) /\ p \in DOMAIN agreed[e] /\ agreed[e][p] \notin {"garbled", "invalid"}

ShareArrives(n, sender, e, p) ==
    LET s == node[n]
    IN  /\ sender \notin Faulty /\ e \in Handled(s) /\ Sent(sender, e, p)
        /\ ~IsComplete(s.epochs[e].decryption[p]) /\ sender \notin sender_ids(s.epochs[e].decryption[p])

(* handle_message, with a decryption share: a faulty peer's is valid or    *)
(* not, may be for any epoch and proposer, and may come again.             *)
ReceiveShare(n, sender, e, p, valid) ==
    LET s == node[n]
    IN  /\ s.epoch <= e
        /\ \/ sender \in Faulty /\ <<e, p>> \in FaultyShares
           \/ valid /\ ShareArrives(n, sender, e, p)
        /\ IF e > s.epoch + max_future_epochs
             THEN Becomes(n, [s EXCEPT !.faults = @ \cup {sender}], e, s.epochs[e])
             ELSE Becomes(n, s, e, HandleShare(s.epochs[e], n, sender, p, valid))

Next ==
    \E n \in Runners :
        \/ Propose(n)
        \/ \E e \in Handled(node[n]) : \E ps \in SUBSET Forthcoming(node[n], e), done \in BOOLEAN :
              SubsetOutput(n, e, ps, done)
        \/ \E sender \in Validators \ {n}, e \in Epochs, p \in Validators, valid \in BOOLEAN :
              ReceiveShare(n, sender, e, p, valid)

Spec == Init /\ [][Next]_vars
-----------------------------------------------------------------------------
(* honey_badger/mod.rs: the nodes agree on a sequence of batches, which    *)
(* epoch states complete in any order must not disturb.                    *)
AB == INSTANCE AtomicBroadcast WITH
    Nodes <- Runners,
    Batches <- {b \in SUBSET Validators : Cardinality(b \ Faulty) >= num_correct - num_faulty},
    log <- [e \in Epochs |-> {p \in DOMAIN agreed[e] : agreed[e][p] = "ok"}],
    next <- [n \in Runners |-> node[n].epoch],
    proposed <- [n \in Runners |-> node[n].proposed],
    output <- [n \in Runners |-> node[n].output]

ImplementsAtomicBroadcast == AB!Spec

(* fault_log.rs: only faulty nodes are blamed, though shares come before   *)
(* what they decrypt, and before it is known whose contributions matter.   *)
NoFalseAccusation == \A n \in Runners : node[n].faults \subseteq Faulty

(* threshold_decrypt.rs: "Before terminating, make sure we sent our        *)
(* share": a validator that leaves an epoch has sent its shares of all     *)
(* accepted ciphertexts, which others may need.                            *)
LeavesShares ==
    \A n \in Runners \cap Validators : \A e \in Epochs :
        e < node[n].epoch /\ Encrypted(e) => \A p \in DOMAIN agreed[e] : <<e, p>> \in node[n].sent

(* epoch_state.rs: "When contributions of transactions have been decrypted *)
(* for all valid proposers in this epoch", the batch is output.  With      *)
(* every correct validator's proposals and messages delivered, every node  *)
(* has output all batches.                                                 *)
NoStall ==
    \/ \E n \in Runners :
          \/ is_validator(n) /\ node[n].epoch \in Epochs /\ ~node[n].has_input
          \/ \E e \in Handled(node[n]) :
                \/ accepted_ids(node[n].epochs[e]) = None
                     /\ DOMAIN agreed[e] \subseteq Contributed(node[n], e) \cup Forthcoming(node[n], e)
                \/ \E sender \in CorrectValidators \ {n}, p \in Validators : ShareArrives(n, sender, e, p)
    \/ \A n \in Runners : node[n].epoch > LastEpoch
=============================================================================
