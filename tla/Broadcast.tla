----------------------------- MODULE Broadcast -----------------------------
(***************************************************************************)
(* Reliable broadcast of one value by one proposer: the whole state machine *)
(* of src/src/broadcast/broadcast.rs, run by every correct node, with the  *)
(* faulty validators sending anything to anyone at any time.               *)
(*                                                                         *)
(* A Merkle proof is abstracted to its root hash.  A valid proof for index *)
(* i and root r determines leaf i (the hash is collision free), and        *)
(* validate_proof ties i to the node that echoes it, so "sender s and root *)
(* r" says everything a valid proof says.  What the Reed-Solomon decoder   *)
(* does with the leaves is the constant Rebuilds.                          *)
(***************************************************************************)
EXTENDS NetworkInfo

CONSTANTS Proposer,     \* proposer_id
          Roots,        \* root hashes of trees that occur
          HonestRoots,  \* the roots that `send_shards' makes of some input
          Rebuilds,     \* Rebuilds[r]: the sets of validators from whose
                        \* leaves decode_from_shards gets a tree with root r
          FaultyEchos,  \* bound: the roots that faulty validators send Echos for
          FaultyReadys, \* ... and Readys
          None

data_shard_count == num_nodes - 2 * num_faulty

(* Leaves that send_shards produced lie on one codeword, so that any       *)
(* data_shard_count of them give all the others back.  Nothing is assumed  *)
(* of a root that a faulty proposer made up.                               *)
ASSUME CodingAssumption ==
    /\ Proposer \in Validators
    /\ HonestRoots \subseteq Roots
    /\ None \notin Roots
    /\ Rebuilds \in [Roots -> SUBSET SUBSET Validators]
    /\ \A r \in HonestRoots : \A S \in SUBSET Validators :
          Cardinality(S) >= data_shard_count => S \in Rebuilds[r]

VARIABLES value_sent,  \* the root of the proposer's own input, or None
          echo_sent,   \* node -> whether it has multicast Echo
          ready_sent,  \* node -> whether it has multicast Ready
          echos,       \* node -> validator -> root of the Echo received
          readys,      \* node -> validator -> root of the Ready received
          output,      \* node -> root of the tree it decoded; decided iff not None
          faults,      \* everyone named in some correct node's fault log
          msgs         \* what correct nodes have put on the network

nodeVars == <<value_sent, echo_sent, ready_sent, echos, readys, output>>
vars == <<nodeVars, faults, msgs>>

Value(to, r) == [type |-> "Value", from |-> Proposer, to |-> to, root |-> r]
Echo(s, r)   == [type |-> "Echo", from |-> s, root |-> r]
Ready(s, r)  == [type |-> "Ready", from |-> s, root |-> r]

Message == [type : {"Value"}, from : {Proposer}, to : Validators, root : Roots]
             \cup [type : {"Echo", "Ready"}, from : CorrectValidators, root : Roots]

Init ==
    /\ value_sent = None
    /\ echo_sent = [n \in Correct |-> FALSE]
    /\ ready_sent = [n \in Correct |-> FALSE]
    /\ echos = [n \in Correct |-> [v \in Validators |-> None]]
    /\ readys = [n \in Correct |-> [v \in Validators |-> None]]
    /\ output = [n \in Correct |-> None]
    /\ faults = {}
    /\ msgs = {}

(* The validators a per-sender table has root r for. *)
From(table, r) == {v \in Validators : table[v] = r}

CountAny(table, r) == Cardinality({v \in Validators : table[v] # None})  \* mutant

(* count_echos, count_readys *)
Count(table, r) == Cardinality(From(table, r))

EchoQuorumAll(n, ech, r) == ~ready_sent[n] /\ Count(ech, r) >= num_nodes  \* mutant

(* handle_echo: Ready is due on N - f matching Echos *)
EchoQuorum(n, ech, r) == ~ready_sent[n] /\ Count(ech, r) >= num_correct

ReadyQuorumLow(n, rdy, r) == ~ready_sent[n] /\ Count(rdy, r) = num_faulty  \* mutant

(* handle_ready: Ready is due on f + 1 matching Readys *)
ReadyQuorum(n, rdy, r) == ~ready_sent[n] /\ Count(rdy, r) = num_faulty + 1

MayOutputLate(n, ech, rdy, r) ==  \* mutant
    /\ output[n] = None
    /\ Count(rdy, r) > 2 * num_faulty + 1
    /\ Count(ech, r) >= data_shard_count
MayOutputEarly(n, ech, rdy, r) ==  \* mutant
    output[n] = None /\ Count(rdy, r) > 2 * num_faulty

(* compute_output: decoding is tried on 2f + 1 Readys and N - 2f Echos *)
MayOutput(n, ech, rdy, r) ==
    /\ output[n] = None
    /\ Count(rdy, r) > 2 * num_faulty
    /\ Count(ech, r) >= data_shard_count

ComputeOutputRaw(n, ech, rdy, r) ==  \* mutant: outputs the leaves it has
    /\ output' = IF MayOutput(n, ech, rdy, r) THEN [output EXCEPT ![n] = From(ech, r)] ELSE output
    /\ UNCHANGED faults

(* compute_output for root r, once node n holds the tables ech and rdy: it *)
(* outputs, or blames the proposer for leaves that do not decode.          *)
ComputeOutput(n, ech, rdy, r) ==
    LET attempt == MayOutput(n, ech, rdy, r)
        decodes == From(ech, r) \in Rebuilds[r]
    IN  /\ output' = IF attempt /\ decodes THEN [output EXCEPT ![n] = r] ELSE output
        /\ faults' = IF attempt /\ ~decodes THEN faults \cup {Proposer} ELSE faults

(* handle_echo from its insertion on: save the proof; with N - f of them   *)
(* send Ready and handle that; check for output.  An observer that gets to *)
(* N - f sets ready_sent and returns before the output check.              *)
RecordEcho(n, s, r, echoMsgs) ==
    LET ech == [echos[n] EXCEPT ![s] = r]
        becomesReady == EchoQuorum(n, ech, r)
        sends == becomesReady /\ is_validator(n)
        rdy == IF sends THEN [readys[n] EXCEPT ![n] = r] ELSE readys[n]
    IN  /\ echos' = [echos EXCEPT ![n] = ech]
        /\ ready_sent' = [ready_sent EXCEPT ![n] = @ \/ becomesReady]
        /\ readys' = [readys EXCEPT ![n] = rdy]
        /\ msgs' = msgs \cup echoMsgs \cup (IF sends THEN {Ready(n, r)} ELSE {})
        /\ IF becomesReady /\ ~sends
             THEN UNCHANGED <<output, faults>>
             ELSE ComputeOutput(n, ech, rdy, r)

(* send_echo, reached from handle_value: only validators get this far, as  *)
(* an observer has no index that a proof could match.                      *)
SendEcho(n, r, valueMsgs) ==
    /\ echo_sent' = [echo_sent EXCEPT ![n] = TRUE]
    /\ RecordEcho(n, n, r, valueMsgs \cup {Echo(n, r)})

(* broadcast(input): shard the value, send every other validator its leaf, *)
(* handle our own.                                                         *)
BroadcastInput(n, r) ==
    /\ n = Proposer
    /\ value_sent = None
    /\ value_sent' = r
    /\ SendEcho(n, r, {Value(to, r) : to \in Validators \ {n}})

(* What node n may be handed: everything a correct node sent it (as often  *)
(* as the network likes, in any order) and anything at all from the faulty. *)
ValueFromAnyone(n, r) == Value(n, r) \in msgs \/ Faulty # {}  \* mutant
ValueArrives(n, r) == Value(n, r) \in msgs \/ Proposer \in Faulty

EchoArrives(s, r) == Echo(s, r) \in msgs \/ (s \in Faulty /\ r \in FaultyEchos)

ReadyArrives(s, r) == Ready(s, r) \in msgs \/ (s \in Faulty /\ r \in FaultyReadys)

(* handle_value, a first valid Value from the proposer *)
HandleValue(n, r) ==
    /\ ValueArrives(n, r)
    /\ n \in Validators
    /\ ~echo_sent[n]
    /\ SendEcho(n, r, {})
    /\ UNCHANGED value_sent

(* handle_value when we have already sent Echo: the same proof again is    *)
(* only warned about, another one is the proposer's fault.                 *)
HandleValueAgain(n, r) ==
    /\ ValueArrives(n, r)
    /\ n \in Validators
    /\ echo_sent[n]
    /\ echos[n][n] # r
    /\ faults' = faults \cup {Proposer}
    /\ UNCHANGED <<nodeVars, msgs>>

(* handle_echo, the first valid Echo from s *)
HandleEcho(n, s, r) ==
    /\ EchoArrives(s, r)
    /\ s # n
    /\ echos[n][s] = None
    /\ RecordEcho(n, s, r, {})
    /\ UNCHANGED <<value_sent, echo_sent>>

(* handle_echo when s has sent another one before *)
HandleEchoAgain(n, s, r) ==
    /\ EchoArrives(s, r)
    /\ echos[n][s] \notin {None, r}
    /\ faults' = faults \cup {s}
    /\ UNCHANGED <<nodeVars, msgs>>

(* handle_ready, the first Ready from s: the (f + 1)-st makes us send our  *)
(* own, which we handle too.                                               *)
HandleReady(n, s, r) ==
    LET rdy == [readys[n] EXCEPT ![s] = r]
        becomesReady == ReadyQuorum(n, rdy, r)
        sends == becomesReady /\ is_validator(n)
        rdy2 == IF sends THEN [rdy EXCEPT ![n] = r] ELSE rdy
    IN  /\ ReadyArrives(s, r)
        /\ s # n
        /\ readys[n][s] = None
        /\ ready_sent' = [ready_sent EXCEPT ![n] = @ \/ becomesReady]
        /\ readys' = [readys EXCEPT ![n] = rdy2]
        /\ msgs' = msgs \cup (IF sends THEN {Ready(n, r)} ELSE {})
        /\ ComputeOutput(n, echos[n], rdy2, r)
        /\ UNCHANGED <<value_sent, echo_sent, echos>>

(* handle_ready when s has sent another one before *)
HandleReadyAgain(n, s, r) ==
    /\ ReadyArrives(s, r)
    /\ readys[n][s] \notin {None, r}
    /\ faults' = faults \cup {s}
    /\ UNCHANGED <<nodeVars, msgs>>

(* A Value or Echo whose proof does not validate, or a Value from someone  *)
(* who is not the proposer: no correct node sends one, the sender is named *)
(* and the message dropped.                                                *)
HandleInvalid(s) ==
    /\ s \in Faulty
    /\ faults' = faults \cup {s}
    /\ UNCHANGED <<nodeVars, msgs>>

Input == Proposer \in Correct /\ \E r \in HonestRoots : BroadcastInput(Proposer, r)

(* handle_message: one message from a validator, handled to the end *)
HandleMessage(n) ==
    \E r \in Roots :
        \/ HandleValue(n, r)
        \/ HandleValueAgain(n, r)
        \/ \E s \in Validators : \/ HandleEcho(n, s, r)
                                 \/ HandleEchoAgain(n, s, r)
                                 \/ HandleReady(n, s, r)
                                 \/ HandleReadyAgain(n, s, r)

Next ==
    \/ Input
    \/ \E n \in Correct : HandleMessage(n)
    \/ \E s \in Validators : HandleInvalid(s)

Spec == Init /\ [][Next]_vars

(* A first delivery of a message that one correct node sent another. *)
Deliver ==
    \E n \in Correct : \E r \in Roots :
        \/ Value(n, r) \in msgs /\ HandleValue(n, r)
        \/ \E s \in CorrectValidators : HandleEcho(n, s, r) \/ HandleReady(n, s, r)

(* The network delivers every message between correct nodes in the end,    *)
(* and a correct proposer is given its input.  Nothing is fair about the   *)
(* faulty.  One condition for all deliveries is as good as one for each:   *)
(* every delivery happens once, and there are finitely many.               *)
Fairness == WF_vars(Input) /\ WF_vars(Deliver)

FairSpec == Spec /\ Fairness
-----------------------------------------------------------------------------
(* Every variable has the type the code gives it. *)
TypeOK ==
    /\ value_sent \in HonestRoots \cup {None}
    /\ echo_sent \in [Correct -> BOOLEAN]
    /\ ready_sent \in [Correct -> BOOLEAN]
    /\ echos \in [Correct -> [Validators -> Roots \cup {None}]]
    /\ readys \in [Correct -> [Validators -> Roots \cup {None}]]
    /\ output \in [Correct -> Roots \cup {None}]
    /\ faults \subseteq Validators
    /\ msgs \subseteq Message

(* broadcast/mod.rs: correct nodes that output, output the same value,     *)
(* whatever a faulty proposer told whom.                                   *)
Agreement ==
    \A m, n \in Correct :
        output[m] # None /\ output[n] # None => output[m] = output[n]

(* broadcast/mod.rs: what is output for a correct proposer is its input.   *)
Validity ==
    Proposer \in Correct => \A n \in Correct : output[n] \in {None, value_sent}

(* fault_log.rs: a node a correct node blames did misbehave, however late, *)
(* repeated or reordered the messages of the correct ones arrive.          *)
NoFalseAccusation == faults \subseteq Faulty

(* No handler returns with the condition for output met and no output: the *)
(* check that compute_output makes is never skipped when it would succeed. *)
NoMissedOutput ==
    \A n \in Correct : \A r \in Roots :
        (/\ Count(readys[n], r) > 2 * num_faulty
         /\ Count(echos[n], r) >= data_shard_count
         /\ From(echos[n], r) \in Rebuilds[r])
          => output[n] # None

(* broadcast/mod.rs: a correct validator sends Ready(r) only when it knows *)
(* that everyone will be able to decode r: enough correct validators have  *)
(* sent an Echo for r.                                                     *)
ReadyMeansDecodable ==
    \A n \in CorrectValidators : \A r \in Roots :
        Ready(n, r) \in msgs =>
            Cardinality({v \in CorrectValidators : Echo(v, r) \in msgs})
               >= num_nodes - num_faulty - Cardinality(Faulty)

(* broadcast/mod.rs: if the proposer is correct, every correct node        *)
(* receives the value in the end.                                          *)
ProposerDelivers ==
    (Proposer \in Correct) => <>(\A n \in Correct : output[n] # None)
=============================================================================
