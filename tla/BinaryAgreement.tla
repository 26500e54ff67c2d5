-------------------------- MODULE BinaryAgreement --------------------------
(***************************************************************************)
(* Binary Agreement (src/src/binary_agreement/binary_agreement.rs): the    *)
(* state machine that every node runs, and a network of such nodes and of  *)
(* others whose messages are arbitrary.  A node's state is a record with   *)
(* the fields of struct BinaryAgreement; a handler is an operator from the *)
(* state before to the state after, and one action is one call of propose  *)
(* or handle_message.                                                      *)
(***************************************************************************)
EXTENDS SbvBroadcast, ThresholdSign

CONSTANTS Settings,           \* the networks to look at, records of
                              \*   open: the validators whose messages are arbitrary,
                              \*   open_msgs: node -> messages that they may send it,
                              \*   start: the epoch that everyone starts in, with
                              \*   estimates: one of these if it is not epoch 0,
                              \*   last: bound, a node beyond this epoch is left alone
          max_future_epochs   \* how far ahead a message may be

Nodes == Validators \cup Observers

(* Message; a Coin's value is whether the share verifies. *)
Message ==
    [from : Validators, epoch : Nat, type : {"Conf"}, val : SUBSET BOOLEAN]
      \cup [from : Validators, epoch : Nat, type : {"BVal", "Aux", "Term", "Coin"}, val : BOOLEAN]

(* Validators are numbers: a BTreeMap is iterated in the order of the ids. *)
ASSUME AgreementAssumption ==
    /\ Validators \subseteq Nat /\ max_future_epochs \in Nat
    /\ \A s \in Settings :
          /\ Faulty \subseteq s.open /\ s.open \subseteq Validators /\ {s.start, s.last} \subseteq Nat
          /\ s.start # 0 => s.estimates \subseteq [Nodes \ s.open -> BOOLEAN]
          /\ \A n \in Nodes \ s.open : \A m \in s.open_msgs[n] : m \in Message /\ m.from \in s.open

VARIABLES setting,     \* the network of this behavior
          node,        \* the state of each node that runs the code
          input,       \* what each of them started with
          coin_value,  \* the parity of each epoch's threshold signature
          msgs,        \* the messages multicast by these nodes
          received     \* node -> messages that it has been given

vars == <<setting, node, input, coin_value, msgs, received>>

Runners == Nodes \ setting.open

(* can_expire *)
CanExpire(m) == m.type # "Term"

(* coin_state: true, false, and a coin toss, in turn *)
InitialCoin(epoch) == CASE epoch % 3 = 0 -> TRUE [] epoch % 3 = 1 -> FALSE [] OTHER -> None

(* BinaryAgreement::new *)
New ==
    [epoch |-> 0, bin_values |-> {}, received_bval |-> EmptyMultimap, sent_bval |-> {},
     received_aux |-> EmptyMultimap, sbv_output |-> None, out |-> {}, faults |-> {},
     estimated |-> None, decision |-> None, conf_values |-> None, coin |-> TRUE,
     received_conf |-> [v \in Validators |-> None], received_term |-> EmptyMultimap,
     ts |-> TsNew, queue |-> {}]

(* struct BinaryAgreement, with its SbvBroadcast and its ThresholdSign,    *)
(* and what a call reports                                                 *)
State ==
    [epoch : Nat, bin_values : SUBSET BOOLEAN, received_bval : BoolMultimap, sent_bval : SUBSET BOOLEAN,
     received_aux : BoolMultimap, sbv_output : {None} \cup SUBSET BOOLEAN, out : SUBSET Message,
     faults : SUBSET Validators, estimated : {None} \cup BOOLEAN, decision : {None} \cup BOOLEAN,
     conf_values : {None} \cup SUBSET BOOLEAN, coin : {None} \cup BOOLEAN,
     received_conf : [Validators -> {None} \cup SUBSET BOOLEAN], received_term : BoolMultimap,
     ts : [doc : {TRUE}, shares : SUBSET Share, had_input : BOOLEAN, terminated : BOOLEAN],
     queue : SUBSET Message]

(* update_epoch calls handlers that call update_epoch: they are given what *)
(* such calls lead to.  A Call is update_epoch(b), or what is left of the  *)
(* loop over its queued messages if b is None.                             *)
Call == [s : State, n : Nodes, b : {None} \cup BOOLEAN, queued : SUBSET Message]

UpdateCall(s, n, b) == [s |-> s, n |-> n, b |-> b, queued |-> {}]

LoopCall(s, n, queued) == [s |-> s, n |-> n, b |-> None, queued |-> queued]

(* The parity of an epoch's signature; what it is beyond the last epoch    *)
(* does not matter.                                                        *)
Parity(epoch) == IF epoch \in DOMAIN coin_value THEN coin_value[epoch] ELSE TRUE
-----------------------------------------------------------------------------
(* The handlers *)

DecideNow(s, n, b) ==  \* mutant: the Term belongs to the current epoch
    IF s.decision # None
      THEN s
      ELSE Multicast([s EXCEPT !.decision = b], n, s.epoch, "Term", b)

(* decide: output, and tell the others, as of the next epoch *)
Decide(s, n, b) ==
    IF s.decision # None
      THEN s
      ELSE Multicast([s EXCEPT !.decision = b], n, s.epoch + 1, "Term", b)

(* definite *)
Definite(vals) == IF Cardinality(vals) = 1 THEN CHOOSE b \in vals : TRUE ELSE None

(* try_update_epoch: with the coin and the candidate values known, decide  *)
(* or go to the next epoch.                                                *)
TryUpdateEpoch(calls, s, n) ==
    IF s.decision # None \/ s.coin = None \/ s.conf_values = None
      THEN s
      ELSE IF s.coin = Definite(s.conf_values)
             THEN Decide(s, n, s.coin)
             ELSE calls[UpdateCall(s, n, IF Definite(s.conf_values) = None THEN s.coin ELSE Definite(s.conf_values))]

OnCoinStepWaits(calls, s, n, ts) ==  \* mutant: the coin is noted, and nothing done
    LET t == [s EXCEPT !.ts = ts]
        u == IF ts.had_input /\ ~s.ts.had_input THEN Multicast(t, n, s.epoch, "Coin", TRUE) ELSE t
    IN  IF ts.terminated /\ ~s.ts.terminated THEN [u EXCEPT !.coin = Parity(s.epoch)] ELSE u

(* on_coin_step, after ThresholdSign went from s.ts to ts: our share goes  *)
(* out, and its output, the signature's parity, is the coin.               *)
OnCoinStep(calls, s, n, ts) ==
    LET t == [s EXCEPT !.ts = ts]
        u == IF ts.had_input /\ ~s.ts.had_input THEN Multicast(t, n, s.epoch, "Coin", TRUE) ELSE t
    IN  IF ts.terminated /\ ~s.ts.terminated
          THEN TryUpdateEpoch(calls, [u EXCEPT !.coin = Parity(s.epoch)], n)
          ELSE u

(* count_conf: the Confs with nothing but values in bin_values *)
CountConf(s) ==
    Cardinality({v \in Validators : s.received_conf[v] # None /\ s.received_conf[v] \subseteq s.bin_values})

(* try_finish_conf_round: toss the coin on N - f Confs *)
TryFinishConfRound(calls, s, n) ==
    IF s.conf_values = None \/ CountConf(s) < num_correct \/ s.coin # None
      THEN s
      ELSE TryUpdateEpoch(calls, OnCoinStep(calls, s, n, TsSign(s.ts, n)), n)

(* handle_conf *)
HandleConf(calls, s, n, sender, vals) ==
    TryFinishConfRound(calls, [s EXCEPT !.received_conf[sender] = vals], n)

(* send_conf, when no Conf round is on *)
SendConf(calls, s, n, vals) ==
    LET t == [s EXCEPT !.conf_values = vals]
    IN  IF is_validator(n)
          THEN HandleConf(calls, Multicast(t, n, t.epoch, "Conf", vals), n, n, vals)
          ELSE TryFinishConfRound(calls, t, n)

(* handle_sbvb_step, the SBV handlers having taken the state from s to t:  *)
(* on output, start the Conf round if there is a coin to be tossed.        *)
HandleSbvStep(calls, s, t, n) ==
    IF t.conf_values # None \/ t.sbv_output = s.sbv_output
      THEN t
      ELSE IF t.coin # None
             THEN TryUpdateEpoch(calls, [t EXCEPT !.conf_values = t.sbv_output], n)
             ELSE SendConf(calls, t, n, t.sbv_output)

HandleTermHasty(calls, s, n, sender, b) ==  \* mutant: f Terms are enough
    LET t == [s EXCEPT !.received_term[b] = @ \cup {sender}]
    IN  IF t.decision # None THEN t ELSE Decide(t, n, b)

(* handle_term: decide with the (f + 1)-st; else it is BVal, Aux and Conf, *)
(* the Conf for whatever epoch the former two lead to.                     *)
HandleTerm(calls, s, n, sender, b) ==
    LET t == [s EXCEPT !.received_term[b] = @ \cup {sender}]
        u == HandleSbvStep(calls, t, HandleAux(HandleBVal(t, n, sender, b), sender, b), n)
    IN  IF t.decision # None
          THEN t
          ELSE IF Cardinality(t.received_term[b]) > num_faulty
                 THEN Decide(t, n, b)
                 ELSE HandleConf(calls, u, n, sender, {b})

(* handle_coin: nothing once there is a coin; an invalid share is a fault. *)
HandleCoin(calls, s, n, sender, valid) ==
    LET t == IF ~s.ts.terminated /\ ~valid THEN Blame(s, sender) ELSE s
    IN  IF s.coin # None THEN s ELSE OnCoinStep(calls, t, n, TsHandleMessage(s.ts, sender, valid))

(* handle_message_content *)
HandleContent(calls, s, n, m) ==
    CASE m.type = "BVal" -> HandleSbvStep(calls, s, HandleBVal(s, n, m.from, m.val), n)
      [] m.type = "Aux"  -> HandleSbvStep(calls, s, HandleAux(s, m.from, m.val), n)
      [] m.type = "Conf" -> HandleConf(calls, s, n, m.from, m.val)
      [] m.type = "Term" -> HandleTerm(calls, s, n, m.from, m.val)
      [] m.type = "Coin" -> HandleCoin(calls, s, n, m.from, m.val)

(* ReceivedMessages::messages and the map's order: by sender, then BVal    *)
(* and Aux with true before false, Conf, Term, Coin.                       *)
Rank(m) ==
    CASE m.type = "BVal" -> IF m.val THEN 1 ELSE 2
      [] m.type = "Aux"  -> IF m.val THEN 3 ELSE 4
      [] m.type = "Conf" -> 5
      [] m.type = "Term" -> 6
      [] m.type = "Coin" -> 7

First(queued) ==
    CHOOSE m \in queued : \A q \in queued \ {m} :
        m.from < q.from \/ (m.from = q.from /\ Rank(m) < Rank(q))

DrainOne(calls, s, n, queued) ==  \* mutant: stops after the first message
    IF queued = {} THEN s ELSE HandleContent(calls, s, n, First(queued))

(* The loop at the end of update_epoch: handle what was queued for the     *)
(* epoch, until that is over; what is left by then is dropped.             *)
Drain(calls, s, n, queued) ==
    IF queued = {}
      THEN s
      ELSE LET m == First(queued)
               t == HandleContent(calls, s, n, m)
           IN  IF t.decision # None \/ t.epoch > s.epoch THEN t ELSE calls[LoopCall(t, n, queued \ {m})]

(* update_epoch: reset, count Terms as BVal, Aux and Conf of their senders,*)
(* send our BVal, then handle the queue of the epoch that this leads to.   *)
UpdateEpoch(calls, s, n, b) ==
    LET terms == s.received_term
        conf == [v \in Validators |-> IF v \in terms[TRUE] THEN {TRUE}
                                      ELSE IF v \in terms[FALSE] THEN {FALSE} ELSE None]
        next == [Clear(s, terms) EXCEPT !.received_conf = conf, !.conf_values = None,
                                        !.epoch = @ + 1, !.coin = InitialCoin(s.epoch + 1),
                                        !.ts = TsNew, !.estimated = b]
        started == HandleSbvStep(calls, next, SendBVal(next, n, b), n)
        due == {m \in started.queue : m.epoch = started.epoch}
    IN  calls[LoopCall([started EXCEPT !.queue = @ \ due], n, due)]

(* What a call leads to, if calls nest d deep at most *)
Calls[d \in Nat] ==
    [c \in Call |-> IF d = 0 THEN c.s
                   ELSE IF c.b # None THEN UpdateEpoch(Calls[d - 1], c.s, c.n, c.b)
                   ELSE Drain(Calls[d - 1], c.s, c.n, c.queued)]

(* Bound: the message at hand may end the epoch, and so may each one that  *)
(* was queued; a call of the loop handles one of these.  Without a message *)
(* only a sole validator gets through an epoch, the first.                 *)
Depth(s) == 2 * Cardinality(s.queue) + 1

(* ReceivedMessages::insert: any number of different BVals and Auxs from a *)
(* sender for an epoch, and the first of each other kind.                  *)
Enqueue(s, m) ==
    IF \E q \in s.queue : /\ q.from = m.from /\ q.epoch = m.epoch /\ q.type = m.type
                          /\ m.type \in {"BVal", "Aux"} => q.val = m.val
      THEN Blame(s, m.from)
      ELSE [s EXCEPT !.queue = @ \cup {m}]

(* handle_message: of no use to a node that has decided, or is past the    *)
(* message's epoch, unless it is a Term.                                   *)
Obsolete(s, m) == s.decision # None \/ (m.epoch < s.epoch /\ CanExpire(m))

(* The rest of handle_message: blame for what is too far ahead, keep what  *)
(* is ahead, handle what is due.                                           *)
HandleMessage(s, n, m) ==
    IF m.epoch > s.epoch + max_future_epochs THEN Blame(s, m.from)
    ELSE IF m.epoch > s.epoch THEN Enqueue(s, m)
    ELSE HandleContent(Calls[Depth(s)], s, n, m)
-----------------------------------------------------------------------------
(* The network *)

(* update_epoch's state on the way into the first epoch. *)
Started(n, b) ==
    LET s == [New EXCEPT !.epoch = setting.start, !.coin = InitialCoin(setting.start), !.estimated = b]
    IN  IF setting.start = 0 THEN New ELSE SendBVal(s, n, b)

Init ==
    /\ setting \in Settings
    /\ coin_value \in [{e \in setting.start .. setting.last : InitialCoin(e) = None} -> BOOLEAN]
    /\ input \in IF setting.start = 0 THEN {[n \in Runners |-> None]} ELSE setting.estimates
    /\ node = [n \in Runners |-> [Started(n, input[n]) EXCEPT !.out = {}]]
    /\ msgs = UNION {Started(n, input[n]).out : n \in Runners}
    /\ received = [n \in Runners |-> {}]

(* One call into node n takes its state to s, and what it multicasts is on *)
(* the network.                                                            *)
Becomes(n, s) ==
    /\ node' = [node EXCEPT ![n] = [s EXCEPT !.out = {}]]
    /\ msgs' = msgs \cup s.out

(* can_propose *)
Proposed(n) == node[n].epoch > 0 \/ node[n].estimated # None

(* propose, while that can still affect the outcome *)
Propose(n, b) ==
    /\ ~Proposed(n)
    /\ input' = [input EXCEPT ![n] = b]
    /\ LET s == [node[n] EXCEPT !.estimated = b]
       IN  Becomes(n, HandleSbvStep(Calls[Depth(s)], s, SendBVal(s, n, b), n))
    /\ UNCHANGED <<setting, coin_value, received>>

(* The network gives every node each message once, in any order; an open   *)
(* node may have sent what the setting allows, or none of it.              *)
Arriving(n) ==
    {m \in msgs : m.from # n} \cup setting.open_msgs[n]

Receive(n, m) ==
    /\ node[n].epoch <= setting.last
    /\ m \notin received[n]
    /\ ~Obsolete(node[n], m)
    /\ received' = [received EXCEPT ![n] = @ \cup {m}]
    /\ Becomes(n, HandleMessage(node[n], n, m))
    /\ UNCHANGED <<setting, input, coin_value>>

Next ==
    \E n \in Runners :
        \/ \E b \in BOOLEAN : Propose(n, b)
        \/ \E m \in Arriving(n) : Receive(n, m)

Spec == Init /\ [][Next]_vars
-----------------------------------------------------------------------------
(* handle_bval tests its counts for equality: whatever order BVals and     *)
(* Terms arrive in, before or after the epoch begins, no count passes a    *)
(* threshold unnoticed, and Aux counts are looked at whenever they change. *)
NoThresholdSkipped ==
    \A n \in Runners :
        LET s == node[n]
        IN  s.decision = None =>
              /\ s.bin_values = {b \in BOOLEAN : Cardinality(s.received_bval[b]) > 2 * num_faulty}
              /\ {b \in BOOLEAN : Cardinality(s.received_bval[b]) > num_faulty} \subseteq s.sent_bval
              /\ s.bin_values # {} /\ CountAux(s) >= num_correct => s.sbv_output # None

(* No call returns with the coin and the candidate values both known and   *)
(* the epoch still going on.                                               *)
Settled ==
    \A n \in Runners :
        node[n].decision = None => node[n].coin = None \/ node[n].conf_values = None

(* A message that came before its epoch began counts as if it had come     *)
(* later, for as long as the epoch lasts.                                  *)
EarlyCounts ==
    \A n \in Runners :
        LET s == node[n]
        IN  s.decision = None =>
              \A m \in received[n] :
                  m.epoch = s.epoch =>
                      CASE m.type = "BVal" -> m.from \in s.received_bval[m.val]
                        [] m.type = "Aux"  -> m.from \in s.received_aux[m.val]
                        [] m.type = "Conf" -> s.received_conf[m.from] # None
                        [] m.type = "Coin" -> \/ s.coin # None \/ ~m.val
                                              \/ m.from \in {sh.from : sh \in s.ts.shares}
                        [] OTHER -> TRUE

(* threshold_sign.rs: "Before terminating, make sure we sent our share": a *)
(* validator that leaves an epoch with a coin to be tossed has sent its    *)
(* share, which those who lag behind may need.                             *)
CoinShareSent ==
    \A n \in Runners \cap Validators : \A e \in DOMAIN coin_value :
        node[n].epoch > e => Msg(n, e, "Coin", TRUE) \in msgs

(* binary_agreement/mod.rs: all correct nodes have the same output, if     *)
(* only the faulty validators are not among them.                          *)
Agreement ==
    setting.open = Faulty =>
        \A m, n \in Runners :
            node[m].decision # None /\ node[n].decision # None => node[m].decision = node[n].decision

(* binary_agreement/mod.rs: the output was input by a correct node. *)
Validity ==
    setting.open = Faulty => \A n \in Runners : node[n].decision \in {None} \cup {input[v] : v \in Runners}

(* fault_log.rs: whoever is blamed does not run the code. *)
NoFalseAccusation == \A n \in Runners : node[n].faults \subseteq setting.open

(* binary_agreement/mod.rs: "we will receive at least N - f Aux messages   *)
(* with values we believe in", and get on.  Once the network has delivered *)
(* all that nodes running the code have sent each other, everyone has      *)
(* decided or is past the last epoch.  Each delivery happens once, so every*)
(* behavior with a fair network ends in such a state.                      *)
NoStall ==
    \/ \E n \in Runners : ~Proposed(n)
    \/ \E n \in Runners : \E m \in msgs \ received[n] : m.from # n /\ ~Obsolete(node[n], m)
    \/ \A n \in Runners : node[n].decision # None \/ node[n].epoch > setting.last
=============================================================================
