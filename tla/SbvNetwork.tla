----------------------------- MODULE SbvNetwork -----------------------------
(***************************************************************************)
(* One round of Synchronized Binary Value Broadcast among correct nodes    *)
(* that run SbvBroadcast to its end and faulty validators that may send    *)
(* anyone what FaultyMsgs allows.  The network delivers each message once; *)
(* that the faulty are blamed when they repeat theirs is left out.         *)
(***************************************************************************)
EXTENDS SbvBroadcast

CONSTANT FaultyMsgs  \* the messages that faulty validators may send

ASSUME FaultyMsgsAssumption == \A m \in FaultyMsgs : m.from \in Faulty

VARIABLES sbv,    \* the SbvBroadcast instance of every correct node
          input,  \* what each of them was given, or None
          msgs    \* the messages that correct nodes have multicast

vars == <<sbv, input, msgs>>

Init ==
    /\ sbv = [n \in Correct |-> SbvNew]
    /\ input = [n \in Correct |-> None]
    /\ msgs = {}

Becomes(n, s) ==
    /\ sbv' = [sbv EXCEPT ![n] = [s EXCEPT !.out = {}]]
    /\ msgs' = msgs \cup s.out

(* send_bval, called with the estimate for the epoch *)
Input(n, b) ==
    /\ input[n] = None
    /\ input' = [input EXCEPT ![n] = b]
    /\ Becomes(n, SendBVal(sbv[n], n, b))

Sent(v, type, b) == Msg(v, 0, type, b) \in msgs \cup FaultyMsgs

(* handle_message, the first of its kind from v *)
ReceiveBVal(n, v, b) ==
    /\ Sent(v, "BVal", b) /\ v \notin sbv[n].received_bval[b]
    /\ Becomes(n, HandleBVal(sbv[n], n, v, b))
    /\ UNCHANGED input

ReceiveAux(n, v, b) ==
    /\ Sent(v, "Aux", b) /\ v \notin sbv[n].received_aux[b]
    /\ Becomes(n, HandleAux(sbv[n], v, b))
    /\ UNCHANGED input

Next ==
    \E n \in Correct, b \in BOOLEAN :
        \/ Input(n, b)
        \/ \E v \in Validators : ReceiveBVal(n, v, b) \/ ReceiveAux(n, v, b)

Spec == Init /\ [][Next]_vars
-----------------------------------------------------------------------------
(* sbv_broadcast.rs: "it is guaranteed that whenever two nodes output      *)
(* singletons {v} and {w}, then v = w", whatever the faulty tell whom, and *)
(* although count_aux counts a validator once for each value.              *)
SingletonsAgree ==
    \A m, n \in Correct : \A v, w \in BOOLEAN :
        sbv[m].sbv_output = {v} /\ sbv[n].sbv_output = {w} => v = w

(* binary_agreement/mod.rs: whatever a node believes in was input by a     *)
(* correct one.                                                            *)
Justified ==
    \A n \in Correct : sbv[n].bin_values \subseteq {input[m] : m \in Correct}

(* binary_agreement/mod.rs: "If any correct node believes in v, every      *)
(* correct node will", and all get an output: this is how things stand     *)
(* when every node has its input and all messages are delivered.           *)
EveryoneOutputs ==
    \/ \E n \in Correct : input[n] = None
    \/ \E n \in Correct, b \in BOOLEAN : \E v \in CorrectValidators \ {n} :
          \/ Msg(v, 0, "BVal", b) \in msgs /\ v \notin sbv[n].received_bval[b]
          \/ Msg(v, 0, "Aux", b) \in msgs /\ v \notin sbv[n].received_aux[b]
    \/ \A m, n \in Correct : sbv[n].sbv_output # None /\ sbv[n].bin_values = sbv[m].bin_values
=============================================================================
