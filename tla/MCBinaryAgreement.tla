------------------------- MODULE MCBinaryAgreement -------------------------
(* Small instances of BinaryAgreement. *)
EXTENDS BinaryAgreement

(* What each of some peers may send in an epoch. *)
By(peers, epoch, type, vals) == {Msg(v, epoch, type, b) : v \in peers, b \in vals}

Peers == {2, 3, 4}

(* Node 1 among peers whose messages are arbitrary *)
Alone(messages, start, last) ==
    [open |-> Peers, open_msgs |-> [n \in {1} |-> messages], start |-> start, last |-> last,
     estimates |-> [{1} -> BOOLEAN]]

(* From the start, in the two epochs with a fixed coin *)
TwoEpochs == Alone(
    By({2}, 0, "BVal", {TRUE}) \cup By(Peers, 0, "BVal", {FALSE}) \cup By(Peers, 0, "Aux", {FALSE})
      \cup By(Peers, 1, "BVal", {TRUE}) \cup By(Peers, 1, "Aux", {TRUE}) \cup By(Peers, 1, "Term", {TRUE}),
    0, 2)

(* In the third epoch, the first with a coin to be tossed; a Coin's value  *)
(* is whether the share verifies.  Epoch 5 is too far ahead.               *)
CoinEpoch == Alone(
    By(Peers, 2, "BVal", {TRUE}) \cup By(Peers, 2, "Aux", {TRUE}) \cup By(Peers, 2, "Conf", {{TRUE}})
      \cup By(Peers, 2, "Coin", {TRUE}) \cup By({2}, 2, "Coin", {FALSE}) \cup By({2}, 5, "BVal", {TRUE}),
    2, 2)

(* Three correct nodes.  All of them, or all but 3, estimate false.  The   *)
(* faulty validator spreads true, helps 3 to an early decision and tells 1 *)
(* the opposite.                                                           *)
Divide ==
    [open |-> Faulty, start |-> 3, last |-> 4,
     estimates |-> {[n \in 1 .. 3 |-> n = 3], [n \in 1 .. 3 |-> FALSE]},
     open_msgs |-> [n \in 1 .. 3 |->
        CASE n = 1 -> By(Faulty, 3, "Aux", {FALSE}) \cup By(Faulty, 4, "Term", {FALSE})
          [] n = 2 -> By(Faulty, 3, "BVal", {TRUE})
          [] n = 3 -> By(Faulty, 3, "Aux", {TRUE})]]

AllSettings == {TwoEpochs, CoinEpoch, Divide}

DivideOnly == {Divide}
=============================================================================
