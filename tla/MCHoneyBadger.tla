--------------------------- MODULE MCHoneyBadger ---------------------------
(* Small instances of HoneyBadger. *)
EXTENDS HoneyBadger, TLC

CONSTANTS v1, v2, v3, v4

(* The correct proposers' contributions with those of the others. *)
With(kind) == [p \in Validators |-> IF p \in Faulty THEN kind ELSE "ok"]

EverySecond == [type |-> "EveryNthEpoch", n |-> 2]

(* A batch with a worthless contribution, then one without the node that   *)
(* runs the code, then one in which everything is fine.                    *)
Deserializable ==
    {[e \in Epochs |-> CASE e = 0 -> [p \in {v1, v2, v4} |-> With("junk")[p]]
                         [] e = 1 -> [p \in {v2, v3, v4} |-> With("garbled")[p]]
                         [] OTHER -> [p \in {v1, v3, v4} |-> With("ok")[p]]]}

(* Shares for accepted proposers and others, in epochs with and without    *)
(* encryption; those for epoch 2 may come when that is too far ahead.      *)
SomeShares == {<<0, v1>>, <<1, v2>>, <<2, v2>>} \cap (Epochs \X Validators)

(* The faulty proposer's contribution is accepted and cannot be decrypted. *)
Undecryptable ==
    {[e \in Epochs |-> [p \in {v1, v2, v4} |-> With(kind)[p]]] : kind \in {"invalid", "garbled"}}
=============================================================================
