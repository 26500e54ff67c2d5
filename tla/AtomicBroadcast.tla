-------------------------- MODULE AtomicBroadcast --------------------------
(***************************************************************************)
(* What Honey Badger promises (src/src/honey_badger/mod.rs): all correct   *)
(* nodes output the same sequence of batches, one for each epoch and in    *)
(* order, and a batch holds contributions that their proposers made for    *)
(* that epoch.  The sequence is a variable that is chosen at the start and *)
(* never changes; nodes find out about it as they go.                      *)
(***************************************************************************)
EXTENDS Integers

CONSTANTS Nodes,      \* the correct nodes
          Batches,    \* what a batch can be: a set of contributors
          LastEpoch   \* bound: the last epoch of the log

VARIABLES log,        \* epoch -> batch
          next,       \* node -> the epoch of the next batch it will output
          proposed,   \* node -> the epochs it has proposed for
          output      \* node -> the batches it has output, by epoch

vars == <<log, next, proposed, output>>

Init ==
    /\ log \in [0 .. LastEpoch -> Batches]
    /\ next = [n \in Nodes |-> 0]
    /\ proposed = [n \in Nodes |-> {}]
    /\ output = [n \in Nodes |-> [e \in 0 .. -1 |-> log[e]]]

(* A node may propose for its current epoch, and may output the next       *)
(* batches if the contributors that are correct have proposed by then.     *)
Step(n) ==
    /\ proposed' \in {proposed, [proposed EXCEPT ![n] = @ \cup {next[n]}]}
    /\ \E k \in next[n] .. LastEpoch + 1 :
          /\ next' = [next EXCEPT ![n] = k]
          /\ output' = [output EXCEPT ![n] = [e \in 0 .. k - 1 |-> log[e]]]
          /\ \A e \in next[n] .. k - 1 : \A p \in log[e] \cap Nodes : e \in proposed'[p]
    /\ UNCHANGED log

Next == \E n \in Nodes : Step(n)

Spec == Init /\ [][Next]_vars
=============================================================================
