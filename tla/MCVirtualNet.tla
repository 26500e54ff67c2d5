---------------------------- MODULE MCVirtualNet ----------------------------
(* Small instances of VirtualNet. *)
EXTENDS VirtualNet

CONSTANTS a, b, c

Entry(era, epoch, validators, change, key_gen) ==
    [era |-> era, epoch |-> epoch, validators |-> validators, change |-> change, key_gen |-> key_gen]

(* Three validators; c is removed, comes back, sends a KeyGen message as   *)
(* a joining node, and is a validator again.                               *)
RemoveAndAdd == <<
    Entry(0, 0, {a, b, c}, {a, b, c}, {}),  \* the removal of c is in progress
    Entry(1, 0, {a, b, c}, {a, b}, {}),     \* and complete
    Entry(2, 0, {a, b}, {a, b, c}, {}),     \* the change back is in progress
    Entry(3, 0, {a, b}, {a, b, c}, {c}),    \* and complete
    Entry(4, 0, {a, b, c}, None, {}),
    Entry(4, 1, {a, b, c}, None, {}) >>

Alike == Permutations({a, b})
=============================================================================
