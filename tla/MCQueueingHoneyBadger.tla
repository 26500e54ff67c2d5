----------------------- MODULE MCQueueingHoneyBadger -----------------------
(* Small instances of QueueingHoneyBadger. *)
EXTENDS QueueingHoneyBadger

(* The inputs *)
User(tx) == [type |-> "User", tx |-> tx]
Schedule(s) == [type |-> "Change", change |-> EncryptionSchedule(s)]
Add(v) == [type |-> "Add", id |-> v]
RemoveId(v) == [type |-> "Remove", id |-> v]

Scenario(validators, inputs1, inputs2) ==
    [validators |-> validators,
     inputs |-> [n \in Correct |-> CASE n = 1 -> inputs1 [] n = 2 -> inputs2 [] OTHER -> <<>>]]

(* Node 1 changes its mind; what it votes for in the end, 4 has voted for. *)
Votes == Scenario({1, 2, 3, 4}, <<Schedule("Never"), Schedule("TickTock")>>, <<>>)

(* A sole validator adds another one, which then removes it. *)
AddRemove == Scenario({1}, <<Add(2)>>, <<RemoveId(1)>>)

(* One of two validators is removed, with a transaction in its queue. *)
RemoveOne == Scenario({1, 2}, <<RemoveId(2)>>, <<User("a")>>)

(* The two vote to remove each other, so that one key generation may       *)
(* replace another.                                                        *)
Rivals == Scenario({1, 2}, <<RemoveId(2)>>, <<RemoveId(1)>>)

Changes == {Votes, AddRemove, RemoveOne, Rivals}

Single == {Scenario({1}, <<User("a")>>, <<>>)}

(* The faulty node commits its vote, and one that it says is node 1's. *)
Vote4(voter, num) ==
    [voter |-> voter, change |-> EncryptionSchedule("TickTock"), era |-> 0, num |-> num, genuine |-> voter = 4]

Contribs == {[contrib |-> {}, key_gen_messages |-> {}, votes |-> {Vote4(4, 0), Vote4(1, 5)}]}

UpToEpoch(validators) == IF validators = 4 THEN 3 ELSE 8
=============================================================================
