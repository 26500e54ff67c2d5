---------------------------- MODULE SenderQueue ----------------------------
(***************************************************************************)
(* The sender queue (src/src/sender_queue): a wrapper around Honey Badger  *)
(* and its derivatives that keeps messages back until their addressees can *)
(* handle them.  An epoch is a pair of an era and an epoch in that era.    *)
(*                                                                         *)
(* The wrapped algorithm is represented by what the wrapper sees of it:    *)
(* all nodes output the batches of Timeline in order, entry i being output *)
(* in its era and epoch, by validators that send one HoneyBadger message   *)
(* each and need N - f of them; some may send a KeyGen message, which is   *)
(* good for a whole era.  change is the batch's participant_change().  The *)
(* operators map the state s of node n to the one after the call; what is  *)
(* to be sent is added to s.out.                                           *)
(***************************************************************************)
EXTENDS NetworkInfo, Sequences, SequencesExt

CONSTANTS Timeline, max_future_epochs, None, All

Nodes == Validators \cup Observers

(* An era begins with the epoch after the last one of the era before.      *)
ASSUME TimelineAssumption ==
    /\ max_future_epochs \in Nat
    /\ \A i \in 1 .. Len(Timeline) : Timeline[i].validators \subseteq Nodes /\ Timeline[i].key_gen \subseteq Nodes
    /\ Timeline[1].era = 0 /\ Timeline[1].epoch = 0
    /\ \A i \in 1 .. Len(Timeline) - 1 :
          \/ Timeline[i + 1].era = Timeline[i].era /\ Timeline[i + 1].epoch = Timeline[i].epoch + 1
          \/ Timeline[i + 1].era = Timeline[i].era + Timeline[i].epoch + 1 /\ Timeline[i + 1].epoch = 0

EpochAt(i) == <<Timeline[i].era, Timeline[i].epoch>>

Lt(a, b) == a[1] < b[1] \/ (a[1] = b[1] /\ a[2] < b[2])

Default == <<0, 0>>

Msg(type, epoch) == [type |-> type, era |-> epoch[1], epoch |-> epoch[2]]

(* TargetedMessage; to is a node, or All *)
TargetedMessage(to, m) == [to |-> to, msg |-> m]

(* is_premature, is_obsolete and first_epoch of a message *)
IsPremature(m, them) ==
    \/ m.era > them[1]
    \/ m.type = "HoneyBadger" /\ m.era = them[1] /\ m.epoch > them[2] + max_future_epochs

IsObsolete(m, them) ==
    \/ m.era < them[1]
    \/ m.type = "HoneyBadger" /\ m.era = them[1] /\ m.epoch < them[2]

first_epoch(m) == IF m.type = "HoneyBadger" THEN <<m.era, m.epoch>> ELSE <<m.era, 0>>
-----------------------------------------------------------------------------
(* The wrapped algorithm: the messages that node n sends at entry i, and   *)
(* whether it has those it needs to output the batch.                      *)
Sends(n, i) ==
    {Msg("HoneyBadger", EpochAt(i)) : v \in {n} \cap Timeline[i].validators}
      \cup {Msg("KeyGen", EpochAt(i)) : v \in {n} \cap Timeline[i].key_gen}

CanOutput(s, n, i) ==
    LET validators == Timeline[i].validators
        own == IF s.started \/ i > s.pos THEN {n} ELSE {}
        have == {v \in validators : v \in own \/ <<v, Msg("HoneyBadger", EpochAt(i))>> \in s.received}
    IN  i < Len(Timeline) /\ Cardinality(have) >= Cardinality(validators) - max_faulty(Cardinality(validators))

(* How far it gets.  Messages of an era are of no use before it begins.    *)
Reaches(s, n) ==
    CHOOSE k \in s.pos .. Len(Timeline) :
        ~CanOutput(s, n, k) /\ \A i \in s.pos .. k - 1 : CanOutput(s, n, i)

(* algo.epoch() *)
Epoch(s) == EpochAt(s.pos)
-----------------------------------------------------------------------------
(* SenderQueueBuilder::build, around an algorithm that starts with entry i.*)
(* farewell is update_epoch's send_last_epoch_started.                     *)
New(peers, i) ==
    [pos |-> i, received |-> {}, started |-> FALSE,
     outgoing_queue |-> [p \in Nodes |-> {}],
     peer_epochs |-> [p \in Nodes |-> IF p \in peers THEN Default ELSE None],
     last_epochs |-> [p \in Nodes |-> None],
     participants_after_change |-> {}, is_removed |-> FALSE, farewell |-> FALSE,
     out |-> {TargetedMessage(All, Msg("EpochStarted", EpochAt(i)))}]

IsOldHasty(s, n, p) ==  \* mutant: the peer may still be behind
    s.last_epochs[p] # None /\ Lt(s.last_epochs[p], Epoch(s))

(* remove_participant_if_old: whether it is old ... *)
IsOld(s, n, p) ==
    /\ s.last_epochs[p] # None /\ Lt(s.last_epochs[p], Epoch(s))
    /\ p = n \/ s.peer_epochs[p] = None \/ Lt(s.last_epochs[p], s.peer_epochs[p])

(* ... and the removal of those of ps that are. *)
RemoveIfOld(s, n, ps) ==
    LET old == {p \in ps : IsOld(s, n, p)}
    IN  [s EXCEPT !.is_removed = @ \/ n \in old,
                  !.peer_epochs = [p \in Nodes |-> IF p \in old \ {n} THEN None ELSE @[p]],
                  !.outgoing_queue = [p \in Nodes |-> IF p \in old \ {n} THEN {} ELSE @[p]],
                  !.last_epochs = [p \in Nodes |-> IF p \in old THEN None ELSE @[p]]]

(* update_epoch, for one batch: new participants are peers, whose removal  *)
(* is called off, and participants no more are to leave.                   *)
ChangeParticipants(s, n, i) ==
    LET next == Timeline[i].change
        added == next \ {n}
        gone == s.participants_after_change \ next
        t == [s EXCEPT
                !.peer_epochs = [p \in Nodes |-> IF p \in added /\ @[p] = None THEN Default ELSE @[p]],
                !.last_epochs = [p \in Nodes |->
                    IF p \in gone THEN EpochAt(i)
                    ELSE IF p \in added /\ @[p] # None /\ Lt(@[p], EpochAt(i)) THEN None ELSE @[p]]]
    IN  IF next = None
          THEN s
          ELSE [RemoveIfOld(t, n, gone) EXCEPT !.participants_after_change = next,
                                               !.farewell = @ \/ n \in gone]

(* update_epoch, for the batches before entry s.pos from entry i on        *)
UpdateEpoch(s, n, i) ==
    LET t == FoldLeft(LAMBDA u, j : ChangeParticipants(u, n, j), s, [j \in 1 .. s.pos - i |-> i + j - 1])
        announced == TargetedMessage(All, Msg("EpochStarted", Epoch(s)))
    IN  IF ~t.is_removed \/ t.farewell
          THEN [t EXCEPT !.farewell = FALSE, !.out = @ \cup {announced}]
          ELSE t

DeferNothing(s, n, m) ==  \* mutant
    [s EXCEPT !.out = @ \cup {TargetedMessage(All, m)}]

(* Step::defer_messages for a message to all: all get it if all peers can  *)
(* handle it; else it goes to those that can, and waits for those who are  *)
(* behind.                                                                 *)
Defer(s, n, m) ==
    LET peers == {p \in Nodes : s.peer_epochs[p] # None}
        premature == {p \in peers : IsPremature(m, s.peer_epochs[p])}
        obsolete == {p \in peers : IsObsolete(m, s.peer_epochs[p])}
    IN  IF premature \cup obsolete = {}
          THEN [s EXCEPT !.out = @ \cup {TargetedMessage(All, m)}]
          ELSE [s EXCEPT !.out = @ \cup {TargetedMessage(p, m) : p \in peers \ (premature \cup obsolete)},
                         !.outgoing_queue = [p \in Nodes |-> IF p \in premature THEN @[p] \cup {m} ELSE @[p]]]

(* defer_messages, for all messages of a step *)
DeferMessages(s, n, ms) == FoldLeft(LAMBDA t, m : Defer(t, n, m), s, SetToSeq(ms))

(* apply: the algorithm goes on as far as it can with what is in           *)
(* s.received, and sends the messages of entry i and later ones.           *)
Apply(s, n, i) ==
    LET k == Reaches(s, n)
        ahead == [s EXCEPT !.pos = k, !.started = @ \/ k > s.pos]
        updated == IF k > s.pos THEN UpdateEpoch(ahead, n, s.pos) ELSE ahead
    IN  DeferMessages(updated, n, UNION {Sends(n, j) : j \in i .. k})

ProcessNewEpochLate(s, sender, epoch) ==  \* mutant: messages of the very epoch stay
    LET due == {m \in s.outgoing_queue[sender] : Lt(first_epoch(m), epoch)}
    IN  [s EXCEPT !.outgoing_queue[sender] = @ \ due,
                  !.out = @ \cup {TargetedMessage(sender, m) : m \in {m \in due : ~IsObsolete(m, epoch)}}]

(* process_new_epoch: what was kept for the peer up to this epoch is sent. *)
ProcessNewEpoch(s, sender, epoch) ==
    LET due == {m \in s.outgoing_queue[sender] : ~Lt(epoch, first_epoch(m))}
    IN  [s EXCEPT !.outgoing_queue[sender] = @ \ due,
                  !.out = @ \cup {TargetedMessage(sender, m) : m \in {m \in due : ~IsObsolete(m, epoch)}}]

(* handle_epoch_started *)
HandleEpochStarted(s, n, sender, epoch) ==
    LET t == [s EXCEPT !.peer_epochs[sender] = IF @ = None \/ Lt(@, epoch) THEN epoch ELSE @]
    IN  IF IsOld(t, n, sender) THEN RemoveIfOld(t, n, {sender}) ELSE ProcessNewEpoch(t, sender, epoch)

(* handle_input: the first proposal; the wrapped algorithm makes later     *)
(* ones by itself.                                                         *)
HandleInput(s, n) ==
    IF s.is_removed THEN s ELSE Apply([s EXCEPT !.started = TRUE], n, s.pos)

(* handle_message_content; the algorithm drops what is too early or obsolete *)
HandleMessageContent(s, n, sender, m) ==
    IF IsPremature(m, Epoch(s)) \/ IsObsolete(m, Epoch(s))
      THEN s
      ELSE Apply([s EXCEPT !.received = @ \cup {<<sender, m>>}], n, s.pos + 1)

(* handle_message *)
HandleMessage(s, n, sender, m) ==
    IF s.is_removed THEN s
    ELSE IF m.type = "EpochStarted" THEN HandleEpochStarted(s, n, sender, <<m.era, m.epoch>>)
    ELSE HandleMessageContent(s, n, sender, m)
=============================================================================
