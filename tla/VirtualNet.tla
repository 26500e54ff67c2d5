----------------------------- MODULE VirtualNet -----------------------------
(***************************************************************************)
(* A network of nodes with sender queues, as the test network runs it      *)
(* (src/hbbft_testing/src/lib.rs): messages in flight are delivered one at *)
(* a time in any order, which is what a ReorderingAdversary makes of the   *)
(* queue.  A node that has removed itself is taken off the network and may *)
(* be restarted when all others know that it is to come back.              *)
(***************************************************************************)
EXTENDS SenderQueue

VARIABLES nodes,          \* the sender queue of each node
          messages,       \* in flight: [from, to, payload]
          removed_nodes   \* the nodes that are not on the network

vars == <<nodes, messages, removed_nodes>>

Online == Nodes \ removed_nodes

NetworkMessage(from, payload, to) == [from |-> from, to |-> to, payload |-> payload]

(* process_step: a broadcast is a message to each other node on the net.   *)
Expanded(n, out) ==
    UNION {{NetworkMessage(n, o.msg, p) : p \in (IF o.to = All THEN Online ELSE {o.to}) \ {n}} : o \in out}

(* VirtualNet::new; the first step of each node is its EpochStarted, which *)
(* tells the others nothing new, and has been delivered to them.           *)
Init ==
    /\ removed_nodes = {}
    /\ nodes = [n \in Nodes |-> [New(Nodes \ {n}, 1) EXCEPT !.out = {}]]
    /\ messages = {}

(* A call into node n leads to state s; inflight is what is not delivered. *)
Becomes(n, s, inflight) ==
    /\ nodes' = [nodes EXCEPT ![n] = [s EXCEPT !.out = {}]]
    /\ messages' = inflight \cup Expanded(n, s.out)

(* send_input, to a validator at the start *)
SendInput(n) ==
    /\ n \in Timeline[1].validators /\ nodes[n].pos = 1 /\ ~nodes[n].started
    /\ Becomes(n, HandleInput(nodes[n], n), messages)
    /\ UNCHANGED removed_nodes

(* dispatch_message *)
Dispatch(m) == HandleMessage(nodes[m.to], m.to, m.from, m.payload)

(* crank: swap_random and then pop_front, that is, any message, which goes *)
(* to its addressee or, if that is not on the network, nowhere.            *)
Crank(m) ==
    /\ IF m.to \in removed_nodes
         THEN messages' = messages \ {m} /\ UNCHANGED nodes
         ELSE Becomes(m.to, Dispatch(m), messages \ {m})
    /\ UNCHANGED removed_nodes

(* remove_node, with the messages on their way to it *)
RemoveNode(n) ==
    /\ n \in Online /\ nodes[n].is_removed
    /\ removed_nodes' = removed_nodes \cup {n}
    /\ messages' = {m \in messages : m.to # n}
    /\ UNCHANGED nodes

(* Those who take part at entry i, as the batches before it say. *)
Participants(i) ==
    LET changes == {j \in 1 .. i - 1 : Timeline[j].change # None}
    IN  IF changes = {} THEN Nodes
        ELSE Timeline[CHOOSE j \in changes : \A k \in changes : k <= j].change

(* insert_node *)
InsertNode(n) == removed_nodes' = removed_nodes \ {n}

(* SenderQueue::restart and insert_node, as the tests call them: batch i   *)
(* is to make n a participant again, every node on the network has output  *)
(* it and none has gone on, and n starts after it.  What the algorithm     *)
(* sends as it joins is not deferred.                                      *)
Restart(n, i) ==
    LET s == New(Online, i + 1)
    IN  /\ n \in removed_nodes
        /\ n \in Participants(i + 1) \ Participants(i)
        /\ \A p \in Online : nodes[p].pos = i + 1
        /\ InsertNode(n)
        /\ Becomes(n, [s EXCEPT !.started = TRUE,
                                !.out = @ \cup {TargetedMessage(All, m) : m \in Sends(n, i + 1)}],
                   messages)

Next ==
    \/ \E n \in Nodes : SendInput(n) \/ RemoveNode(n)
    \/ \E n \in Nodes, i \in 1 .. Len(Timeline) - 1 : Restart(n, i)
    \/ \E m \in messages : Crank(m)

Spec == Init /\ [][Next]_vars
-----------------------------------------------------------------------------
(* sender_queue/mod.rs: nodes "can handle incoming messages without        *)
(* queueing them": no message is on its way to a node that is not yet able *)
(* to handle it, whatever is known of that node's epoch.                   *)
NeverPremature ==
    \A m \in messages :
        m.payload.type # "EpochStarted" /\ m.to \in Online => ~IsPremature(m.payload, Epoch(nodes[m.to]))

(* sender_queue/mod.rs, on participant_change: "making sure that all       *)
(* messages those participants are entitled to are delivered to them".     *)
(* A message for an epoch in which a peer takes part, sent by a node that  *)
(* is still there, waits for it, is in flight or has arrived, unless it is *)
(* too late for it anyway.                                                 *)
NothingLost ==
    \A n \in Online, p \in Nodes :
        p # n /\ ~nodes[n].is_removed =>
            \A i \in 1 .. nodes[n].pos :
                p \in Participants(i) /\ (i < nodes[n].pos \/ nodes[n].started) =>
                    \A m \in Sends(n, i) :
                        \/ m \in nodes[n].outgoing_queue[p]
                        \/ NetworkMessage(n, m, p) \in messages
                        \/ <<n, m>> \in nodes[p].received
                        \/ IsObsolete(m, Epoch(nodes[p])) \/ nodes[p].is_removed

(* Everything is delivered, and all nodes that are to come back are.       *)
Quiet ==
    /\ messages = {}
    /\ \A n \in Timeline[1].validators : nodes[n].started
    /\ \A n \in Nodes : nodes[n].is_removed => n \in removed_nodes \ Participants(Len(Timeline))

Done(n) == nodes[n].is_removed \/ nodes[n].pos = Len(Timeline)

(* sender_queue/mod.rs: "the messages sent to remote instances lead to     *)
(* progress of the entire consensus network": when it is quiet, all nodes  *)
(* have output all batches they take part in.  The only messages that can  *)
(* be missing are those that a node held back when it removed itself:      *)
(* without them some node cannot go on, and others that need that one in   *)
(* turn.                                                                   *)
ProgressButForTheRemoved ==
    Quiet => \/ \A n \in Nodes : Done(n)
             \/ \E p, n \in Nodes : nodes[p].is_removed /\ ~Done(n) /\ nodes[p].outgoing_queue[n] # {}
=============================================================================
