------------------------------- MODULE Subset -------------------------------
(***************************************************************************)
(* Subset (src/src/subset): every validator proposes a value, and all      *)
(* correct nodes agree on which N - f or more of the proposals to accept.  *)
(* The state machine of subset.rs and proposal_state.rs, on top of one     *)
(* Broadcast and one BinaryAgreement per proposer, which are represented   *)
(* by what they promise: Broadcast delivers the same value to all correct  *)
(* nodes or to none, BinaryAgreement gives all the same decision, which    *)
(* some correct validator proposed.                                        *)
(***************************************************************************)
EXTENDS NetworkInfo

CONSTANTS Finished,   \* proposals that everyone has accepted at the start
          None, Late  \* answers to a vote: nothing yet, and too late for it

(* Too few for anyone to have voted against the others. *)
ASSUME FinishedAssumption == Finished \subseteq Validators /\ Cardinality(Finished) < num_correct

ASSUME AnswersAssumption == None \notin BOOLEAN /\ Late \notin BOOLEAN /\ None # Late

VARIABLES node,       \* the Subset instance of each correct node
          proposed,   \* the correct validators that have made a proposal
          delivered,  \* the proposals that some correct node has got
          inputs,     \* proposal -> what correct nodes told its agreement
          decision    \* proposal -> outcome of its agreement, or None

vars == <<node, proposed, delivered, inputs, decision>>

(* ProposalState; for Complete(b) the name says which b. *)
ProposalState == {"Ongoing", "HasValue", "Accepted", "CompleteTrue", "CompleteFalse"}

accepted(state) == state \in {"Accepted", "CompleteTrue"}

completeEarly(state) == state \notin {"Ongoing", "HasValue"}  \* mutant: the value may be missing
complete(state) == state \in {"CompleteTrue", "CompleteFalse"}

(* A node is its proposal_states and decided, and, of its agreements,      *)
(* whether it has proposed; output are the contributions it has output     *)
(* so far, and votes what it proposes in the call that is going on.        *)
Init ==
    /\ node = [n \in Correct |->
                  [states |-> [p \in Validators |-> IF p \in Finished THEN "CompleteTrue" ELSE "Ongoing"],
                   voted |-> Finished, decided |-> FALSE, output |-> Finished, votes |-> {}]]
    /\ proposed = Finished \cap Correct
    /\ delivered = Finished
    /\ inputs = [p \in Validators |-> IF p \in Finished THEN {TRUE} ELSE {}]
    /\ decision = [p \in Validators |-> IF p \in Finished THEN TRUE ELSE None]
-----------------------------------------------------------------------------
(* handle_agreement, the call into BinaryAgreement having output b or None *)
HandleAgreement(s, p, b) ==
    IF b = None \/ s.states[p] \notin {"Ongoing", "HasValue"} THEN s
    ELSE CASE b = FALSE -> [s EXCEPT !.states[p] = "CompleteFalse"]
           [] b = TRUE /\ s.states[p] = "Ongoing" -> [s EXCEPT !.states[p] = "Accepted"]
           [] b = TRUE /\ s.states[p] = "HasValue" ->
                 [s EXCEPT !.states[p] = "CompleteTrue", !.output = @ \cup {p}]

(* Calling propose(v) of p's agreement, which does nothing after the first *)
(* time and when the agreement has got on without us, and may output.      *)
Vote(s, p, v, answer) ==
    IF p \in s.voted \/ s.states[p] \notin {"Ongoing", "HasValue"} THEN s
    ELSE IF answer[p] = Late THEN [s EXCEPT !.voted = @ \cup {p}]
    ELSE HandleAgreement([s EXCEPT !.voted = @ \cup {p}, !.votes = @ \cup {<<p, v>>}], p, answer[p])

(* handle_broadcast, Broadcast having output the value: vote for it, or    *)
(* output it if it is already accepted.                                    *)
HandleBroadcast(s, p, answer) ==
    CASE s.states[p] = "Ongoing"  -> Vote([s EXCEPT !.states[p] = "HasValue"], p, TRUE, answer)
      [] s.states[p] = "Accepted" -> [s EXCEPT !.states[p] = "CompleteTrue", !.output = @ \cup {p}]
      [] OTHER -> s

count_accepted(s) == Cardinality({p \in Validators : accepted(s.states[p])})

(* vote_false for every proposal *)
VoteFalse(s, answer) ==
    LET after == [p \in Validators |-> Vote(s, p, FALSE, answer)]
    IN  [s EXCEPT !.states = [p \in Validators |-> after[p].states[p]],
                  !.voted = UNION {after[p].voted : p \in Validators},
                  !.output = UNION {after[p].output : p \in Validators},
                  !.votes = UNION {after[p].votes : p \in Validators}]

TryOutputLate(s, answer) ==  \* mutant: votes only when more than N - f are accepted
    IF s.decided \/ count_accepted(s) <= num_correct
      THEN s
      ELSE LET t == VoteFalse(s, answer)
           IN  [t EXCEPT !.decided = \A p \in Validators : complete(t.states[p])]
TryOutputHasty(s, answer) ==  \* mutant: votes when the first is accepted
    IF s.decided \/ count_accepted(s) = 0
      THEN s
      ELSE LET t == VoteFalse(s, answer)
           IN  [t EXCEPT !.decided = \A p \in Validators : complete(t.states[p])]

(* try_output: with N - f proposals accepted vote against the others; with *)
(* all of them complete the set is.                                        *)
TryOutput(s, answer) ==
    IF s.decided \/ count_accepted(s) < num_correct
      THEN s
      ELSE LET t == IF count_accepted(s) = num_correct THEN VoteFalse(s, answer) ELSE s
           IN  [t EXCEPT !.decided = \A p \in Validators : complete(t.states[p])]
-----------------------------------------------------------------------------
(* What the agreements may say to the votes that a call casts, when it     *)
(* leaves node n in state s: nothing, that it is too late, or the decision,*)
(* which may come about with this vote.                                    *)
Answers(n) ==
    {[p \in Validators |-> IF p \in node[n].voted THEN None ELSE answer[p]] :
        answer \in [Validators \ node[n].voted -> BOOLEAN \cup {None, Late}]}

Possible(answer, n, s) ==
    \A p \in Validators :
        \/ answer[p] = None
        \/ /\ p \in s.voted
           /\ \/ answer[p] = Late /\ inputs[p] # {}
              \/ /\ answer[p] # Late
                 /\ IF decision[p] # None
                      THEN answer[p] = decision[p]
                      ELSE answer[p] \in inputs[p] \/ (is_validator(n) /\ <<p, answer[p]>> \in s.votes)

(* A call into node n ends in state s. *)
Becomes(n, s, answer) ==
    /\ Possible(answer, n, s)
    /\ node' = [node EXCEPT ![n] = [s EXCEPT !.votes = {}]]
    /\ inputs' = [p \in Validators |->
                     inputs[p] \cup {v \in BOOLEAN : is_validator(n) /\ <<p, v>> \in s.votes}]
    /\ decision' = [p \in Validators |->
                       IF decision[p] = None /\ answer[p] # Late THEN answer[p] ELSE decision[p]]

(* propose: the node's own Broadcast starts. *)
Propose(n) ==
    /\ n \in CorrectValidators \ proposed
    /\ proposed' = proposed \cup {n}
    /\ UNCHANGED <<node, delivered, inputs, decision>>

(* The value of p is on its way: its proposer is correct and has proposed, *)
(* or some correct node has got it; a faulty one may send it any time.     *)
Underway(p) == p \in proposed \/ p \in delivered

(* handle_message, with a message for p's Broadcast that makes it output   *)
ReceiveValue(n, p) ==
    /\ Underway(p) \/ p \in Faulty
    /\ node[n].states[p] \in {"Ongoing", "Accepted"}
    /\ delivered' = delivered \cup {p}
    /\ \E answer \in Answers(n) :
          Becomes(n, TryOutput(HandleBroadcast(node[n], p, answer), answer), answer)
    /\ UNCHANGED proposed

(* Agreement p decides, when a correct validator has proposed that. *)
Decide(p) ==
    /\ decision[p] = None
    /\ \E b \in inputs[p] : decision' = [decision EXCEPT ![p] = b]
    /\ UNCHANGED <<node, proposed, delivered, inputs>>

(* handle_message, with a message for p's agreement that makes it output   *)
ReceiveDecision(n, p) ==
    /\ decision[p] # None
    /\ node[n].states[p] \in {"Ongoing", "HasValue"}
    /\ \E answer \in Answers(n) :
          Becomes(n, TryOutput(HandleAgreement(node[n], p, decision[p]), answer), answer)
    /\ UNCHANGED <<proposed, delivered>>

Next ==
    \/ \E n \in Correct : Propose(n)
    \/ \E p \in Validators : Decide(p)
    \/ \E n \in Correct, p \in Validators : ReceiveValue(n, p) \/ ReceiveDecision(n, p)

Spec == Init /\ [][Next]_vars
-----------------------------------------------------------------------------
(* subset/mod.rs: "all correct nodes output the same set, consisting of at *)
(* least N - f of the proposed elements".                                  *)
SameSet ==
    \A n \in Correct :
        node[n].decided =>
            /\ node[n].output = {p \in Validators : decision[p] = TRUE}
            /\ \A p \in Validators : decision[p] # None
            /\ Cardinality(node[n].output) >= num_correct

(* Done is the last output: no contribution is output after it. *)
DoneIsLast == [][\A n \in Correct : node[n].decided => node'[n].output = node[n].output]_vars

(* Nobody rejects a proposal before N - f others are in the set: the votes *)
(* against one come only then, so that correct proposers are not left out. *)
NoEarlyRejection ==
    \A p \in Validators :
        FALSE \in inputs[p] =>
            Cardinality({q \in Validators : decision[q] = TRUE}) >= num_correct

(* Every correct node is done in the end: it cannot be that all proposals, *)
(* values and decisions that are due have arrived and that it is not.      *)
NoStall ==
    \/ CorrectValidators \ proposed # {}
    \/ \E n \in Correct, p \in Validators :
          \/ Underway(p) /\ node[n].states[p] \in {"Ongoing", "Accepted"}
          \/ decision[p] # None /\ node[n].states[p] \in {"Ongoing", "HasValue"}
    \/ \E p \in Validators : decision[p] = None /\ \A n \in CorrectValidators : p \in node[n].voted
    \/ \A n \in Correct : node[n].decided
=============================================================================
