---------------------------- MODULE SubsetProof ----------------------------
(***************************************************************************)
(* Subset for any number of nodes, at most f of the N validators being     *)
(* faulty, on top of agreements that keep their promises.                  *)
(***************************************************************************)
EXTENDS Subset, NetworkInfoProof

NodeState ==
    [states : [Validators -> ProposalState], voted : SUBSET Validators, decided : BOOLEAN,
     output : SUBSET Validators, votes : SUBSET (Validators \X BOOLEAN)]

Answer == BOOLEAN \cup {None, Late}

active(state) == state \in {"Ongoing", "HasValue"}

(* How the state x of a proposal may become y when its agreement says b. *)
Moves(x, y, b) ==
    \/ y = x
    \/ active(x) /\ b = FALSE /\ y = "CompleteFalse"
    \/ x = "Ongoing" /\ b = TRUE /\ y = "Accepted"
    \/ x = "HasValue" /\ b = TRUE /\ y = "CompleteTrue"

(* What is output is what a proposal's last step makes CompleteTrue. *)
OutputIs(s) == \A p \in Validators : p \in s.output <=> s.states[p] = "CompleteTrue"

(* The last step of a proposal in the set *)
Completed(s, p) == [s EXCEPT !.states[p] = "CompleteTrue", !.output = @ \cup {p}]

LEMMA CompletedFacts ==
    ASSUME NEW s \in NodeState, NEW p \in Validators
    PROVE  LET t == Completed(s, p)
           IN  /\ t \in NodeState /\ t.states = [s.states EXCEPT ![p] = "CompleteTrue"] /\ t.output = s.output \cup {p}
               /\ t.voted = s.voted /\ t.votes = s.votes /\ t.decided = s.decided
<1>1. s.output \cup {p} \in SUBSET Validators
  BY DEF NodeState
<1> QED
  BY <1>1 DEF NodeState, ProposalState, Completed

(* The answer to a vote on p changes no other proposal. *)
Answered(s, t, p, b) ==
    /\ t \in NodeState /\ t.voted = s.voted /\ t.votes = s.votes /\ t.decided = s.decided
    /\ s.output \subseteq t.output
    /\ \A q \in Validators : q # p => t.states[q] = s.states[q] /\ (q \in t.output <=> q \in s.output)
    /\ Moves(s.states[p], t.states[p], b)
    /\ active(s.states[p]) /\ b \in BOOLEAN => ~active(t.states[p])
    /\ (p \in s.output <=> s.states[p] = "CompleteTrue") => (p \in t.output <=> t.states[p] = "CompleteTrue")

LEMMA HandleAgreementFacts ==
    ASSUME NEW s \in NodeState, NEW p \in Validators, NEW b \in BOOLEAN \cup {None}
    PROVE  Answered(s, HandleAgreement(s, p, b), p, b)
<1> DEFINE t == HandleAgreement(s, p, b)
<1>0. s.states[p] \in ProposalState /\ s.states \in [Validators -> ProposalState] /\ s.output \in SUBSET Validators
  BY DEF NodeState
<1>1. CASE b = None \/ ~active(s.states[p])
  <2>1. t = s
    BY <1>1 DEF HandleAgreement, active
  <2> HIDE DEF t
  <2>2. ~(active(s.states[p]) /\ b \in BOOLEAN)
    BY <1>1, AnswersAssumption
  <2> QED
    BY <2>1, <2>2 DEF Answered, Moves, t
<1>2. CASE b = FALSE /\ active(s.states[p])
  <2>1. t = [s EXCEPT !.states[p] = "CompleteFalse"]
    BY <1>2, AnswersAssumption DEF HandleAgreement, active
  <2>2. t \in NodeState /\ t.states = [s.states EXCEPT ![p] = "CompleteFalse"] /\ t.output = s.output
        /\ t.voted = s.voted /\ t.votes = s.votes /\ t.decided = s.decided
    BY <2>1 DEF NodeState, ProposalState
  <2> HIDE DEF t
  <2>3. t.states[p] = "CompleteFalse" /\ \A q \in Validators : q # p => t.states[q] = s.states[q]
    BY <1>0, <2>2
  <2> QED
    BY <1>2, <2>2, <2>3 DEF Answered, Moves, active, t
<1>3. CASE b = TRUE /\ s.states[p] = "Ongoing"
  <2>1. t = [s EXCEPT !.states[p] = "Accepted"]
    BY <1>3, AnswersAssumption DEF HandleAgreement
  <2>2. t \in NodeState /\ t.states = [s.states EXCEPT ![p] = "Accepted"] /\ t.output = s.output
        /\ t.voted = s.voted /\ t.votes = s.votes /\ t.decided = s.decided
    BY <2>1 DEF NodeState, ProposalState
  <2> HIDE DEF t
  <2>3. t.states[p] = "Accepted" /\ \A q \in Validators : q # p => t.states[q] = s.states[q]
    BY <1>0, <2>2
  <2> QED
    BY <1>3, <2>2, <2>3 DEF Answered, Moves, active, t
<1>4. CASE b = TRUE /\ s.states[p] = "HasValue"
  <2>1. t = Completed(s, p)
    BY <1>4, AnswersAssumption DEF HandleAgreement, Completed
  <2>2. t \in NodeState /\ t.states = [s.states EXCEPT ![p] = "CompleteTrue"] /\ t.output = s.output \cup {p}
        /\ t.voted = s.voted /\ t.votes = s.votes /\ t.decided = s.decided
    BY <2>1, CompletedFacts
  <2> HIDE DEF t
  <2>3. t.states[p] = "CompleteTrue" /\ \A q \in Validators : q # p => t.states[q] = s.states[q]
    BY <1>0, <2>2
  <2> QED
    BY <1>4, <2>2, <2>3 DEF Answered, Moves, active, t
<1> QED
  BY <1>1, <1>2, <1>3, <1>4 DEF active

(* A vote v on p, answered b *)
VotedOn(s, t, p, v, b) ==
    /\ t \in NodeState /\ t.decided = s.decided /\ s.output \subseteq t.output
    /\ \A q \in Validators : q # p => t.states[q] = s.states[q] /\ (q \in t.output <=> q \in s.output)
    /\ Moves(s.states[p], t.states[p], b)
    /\ (p \in s.output <=> s.states[p] = "CompleteTrue") => (p \in t.output <=> t.states[p] = "CompleteTrue")
    /\ s.voted \subseteq t.voted /\ t.voted \subseteq s.voted \cup {p} /\ (active(t.states[p]) => p \in t.voted)
    /\ s.votes \subseteq t.votes /\ t.votes \subseteq s.votes \cup {<<p, v>>}

LEMMA VoteFacts ==
    ASSUME NEW s \in NodeState, NEW p \in Validators, NEW v \in BOOLEAN, NEW answer \in [Validators -> Answer]
    PROVE  VotedOn(s, Vote(s, p, v, answer), p, v, answer[p])
<1> DEFINE t == Vote(s, p, v, answer)
<1>1. CASE p \in s.voted \/ ~active(s.states[p])
  <2>1. t = s
    BY <1>1 DEF Vote, active
  <2> HIDE DEF t
  <2> QED
    BY <1>1, <2>1 DEF VotedOn, Moves, t
<1>2. CASE p \notin s.voted /\ active(s.states[p]) /\ answer[p] = Late
  <2>1. t = [s EXCEPT !.voted = @ \cup {p}]
    BY <1>2 DEF Vote, active
  <2>2. /\ t \in NodeState /\ t.decided = s.decided /\ t.states = s.states /\ t.output = s.output
        /\ t.votes = s.votes /\ t.voted = s.voted \cup {p}
    BY <2>1 DEF NodeState
  <2> HIDE DEF t
  <2> QED
    BY <2>2 DEF VotedOn, Moves, t
<1>3. CASE p \notin s.voted /\ active(s.states[p]) /\ answer[p] # Late
  <2> DEFINE u == [s EXCEPT !.voted = @ \cup {p}, !.votes = @ \cup {<<p, v>>}]
  <2>1. t = HandleAgreement(u, p, answer[p])
    BY <1>3 DEF Vote, active
  <2>2. /\ u \in NodeState /\ u.decided = s.decided /\ u.states = s.states /\ u.output = s.output
        /\ u.voted = s.voted \cup {p} /\ u.votes = s.votes \cup {<<p, v>>}
    <3>1. s.voted \cup {p} \in SUBSET Validators /\ s.votes \cup {<<p, v>>} \in SUBSET (Validators \X BOOLEAN)
      BY DEF NodeState
    <3> QED
      BY <3>1 DEF NodeState
  <2> HIDE DEF t, u
  <2>3. answer[p] \in BOOLEAN \cup {None}
    BY <1>3 DEF Answer
  <2>4. Answered(u, t, p, answer[p])
    BY <2>1, <2>2, <2>3, HandleAgreementFacts
  <2> QED
    BY <2>2, <2>4 DEF Answered, VotedOn, t
<1> QED
  BY <1>1, <1>2, <1>3

(* vote_false: a vote on every proposal *)
VotedAgainst(s, t, answer) ==
    /\ t \in NodeState /\ t.decided = s.decided
    /\ \A p \in Validators :
          /\ Moves(s.states[p], t.states[p], answer[p])
          /\ (p \in s.output <=> s.states[p] = "CompleteTrue") => (p \in t.output <=> t.states[p] = "CompleteTrue")
          /\ active(t.states[p]) => p \in t.voted
    /\ s.voted \subseteq t.voted
    /\ \A p \in Validators : <<p, TRUE>> \in t.votes => <<p, TRUE>> \in s.votes

LEMMA VoteFalseFacts ==
    ASSUME NEW s \in NodeState, NEW answer \in [Validators -> Answer]
    PROVE  VotedAgainst(s, VoteFalse(s, answer), answer)
<1> DEFINE after == [p \in Validators |-> Vote(s, p, FALSE, answer)]
           states == [p \in Validators |-> after[p].states[p]]
           voted == UNION {after[p].voted : p \in Validators}
           output == UNION {after[p].output : p \in Validators}
           votes == UNION {after[p].votes : p \in Validators}
           t == VoteFalse(s, answer)
<1>1. \A p \in Validators : VotedOn(s, after[p], p, FALSE, answer[p])
  BY VoteFacts
<1>2. t = [s EXCEPT !.states = states, !.voted = voted, !.output = output, !.votes = votes]
  BY DEF VoteFalse
<1> HIDE DEF after
<1>3. \A p \in Validators : after[p] \in NodeState
  BY <1>1 DEF VotedOn
<1>4. states \in [Validators -> ProposalState] /\ voted \in SUBSET Validators /\ output \in SUBSET Validators
      /\ votes \in SUBSET (Validators \X BOOLEAN)
  BY <1>3 DEF NodeState
<1>5. \A p \in Validators : states[p] = after[p].states[p]
  OBVIOUS
<1>6. \A p \in Validators : p \in output <=> p \in after[p].output
  <2> TAKE p \in Validators
  <2>1. ASSUME NEW q \in Validators, p \in after[q].output PROVE p \in after[p].output
    <3>1. CASE q # p
      <4>1. p \in s.output
        BY <1>1, <2>1, <3>1 DEF VotedOn
      <4> QED
        BY <1>1, <4>1 DEF VotedOn
    <3> QED
      BY <2>1, <3>1
  <2> QED
    BY <2>1
<1>7. \A p \in Validators : p \in after[p].voted => p \in voted
  OBVIOUS
<1>8. s.voted \subseteq voted
  <2>1. PICK p \in Validators : TRUE
    BY NodesAssumption
  <2>2. s.voted \subseteq after[p].voted
    BY <1>1 DEF VotedOn
  <2> QED
    BY <2>2
<1>9. \A p \in Validators : <<p, TRUE>> \in votes => <<p, TRUE>> \in s.votes
  <2> SUFFICES ASSUME NEW p \in Validators, NEW q \in Validators, <<p, TRUE>> \in after[q].votes
               PROVE  <<p, TRUE>> \in s.votes
    OBVIOUS
  <2>1. <<p, TRUE>> \in s.votes \cup {<<q, FALSE>>}
    BY <1>1 DEF VotedOn
  <2> QED
    BY <2>1
<1> HIDE DEF states, voted, output, votes
<1>10. /\ t \in NodeState /\ t.decided = s.decided /\ t.states = states /\ t.voted = voted /\ t.output = output
       /\ t.votes = votes
  BY <1>2, <1>4 DEF NodeState
<1> HIDE DEF t
<1>11. ASSUME NEW p \in Validators
       PROVE  /\ Moves(s.states[p], t.states[p], answer[p])
              /\ (p \in s.output <=> s.states[p] = "CompleteTrue") => (p \in t.output <=> t.states[p] = "CompleteTrue")
              /\ active(t.states[p]) => p \in t.voted
  BY <1>1, <1>5, <1>6, <1>7, <1>10 DEF VotedOn
<1> QED
  BY <1>8, <1>9, <1>10, <1>11 DEF VotedAgainst, t
-----------------------------------------------------------------------------
(* The invariant of a node's state, D being the agreements' decisions *)

AcceptedSet(s) == {p \in Validators : accepted(s.states[p])}

Enough(s) == Cardinality(AcceptedSet(s)) >= num_correct

AllVoted(s) == \A p \in Validators : active(s.states[p]) => p \in s.voted

AllComplete(s) == \A p \in Validators : complete(s.states[p])

(* A node believes what was decided. *)
Truthful(s, D) ==
    \A p \in Validators :
        /\ accepted(s.states[p]) => D[p] = TRUE
        /\ s.states[p] = "CompleteFalse" => D[p] = FALSE

(* In the middle of a call: who has got the value has voted. *)
CallInv(s, D) ==
    /\ s \in NodeState /\ OutputIs(s) /\ Truthful(s, D)
    /\ \A p \in Validators : s.states[p] = "HasValue" => p \in s.voted

(* At the end of it, try_output having been called: N - f accepted         *)
(* proposals do not go unnoticed, nor does that all are complete.          *)
Settled(s) ==
    /\ Enough(s) => AllVoted(s)
    /\ s.decided = TRUE => Enough(s) /\ AllComplete(s)
    /\ Enough(s) /\ AllComplete(s) => s.decided = TRUE

RightAnswers(answer, D) ==
    /\ answer \in [Validators -> Answer]
    /\ \A p \in Validators : answer[p] \in BOOLEAN => D[p] = answer[p]

LEMMA AcceptedCount ==
    ASSUME NEW s, NEW t, AcceptedSet(s) \subseteq AcceptedSet(t)
    PROVE  /\ Cardinality(AcceptedSet(s)) \in Nat /\ Cardinality(AcceptedSet(t)) \in Nat
           /\ Cardinality(AcceptedSet(s)) <= Cardinality(AcceptedSet(t))
           /\ Enough(s) => Enough(t)
<1>1. AcceptedSet(s) \in SUBSET Validators /\ AcceptedSet(t) \in SUBSET Validators
  BY DEF AcceptedSet
<1>2. /\ Cardinality(AcceptedSet(s)) \in Nat /\ Cardinality(AcceptedSet(t)) \in Nat
      /\ Cardinality(AcceptedSet(s)) <= Cardinality(AcceptedSet(t))
  BY <1>1, Counting
<1> QED
  BY <1>2, Thresholds DEF Enough

LEMMA VoteFalseInv ==
    ASSUME NEW s, NEW D, NEW answer, CallInv(s, D), RightAnswers(answer, D)
    PROVE  LET t == VoteFalse(s, answer)
           IN  /\ CallInv(t, D) /\ AllVoted(t) /\ AcceptedSet(s) \subseteq AcceptedSet(t) /\ t.decided = s.decided
               /\ \A p \in Validators : <<p, TRUE>> \in t.votes => <<p, TRUE>> \in s.votes
<1> DEFINE t == VoteFalse(s, answer)
<1>1. VotedAgainst(s, t, answer)
  BY VoteFalseFacts DEF CallInv, RightAnswers
<1> HIDE DEF t
<1>2. \A p \in Validators :
         /\ accepted(t.states[p]) => D[p] = TRUE
         /\ t.states[p] = "CompleteFalse" => D[p] = FALSE
         /\ accepted(s.states[p]) => accepted(t.states[p])
  <2> TAKE p \in Validators
  <2>1. /\ Moves(s.states[p], t.states[p], answer[p]) /\ (answer[p] \in BOOLEAN => D[p] = answer[p])
        /\ (accepted(s.states[p]) => D[p] = TRUE) /\ (s.states[p] = "CompleteFalse" => D[p] = FALSE)
    BY <1>1 DEF VotedAgainst, RightAnswers, CallInv, Truthful
  <2> QED
    BY <2>1 DEF Moves, accepted, active
<1>3. Truthful(t, D) /\ AcceptedSet(s) \subseteq AcceptedSet(t)
  BY <1>2 DEF Truthful, AcceptedSet
<1>4. AllVoted(t)
  BY <1>1 DEF VotedAgainst, AllVoted
<1>5. OutputIs(t)
  BY <1>1 DEF VotedAgainst, OutputIs, CallInv
<1>6. \A p \in Validators : t.states[p] = "HasValue" => p \in t.voted
  BY <1>1 DEF VotedAgainst, active
<1>7. t \in NodeState /\ t.decided = s.decided /\ \A p \in Validators : <<p, TRUE>> \in t.votes => <<p, TRUE>> \in s.votes
  BY <1>1 DEF VotedAgainst
<1> QED
  BY <1>3, <1>4, <1>5, <1>6, <1>7 DEF CallInv, t

(* try_output *)
TriedOutput(s, t, D) ==
    /\ CallInv(t, D) /\ Settled(t)
    /\ \A p \in Validators : <<p, TRUE>> \in t.votes => <<p, TRUE>> \in s.votes
    /\ Enough(t) \/ t.votes = s.votes

LEMMA TryOutputInv ==
    ASSUME NEW s, NEW D, NEW answer, CallInv(s, D), RightAnswers(answer, D), s.decided = FALSE,
           Cardinality(AcceptedSet(s)) <= num_correct \/ AllVoted(s)
    PROVE  TriedOutput(s, TryOutput(s, answer), D)
<1> DEFINE t == TryOutput(s, answer)
           u == IF count_accepted(s) = num_correct THEN VoteFalse(s, answer) ELSE s
           count == Cardinality(AcceptedSet(s))
<1>0. count_accepted(s) = count
  BY DEF count_accepted, AcceptedSet
<1>1. count \in Nat /\ num_correct \in Int
  BY AcceptedCount, Thresholds
<1>2. CASE count < num_correct
  <2>1. t = s
    BY <1>0, <1>2 DEF TryOutput
  <2>2. ~Enough(s)
    BY <1>1, <1>2 DEF Enough
  <2>3. Settled(s)
    BY <2>2 DEF Settled
  <2> HIDE DEF t
  <2> QED
    BY <2>1, <2>3 DEF TriedOutput, t
<1>3. CASE ~(count < num_correct)
  <2>1. t = [u EXCEPT !.decided = AllComplete(u)]
    BY <1>0, <1>3 DEF TryOutput, AllComplete
  <2>2. Enough(s)
    BY <1>1, <1>3 DEF Enough
  <2>3. /\ CallInv(u, D) /\ AllVoted(u) /\ Enough(u)
        /\ \A p \in Validators : <<p, TRUE>> \in u.votes => <<p, TRUE>> \in s.votes
    <3>1. CASE count = num_correct
      <4>1. u = VoteFalse(s, answer)
        BY <1>0, <3>1
      <4> HIDE DEF u
      <4>2. /\ CallInv(u, D) /\ AllVoted(u) /\ AcceptedSet(s) \subseteq AcceptedSet(u)
            /\ \A p \in Validators : <<p, TRUE>> \in u.votes => <<p, TRUE>> \in s.votes
        BY <4>1, VoteFalseInv
      <4> QED
        BY <2>2, <4>2, AcceptedCount
    <3>2. CASE count # num_correct
      <4>1. u = s
        BY <1>0, <3>2
      <4>2. AllVoted(s)
        BY <1>1, <1>3, <3>2
      <4> HIDE DEF u
      <4> QED
        BY <2>2, <4>1, <4>2
    <3> QED
      BY <3>1, <3>2
  <2> HIDE DEF u
  <2>4. u \in NodeState
    BY <2>3 DEF CallInv
  <2>5. AllComplete(u) \in BOOLEAN
    BY DEF AllComplete
  <2>6. /\ t \in NodeState /\ t.states = u.states /\ t.voted = u.voted /\ t.output = u.output /\ t.votes = u.votes
        /\ t.decided = AllComplete(u)
    BY <2>1, <2>4, <2>5 DEF NodeState
  <2> HIDE DEF t
  <2>7. CallInv(t, D)
    BY <2>3, <2>6 DEF CallInv, OutputIs, Truthful
  <2>8. /\ Enough(t) <=> Enough(u)
        /\ AllVoted(t) <=> AllVoted(u)
        /\ AllComplete(t) <=> AllComplete(u)
    BY <2>6 DEF Enough, AcceptedSet, AllVoted, AllComplete
  <2>9. Settled(t)
    <3>1. CASE AllComplete(u)
      BY <2>3, <2>6, <2>8, <3>1 DEF Settled
    <3>2. CASE ~AllComplete(u)
      BY <2>3, <2>6, <2>8, <3>2 DEF Settled
    <3> QED
      BY <3>1, <3>2
  <2> QED
    BY <2>3, <2>6, <2>7, <2>8, <2>9 DEF TriedOutput, t
<1> QED
  BY <1>2, <1>3

(* A handler's effect on proposal p, before try_output *)
Handled(s, t, p, D) ==
    /\ CallInv(t, D) /\ t.decided = s.decided
    /\ AcceptedSet(t) \subseteq AcceptedSet(s) \cup {p}
    /\ AllVoted(s) => AllVoted(t)

LEMMA HandleBroadcastInv ==
    ASSUME NEW s, NEW D, NEW answer, CallInv(s, D), RightAnswers(answer, D), s.votes = {},
           NEW p \in Validators, s.states[p] \in {"Ongoing", "Accepted"}
    PROVE  LET t == HandleBroadcast(s, p, answer)
           IN  Handled(s, t, p, D) /\ t.votes \subseteq {<<p, TRUE>>}
<1> DEFINE t == HandleBroadcast(s, p, answer)
<1>0. s \in NodeState /\ OutputIs(s) /\ Truthful(s, D) /\ s.states \in [Validators -> ProposalState]
  BY DEF CallInv, NodeState
<1>1. CASE s.states[p] = "Ongoing"
  <2> DEFINE u == [s EXCEPT !.states[p] = "HasValue"]
  <2>1. t = Vote(u, p, TRUE, answer)
    BY <1>1 DEF HandleBroadcast
  <2>2. /\ u \in NodeState /\ u.states = [s.states EXCEPT ![p] = "HasValue"] /\ u.output = s.output
        /\ u.voted = s.voted /\ u.votes = s.votes /\ u.decided = s.decided
    BY <1>0 DEF NodeState, ProposalState
  <2> HIDE DEF t, u
  <2>3. u.states[p] = "HasValue" /\ \A q \in Validators : q # p => u.states[q] = s.states[q]
    BY <1>0, <2>2
  <2>4. VotedOn(u, t, p, TRUE, answer[p])
    BY <2>1, <2>2, VoteFacts DEF RightAnswers
  <2>5. \A q \in Validators : q # p => t.states[q] = s.states[q] /\ (q \in t.output <=> q \in s.output)
    BY <2>2, <2>3, <2>4 DEF VotedOn
  <2>6. /\ Moves("HasValue", t.states[p], answer[p]) /\ (answer[p] \in BOOLEAN => D[p] = answer[p])
    BY <2>3, <2>4 DEF VotedOn, RightAnswers
  <2>7. /\ accepted(t.states[p]) => D[p] = TRUE
        /\ t.states[p] = "CompleteFalse" => D[p] = FALSE
    BY <2>6 DEF Moves, accepted, active
  <2>8. p \in t.output <=> t.states[p] = "CompleteTrue"
    <3>1. p \notin u.output
      BY <1>0, <1>1, <2>2 DEF OutputIs
    <3> QED
      BY <2>3, <2>4, <3>1 DEF VotedOn
  <2>9. s.voted \subseteq t.voted /\ (active(t.states[p]) => p \in t.voted) /\ t.votes \subseteq {<<p, TRUE>>}
        /\ t.decided = s.decided /\ t \in NodeState
    BY <2>2, <2>4 DEF VotedOn
  <2>10. OutputIs(t) /\ Truthful(t, D)
    BY <1>0, <2>5, <2>7, <2>8 DEF OutputIs, Truthful
  <2>11. \A q \in Validators : t.states[q] = "HasValue" => q \in t.voted
    <3>1. \A q \in Validators : s.states[q] = "HasValue" => q \in s.voted
      BY DEF CallInv
    <3> QED
      BY <2>5, <2>9, <3>1 DEF active
  <2>12. AcceptedSet(t) \subseteq AcceptedSet(s) \cup {p}
    BY <2>5 DEF AcceptedSet
  <2>13. AllVoted(s) => AllVoted(t)
    BY <2>5, <2>9 DEF AllVoted
  <2> QED
    BY <2>9, <2>10, <2>11, <2>12, <2>13 DEF Handled, CallInv, t
<1>2. CASE s.states[p] = "Accepted"
  <2>1. t = Completed(s, p)
    BY <1>2 DEF HandleBroadcast, Completed
  <2>2. /\ t \in NodeState /\ t.states = [s.states EXCEPT ![p] = "CompleteTrue"] /\ t.output = s.output \cup {p}
        /\ t.voted = s.voted /\ t.votes = s.votes /\ t.decided = s.decided
    BY <1>0, <2>1, CompletedFacts
  <2> HIDE DEF t
  <2>3. t.states[p] = "CompleteTrue" /\ \A q \in Validators : q # p => t.states[q] = s.states[q]
    BY <1>0, <2>2
  <2>4. D[p] = TRUE
    BY <1>0, <1>2 DEF Truthful, accepted
  <2>5. OutputIs(t) /\ Truthful(t, D)
    BY <1>0, <2>2, <2>3, <2>4 DEF OutputIs, Truthful
  <2>6. \A q \in Validators : t.states[q] = "HasValue" => q \in t.voted
    BY <2>2, <2>3 DEF CallInv
  <2>7. AcceptedSet(t) \subseteq AcceptedSet(s) \cup {p}
    BY <2>3 DEF AcceptedSet
  <2>8. AllVoted(s) => AllVoted(t)
    BY <2>2, <2>3 DEF AllVoted, active
  <2> QED
    BY <2>2, <2>5, <2>6, <2>7, <2>8 DEF Handled, CallInv, t
<1> QED
  BY <1>1, <1>2

LEMMA HandleAgreementInv ==
    ASSUME NEW s, NEW D, CallInv(s, D), NEW p \in Validators, D[p] \in BOOLEAN
    PROVE  LET t == HandleAgreement(s, p, D[p])
           IN  Handled(s, t, p, D) /\ t.votes = s.votes
<1> DEFINE t == HandleAgreement(s, p, D[p])
<1>0. s \in NodeState /\ OutputIs(s) /\ Truthful(s, D)
  BY DEF CallInv
<1>1. Answered(s, t, p, D[p])
  <2>1. D[p] \in BOOLEAN \cup {None}
    OBVIOUS
  <2> QED
    BY <1>0, <2>1, HandleAgreementFacts
<1> HIDE DEF t
<1>2. /\ t \in NodeState /\ t.voted = s.voted /\ t.votes = s.votes /\ t.decided = s.decided
      /\ \A q \in Validators : q # p => t.states[q] = s.states[q] /\ (q \in t.output <=> q \in s.output)
      /\ Moves(s.states[p], t.states[p], D[p])
  BY <1>1 DEF Answered
<1>3. OutputIs(t)
  <2>1. p \in t.output <=> t.states[p] = "CompleteTrue"
    BY <1>0, <1>1 DEF Answered, OutputIs
  <2> QED
    BY <1>0, <1>2, <2>1 DEF OutputIs
<1>4. /\ accepted(t.states[p]) => D[p] = TRUE
      /\ t.states[p] = "CompleteFalse" => D[p] = FALSE
      /\ t.states[p] = "HasValue" => s.states[p] = "HasValue"
  BY <1>0, <1>2 DEF Truthful, Moves, accepted, active
<1>5. Truthful(t, D)
  BY <1>0, <1>2, <1>4 DEF Truthful
<1>6. \A q \in Validators : t.states[q] = "HasValue" => q \in t.voted
  BY <1>2, <1>4 DEF CallInv
<1>7. AcceptedSet(t) \subseteq AcceptedSet(s) \cup {p}
  BY <1>2 DEF AcceptedSet
<1>8. AllVoted(s) => AllVoted(t)
  BY <1>2 DEF AllVoted, Moves, active
<1> QED
  BY <1>2, <1>3, <1>5, <1>6, <1>7, <1>8 DEF Handled, CallInv, t

(* A whole call, which only comes about as long as p is not complete *)
LEMMA CallFacts ==
    ASSUME NEW s, NEW t, NEW D, NEW answer, NEW p \in Validators, RightAnswers(answer, D),
           CallInv(s, D), Settled(s), ~complete(s.states[p]), Handled(s, t, p, D)
    PROVE  TriedOutput(t, TryOutput(t, answer), D)
<1>1. s.decided = FALSE
  BY DEF CallInv, NodeState, Settled, AllComplete
<1>2. Cardinality(AcceptedSet(t)) <= num_correct \/ AllVoted(t)
  <2>1. CASE Enough(s)
    BY <2>1 DEF Settled, Handled
  <2>2. CASE ~Enough(s)
    <3> DEFINE S == AcceptedSet(s)
               T == AcceptedSet(t)
    <3>1. S \in SUBSET Validators /\ T \in SUBSET Validators /\ S \cup {p} \in SUBSET Validators /\ T \subseteq S \cup {p}
      BY DEF AcceptedSet, Handled
    <3> HIDE DEF S, T
    <3>2. /\ Cardinality(S) \in Nat /\ Cardinality(T) \in Nat /\ IsFiniteSet(S)
          /\ Cardinality(T) <= Cardinality(S \cup {p})
      BY <3>1, Counting
    <3>3. Cardinality(S \cup {p}) = IF p \in S THEN Cardinality(S) ELSE Cardinality(S) + 1
      BY <3>2, FS_AddElement
    <3>4. Cardinality(S) < num_correct
      BY <2>2, <3>2, Thresholds DEF Enough, S
    <3>5. Cardinality(T) <= num_correct
      BY <3>2, <3>3, <3>4, Thresholds
    <3> QED
      BY <3>5 DEF T
  <2> QED
    BY <2>1, <2>2
<1>3. CallInv(t, D) /\ t.decided = FALSE
  BY <1>1 DEF Handled
<1> QED
  BY <1>2, <1>3, TryOutputInv
-----------------------------------------------------------------------------
(* The inductive invariant *)
TypeInv ==
    /\ node \in [Correct -> NodeState]
    /\ inputs \in [Validators -> SUBSET BOOLEAN]
    /\ decision \in [Validators -> BOOLEAN \cup {None}]

NodesInv == \A n \in Correct : CallInv(node[n], decision) /\ Settled(node[n]) /\ node[n].votes = {}

(* A decision is some correct validator's vote, a vote for p that of one   *)
(* who has got its value.                                                  *)
AgreementsInv ==
    \A p \in Validators :
        /\ decision[p] # None => decision[p] \in inputs[p]
        /\ TRUE \in inputs[p] => p \in delivered

IInv == TypeInv /\ NodesInv /\ AgreementsInv /\ NoEarlyRejection

LEMMA InitInv == Init => IInv
<1> SUFFICES ASSUME Init PROVE IInv
  OBVIOUS
<1> DEFINE states == [p \in Validators |-> IF p \in Finished THEN "CompleteTrue" ELSE "Ongoing"]
           s == [states |-> states, voted |-> Finished, decided |-> FALSE, output |-> Finished, votes |-> {}]
<1>1. node = [n \in Correct |-> s]
  BY DEF Init
<1>2. /\ s.states = states /\ s.voted = Finished /\ s.decided = FALSE /\ s.output = Finished /\ s.votes = {}
      /\ s \in NodeState
  BY FinishedAssumption DEF NodeState, ProposalState
<1>3. \A p \in Validators : states[p] = IF p \in Finished THEN "CompleteTrue" ELSE "Ongoing"
  OBVIOUS
<1>4. /\ decision \in [Validators -> BOOLEAN \cup {None}] /\ inputs \in [Validators -> SUBSET BOOLEAN]
      /\ \A p \in Validators : p \in Finished => decision[p] = TRUE /\ inputs[p] = {TRUE}
      /\ \A p \in Validators : p \notin Finished => decision[p] = None /\ inputs[p] = {}
      /\ delivered = Finished
  BY DEF Init
<1> HIDE DEF s, states
<1>5. CallInv(s, decision)
  BY <1>2, <1>3, <1>4 DEF CallInv, OutputIs, Truthful, accepted
<1>6. Settled(s)
  <2>1. AcceptedSet(s) = Finished
    BY <1>2, <1>3, FinishedAssumption DEF AcceptedSet, accepted
  <2>2. ~Enough(s)
    BY <2>1, FinishedAssumption, Counting, Thresholds DEF Enough
  <2> QED
    BY <1>2, <2>2 DEF Settled
<1>7. TypeInv /\ NodesInv
  BY <1>1, <1>2, <1>4, <1>5, <1>6 DEF TypeInv, NodesInv
<1>8. AgreementsInv /\ NoEarlyRejection
  BY <1>4 DEF AgreementsInv, NoEarlyRejection
<1> QED
  BY <1>7, <1>8 DEF IInv

(* What a call does to the agreements *)
LEMMA AgreementFacts ==
    ASSUME TypeInv, NEW n \in Correct, NEW s, NEW answer \in Answers(n), Becomes(n, s, answer)
    PROVE  /\ decision' \in [Validators -> BOOLEAN \cup {None}] /\ inputs' \in [Validators -> SUBSET BOOLEAN]
           /\ RightAnswers(answer, decision')
           /\ \A p \in Validators :
                 /\ decision[p] # None => decision'[p] = decision[p]
                 /\ inputs[p] \subseteq inputs'[p]
                 /\ decision[p] = None /\ decision'[p] # None => decision'[p] \in inputs'[p]
                 /\ \A v \in BOOLEAN : v \in inputs'[p] => v \in inputs[p] \/ <<p, v>> \in s.votes
<1>1. answer \in [Validators -> Answer]
  BY DEF Answers, Answer
<1>2. /\ decision' = [p \in Validators |->
                        IF decision[p] = None /\ answer[p] # Late THEN answer[p] ELSE decision[p]]
      /\ inputs' = [p \in Validators |->
                      inputs[p] \cup {v \in BOOLEAN : is_validator(n) /\ <<p, v>> \in s.votes}]
      /\ Possible(answer, n, s)
  BY DEF Becomes
<1>3. decision' \in [Validators -> BOOLEAN \cup {None}] /\ inputs' \in [Validators -> SUBSET BOOLEAN]
  BY <1>1, <1>2 DEF TypeInv, Answer
<1>4. ASSUME NEW p \in Validators
      PROVE  /\ decision[p] # None => decision'[p] = decision[p]
             /\ inputs[p] \subseteq inputs'[p]
             /\ \A v \in BOOLEAN : v \in inputs'[p] => v \in inputs[p] \/ <<p, v>> \in s.votes
             /\ answer[p] \in BOOLEAN => decision'[p] = answer[p]
             /\ decision[p] = None /\ decision'[p] # None => decision'[p] \in inputs'[p]
  <2>1. /\ decision'[p] = IF decision[p] = None /\ answer[p] # Late THEN answer[p] ELSE decision[p]
        /\ inputs'[p] = inputs[p] \cup {v \in BOOLEAN : is_validator(n) /\ <<p, v>> \in s.votes}
        /\ answer[p] \in Answer /\ decision[p] \in BOOLEAN \cup {None}
    BY <1>1, <1>2 DEF TypeInv
  <2>2. \/ answer[p] = None
        \/ answer[p] = Late
        \/ decision[p] # None /\ answer[p] = decision[p]
        \/ decision[p] = None /\ (answer[p] \in inputs[p] \/ (is_validator(n) /\ <<p, answer[p]>> \in s.votes))
    BY <1>2 DEF Possible
  <2>3. answer[p] \in BOOLEAN => decision'[p] = answer[p]
    BY <2>1, <2>2, AnswersAssumption
  <2>4. ASSUME decision[p] = None, decision'[p] # None PROVE decision'[p] \in inputs'[p]
    <3>1. decision'[p] = answer[p] /\ answer[p] # None /\ answer[p] # Late
      BY <2>1, <2>4
    <3>2. answer[p] \in BOOLEAN
      BY <2>1, <3>1 DEF Answer
    <3> QED
      BY <2>1, <2>2, <2>4, <3>1, <3>2
  <2> QED
    BY <2>1, <2>3, <2>4
<1> QED
  BY <1>1, <1>3, <1>4 DEF RightAnswers

(* Decisions are final, so that a node's state stays true to them. *)
LEMMA DecisionsFinal ==
    ASSUME NEW s, NEW D, NEW E, CallInv(s, D), \A p \in Validators : D[p] # None => E[p] = D[p]
    PROVE  CallInv(s, E)
<1>1. Truthful(s, E)
  BY AnswersAssumption DEF CallInv, Truthful
<1> QED
  BY <1>1 DEF CallInv

(* The set of proposals that are in, by the decisions D *)
InSet(D) == {p \in Validators : D[p] = TRUE}

LEMMA InSetCount ==
    ASSUME NEW S, NEW D, S \subseteq InSet(D)
    PROVE  /\ Cardinality(S) \in Nat /\ Cardinality(InSet(D)) \in Nat
           /\ Cardinality(S) <= Cardinality(InSet(D))
<1>1. InSet(D) \in SUBSET Validators /\ S \in SUBSET Validators
  BY DEF InSet
<1> QED
  BY <1>1, Counting

(* A call that leaves node n in state s *)
LEMMA BecomesInv ==
    ASSUME IInv, NEW n \in Correct, NEW s, NEW answer \in Answers(n), Becomes(n, s, answer),
           CallInv(s, decision'), Settled(s), delivered \subseteq delivered',
           \A p \in Validators : <<p, TRUE>> \in s.votes => p \in delivered',
           Enough(s) \/ \A p \in Validators : <<p, FALSE>> \notin s.votes
    PROVE  IInv'
<1>0. TypeInv /\ NodesInv /\ AgreementsInv /\ NoEarlyRejection
  BY DEF IInv
<1>1. /\ decision' \in [Validators -> BOOLEAN \cup {None}] /\ inputs' \in [Validators -> SUBSET BOOLEAN]
      /\ \A p \in Validators :
            /\ decision[p] # None => decision'[p] = decision[p]
            /\ inputs[p] \subseteq inputs'[p]
            /\ decision[p] = None /\ decision'[p] # None => decision'[p] \in inputs'[p]
            /\ \A v \in BOOLEAN : v \in inputs'[p] => v \in inputs[p] \/ <<p, v>> \in s.votes
  BY <1>0, AgreementFacts
<1> DEFINE t == [s EXCEPT !.votes = {}]
<1>2. node' = [node EXCEPT ![n] = t]
  BY DEF Becomes
<1>3. /\ t \in NodeState /\ t.states = s.states /\ t.voted = s.voted /\ t.decided = s.decided
      /\ t.output = s.output /\ t.votes = {}
  BY DEF CallInv, NodeState
<1> HIDE DEF t
<1>4. CallInv(t, decision')
  BY <1>3 DEF CallInv, OutputIs, Truthful
<1>5. Settled(t)
  <2>1. Enough(t) <=> Enough(s)
    BY <1>3 DEF Enough, AcceptedSet
  <2>2. (AllVoted(t) <=> AllVoted(s)) /\ (AllComplete(t) <=> AllComplete(s))
    BY <1>3 DEF AllVoted, AllComplete
  <2> QED
    BY <1>3, <2>1, <2>2 DEF Settled
<1>6. node' \in [Correct -> NodeState] /\ node'[n] = t /\ \A m \in Correct : m # n => node'[m] = node[m]
  BY <1>0, <1>2, <1>3 DEF TypeInv
<1>7. ASSUME NEW m \in Correct PROVE CallInv(node'[m], decision') /\ Settled(node'[m]) /\ node'[m].votes = {}
  <2>1. CASE m = n
    BY <1>3, <1>4, <1>5, <1>6, <2>1
  <2>2. CASE m # n
    <3>1. CallInv(node[m], decision) /\ Settled(node[m]) /\ node[m].votes = {}
      BY <1>0 DEF NodesInv
    <3>2. CallInv(node[m], decision')
      BY <1>1, <3>1, DecisionsFinal
    <3> QED
      BY <1>6, <2>2, <3>1, <3>2
  <2> QED
    BY <2>1, <2>2
<1>8. AgreementsInv'
  BY <1>0, <1>1 DEF AgreementsInv
<1>9. ASSUME NEW p \in Validators, FALSE \in inputs'[p] PROVE Cardinality(InSet(decision')) >= num_correct
  <2>1. CASE FALSE \in inputs[p]
    <3>1. Cardinality(InSet(decision)) >= num_correct
      BY <1>0, <2>1 DEF NoEarlyRejection, InSet
    <3>2. InSet(decision) \subseteq InSet(decision')
      BY <1>1, AnswersAssumption DEF InSet
    <3> QED
      BY <3>1, <3>2, InSetCount, Thresholds
  <2>2. CASE FALSE \notin inputs[p]
    <3>1. Enough(s)
      BY <1>1, <1>9, <2>2
    <3>2. AcceptedSet(s) \subseteq InSet(decision')
      BY DEF AcceptedSet, InSet, CallInv, Truthful
    <3> QED
      BY <3>1, <3>2, InSetCount, Thresholds DEF Enough
  <2> QED
    BY <2>1, <2>2
<1> QED
  BY <1>1, <1>6, <1>7, <1>8, <1>9 DEF IInv, TypeInv, NodesInv, NoEarlyRejection, InSet

LEMMA NextInv == IInv /\ [Next]_vars => IInv'
<1> SUFFICES ASSUME IInv, [Next]_vars PROVE IInv'
  OBVIOUS
<1>0. TypeInv /\ NodesInv /\ AgreementsInv /\ NoEarlyRejection
  BY DEF IInv
<1>1. ASSUME NEW n \in Correct, Propose(n) PROVE IInv'
  BY <1>0, <1>1 DEF Propose, IInv, TypeInv, NodesInv, AgreementsInv, NoEarlyRejection
<1>2. ASSUME NEW p \in Validators, Decide(p) PROVE IInv'
  <2>1. PICK b \in inputs[p] : decision' = [decision EXCEPT ![p] = b]
    BY <1>2 DEF Decide
  <2>2. decision[p] = None /\ node' = node /\ inputs' = inputs /\ delivered' = delivered
    BY <1>2 DEF Decide
  <2>3. b \in BOOLEAN
    BY <1>0 DEF TypeInv
  <2>4. /\ decision' \in [Validators -> BOOLEAN \cup {None}] /\ decision'[p] = b
        /\ \A q \in Validators : q # p => decision'[q] = decision[q]
    BY <1>0, <2>1, <2>3 DEF TypeInv
  <2>5. \A q \in Validators : decision[q] # None => decision'[q] = decision[q]
    BY <2>2, <2>4
  <2>6. \A n \in Correct : CallInv(node[n], decision')
    BY <1>0, <2>5, DecisionsFinal DEF NodesInv
  <2>7. AgreementsInv'
    BY <1>0, <2>1, <2>2, <2>4 DEF AgreementsInv
  <2>8. NoEarlyRejection'
    <3>1. InSet(decision) \subseteq InSet(decision')
      BY <2>5, AnswersAssumption DEF InSet
    <3>2. Cardinality(InSet(decision)) >= num_correct => Cardinality(InSet(decision')) >= num_correct
      BY <3>1, InSetCount, Thresholds
    <3> QED
      BY <1>0, <2>2, <3>2 DEF NoEarlyRejection, InSet
  <2> QED
    BY <1>0, <2>2, <2>4, <2>6, <2>7, <2>8 DEF IInv, TypeInv, NodesInv
<1>3. ASSUME NEW n \in Correct, NEW p \in Validators, ReceiveValue(n, p) PROVE IInv'
  <2>1. /\ node[n].states[p] \in {"Ongoing", "Accepted"} /\ delivered' = delivered \cup {p}
    BY <1>3 DEF ReceiveValue
  <2>2. PICK answer \in Answers(n) :
               Becomes(n, TryOutput(HandleBroadcast(node[n], p, answer), answer), answer)
    BY <1>3 DEF ReceiveValue
  <2> DEFINE t == HandleBroadcast(node[n], p, answer)
             s == TryOutput(t, answer)
  <2>3. /\ RightAnswers(answer, decision') /\ \A q \in Validators : decision[q] # None => decision'[q] = decision[q]
    BY <1>0, <2>2, AgreementFacts
  <2>4. CallInv(node[n], decision') /\ Settled(node[n]) /\ node[n].votes = {}
    BY <1>0, <2>3, DecisionsFinal DEF NodesInv
  <2>5. Handled(node[n], t, p, decision') /\ t.votes \subseteq {<<p, TRUE>>}
    BY <2>1, <2>3, <2>4, HandleBroadcastInv
  <2>6. Becomes(n, s, answer)
    BY <2>2
  <2> HIDE DEF t
  <2>7. ~complete(node[n].states[p])
    BY <2>1 DEF complete
  <2>8. TriedOutput(t, s, decision')
    BY <2>3, <2>4, <2>5, <2>7, CallFacts
  <2> HIDE DEF s
  <2>9. CallInv(s, decision') /\ Settled(s)
    BY <2>8 DEF TriedOutput
  <2>10. \A q \in Validators : <<q, TRUE>> \in s.votes => q \in delivered'
    <3> TAKE q \in Validators
    <3> HAVE <<q, TRUE>> \in s.votes
    <3>1. <<q, TRUE>> \in t.votes
      BY <2>8 DEF TriedOutput
    <3>2. <<q, TRUE>> = <<p, TRUE>>
      BY <2>5, <3>1
    <3> QED
      BY <2>1, <3>2
  <2>11. Enough(s) \/ \A q \in Validators : <<q, FALSE>> \notin s.votes
    <3>1. \A q \in Validators : <<q, FALSE>> \notin t.votes
      <4> SUFFICES ASSUME NEW q \in Validators, <<q, FALSE>> \in t.votes PROVE FALSE
        OBVIOUS
      <4>1. <<q, FALSE>> = <<p, TRUE>>
        BY <2>5
      <4> QED
        BY <4>1
    <3> QED
      BY <2>8, <3>1 DEF TriedOutput
  <2> QED
    BY <2>1, <2>6, <2>9, <2>10, <2>11, BecomesInv
<1>4. ASSUME NEW n \in Correct, NEW p \in Validators, ReceiveDecision(n, p) PROVE IInv'
  <2>1. /\ node[n].states[p] \in {"Ongoing", "HasValue"} /\ delivered' = delivered /\ decision[p] # None
    BY <1>4 DEF ReceiveDecision
  <2>2. PICK answer \in Answers(n) :
               Becomes(n, TryOutput(HandleAgreement(node[n], p, decision[p]), answer), answer)
    BY <1>4 DEF ReceiveDecision
  <2> DEFINE t == HandleAgreement(node[n], p, decision[p])
             s == TryOutput(t, answer)
  <2>3. /\ RightAnswers(answer, decision') /\ \A q \in Validators : decision[q] # None => decision'[q] = decision[q]
    BY <1>0, <2>2, AgreementFacts
  <2>4. CallInv(node[n], decision') /\ Settled(node[n]) /\ node[n].votes = {}
    BY <1>0, <2>3, DecisionsFinal DEF NodesInv
  <2>5. decision'[p] = decision[p] /\ decision[p] \in BOOLEAN
    BY <1>0, <2>1, <2>3 DEF TypeInv
  <2>6. Handled(node[n], t, p, decision') /\ t.votes = {}
    BY <2>4, <2>5, HandleAgreementInv
  <2>7. Becomes(n, s, answer)
    BY <2>2
  <2> HIDE DEF t
  <2>8. ~complete(node[n].states[p])
    BY <2>1 DEF complete
  <2>9. TriedOutput(t, s, decision')
    BY <2>3, <2>4, <2>6, <2>8, CallFacts
  <2> HIDE DEF s
  <2>10. CallInv(s, decision') /\ Settled(s)
    BY <2>9 DEF TriedOutput
  <2>11. \A q \in Validators : <<q, TRUE>> \notin s.votes
    BY <2>6, <2>9 DEF TriedOutput
  <2>12. Enough(s) \/ \A q \in Validators : <<q, FALSE>> \notin s.votes
    BY <2>6, <2>9 DEF TriedOutput
  <2> QED
    BY <2>1, <2>7, <2>10, <2>11, <2>12, BecomesInv
<1>5. CASE UNCHANGED vars
  BY <1>0, <1>5 DEF vars, IInv, TypeInv, NodesInv, AgreementsInv, NoEarlyRejection
<1> QED
  BY <1>1, <1>2, <1>3, <1>4, <1>5 DEF Next

LEMMA Invariant == Spec => []IInv
BY InitInv, NextInv, PTL DEF Spec
-----------------------------------------------------------------------------
(* subset/mod.rs: nodes that are done have output the same set of at least *)
(* N - f proposals, the ones that were decided in favour of.               *)
THEOREM SameSetTheorem == Spec => []SameSet
<1>1. IInv => SameSet
  <2> SUFFICES ASSUME IInv, NEW n \in Correct, node[n].decided
               PROVE  /\ node[n].output = InSet(decision)
                      /\ \A p \in Validators : decision[p] # None
                      /\ Cardinality(node[n].output) >= num_correct
    BY DEF SameSet, InSet
  <2> DEFINE s == node[n]
  <2>1. s \in NodeState /\ OutputIs(s) /\ Truthful(s, decision) /\ Settled(s)
    BY DEF IInv, NodesInv, CallInv
  <2>2. s.decided = TRUE
    BY <2>1 DEF NodeState
  <2> HIDE DEF s
  <2>3. Enough(s) /\ AllComplete(s)
    BY <2>1, <2>2 DEF Settled
  <2>4. \A p \in Validators :
           /\ s.states[p] = "CompleteTrue" <=> accepted(s.states[p])
           /\ s.states[p] = "CompleteTrue" <=> decision[p] = TRUE
           /\ decision[p] # None
    BY <2>1, <2>3, AnswersAssumption DEF AllComplete, complete, accepted, Truthful
  <2>5. s.output \in SUBSET Validators
    BY <2>1 DEF NodeState
  <2>6. s.output = InSet(decision) /\ s.output = AcceptedSet(s)
    BY <2>1, <2>4, <2>5 DEF OutputIs, InSet, AcceptedSet
  <2> QED
    BY <2>3, <2>4, <2>6 DEF Enough, s
<1> QED
  BY <1>1, Invariant, PTL

(* subset.rs, try_output: nothing is output after Done, since no proposal  *)
(* of such a node can still change.                                        *)
THEOREM DoneIsLastTheorem == Spec => DoneIsLast
<1> DEFINE Last == \A n \in Correct : node[n].decided => node'[n].output = node[n].output
<1>1. IInv /\ [Next]_vars => [Last]_vars
  <2> SUFFICES ASSUME IInv, Next PROVE Last
    OBVIOUS
  <2>1. \A n \in Correct : node[n].decided => \A p \in Validators : complete(node[n].states[p])
    BY DEF IInv, NodesInv, CallInv, NodeState, Settled, AllComplete
  <2>2. node \in [Correct -> NodeState]
    BY DEF IInv, TypeInv
  <2>3. ASSUME NEW m \in Correct, Propose(m) PROVE Last
    BY <2>3 DEF Propose
  <2>4. ASSUME NEW p \in Validators, Decide(p) PROVE Last
    BY <2>4 DEF Decide
  <2>5. ASSUME NEW m \in Correct, NEW p \in Validators, ReceiveValue(m, p) \/ ReceiveDecision(m, p) PROVE Last
    <3>1. ~complete(node[m].states[p])
      BY <2>5 DEF ReceiveValue, ReceiveDecision, complete
    <3>2. ~node[m].decided
      BY <2>1, <3>1
    <3>3. \E s, answer : Becomes(m, s, answer)
      BY <2>5 DEF ReceiveValue, ReceiveDecision
    <3>4. \A n \in Correct : n # m => node'[n] = node[n]
      BY <2>2, <3>3 DEF Becomes
    <3> QED
      BY <3>2, <3>4
  <2> QED
    BY <2>3, <2>4, <2>5 DEF Next
<1> QED
  BY <1>1, Invariant, PTL DEF Spec, DoneIsLast

(* subset.rs, try_output: a vote against a proposal takes N - f others     *)
(* that were decided in favour of.                                         *)
THEOREM NoEarlyRejectionTheorem == Spec => []NoEarlyRejection
BY Invariant, PTL DEF IInv

(* subset/mod.rs: where all proposals, values and decisions that are due   *)
(* have arrived, every node is done.  Each correct proposer's value is     *)
(* voted on by all, so there is a decision on it; if one is negative, N - f*)
(* others are positive anyway, so that all vote on all proposals.          *)
THEOREM NoStallTheorem == Spec => []NoStall
<1>1. IInv => NoStall
  <2> SUFFICES ASSUME IInv, CorrectValidators \subseteq proposed,
                      \A n \in Correct, p \in Validators :
                         /\ Underway(p) => node[n].states[p] \notin {"Ongoing", "Accepted"}
                         /\ decision[p] # None => ~active(node[n].states[p]),
                      \A p \in Validators : (\A n \in CorrectValidators : p \in node[n].voted) => decision[p] # None,
                      NEW n \in Correct
               PROVE  node[n].decided
    BY DEF NoStall, active
  <2>0. \A m \in Correct : CallInv(node[m], decision) /\ Settled(node[m])
    BY DEF IInv, NodesInv
  <2>1. \A m \in Correct, p \in Validators : node[m].states[p] \in ProposalState
    BY <2>0 DEF CallInv, NodeState
  <2>2. ASSUME NEW m \in Correct, NEW p \in Validators, ~active(node[m].states[p]) PROVE decision[p] # None
    <3>1. accepted(node[m].states[p]) \/ node[m].states[p] = "CompleteFalse"
      BY <2>1, <2>2 DEF ProposalState, active, accepted
    <3> QED
      BY <2>0, <3>1, AnswersAssumption DEF CallInv, Truthful
  <2>3. ASSUME NEW p \in Validators, \A m \in CorrectValidators : active(node[m].states[p]) => p \in node[m].voted
        PROVE  decision[p] # None
    BY <2>2, <2>3, CorrectNodes
  <2>4. ASSUME NEW p \in CorrectValidators PROVE decision[p] # None
    <3>1. p \in Validators /\ Underway(p)
      BY CorrectNodes DEF Underway
    <3>2. \A m \in CorrectValidators : active(node[m].states[p]) => p \in node[m].voted
      BY <2>0, <3>1, CorrectNodes DEF active, CallInv
    <3> QED
      BY <2>3, <3>1, <3>2
  <2>5. \A m \in Correct, p \in Validators : decision[p] = TRUE => accepted(node[m].states[p])
    <3> TAKE m \in Correct, p \in Validators
    <3> HAVE decision[p] = TRUE
    <3>1. ~active(node[m].states[p]) /\ node[m].states[p] # "CompleteFalse"
      BY <2>0, AnswersAssumption DEF CallInv, Truthful
    <3> QED
      BY <2>1, <3>1 DEF ProposalState, active, accepted
  <2>6. Cardinality(InSet(decision)) >= num_correct
    <3>1. CASE \E p \in Validators : decision[p] = FALSE
      <4>1. PICK p \in Validators : decision[p] = FALSE
        BY <3>1
      <4>2. FALSE \in inputs[p]
        BY <4>1, AnswersAssumption DEF IInv, AgreementsInv
      <4> QED
        BY <4>2 DEF IInv, NoEarlyRejection, InSet
    <3>2. CASE \A p \in Validators : decision[p] # FALSE
      <4>1. CorrectValidators \subseteq InSet(decision)
        BY <2>4, <3>2, CorrectNodes DEF InSet, IInv, TypeInv
      <4> QED
        BY <4>1, InSetCount, EnoughCorrect, Thresholds
    <3> QED
      BY <3>1, <3>2
  <2>7. ASSUME NEW m \in Correct PROVE Enough(node[m]) /\ AllVoted(node[m])
    <3>1. InSet(decision) \subseteq AcceptedSet(node[m]) /\ AcceptedSet(node[m]) \in SUBSET Validators
      BY <2>5 DEF InSet, AcceptedSet
    <3>2. /\ Cardinality(InSet(decision)) \in Nat /\ Cardinality(AcceptedSet(node[m])) \in Nat
          /\ Cardinality(InSet(decision)) <= Cardinality(AcceptedSet(node[m]))
      <4>1. InSet(decision) \in SUBSET Validators
        BY DEF InSet
      <4> QED
        BY <3>1, <4>1, Counting
    <3>3. Enough(node[m])
      BY <2>6, <3>2, Thresholds DEF Enough
    <3> QED
      BY <2>0, <3>3 DEF Settled
  <2>8. \A p \in Validators : decision[p] # None
    BY <2>3, <2>7, CorrectNodes DEF AllVoted
  <2>9. ASSUME NEW p \in Validators PROVE complete(node[n].states[p])
    <3>1. ~active(node[n].states[p]) /\ node[n].states[p] \in ProposalState
      BY <2>1, <2>8
    <3>2. CASE decision[p] = TRUE
      <4>1. Underway(p)
        BY <3>2, AnswersAssumption DEF IInv, AgreementsInv, Underway
      <4> QED
        BY <3>1, <4>1 DEF ProposalState, active, complete
    <3>3. CASE decision[p] # TRUE
      BY <2>0, <3>1, <3>3 DEF ProposalState, active, complete, CallInv, Truthful, accepted
    <3> QED
      BY <3>2, <3>3
  <2> QED
    BY <2>0, <2>7, <2>9 DEF Settled, AllComplete
<1> QED
  BY <1>1, Invariant, PTL
=============================================================================
