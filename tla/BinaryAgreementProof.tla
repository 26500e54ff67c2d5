------------------------ MODULE BinaryAgreementProof ------------------------
(***************************************************************************)
(* Binary Agreement for any number of nodes and epochs, at most f of the N *)
(* validators being faulty.                                                *)
(*                                                                         *)
(* What a node does rests on messages that it knows: those that it was     *)
(* given and its own.  This evidence only grows, and stays valid when the  *)
(* epoch is over.  An epoch is decisive for b if b is its coin and some    *)
(* node knows of N - f Auxs for b; after the first such epoch nobody can   *)
(* have another estimate any more.                                         *)
(***************************************************************************)
EXTENDS BinaryAgreement, NetworkInfoProof

(* Who is known to have sent Term(b) by epoch e, and BVal(b) or Aux(b) for *)
(* the epoch, a Term being as good as both.  ev is a set of messages.      *)
ByTerm(ev, e, b) == {v \in Validators : \E k \in 0 .. e : Msg(v, k, "Term", b) \in ev}

ByBVal(ev, e, b) == {v \in Validators : Msg(v, e, "BVal", b) \in ev} \cup ByTerm(ev, e, b)

ByAux(ev, e, b) == {v \in Validators : Msg(v, e, "Aux", b) \in ev} \cup ByTerm(ev, e, b)

Believed(ev, e, b) == Cardinality(ByBVal(ev, e, b)) > 2 * num_faulty

Confirmed(ev, e, b) == Cardinality(ByAux(ev, e, b)) >= num_correct

(* What does not change: the coins and the first epoch *)
Env == [coin |-> coin_value, start |-> setting.start]

CoinOf(x, e) ==
    IF InitialCoin(e) # None THEN InitialCoin(e) ELSE IF e \in DOMAIN x.coin THEN x.coin[e] ELSE TRUE

Decisive(x, ev, e, b) == Believed(ev, e, b) /\ Confirmed(ev, e, b) /\ CoinOf(x, e) = b

Leads(x, ev, e, b) == Believed(ev, e, b) /\ (Confirmed(ev, e, b) \/ CoinOf(x, e) = b)

(* b may be the estimate in epoch e of a node with input i. *)
Estimate(x, ev, i, e, b) ==
    /\ e \in Nat /\ x.start <= e
    /\ IF e = x.start THEN i = b ELSE Leads(x, ev, e - 1, b)
-----------------------------------------------------------------------------
(* What a node n with input i, whose state is s, has multicast *)

BValRule(x, ev, n, i, s) ==
    \A e \in Nat, b \in BOOLEAN :
        Msg(n, e, "BVal", b) \in ev =>
            e <= s.epoch /\ (Estimate(x, ev, i, e, b) \/ Cardinality(ByBVal(ev, e, b) \ {n}) > num_faulty)

AuxRule(ev, n, s) ==
    \A e \in Nat, b \in BOOLEAN :
        Msg(n, e, "Aux", b) \in ev =>
            /\ e <= s.epoch
            /\ e = s.epoch => b \in s.bin_values
            /\ \A c \in BOOLEAN : Msg(n, e, "Aux", c) \in ev => b = c

TermRule(ev, n, s) ==
    \A k \in Nat, b \in BOOLEAN :
        Msg(n, k, "Term", b) \in ev => s.decision = b /\ k = s.epoch + 1

DecisionRule(x, ev, s) ==
    \A b \in BOOLEAN :
        s.decision = b =>
            Decisive(x, ev, s.epoch, b) \/ Cardinality(ByTerm(ev, s.epoch, b)) > num_faulty

Rules(x, ev, n, i, s) ==
    BValRule(x, ev, n, i, s) /\ AuxRule(ev, n, s) /\ TermRule(ev, n, s) /\ DecisionRule(x, ev, s)
-----------------------------------------------------------------------------
(* The network *)

Known(n) == received[n] \cup {m \in msgs : m.from = n}

Estimated(e, b) == \E w \in Runners : Estimate(Env, Known(w), input[w], e, b)

Terminated(e, b) == \E w \in Runners \cap Validators : \E k \in 0 .. e : Msg(w, k, "Term", b) \in msgs

DecidedBy(e, b) == \E w \in Runners : Decisive(Env, Known(w), e, b)

(* The messages of nodes that run the code have been multicast. *)
Authentic ==
    \A n \in Runners : \A m \in received[n] : m.from \in Runners => m \in msgs

(* Of those who multicast a BVal somebody was the first. *)
Grounded ==
    \A v \in Runners, e \in Nat, b \in BOOLEAN :
        Msg(v, e, "BVal", b) \in msgs => Estimated(e, b) \/ Terminated(e, b)

Types ==
    /\ setting \in Settings
    /\ node \in [Runners -> State]

Evidence ==
    /\ Types /\ Authentic /\ Grounded
    /\ \A n \in Runners : Rules(Env, Known(n), n, input[n], node[n])
    /\ setting.open = Faulty

LEMMA RunnersAreCorrect ==
    ASSUME setting.open = Faulty
    PROVE  Runners = Correct /\ Runners \cap Validators = CorrectValidators
BY CorrectNodes DEF Runners, Nodes, Correct

(* What a correct node knows of another correct one is true. *)
LEMMA KnownIsSent ==
    ASSUME Evidence, NEW n \in Runners, NEW v \in CorrectValidators, NEW e, NEW b, NEW type,
           Msg(v, e, type, b) \in Known(n)
    PROVE  Msg(v, e, type, b) \in msgs
<1>1. Msg(v, e, type, b).from = v
  BY DEF Msg
<1>2. v \in Runners
  BY RunnersAreCorrect DEF Evidence
<1> QED
  BY <1>1, <1>2 DEF Evidence, Authentic, Known

LEMMA EpochsAreNat == ASSUME Evidence, NEW n \in Runners PROVE node[n].epoch \in Nat
BY DEF Evidence, Types, State

(* A decision or a Term goes back to a decisive epoch. *)
LEMMA DecisionFromTerms ==
    ASSUME Evidence, NEW n \in Runners, NEW e \in Nat, NEW b \in BOOLEAN,
           Cardinality(ByTerm(Known(n), e, b)) > num_faulty
    PROVE  Terminated(e, b)
<1>1. PICK v \in ByTerm(Known(n), e, b) : v \in CorrectValidators
  BY CorrectMember DEF ByTerm
<1>2. PICK k \in 0 .. e : Msg(v, k, "Term", b) \in Known(n)
  BY <1>1 DEF ByTerm
<1>3. Msg(v, k, "Term", b) \in msgs
  BY <1>1, <1>2, KnownIsSent
<1>4. v \in Runners \cap Validators
  BY <1>1, RunnersAreCorrect DEF Evidence
<1> QED
  BY <1>2, <1>3, <1>4 DEF Terminated

LEMMA TermSource ==
    ASSUME Evidence, NEW e \in Nat, NEW b \in BOOLEAN, Terminated(e, b)
    PROVE  \E d \in Nat : d < e /\ DecidedBy(d, b)
<1> DEFINE Orphan == {k \in Nat : /\ \E w \in Runners \cap Validators : Msg(w, k, "Term", b) \in msgs
                                  /\ \A d \in Nat : d < k => ~DecidedBy(d, b)}
<1>1. ASSUME NEW k \in Orphan, \A j \in Orphan : k <= j PROVE FALSE
  <2>1. PICK w \in Runners \cap Validators : Msg(w, k, "Term", b) \in msgs
    BY <1>1
  <2>2. k \in Nat /\ \A d \in Nat : d < k => ~DecidedBy(d, b)
    BY <1>1
  <2> HIDE DEF Orphan
  <2>3. Msg(w, k, "Term", b) \in Known(w)
    BY <2>1 DEF Known, Msg
  <2>4. node[w].decision = b /\ k = node[w].epoch + 1
    BY <2>1, <2>2, <2>3 DEF Evidence, Rules, TermRule
  <2> DEFINE d == node[w].epoch
  <2>5. d \in Nat /\ d < k
    BY <2>1, <2>4, EpochsAreNat
  <2>6. Decisive(Env, Known(w), d, b) \/ Cardinality(ByTerm(Known(w), d, b)) > num_faulty
    BY <2>1, <2>4 DEF Evidence, Rules, DecisionRule
  <2>7. ~Decisive(Env, Known(w), d, b)
    BY <2>1, <2>2, <2>5 DEF DecidedBy
  <2>8. Terminated(d, b)
    BY <2>1, <2>5, <2>6, <2>7, DecisionFromTerms
  <2>9. PICK u \in Runners \cap Validators, j \in 0 .. d : Msg(u, j, "Term", b) \in msgs
    BY <2>8 DEF Terminated
  <2>10. j \in Nat /\ j < k
    BY <2>2, <2>5, <2>9
  <2>11. j \in Orphan
    BY <2>2, <2>9, <2>10 DEF Orphan
  <2> QED
    BY <1>1, <2>2, <2>10, <2>11
<1>2. Orphan = {}
  BY <1>1, Least
<1>3. PICK w \in Runners \cap Validators, k \in 0 .. e : Msg(w, k, "Term", b) \in msgs
  BY DEF Terminated
<1>4. PICK d \in Nat : d < k /\ DecidedBy(d, b)
  BY <1>2, <1>3
<1> QED
  BY <1>3, <1>4

LEMMA DecisionSource ==
    ASSUME Evidence, NEW n \in Runners, NEW b \in BOOLEAN, node[n].decision = b
    PROVE  \E d \in Nat : DecidedBy(d, b)
<1>1. node[n].epoch \in Nat
  BY EpochsAreNat
<1>2. Decisive(Env, Known(n), node[n].epoch, b) \/ Cardinality(ByTerm(Known(n), node[n].epoch, b)) > num_faulty
  BY DEF Evidence, Rules, DecisionRule
<1>3. CASE Decisive(Env, Known(n), node[n].epoch, b)
  BY <1>1, <1>3 DEF DecidedBy
<1>4. CASE Cardinality(ByTerm(Known(n), node[n].epoch, b)) > num_faulty
  <2>1. Terminated(node[n].epoch, b)
    BY <1>1, <1>4, DecisionFromTerms
  <2> QED
    BY <1>1, <2>1, TermSource
<1> QED
  BY <1>2, <1>3, <1>4

(* What a correct node believes in was somebody's estimate, or decided. *)
LEMMA BeliefSource ==
    ASSUME Evidence, NEW n \in Runners, NEW e \in Nat, NEW b \in BOOLEAN, Believed(Known(n), e, b)
    PROVE  Estimated(e, b) \/ \E d \in Nat : d < e /\ DecidedBy(d, b)
<1>1. Cardinality(ByBVal(Known(n), e, b)) > num_faulty
  <2>1. ByBVal(Known(n), e, b) \in SUBSET Validators
    BY DEF ByBVal, ByTerm
  <2> QED
    BY <2>1, Counting, Thresholds DEF Believed
<1>2. PICK v \in ByBVal(Known(n), e, b) : v \in CorrectValidators
  BY <1>1, CorrectMember DEF ByBVal, ByTerm
<1>3. v \in Runners \cap Validators
  BY <1>2, RunnersAreCorrect DEF Evidence
<1>4. CASE Msg(v, e, "BVal", b) \in Known(n)
  <2>1. Msg(v, e, "BVal", b) \in msgs
    BY <1>2, <1>4, KnownIsSent
  <2>2. Estimated(e, b) \/ Terminated(e, b)
    BY <1>3, <2>1 DEF Evidence, Grounded
  <2> QED
    BY <2>2, TermSource
<1>5. CASE v \in ByTerm(Known(n), e, b)
  <2>1. PICK k \in 0 .. e : Msg(v, k, "Term", b) \in Known(n)
    BY <1>5 DEF ByTerm
  <2>2. Msg(v, k, "Term", b) \in msgs
    BY <1>2, <2>1, KnownIsSent
  <2>3. Terminated(e, b)
    BY <1>3, <2>1, <2>2 DEF Terminated
  <2> QED
    BY <2>3, TermSource
<1> QED
  BY <1>2, <1>4, <1>5 DEF ByBVal

(* Two nodes that know of N - f Auxs for different values know that some   *)
(* correct node's is a Term.                                               *)
LEMMA AuxsClash ==
    ASSUME Evidence, NEW m \in Runners, NEW n \in Runners, NEW e \in Nat, NEW b \in BOOLEAN, NEW c \in BOOLEAN,
           Confirmed(Known(m), e, b), Confirmed(Known(n), e, c), b # c
    PROVE  \E d \in Nat, a \in BOOLEAN : d < e /\ DecidedBy(d, a)
<1>1. PICK v \in ByAux(Known(m), e, b) \cap ByAux(Known(n), e, c) : v \in CorrectValidators
  BY QuorumIntersection DEF Confirmed, ByAux, ByTerm
<1>2. v \in Runners \cap Validators
  BY <1>1, RunnersAreCorrect DEF Evidence
<1>3. ASSUME NEW a \in BOOLEAN, NEW w \in Runners, v \in ByTerm(Known(w), e, a)
      PROVE  \E d \in Nat : d < e /\ DecidedBy(d, a)
  <2>1. PICK k \in 0 .. e : Msg(v, k, "Term", a) \in Known(w)
    BY <1>3 DEF ByTerm
  <2>2. Msg(v, k, "Term", a) \in msgs
    BY <1>1, <1>3, <2>1, KnownIsSent
  <2>3. Terminated(e, a)
    BY <1>2, <2>1, <2>2 DEF Terminated
  <2> QED
    BY <1>3, <2>3, TermSource
<1>4. CASE v \in ByTerm(Known(m), e, b) \/ v \in ByTerm(Known(n), e, c)
  BY <1>3, <1>4
<1>5. CASE v \notin ByTerm(Known(m), e, b) /\ v \notin ByTerm(Known(n), e, c)
  <2>1. Msg(v, e, "Aux", b) \in Known(m) /\ Msg(v, e, "Aux", c) \in Known(n)
    BY <1>1, <1>5 DEF ByAux
  <2>2. Msg(v, e, "Aux", b) \in msgs /\ Msg(v, e, "Aux", c) \in msgs
    BY <1>1, <2>1, KnownIsSent
  <2>3. Msg(v, e, "Aux", b) \in Known(v) /\ Msg(v, e, "Aux", c) \in Known(v)
    BY <2>2 DEF Known, Msg
  <2> QED
    BY <1>2, <2>3 DEF Evidence, Rules, AuxRule
<1> QED
  BY <1>4, <1>5

(* e is the first decisive epoch. *)
FirstDecision(e, b) ==
    e \in Nat /\ b \in BOOLEAN /\ DecidedBy(e, b) /\ \A d \in Nat, a \in BOOLEAN : DecidedBy(d, a) => e <= d

LEMMA DecidedByFacts ==
    ASSUME NEW e, NEW b, DecidedBy(e, b)
    PROVE  /\ CoinOf(Env, e) = b
           /\ \E w \in Runners : Believed(Known(w), e, b) /\ Confirmed(Known(w), e, b)
BY DEF DecidedBy, Decisive

LEMMA EstimatedFacts ==
    ASSUME NEW e, NEW b, Estimated(e, b)
    PROVE  /\ e \in Nat /\ setting.start <= e
           /\ e = setting.start => \E w \in Runners : input[w] = b
           /\ e # setting.start =>
                 \E w \in Runners : /\ Believed(Known(w), e - 1, b)
                                    /\ Confirmed(Known(w), e - 1, b) \/ CoinOf(Env, e - 1) = b
<1>1. Env.start = setting.start
  BY DEF Env
<1> QED
  BY <1>1 DEF Estimated, Estimate, Leads

LEMMA StartIsNat == ASSUME Evidence PROVE setting.start \in Nat /\ setting.last \in Nat
BY AgreementAssumption DEF Evidence, Types

(* After the first decisive epoch there is only one value left. *)
LEMMA Locked ==
    ASSUME Evidence, NEW e, NEW b, FirstDecision(e, b), NEW x \in Nat, x > e, NEW c \in BOOLEAN, c # b
    PROVE  ~Estimated(x, c) /\ ~DecidedBy(x, c)
<1> DEFINE Bad == {y \in Nat : y > e /\ (Estimated(y, c) \/ DecidedBy(y, c))}
<1>1. e \in Nat /\ b \in BOOLEAN /\ DecidedBy(e, b) /\ CoinOf(Env, e) = b
  BY DecidedByFacts DEF FirstDecision
<1>2. \A d \in Nat, a \in BOOLEAN : DecidedBy(d, a) => e <= d
  BY DEF FirstDecision
<1>3. PICK w \in Runners : Believed(Known(w), e, b) /\ Confirmed(Known(w), e, b)
  BY <1>1, DecidedByFacts
<1>4. setting.start \in Nat /\ setting.start <= e
  <2>1. Estimated(e, b)
    BY <1>1, <1>2, <1>3, BeliefSource
  <2> QED
    BY <2>1, EstimatedFacts, StartIsNat
<1>5. ASSUME NEW y \in Bad, \A z \in Bad : y <= z PROVE FALSE
  <2>1. y \in Nat /\ y > e /\ (Estimated(y, c) \/ DecidedBy(y, c))
    BY <1>5
  <2>2. \A z \in Nat : z > e /\ z < y => ~Estimated(z, c) /\ ~DecidedBy(z, c)
    BY <1>5
  <2> HIDE DEF Bad
  <2>3. \A z \in Nat : z < y => ~DecidedBy(z, c)
    <3> SUFFICES ASSUME NEW z \in Nat, z < y, DecidedBy(z, c) PROVE FALSE
      OBVIOUS
    <3>1. e <= z
      BY <1>2
    <3>2. z # e
      BY <1>1, DecidedByFacts
    <3> QED
      BY <1>1, <2>2, <3>1, <3>2
  <2>4. ~Estimated(y, c)
    <3> SUFFICES ASSUME Estimated(y, c) PROVE FALSE
      OBVIOUS
    <3> DEFINE z == y - 1
    <3>1. z \in Nat /\ z >= e /\ y # setting.start /\ z < y
      BY <1>1, <1>4, <2>1
    <3>2. PICK u \in Runners : Believed(Known(u), z, c) /\ (Confirmed(Known(u), z, c) \/ CoinOf(Env, z) = c)
      BY <3>1, EstimatedFacts
    <3> HIDE DEF z
    <3>3. CASE z = e
      <4>1. Confirmed(Known(u), e, c)
        BY <1>1, <3>2, <3>3
      <4>2. \E d \in Nat, a \in BOOLEAN : d < e /\ DecidedBy(d, a)
        BY <1>1, <1>3, <4>1, AuxsClash
      <4> QED
        BY <1>1, <1>2, <4>2
    <3>4. CASE z # e
      <4>1. z > e
        BY <1>1, <3>1, <3>4
      <4>2. Estimated(z, c) \/ \E d \in Nat : d < z /\ DecidedBy(d, c)
        BY <3>1, <3>2, BeliefSource
      <4> QED
        BY <2>1, <2>2, <2>3, <3>1, <4>1, <4>2
    <3> QED
      BY <3>3, <3>4
  <2>5. DecidedBy(y, c)
    BY <2>1, <2>4
  <2>6. PICK u \in Runners : Believed(Known(u), y, c)
    BY <2>5, DecidedByFacts
  <2>7. Estimated(y, c) \/ \E d \in Nat : d < y /\ DecidedBy(d, c)
    BY <2>1, <2>6, BeliefSource
  <2> QED
    BY <2>3, <2>4, <2>7
<1>6. Bad = {}
  BY <1>5, Least
<1> QED
  BY <1>6

(* Decisive epochs agree. *)
LEMMA OneDecision ==
    ASSUME Evidence, NEW d \in Nat, NEW e \in Nat, NEW b \in BOOLEAN, NEW c \in BOOLEAN,
           DecidedBy(d, b), DecidedBy(e, c)
    PROVE  b = c
<1> DEFINE Some == {y \in Nat : \E a \in BOOLEAN : DecidedBy(y, a)}
<1>1. PICK y \in Some : \A z \in Some : y <= z
  BY Least
<1>2. PICK a \in BOOLEAN : DecidedBy(y, a)
  BY <1>1
<1>3. FirstDecision(y, a)
  BY <1>1, <1>2 DEF FirstDecision
<1>4. y \in Nat /\ \A z \in Nat, o \in BOOLEAN : DecidedBy(z, o) => y <= z
  BY <1>3 DEF FirstDecision
<1> HIDE DEF Some
<1>5. ASSUME NEW z \in Nat, NEW o \in BOOLEAN, DecidedBy(z, o) PROVE o = a
  <2>1. CASE z = y
    BY <1>2, <1>5, <2>1, DecidedByFacts
  <2>2. CASE z # y
    <3>1. z > y
      BY <1>4, <1>5, <2>2
    <3> QED
      BY <1>3, <1>5, <3>1, Locked
  <2> QED
    BY <2>1, <2>2
<1> QED
  BY <1>5

(* Every estimate and every decision was an input. *)
LEMMA OnlyInputs ==
    ASSUME Evidence, NEW e \in Nat, NEW b \in BOOLEAN, DecidedBy(e, b)
    PROVE  \E w \in Runners : input[w] = b
<1> SUFFICES ASSUME \A w \in Runners : input[w] # b PROVE FALSE
  OBVIOUS
<1> DEFINE Bad == {y \in Nat : Estimated(y, b) \/ DecidedBy(y, b)}
<1>1. ASSUME NEW y \in Bad, \A z \in Bad : y <= z PROVE FALSE
  <2>1. y \in Nat /\ (Estimated(y, b) \/ DecidedBy(y, b))
    BY <1>1
  <2>2. \A z \in Nat : z < y => ~Estimated(z, b) /\ ~DecidedBy(z, b)
    BY <1>1
  <2> HIDE DEF Bad
  <2>3. ~Estimated(y, b)
    <3> SUFFICES ASSUME Estimated(y, b) PROVE FALSE
      OBVIOUS
    <3> DEFINE z == y - 1
    <3>1. z \in Nat /\ z < y /\ y # setting.start
      BY <2>1, EstimatedFacts, StartIsNat
    <3>2. PICK u \in Runners : Believed(Known(u), z, b)
      BY <3>1, EstimatedFacts
    <3> HIDE DEF z
    <3>3. Estimated(z, b) \/ \E d \in Nat : d < z /\ DecidedBy(d, b)
      BY <3>1, <3>2, BeliefSource
    <3> QED
      BY <2>1, <2>2, <3>1, <3>3
  <2>4. PICK u \in Runners : Believed(Known(u), y, b)
    BY <2>1, <2>3, DecidedByFacts
  <2>5. Estimated(y, b) \/ \E d \in Nat : d < y /\ DecidedBy(d, b)
    BY <2>1, <2>4, BeliefSource
  <2> QED
    BY <2>2, <2>3, <2>5
<1>2. Bad = {}
  BY <1>1, Least
<1> QED
  BY <1>2

(* What the evidence amounts to *)
LEMMA EvidenceSuffices == Evidence => Agreement /\ Validity
<1> SUFFICES ASSUME Evidence PROVE Agreement /\ Validity
  OBVIOUS
<1>1. \A n \in Runners : node[n].decision \in {None} \cup BOOLEAN
  BY DEF Evidence, Types, State
<1>2. Agreement
  BY <1>1, DecisionSource, OneDecision DEF Agreement
<1>3. Validity
  BY <1>1, DecisionSource, OnlyInputs DEF Validity
<1> QED
  BY <1>2, <1>3
-----------------------------------------------------------------------------
(* Evidence grows. *)

LEMMA Sets ==
    ASSUME NEW ev, NEW e, NEW b
    PROVE  /\ ByTerm(ev, e, b) \in SUBSET Validators
           /\ ByBVal(ev, e, b) \in SUBSET Validators
           /\ ByAux(ev, e, b) \in SUBSET Validators
BY DEF ByTerm, ByBVal, ByAux

(* Counting in a larger set *)
LEMMA CountsMore ==
    ASSUME NEW S \in SUBSET Validators, NEW T \in SUBSET Validators, S \subseteq T, NEW k \in Int
    PROVE  /\ Cardinality(S) > k => Cardinality(T) > k
           /\ Cardinality(S) >= k => Cardinality(T) >= k
<1>1. Cardinality(S) \in Nat /\ Cardinality(T) \in Nat /\ Cardinality(S) <= Cardinality(T)
  BY Counting
<1> QED
  BY <1>1

LEMMA ThresholdTypes == num_faulty \in Int /\ 2 * num_faulty \in Int /\ num_correct \in Int
BY Thresholds

LEMMA Monotone ==
    ASSUME NEW ev, NEW evv, ev \subseteq evv, NEW e, NEW b, NEW x, NEW i, NEW n
    PROVE  /\ ByTerm(ev, e, b) \subseteq ByTerm(evv, e, b)
           /\ ByBVal(ev, e, b) \subseteq ByBVal(evv, e, b)
           /\ ByAux(ev, e, b) \subseteq ByAux(evv, e, b)
           /\ Believed(ev, e, b) => Believed(evv, e, b)
           /\ Confirmed(ev, e, b) => Confirmed(evv, e, b)
           /\ Decisive(x, ev, e, b) => Decisive(x, evv, e, b)
           /\ Leads(x, ev, e, b) => Leads(x, evv, e, b)
           /\ Cardinality(ByTerm(ev, e, b)) > num_faulty => Cardinality(ByTerm(evv, e, b)) > num_faulty
           /\ Cardinality(ByBVal(ev, e, b) \ {n}) > num_faulty => Cardinality(ByBVal(evv, e, b) \ {n}) > num_faulty
<1>1. /\ ByTerm(ev, e, b) \subseteq ByTerm(evv, e, b)
      /\ ByBVal(ev, e, b) \subseteq ByBVal(evv, e, b)
      /\ ByAux(ev, e, b) \subseteq ByAux(evv, e, b)
  BY DEF ByTerm, ByBVal, ByAux
<1>2. /\ Believed(ev, e, b) => Believed(evv, e, b)
      /\ Confirmed(ev, e, b) => Confirmed(evv, e, b)
  BY <1>1, Sets, CountsMore, ThresholdTypes DEF Believed, Confirmed
<1>3. Cardinality(ByTerm(ev, e, b)) > num_faulty => Cardinality(ByTerm(evv, e, b)) > num_faulty
  BY <1>1, Sets, CountsMore, ThresholdTypes
<1>4. Cardinality(ByBVal(ev, e, b) \ {n}) > num_faulty => Cardinality(ByBVal(evv, e, b) \ {n}) > num_faulty
  <2>1. /\ ByBVal(ev, e, b) \ {n} \in SUBSET Validators /\ ByBVal(evv, e, b) \ {n} \in SUBSET Validators
        /\ ByBVal(ev, e, b) \ {n} \subseteq ByBVal(evv, e, b) \ {n}
    BY <1>1, Sets
  <2> QED
    BY <2>1, CountsMore, ThresholdTypes
<1> QED
  BY <1>1, <1>2, <1>3, <1>4 DEF Decisive, Leads

LEMMA EstimateGrows ==
    ASSUME NEW ev, NEW evv, ev \subseteq evv, NEW e, NEW b, NEW x, NEW i, Estimate(x, ev, i, e, b)
    PROVE  Estimate(x, evv, i, e, b)
<1>1. Leads(x, ev, e - 1, b) => Leads(x, evv, e - 1, b)
  BY Monotone
<1> QED
  BY <1>1 DEF Estimate

(* The rules survive a message that they are not about. *)
OwnRuled(n, m) == m.from = n /\ m.type \in {"BVal", "Aux", "Term"}

LEMMA RulesGrow ==
    ASSUME NEW x, NEW ev, NEW evv, NEW n, NEW i, NEW s, Rules(x, ev, n, i, s), ev \subseteq evv,
           \A m \in evv \ ev : ~OwnRuled(n, m)
    PROVE  Rules(x, evv, n, i, s)
<1>1. \A e, b : \A t \in {"BVal", "Aux", "Term"} : Msg(n, e, t, b) \in evv => Msg(n, e, t, b) \in ev
  <2>1. \A e, b : \A t \in {"BVal", "Aux", "Term"} : OwnRuled(n, Msg(n, e, t, b))
    BY DEF OwnRuled, Msg
  <2> QED
    BY <2>1
<1>2. BValRule(x, evv, n, i, s)
  <2> SUFFICES ASSUME NEW e \in Nat, NEW b \in BOOLEAN, Msg(n, e, "BVal", b) \in evv
               PROVE  e <= s.epoch /\ (Estimate(x, evv, i, e, b) \/ Cardinality(ByBVal(evv, e, b) \ {n}) > num_faulty)
    BY DEF BValRule
  <2>1. e <= s.epoch /\ (Estimate(x, ev, i, e, b) \/ Cardinality(ByBVal(ev, e, b) \ {n}) > num_faulty)
    BY <1>1 DEF Rules, BValRule
  <2> QED
    BY <2>1, Monotone, EstimateGrows
<1>3. AuxRule(evv, n, s)
  BY <1>1 DEF Rules, AuxRule
<1>4. TermRule(evv, n, s)
  BY <1>1 DEF Rules, TermRule
<1>5. DecisionRule(x, evv, s)
  <2> SUFFICES ASSUME NEW b \in BOOLEAN, s.decision = b
               PROVE  Decisive(x, evv, s.epoch, b) \/ Cardinality(ByTerm(evv, s.epoch, b)) > num_faulty
    BY DEF DecisionRule
  <2>1. Decisive(x, ev, s.epoch, b) \/ Cardinality(ByTerm(ev, s.epoch, b)) > num_faulty
    BY DEF Rules, DecisionRule
  <2> QED
    BY <2>1, Monotone
<1> QED
  BY <1>2, <1>3, <1>4, <1>5 DEF Rules

(* BVal goes out for an estimate, or when f + 1 others have sent it. *)
LEMMA SendingBVal ==
    ASSUME NEW x, NEW ev, NEW n, NEW i, NEW s, Rules(x, ev, n, i, s), NEW b \in BOOLEAN, s.epoch \in Nat,
           Estimate(x, ev, i, s.epoch, b) \/ Cardinality(ByBVal(ev, s.epoch, b) \ {n}) > num_faulty
    PROVE  Rules(x, ev \cup {Msg(n, s.epoch, "BVal", b)}, n, i, s)
<1> DEFINE own == Msg(n, s.epoch, "BVal", b)
           evv == ev \cup {own}
<1>1. \A e, c : /\ Msg(n, e, "Aux", c) # own /\ Msg(n, e, "Term", c) # own
                /\ Msg(n, e, "BVal", c) = own <=> e = s.epoch /\ c = b
  BY DEF Msg
<1>2. ev \subseteq evv
  OBVIOUS
<1> HIDE DEF own
<1>3. BValRule(x, evv, n, i, s)
  <2> SUFFICES ASSUME NEW e \in Nat, NEW c \in BOOLEAN, Msg(n, e, "BVal", c) \in evv
               PROVE  e <= s.epoch /\ (Estimate(x, evv, i, e, c) \/ Cardinality(ByBVal(evv, e, c) \ {n}) > num_faulty)
    BY DEF BValRule
  <2>1. e <= s.epoch /\ (Estimate(x, ev, i, e, c) \/ Cardinality(ByBVal(ev, e, c) \ {n}) > num_faulty)
    <3>1. CASE Msg(n, e, "BVal", c) \in ev
      BY <3>1 DEF Rules, BValRule
    <3>2. CASE Msg(n, e, "BVal", c) = own
      BY <1>1, <3>2
    <3> QED
      BY <3>1, <3>2
  <2> HIDE DEF evv
  <2> QED
    BY <1>2, <2>1, Monotone, EstimateGrows
<1>4. AuxRule(evv, n, s) /\ TermRule(evv, n, s)
  BY <1>1 DEF Rules, AuxRule, TermRule
<1>5. DecisionRule(x, evv, s)
  <2> SUFFICES ASSUME NEW c \in BOOLEAN, s.decision = c
               PROVE  Decisive(x, evv, s.epoch, c) \/ Cardinality(ByTerm(evv, s.epoch, c)) > num_faulty
    BY DEF DecisionRule
  <2>1. Decisive(x, ev, s.epoch, c) \/ Cardinality(ByTerm(ev, s.epoch, c)) > num_faulty
    BY DEF Rules, DecisionRule
  <2> HIDE DEF evv
  <2> QED
    BY <1>2, <2>1, Monotone
<1> QED
  BY <1>3, <1>4, <1>5 DEF Rules, own

(* Aux goes out for the only value believed in. *)
LEMMA SendingAux ==
    ASSUME NEW x, NEW ev, NEW n, NEW i, NEW s, Rules(x, ev, n, i, s), NEW b \in BOOLEAN, s.epoch \in Nat,
           s.bin_values = {b}
    PROVE  Rules(x, ev \cup {Msg(n, s.epoch, "Aux", b)}, n, i, s)
<1> DEFINE own == Msg(n, s.epoch, "Aux", b)
           evv == ev \cup {own}
<1>1. \A e, c : /\ Msg(n, e, "BVal", c) # own /\ Msg(n, e, "Term", c) # own
                /\ Msg(n, e, "Aux", c) = own <=> e = s.epoch /\ c = b
  BY DEF Msg
<1>2. ev \subseteq evv
  OBVIOUS
<1> HIDE DEF own
<1>3. BValRule(x, evv, n, i, s)
  <2> SUFFICES ASSUME NEW e \in Nat, NEW c \in BOOLEAN, Msg(n, e, "BVal", c) \in evv
               PROVE  e <= s.epoch /\ (Estimate(x, evv, i, e, c) \/ Cardinality(ByBVal(evv, e, c) \ {n}) > num_faulty)
    BY DEF BValRule
  <2>1. e <= s.epoch /\ (Estimate(x, ev, i, e, c) \/ Cardinality(ByBVal(ev, e, c) \ {n}) > num_faulty)
    BY <1>1 DEF Rules, BValRule
  <2> HIDE DEF evv
  <2> QED
    BY <1>2, <2>1, Monotone, EstimateGrows
<1>4. AuxRule(evv, n, s)
  <2> SUFFICES ASSUME NEW e \in Nat, NEW c \in BOOLEAN, Msg(n, e, "Aux", c) \in evv
               PROVE  /\ e <= s.epoch
                      /\ e = s.epoch => c \in s.bin_values
                      /\ \A d \in BOOLEAN : Msg(n, e, "Aux", d) \in evv => c = d
    BY DEF AuxRule
  <2>1. \A d \in BOOLEAN : Msg(n, e, "Aux", d) \in evv =>
            /\ e <= s.epoch /\ (e = s.epoch => d = b)
            /\ e # s.epoch => Msg(n, e, "Aux", d) \in ev
    BY <1>1 DEF Rules, AuxRule
  <2> QED
    BY <2>1 DEF Rules, AuxRule
<1>5. TermRule(evv, n, s)
  BY <1>1 DEF Rules, TermRule
<1>6. DecisionRule(x, evv, s)
  <2> SUFFICES ASSUME NEW c \in BOOLEAN, s.decision = c
               PROVE  Decisive(x, evv, s.epoch, c) \/ Cardinality(ByTerm(evv, s.epoch, c)) > num_faulty
    BY DEF DecisionRule
  <2>1. Decisive(x, ev, s.epoch, c) \/ Cardinality(ByTerm(ev, s.epoch, c)) > num_faulty
    BY DEF Rules, DecisionRule
  <2> HIDE DEF evv
  <2> QED
    BY <1>2, <2>1, Monotone
<1> QED
  BY <1>3, <1>4, <1>5, <1>6 DEF Rules, own
-----------------------------------------------------------------------------
(* The state s of a node n with input i in the course of a call; ev is     *)
(* what it knows.  First its SBV broadcast.                                *)

(* Those who have been counted have sent what they were counted for. *)
Tallied(ev, n, s) ==
    \A b \in BOOLEAN :
        /\ s.received_bval[b] \subseteq ByBVal(ev, s.epoch, b)
        /\ s.received_aux[b] \subseteq ByAux(ev, s.epoch, b)
        /\ n \in s.received_bval[b] => b \in s.sent_bval

(* Candidate values *)
Candidates(ev, e, vals) ==
    /\ vals # {}
    /\ \A b \in vals : Believed(ev, e, b)
    /\ \A b \in BOOLEAN : vals = {b} => Confirmed(ev, e, b)

(* No count passes 2f + 1 unnoticed, nor N - f Auxs, nor f + 1. *)
BinValues(s) == \A b \in BOOLEAN : b \in s.bin_values <=> Cardinality(s.received_bval[b]) > 2 * num_faulty

OutputDue(s) == s.bin_values # {} /\ CountAux(s) >= num_correct => s.sbv_output # None

Relayed(s) == \A b \in BOOLEAN : Cardinality(s.received_bval[b]) > num_faulty => b \in s.sent_bval

SbvSound(x, ev, n, i, s) ==
    /\ s \in State /\ Tallied(ev, n, s) /\ Rules(x, ev, n, i, s) /\ BinValues(s)
    /\ s.sbv_output # None => Candidates(ev, s.epoch, s.sbv_output)

(* The rest of the state: no decision is missed, the coin is the epoch's,  *)
(* and our share of each coin that is known is out.                        *)
TermRecord(ev, n, s) ==
    \A b \in BOOLEAN :
        s.received_term[b] \subseteq ByTerm(ev, s.epoch, b) /\ n \notin s.received_term[b]

TermsFew(s) == s.decision = None => \A b \in BOOLEAN : Cardinality(s.received_term[b]) <= num_faulty

CoinRule(x, s) ==
    IF s.coin = None THEN InitialCoin(s.epoch) = None ELSE s.coin = CoinOf(x, s.epoch)

ShareRule(x, ev, n, s) ==
    /\ s.ts.terminated = TRUE => s.ts.had_input = TRUE
    /\ s.coin # None /\ s.epoch \in DOMAIN x.coin => s.ts.had_input = TRUE
    /\ n \in Validators =>
          /\ s.ts.had_input = TRUE => Msg(n, s.epoch, "Coin", TRUE) \in ev
          /\ \A e \in DOMAIN x.coin : e < s.epoch => Msg(n, e, "Coin", TRUE) \in ev

Place(x, i, s) == x.start <= s.epoch /\ (i # None => s.epoch > 0 \/ s.estimated # None)

(* ReceivedMessages keeps one message of a kind. *)
SameSlot(m, q) ==
    m.from = q.from /\ m.epoch = q.epoch /\ m.type = q.type /\ (m.type \in {"BVal", "Aux"} => m.val = q.val)

Slots(queued) == \A m, q \in queued : SameSlot(m, q) => m = q

QueueRule(ev, n, s) == Slots(s.queue) /\ \A m \in s.queue : m \in ev /\ m.from # n

Local(x, ev, n, i, s) ==
    /\ s.conf_values # None => Candidates(ev, s.epoch, s.conf_values)
    /\ TermRecord(ev, n, s) /\ CoinRule(x, s) /\ ShareRule(x, ev, n, s) /\ Place(x, i, s) /\ QueueRule(ev, n, s)

(* known is what the node knew before the call. *)
Sound(x, known, n, i, s) ==
    LET ev == known \cup s.out
    IN  SbvSound(x, ev, n, i, s) /\ OutputDue(s) /\ Relayed(s) /\ Local(x, ev, n, i, s) /\ TermsFew(s)

(* Fields that handlers leave alone *)
Kept(s, t) ==
    /\ t.epoch = s.epoch /\ t.decision = s.decision /\ t.conf_values = s.conf_values /\ t.coin = s.coin
    /\ t.received_term = s.received_term /\ t.ts = s.ts /\ t.queue = s.queue /\ t.estimated = s.estimated
    /\ s.sbv_output # None => t.sbv_output # None

SbvKept(s, t) ==
    /\ t.epoch = s.epoch /\ t.decision = s.decision /\ t.bin_values = s.bin_values
    /\ t.received_bval = s.received_bval /\ t.sent_bval = s.sent_bval
    /\ t.received_aux = s.received_aux /\ t.sbv_output = s.sbv_output

LEMMA CandidatesGrow ==
    ASSUME NEW ev, NEW evv, ev \subseteq evv, NEW e, NEW vals \in SUBSET BOOLEAN, Candidates(ev, e, vals)
    PROVE  Candidates(evv, e, vals)
<1>1. \A b \in BOOLEAN : (Believed(ev, e, b) => Believed(evv, e, b)) /\ (Confirmed(ev, e, b) => Confirmed(evv, e, b))
  BY Monotone
<1> QED
  BY <1>1 DEF Candidates

LEMMA TalliedGrows ==
    ASSUME NEW ev, NEW evv, ev \subseteq evv, NEW n, NEW s, Tallied(ev, n, s)
    PROVE  Tallied(evv, n, s)
<1>1. \A b \in BOOLEAN : /\ ByBVal(ev, s.epoch, b) \subseteq ByBVal(evv, s.epoch, b)
                         /\ ByAux(ev, s.epoch, b) \subseteq ByAux(evv, s.epoch, b)
  BY Monotone
<1> QED
  BY <1>1 DEF Tallied

LEMMA LocalGrows ==
    ASSUME NEW x, NEW ev, NEW evv, ev \subseteq evv, NEW n, NEW i, NEW s \in State, Local(x, ev, n, i, s)
    PROVE  Local(x, evv, n, i, s)
<1>1. s.conf_values # None => Candidates(evv, s.epoch, s.conf_values)
  BY CandidatesGrow DEF Local, State
<1>2. \A b \in BOOLEAN : ByTerm(ev, s.epoch, b) \subseteq ByTerm(evv, s.epoch, b)
  BY Monotone
<1>3. TermRecord(evv, n, s)
  BY <1>2 DEF Local, TermRecord
<1>4. ShareRule(x, evv, n, s) /\ QueueRule(evv, n, s)
  BY DEF Local, ShareRule, QueueRule
<1> QED
  BY <1>1, <1>3, <1>4 DEF Local

LEMMA LocalKept ==
    ASSUME NEW x, NEW ev, NEW n, NEW i, NEW s, NEW t, Local(x, ev, n, i, s), Kept(s, t)
    PROVE  Local(x, ev, n, i, t)
<1>1. TermRecord(ev, n, t) /\ (t.conf_values # None => Candidates(ev, t.epoch, t.conf_values))
  BY DEF Local, Kept, TermRecord
<1>2. CoinRule(x, t) /\ ShareRule(x, ev, n, t)
  BY DEF Local, Kept, CoinRule, ShareRule
<1>3. Place(x, i, t) /\ QueueRule(ev, n, t)
  BY DEF Local, Kept, Place, QueueRule
<1> QED
  BY <1>1, <1>2, <1>3 DEF Local

LEMMA RulesKept ==
    ASSUME NEW x, NEW ev, NEW n, NEW i, NEW s, NEW t, Rules(x, ev, n, i, s),
           t.epoch = s.epoch, t.decision = s.decision, s.bin_values \subseteq t.bin_values
    PROVE  Rules(x, ev, n, i, t)
<1>1. BValRule(x, ev, n, i, t) /\ TermRule(ev, n, t) /\ DecisionRule(x, ev, t)
  BY DEF Rules, BValRule, TermRule, DecisionRule
<1>2. AuxRule(ev, n, t)
  BY DEF Rules, AuxRule
<1> QED
  BY <1>1, <1>2 DEF Rules

LEMMA SbvSoundKept ==
    ASSUME NEW x, NEW ev, NEW n, NEW i, NEW s, NEW t \in State, SbvKept(s, t)
    PROVE  /\ SbvSound(x, ev, n, i, s) => SbvSound(x, ev, n, i, t)
           /\ OutputDue(s) => OutputDue(t)
           /\ Relayed(s) => Relayed(t)
<1>1. Rules(x, ev, n, i, s) => Rules(x, ev, n, i, t)
  BY RulesKept DEF SbvKept
<1>2. Tallied(ev, n, s) => Tallied(ev, n, t)
  BY DEF SbvKept, Tallied
<1>3. BinValues(s) => BinValues(t)
  BY DEF SbvKept, BinValues
<1>4. (OutputDue(s) => OutputDue(t)) /\ (Relayed(s) => Relayed(t))
  BY DEF SbvKept, OutputDue, CountAux, Relayed
<1> QED
  BY <1>1, <1>2, <1>3, <1>4 DEF SbvSound, SbvKept

(* Messages other than our own BVals, Auxs and Terms *)
LEMMA SbvSoundGrows ==
    ASSUME NEW x, NEW ev, NEW evv, NEW n, NEW i, NEW s, SbvSound(x, ev, n, i, s), ev \subseteq evv,
           \A m \in evv \ ev : ~OwnRuled(n, m)
    PROVE  SbvSound(x, evv, n, i, s)
<1>1. s \in State /\ Tallied(ev, n, s) /\ Rules(x, ev, n, i, s) /\ BinValues(s)
  BY DEF SbvSound
<1>2. Tallied(evv, n, s) /\ Rules(x, evv, n, i, s)
  BY <1>1, TalliedGrows, RulesGrow
<1>3. s.sbv_output # None => Candidates(evv, s.epoch, s.sbv_output)
  BY <1>1, CandidatesGrow DEF SbvSound, State
<1> QED
  BY <1>1, <1>2, <1>3 DEF SbvSound
-----------------------------------------------------------------------------
(* The handlers of the SBV broadcast *)

LEMMA StateFields ==
    ASSUME NEW s \in State
    PROVE  /\ s.epoch \in Nat /\ s.bin_values \in SUBSET BOOLEAN /\ s.sent_bval \in SUBSET BOOLEAN
           /\ \A b \in BOOLEAN : /\ s.received_bval[b] \in SUBSET Validators
                                 /\ s.received_aux[b] \in SUBSET Validators
                                 /\ s.received_term[b] \in SUBSET Validators
           /\ s.out \in SUBSET Message /\ s.queue \in SUBSET Message
           /\ s.decision \in {None} \cup BOOLEAN /\ s.coin \in {None} \cup BOOLEAN
           /\ s.estimated \in {None} \cup BOOLEAN
           /\ s.sbv_output \in {None} \cup SUBSET BOOLEAN /\ s.conf_values \in {None} \cup SUBSET BOOLEAN
BY DEF State, BoolMultimap

(* Counting one more validator *)
LEMMA AddOne ==
    ASSUME NEW S \in SUBSET Validators, NEW v \in Validators, v \notin S
    PROVE  /\ S \cup {v} \in SUBSET Validators /\ Cardinality(S) \in Nat
           /\ Cardinality(S \cup {v}) = Cardinality(S) + 1
BY Counting, FS_AddElement

(* count_aux adds up two numbers. *)
AuxFor(s, b) == IF b \in s.bin_values THEN Cardinality(s.received_aux[b]) ELSE 0

LEMMA CountAuxFacts ==
    ASSUME NEW s \in State
    PROVE  /\ AuxFor(s, TRUE) \in Nat /\ AuxFor(s, FALSE) \in Nat
           /\ CountAux(s) = AuxFor(s, TRUE) + AuxFor(s, FALSE)
<1>1. \A b \in BOOLEAN : Cardinality(s.received_aux[b]) \in Nat
  BY Counting, StateFields
<1>2. AuxFor(s, TRUE) \in Nat /\ AuxFor(s, FALSE) \in Nat
  BY <1>1 DEF AuxFor
<1>3. CountAux(s) = AuxFor(s, TRUE) + AuxFor(s, FALSE)
  BY DEF CountAux, AuxFor
<1> QED
  BY <1>2, <1>3

(* N - f Auxs for values in bin_values are N - f for one of them, if they  *)
(* are all for that one.                                                   *)
LEMMA AuxsForOne ==
    ASSUME NEW s \in State, CountAux(s) >= num_correct, NEW b \in BOOLEAN,
           \A c \in BOOLEAN : c # b => c \notin s.bin_values \/ s.received_aux[c] = {}
    PROVE  Cardinality(s.received_aux[b]) >= num_correct /\ s.received_aux[b] # {} /\ b \in s.bin_values
<1>0. num_correct \in Nat /\ num_correct > 0
  BY Thresholds
<1>1. \A c \in BOOLEAN : c # b => AuxFor(s, c) = 0
  BY FS_EmptySet DEF AuxFor
<1>2. AuxFor(s, TRUE) \in Nat /\ AuxFor(s, FALSE) \in Nat /\ CountAux(s) = AuxFor(s, TRUE) + AuxFor(s, FALSE)
  BY CountAuxFacts
<1> DEFINE p == AuxFor(s, TRUE)
           q == AuxFor(s, FALSE)
<1>3. (p = 0 => q >= num_correct) /\ (q = 0 => p >= num_correct)
  <2>1. p \in Nat /\ q \in Nat /\ p + q >= num_correct
    BY <1>2
  <2> HIDE DEF p, q
  <2> QED
    BY <1>0, <2>1
<1>4. AuxFor(s, b) >= num_correct
  <2>1. CASE b = TRUE
    <3>1. q = 0
      BY <1>1, <2>1
    <3>2. p >= num_correct
      BY <1>3, <3>1
    <3> QED
      BY <2>1, <3>2
  <2>2. CASE b = FALSE
    <3>1. p = 0
      BY <1>1, <2>2
    <3>2. q >= num_correct
      BY <1>3, <3>1
    <3> QED
      BY <2>2, <3>2
  <2> QED
    BY <2>1, <2>2
<1> HIDE DEF p, q
<1>5. b \in s.bin_values /\ AuxFor(s, b) = Cardinality(s.received_aux[b])
  BY <1>0, <1>4 DEF AuxFor
<1> QED
  BY <1>0, <1>4, <1>5, FS_EmptySet

LEMMA TallyFacts ==
    ASSUME NEW x, NEW ev, NEW n, NEW i, NEW s, SbvSound(x, ev, n, i, s), NEW b \in BOOLEAN
    PROVE  /\ b \in s.bin_values => Believed(ev, s.epoch, b)
           /\ Cardinality(s.received_aux[b]) >= num_correct => Confirmed(ev, s.epoch, b)
<1>1. s \in State /\ Tallied(ev, n, s) /\ BinValues(s)
  BY DEF SbvSound
<1>2. /\ s.received_bval[b] \in SUBSET Validators /\ s.received_aux[b] \in SUBSET Validators
      /\ s.received_bval[b] \subseteq ByBVal(ev, s.epoch, b)
      /\ s.received_aux[b] \subseteq ByAux(ev, s.epoch, b)
  BY <1>1, StateFields DEF Tallied
<1>3. b \in s.bin_values => Cardinality(s.received_bval[b]) > 2 * num_faulty
  BY <1>1 DEF BinValues
<1> QED
  BY <1>2, <1>3, Sets, CountsMore, ThresholdTypes DEF Believed, Confirmed

(* try_output: what goes out is backed by what was received. *)
TriedOutput(s, t) ==
    /\ Kept(s, t) /\ t.bin_values = s.bin_values /\ t.received_bval = s.received_bval
    /\ t.sent_bval = s.sent_bval /\ t.received_aux = s.received_aux /\ t.out = s.out

LEMMA TryOutputSound ==
    ASSUME NEW x, NEW ev, NEW n, NEW i, NEW s, SbvSound(x, ev, n, i, s)
    PROVE  LET t == TryOutput(s)
           IN  SbvSound(x, ev, n, i, t) /\ OutputDue(t) /\ TriedOutput(s, t)
<1> DEFINE t == TryOutput(s)
           vals == {b \in s.bin_values : s.received_aux[b] # {}}
           enough == s.sbv_output = None /\ s.bin_values # {} /\ CountAux(s) >= num_correct
<1>0. s \in State /\ Rules(x, ev, n, i, s) /\ Tallied(ev, n, s) /\ BinValues(s)
  BY DEF SbvSound
<1>1. CASE ~enough
  <2>1. t = s
    BY <1>1 DEF TryOutput
  <2>2. OutputDue(s)
    BY <1>1 DEF OutputDue
  <2> QED
    BY <2>1, <2>2 DEF TriedOutput, Kept
<1>2. CASE enough
  <2>1. t = [s EXCEPT !.sbv_output = vals]
    BY <1>2 DEF TryOutput
  <2>2. vals \in SUBSET BOOLEAN /\ s.bin_values \in SUBSET BOOLEAN
    BY <1>0, StateFields
  <2>3. t \in State /\ t.sbv_output = vals
    <3> HIDE DEF vals
    <3> QED
      BY <1>0, <2>1, <2>2 DEF State
  <2>4. TriedOutput(s, t)
    BY <1>0, <2>1, <1>2 DEF State, TriedOutput, Kept
  <2>5. OutputDue(t)
    BY <2>2, <2>3, NoneAssumption DEF OutputDue
  <2>6. vals # {}
    <3> SUFFICES ASSUME vals = {} PROVE FALSE
      OBVIOUS
    <3>1. \A c \in BOOLEAN : c \notin s.bin_values \/ s.received_aux[c] = {}
      OBVIOUS
    <3> HIDE DEF vals
    <3> QED
      BY <1>0, <1>2, <3>1, AuxsForOne
  <2>7. ASSUME NEW b \in BOOLEAN, vals = {b} PROVE Confirmed(ev, s.epoch, b)
    <3>1. \A c \in BOOLEAN : c # b => c \notin s.bin_values \/ s.received_aux[c] = {}
      BY <2>7
    <3> HIDE DEF vals
    <3>2. Cardinality(s.received_aux[b]) >= num_correct
      BY <1>0, <1>2, <3>1, AuxsForOne
    <3> QED
      BY <3>2, TallyFacts
  <2>8. \A b \in vals : Believed(ev, s.epoch, b)
    BY <2>2, TallyFacts
  <2>9. Candidates(ev, t.epoch, t.sbv_output)
    <3> HIDE DEF vals
    <3> QED
      BY <2>3, <2>4, <2>6, <2>7, <2>8 DEF Candidates, TriedOutput, Kept
  <2> HIDE DEF t, vals
  <2>10. Rules(x, ev, n, i, t)
    BY <1>0, <2>4, RulesKept DEF TriedOutput, Kept
  <2>11. Tallied(ev, n, t) /\ BinValues(t)
    BY <1>0, <2>4 DEF TriedOutput, Kept, Tallied, BinValues
  <2> QED
    BY <2>3, <2>4, <2>5, <2>9, <2>10, <2>11 DEF SbvSound, t
<1> QED
  BY <1>1, <1>2

(* handle_aux *)
HandledAux(s, t) ==
    /\ Kept(s, t) /\ t.bin_values = s.bin_values /\ t.received_bval = s.received_bval
    /\ t.sent_bval = s.sent_bval /\ t.out = s.out

LEMMA HandleAuxSound ==
    ASSUME NEW x, NEW ev, NEW n, NEW i, NEW s, SbvSound(x, ev, n, i, s), NEW v \in Validators, NEW b \in BOOLEAN,
           v \in ByAux(ev, s.epoch, b)
    PROVE  LET t == HandleAux(s, v, b)
           IN  /\ SbvSound(x, ev, n, i, t) /\ HandledAux(s, t)
               /\ OutputDue(s) \/ v \notin s.received_aux[b] => OutputDue(t)
<1> DEFINE u == [s EXCEPT !.received_aux[b] = @ \cup {v}]
           t == HandleAux(s, v, b)
<1>0. s \in State /\ Rules(x, ev, n, i, s) /\ Tallied(ev, n, s) /\ BinValues(s)
  BY DEF SbvSound
<1>1. CASE v \in s.received_aux[b]
  <2>1. t = [s EXCEPT !.faults = @ \cup {v}]
    BY <1>1 DEF HandleAux, Blame
  <2>2. t \in State /\ SbvKept(s, t) /\ HandledAux(s, t)
    <3>1. s.faults \cup {v} \in SUBSET Validators
      BY <1>0 DEF State
    <3> QED
      BY <1>0, <2>1, <3>1 DEF State, SbvKept, HandledAux, Kept
  <2> QED
    BY <1>1, <2>2, SbvSoundKept
<1>2. CASE v \notin s.received_aux[b]
  <2>1. t = TryOutput(u)
    BY <1>2 DEF HandleAux
  <2>2. /\ u \in State /\ Kept(s, u) /\ u.bin_values = s.bin_values /\ u.received_bval = s.received_bval
        /\ u.sent_bval = s.sent_bval /\ u.out = s.out /\ u.sbv_output = s.sbv_output
        /\ u.received_aux[b] = s.received_aux[b] \cup {v}
        /\ \A c \in BOOLEAN : c # b => u.received_aux[c] = s.received_aux[c]
    <3>1. [s.received_aux EXCEPT ![b] = @ \cup {v}] \in BoolMultimap
      BY <1>0 DEF State, BoolMultimap
    <3> QED
      BY <1>0, <3>1 DEF State, BoolMultimap, Kept
  <2> HIDE DEF u
  <2>3. Rules(x, ev, n, i, u)
    BY <1>0, <2>2, RulesKept DEF Kept
  <2>4. Tallied(ev, n, u) /\ BinValues(u)
    BY <1>0, <2>2 DEF Tallied, BinValues, Kept
  <2>5. SbvSound(x, ev, n, i, u)
    BY <2>2, <2>3, <2>4 DEF SbvSound, Kept
  <2>6. SbvSound(x, ev, n, i, t) /\ OutputDue(t) /\ TriedOutput(u, t)
    BY <2>1, <2>5, TryOutputSound
  <2> HIDE DEF t
  <2>7. HandledAux(s, t)
    BY <2>2, <2>6 DEF TriedOutput, HandledAux, Kept
  <2> QED
    BY <2>6, <2>7 DEF t
<1> QED
  BY <1>1, <1>2

LEMMA MessageTypes ==
    ASSUME NEW v \in Validators, NEW e \in Nat
    PROVE  /\ \A b \in BOOLEAN : \A type \in {"BVal", "Aux", "Term", "Coin"} : Msg(v, e, type, b) \in Message
           /\ \A vals \in SUBSET BOOLEAN : Msg(v, e, "Conf", vals) \in Message
BY DEF Msg, Message

LEMMA MulticastFacts ==
    ASSUME NEW s \in State, NEW n \in Validators, NEW e, NEW type, NEW val, Msg(n, e, type, val) \in Message
    PROVE  LET t == Multicast(s, n, e, type, val)
           IN  /\ t \in State /\ Kept(s, t) /\ SbvKept(s, t) /\ t.received_conf = s.received_conf
               /\ t.out = s.out \cup {Msg(n, e, type, val)}
<1> DEFINE m == Msg(n, e, type, val)
           t == Multicast(s, n, e, type, val)
<1>1. t = [s EXCEPT !.out = @ \cup {m}]
  BY DEF Multicast, is_validator
<1> HIDE DEF m, t
<1>2. s.out \cup {m} \in SUBSET Message
  BY StateFields DEF m
<1>3. t \in State /\ t.out = s.out \cup {m} /\ Kept(s, t) /\ SbvKept(s, t) /\ t.received_conf = s.received_conf
  BY <1>1, <1>2 DEF State, Kept, SbvKept
<1> QED
  BY <1>3 DEF m, t

(* A call only sends messages of our own. *)
Sends(n, s, t) == s.out \subseteq t.out /\ \A m \in t.out : m \in s.out \/ m.from = n

LEMMA OwnFrom == \A n, e, type, val : Msg(n, e, type, val).from = n
BY DEF Msg

(* send(Aux(b)), for the first value in bin_values *)
SentAux(n, s, t) ==
    /\ Kept(s, t) /\ t.bin_values = s.bin_values /\ t.received_bval = s.received_bval
    /\ t.sent_bval = s.sent_bval /\ Sends(n, s, t)

LEMMA SendAuxSound ==
    ASSUME NEW x, NEW known, NEW n, NEW i, NEW s, SbvSound(x, known \cup s.out, n, i, s), NEW b \in BOOLEAN,
           s.bin_values = {b}, n \notin s.received_aux[b]
    PROVE  LET t == SendAux(s, n, b)
           IN  SbvSound(x, known \cup t.out, n, i, t) /\ OutputDue(t) /\ SentAux(n, s, t)
<1> DEFINE t == SendAux(s, n, b)
           m == Msg(n, s.epoch, "Aux", b)
           u == Multicast(s, n, s.epoch, "Aux", b)
           ev == known \cup s.out
           evv == known \cup u.out
<1>0. s \in State /\ Rules(x, ev, n, i, s) /\ Tallied(ev, n, s) /\ BinValues(s) /\ s.epoch \in Nat
  BY StateFields DEF SbvSound
<1>1. CASE n \in Validators
  <2>1. m \in Message
    BY <1>0, <1>1, MessageTypes
  <2>2. u \in State /\ Kept(s, u) /\ SbvKept(s, u) /\ u.out = s.out \cup {m}
    BY <1>0, <1>1, <2>1, MulticastFacts
  <2>3. evv = ev \cup {m} /\ ev \subseteq evv
    BY <2>2
  <2>4. Rules(x, evv, n, i, s)
    BY <1>0, <2>3, SendingAux
  <2> HIDE DEF u, evv, ev
  <2>5. Tallied(evv, n, s)
    BY <1>0, <2>3, TalliedGrows
  <2>6. s.sbv_output # None => Candidates(evv, s.epoch, s.sbv_output)
    BY <1>0, <2>3, CandidatesGrow, StateFields DEF SbvSound, ev
  <2>7. SbvSound(x, evv, n, i, s)
    BY <1>0, <2>4, <2>5, <2>6 DEF SbvSound
  <2>8. SbvSound(x, evv, n, i, u)
    BY <2>2, <2>7, SbvSoundKept
  <2>9. n \in ByAux(evv, u.epoch, b)
    BY <1>1, <2>2, <2>3 DEF ByAux, Kept
  <2>10. t = HandleAux(u, n, b)
    BY <1>1 DEF SendAux, is_validator, u
  <2>11. n \notin u.received_aux[b]
    BY <2>2 DEF SbvKept
  <2>12. SbvSound(x, evv, n, i, t) /\ HandledAux(u, t) /\ OutputDue(t)
    BY <1>1, <2>8, <2>9, <2>10, <2>11, HandleAuxSound
  <2> HIDE DEF t
  <2>13. SentAux(n, s, t) /\ t.out = u.out
    BY <2>2, OwnFrom, <2>12 DEF SentAux, HandledAux, Kept, SbvKept, Sends
  <2> QED
    BY <2>12, <2>13 DEF t, evv
<1>2. CASE n \notin Validators
  <2>1. t = TryOutput(s)
    BY <1>2 DEF SendAux, is_validator
  <2>2. SbvSound(x, ev, n, i, t) /\ OutputDue(t) /\ TriedOutput(s, t)
    BY <2>1, TryOutputSound
  <2> HIDE DEF t
  <2>3. SentAux(n, s, t) /\ t.out = s.out
    BY <2>2 DEF SentAux, TriedOutput, Sends
  <2> QED
    BY <2>2, <2>3 DEF t
<1> QED
  BY <1>1, <1>2

(* The first half of handle_bval, with a first BVal from v *)
Inserted(n, v, bs, s, t) ==
    /\ Kept(s, t) /\ t.sent_bval = s.sent_bval /\ Sends(n, s, t)
    /\ \A c \in BOOLEAN :
          t.received_bval[c] = IF c \in bs THEN s.received_bval[c] \cup {v} ELSE s.received_bval[c]

Countable(ev, n, v, s, b) ==
    v \in ByBVal(ev, s.epoch, b) /\ v \notin s.received_bval[b] /\ (v = n => b \in s.sent_bval)

LEMMA InsertBValSound ==
    ASSUME NEW x, NEW known, NEW n, NEW i, NEW s, SbvSound(x, known \cup s.out, n, i, s), OutputDue(s),
           NEW v \in Validators, NEW b \in BOOLEAN, Countable(known \cup s.out, n, v, s, b)
    PROVE  LET t == InsertBVal(s, n, v, b)
           IN  SbvSound(x, known \cup t.out, n, i, t) /\ OutputDue(t) /\ Inserted(n, v, {b}, s, t)
<1> DEFINE u == [s EXCEPT !.received_bval[b] = @ \cup {v}]
           w == [u EXCEPT !.bin_values = @ \cup {b}]
           t == InsertBVal(s, n, v, b)
           ev == known \cup s.out
           old == Cardinality(s.received_bval[b])
<1>0. /\ s \in State /\ Rules(x, ev, n, i, s) /\ Tallied(ev, n, s) /\ BinValues(s)
      /\ v \in ByBVal(ev, s.epoch, b) /\ v \notin s.received_bval[b] /\ (v = n => b \in s.sent_bval)
  BY DEF SbvSound, Countable
<1>1. s.received_bval[b] \in SUBSET Validators /\ s.bin_values \in SUBSET BOOLEAN /\ s.epoch \in Nat
  BY <1>0, StateFields
<1>2. /\ u \in State /\ Kept(s, u) /\ u.received_bval[b] = s.received_bval[b] \cup {v}
      /\ \A c \in BOOLEAN : c # b => u.received_bval[c] = s.received_bval[c]
      /\ u.bin_values = s.bin_values /\ u.sent_bval = s.sent_bval /\ u.sbv_output = s.sbv_output
      /\ u.received_aux = s.received_aux /\ u.out = s.out
  <2>1. [s.received_bval EXCEPT ![b] = @ \cup {v}] \in BoolMultimap
    BY <1>0 DEF State, BoolMultimap
  <2> QED
    BY <1>0, <2>1 DEF State, BoolMultimap, Kept
<1>3. old \in Nat /\ Cardinality(u.received_bval[b]) = old + 1 /\ num_faulty \in Nat
  BY <1>0, <1>1, <1>2, AddOne, Thresholds
<1>4. (b \in s.bin_values) <=> old > 2 * num_faulty
  BY <1>0 DEF BinValues
<1>5. t = IF Cardinality(u.received_bval[b]) # 2 * num_faulty + 1 THEN u
          ELSE IF w.bin_values # BOOLEAN THEN SendAux(w, n, b) ELSE TryOutput(w)
  BY DEF InsertBVal
<1> HIDE DEF u, old
<1>6. \A c \in BOOLEAN : c # b => (c \in s.bin_values <=> Cardinality(u.received_bval[c]) > 2 * num_faulty)
  BY <1>0, <1>2 DEF BinValues
<1>7. Tallied(ev, n, u)
  <2> HIDE DEF ev
  <2> QED
    BY <1>0, <1>2 DEF Tallied, Kept, ev
<1>8. Inserted(n, v, {b}, s, u)
  BY <1>2 DEF Inserted, Sends
<1>9. CASE old + 1 # 2 * num_faulty + 1
  <2>1. t = u
    BY <1>3, <1>5, <1>9
  <2>2. BinValues(u)
    <3>1. b \in s.bin_values <=> Cardinality(u.received_bval[b]) > 2 * num_faulty
      BY <1>3, <1>4, <1>9
    <3> QED
      BY <1>2, <1>6, <3>1 DEF BinValues
  <2>3. OutputDue(u)
    BY <1>2 DEF OutputDue, CountAux
  <2>4. Rules(x, ev, n, i, u)
    BY <1>0, <1>2, RulesKept DEF Kept
  <2>5. SbvSound(x, ev, n, i, u)
    BY <1>2, <1>7, <2>2, <2>4 DEF SbvSound, Kept
  <2> QED
    BY <1>2, <1>8, <2>1, <2>3, <2>5
<1>10. CASE old + 1 = 2 * num_faulty + 1
  <2>1. b \notin s.bin_values
    BY <1>3, <1>4, <1>10
  <2>2. /\ w \in State /\ Kept(u, w) /\ w.bin_values = s.bin_values \cup {b}
        /\ w.received_bval = u.received_bval /\ w.sent_bval = s.sent_bval /\ w.sbv_output = s.sbv_output
        /\ w.received_aux = s.received_aux /\ w.out = s.out
    <3>1. u.bin_values \cup {b} \in SUBSET BOOLEAN
      BY <1>1, <1>2
    <3> QED
      BY <1>2, <3>1 DEF State, Kept
  <2>3. t = IF w.bin_values # BOOLEAN THEN SendAux(w, n, b) ELSE TryOutput(w)
    BY <1>3, <1>5, <1>10
  <2> HIDE DEF w, t
  <2>4. Kept(s, w)
    BY <1>2, <2>2 DEF Kept
  <2>5. BinValues(w)
    <3>1. Cardinality(u.received_bval[b]) > 2 * num_faulty
      BY <1>3, <1>10
    <3> QED
      BY <1>6, <2>2, <3>1 DEF BinValues
  <2>6. Rules(x, ev, n, i, w)
    BY <1>0, <2>2, <2>4, RulesKept DEF Kept
  <2>7. Tallied(ev, n, w)
    <3> HIDE DEF ev
    <3> QED
      BY <1>2, <1>7, <2>2, <2>4 DEF Tallied, Kept
  <2>8. SbvSound(x, known \cup w.out, n, i, w)
    BY <2>2, <2>4, <2>5, <2>6, <2>7 DEF SbvSound, Kept
  <2>9. ASSUME NEW r, Kept(w, r), r.sent_bval = w.sent_bval, Sends(n, w, r), r.received_bval = w.received_bval
        PROVE  Inserted(n, v, {b}, s, r)
    BY <1>2, <2>2, <2>4, <2>9 DEF Inserted, Kept, Sends
  <2>10. CASE w.bin_values = BOOLEAN
    <3>1. t = TryOutput(w)
      BY <2>3, <2>10
    <3>2. SbvSound(x, known \cup w.out, n, i, t) /\ OutputDue(t) /\ TriedOutput(w, t)
      BY <2>8, <3>1, TryOutputSound
    <3>3. t.out = w.out /\ Inserted(n, v, {b}, s, t)
      BY <2>9, <3>2 DEF TriedOutput, Sends
    <3> QED
      BY <3>2, <3>3 DEF t
  <2>11. CASE w.bin_values # BOOLEAN
    <3>1. w.bin_values = {b}
      BY <1>1, <2>2, <2>11
    <3>2. n \notin w.received_aux[b]
      <4> SUFFICES ASSUME n \in s.received_aux[b] PROVE FALSE
        BY <2>2
      <4>1. n \in ByAux(ev, s.epoch, b)
        BY <1>0 DEF Tallied
      <4>2. CASE Msg(n, s.epoch, "Aux", b) \in ev
        BY <1>0, <1>1, <2>1, <4>2 DEF Rules, AuxRule
      <4>3. CASE n \in ByTerm(ev, s.epoch, b)
        <5>1. PICK k \in 0 .. s.epoch : Msg(n, k, "Term", b) \in ev
          BY <4>3 DEF ByTerm
        <5>2. k = s.epoch + 1
          BY <1>0, <1>1, <5>1 DEF Rules, TermRule
        <5> QED
          BY <1>1, <5>1, <5>2
      <4> QED
        BY <4>1, <4>2, <4>3 DEF ByAux
    <3>3. t = SendAux(w, n, b)
      BY <2>3, <2>11
    <3>4. SbvSound(x, known \cup t.out, n, i, t) /\ OutputDue(t) /\ SentAux(n, w, t)
      BY <2>8, <3>1, <3>2, <3>3, SendAuxSound
    <3>5. Inserted(n, v, {b}, s, t)
      BY <2>9, <3>4 DEF SentAux
    <3> QED
      BY <3>4, <3>5 DEF t
  <2> QED
    BY <2>10, <2>11
<1> QED
  BY <1>9, <1>10

(* send_bval, for an estimate, or on f + 1 BVals of others *)
SentBVal(n, bs, s, t) ==
    /\ Kept(s, t) /\ Sends(n, s, t) /\ t.sent_bval = s.sent_bval \cup bs
    /\ \A c \in BOOLEAN : c \notin bs => t.received_bval[c] = s.received_bval[c]

MaySend(x, ev, n, i, s, b) ==
    b \notin s.sent_bval =>
        Estimate(x, ev, i, s.epoch, b) \/ Cardinality(ByBVal(ev, s.epoch, b) \ {n}) > num_faulty

LEMMA SendBValSound ==
    ASSUME NEW x, NEW known, NEW n, NEW i, NEW s, SbvSound(x, known \cup s.out, n, i, s), OutputDue(s),
           NEW b \in BOOLEAN, MaySend(x, known \cup s.out, n, i, s, b)
    PROVE  LET t == SendBVal(s, n, b)
           IN  SbvSound(x, known \cup t.out, n, i, t) /\ OutputDue(t) /\ SentBVal(n, {b}, s, t)
<1> DEFINE t == SendBVal(s, n, b)
           u == [s EXCEPT !.sent_bval = @ \cup {b}]
           m == Msg(n, s.epoch, "BVal", b)
           w == Multicast(u, n, s.epoch, "BVal", b)
           ev == known \cup s.out
           evv == known \cup w.out
<1>0. s \in State /\ Rules(x, ev, n, i, s) /\ Tallied(ev, n, s) /\ BinValues(s) /\ s.epoch \in Nat
  BY StateFields DEF SbvSound
<1>1. CASE b \in s.sent_bval
  <2>1. t = s
    BY <1>1 DEF SendBVal
  <2>2. SentBVal(n, {b}, s, s)
    BY <1>1 DEF SentBVal, Kept, Sends
  <2> QED
    BY <2>1, <2>2
<1>2. CASE b \notin s.sent_bval
  <2>1. /\ u \in State /\ Kept(s, u) /\ u.sent_bval = s.sent_bval \cup {b} /\ u.out = s.out
        /\ u.bin_values = s.bin_values /\ u.received_bval = s.received_bval
        /\ u.received_aux = s.received_aux /\ u.sbv_output = s.sbv_output
    <3>1. s.sent_bval \cup {b} \in SUBSET BOOLEAN
      BY <1>0, StateFields
    <3> QED
      BY <1>0, <3>1 DEF State, Kept
  <2>2. t = IF n \in Validators THEN InsertBVal(w, n, n, b) ELSE TryOutput(w)
    BY <1>2 DEF SendBVal, is_validator
  <2>3. n \notin Validators => w = u
    BY DEF Multicast, is_validator
  <2> HIDE DEF u, t
  <2>4. Tallied(ev, n, u)
    <3> HIDE DEF ev
    <3> QED
      BY <1>0, <2>1 DEF Tallied, Kept
  <2>5. Rules(x, ev, n, i, u)
    BY <1>0, <2>1, RulesKept DEF Kept
  <2>6. BinValues(u) /\ OutputDue(u)
    BY <1>0, <2>1 DEF BinValues, OutputDue, CountAux
  <2>7. u.sbv_output # None => Candidates(ev, u.epoch, u.sbv_output)
    BY <2>1 DEF SbvSound, Kept
  <2>8. SbvSound(x, ev, n, i, u)
    BY <2>1, <2>4, <2>5, <2>6, <2>7 DEF SbvSound
  <2>9. CASE n \in Validators
    <3>1. m \in Message /\ u.epoch = s.epoch /\ m = Msg(n, u.epoch, "BVal", b)
      BY <1>0, <2>1, <2>9, MessageTypes DEF Kept
    <3>2. w \in State /\ Kept(u, w) /\ SbvKept(u, w) /\ w.out = s.out \cup {m}
      BY <2>1, <2>9, <3>1, MulticastFacts
    <3>3. evv = ev \cup {m} /\ ev \subseteq evv
      BY <3>2
    <3>4. \/ Estimate(x, ev, i, u.epoch, b)
          \/ Cardinality(ByBVal(ev, u.epoch, b) \ {n}) > num_faulty
      BY <1>2, <3>1 DEF MaySend
    <3> HIDE DEF w, ev, evv
    <3>5. Rules(x, evv, n, i, u)
      BY <1>0, <2>5, <3>1, <3>3, <3>4, SendingBVal
    <3>6. Tallied(evv, n, u)
      BY <2>4, <3>3, TalliedGrows
    <3>7. u.sbv_output # None => Candidates(evv, u.epoch, u.sbv_output)
      BY <2>1, <2>7, <3>3, CandidatesGrow, StateFields
    <3>8. SbvSound(x, evv, n, i, u)
      BY <2>1, <2>6, <3>5, <3>6, <3>7 DEF SbvSound
    <3>9. SbvSound(x, known \cup w.out, n, i, w) /\ OutputDue(w)
      BY <2>6, <3>2, <3>8, SbvSoundKept DEF evv
    <3>10. n \in ByBVal(known \cup w.out, w.epoch, b)
      BY <2>9, <3>1, <3>2 DEF ByBVal, Kept
    <3>11. n \notin w.received_bval[b] /\ b \in w.sent_bval
      BY <1>0, <1>2, <2>1, <3>2 DEF SbvKept, Tallied
    <3>12. t = InsertBVal(w, n, n, b) /\ Countable(known \cup w.out, n, n, w, b)
      BY <2>2, <2>9, <3>10, <3>11 DEF Countable
    <3>13. SbvSound(x, known \cup t.out, n, i, t) /\ OutputDue(t) /\ Inserted(n, n, {b}, w, t)
      BY <2>9, <3>9, <3>12, InsertBValSound
    <3>14. Kept(s, t) /\ Sends(n, s, t)
      BY <2>1, <3>2, <3>13, OwnFrom DEF Inserted, Kept, Sends
    <3>15. t.sent_bval = s.sent_bval \cup {b} /\ \A c \in BOOLEAN : c # b => t.received_bval[c] = s.received_bval[c]
      BY <2>1, <3>2, <3>13 DEF Inserted, SbvKept, Sends
    <3> QED
      BY <3>13, <3>14, <3>15 DEF SentBVal, t, Sends
  <2>10. CASE n \notin Validators
    <3>1. t = TryOutput(u)
      BY <2>2, <2>3, <2>10
    <3>2. SbvSound(x, ev, n, i, t) /\ OutputDue(t) /\ TriedOutput(u, t)
      BY <2>8, <3>1, TryOutputSound
    <3>3. SentBVal(n, {b}, s, t) /\ t.out = s.out
      BY <2>1, <3>2 DEF TriedOutput, SentBVal, Kept, Sends
    <3> QED
      BY <3>2, <3>3 DEF t
  <2> QED
    BY <2>9, <2>10
<1> QED
  BY <1>1, <1>2

(* handle_bval, for a BVal or Term of somebody else *)
LEMMA HandleBValSound ==
    ASSUME NEW x, NEW known, NEW n, NEW i, NEW s, SbvSound(x, known \cup s.out, n, i, s), OutputDue(s), Relayed(s),
           NEW v \in Validators, v # n, NEW b \in BOOLEAN, v \in ByBVal(known \cup s.out, s.epoch, b)
    PROVE  LET t == HandleBVal(s, n, v, b)
           IN  /\ SbvSound(x, known \cup t.out, n, i, t) /\ OutputDue(t) /\ Relayed(t)
               /\ Kept(s, t) /\ Sends(n, s, t)
<1> DEFINE t == HandleBVal(s, n, v, b)
           u == InsertBVal(s, n, v, b)
           ev == known \cup s.out
           old == Cardinality(s.received_bval[b])
<1>0. s \in State /\ Tallied(ev, n, s) /\ s.received_bval[b] \in SUBSET Validators
  BY StateFields DEF SbvSound
<1>1. CASE v \in s.received_bval[b]
  <2>1. t = [s EXCEPT !.faults = @ \cup {v}]
    BY <1>1 DEF HandleBVal, Blame
  <2>2. t \in State /\ SbvKept(s, t) /\ Kept(s, t) /\ t.out = s.out
    <3>1. s.faults \cup {v} \in SUBSET Validators
      BY <1>0 DEF State
    <3> QED
      BY <1>0, <2>1, <3>1 DEF State, SbvKept, Kept
  <2> QED
    BY <2>2, SbvSoundKept DEF Sends
<1>2. CASE v \notin s.received_bval[b]
  <2>1. t = IF old = num_faulty THEN SendBVal(u, n, b) ELSE u
    BY <1>2 DEF HandleBVal
  <2>2. Countable(known \cup s.out, n, v, s, b)
    BY <1>2 DEF Countable
  <2>3. SbvSound(x, known \cup u.out, n, i, u) /\ OutputDue(u) /\ Inserted(n, v, {b}, s, u)
    BY <2>2, InsertBValSound
  <2> HIDE DEF t, u
  <2>4. old \in Nat /\ Cardinality(u.received_bval[b]) = old + 1 /\ num_faulty \in Nat
    BY <1>0, <1>2, <2>3, AddOne, Thresholds DEF Inserted, Sends
  <2>5. Kept(s, u) /\ Sends(n, s, u) /\ u.sent_bval = s.sent_bval
    BY <2>3 DEF Inserted, Sends
  <2>6. \A c \in BOOLEAN : c # b => (Cardinality(u.received_bval[c]) > num_faulty => c \in u.sent_bval)
    BY <2>3 DEF Inserted, Relayed, Sends
  <2>7. CASE old # num_faulty
    <3>1. Cardinality(u.received_bval[b]) > num_faulty => old > num_faulty
      <4> HIDE DEF old
      <4> QED
        BY <2>4, <2>7
    <3>2. Cardinality(u.received_bval[b]) > num_faulty => b \in u.sent_bval
      BY <2>5, <3>1 DEF Relayed
    <3>3. Relayed(u)
      BY <2>6, <3>2 DEF Relayed
    <3>4. t = u
      BY <2>1, <2>7
    <3> QED
      BY <2>3, <2>5, <3>3, <3>4 DEF t
  <2>8. CASE old = num_faulty
    <3>1. ASSUME b \notin u.sent_bval PROVE Cardinality(ByBVal(known \cup u.out, u.epoch, b) \ {n}) > num_faulty
      <4>1. u \in State /\ Tallied(known \cup u.out, n, u)
        BY <2>3 DEF SbvSound
      <4>2. u.received_bval[b] \in SUBSET Validators
        BY <4>1, StateFields
      <4>3. u.received_bval[b] \subseteq ByBVal(known \cup u.out, u.epoch, b) \ {n}
        BY <3>1, <4>1 DEF Tallied
      <4>4. Cardinality(u.received_bval[b]) > num_faulty
        BY <2>4, <2>8
      <4>5. ByBVal(known \cup u.out, u.epoch, b) \ {n} \in SUBSET Validators
        BY Sets
      <4> QED
        BY <4>2, <4>3, <4>4, <4>5, CountsMore, ThresholdTypes
    <3>2. t = SendBVal(u, n, b) /\ MaySend(x, known \cup u.out, n, i, u, b)
      BY <2>1, <2>8, <3>1 DEF MaySend
    <3>3. SbvSound(x, known \cup t.out, n, i, t) /\ OutputDue(t) /\ SentBVal(n, {b}, u, t)
      BY <2>3, <3>2, SendBValSound
    <3>4. Kept(s, t) /\ Sends(n, s, t)
      BY <2>5, <3>3 DEF SentBVal, Kept, Sends
    <3>5. Relayed(t)
      BY <2>6, <3>3 DEF SentBVal, Relayed, Sends
    <3> QED
      BY <3>3, <3>4, <3>5 DEF t
  <2> QED
    BY <2>7, <2>8
<1> QED
  BY <1>1, <1>2
-----------------------------------------------------------------------------
(* The handlers of the agreement *)

LEMMA SoundFacts ==
    ASSUME NEW x, NEW known, NEW n, NEW i, NEW s, Sound(x, known, n, i, s)
    PROVE  /\ s \in State /\ SbvSound(x, known \cup s.out, n, i, s) /\ OutputDue(s) /\ Relayed(s)
           /\ Local(x, known \cup s.out, n, i, s) /\ TermsFew(s)
BY DEF Sound, SbvSound

(* What the SBV handlers do does not concern the rest of the state. *)
LEMMA SbvStepSound ==
    ASSUME NEW x, NEW known, NEW n, NEW i, NEW s, Sound(x, known, n, i, s),
           NEW t, SbvSound(x, known \cup t.out, n, i, t), OutputDue(t), Relayed(t), Kept(s, t), Sends(n, s, t)
    PROVE  Sound(x, known, n, i, t)
<1>1. s \in State /\ Local(x, known \cup s.out, n, i, s) /\ TermsFew(s)
  BY SoundFacts
<1>2. Local(x, known \cup t.out, n, i, s)
  BY <1>1, LocalGrows DEF Sends
<1>3. Local(x, known \cup t.out, n, i, t)
  BY <1>2, LocalKept
<1>4. TermsFew(t)
  BY <1>1 DEF TermsFew, Kept
<1> QED
  BY <1>3, <1>4 DEF Sound

(* A Conf or Coin of our own, and a message of somebody else, leave all of *)
(* it valid.                                                               *)
LEMMA SoundGrows ==
    ASSUME NEW x, NEW known, NEW n, NEW i, NEW s, Sound(x, known, n, i, s),
           NEW evv, known \cup s.out \subseteq evv, \A m \in evv \ (known \cup s.out) : ~OwnRuled(n, m)
    PROVE  SbvSound(x, evv, n, i, s) /\ Local(x, evv, n, i, s)
<1>1. s \in State /\ SbvSound(x, known \cup s.out, n, i, s) /\ Local(x, known \cup s.out, n, i, s)
  BY SoundFacts
<1> QED
  BY <1>1, SbvSoundGrows, LocalGrows

LEMMA MulticastSound ==
    ASSUME NEW x, NEW known, NEW n \in Validators, NEW i, NEW s, Sound(x, known, n, i, s),
           NEW type \in {"Conf", "Coin"}, NEW e, NEW val, Msg(n, e, type, val) \in Message
    PROVE  Sound(x, known, n, i, Multicast(s, n, e, type, val))
<1> DEFINE m == Msg(n, e, type, val)
           t == Multicast(s, n, e, type, val)
           evv == known \cup t.out
<1>0. s \in State /\ OutputDue(s) /\ Relayed(s) /\ TermsFew(s)
  BY SoundFacts
<1>1. t \in State /\ Kept(s, t) /\ SbvKept(s, t) /\ t.out = s.out \cup {m}
  BY <1>0, MulticastFacts
<1>2. ~OwnRuled(n, m)
  BY DEF OwnRuled, Msg
<1> HIDE DEF m, t
<1>3. known \cup s.out \subseteq evv /\ \A q \in evv \ (known \cup s.out) : ~OwnRuled(n, q)
  BY <1>1, <1>2
<1> HIDE DEF evv
<1>4. SbvSound(x, evv, n, i, s) /\ Local(x, evv, n, i, s)
  BY <1>3, SoundGrows
<1>5. SbvSound(x, evv, n, i, t) /\ OutputDue(t) /\ Relayed(t)
  BY <1>0, <1>1, <1>4, SbvSoundKept
<1>6. Local(x, evv, n, i, t)
  BY <1>1, <1>4, LocalKept
<1>7. TermsFew(t)
  BY <1>0, <1>1 DEF TermsFew, Kept
<1> QED
  BY <1>5, <1>6, <1>7 DEF Sound, evv, t

(* The first decision, and our Term *)
LEMMA SendingTerm ==
    ASSUME NEW x, NEW ev, NEW n, NEW i, NEW s, Rules(x, ev, n, i, s), NEW b \in BOOLEAN, s.epoch \in Nat,
           s.decision = b
    PROVE  Rules(x, ev \cup {Msg(n, s.epoch + 1, "Term", b)}, n, i, s)
<1> DEFINE own == Msg(n, s.epoch + 1, "Term", b)
           evv == ev \cup {own}
<1>1. \A e, c : /\ Msg(n, e, "BVal", c) # own /\ Msg(n, e, "Aux", c) # own
                /\ Msg(n, e, "Term", c) = own <=> e = s.epoch + 1 /\ c = b
  BY DEF Msg
<1>2. ev \subseteq evv
  OBVIOUS
<1> HIDE DEF own
<1>3. BValRule(x, evv, n, i, s)
  <2> SUFFICES ASSUME NEW e \in Nat, NEW c \in BOOLEAN, Msg(n, e, "BVal", c) \in evv
               PROVE  e <= s.epoch /\ (Estimate(x, evv, i, e, c) \/ Cardinality(ByBVal(evv, e, c) \ {n}) > num_faulty)
    BY DEF BValRule
  <2>1. e <= s.epoch /\ (Estimate(x, ev, i, e, c) \/ Cardinality(ByBVal(ev, e, c) \ {n}) > num_faulty)
    BY <1>1 DEF Rules, BValRule
  <2> HIDE DEF evv
  <2> QED
    BY <1>2, <2>1, Monotone, EstimateGrows
<1>4. AuxRule(evv, n, s)
  BY <1>1 DEF Rules, AuxRule
<1>5. TermRule(evv, n, s)
  <2> SUFFICES ASSUME NEW k \in Nat, NEW c \in BOOLEAN, Msg(n, k, "Term", c) \in evv
               PROVE  s.decision = c /\ k = s.epoch + 1
    BY DEF TermRule
  <2>1. CASE Msg(n, k, "Term", c) \in ev
    BY <2>1 DEF Rules, TermRule
  <2>2. CASE Msg(n, k, "Term", c) = own
    BY <1>1, <2>2
  <2> QED
    BY <2>1, <2>2
<1>6. DecisionRule(x, evv, s)
  <2> SUFFICES ASSUME NEW c \in BOOLEAN, s.decision = c
               PROVE  Decisive(x, evv, s.epoch, c) \/ Cardinality(ByTerm(evv, s.epoch, c)) > num_faulty
    BY DEF DecisionRule
  <2>1. Decisive(x, ev, s.epoch, c) \/ Cardinality(ByTerm(ev, s.epoch, c)) > num_faulty
    BY DEF Rules, DecisionRule
  <2> HIDE DEF evv
  <2> QED
    BY <1>2, <2>1, Monotone
<1> QED
  BY <1>3, <1>4, <1>5, <1>6 DEF Rules, own

Grown(n, s, t) == Sends(n, s, t) /\ s.epoch <= t.epoch

(* decide, on a decisive epoch or f + 1 Terms *)
Grounds(x, ev, e, b) == Decisive(x, ev, e, b) \/ Cardinality(ByTerm(ev, e, b)) > num_faulty

LEMMA DecideSound ==
    ASSUME NEW x, NEW known, NEW n, NEW i, NEW s, SbvSound(x, known \cup s.out, n, i, s), OutputDue(s), Relayed(s),
           Local(x, known \cup s.out, n, i, s), s.decision = None, NEW b \in BOOLEAN,
           Grounds(x, known \cup s.out, s.epoch, b)
    PROVE  Sound(x, known, n, i, Decide(s, n, b)) /\ Grown(n, s, Decide(s, n, b))
<1> DEFINE u == [s EXCEPT !.decision = b]
           m == Msg(n, s.epoch + 1, "Term", b)
           t == Decide(s, n, b)
           ev == known \cup s.out
           evv == known \cup t.out
<1>0. s \in State /\ s.epoch \in Nat /\ Rules(x, ev, n, i, s) /\ Tallied(ev, n, s) /\ BinValues(s)
  BY StateFields DEF SbvSound
<1>1. t = Multicast(u, n, s.epoch + 1, "Term", b)
  BY DEF Decide
<1>2. /\ u \in State /\ u.decision = b /\ u.epoch = s.epoch /\ u.out = s.out
      /\ u.bin_values = s.bin_values /\ u.received_bval = s.received_bval /\ u.sent_bval = s.sent_bval
      /\ u.received_aux = s.received_aux /\ u.sbv_output = s.sbv_output
      /\ u.conf_values = s.conf_values /\ u.coin = s.coin /\ u.received_term = s.received_term
      /\ u.ts = s.ts /\ u.queue = s.queue /\ u.estimated = s.estimated
  BY <1>0 DEF State
<1> HIDE DEF u, t
<1>3. Rules(x, ev, n, i, u)
  <2> HIDE DEF ev
  <2>1. BValRule(x, ev, n, i, u) /\ AuxRule(ev, n, u)
    BY <1>0, <1>2 DEF Rules, BValRule, AuxRule
  <2>2. TermRule(ev, n, u)
    BY <1>0, NoneAssumption DEF Rules, TermRule
  <2>3. DecisionRule(x, ev, u)
    BY <1>2 DEF DecisionRule, Grounds, ev
  <2> QED
    BY <2>1, <2>2, <2>3 DEF Rules
<1>4. Tallied(ev, n, u) /\ BinValues(u)
  <2> HIDE DEF ev
  <2> QED
    BY <1>0, <1>2 DEF Tallied, BinValues
<1>5. OutputDue(u) /\ Relayed(u)
  BY <1>2 DEF OutputDue, CountAux, Relayed
<1>6. u.sbv_output # None => Candidates(ev, u.epoch, u.sbv_output)
  BY <1>2 DEF SbvSound
<1>7. Local(x, ev, n, i, u)
  <2> HIDE DEF ev
  <2>0. Local(x, ev, n, i, s)
    BY DEF ev
  <2>1. TermRecord(ev, n, u) /\ (u.conf_values # None => Candidates(ev, u.epoch, u.conf_values))
    BY <1>2, <2>0 DEF Local, TermRecord
  <2>2. CoinRule(x, u) /\ ShareRule(x, ev, n, u)
    BY <1>2, <2>0 DEF Local, CoinRule, ShareRule
  <2>3. Place(x, i, u) /\ QueueRule(ev, n, u)
    BY <1>2, <2>0 DEF Local, Place, QueueRule
  <2> QED
    BY <2>1, <2>2, <2>3 DEF Local
<1>8. SbvSound(x, ev, n, i, u)
  BY <1>2, <1>3, <1>4, <1>6 DEF SbvSound
<1>9. ASSUME NEW r, r.decision = u.decision PROVE TermsFew(r)
  BY <1>2, <1>9, NoneAssumption DEF TermsFew
<1>10. CASE n \notin Validators
  <2>1. t = u
    BY <1>1, <1>10 DEF Multicast, is_validator
  <2>2. Sound(x, known, n, i, u)
    BY <1>2, <1>5, <1>7, <1>8, <1>9 DEF Sound
  <2>3. Grown(n, s, u)
    BY <1>0, <1>2 DEF Grown, Sends
  <2> QED
    BY <2>1, <2>2, <2>3 DEF t
<1>11. CASE n \in Validators
  <2>1. m \in Message
    BY <1>0, <1>11, MessageTypes
  <2>2. t \in State /\ Kept(u, t) /\ SbvKept(u, t) /\ t.out = u.out \cup {m}
    BY <1>1, <1>2, <1>11, <2>1, MulticastFacts
  <2>3. evv = ev \cup {m} /\ ev \subseteq evv /\ m = Msg(n, u.epoch + 1, "Term", b)
    BY <1>2, <2>2
  <2> HIDE DEF ev, evv, m
  <2>4. Rules(x, evv, n, i, u)
    BY <1>0, <1>2, <1>3, <2>3, SendingTerm
  <2>5. Tallied(evv, n, u)
    BY <1>4, <2>3, TalliedGrows
  <2>6. u.sbv_output # None => Candidates(evv, u.epoch, u.sbv_output)
    BY <1>2, <1>6, <2>3, CandidatesGrow, StateFields
  <2>7. SbvSound(x, evv, n, i, u)
    BY <1>2, <1>4, <2>4, <2>5, <2>6 DEF SbvSound
  <2>8. SbvSound(x, evv, n, i, t) /\ OutputDue(t) /\ Relayed(t)
    BY <1>5, <2>2, <2>7, SbvSoundKept
  <2>9. Local(x, evv, n, i, u)
    BY <1>2, <1>7, <2>3, LocalGrows
  <2>10. Local(x, evv, n, i, t)
    BY <2>2, <2>9, LocalKept
  <2>11. TermsFew(t)
    BY <1>9, <2>2 DEF Kept
  <2>12. Sound(x, known, n, i, t)
    BY <2>8, <2>10, <2>11 DEF Sound, evv
  <2>13. Grown(n, s, t)
    <3>1. m.from = n
      BY DEF m, Msg
    <3> QED
      BY <1>0, <1>2, <2>2, <3>1 DEF Grown, Kept, Sends
  <2> QED
    BY <2>12, <2>13 DEF t
<1> QED
  BY <1>10, <1>11

Done(x, known, n, i, s, t) == Sound(x, known, n, i, t) /\ Grown(n, s, t)

LEMMA DoneNothing ==
    ASSUME NEW x, NEW known, NEW n, NEW i, NEW s, Sound(x, known, n, i, s)
    PROVE  Done(x, known, n, i, s, s)
<1>1. s.epoch \in Nat
  BY SoundFacts, StateFields
<1> QED
  BY <1>1 DEF Done, Grown, Sends

LEMMA DoneThen ==
    ASSUME NEW x, NEW known, NEW n, NEW i, NEW s, Sound(x, known, n, i, s),
           NEW t, Done(x, known, n, i, s, t), NEW u, Done(x, known, n, i, t, u)
    PROVE  Done(x, known, n, i, s, u)
<1>1. s.epoch \in Nat /\ t.epoch \in Nat /\ u.epoch \in Nat
  BY SoundFacts, StateFields DEF Done
<1> QED
  BY <1>1 DEF Done, Grown, Sends

(* What does not change in the course of a call *)
EnvOK(x) ==
    /\ x.start \in Nat
    /\ \A e \in DOMAIN x.coin : e \in Nat /\ InitialCoin(e) = None
    /\ \A e \in Nat : InitialCoin(e) = None => Parity(e) = CoinOf(x, e) /\ Parity(e) \in BOOLEAN

(* Calls of update_epoch, and of its loop, and what they have to lead to *)
Due(ev, n, s, m) ==
    m \in ev /\ m.from # n /\ m.epoch <= s.epoch /\ (CanExpire(m) => m.epoch = s.epoch)

MayUpdate(x, ev, s, b) == s.decision = None /\ s.coin # None /\ Leads(x, ev, s.epoch, b)

MayLoop(ev, n, s, queued) ==
    Slots(queued) /\ \A m \in queued : m.epoch = s.epoch /\ Due(ev, n, s, m)

CallOK(x, known, n, i, c) ==
    /\ c \in Call /\ c.n = n /\ Sound(x, known, n, i, c.s)
    /\ c.b # None => MayUpdate(x, known \cup c.s.out, c.s, c.b)
    /\ c.b = None => MayLoop(known \cup c.s.out, n, c.s, c.queued)

CallsOK(x, known, n, i, calls) ==
    \A c : CallOK(x, known, n, i, c) => Done(x, known, n, i, c.s, calls[c])

LEMMA CallUpdate ==
    ASSUME NEW x, NEW known, NEW n \in Nodes, NEW i, NEW calls, CallsOK(x, known, n, i, calls),
           NEW s, Sound(x, known, n, i, s), NEW b \in BOOLEAN, MayUpdate(x, known \cup s.out, s, b)
    PROVE  Done(x, known, n, i, s, calls[UpdateCall(s, n, b)])
<1> DEFINE c == UpdateCall(s, n, b)
<1>1. s \in State
  BY SoundFacts
<1>2. c \in Call /\ c.n = n /\ c.s = s /\ c.b = b
  BY <1>1 DEF UpdateCall, Call
<1>3. c.b # None
  BY <1>2, NoneAssumption
<1> HIDE DEF c
<1>4. CallOK(x, known, n, i, c)
  BY <1>2, <1>3 DEF CallOK
<1> QED
  BY <1>2, <1>4 DEF CallsOK, c

LEMMA CallLoop ==
    ASSUME NEW x, NEW known, NEW n \in Nodes, NEW i, NEW calls, CallsOK(x, known, n, i, calls),
           NEW s, Sound(x, known, n, i, s), NEW queued \in SUBSET Message,
           MayLoop(known \cup s.out, n, s, queued)
    PROVE  Done(x, known, n, i, s, calls[LoopCall(s, n, queued)])
<1> DEFINE c == LoopCall(s, n, queued)
<1>1. s \in State
  BY SoundFacts
<1>2. c \in Call /\ c.n = n /\ c.s = s /\ c.b = None /\ c.queued = queued
  BY <1>1 DEF LoopCall, Call
<1> HIDE DEF c
<1>4. CallOK(x, known, n, i, c)
  BY <1>2 DEF CallOK
<1> QED
  BY <1>2, <1>4 DEF CallsOK, c

LEMMA DefiniteFacts ==
    ASSUME NEW vals \in SUBSET BOOLEAN, vals # {}
    PROVE  /\ Definite(vals) = None => vals = BOOLEAN
           /\ Definite(vals) # None => Definite(vals) \in BOOLEAN /\ vals = {Definite(vals)}
<1>1. CASE \E a : vals = {a}
  <2>1. PICK a : vals = {a}
    BY <1>1
  <2>2. a \in BOOLEAN /\ Cardinality(vals) = 1
    BY <2>1, FS_Singleton
  <2>3. Definite(vals) = a
    BY <2>1, <2>2 DEF Definite
  <2> QED
    BY <2>1, <2>2, <2>3, NoneAssumption
<1>2. CASE ~\E a : vals = {a}
  <2>1. IsFiniteSet(vals)
    <3>1. IsFiniteSet({TRUE, FALSE})
      <4>1. IsFiniteSet({TRUE})
        BY FS_Singleton
      <4>2. IsFiniteSet({TRUE} \cup {FALSE})
        BY <4>1, FS_AddElement
      <4>3. {TRUE, FALSE} = {TRUE} \cup {FALSE}
        OBVIOUS
      <4> QED
        BY <4>2, <4>3
    <3>2. vals \subseteq {TRUE, FALSE}
      OBVIOUS
    <3> QED
      BY <3>1, <3>2, FS_Subset
  <2>2. Cardinality(vals) # 1
    BY <1>2, <2>1, FS_Singleton
  <2>3. Definite(vals) = None
    BY <2>2 DEF Definite
  <2>4. vals = BOOLEAN
    <3>1. vals # {TRUE} /\ vals # {FALSE}
      BY <1>2
    <3> QED
      BY <3>1
  <2> QED
    BY <2>3, <2>4
<1> QED
  BY <1>1, <1>2

(* try_update_epoch: what it may do *)
Updated(x, known, n, calls, s, t) ==
    \/ t = s /\ (s.decision # None \/ s.coin = None \/ s.conf_values = None)
    \/ \E b \in BOOLEAN : t = Decide(s, n, b) /\ s.decision = None /\ Grounds(x, known \cup s.out, s.epoch, b)
    \/ \E b \in BOOLEAN : t = calls[UpdateCall(s, n, b)] /\ MayUpdate(x, known \cup s.out, s, b)

LEMMA TryUpdateEpochCases ==
    ASSUME NEW x, NEW known, NEW n, NEW i, NEW calls, NEW s, Sound(x, known, n, i, s)
    PROVE  Updated(x, known, n, calls, s, TryUpdateEpoch(calls, s, n))
<1> DEFINE t == TryUpdateEpoch(calls, s, n)
           ev == known \cup s.out
           d == Definite(s.conf_values)
<1>1. CASE s.decision # None \/ s.coin = None \/ s.conf_values = None
  BY <1>1 DEF TryUpdateEpoch, Updated
<1>2. CASE ~(s.decision # None \/ s.coin = None \/ s.conf_values = None)
  <2>1. t = IF s.coin = d THEN Decide(s, n, s.coin)
            ELSE calls[UpdateCall(s, n, IF d = None THEN s.coin ELSE d)]
    BY <1>2 DEF TryUpdateEpoch
  <2>2. s.coin \in BOOLEAN /\ s.conf_values \in SUBSET BOOLEAN
    BY <1>2, SoundFacts, StateFields
  <2>3. Candidates(ev, s.epoch, s.conf_values) /\ CoinOf(x, s.epoch) = s.coin
    BY <1>2, SoundFacts DEF Local, CoinRule
  <2>4. /\ s.conf_values # {} /\ \A b \in s.conf_values : Believed(ev, s.epoch, b)
        /\ \A b \in BOOLEAN : s.conf_values = {b} => Confirmed(ev, s.epoch, b)
    BY <2>3 DEF Candidates
  <2>5. (d = None => s.conf_values = BOOLEAN) /\ (d # None => d \in BOOLEAN /\ s.conf_values = {d})
    BY <2>2, <2>4, DefiniteFacts
  <2> HIDE DEF t, d
  <2>6. CASE s.coin = d
    <3>1. Grounds(x, ev, s.epoch, s.coin)
      BY <2>2, <2>3, <2>4, <2>5, <2>6, NoneAssumption DEF Decisive, Grounds
    <3> DEFINE b == s.coin
    <3>2. t = Decide(s, n, b) /\ b \in BOOLEAN /\ s.decision = None /\ Grounds(x, known \cup s.out, s.epoch, b)
      BY <1>2, <2>1, <2>2, <2>6, <3>1
    <3> HIDE DEF b
    <3> QED
      BY <3>2 DEF Updated, t
  <2>7. CASE s.coin # d
    <3> DEFINE b == IF d = None THEN s.coin ELSE d
    <3>1. b \in BOOLEAN /\ Leads(x, ev, s.epoch, b)
      <4>1. CASE d = None
        <5>1. b = s.coin /\ s.coin \in s.conf_values
          BY <2>2, <2>5, <4>1
        <5> QED
          BY <2>2, <2>3, <2>4, <5>1 DEF Leads
      <4>2. CASE d # None
        <5>1. b = d /\ d \in s.conf_values /\ d \in BOOLEAN
          BY <2>5, <4>2
        <5> QED
          BY <2>4, <2>5, <4>2, <5>1 DEF Leads
      <4> QED
        BY <4>1, <4>2
    <3>2. t = calls[UpdateCall(s, n, b)]
      BY <2>1, <2>7
    <3> HIDE DEF b
    <3>3. MayUpdate(x, known \cup s.out, s, b)
      BY <1>2, <3>1 DEF MayUpdate
    <3> QED
      BY <3>1, <3>2, <3>3 DEF Updated, t
  <2> QED
    BY <2>6, <2>7
<1> QED
  BY <1>1, <1>2

LEMMA TryUpdateEpochSound ==
    ASSUME NEW x, NEW known, NEW n \in Nodes, NEW i, NEW calls, CallsOK(x, known, n, i, calls),
           NEW s, Sound(x, known, n, i, s)
    PROVE  Done(x, known, n, i, s, TryUpdateEpoch(calls, s, n))
<1> DEFINE t == TryUpdateEpoch(calls, s, n)
<1>0. /\ SbvSound(x, known \cup s.out, n, i, s) /\ OutputDue(s) /\ Relayed(s)
      /\ Local(x, known \cup s.out, n, i, s)
  BY SoundFacts
<1>1. Updated(x, known, n, calls, s, t)
  BY TryUpdateEpochCases
<1> HIDE DEF t
<1>2. CASE t = s
  BY <1>2, DoneNothing DEF t
<1>3. ASSUME NEW b \in BOOLEAN, t = Decide(s, n, b), s.decision = None, Grounds(x, known \cup s.out, s.epoch, b)
      PROVE  Done(x, known, n, i, s, t)
  <2>1. Sound(x, known, n, i, Decide(s, n, b)) /\ Grown(n, s, Decide(s, n, b))
    BY <1>0, <1>3, DecideSound
  <2> QED
    BY <1>3, <2>1 DEF Done
<1>4. ASSUME NEW b \in BOOLEAN, t = calls[UpdateCall(s, n, b)], MayUpdate(x, known \cup s.out, s, b)
      PROVE  Done(x, known, n, i, s, t)
  BY <1>4, CallUpdate
<1> QED
  BY <1>1, <1>2, <1>3, <1>4 DEF Updated, t

(* threshold_sign.rs: it has sent our share when it terminates. *)
TsState == [doc : {TRUE}, shares : SUBSET Share, had_input : BOOLEAN, terminated : BOOLEAN]

TsSound(ts) == ts \in TsState /\ (ts.terminated = TRUE => ts.had_input = TRUE)

TsStep(ts, tt) == TsSound(tt) /\ (ts.had_input = TRUE => tt.had_input = TRUE)

LEMMA TsTryOutputSound ==
    ASSUME NEW ts, TsSound(ts)
    PROVE  TsStep(ts, TsTryOutput(ts))
<1>1. CASE TsTryOutput(ts) = ts
  BY <1>1 DEF TsStep
<1>2. CASE TsTryOutput(ts) = [ts EXCEPT !.terminated = TRUE, !.had_input = TRUE]
  BY <1>2 DEF TsStep, TsSound, TsState
<1> QED
  BY <1>1, <1>2 DEF TsTryOutput

LEMMA TsHandleMessageSound ==
    ASSUME NEW ts, TsSound(ts), NEW v \in Validators, NEW valid \in BOOLEAN
    PROVE  TsStep(ts, TsHandleMessage(ts, v, valid))
<1> DEFINE shares == {sh \in ts.shares : sh.from # v} \cup {[from |-> v, valid |-> valid]}
           u == [ts EXCEPT !.shares = shares]
<1>1. CASE TsHandleMessage(ts, v, valid) = ts
  BY <1>1 DEF TsStep
<1>2. CASE TsHandleMessage(ts, v, valid) = TsTryOutput(u)
  <2>1. shares \in SUBSET Share
    BY DEF TsSound, TsState, Share
  <2> HIDE DEF shares
  <2>2. TsSound(u) /\ u.had_input = ts.had_input
    BY <2>1 DEF TsSound, TsState
  <2> HIDE DEF u
  <2>3. TsStep(u, TsTryOutput(u))
    BY <2>2, TsTryOutputSound
  <2> QED
    BY <1>2, <2>2, <2>3 DEF TsStep
<1> QED
  BY <1>1, <1>2 DEF TsHandleMessage

LEMMA TsSignSound ==
    ASSUME NEW ts, TsSound(ts), NEW n
    PROVE  TsStep(ts, TsSign(ts, n))
<1> DEFINE shares == {sh \in ts.shares : sh.valid}
           u == [ts EXCEPT !.had_input = TRUE, !.shares = shares]
<1>1. CASE TsSign(ts, n) = ts
  BY <1>1 DEF TsStep
<1>2. CASE TsSign(ts, n) = IF is_validator(n) THEN TsHandleMessage(u, n, TRUE) ELSE TsTryOutput(u)
  <2>1. shares \in SUBSET Share
    BY DEF TsSound, TsState
  <2> HIDE DEF shares
  <2>2. TsSound(u) /\ u.had_input = TRUE
    BY <2>1 DEF TsSound, TsState
  <2> HIDE DEF u
  <2>3. TsStep(u, TsSign(ts, n))
    BY <1>2, <2>2, TsTryOutputSound, TsHandleMessageSound DEF is_validator
  <2> QED
    BY <2>2, <2>3 DEF TsStep
<1> QED
  BY <1>1, <1>2 DEF TsSign

LEMMA TsOfState ==
    ASSUME NEW x, NEW known, NEW n, NEW i, NEW s, Sound(x, known, n, i, s)
    PROVE  TsSound(s.ts)
<1>1. s \in State /\ Local(x, known \cup s.out, n, i, s)
  BY SoundFacts
<1>2. s.ts \in TsState
  BY <1>1 DEF State, TsState
<1>3. s.ts.terminated = TRUE => s.ts.had_input = TRUE
  BY <1>1 DEF Local, ShareRule
<1> QED
  BY <1>2, <1>3 DEF TsSound

(* on_coin_step, our share first *)
WithTs(s, n, ts) ==
    LET t == [s EXCEPT !.ts = ts]
    IN  IF ts.had_input /\ ~s.ts.had_input THEN Multicast(t, n, s.epoch, "Coin", TRUE) ELSE t

LEMMA WithTsSound ==
    ASSUME NEW x, NEW known, NEW n, NEW i, NEW s, Sound(x, known, n, i, s), s.coin = None,
           NEW ts, TsStep(s.ts, ts)
    PROVE  LET u == WithTs(s, n, ts)
           IN  Done(x, known, n, i, s, u) /\ u.ts = ts /\ u.coin = None /\ u.epoch = s.epoch
<1> DEFINE t == [s EXCEPT !.ts = ts]
           m == Msg(n, s.epoch, "Coin", TRUE)
           u == WithTs(s, n, ts)
           evv == known \cup u.out
           fresh == ts.had_input /\ ~s.ts.had_input
<1>0. /\ s \in State /\ SbvSound(x, known \cup s.out, n, i, s) /\ OutputDue(s) /\ Relayed(s)
      /\ Local(x, known \cup s.out, n, i, s) /\ TermsFew(s) /\ s.epoch \in Nat
  BY SoundFacts, StateFields
<1>1. TsSound(ts) /\ TsSound(s.ts) /\ (s.ts.had_input = TRUE => ts.had_input = TRUE)
  BY TsOfState DEF TsStep
<1>2. /\ ts \in TsState /\ ts.had_input \in BOOLEAN /\ s.ts.had_input \in BOOLEAN
      /\ ts.terminated = TRUE => ts.had_input = TRUE
  BY <1>1 DEF TsSound, TsState
<1>3. /\ t \in State /\ SbvKept(s, t) /\ t.ts = ts /\ t.out = s.out /\ t.epoch = s.epoch
      /\ t.decision = s.decision /\ t.conf_values = s.conf_values /\ t.coin = s.coin
      /\ t.received_term = s.received_term /\ t.queue = s.queue /\ t.estimated = s.estimated
  BY <1>0, <1>2 DEF State, TsState, SbvKept
<1>4. u = IF fresh THEN Multicast(t, n, s.epoch, "Coin", TRUE) ELSE t
  BY DEF WithTs
<1> HIDE DEF t, u
<1>5. /\ u \in State /\ SbvKept(t, u) /\ Kept(t, u) /\ u.out = IF fresh /\ n \in Validators THEN s.out \cup {m} ELSE s.out
  <2>1. CASE fresh /\ n \in Validators
    <3>1. m \in Message
      BY <1>0, <2>1, MessageTypes
    <3> DEFINE val == TRUE
    <3>2. /\ u = Multicast(t, n, s.epoch, "Coin", val) /\ n \in Validators
          /\ m = Msg(n, s.epoch, "Coin", val)
      BY <1>4, <2>1
    <3> HIDE DEF fresh, val, m
    <3>3. u \in State /\ Kept(t, u) /\ SbvKept(t, u) /\ u.out = t.out \cup {m}
      BY <1>3, <3>1, <3>2, MulticastFacts
    <3> QED
      BY <1>3, <2>1, <3>3
  <2>2. CASE ~(fresh /\ n \in Validators)
    <3>1. u = t
      BY <1>4, <2>2 DEF Multicast, is_validator
    <3> QED
      BY <1>3, <2>2, <3>1 DEF Kept, SbvKept
  <2> QED
    BY <2>1, <2>2
<1>6. ~OwnRuled(n, m)
  BY DEF OwnRuled, Msg
<1>7. SbvKept(s, u)
  BY <1>3, <1>5 DEF SbvKept
<1>8. /\ u.ts = ts /\ u.epoch = s.epoch /\ u.decision = s.decision /\ u.conf_values = s.conf_values
      /\ u.coin = s.coin /\ u.received_term = s.received_term /\ u.queue = s.queue /\ u.estimated = s.estimated
  BY <1>3, <1>5 DEF Kept
<1>9. Sends(n, s, u) /\ (fresh /\ n \in Validators => m \in u.out)
  <2>1. m.from = n
    BY DEF Msg
  <2> HIDE DEF m, fresh
  <2> QED
    BY <1>5, <2>1 DEF Sends
<1>10. known \cup s.out \subseteq evv /\ \A q \in evv \ (known \cup s.out) : ~OwnRuled(n, q)
  <2> HIDE DEF m, fresh
  <2> QED
    BY <1>5, <1>6
<1> HIDE DEF evv, fresh
<1>11. SbvSound(x, evv, n, i, s) /\ Local(x, evv, n, i, s)
  BY <1>10, SoundGrows
<1>12. SbvSound(x, evv, n, i, u) /\ OutputDue(u) /\ Relayed(u)
  BY <1>0, <1>5, <1>7, <1>11, SbvSoundKept
<1>13. TermsFew(u)
  BY <1>0, <1>8 DEF TermsFew
<1>14. ShareRule(x, evv, n, u)
  <2>0. ShareRule(x, evv, n, s)
    BY <1>11 DEF Local
  <2>1. (u.ts.terminated = TRUE => u.ts.had_input = TRUE) /\ (u.coin # None /\ u.epoch \in DOMAIN x.coin => u.ts.had_input = TRUE)
    BY <1>2, <1>8
  <2>2. ASSUME n \in Validators, u.ts.had_input = TRUE PROVE Msg(n, u.epoch, "Coin", TRUE) \in evv
    <3>1. CASE s.ts.had_input = TRUE
      BY <1>8, <2>0, <2>2, <3>1 DEF ShareRule
    <3>2. CASE s.ts.had_input # TRUE
      <4>1. fresh
        BY <1>2, <1>8, <2>2, <3>2 DEF fresh
      <4> QED
        BY <1>8, <1>9, <2>2, <4>1 DEF evv
    <3> QED
      BY <3>1, <3>2
  <2>3. n \in Validators => \A e \in DOMAIN x.coin : e < u.epoch => Msg(n, e, "Coin", TRUE) \in evv
    BY <1>8, <2>0 DEF ShareRule
  <2> QED
    BY <2>1, <2>2, <2>3 DEF ShareRule
<1>15. Local(x, evv, n, i, u)
  <2>1. TermRecord(evv, n, u) /\ (u.conf_values # None => Candidates(evv, u.epoch, u.conf_values))
    BY <1>8, <1>11 DEF Local, TermRecord
  <2>2. CoinRule(x, u) /\ Place(x, i, u) /\ QueueRule(evv, n, u)
    BY <1>8, <1>11 DEF Local, CoinRule, Place, QueueRule
  <2> QED
    BY <1>14, <2>1, <2>2 DEF Local
<1>16. Sound(x, known, n, i, u)
  BY <1>12, <1>13, <1>15 DEF Sound, evv
<1>17. Grown(n, s, u)
  BY <1>0, <1>8, <1>9 DEF Grown, Sends
<1> QED
  BY <1>8, <1>16, <1>17 DEF Done, u

(* A step that the invariant is not about: a blame, or a Conf *)
LEMMA SoundKept ==
    ASSUME NEW x, NEW known, NEW n, NEW i, NEW s, Sound(x, known, n, i, s),
           NEW t \in State, SbvKept(s, t), Kept(s, t), t.out = s.out
    PROVE  Done(x, known, n, i, s, t)
<1>1. /\ s \in State /\ SbvSound(x, known \cup s.out, n, i, s) /\ OutputDue(s) /\ Relayed(s) /\ s.epoch \in Nat
  BY SoundFacts, StateFields
<1>2. SbvSound(x, known \cup t.out, n, i, t) /\ OutputDue(t) /\ Relayed(t)
  BY <1>1, SbvSoundKept
<1>3. Sound(x, known, n, i, t)
  BY <1>2, SbvStepSound DEF Sends
<1>4. Grown(n, s, t)
  BY <1>1 DEF Grown, Kept, Sends
<1> QED
  BY <1>3, <1>4 DEF Done

LEMMA BlameSound ==
    ASSUME NEW x, NEW known, NEW n, NEW i, NEW s, Sound(x, known, n, i, s), NEW v \in Validators
    PROVE  LET t == Blame(s, v)
           IN  Done(x, known, n, i, s, t) /\ SbvKept(s, t) /\ Kept(s, t) /\ t.out = s.out
<1> DEFINE t == Blame(s, v)
<1>1. s \in State
  BY SoundFacts
<1>2. s.faults \cup {v} \in SUBSET Validators
  BY <1>1 DEF State
<1>3. t \in State /\ SbvKept(s, t) /\ Kept(s, t) /\ t.out = s.out
  BY <1>1, <1>2 DEF Blame, State, SbvKept, Kept
<1> HIDE DEF t
<1>4. Done(x, known, n, i, s, t)
  BY <1>3, SoundKept
<1> QED
  BY <1>3, <1>4 DEF t

(* The signature is there: its parity is the coin. *)
LEMMA CoinSound ==
    ASSUME NEW x, EnvOK(x), NEW known, NEW n, NEW i, NEW s, Sound(x, known, n, i, s), s.coin = None,
           s.ts.terminated = TRUE
    PROVE  Done(x, known, n, i, s, [s EXCEPT !.coin = Parity(s.epoch)])
<1> DEFINE p == Parity(s.epoch)
           t == [s EXCEPT !.coin = p]
           ev == known \cup s.out
<1>0. /\ s \in State /\ SbvSound(x, ev, n, i, s) /\ OutputDue(s) /\ Relayed(s)
      /\ Local(x, ev, n, i, s) /\ TermsFew(s) /\ s.epoch \in Nat
  BY SoundFacts, StateFields
<1>1. InitialCoin(s.epoch) = None
  BY <1>0 DEF Local, CoinRule
<1>2. p = CoinOf(x, s.epoch) /\ p \in BOOLEAN
  BY <1>0, <1>1 DEF EnvOK
<1> HIDE DEF p
<1>3. /\ t \in State /\ SbvKept(s, t) /\ t.coin = p /\ t.out = s.out /\ t.epoch = s.epoch
      /\ t.decision = s.decision /\ t.conf_values = s.conf_values /\ t.ts = s.ts
      /\ t.received_term = s.received_term /\ t.queue = s.queue /\ t.estimated = s.estimated
  BY <1>0, <1>2 DEF State, SbvKept
<1> HIDE DEF t, ev
<1>4. SbvSound(x, ev, n, i, t) /\ OutputDue(t) /\ Relayed(t)
  BY <1>0, <1>3, SbvSoundKept
<1>5. CoinRule(x, t)
  BY <1>2, <1>3, NoneAssumption DEF CoinRule
<1>6. ShareRule(x, ev, n, t)
  BY <1>0, <1>3 DEF Local, ShareRule
<1>7. TermRecord(ev, n, t) /\ (t.conf_values # None => Candidates(ev, t.epoch, t.conf_values)) /\ TermsFew(t)
  BY <1>0, <1>3 DEF Local, TermRecord, TermsFew
<1>8. Place(x, i, t) /\ QueueRule(ev, n, t)
  BY <1>0, <1>3 DEF Local, Place, QueueRule
<1>9. Local(x, ev, n, i, t)
  BY <1>5, <1>6, <1>7, <1>8 DEF Local
<1>10. Sound(x, known, n, i, t)
  BY <1>3, <1>4, <1>7, <1>9 DEF Sound, ev
<1>11. Grown(n, s, t)
  BY <1>0, <1>3 DEF Grown, Sends
<1> QED
  BY <1>10, <1>11 DEF Done, t, p

(* on_coin_step *)
LEMMA OnCoinStepSound ==
    ASSUME NEW x, EnvOK(x), NEW known, NEW n \in Nodes, NEW i, NEW calls, CallsOK(x, known, n, i, calls),
           NEW s, Sound(x, known, n, i, s), s.coin = None, NEW ts, TsStep(s.ts, ts)
    PROVE  Done(x, known, n, i, s, OnCoinStep(calls, s, n, ts))
<1> DEFINE u == WithTs(s, n, ts)
           w == [u EXCEPT !.coin = Parity(s.epoch)]
           t == OnCoinStep(calls, s, n, ts)
<1>1. t = IF ts.terminated /\ ~s.ts.terminated THEN TryUpdateEpoch(calls, w, n) ELSE u
  BY DEF OnCoinStep, WithTs
<1>2. Done(x, known, n, i, s, u) /\ u.ts = ts /\ u.coin = None /\ u.epoch = s.epoch
  BY WithTsSound
<1> HIDE DEF u, t
<1>3. CASE ts.terminated /\ ~s.ts.terminated
  <2>1. ts.terminated = TRUE
    BY <1>3 DEF TsStep, TsSound, TsState
  <2>2. w = [u EXCEPT !.coin = Parity(u.epoch)] /\ Sound(x, known, n, i, u) /\ u.ts.terminated = TRUE
    BY <1>2, <2>1 DEF Done
  <2>3. Done(x, known, n, i, u, w)
    BY <1>2, <2>2, CoinSound
  <2> HIDE DEF w
  <2>4. Done(x, known, n, i, w, TryUpdateEpoch(calls, w, n))
    BY <2>3, TryUpdateEpochSound DEF Done
  <2>5. t = TryUpdateEpoch(calls, w, n)
    BY <1>1, <1>3
  <2>6. Done(x, known, n, i, u, t)
    BY <2>2, <2>3, <2>4, <2>5, DoneThen
  <2> QED
    BY <1>2, <2>6, DoneThen DEF t
<1>4. CASE ~(ts.terminated /\ ~s.ts.terminated)
  <2>1. t = u
    BY <1>1, <1>4
  <2> QED
    BY <1>2, <2>1 DEF t
<1> QED
  BY <1>3, <1>4

(* try_finish_conf_round *)
LEMMA TryFinishConfRoundSound ==
    ASSUME NEW x, EnvOK(x), NEW known, NEW n \in Nodes, NEW i, NEW calls, CallsOK(x, known, n, i, calls),
           NEW s, Sound(x, known, n, i, s)
    PROVE  Done(x, known, n, i, s, TryFinishConfRound(calls, s, n))
<1> DEFINE over == s.conf_values = None \/ CountConf(s) < num_correct \/ s.coin # None
           u == OnCoinStep(calls, s, n, TsSign(s.ts, n))
           t == TryFinishConfRound(calls, s, n)
<1>1. t = IF over THEN s ELSE TryUpdateEpoch(calls, u, n)
  BY DEF TryFinishConfRound
<1>2. CASE over
  BY <1>1, <1>2, DoneNothing
<1>3. CASE ~over
  <2>1. s.coin = None /\ t = TryUpdateEpoch(calls, u, n)
    BY <1>1, <1>3
  <2>2. TsStep(s.ts, TsSign(s.ts, n))
    BY TsOfState, TsSignSound
  <2>3. Done(x, known, n, i, s, u)
    BY <2>1, <2>2, OnCoinStepSound
  <2> HIDE DEF u
  <2>4. Done(x, known, n, i, u, TryUpdateEpoch(calls, u, n))
    BY <2>3, TryUpdateEpochSound DEF Done
  <2> QED
    BY <2>1, <2>3, <2>4, DoneThen
<1> QED
  BY <1>2, <1>3

(* handle_conf *)
LEMMA HandleConfSound ==
    ASSUME NEW x, EnvOK(x), NEW known, NEW n \in Nodes, NEW i, NEW calls, CallsOK(x, known, n, i, calls),
           NEW s, Sound(x, known, n, i, s), NEW v \in Validators, NEW vals \in SUBSET BOOLEAN
    PROVE  Done(x, known, n, i, s, HandleConf(calls, s, n, v, vals))
<1> DEFINE u == [s EXCEPT !.received_conf[v] = vals]
<1>1. s \in State
  BY SoundFacts
<1>2. u \in State /\ SbvKept(s, u) /\ Kept(s, u) /\ u.out = s.out
  <2>1. [s.received_conf EXCEPT ![v] = vals] \in [Validators -> {None} \cup SUBSET BOOLEAN]
    BY <1>1 DEF State
  <2> QED
    BY <1>1, <2>1 DEF State, SbvKept, Kept
<1>3. HandleConf(calls, s, n, v, vals) = TryFinishConfRound(calls, u, n)
  BY DEF HandleConf
<1> HIDE DEF u
<1>4. Done(x, known, n, i, s, u)
  BY <1>2, SoundKept
<1>5. Done(x, known, n, i, u, TryFinishConfRound(calls, u, n))
  BY <1>4, TryFinishConfRoundSound DEF Done
<1> QED
  BY <1>3, <1>4, <1>5, DoneThen

(* The candidate values, from the output of the SBV broadcast *)
LEMMA CandidatesSound ==
    ASSUME NEW x, NEW known, NEW n, NEW i, NEW s, Sound(x, known, n, i, s), s.sbv_output # None
    PROVE  Done(x, known, n, i, s, [s EXCEPT !.conf_values = s.sbv_output])
<1> DEFINE t == [s EXCEPT !.conf_values = s.sbv_output]
           ev == known \cup s.out
<1>0. /\ s \in State /\ SbvSound(x, ev, n, i, s) /\ OutputDue(s) /\ Relayed(s)
      /\ Local(x, ev, n, i, s) /\ TermsFew(s) /\ s.epoch \in Nat
  BY SoundFacts, StateFields
<1>3. /\ t \in State /\ SbvKept(s, t) /\ t.coin = s.coin /\ t.out = s.out /\ t.epoch = s.epoch
      /\ t.decision = s.decision /\ t.conf_values = s.sbv_output /\ t.ts = s.ts
      /\ t.received_term = s.received_term /\ t.queue = s.queue /\ t.estimated = s.estimated
  BY <1>0 DEF State, SbvKept
<1> HIDE DEF t, ev
<1>4. SbvSound(x, ev, n, i, t) /\ OutputDue(t) /\ Relayed(t)
  BY <1>0, <1>3, SbvSoundKept
<1>5. CoinRule(x, t) /\ ShareRule(x, ev, n, t)
  BY <1>0, <1>3 DEF Local, CoinRule, ShareRule
<1>6. Candidates(ev, t.epoch, t.conf_values)
  BY <1>0, <1>3 DEF SbvSound
<1>7. TermRecord(ev, n, t) /\ TermsFew(t)
  BY <1>0, <1>3 DEF Local, TermRecord, TermsFew
<1>8. Place(x, i, t) /\ QueueRule(ev, n, t)
  BY <1>0, <1>3 DEF Local, Place, QueueRule
<1>9. Local(x, ev, n, i, t)
  BY <1>5, <1>6, <1>7, <1>8 DEF Local
<1>10. Sound(x, known, n, i, t)
  BY <1>3, <1>4, <1>7, <1>9 DEF Sound, ev
<1>11. Grown(n, s, t)
  BY <1>0, <1>3 DEF Grown, Sends
<1> QED
  BY <1>10, <1>11 DEF Done, t

(* send_conf *)
LEMMA SendConfSound ==
    ASSUME NEW x, EnvOK(x), NEW known, NEW n \in Nodes, NEW i, NEW calls, CallsOK(x, known, n, i, calls),
           NEW s, Sound(x, known, n, i, s), s.sbv_output # None
    PROVE  Done(x, known, n, i, s, SendConf(calls, s, n, s.sbv_output))
<1> DEFINE vals == s.sbv_output
           t == [s EXCEPT !.conf_values = vals]
           w == Multicast(t, n, t.epoch, "Conf", vals)
           r == SendConf(calls, s, n, vals)
<1>1. Done(x, known, n, i, s, t) /\ Sound(x, known, n, i, t) /\ vals \in SUBSET BOOLEAN
  BY CandidatesSound, SoundFacts, StateFields DEF Done
<1>2. r = IF n \in Validators THEN HandleConf(calls, w, n, n, vals) ELSE TryFinishConfRound(calls, t, n)
  BY DEF SendConf, is_validator
<1> HIDE DEF t, vals, r
<1>3. CASE n \notin Validators
  <2>1. Done(x, known, n, i, t, r)
    BY <1>1, <1>2, <1>3, TryFinishConfRoundSound
  <2> QED
    BY <1>1, <2>1, DoneThen DEF r, vals
<1>4. CASE n \in Validators
  <2>0. t \in State /\ t.epoch \in Nat
    BY <1>1, SoundFacts, StateFields
  <2>1. Msg(n, t.epoch, "Conf", vals) \in Message
    BY <1>1, <1>4, <2>0, MessageTypes
  <2>2. Sound(x, known, n, i, w)
    BY <1>1, <1>4, <2>1, MulticastSound
  <2>3. Kept(t, w) /\ w.out = t.out \cup {Msg(n, t.epoch, "Conf", vals)}
    BY <1>4, <2>0, <2>1, MulticastFacts
  <2> HIDE DEF w
  <2>4. Done(x, known, n, i, t, w)
    BY <2>0, <2>2, <2>3, OwnFrom DEF Done, Grown, Kept, Sends
  <2>5. Done(x, known, n, i, w, HandleConf(calls, w, n, n, vals))
    BY <1>1, <1>4, <2>2, HandleConfSound
  <2>6. Done(x, known, n, i, s, w)
    BY <1>1, <2>4, DoneThen
  <2> QED
    BY <1>2, <1>4, <2>5, <2>6, DoneThen DEF r, vals
<1> QED
  BY <1>3, <1>4

(* handle_sbvb_step *)
LEMMA HandleSbvStepSound ==
    ASSUME NEW x, EnvOK(x), NEW known, NEW n \in Nodes, NEW i, NEW calls, CallsOK(x, known, n, i, calls),
           NEW s, NEW t, Sound(x, known, n, i, t), Kept(s, t)
    PROVE  Done(x, known, n, i, t, HandleSbvStep(calls, s, t, n))
<1> DEFINE r == HandleSbvStep(calls, s, t, n)
           u == [t EXCEPT !.conf_values = t.sbv_output]
<1>1. CASE t.conf_values # None \/ t.sbv_output = s.sbv_output
  <2>1. r = t
    BY <1>1 DEF HandleSbvStep
  <2> QED
    BY <2>1, DoneNothing
<1>2. CASE ~(t.conf_values # None \/ t.sbv_output = s.sbv_output)
  <2>1. t.sbv_output # None
    BY <1>2 DEF Kept
  <2>2. r = IF t.coin # None THEN TryUpdateEpoch(calls, u, n) ELSE SendConf(calls, t, n, t.sbv_output)
    BY <1>2 DEF HandleSbvStep
  <2> HIDE DEF r
  <2>3. CASE t.coin # None
    <3>1. Done(x, known, n, i, t, u)
      BY <2>1, CandidatesSound
    <3> HIDE DEF u
    <3>2. Done(x, known, n, i, u, TryUpdateEpoch(calls, u, n))
      BY <3>1, TryUpdateEpochSound DEF Done
    <3> QED
      BY <2>2, <2>3, <3>1, <3>2, DoneThen DEF r
  <2>4. CASE t.coin = None
    <3>1. r = SendConf(calls, t, n, t.sbv_output)
      BY <2>2, <2>4
    <3> QED
      BY <2>1, <3>1, SendConfSound DEF r
  <2> QED
    BY <2>3, <2>4
<1> QED
  BY <1>1, <1>2

(* A BVal or Aux of somebody else, or a Term that is good as such *)
LEMMA BValMessageSound ==
    ASSUME NEW x, NEW known, NEW n, NEW i, NEW s, Sound(x, known, n, i, s), NEW v \in Validators, v # n,
           NEW b \in BOOLEAN, v \in ByBVal(known \cup s.out, s.epoch, b)
    PROVE  Done(x, known, n, i, s, HandleBVal(s, n, v, b)) /\ Kept(s, HandleBVal(s, n, v, b))
<1> DEFINE t == HandleBVal(s, n, v, b)
<1>1. /\ SbvSound(x, known \cup s.out, n, i, s) /\ OutputDue(s) /\ Relayed(s) /\ s.epoch \in Nat
  BY SoundFacts, StateFields
<1>2. /\ SbvSound(x, known \cup t.out, n, i, t) /\ OutputDue(t) /\ Relayed(t)
      /\ Kept(s, t) /\ Sends(n, s, t)
  BY <1>1, HandleBValSound
<1> HIDE DEF t
<1>3. Sound(x, known, n, i, t)
  BY <1>2, SbvStepSound
<1>4. Grown(n, s, t)
  BY <1>1, <1>2 DEF Grown, Kept, Sends
<1> QED
  BY <1>2, <1>3, <1>4 DEF Done, t

LEMMA AuxMessageSound ==
    ASSUME NEW x, NEW known, NEW n, NEW i, NEW s, Sound(x, known, n, i, s), NEW v \in Validators,
           NEW b \in BOOLEAN, v \in ByAux(known \cup s.out, s.epoch, b)
    PROVE  Done(x, known, n, i, s, HandleAux(s, v, b)) /\ Kept(s, HandleAux(s, v, b))
<1> DEFINE t == HandleAux(s, v, b)
<1>1. /\ SbvSound(x, known \cup s.out, n, i, s) /\ OutputDue(s) /\ Relayed(s) /\ s.epoch \in Nat
  BY SoundFacts, StateFields
<1>2. SbvSound(x, known \cup s.out, n, i, t) /\ HandledAux(s, t) /\ OutputDue(t)
  BY <1>1, HandleAuxSound
<1> HIDE DEF t
<1>3. Kept(s, t) /\ t.out = s.out
  BY <1>2 DEF HandledAux
<1>4. Relayed(t)
  BY <1>1, <1>2 DEF HandledAux, Relayed
<1>5. Sound(x, known, n, i, t)
  BY <1>2, <1>3, <1>4, SbvStepSound DEF Sends
<1>6. Grown(n, s, t)
  BY <1>1, <1>3 DEF Grown, Kept, Sends
<1> QED
  BY <1>3, <1>5, <1>6 DEF Done, t

(* A Term is noted; unless it is the (f + 1)-st, no decision is due. *)
TermNoted(x, known, n, i, s, t, vals) ==
    LET ev == known \cup t.out
    IN  /\ t \in State /\ SbvSound(x, ev, n, i, t) /\ OutputDue(t) /\ Relayed(t) /\ Local(x, ev, n, i, t)
        /\ Grown(n, s, t) /\ t.out = s.out
        /\ t.epoch = s.epoch /\ t.decision = s.decision /\ t.coin = s.coin
        /\ t.conf_values = s.conf_values /\ t.queue = s.queue
        /\ \A b \in vals : t.decision # None \/ ~(Cardinality(t.received_term[b]) > num_faulty) => TermsFew(t)

LEMMA TermCountedSound ==
    ASSUME NEW x, NEW known, NEW n, NEW i, NEW s, Sound(x, known, n, i, s), NEW v \in Validators, v # n,
           NEW b \in BOOLEAN, v \in ByTerm(known \cup s.out, s.epoch, b),
           NEW t, t = [s EXCEPT !.received_term[b] = @ \cup {v}]
    PROVE  TermNoted(x, known, n, i, s, t, {b})
<1> DEFINE ev == known \cup s.out
<1>0. /\ s \in State /\ SbvSound(x, ev, n, i, s) /\ OutputDue(s) /\ Relayed(s)
      /\ Local(x, ev, n, i, s) /\ TermsFew(s) /\ s.epoch \in Nat
  BY SoundFacts, StateFields
<1>1. /\ t \in State /\ SbvKept(s, t) /\ t.out = s.out /\ t.epoch = s.epoch /\ t.decision = s.decision
      /\ t.coin = s.coin /\ t.conf_values = s.conf_values /\ t.ts = s.ts
      /\ t.queue = s.queue /\ t.estimated = s.estimated
      /\ t.received_term[b] = s.received_term[b] \cup {v}
      /\ \A c \in BOOLEAN : c # b => t.received_term[c] = s.received_term[c]
  <2>1. [s.received_term EXCEPT ![b] = @ \cup {v}] \in BoolMultimap
    BY <1>0 DEF State, BoolMultimap
  <2> QED
    BY <1>0, <2>1 DEF State, BoolMultimap, SbvKept
<1>2. SbvSound(x, ev, n, i, t) /\ OutputDue(t) /\ Relayed(t)
  <2> HIDE DEF ev
  <2> QED
    BY <1>0, <1>1, SbvSoundKept
<1>3. Local(x, ev, n, i, t)
  <2> HIDE DEF ev
  <2>1. TermRecord(ev, n, t)
    <3>1. v \in ByTerm(ev, s.epoch, b)
      BY DEF ev
    <3> QED
      BY <1>0, <1>1, <3>1 DEF Local, TermRecord
  <2>2. CoinRule(x, t) /\ ShareRule(x, ev, n, t)
    BY <1>0, <1>1 DEF Local, CoinRule, ShareRule
  <2>3. Place(x, i, t) /\ QueueRule(ev, n, t) /\ (t.conf_values # None => Candidates(ev, t.epoch, t.conf_values))
    BY <1>0, <1>1 DEF Local, Place, QueueRule
  <2> QED
    BY <2>1, <2>2, <2>3 DEF Local
<1>4. known \cup t.out = ev
  BY <1>1
<1>5. Grown(n, s, t)
  BY <1>0, <1>1 DEF Grown, Sends
<1>6. ASSUME t.decision # None \/ ~(Cardinality(t.received_term[b]) > num_faulty) PROVE TermsFew(t)
  <2>1. CASE t.decision # None
    BY <2>1 DEF TermsFew
  <2>2. CASE t.decision = None
    <3>1. \A c \in BOOLEAN : Cardinality(s.received_term[c]) <= num_faulty
      BY <1>0, <1>1, <2>2 DEF TermsFew
    <3>2. Cardinality(t.received_term[b]) <= num_faulty
      <4>1. Cardinality(t.received_term[b]) \in Nat
        BY <1>1, StateFields, Counting
      <4> QED
        BY <1>6, <2>2, <4>1, Thresholds
    <3> QED
      BY <1>1, <3>1, <3>2 DEF TermsFew
  <2> QED
    BY <2>1, <2>2
<1> HIDE DEF ev
<1> QED
  BY <1>1, <1>2, <1>3, <1>4, <1>5, <1>6 DEF TermNoted

(* A Term is as good as BVal and Aux. *)
LEMMA TermAsMessagesSound ==
    ASSUME NEW x, NEW known, NEW n, NEW i, NEW t, Sound(x, known, n, i, t), NEW v \in Validators, v # n,
           NEW b \in BOOLEAN, v \in ByTerm(known \cup t.out, t.epoch, b)
    PROVE  LET aux == HandleAux(HandleBVal(t, n, v, b), v, b)
           IN  Done(x, known, n, i, t, aux) /\ Kept(t, aux)
<1> DEFINE bval == HandleBVal(t, n, v, b)
           aux == HandleAux(bval, v, b)
<1>1. v \in ByBVal(known \cup t.out, t.epoch, b)
  BY DEF ByBVal
<1>2. Done(x, known, n, i, t, bval) /\ Kept(t, bval)
  BY <1>1, BValMessageSound
<1> HIDE DEF bval
<1>3. Sound(x, known, n, i, bval) /\ known \cup t.out \subseteq known \cup bval.out /\ bval.epoch = t.epoch
  BY <1>2 DEF Done, Grown, Kept, Sends
<1>4. v \in ByAux(known \cup bval.out, bval.epoch, b)
  BY <1>3, Monotone DEF ByAux
<1>5. Done(x, known, n, i, bval, aux) /\ Kept(bval, aux)
  BY <1>3, <1>4, AuxMessageSound
<1> HIDE DEF aux
<1>6. Kept(t, aux)
  BY <1>2, <1>5 DEF Kept
<1>7. Done(x, known, n, i, t, aux)
  BY <1>2, <1>5, DoneThen
<1> QED
  BY <1>6, <1>7 DEF aux, bval

(* handle_term *)
LEMMA HandleTermSound ==
    ASSUME NEW x, EnvOK(x), NEW known, NEW n \in Nodes, NEW i, NEW calls, CallsOK(x, known, n, i, calls),
           NEW s, Sound(x, known, n, i, s), NEW v \in Validators, v # n, NEW b \in BOOLEAN,
           v \in ByTerm(known \cup s.out, s.epoch, b)
    PROVE  Done(x, known, n, i, s, HandleTerm(calls, s, n, v, b))
<1> DEFINE t == [s EXCEPT !.received_term[b] = @ \cup {v}]
           aux == HandleAux(HandleBVal(t, n, v, b), v, b)
           u == HandleSbvStep(calls, t, aux, n)
           r == HandleTerm(calls, s, n, v, b)
           ev == known \cup t.out
<1>1. /\ t \in State /\ SbvSound(x, ev, n, i, t) /\ OutputDue(t) /\ Relayed(t) /\ Local(x, ev, n, i, t)
      /\ Grown(n, s, t) /\ v \in ByTerm(ev, t.epoch, b)
      /\ t.decision # None \/ ~(Cardinality(t.received_term[b]) > num_faulty) => TermsFew(t)
  <2>1. t = [s EXCEPT !.received_term[b] = @ \cup {v}]
    OBVIOUS
  <2> HIDE DEF t
  <2>2. /\ t \in State /\ SbvSound(x, ev, n, i, t) /\ OutputDue(t) /\ Relayed(t) /\ Local(x, ev, n, i, t)
        /\ Grown(n, s, t) /\ t.epoch = s.epoch /\ t.out = s.out
        /\ t.decision # None \/ ~(Cardinality(t.received_term[b]) > num_faulty) => TermsFew(t)
    <3>1. TermNoted(x, known, n, i, s, t, {b})
      BY <2>1, TermCountedSound
    <3> QED
      BY <3>1 DEF TermNoted
  <2>3. v \in ByTerm(ev, t.epoch, b)
    BY <2>2
  <2> QED
    BY <2>2, <2>3
<1>2. r = IF t.decision # None THEN t
          ELSE IF Cardinality(t.received_term[b]) > num_faulty THEN Decide(t, n, b)
          ELSE HandleConf(calls, u, n, v, {b})
  BY DEF HandleTerm
<1> HIDE DEF t, r
<1>3. TermsFew(t) => Done(x, known, n, i, s, t)
  BY <1>1 DEF Done, Sound
<1>4. CASE t.decision # None
  <2>1. r = t
    BY <1>2, <1>4
  <2> QED
    BY <1>1, <1>3, <1>4, <2>1 DEF r
<1>5. CASE t.decision = None /\ Cardinality(t.received_term[b]) > num_faulty
  <2>1. t.received_term[b] \subseteq ByTerm(ev, t.epoch, b) /\ t.received_term[b] \in SUBSET Validators
    BY <1>1, StateFields DEF Local, TermRecord
  <2>2. Grounds(x, ev, t.epoch, b)
    <3> HIDE DEF ev
    <3> QED
      BY <1>5, <2>1, Sets, CountsMore, ThresholdTypes DEF Grounds
  <2>3. Sound(x, known, n, i, Decide(t, n, b)) /\ Grown(n, t, Decide(t, n, b))
    BY <1>1, <1>5, <2>2, DecideSound
  <2>4. r = Decide(t, n, b)
    BY <1>2, <1>5
  <2>5. Grown(n, s, r)
    <3>1. s.epoch \in Nat /\ t.epoch \in Nat /\ r.epoch \in Nat
      BY <1>1, <2>3, <2>4, SoundFacts, StateFields
    <3> QED
      BY <1>1, <2>3, <2>4, <3>1 DEF Grown, Sends
  <2> QED
    BY <2>3, <2>4, <2>5 DEF Done, r
<1>6. CASE t.decision = None /\ ~(Cardinality(t.received_term[b]) > num_faulty)
  <2>1. Done(x, known, n, i, s, t) /\ Sound(x, known, n, i, t)
    BY <1>1, <1>3, <1>6 DEF Done
  <2>2. Done(x, known, n, i, t, aux) /\ Kept(t, aux)
    BY <1>1, <2>1, TermAsMessagesSound
  <2> HIDE DEF aux
  <2>3. Sound(x, known, n, i, aux)
    BY <2>2 DEF Done
  <2>4. Done(x, known, n, i, aux, u)
    BY <2>2, <2>3, HandleSbvStepSound
  <2> HIDE DEF u
  <2>5. Sound(x, known, n, i, u) /\ {b} \in SUBSET BOOLEAN
    BY <2>4 DEF Done
  <2> DEFINE vals == {b}
  <2>6. r = HandleConf(calls, u, n, v, vals) /\ vals \in SUBSET BOOLEAN
    BY <1>2, <1>6
  <2> HIDE DEF vals
  <2>7. Done(x, known, n, i, u, r)
    BY <2>5, <2>6, HandleConfSound
  <2>8. Done(x, known, n, i, t, u)
    BY <2>1, <2>2, <2>4, DoneThen
  <2>9. Done(x, known, n, i, t, r)
    BY <2>1, <2>7, <2>8, DoneThen
  <2> QED
    BY <2>1, <2>9, DoneThen DEF r
<1> QED
  BY <1>4, <1>5, <1>6

(* handle_coin *)
LEMMA HandleCoinSound ==
    ASSUME NEW x, EnvOK(x), NEW known, NEW n \in Nodes, NEW i, NEW calls, CallsOK(x, known, n, i, calls),
           NEW s, Sound(x, known, n, i, s), NEW v \in Validators, NEW valid \in BOOLEAN
    PROVE  Done(x, known, n, i, s, HandleCoin(calls, s, n, v, valid))
<1> DEFINE t == IF ~s.ts.terminated /\ ~valid THEN Blame(s, v) ELSE s
           ts == TsHandleMessage(s.ts, v, valid)
           r == HandleCoin(calls, s, n, v, valid)
<1>1. r = IF s.coin # None THEN s ELSE OnCoinStep(calls, t, n, ts)
  BY DEF HandleCoin
<1>2. CASE s.coin # None
  BY <1>1, <1>2, DoneNothing
<1>3. CASE s.coin = None
  <2>1. Done(x, known, n, i, s, t) /\ Kept(s, t)
    <3>1. Done(x, known, n, i, s, Blame(s, v)) /\ Kept(s, Blame(s, v))
      BY BlameSound
    <3>2. Done(x, known, n, i, s, s) /\ Kept(s, s)
      BY DoneNothing DEF Kept
    <3> QED
      BY <3>1, <3>2
  <2>2. TsStep(s.ts, ts)
    BY TsOfState, TsHandleMessageSound
  <2>3. r = OnCoinStep(calls, t, n, ts)
    BY <1>1, <1>3
  <2> HIDE DEF r, t, ts
  <2>4. Sound(x, known, n, i, t) /\ t.coin = None /\ TsStep(t.ts, ts)
    BY <1>3, <2>1, <2>2 DEF Done, Kept
  <2>5. Done(x, known, n, i, t, r)
    BY <2>3, <2>4, OnCoinStepSound
  <2> QED
    BY <2>1, <2>5, DoneThen DEF r
<1> QED
  BY <1>2, <1>3

(* handle_message_content *)
LEMMA HandleContentSound ==
    ASSUME NEW x, EnvOK(x), NEW known, NEW n \in Nodes, NEW i, NEW calls, CallsOK(x, known, n, i, calls),
           NEW s, Sound(x, known, n, i, s), NEW m \in Message, Due(known \cup s.out, n, s, m)
    PROVE  Done(x, known, n, i, s, HandleContent(calls, s, n, m))
<1> DEFINE r == HandleContent(calls, s, n, m)
           v == m.from
           b == m.val
           ev == known \cup s.out
<1>0. s.epoch \in Nat /\ v \in Validators /\ v # n /\ m.epoch \in Nat /\ m.epoch <= s.epoch
  BY SoundFacts, StateFields DEF Message, Due
<1>1. /\ m.type \in {"BVal", "Aux", "Term", "Coin", "Conf"}
      /\ IF m.type = "Conf" THEN b \in SUBSET BOOLEAN ELSE b \in BOOLEAN
  BY DEF Message
<1>2. m = Msg(v, m.epoch, m.type, b)
  BY DEF Message, Msg
<1>3. m \in ev /\ (m.type # "Term" => m.epoch = s.epoch)
  BY DEF Due, CanExpire
<1>4. CASE m.type = "BVal"
  <2>1. b \in BOOLEAN /\ v \in ByBVal(ev, s.epoch, b)
    BY <1>0, <1>1, <1>2, <1>3, <1>4 DEF ByBVal
  <2> DEFINE t == HandleBVal(s, n, v, b)
  <2>2. r = HandleSbvStep(calls, s, t, n)
    BY <1>4 DEF HandleContent
  <2> HIDE DEF b, r, v
  <2>3. Done(x, known, n, i, s, t) /\ Kept(s, t)
    BY <1>0, <2>1, BValMessageSound
  <2> HIDE DEF t
  <2>4. Done(x, known, n, i, t, r)
    BY <2>2, <2>3, HandleSbvStepSound DEF Done
  <2> QED
    BY <2>3, <2>4, DoneThen DEF r
<1>5. CASE m.type = "Aux"
  <2>1. b \in BOOLEAN /\ v \in ByAux(ev, s.epoch, b)
    BY <1>0, <1>1, <1>2, <1>3, <1>5 DEF ByAux
  <2> DEFINE t == HandleAux(s, v, b)
  <2>2. r = HandleSbvStep(calls, s, t, n)
    BY <1>5 DEF HandleContent
  <2> HIDE DEF b, r, v
  <2>3. Done(x, known, n, i, s, t) /\ Kept(s, t)
    BY <1>0, <2>1, AuxMessageSound
  <2> HIDE DEF t
  <2>4. Done(x, known, n, i, t, r)
    BY <2>2, <2>3, HandleSbvStepSound DEF Done
  <2> QED
    BY <2>3, <2>4, DoneThen DEF r
<1>6. CASE m.type = "Conf"
  <2>1. b \in SUBSET BOOLEAN /\ r = HandleConf(calls, s, n, v, b)
    BY <1>1, <1>6 DEF HandleContent
  <2> HIDE DEF b, r, v
  <2> QED
    BY <1>0, <2>1, HandleConfSound DEF r
<1>7. CASE m.type = "Term"
  <2>1. b \in BOOLEAN /\ r = HandleTerm(calls, s, n, v, b)
    BY <1>1, <1>7 DEF HandleContent
  <2>2. v \in ByTerm(ev, s.epoch, b)
    BY <1>0, <1>2, <1>3, <1>7 DEF ByTerm
  <2> HIDE DEF b, r, v
  <2> QED
    BY <1>0, <2>1, <2>2, HandleTermSound DEF r
<1>8. CASE m.type = "Coin"
  <2>1. b \in BOOLEAN /\ r = HandleCoin(calls, s, n, v, b)
    BY <1>1, <1>8 DEF HandleContent
  <2> HIDE DEF b, r, v
  <2> QED
    BY <1>0, <2>1, HandleCoinSound DEF r
<1> QED
  BY <1>1, <1>4, <1>5, <1>6, <1>7, <1>8

(* The queue has a first message. *)
LEMMA FirstIsQueued ==
    ASSUME NEW queued \in SUBSET Message, queued # {}, Slots(queued), NEW e, \A m \in queued : m.epoch = e
    PROVE  First(queued) \in queued
<1> DEFINE Key(m) == 8 * m.from + Rank(m)
           Before(m, q) == m.from < q.from \/ (m.from = q.from /\ Rank(m) < Rank(q))
           Keys == {Key(m) : m \in queued}
<1>1. ASSUME NEW m \in Message
      PROVE  m.from \in Nat /\ Rank(m) \in 1 .. 7 /\ Key(m) \in Nat
  <2>1. m.from \in Nat
    BY AgreementAssumption DEF Message
  <2>2. Rank(m) \in 1 .. 7
    <3>1. m.type \in {"BVal", "Aux", "Term", "Coin", "Conf"}
      BY DEF Message
    <3> QED
      BY <3>1 DEF Rank
  <2> QED
    BY <2>1, <2>2
<1>2. Keys \in SUBSET Nat /\ Keys # {}
  BY <1>1
<1>3. PICK k \in Keys : \A j \in Keys : k <= j
  BY <1>2, Least
<1>4. PICK m \in queued : Key(m) = k
  BY <1>3
<1>5. ASSUME NEW q \in queued \ {m} PROVE Before(m, q)
  <2>1. Key(m) <= Key(q)
    BY <1>3, <1>4
  <2>2. /\ m.from \in Nat /\ Rank(m) \in 1 .. 7 /\ q.from \in Nat /\ Rank(q) \in 1 .. 7
    BY <1>1, <1>5
  <2>3. Before(m, q) \/ (m.from = q.from /\ Rank(m) = Rank(q))
    BY <2>1, <2>2
  <2>4. ~(m.from = q.from /\ Rank(m) = Rank(q))
    <3> SUFFICES ASSUME m.from = q.from, Rank(m) = Rank(q) PROVE FALSE
      OBVIOUS
    <3>1. /\ m.type \in {"BVal", "Aux", "Term", "Coin", "Conf"} /\ q.type \in {"BVal", "Aux", "Term", "Coin", "Conf"}
          /\ m.type \in {"BVal", "Aux"} => m.val \in BOOLEAN
          /\ q.type \in {"BVal", "Aux"} => q.val \in BOOLEAN
      BY <1>5 DEF Message
    <3>2. m.type = q.type /\ (m.type \in {"BVal", "Aux"} => m.val = q.val)
      BY <3>1 DEF Rank
    <3>3. SameSlot(m, q)
      BY <1>5, <3>2 DEF SameSlot
    <3> QED
      BY <1>5, <3>3 DEF Slots
  <2> QED
    BY <2>3, <2>4
<1> QED
  BY <1>5 DEF First

(* The loop of update_epoch *)
LEMMA DrainSound ==
    ASSUME NEW x, EnvOK(x), NEW known, NEW n \in Nodes, NEW i, NEW calls, CallsOK(x, known, n, i, calls),
           NEW s, Sound(x, known, n, i, s), NEW queued \in SUBSET Message, MayLoop(known \cup s.out, n, s, queued)
    PROVE  Done(x, known, n, i, s, Drain(calls, s, n, queued))
<1> DEFINE m == First(queued)
           t == HandleContent(calls, s, n, m)
           r == Drain(calls, s, n, queued)
           rest == queued \ {m}
<1>1. CASE queued = {}
  BY <1>1, DoneNothing DEF Drain
<1>2. CASE queued # {}
  <2>1. Slots(queued) /\ \A q \in queued : q.epoch = s.epoch /\ Due(known \cup s.out, n, s, q)
    BY DEF MayLoop
  <2>2. m \in queued
    BY <1>2, <2>1, FirstIsQueued
  <2>3. r = IF t.decision # None \/ t.epoch > s.epoch THEN t ELSE calls[LoopCall(t, n, rest)]
    BY <1>2 DEF Drain
  <2> HIDE DEF m, r
  <2>4. m \in Message /\ Due(known \cup s.out, n, s, m)
    BY <2>1, <2>2
  <2>5. Done(x, known, n, i, s, t)
    BY <2>4, HandleContentSound
  <2> HIDE DEF t
  <2>6. Sound(x, known, n, i, t) /\ Sends(n, s, t) /\ s.epoch <= t.epoch /\ s.epoch \in Nat /\ t.epoch \in Nat
    BY <2>5, SoundFacts, StateFields DEF Done, Grown, Sends
  <2>7. CASE t.decision # None \/ t.epoch > s.epoch
    BY <2>3, <2>5, <2>7 DEF r
  <2>8. CASE ~(t.decision # None \/ t.epoch > s.epoch)
    <3>1. t.epoch = s.epoch /\ r = calls[LoopCall(t, n, rest)]
      BY <2>3, <2>6, <2>8
    <3>2. rest \in SUBSET Message /\ Slots(rest)
      BY <2>1 DEF Slots
    <3>3. \A q \in rest : q.epoch = t.epoch /\ Due(known \cup t.out, n, t, q)
      BY <2>1, <2>6, <3>1 DEF Due, Sends
    <3> HIDE DEF rest
    <3>4. MayLoop(known \cup t.out, n, t, rest)
      BY <3>2, <3>3 DEF MayLoop
    <3>5. Done(x, known, n, i, t, r)
      BY <2>6, <3>1, <3>2, <3>4, CallLoop
    <3> QED
      BY <2>5, <3>5, DoneThen DEF r
  <2> QED
    BY <2>7, <2>8
<1> QED
  BY <1>1, <1>2

(* update_epoch, up to send_bval *)
Entered(s, b) ==
    LET terms == s.received_term
        conf == [v \in Validators |-> IF v \in terms[TRUE] THEN {TRUE}
                                      ELSE IF v \in terms[FALSE] THEN {FALSE} ELSE None]
    IN  [Clear(s, terms) EXCEPT !.received_conf = conf, !.conf_values = None,
                                !.epoch = @ + 1, !.coin = InitialCoin(s.epoch + 1),
                                !.ts = TsNew, !.estimated = b]

LEMMA EnteredFacts ==
    ASSUME NEW s \in State, NEW b \in BOOLEAN
    PROVE  LET t == Entered(s, b)
           IN  /\ t \in State /\ t.epoch = s.epoch + 1 /\ t.bin_values = {} /\ t.received_bval = s.received_term
               /\ t.sent_bval = {} /\ t.received_aux = s.received_term /\ t.sbv_output = None /\ t.out = s.out
               /\ t.estimated = b /\ t.decision = s.decision /\ t.conf_values = None
               /\ t.coin = InitialCoin(s.epoch + 1) /\ t.received_term = s.received_term
               /\ t.ts = TsNew /\ t.queue = s.queue
<1> DEFINE terms == s.received_term
           conf == [v \in Validators |-> IF v \in terms[TRUE] THEN {TRUE}
                                         ELSE IF v \in terms[FALSE] THEN {FALSE} ELSE None]
           coin == InitialCoin(s.epoch + 1)
           u == Clear(s, terms)
           t == [u EXCEPT !.received_conf = conf, !.conf_values = None,
                          !.epoch = @ + 1, !.coin = coin, !.ts = TsNew, !.estimated = b]
<1>1. t = Entered(s, b)
  BY DEF Entered
<1>2. conf \in [Validators -> {None} \cup SUBSET BOOLEAN]
  OBVIOUS
<1>3. coin \in {None} \cup BOOLEAN
  BY DEF InitialCoin
<1>4. TsNew \in TsState
  BY DEF TsNew, TsState
<1>5. /\ u \in State /\ u.epoch = s.epoch /\ u.bin_values = {} /\ u.received_bval = terms
      /\ u.sent_bval = {} /\ u.received_aux = terms /\ u.sbv_output = None /\ u.out = s.out
      /\ u.decision = s.decision /\ u.received_term = terms /\ u.queue = s.queue
  BY DEF Clear, State
<1> HIDE DEF u, conf, coin
<1>6. u.epoch + 1 \in Nat
  BY <1>5, StateFields
<1>7. /\ t \in State /\ t.epoch = u.epoch + 1 /\ t.bin_values = u.bin_values /\ t.received_bval = u.received_bval
      /\ t.sent_bval = u.sent_bval /\ t.received_aux = u.received_aux /\ t.sbv_output = u.sbv_output /\ t.out = u.out
      /\ t.estimated = b /\ t.decision = u.decision /\ t.conf_values = None
      /\ t.coin = coin /\ t.received_term = u.received_term
      /\ t.ts = TsNew /\ t.queue = u.queue
  <2>1. u \in State /\ b \in {None} \cup BOOLEAN
    BY <1>5
  <2>2. TsNew \in [doc : {TRUE}, shares : SUBSET Share, had_input : BOOLEAN, terminated : BOOLEAN]
    BY <1>4 DEF TsState
  <2> QED
    BY <1>2, <1>3, <1>6, <2>1, <2>2 DEF State
<1> HIDE DEF t
<1> QED
  BY <1>1, <1>5, <1>7 DEF coin

LEMMA EnteredSound ==
    ASSUME NEW x, EnvOK(x), NEW known, NEW n, NEW i, NEW s, Sound(x, known, n, i, s), NEW b \in BOOLEAN,
           MayUpdate(x, known \cup s.out, s, b)
    PROVE  LET t == Entered(s, b)
           IN  Done(x, known, n, i, s, t) /\ MaySend(x, known \cup t.out, n, i, t, b)
<1> DEFINE t == Entered(s, b)
           ev == known \cup s.out
<1>0. /\ s \in State /\ SbvSound(x, ev, n, i, s)
      /\ Local(x, ev, n, i, s) /\ TermsFew(s) /\ s.epoch \in Nat /\ num_faulty \in Nat
  BY SoundFacts, StateFields, Thresholds
<1>1. /\ t \in State /\ t.epoch = s.epoch + 1 /\ t.bin_values = {} /\ t.received_bval = s.received_term
      /\ t.sent_bval = {} /\ t.received_aux = s.received_term /\ t.sbv_output = None /\ t.out = s.out
      /\ t.estimated = b /\ t.decision = s.decision /\ t.conf_values = None
      /\ t.coin = InitialCoin(s.epoch + 1) /\ t.received_term = s.received_term
      /\ t.ts = TsNew /\ t.queue = s.queue
  BY <1>0, EnteredFacts
<1>2. s.decision = None /\ s.coin # None /\ Leads(x, ev, s.epoch, b)
  BY DEF MayUpdate
<1>3. x.start \in Nat /\ x.start <= s.epoch
  BY <1>0 DEF EnvOK, Local, Place
<1> HIDE DEF t, ev
<1>4. \A c \in BOOLEAN : /\ s.received_term[c] \subseteq ByTerm(ev, s.epoch, c) /\ n \notin s.received_term[c]
                         /\ Cardinality(s.received_term[c]) \in Nat /\ Cardinality(s.received_term[c]) <= num_faulty
  BY <1>0, <1>2, StateFields, Counting DEF Local, TermRecord, TermsFew
<1>5. \A c \in BOOLEAN : s.received_term[c] \subseteq ByTerm(ev, t.epoch, c)
  <2>1. 0 .. s.epoch \subseteq 0 .. t.epoch
    BY <1>0, <1>1
  <2> QED
    BY <1>4, <2>1 DEF ByTerm
<1>6. Tallied(ev, n, t)
  BY <1>1, <1>4, <1>5 DEF Tallied, ByBVal, ByAux
<1>7. \A c \in BOOLEAN : ~(Cardinality(t.received_bval[c]) > num_faulty) /\ ~(Cardinality(t.received_bval[c]) > 2 * num_faulty)
  BY <1>0, <1>1, <1>4
<1>8. BinValues(t) /\ Relayed(t) /\ OutputDue(t)
  BY <1>1, <1>7 DEF BinValues, Relayed, OutputDue
<1>9. Rules(x, ev, n, i, t)
  <2>0. Rules(x, ev, n, i, s)
    BY <1>0 DEF SbvSound
  <2>1. BValRule(x, ev, n, i, t)
    <3>1. \A e \in Nat : e <= s.epoch => e <= t.epoch
      BY <1>0, <1>1
    <3> QED
      BY <2>0, <3>1 DEF Rules, BValRule
  <2>2. AuxRule(ev, n, t)
    <3>1. \A e \in Nat : e <= s.epoch => e <= t.epoch /\ e # t.epoch
      BY <1>0, <1>1
    <3> QED
      BY <2>0, <3>1 DEF Rules, AuxRule
  <2>3. TermRule(ev, n, t) /\ DecisionRule(x, ev, t)
    BY <1>1, <1>2, <2>0, NoneAssumption DEF Rules, TermRule, DecisionRule
  <2> QED
    BY <2>1, <2>2, <2>3 DEF Rules
<1>10. SbvSound(x, ev, n, i, t)
  BY <1>1, <1>6, <1>8, <1>9 DEF SbvSound
<1>11. TermRecord(ev, n, t) /\ TermsFew(t)
  BY <1>0, <1>1, <1>4, <1>5 DEF TermRecord, TermsFew
<1>12. CoinRule(x, t)
  BY <1>1 DEF CoinRule, CoinOf
<1>13. ShareRule(x, ev, n, t)
  <2>0. ShareRule(x, ev, n, s)
    BY <1>0 DEF Local
  <2>1. t.ts.terminated = FALSE /\ t.ts.had_input = FALSE
    BY <1>1 DEF TsNew
  <2>2. t.coin # None /\ t.epoch \in DOMAIN x.coin => FALSE
    BY <1>1 DEF EnvOK
  <2>3. ASSUME n \in Validators, NEW e \in DOMAIN x.coin, e < t.epoch PROVE Msg(n, e, "Coin", TRUE) \in ev
    <3>1. e \in Nat
      BY DEF EnvOK
    <3>2. CASE e < s.epoch
      BY <2>0, <2>3, <3>2 DEF ShareRule
    <3>3. CASE e = s.epoch
      BY <1>2, <2>0, <2>3, <3>3 DEF ShareRule
    <3>4. e < s.epoch \/ e = s.epoch
      BY <1>0, <1>1, <2>3, <3>1
    <3> QED
      BY <3>2, <3>3, <3>4
  <2> QED
    BY <2>1, <2>2, <2>3 DEF ShareRule
<1>14. Place(x, i, t) /\ QueueRule(ev, n, t)
  BY <1>0, <1>1, <1>3 DEF Local, Place, QueueRule
<1>15. Local(x, ev, n, i, t)
  BY <1>1, <1>11, <1>12, <1>13, <1>14 DEF Local
<1>16. Sound(x, known, n, i, t)
  BY <1>1, <1>8, <1>10, <1>11, <1>15 DEF Sound, ev
<1>17. Grown(n, s, t)
  BY <1>0, <1>1 DEF Grown, Sends
<1>18. Estimate(x, ev, i, t.epoch, b)
  <2>1. t.epoch \in Nat /\ x.start <= t.epoch /\ t.epoch # x.start /\ t.epoch - 1 = s.epoch
    BY <1>0, <1>1, <1>3
  <2> QED
    BY <1>2, <2>1 DEF Estimate
<1> QED
  BY <1>1, <1>16, <1>17, <1>18 DEF Done, MaySend, t, ev

(* SendBVal, outside of the SBV handlers *)
LEMMA BValSentSound ==
    ASSUME NEW x, NEW known, NEW n, NEW i, NEW s, Sound(x, known, n, i, s), NEW b \in BOOLEAN,
           MaySend(x, known \cup s.out, n, i, s, b)
    PROVE  Done(x, known, n, i, s, SendBVal(s, n, b)) /\ Kept(s, SendBVal(s, n, b))
<1> DEFINE t == SendBVal(s, n, b)
<1>1. /\ SbvSound(x, known \cup s.out, n, i, s) /\ OutputDue(s) /\ Relayed(s) /\ s.epoch \in Nat
  BY SoundFacts, StateFields
<1>2. SbvSound(x, known \cup t.out, n, i, t) /\ OutputDue(t) /\ SentBVal(n, {b}, s, t)
  BY <1>1, SendBValSound
<1> HIDE DEF t
<1>3. Kept(s, t) /\ Sends(n, s, t)
  BY <1>2 DEF SentBVal, Sends
<1>4. Relayed(t)
  BY <1>1, <1>2 DEF SentBVal, Relayed, Sends
<1>5. Sound(x, known, n, i, t)
  BY <1>2, <1>3, <1>4, SbvStepSound
<1>6. Grown(n, s, t)
  BY <1>1, <1>3 DEF Grown, Kept, Sends
<1> QED
  BY <1>3, <1>5, <1>6 DEF Done, t

(* What is due leaves the queue. *)
DueNow(s) == {m \in s.queue : m.epoch = s.epoch}

Dequeued(s) == [s EXCEPT !.queue = @ \ DueNow(s)]

LEMMA DequeueSound ==
    ASSUME NEW x, NEW known, NEW n, NEW i, NEW s, Sound(x, known, n, i, s)
    PROVE  /\ Done(x, known, n, i, s, Dequeued(s)) /\ DueNow(s) \in SUBSET Message
           /\ MayLoop(known \cup Dequeued(s).out, n, Dequeued(s), DueNow(s))
<1> DEFINE due == {m \in s.queue : m.epoch = s.epoch}
           t == [s EXCEPT !.queue = @ \ due]
           ev == known \cup s.out
<1>1. due = DueNow(s) /\ t = Dequeued(s)
  BY DEF DueNow, Dequeued
<1>2. /\ s \in State /\ SbvSound(x, ev, n, i, s) /\ OutputDue(s) /\ Relayed(s)
      /\ Local(x, ev, n, i, s) /\ TermsFew(s) /\ s.epoch \in Nat /\ s.queue \in SUBSET Message
  BY SoundFacts, StateFields
<1>3. s.queue \ due \in SUBSET Message /\ due \in SUBSET Message
  BY <1>2
<1>4. Slots(s.queue) /\ \A m \in s.queue : m \in ev /\ m.from # n
  BY <1>2 DEF Local, QueueRule
<1>5. /\ Slots(due) /\ Slots(s.queue \ due) /\ \A m \in s.queue \ due : m \in ev /\ m.from # n
      /\ \A m \in due : m \in ev /\ m.from # n /\ m.epoch = s.epoch
  BY <1>4 DEF Slots
<1> HIDE DEF due
<1>6. /\ t \in State /\ SbvKept(s, t) /\ t.coin = s.coin /\ t.out = s.out /\ t.epoch = s.epoch
      /\ t.decision = s.decision /\ t.conf_values = s.conf_values /\ t.ts = s.ts
      /\ t.received_term = s.received_term /\ t.queue = s.queue \ due /\ t.estimated = s.estimated
  BY <1>2, <1>3 DEF State, SbvKept
<1> HIDE DEF t, ev
<1>7. SbvSound(x, ev, n, i, t) /\ OutputDue(t) /\ Relayed(t)
  BY <1>2, <1>6, SbvSoundKept
<1>8. CoinRule(x, t) /\ ShareRule(x, ev, n, t)
  BY <1>2, <1>6 DEF Local, CoinRule, ShareRule
<1>9. TermRecord(ev, n, t) /\ TermsFew(t) /\ (t.conf_values # None => Candidates(ev, t.epoch, t.conf_values))
  BY <1>2, <1>6 DEF Local, TermRecord, TermsFew
<1>10. Place(x, i, t) /\ QueueRule(ev, n, t)
  BY <1>2, <1>5, <1>6 DEF Local, Place, QueueRule
<1>11. Local(x, ev, n, i, t)
  BY <1>8, <1>9, <1>10 DEF Local
<1>12. Sound(x, known, n, i, t)
  BY <1>6, <1>7, <1>9, <1>11 DEF Sound, ev
<1>13. Grown(n, s, t)
  BY <1>2, <1>6 DEF Grown, Sends
<1>14. MayLoop(ev, n, t, due)
  <2>1. \A m \in due : m.epoch = t.epoch /\ Due(ev, n, t, m)
    BY <1>2, <1>5, <1>6 DEF Due
  <2> QED
    BY <1>5, <2>1 DEF MayLoop
<1> QED
  BY <1>1, <1>3, <1>6, <1>12, <1>13, <1>14 DEF Done, ev

(* update_epoch *)
LEMMA UpdateEpochSound ==
    ASSUME NEW x, EnvOK(x), NEW known, NEW n \in Nodes, NEW i, NEW calls, CallsOK(x, known, n, i, calls),
           NEW s, Sound(x, known, n, i, s), NEW b \in BOOLEAN, MayUpdate(x, known \cup s.out, s, b)
    PROVE  Done(x, known, n, i, s, UpdateEpoch(calls, s, n, b))
<1> DEFINE next == Entered(s, b)
           sent == SendBVal(next, n, b)
           started == HandleSbvStep(calls, next, sent, n)
           due == DueNow(started)
           left == Dequeued(started)
           r == UpdateEpoch(calls, s, n, b)
<1>1. r = calls[LoopCall(left, n, due)]
  BY DEF UpdateEpoch, Entered, DueNow, Dequeued
<1> HIDE DEF r
<1>2. Done(x, known, n, i, s, next) /\ MaySend(x, known \cup next.out, n, i, next, b)
  BY EnteredSound
<1> HIDE DEF next
<1>3. Done(x, known, n, i, next, sent) /\ Kept(next, sent)
  BY <1>2, BValSentSound DEF Done
<1> HIDE DEF sent
<1>4. Done(x, known, n, i, sent, started)
  BY <1>3, HandleSbvStepSound DEF Done
<1> HIDE DEF started
<1>5. Done(x, known, n, i, started, left) /\ due \in SUBSET Message /\ MayLoop(known \cup left.out, n, left, due)
  <2>1. Sound(x, known, n, i, started)
    BY <1>4 DEF Done
  <2> QED
    BY <2>1, DequeueSound
<1> HIDE DEF left, due
<1>6. Done(x, known, n, i, left, r)
  BY <1>1, <1>5, CallLoop DEF Done
<1>7. Done(x, known, n, i, s, sent)
  BY <1>2, <1>3, DoneThen
<1>8. Done(x, known, n, i, s, started)
  BY <1>4, <1>7, DoneThen
<1>9. Done(x, known, n, i, s, left)
  BY <1>5, <1>8, DoneThen
<1> QED
  BY <1>6, <1>9, DoneThen DEF r
-----------------------------------------------------------------------------
(* The recursion: what calls that nest d deep do is well defined, and      *)
(* sound by induction on d.                                                *)

Base == [c \in Call |-> c.s]

Layer(calls) ==
    [c \in Call |-> IF c.b # None THEN UpdateEpoch(calls, c.s, c.n, c.b) ELSE Drain(calls, c.s, c.n, c.queued)]

(* f is what Calls is meant to be, and g is up to k. *)
Recursion(f) ==
    f = [d \in Nat |-> [c \in Call |-> IF d = 0 THEN c.s
                                       ELSE IF c.b # None THEN UpdateEpoch(f[d - 1], c.s, c.n, c.b)
                                       ELSE Drain(f[d - 1], c.s, c.n, c.queued)]]

Approximates(k, g) == \A d \in 0 .. k : g[d] = IF d = 0 THEN Base ELSE Layer(g[d - 1])

LEMMA ApproximationExists ==
    ASSUME NEW k \in Nat
    PROVE  \E g : Approximates(k, g)
<1> DEFINE Bad == {j \in Nat : ~\E g : Approximates(j, g)}
<1>1. ASSUME NEW j \in Bad, \A l \in Bad : j <= l PROVE FALSE
  <2>1. j \in Nat /\ ~\E g : Approximates(j, g)
    BY <1>1
  <2>2. CASE j = 0
    <3> DEFINE g == [d \in {0} |-> Base]
    <3>1. Approximates(0, g)
      BY DEF Approximates
    <3> QED
      BY <2>1, <2>2, <3>1
  <2>3. CASE j # 0
    <3>1. j - 1 \in Nat /\ j - 1 \notin Bad
      BY <1>1, <2>1, <2>3
    <3>2. PICK h : Approximates(j - 1, h)
      BY <3>1
    <3> DEFINE g == [d \in 0 .. j |-> IF d = j THEN Layer(h[j - 1]) ELSE h[d]]
    <3>3. ASSUME NEW d \in 0 .. j PROVE g[d] = IF d = 0 THEN Base ELSE Layer(g[d - 1])
      <4>1. CASE d = j
        <5>1. g[d] = Layer(h[j - 1]) /\ g[d - 1] = h[j - 1]
          BY <2>1, <2>3, <4>1
        <5> QED
          BY <2>3, <4>1, <5>1
      <4>2. CASE d # j
        <5>1. d \in 0 .. j - 1
          BY <2>1, <4>2
        <5>2. g[d] = h[d] /\ (d # 0 => g[d - 1] = h[d - 1])
          BY <2>1, <4>2
        <5>3. h[d] = IF d = 0 THEN Base ELSE Layer(h[d - 1])
          BY <3>2, <5>1 DEF Approximates
        <5> QED
          BY <5>2, <5>3
      <4> QED
        BY <4>1, <4>2
    <3>4. Approximates(j, g)
      BY <3>3 DEF Approximates
    <3> QED
      BY <2>1, <3>4
  <2> QED
    BY <2>2, <2>3
<1>2. Bad = {}
  BY <1>1, Least
<1> QED
  BY <1>2

LEMMA ApproximationsAgree ==
    ASSUME NEW k \in Nat, NEW l \in Nat, NEW g, Approximates(k, g), NEW h, Approximates(l, h)
    PROVE  \A d \in Nat : d <= k /\ d <= l => g[d] = h[d]
<1> DEFINE Bad == {d \in Nat : d <= k /\ d <= l /\ g[d] # h[d]}
<1>1. ASSUME NEW d \in Bad, \A j \in Bad : d <= j PROVE FALSE
  <2>1. d \in Nat /\ d <= k /\ d <= l /\ g[d] # h[d]
    BY <1>1
  <2>2. d \in 0 .. k /\ d \in 0 .. l
    BY <2>1
  <2>3. /\ g[d] = IF d = 0 THEN Base ELSE Layer(g[d - 1])
        /\ h[d] = IF d = 0 THEN Base ELSE Layer(h[d - 1])
    BY <2>2 DEF Approximates
  <2>4. d # 0
    BY <2>1, <2>3
  <2>5. d - 1 \in Nat /\ d - 1 <= k /\ d - 1 <= l /\ d - 1 \notin Bad
    BY <1>1, <2>1, <2>4
  <2>6. g[d - 1] = h[d - 1]
    BY <2>5
  <2> QED
    BY <2>1, <2>3, <2>4, <2>6
<1>2. Bad = {}
  BY <1>1, Least
<1> QED
  BY <1>2

LEMMA RecursionExists == \E f : Recursion(f)
<1> DEFINE A(d) == CHOOSE g : Approximates(d, g)
           f == [d \in Nat |-> A(d)[d]]
<1>1. \A d \in Nat : Approximates(d, A(d))
  BY ApproximationExists
<1> HIDE DEF A
<1>2. \A d \in Nat : f[d] = A(d)[d]
  OBVIOUS
<1>3. ASSUME NEW d \in Nat PROVE f[d] = IF d = 0 THEN Base ELSE Layer(f[d - 1])
  <2>1. A(d)[d] = IF d = 0 THEN Base ELSE Layer(A(d)[d - 1])
    BY <1>1 DEF Approximates
  <2>2. CASE d = 0
    BY <1>2, <2>1, <2>2
  <2>3. CASE d # 0
    <3>1. d - 1 \in Nat /\ d - 1 <= d
      BY <2>3
    <3>2. Approximates(d, A(d)) /\ Approximates(d - 1, A(d - 1))
      BY <1>1, <3>1
    <3> DEFINE j == d - 1
    <3> HIDE DEF j
    <3>3. A(d)[j] = A(j)[j]
      BY <3>1, <3>2, ApproximationsAgree DEF j
    <3>4. f[j] = A(j)[j]
      BY <1>2, <3>1 DEF j
    <3> QED
      BY <1>2, <2>1, <2>3, <3>3, <3>4 DEF j
  <2> QED
    BY <2>2, <2>3
<1>4. f = [d \in Nat |-> f[d]]
  OBVIOUS
<1> HIDE DEF f
<1>5. ASSUME NEW d \in Nat
      PROVE  f[d] = [c \in Call |-> IF d = 0 THEN c.s
                                    ELSE IF c.b # None THEN UpdateEpoch(f[d - 1], c.s, c.n, c.b)
                                    ELSE Drain(f[d - 1], c.s, c.n, c.queued)]
  <2>1. CASE d = 0
    BY <1>3, <2>1 DEF Base
  <2>2. CASE d # 0
    <3>1. f[d] = Layer(f[d - 1])
      BY <1>3, <2>2
    <3> QED
      BY <2>2, <3>1 DEF Layer
  <2> QED
    BY <2>1, <2>2
<1>6. Recursion(f)
  BY <1>4, <1>5 DEF Recursion
<1> QED
  BY <1>6

LEMMA CallsFacts ==
    ASSUME NEW d \in Nat
    PROVE  /\ d = 0 => Calls[d] = Base
           /\ d # 0 => Calls[d] = Layer(Calls[d - 1])
<1>1. Calls = CHOOSE f : Recursion(f)
  BY Zenon DEF Calls, Recursion
<1>2. Recursion(Calls)
  BY <1>1, RecursionExists
<1>3. Calls[d] = [c \in Call |-> IF d = 0 THEN c.s
                                 ELSE IF c.b # None THEN UpdateEpoch(Calls[d - 1], c.s, c.n, c.b)
                                 ELSE Drain(Calls[d - 1], c.s, c.n, c.queued)]
  <2> DEFINE f == Calls
  <2>1. f = [j \in Nat |-> [c \in Call |-> IF j = 0 THEN c.s
                                       ELSE IF c.b # None THEN UpdateEpoch(f[j - 1], c.s, c.n, c.b)
                                       ELSE Drain(f[j - 1], c.s, c.n, c.queued)]]
    BY <1>2 DEF Recursion
  <2> HIDE DEF f
  <2>2. f[d] = [c \in Call |-> IF d = 0 THEN c.s
                               ELSE IF c.b # None THEN UpdateEpoch(f[d - 1], c.s, c.n, c.b)
                               ELSE Drain(f[d - 1], c.s, c.n, c.queued)]
    BY <2>1
  <2> QED
    BY <2>2 DEF f
<1>4. d = 0 => Calls[d] = Base
  BY <1>3 DEF Base
<1>5. d # 0 => Calls[d] = Layer(Calls[d - 1])
  BY <1>3 DEF Layer
<1> QED
  BY <1>4, <1>5

LEMMA LayerSound ==
    ASSUME NEW x, EnvOK(x), NEW known, NEW n \in Nodes, NEW i, NEW calls, CallsOK(x, known, n, i, calls)
    PROVE  CallsOK(x, known, n, i, Layer(calls))
<1> SUFFICES ASSUME NEW c, CallOK(x, known, n, i, c)
             PROVE  Done(x, known, n, i, c.s, Layer(calls)[c])
  BY DEF CallsOK
<1>1. /\ c \in Call /\ c.n = n /\ Sound(x, known, n, i, c.s)
      /\ c.b # None => MayUpdate(x, known \cup c.s.out, c.s, c.b)
      /\ c.b = None => MayLoop(known \cup c.s.out, n, c.s, c.queued)
  BY DEF CallOK
<1>2. Layer(calls)[c] = IF c.b # None THEN UpdateEpoch(calls, c.s, n, c.b) ELSE Drain(calls, c.s, n, c.queued)
  BY <1>1 DEF Layer
<1>3. c.b \in {None} \cup BOOLEAN /\ c.queued \in SUBSET Message
  BY <1>1 DEF Call
<1>4. CASE c.b # None
  <2> DEFINE b == c.b
             s == c.s
  <2>1. b \in BOOLEAN /\ MayUpdate(x, known \cup s.out, s, b) /\ Sound(x, known, n, i, s)
    BY <1>1, <1>3, <1>4
  <2>2. Layer(calls)[c] = UpdateEpoch(calls, s, n, b)
    BY <1>2, <1>4
  <2> HIDE DEF b, s
  <2>3. Done(x, known, n, i, s, UpdateEpoch(calls, s, n, b))
    BY <2>1, UpdateEpochSound
  <2> QED
    BY <2>2, <2>3 DEF s
<1>5. CASE c.b = None
  <2>1. Layer(calls)[c] = Drain(calls, c.s, n, c.queued)
    BY <1>2, <1>5
  <2> QED
    BY <1>1, <1>3, <1>5, <2>1, DrainSound
<1> QED
  BY <1>4, <1>5

LEMMA CallsSound ==
    ASSUME NEW x, EnvOK(x), NEW known, NEW n \in Nodes, NEW i, NEW d \in Nat
    PROVE  CallsOK(x, known, n, i, Calls[d])
<1> DEFINE Bad == {j \in Nat : ~CallsOK(x, known, n, i, Calls[j])}
<1>1. ASSUME NEW j \in Bad, \A l \in Bad : j <= l PROVE FALSE
  <2>1. j \in Nat /\ ~CallsOK(x, known, n, i, Calls[j])
    BY <1>1
  <2>2. CASE j = 0
    <3>1. Calls[j] = Base
      BY <2>1, <2>2, CallsFacts
    <3>2. \A c : CallOK(x, known, n, i, c) => Base[c] = c.s /\ Sound(x, known, n, i, c.s)
      BY DEF CallOK, Base
    <3> QED
      BY <2>1, <3>1, <3>2, DoneNothing DEF CallsOK
  <2>3. CASE j # 0
    <3>1. j - 1 \in Nat /\ j - 1 \notin Bad /\ Calls[j] = Layer(Calls[j - 1])
      BY <1>1, <2>1, <2>3, CallsFacts
    <3>2. CallsOK(x, known, n, i, Calls[j - 1])
      BY <3>1
    <3> QED
      BY <2>1, <3>1, <3>2, LayerSound
  <2> QED
    BY <2>2, <2>3
<1>2. Bad = {}
  BY <1>1, Least
<1> QED
  BY <1>2

(* ReceivedMessages::insert *)
LEMMA EnqueueSound ==
    ASSUME NEW x, NEW known, NEW n, NEW i, NEW s, Sound(x, known, n, i, s), NEW m \in Message, m \in known, m.from # n
    PROVE  Done(x, known, n, i, s, Enqueue(s, m))
<1> DEFINE full == \E q \in s.queue : /\ q.from = m.from /\ q.epoch = m.epoch /\ q.type = m.type
                                      /\ m.type \in {"BVal", "Aux"} => q.val = m.val
           t == [s EXCEPT !.queue = @ \cup {m}]
           ev == known \cup s.out
<1>0. /\ s \in State /\ SbvSound(x, ev, n, i, s) /\ OutputDue(s) /\ Relayed(s)
      /\ Local(x, ev, n, i, s) /\ TermsFew(s) /\ s.epoch \in Nat /\ s.queue \in SUBSET Message
  BY SoundFacts, StateFields
<1>1. CASE full
  <2>1. m.from \in Validators
    BY DEF Message
  <2>2. Enqueue(s, m) = Blame(s, m.from)
    BY <1>1 DEF Enqueue
  <2> QED
    BY <2>1, <2>2, BlameSound
<1>2. CASE ~full
  <2>1. Enqueue(s, m) = t
    BY <1>2 DEF Enqueue
  <2>2. s.queue \cup {m} \in SUBSET Message
    BY <1>0
  <2>3. Slots(s.queue) /\ \A q \in s.queue : q \in ev /\ q.from # n
    BY <1>0 DEF Local, QueueRule
  <2>4. Slots(s.queue \cup {m})
    <3>1. \A q \in s.queue : ~SameSlot(m, q) /\ ~SameSlot(q, m)
      BY <1>2 DEF SameSlot
    <3> QED
      BY <2>3, <3>1 DEF Slots
  <2>5. \A q \in s.queue \cup {m} : q \in ev /\ q.from # n
    BY <2>3
  <2>6. /\ t \in State /\ SbvKept(s, t) /\ t.coin = s.coin /\ t.out = s.out /\ t.epoch = s.epoch
        /\ t.decision = s.decision /\ t.conf_values = s.conf_values /\ t.ts = s.ts
        /\ t.received_term = s.received_term /\ t.queue = s.queue \cup {m} /\ t.estimated = s.estimated
    BY <1>0, <2>2 DEF State, SbvKept
  <2> HIDE DEF t, ev
  <2>7. SbvSound(x, ev, n, i, t) /\ OutputDue(t) /\ Relayed(t)
    BY <1>0, <2>6, SbvSoundKept
  <2>8. CoinRule(x, t) /\ ShareRule(x, ev, n, t)
    BY <1>0, <2>6 DEF Local, CoinRule, ShareRule
  <2>9. TermRecord(ev, n, t) /\ TermsFew(t) /\ (t.conf_values # None => Candidates(ev, t.epoch, t.conf_values))
    BY <1>0, <2>6 DEF Local, TermRecord, TermsFew
  <2>10. Place(x, i, t)
    BY <1>0, <2>6 DEF Local, Place
  <2>11. QueueRule(ev, n, t)
    BY <2>4, <2>5, <2>6 DEF QueueRule
  <2>12. Local(x, ev, n, i, t)
    BY <2>8, <2>9, <2>10, <2>11 DEF Local
  <2>13. Sound(x, known, n, i, t)
    BY <2>6, <2>7, <2>9, <2>12 DEF Sound, ev
  <2>14. Grown(n, s, t)
    BY <1>0, <2>6 DEF Grown, Sends
  <2> QED
    BY <2>1, <2>13, <2>14 DEF Done
<1> QED
  BY <1>1, <1>2

(* handle_message *)
LEMMA DepthIsNat == ASSUME NEW s \in State, IsFiniteSet(s.queue) PROVE Depth(s) \in Nat
BY FS_CardinalityType, AgreementAssumption DEF Depth

LEMMA HandleMessageSound ==
    ASSUME NEW x, EnvOK(x), NEW known, NEW n \in Nodes, NEW i, NEW s, Sound(x, known, n, i, s), Depth(s) \in Nat,
           NEW m \in Message, m \in known, m.from # n, ~Obsolete(s, m)
    PROVE  Done(x, known, n, i, s, HandleMessage(s, n, m))
<1>0. s.epoch \in Nat /\ m.epoch \in Nat /\ max_future_epochs \in Nat /\ m.from \in Validators
  BY SoundFacts, StateFields, AgreementAssumption DEF Message
<1>1. CASE m.epoch > s.epoch + max_future_epochs
  <2>1. HandleMessage(s, n, m) = Blame(s, m.from)
    BY <1>1 DEF HandleMessage
  <2> QED
    BY <1>0, <2>1, BlameSound
<1>2. CASE ~(m.epoch > s.epoch + max_future_epochs) /\ m.epoch > s.epoch
  <2>1. HandleMessage(s, n, m) = Enqueue(s, m)
    BY <1>2 DEF HandleMessage
  <2> QED
    BY <2>1, EnqueueSound
<1>3. CASE ~(m.epoch > s.epoch + max_future_epochs) /\ ~(m.epoch > s.epoch)
  <2>1. HandleMessage(s, n, m) = HandleContent(Calls[Depth(s)], s, n, m)
    BY <1>3 DEF HandleMessage
  <2>2. m.epoch <= s.epoch /\ (CanExpire(m) => m.epoch = s.epoch)
    BY <1>0, <1>3 DEF Obsolete
  <2>3. Due(known \cup s.out, n, s, m)
    BY <2>2 DEF Due
  <2>4. CallsOK(x, known, n, i, Calls[Depth(s)])
    BY CallsSound
  <2> QED
    BY <2>1, <2>3, <2>4, HandleContentSound
<1> QED
  BY <1>1, <1>2, <1>3
-----------------------------------------------------------------------------
(* The network between two calls *)

Setup ==
    /\ setting \in Settings
    /\ coin_value \in [{e \in setting.start .. setting.last : InitialCoin(e) = None} -> BOOLEAN]

NetTypes ==
    /\ Setup
    /\ input \in [Runners -> {None} \cup BOOLEAN] /\ node \in [Runners -> State]
    /\ received \in [Runners -> SUBSET Message] /\ msgs \in SUBSET Message
    /\ \A m \in msgs : m.from \in Runners

Steady(n) ==
    /\ Sound(Env, Known(n), n, input[n], node[n]) /\ node[n].out = {}
    /\ IsFiniteSet(received[n]) /\ \A m \in received[n] : m.from # n

(* The inductive invariant *)
Inv ==
    /\ NetTypes /\ Authentic
    /\ \A n \in Runners : Steady(n)
    /\ setting.open = Faulty => Grounded

LEMMA InvSuffices ==
    ASSUME Inv
    PROVE  NoThresholdSkipped /\ CoinShareSent /\ Agreement /\ Validity
<1>1. ASSUME NEW n \in Runners
      PROVE  /\ node[n] \in State /\ SbvSound(Env, Known(n), n, input[n], node[n])
             /\ OutputDue(node[n]) /\ Relayed(node[n]) /\ Local(Env, Known(n), n, input[n], node[n])
  <2>1. Sound(Env, Known(n), n, input[n], node[n]) /\ node[n].out = {}
    BY DEF Inv, Steady
  <2>2. Known(n) \cup node[n].out = Known(n)
    BY <2>1
  <2> QED
    BY <2>1, <2>2, SoundFacts
<1>2. NoThresholdSkipped
  <2> SUFFICES ASSUME NEW n \in Runners
               PROVE  /\ node[n].bin_values = {b \in BOOLEAN : Cardinality(node[n].received_bval[b]) > 2 * num_faulty}
                      /\ {b \in BOOLEAN : Cardinality(node[n].received_bval[b]) > num_faulty} \subseteq node[n].sent_bval
                      /\ node[n].bin_values # {} /\ CountAux(node[n]) >= num_correct => node[n].sbv_output # None
    BY DEF NoThresholdSkipped
  <2>1. BinValues(node[n]) /\ OutputDue(node[n]) /\ Relayed(node[n]) /\ node[n].bin_values \in SUBSET BOOLEAN
    BY <1>1, StateFields DEF SbvSound
  <2> QED
    BY <2>1 DEF BinValues, OutputDue, Relayed
<1>3. CoinShareSent
  <2> SUFFICES ASSUME NEW n \in Runners \cap Validators, NEW e \in DOMAIN coin_value, node[n].epoch > e
               PROVE  Msg(n, e, "Coin", TRUE) \in msgs
    BY DEF CoinShareSent
  <2> DEFINE m == Msg(n, e, "Coin", TRUE)
  <2>1. ShareRule(Env, Known(n), n, node[n]) /\ Env.coin = coin_value
    BY <1>1 DEF Local, Env
  <2>2. e \in Nat /\ node[n].epoch \in Nat
    <3>1. setting.start \in Nat /\ e \in setting.start .. setting.last
      BY AgreementAssumption DEF Inv, NetTypes, Setup
    <3> QED
      BY <1>1, <3>1, StateFields
  <2>3. e < node[n].epoch
    BY <2>2
  <2>4. m \in Known(n)
    BY <2>1, <2>3 DEF ShareRule
  <2>5. m.from = n
    BY DEF Msg
  <2> HIDE DEF m
  <2>6. m \notin received[n]
    BY <2>5 DEF Inv, Steady
  <2>7. m \in msgs
    BY <2>4, <2>6 DEF Known
  <2> QED
    BY <2>7 DEF m
<1>4. CASE setting.open # Faulty
  BY <1>2, <1>3, <1>4 DEF Agreement, Validity
<1>5. CASE setting.open = Faulty
  <2>1. Types
    BY DEF Inv, NetTypes, Setup, Types
  <2>2. \A n \in Runners : Rules(Env, Known(n), n, input[n], node[n])
    BY <1>1 DEF SbvSound
  <2>3. Evidence
    BY <1>5, <2>1, <2>2 DEF Evidence, Inv
  <2> QED
    BY <1>2, <1>3, <2>3, EvidenceSuffices
<1> QED
  BY <1>4, <1>5

LEMMA EnvSound == ASSUME Setup PROVE EnvOK(Env) /\ \A e \in DOMAIN Env.coin : Env.start <= e
<1>1. setting.start \in Nat /\ setting.last \in Nat
  BY AgreementAssumption DEF Setup
<1>2. Env.coin = coin_value /\ Env.start = setting.start
  BY DEF Env
<1>3. \A e \in DOMAIN coin_value : e \in Nat /\ InitialCoin(e) = None /\ setting.start <= e /\ coin_value[e] \in BOOLEAN
  BY <1>1 DEF Setup
<1>4. ASSUME NEW e \in Nat, InitialCoin(e) = None PROVE Parity(e) = CoinOf(Env, e) /\ Parity(e) \in BOOLEAN
  <2>1. Parity(e) = CoinOf(Env, e)
    BY <1>2, <1>4 DEF Parity, CoinOf
  <2>2. CASE e \in DOMAIN coin_value
    BY <1>3, <2>1, <2>2 DEF Parity
  <2>3. CASE e \notin DOMAIN coin_value
    BY <2>1, <2>3 DEF Parity
  <2> QED
    BY <2>1, <2>2, <2>3
<1> QED
  BY <1>1, <1>2, <1>3, <1>4 DEF EnvOK

(* At the end of a call what it sent is on the network. *)
LEMMA OutSent ==
    ASSUME NEW x, NEW known, NEW n, NEW i, NEW s, Sound(x, known, n, i, s)
    PROVE  LET t == [s EXCEPT !.out = {}]
           IN  t \in State /\ t.out = {} /\ Sound(x, known \cup s.out, n, i, t)
<1> DEFINE t == [s EXCEPT !.out = {}]
           ev == known \cup s.out
<1>1. /\ s \in State /\ SbvSound(x, ev, n, i, s) /\ OutputDue(s) /\ Relayed(s)
      /\ Local(x, ev, n, i, s) /\ TermsFew(s)
  BY SoundFacts
<1>2. t \in State /\ SbvKept(s, t) /\ Kept(s, t) /\ t.out = {}
  BY <1>1 DEF State, SbvKept, Kept
<1> HIDE DEF t
<1>3. ev \cup t.out = ev
  BY <1>2
<1> HIDE DEF ev
<1>4. SbvSound(x, ev, n, i, t) /\ OutputDue(t) /\ Relayed(t)
  BY <1>1, <1>2, SbvSoundKept
<1>5. Local(x, ev, n, i, t)
  BY <1>1, <1>2, LocalKept
<1>6. TermsFew(t)
  BY <1>1, <1>2 DEF TermsFew, Kept
<1>7. Sound(x, ev, n, i, t)
  BY <1>3, <1>4, <1>5, <1>6 DEF Sound
<1> QED
  BY <1>2, <1>7 DEF t, ev

(* A call into node n that was given the messages in r and ends in s *)
LEMMA CallStep ==
    ASSUME Inv, NEW n \in Runners, NEW i \in {None} \cup BOOLEAN, input[n] \in {None, i},
           NEW r \in SUBSET Message, IsFiniteSet(r), received[n] \subseteq r,
           \A m \in r : m.from # n /\ (m.from \in Runners => m \in msgs),
           NEW s, Sound(Env, r \cup {m \in msgs : m.from = n}, n, i, s), \A m \in s.out : m.from = n,
           Becomes(n, s), input' = [input EXCEPT ![n] = i], received' = [received EXCEPT ![n] = r],
           UNCHANGED <<setting, coin_value>>
    PROVE  Inv'
<1> DEFINE known == r \cup {m \in msgs : m.from = n}
           t == [s EXCEPT !.out = {}]
<1>1. NetTypes /\ Authentic /\ (\A w \in Runners : Steady(w)) /\ (setting.open = Faulty => Grounded)
  BY DEF Inv
<1>2. Runners' = Runners /\ Env' = Env /\ setting' = setting /\ coin_value' = coin_value
  BY DEF Runners, Env
<1>3. s \in State /\ s.out \in SUBSET Message /\ t \in State /\ t.out = {} /\ Sound(Env, known \cup s.out, n, i, t)
  BY SoundFacts, StateFields, OutSent
<1>4. node' = [node EXCEPT ![n] = t] /\ msgs' = msgs \cup s.out
  BY DEF Becomes
<1>5. /\ node'[n] = t /\ input'[n] = i /\ received'[n] = r
      /\ \A w \in Runners : w # n => node'[w] = node[w] /\ input'[w] = input[w] /\ received'[w] = received[w]
  BY <1>1, <1>4 DEF NetTypes
<1>6. Known(n)' = known \cup s.out
  BY <1>4, <1>5 DEF Known
<1>7. \A w \in Runners : w # n => Known(w)' = Known(w)
  BY <1>4, <1>5 DEF Known
<1>8. \A w \in Runners : Known(w) \subseteq Known(w)'
  BY <1>6, <1>7 DEF Known
<1> HIDE DEF t
<1>9. NetTypes'
  <2>1. node' \in [Runners -> State]
    BY <1>1, <1>3, <1>4 DEF NetTypes
  <2>2. input' \in [Runners -> {None} \cup BOOLEAN] /\ received' \in [Runners -> SUBSET Message]
    BY <1>1 DEF NetTypes
  <2>3. msgs' \in SUBSET Message /\ \A m \in msgs' : m.from \in Runners
    BY <1>1, <1>3, <1>4 DEF NetTypes
  <2>4. Setup'
    BY <1>1, <1>2 DEF NetTypes, Setup
  <2> QED
    BY <1>2, <2>1, <2>2, <2>3, <2>4 DEF NetTypes
<1>10. Authentic'
  <2> SUFFICES ASSUME NEW w \in Runners, NEW m \in received'[w], m.from \in Runners PROVE m \in msgs'
    BY <1>2 DEF Authentic
  <2>1. CASE w = n
    BY <1>4, <1>5, <2>1
  <2>2. CASE w # n
    BY <1>1, <1>4, <1>5, <2>2 DEF Authentic
  <2> QED
    BY <2>1, <2>2
<1>11. ASSUME NEW w \in Runners PROVE Steady(w)'
  <2>1. CASE w = n
    <3>1. Sound(Env', Known(n)', n, input'[n], node'[n]) /\ node'[n].out = {}
      BY <1>2, <1>3, <1>5, <1>6
    <3>2. IsFiniteSet(received'[n]) /\ \A m \in received'[n] : m.from # n
      BY <1>5
    <3> QED
      BY <2>1, <3>1, <3>2 DEF Steady
  <2>2. CASE w # n
    <3>1. Steady(w)
      BY <1>1
    <3>2. Sound(Env', Known(w)', w, input'[w], node'[w]) /\ node'[w].out = {}
      BY <1>2, <1>5, <1>7, <2>2, <3>1 DEF Steady
    <3>3. IsFiniteSet(received'[w]) /\ \A m \in received'[w] : m.from # w
      BY <1>5, <2>2, <3>1 DEF Steady
    <3> QED
      BY <3>2, <3>3 DEF Steady
  <2> QED
    BY <2>1, <2>2
<1>12. ASSUME setting.open = Faulty PROVE Grounded'
  <2>1. ASSUME NEW e \in Nat, NEW b \in BOOLEAN, Estimated(e, b) PROVE Estimated(e, b)'
    <3>1. PICK w \in Runners : Estimate(Env, Known(w), input[w], e, b)
      BY <2>1 DEF Estimated
    <3>2. Estimate(Env, Known(w)', input[w], e, b)
      BY <1>8, <3>1, EstimateGrows
    <3>3. Estimate(Env, Known(w)', input'[w], e, b)
      <4>1. CASE input'[w] = input[w]
        BY <3>2, <4>1
      <4>2. CASE input'[w] # input[w]
        <5>1. w = n /\ input[w] = None
          BY <1>5, <4>2
        <5>2. input[w] # b
          BY <5>1, NoneAssumption
        <5> QED
          BY <3>2, <5>2 DEF Estimate
      <4> QED
        BY <4>1, <4>2
    <3> QED
      BY <1>2, <3>3 DEF Estimated
  <2>2. ASSUME NEW e \in Nat, NEW b \in BOOLEAN, Terminated(e, b) PROVE Terminated(e, b)'
    BY <1>2, <1>4, <2>2 DEF Terminated
  <2> SUFFICES ASSUME NEW v \in Runners, NEW e \in Nat, NEW b \in BOOLEAN, Msg(v, e, "BVal", b) \in msgs'
               PROVE  Estimated(e, b)' \/ Terminated(e, b)'
    BY <1>2 DEF Grounded
  <2>3. ASSUME NEW w \in Runners, Msg(w, e, "BVal", b) \in msgs PROVE Estimated(e, b)' \/ Terminated(e, b)'
    <3>1. Estimated(e, b) \/ Terminated(e, b)
      BY <1>1, <1>12, <2>3 DEF Grounded
    <3> QED
      BY <2>1, <2>2, <3>1
  <2>4. ASSUME Msg(v, e, "BVal", b) \in s.out PROVE Estimated(e, b)' \/ Terminated(e, b)'
    <3>1. v = n
      BY <2>4, OwnFrom
    <3> DEFINE kn == known \cup s.out
    <3>2. Msg(n, e, "BVal", b) \in kn
      BY <2>4, <3>1
    <3>3. BValRule(Env, kn, n, i, t)
      <4>1. kn \cup t.out = kn
        BY <1>3
      <4> HIDE DEF kn
      <4> QED
        BY <1>3, <4>1, SoundFacts DEF SbvSound, Rules, kn
    <3>4. kn = Known(n)'
      BY <1>6
    <3> HIDE DEF kn
    <3>5. Estimate(Env, kn, i, e, b) \/ Cardinality(ByBVal(kn, e, b) \ {n}) > num_faulty
      BY <3>2, <3>3 DEF BValRule
    <3>6. CASE Estimate(Env, kn, i, e, b)
      BY <1>2, <1>5, <3>4, <3>6 DEF Estimated
    <3>7. CASE Cardinality(ByBVal(kn, e, b) \ {n}) > num_faulty
      <4>1. ByBVal(kn, e, b) \ {n} \in SUBSET Validators
        BY Sets
      <4>2. PICK w \in ByBVal(kn, e, b) \ {n} : w \in CorrectValidators
        BY <3>7, <4>1, CorrectMember
      <4>3. w \in Runners \cap Validators
        BY <1>12, <4>2, RunnersAreCorrect
      <4>4. ASSUME NEW k, NEW type, Msg(w, k, type, b) \in kn PROVE Msg(w, k, type, b) \in msgs
        <5> DEFINE m == Msg(w, k, type, b)
        <5>1. m.from = w
          BY OwnFrom
        <5> HIDE DEF m
        <5>2. m \in kn
          BY <4>4 DEF m
        <5>3. m \in r
          BY <4>2, <5>1, <5>2 DEF kn
        <5>4. m \in msgs
          BY <4>3, <5>1, <5>3
        <5> QED
          BY <5>4 DEF m
      <4>5. CASE Msg(w, e, "BVal", b) \in kn
        BY <2>3, <4>3, <4>4, <4>5
      <4>6. CASE w \in ByTerm(kn, e, b)
        <5>1. PICK k \in 0 .. e : Msg(w, k, "Term", b) \in kn
          BY <4>6 DEF ByTerm
        <5>2. Msg(w, k, "Term", b) \in msgs
          BY <4>4, <5>1
        <5>3. Terminated(e, b)
          BY <4>3, <5>1, <5>2 DEF Terminated
        <5> QED
          BY <2>2, <5>3
      <4> QED
        BY <4>2, <4>5, <4>6 DEF ByBVal
    <3> QED
      BY <3>5, <3>6, <3>7
  <2> QED
    BY <1>4, <2>3, <2>4
<1> QED
  BY <1>2, <1>9, <1>10, <1>11, <1>12 DEF Inv

LEMMA QueueIsFinite ==
    ASSUME Inv, NEW n \in Runners
    PROVE  IsFiniteSet(node[n].queue) /\ Depth(node[n]) \in Nat
<1>1. node[n] \in State /\ Steady(n)
  BY DEF Inv, NetTypes
<1>2. \A m \in node[n].queue : m \in Known(n) \cup node[n].out /\ m.from # n
  BY <1>1, SoundFacts DEF Steady, Local, QueueRule
<1>3. node[n].queue \subseteq received[n] /\ IsFiniteSet(received[n])
  BY <1>1, <1>2 DEF Steady, Known
<1>4. IsFiniteSet(node[n].queue)
  BY <1>3, FS_Subset
<1> QED
  BY <1>1, <1>4, DepthIsNat

(* handle_message is given a message that n knows from now on. *)
LEMMA Given ==
    ASSUME Inv, NEW n \in Runners, NEW m \in Arriving(n)
    PROVE  /\ m \in Message /\ m.from # n /\ (m.from \in Runners => m \in msgs) /\ n \in Nodes /\ EnvOK(Env)
           /\ Sound(Env, Known(n) \cup {m}, n, input[n], node[n])
<1> DEFINE s == node[n]
           known == Known(n) \cup {m}
<1>1. NetTypes /\ Authentic /\ Steady(n) /\ n \in Nodes
  BY DEF Inv, Runners
<1>2. m \in Message /\ m.from # n /\ (m.from \in Runners => m \in msgs)
  <2>1. CASE m \in msgs /\ m.from # n
    BY <1>1, <2>1 DEF NetTypes
  <2>2. CASE m \in setting.open_msgs[n]
    <3>1. setting \in Settings /\ n \in Nodes \ setting.open
      BY <1>1 DEF NetTypes, Setup, Runners
    <3>2. m \in Message /\ m.from \in setting.open
      BY <2>2, <3>1, AgreementAssumption
    <3> QED
      BY <3>1, <3>2 DEF Runners
  <2> QED
    BY <2>1, <2>2 DEF Arriving
<1>3. EnvOK(Env)
  BY <1>1, EnvSound DEF NetTypes
<1>4. Sound(Env, Known(n), n, input[n], s) /\ s.out = {}
  BY <1>1 DEF Steady
<1>5. Sound(Env, known, n, input[n], s)
  <2>1. /\ Known(n) \cup s.out \subseteq known /\ known \cup s.out = known
        /\ \A q \in known \ (Known(n) \cup s.out) : ~OwnRuled(n, q)
    BY <1>2, <1>4 DEF OwnRuled
  <2> HIDE DEF known, s
  <2>2. SbvSound(Env, known, n, input[n], s) /\ Local(Env, known, n, input[n], s)
    BY <1>4, <2>1, SoundGrows
  <2>3. OutputDue(s) /\ Relayed(s) /\ TermsFew(s)
    BY <1>4, SoundFacts
  <2> QED
    BY <2>1, <2>2, <2>3 DEF Sound
<1> QED
  BY <1>1, <1>2, <1>3, <1>5

LEMMA ReceiveStep ==
    ASSUME Inv, NEW n \in Runners, NEW m \in Arriving(n), Receive(n, m)
    PROVE  Inv'
<1> DEFINE s == node[n]
           r == received[n] \cup {m}
           known == r \cup {q \in msgs : q.from = n}
           t == HandleMessage(s, n, m)
<1>1. NetTypes /\ Authentic /\ Steady(n)
  BY DEF Inv
<1>2. m \in Message /\ m.from # n /\ (m.from \in Runners => m \in msgs) /\ n \in Nodes /\ EnvOK(Env)
  BY Given
<1>3. known = Known(n) \cup {m}
  BY DEF Known
<1>4. s.out = {}
  BY <1>1 DEF Steady
<1>5. Sound(Env, known, n, input[n], s)
  BY <1>3, Given
<1>6. Depth(s) \in Nat
  BY QueueIsFinite
<1>7. ~Obsolete(s, m) /\ m \in known
  BY DEF Receive
<1>8. Done(Env, known, n, input[n], s, t)
  <2> HIDE DEF known, s
  <2> QED
    BY <1>2, <1>5, <1>6, <1>7, HandleMessageSound
<1>9. /\ Becomes(n, t) /\ received' = [received EXCEPT ![n] = r] /\ input' = input
      /\ UNCHANGED <<setting, coin_value>>
  BY DEF Receive
<1>10. input' = [input EXCEPT ![n] = input[n]] /\ input[n] \in {None} \cup BOOLEAN
  BY <1>1, <1>9 DEF NetTypes
<1>11. r \in SUBSET Message /\ IsFiniteSet(r) /\ received[n] \subseteq r
  <2>1. r \in SUBSET Message /\ received[n] \subseteq r
    BY <1>1, <1>2 DEF NetTypes
  <2>2. IsFiniteSet(r)
    BY <1>1, FS_AddElement DEF Steady
  <2> QED
    BY <2>1, <2>2
<1>12. \A q \in r : q.from # n /\ (q.from \in Runners => q \in msgs)
  BY <1>1, <1>2 DEF Steady, Authentic
<1>13. Sound(Env, known, n, input[n], t) /\ \A q \in t.out : q.from = n
  <2> HIDE DEF t
  <2> QED
    BY <1>4, <1>8 DEF Done, Grown, Sends
<1> HIDE DEF t, r, s
<1>14. Sound(Env, r \cup {q \in msgs : q.from = n}, n, input[n], t)
  BY <1>13
<1> QED
  BY <1>9, <1>10, <1>11, <1>12, <1>13, <1>14, CallStep

(* propose: an input where there was none *)
LEMMA ProposeSound ==
    ASSUME NEW x, NEW known, NEW n, NEW s, Sound(x, known, n, None, s), NEW b \in BOOLEAN
    PROVE  LET t == [s EXCEPT !.estimated = b]
           IN  /\ Sound(x, known, n, b, t) /\ t.out = s.out /\ t.epoch = s.epoch /\ t.queue = s.queue
<1> DEFINE t == [s EXCEPT !.estimated = b]
           ev == known \cup s.out
<1>1. /\ s \in State /\ SbvSound(x, ev, n, None, s) /\ OutputDue(s) /\ Relayed(s)
      /\ Local(x, ev, n, None, s) /\ TermsFew(s)
  BY SoundFacts
<1>2. /\ t \in State /\ SbvKept(s, t) /\ t.out = s.out /\ t.epoch = s.epoch /\ t.decision = s.decision
      /\ t.conf_values = s.conf_values /\ t.coin = s.coin /\ t.received_term = s.received_term /\ t.ts = s.ts
      /\ t.queue = s.queue /\ t.estimated = b
  BY <1>1 DEF State, SbvKept
<1> HIDE DEF t, ev
<1>3. Rules(x, ev, n, b, s)
  <2>1. BValRule(x, ev, n, b, s)
    <3> SUFFICES ASSUME NEW e \in Nat, NEW c \in BOOLEAN, Msg(n, e, "BVal", c) \in ev
                 PROVE  e <= s.epoch /\ (Estimate(x, ev, b, e, c) \/ Cardinality(ByBVal(ev, e, c) \ {n}) > num_faulty)
      BY DEF BValRule
    <3>1. e <= s.epoch /\ (Estimate(x, ev, None, e, c) \/ Cardinality(ByBVal(ev, e, c) \ {n}) > num_faulty)
      BY <1>1 DEF SbvSound, Rules, BValRule
    <3>2. Estimate(x, ev, None, e, c) => Estimate(x, ev, b, e, c)
      BY NoneAssumption DEF Estimate
    <3> QED
      BY <3>1, <3>2
  <2> QED
    BY <1>1, <2>1 DEF SbvSound, Rules
<1>4. SbvSound(x, ev, n, b, s)
  BY <1>1, <1>3 DEF SbvSound
<1>5. SbvSound(x, ev, n, b, t) /\ OutputDue(t) /\ Relayed(t)
  BY <1>1, <1>2, <1>4, SbvSoundKept
<1>6. CoinRule(x, t) /\ ShareRule(x, ev, n, t)
  BY <1>1, <1>2 DEF Local, CoinRule, ShareRule
<1>7. TermRecord(ev, n, t) /\ TermsFew(t) /\ (t.conf_values # None => Candidates(ev, t.epoch, t.conf_values))
  BY <1>1, <1>2 DEF Local, TermRecord, TermsFew
<1>8. Place(x, b, t) /\ QueueRule(ev, n, t)
  BY <1>1, <1>2, NoneAssumption DEF Local, Place, QueueRule
<1>9. Local(x, ev, n, b, t)
  BY <1>6, <1>7, <1>8 DEF Local
<1>10. Sound(x, known, n, b, t)
  BY <1>2, <1>5, <1>7, <1>9 DEF Sound, ev
<1> QED
  BY <1>2, <1>10 DEF t

LEMMA Proposing ==
    ASSUME Inv, NEW n \in Runners, NEW b \in BOOLEAN, ~Proposed(n)
    PROVE  LET s == [node[n] EXCEPT !.estimated = b]
           IN  /\ n \in Nodes /\ EnvOK(Env) /\ input[n] = None /\ Depth(s) \in Nat
               /\ Sound(Env, Known(n), n, b, s) /\ s.out = {} /\ s.epoch = 0 /\ s.queue = node[n].queue
               /\ MaySend(Env, Known(n) \cup s.out, n, b, s, b)
<1> DEFINE s == [node[n] EXCEPT !.estimated = b]
<1>1. NetTypes /\ Authentic /\ Steady(n) /\ n \in Nodes
  BY DEF Inv, Runners
<1>2. EnvOK(Env) /\ Env.start \in Nat
  BY <1>1, EnvSound DEF EnvOK, NetTypes
<1>3. node[n] \in State /\ node[n].epoch \in Nat /\ node[n].estimated = None /\ node[n].epoch = 0
  BY <1>1, StateFields DEF NetTypes, Proposed
<1>4. input[n] = None /\ Env.start = 0
  <2>1. Place(Env, input[n], node[n])
    BY <1>1, SoundFacts DEF Steady, Local
  <2>2. Env.start <= 0
    BY <1>3, <2>1 DEF Place
  <2> QED
    BY <1>2, <1>3, <2>1, <2>2 DEF Place
<1>5. Sound(Env, Known(n), n, b, s) /\ s.out = {} /\ s.epoch = 0 /\ s.queue = node[n].queue
  <2>1. Sound(Env, Known(n), n, None, node[n]) /\ node[n].out = {}
    BY <1>1, <1>4 DEF Steady
  <2> QED
    BY <1>3, <2>1, ProposeSound
<1>6. Depth(s) \in Nat
  BY <1>5, QueueIsFinite DEF Depth
<1> HIDE DEF s
<1>7. MaySend(Env, Known(n) \cup s.out, n, b, s, b)
  BY <1>4, <1>5 DEF MaySend, Estimate
<1> QED
  BY <1>1, <1>2, <1>4, <1>5, <1>6, <1>7 DEF s

LEMMA ProposeStep ==
    ASSUME Inv, NEW n \in Runners, NEW b \in BOOLEAN, Propose(n, b)
    PROVE  Inv'
<1> DEFINE s == [node[n] EXCEPT !.estimated = b]
           t == SendBVal(s, n, b)
           u == HandleSbvStep(Calls[Depth(s)], s, t, n)
<1>1. /\ NetTypes /\ Authentic /\ Steady(n) /\ ~Proposed(n) /\ Becomes(n, u)
      /\ input' = [input EXCEPT ![n] = b] /\ UNCHANGED <<setting, coin_value, received>>
  BY DEF Inv, Propose
<1>2. n \in Nodes /\ EnvOK(Env) /\ input[n] = None /\ Depth(s) \in Nat
  BY <1>1, Proposing
<1>3. Sound(Env, Known(n), n, b, s) /\ s.out = {} /\ s.epoch = 0
  BY <1>1, Proposing
<1>4. MaySend(Env, Known(n) \cup s.out, n, b, s, b)
  BY <1>1, Proposing
<1> HIDE DEF s
<1>5. Done(Env, Known(n), n, b, s, t) /\ Kept(s, t)
  BY <1>3, <1>4, BValSentSound
<1> HIDE DEF t
<1>6. Sound(Env, Known(n), n, b, t)
  BY <1>5 DEF Done
<1>7. CallsOK(Env, Known(n), n, b, Calls[Depth(s)])
  BY <1>2, CallsSound
<1>8. Done(Env, Known(n), n, b, t, u)
  BY <1>2, <1>5, <1>6, <1>7, HandleSbvStepSound
<1>9. Done(Env, Known(n), n, b, s, u)
  BY <1>3, <1>5, <1>8, DoneThen
<1> HIDE DEF u
<1>10. Sound(Env, Known(n), n, b, u) /\ \A m \in u.out : m.from = n
  BY <1>3, <1>9 DEF Done, Grown, Sends
<1> DEFINE r == received[n]
<1>11. r \in SUBSET Message /\ IsFiniteSet(r) /\ \A m \in r : m.from # n /\ (m.from \in Runners => m \in msgs)
  BY <1>1 DEF NetTypes, Steady, Authentic
<1>12. received' = [received EXCEPT ![n] = r]
  BY <1>1 DEF NetTypes
<1>13. Sound(Env, r \cup {m \in msgs : m.from = n}, n, b, u)
  BY <1>10 DEF Known
<1>14. b \in {None} \cup BOOLEAN /\ input[n] \in {None, b}
  BY <1>2
<1>15. received[n] \subseteq r
  OBVIOUS
<1> HIDE DEF r
<1> QED
  BY <1>1, <1>10, <1>11, <1>12, <1>13, <1>14, <1>15, CallStep

(* A node at the start of the first epoch *)
Fresh(s, e) ==
    /\ s \in State /\ s.epoch = e /\ s.coin = InitialCoin(e) /\ s.bin_values = {} /\ s.sent_bval = {}
    /\ s.received_bval = EmptyMultimap /\ s.received_aux = EmptyMultimap /\ s.received_term = EmptyMultimap
    /\ s.sbv_output = None /\ s.conf_values = None /\ s.decision = None /\ s.ts = TsNew
    /\ s.out = {} /\ s.queue = {}

LEMMA FreshSound ==
    ASSUME NEW x, EnvOK(x), \A e \in DOMAIN x.coin : x.start <= e, NEW n, NEW i, NEW s, Fresh(s, x.start),
           i # None => s.epoch > 0 \/ s.estimated # None
    PROVE  Sound(x, {}, n, i, s)
<1>1. s \in State /\ s.epoch = x.start /\ x.start \in Nat /\ s.out = {} /\ num_faulty \in Nat /\ {} \cup s.out = {}
  BY Thresholds DEF Fresh, EnvOK
<1>2. \A b \in BOOLEAN : s.received_bval[b] = {} /\ s.received_aux[b] = {} /\ s.received_term[b] = {}
  BY DEF Fresh, EmptyMultimap
<1>3. Cardinality({}) = 0
  BY FS_EmptySet
<1>4. Tallied({}, n, s) /\ TermRecord({}, n, s)
  BY <1>2 DEF Tallied, TermRecord
<1>5. BinValues(s) /\ Relayed(s) /\ TermsFew(s)
  <2>1. ~(0 > 2 * num_faulty) /\ ~(0 > num_faulty) /\ 0 <= num_faulty
    BY <1>1
  <2>2. \A b \in BOOLEAN : Cardinality(s.received_bval[b]) = 0 /\ Cardinality(s.received_term[b]) = 0
    BY <1>2, <1>3
  <2>3. s.bin_values = {}
    BY DEF Fresh
  <2> QED
    BY <2>1, <2>2, <2>3 DEF BinValues, Relayed, TermsFew
<1>6. Rules(x, {}, n, i, s)
  BY NoneAssumption DEF Rules, BValRule, AuxRule, TermRule, DecisionRule, Fresh
<1>7. SbvSound(x, {}, n, i, s) /\ OutputDue(s)
  BY <1>1, <1>4, <1>5, <1>6 DEF SbvSound, OutputDue, Fresh
<1>8. CoinRule(x, s)
  BY <1>1 DEF CoinRule, CoinOf, Fresh
<1>9. ShareRule(x, {}, n, s)
  <2>1. s.ts.terminated = FALSE /\ s.ts.had_input = FALSE
    BY DEF Fresh, TsNew
  <2>2. s.epoch \in DOMAIN x.coin => s.coin = None
    BY <1>1 DEF EnvOK, Fresh
  <2>3. \A e \in DOMAIN x.coin : ~(e < s.epoch)
    BY <1>1 DEF EnvOK
  <2> QED
    BY <2>1, <2>2, <2>3 DEF ShareRule
<1>10. Place(x, i, s) /\ QueueRule({}, n, s)
  BY <1>1 DEF Place, QueueRule, Slots, Fresh
<1>11. Local(x, {}, n, i, s)
  BY <1>4, <1>8, <1>9, <1>10 DEF Local, Fresh
<1> QED
  BY <1>1, <1>5, <1>7, <1>11 DEF Sound

LEMMA NewIsFresh ==
    ASSUME NEW e \in Nat, NEW b \in {None} \cup BOOLEAN
    PROVE  /\ Fresh(New, 0)
           /\ LET s == [New EXCEPT !.epoch = e, !.coin = InitialCoin(e), !.estimated = b]
              IN  Fresh(s, e) /\ s.estimated = b
<1>1. EmptyMultimap \in BoolMultimap /\ [v \in Validators |-> None] \in [Validators -> {None} \cup SUBSET BOOLEAN]
  BY DEF EmptyMultimap, BoolMultimap
<1>2. TsNew \in [doc : {TRUE}, shares : SUBSET Share, had_input : BOOLEAN, terminated : BOOLEAN]
  BY DEF TsNew
<1>3. New \in State
  BY <1>1, <1>2 DEF New, State
<1>4. TRUE = InitialCoin(0)
  BY DEF InitialCoin
<1>5. Fresh(New, 0)
  BY <1>3, <1>4 DEF Fresh, New
<1>6. InitialCoin(e) \in {None} \cup BOOLEAN
  BY DEF InitialCoin
<1> DEFINE c == InitialCoin(e)
           s == [New EXCEPT !.epoch = e, !.coin = c, !.estimated = b]
<1> HIDE DEF c
<1>7. /\ s \in State /\ s.epoch = e /\ s.coin = c /\ s.estimated = b
      /\ s.bin_values = New.bin_values /\ s.sent_bval = New.sent_bval /\ s.received_bval = New.received_bval
      /\ s.received_aux = New.received_aux /\ s.received_term = New.received_term
      /\ s.sbv_output = New.sbv_output /\ s.conf_values = New.conf_values /\ s.decision = New.decision
      /\ s.ts = New.ts /\ s.out = New.out /\ s.queue = New.queue
  BY <1>3, <1>6 DEF State, c
<1> HIDE DEF s
<1>8. Fresh(s, e) /\ s.estimated = b
  BY <1>5, <1>7 DEF Fresh, c
<1> QED
  BY <1>5, <1>8 DEF s, c

LEMMA StartedSound ==
    ASSUME Setup, NEW n \in Runners, setting.start = 0 => input[n] = None,
           setting.start # 0 => input[n] \in BOOLEAN
    PROVE  /\ Sound(Env, {}, n, input[n], Started(n, input[n]))
           /\ Started(n, input[n]).conf_values = None /\ \A m \in Started(n, input[n]).out : m.from = n
<1> DEFINE e == setting.start
           b == input[n]
           s == [New EXCEPT !.epoch = e, !.coin = InitialCoin(e), !.estimated = b]
<1>1. EnvOK(Env) /\ (\A k \in DOMAIN Env.coin : Env.start <= k) /\ Env.start = e /\ e \in Nat
  BY EnvSound, AgreementAssumption DEF Setup, Env
<1>2. Started(n, b) = IF e = 0 THEN New ELSE SendBVal(s, n, b)
  BY DEF Started
<1>3. CASE e = 0
  <2>1. Fresh(New, e) /\ b = None
    BY <1>3, NewIsFresh
  <2>2. Sound(Env, {}, n, b, New) /\ New.out = {} /\ New.conf_values = None
    BY <1>1, <2>1, FreshSound DEF Fresh
  <2> QED
    BY <1>2, <1>3, <2>2
<1>4. CASE e # 0
  <2>1. b \in BOOLEAN
    BY <1>4
  <2>2. Fresh(s, e) /\ s.estimated = b
    BY <1>1, <2>1, NewIsFresh
  <2> HIDE DEF s, b
  <2>3. s.epoch = e /\ s.out = {} /\ s.epoch > 0 /\ s.conf_values = None
    BY <1>1, <1>4, <2>2 DEF Fresh
  <2>4. Sound(Env, {}, n, b, s)
    BY <1>1, <2>2, <2>3, FreshSound
  <2>5. MaySend(Env, {} \cup s.out, n, b, s, b)
    BY <1>1, <2>3 DEF MaySend, Estimate
  <2>6. Done(Env, {}, n, b, s, SendBVal(s, n, b)) /\ Kept(s, SendBVal(s, n, b))
    BY <2>1, <2>4, <2>5, BValSentSound
  <2>7. Started(n, b) = SendBVal(s, n, b)
    BY <1>2, <1>4
  <2>8. /\ Sound(Env, {}, n, b, Started(n, b)) /\ Started(n, b).conf_values = None
        /\ \A m \in Started(n, b).out : m.from = n
    BY <2>3, <2>6, <2>7 DEF Done, Grown, Sends, Kept
  <2> QED
    BY <2>8 DEF b
<1> QED
  BY <1>3, <1>4

LEMMA InitInv == ASSUME Init PROVE Inv
<1> DEFINE sent(n) == Started(n, input[n]).out
<1>1. /\ setting \in Settings /\ setting.start \in Nat
      /\ coin_value \in [{e \in setting.start .. setting.last : InitialCoin(e) = None} -> BOOLEAN]
      /\ node = [n \in Runners |-> [Started(n, input[n]) EXCEPT !.out = {}]]
      /\ msgs = UNION {sent(n) : n \in Runners} /\ received = [n \in Runners |-> {}]
  BY AgreementAssumption DEF Init
<1>2. /\ input \in [Runners -> {None} \cup BOOLEAN]
      /\ \A n \in Runners : /\ setting.start = 0 => input[n] = None
                            /\ setting.start # 0 => input[n] \in BOOLEAN
  <2>1. CASE setting.start = 0
    <3>1. input = [n \in Runners |-> None]
      BY <2>1 DEF Init
    <3> QED
      BY <2>1, <3>1
  <2>2. CASE setting.start # 0
    <3>1. input \in [Runners -> BOOLEAN]
      BY <1>1, <2>2, AgreementAssumption DEF Init, Runners
    <3> QED
      BY <2>2, <3>1
  <2> QED
    BY <2>1, <2>2
<1>3. Setup
  BY <1>1 DEF Setup
<1>4. ASSUME NEW n \in Runners
      PROVE  /\ Sound(Env, {}, n, input[n], Started(n, input[n])) /\ (\A m \in sent(n) : m.from = n)
             /\ sent(n) \in SUBSET Message /\ node[n] \in State /\ node[n].out = {}
             /\ Sound(Env, sent(n), n, input[n], node[n])
  <2> DEFINE s == Started(n, input[n])
  <2>1. Sound(Env, {}, n, input[n], s) /\ \A m \in s.out : m.from = n
    BY <1>2, <1>3, StartedSound
  <2>2. node[n] = [s EXCEPT !.out = {}]
    BY <1>1
  <2> HIDE DEF s
  <2>3. node[n] \in State /\ node[n].out = {} /\ Sound(Env, {} \cup s.out, n, input[n], node[n])
    BY <2>1, <2>2, OutSent
  <2>4. s.out \in SUBSET Message /\ {} \cup s.out = s.out
    BY <2>1, SoundFacts, StateFields
  <2> QED
    BY <2>1, <2>3, <2>4 DEF s
<1> HIDE DEF sent
<1>5. \A n \in Runners : Known(n) = sent(n) /\ received[n] = {}
  BY <1>1, <1>4 DEF Known
<1>6. NetTypes
  <2>1. \A m \in msgs : m \in Message /\ m.from \in Runners
    BY <1>1, <1>4
  <2>2. node \in [Runners -> State] /\ received \in [Runners -> SUBSET Message]
    BY <1>1, <1>4
  <2> QED
    BY <1>2, <1>3, <2>1, <2>2 DEF NetTypes
<1>7. Authentic
  BY <1>5 DEF Authentic
<1>8. \A n \in Runners : Steady(n)
  BY <1>4, <1>5, FS_EmptySet DEF Steady
<1>9. Grounded
  <2> SUFFICES ASSUME NEW v \in Runners, NEW e \in Nat, NEW b \in BOOLEAN, Msg(v, e, "BVal", b) \in msgs
               PROVE  Estimated(e, b)
    BY DEF Grounded
  <2>1. Msg(v, e, "BVal", b) \in Known(v)
    BY OwnFrom DEF Known
  <2>2. BValRule(Env, Known(v), v, input[v], node[v])
    <3>1. Known(v) \cup node[v].out = Known(v)
      BY <1>4
    <3> QED
      BY <1>4, <1>5, <3>1, SoundFacts DEF SbvSound, Rules
  <2>3. Estimate(Env, Known(v), input[v], e, b) \/ Cardinality(ByBVal(Known(v), e, b) \ {v}) > num_faulty
    BY <2>1, <2>2 DEF BValRule
  <2>4. ByBVal(Known(v), e, b) \ {v} = {}
    <3>1. \A m \in Known(v) : m.from = v
      BY <1>4, <1>5
    <3>2. \A w, k, type : Msg(w, k, type, b) \in Known(v) => w = v
      BY <3>1, OwnFrom
    <3> QED
      BY <3>2 DEF ByBVal, ByTerm
  <2>5. ~(Cardinality(ByBVal(Known(v), e, b) \ {v}) > num_faulty)
    BY <2>4, FS_EmptySet, Thresholds
  <2> QED
    BY <2>3, <2>5 DEF Estimated
<1> QED
  BY <1>6, <1>7, <1>8, <1>9 DEF Inv

LEMMA NextInv == ASSUME Inv, [Next]_vars PROVE Inv'
<1>1. CASE Next
  <2>1. PICK n \in Runners : (\E b \in BOOLEAN : Propose(n, b)) \/ (\E m \in Arriving(n) : Receive(n, m))
    BY <1>1 DEF Next
  <2>2. CASE \E b \in BOOLEAN : Propose(n, b)
    BY <2>2, ProposeStep
  <2>3. CASE \E m \in Arriving(n) : Receive(n, m)
    BY <2>3, ReceiveStep
  <2> QED
    BY <2>1, <2>2, <2>3
<1>2. CASE UNCHANGED vars
  <2>1. /\ Setup' = Setup /\ Runners' = Runners /\ Env' = Env
        /\ \A n : Known(n)' = Known(n) /\ node'[n] = node[n] /\ input'[n] = input[n] /\ received'[n] = received[n]
    BY <1>2 DEF vars, Setup, Runners, Env, Known
  <2>2. NetTypes' /\ Authentic'
    BY <1>2, <2>1 DEF vars, Inv, NetTypes, Authentic
  <2>3. ASSUME NEW n \in Runners PROVE Steady(n)'
    BY <2>1 DEF Inv, Steady
  <2>4. Grounded' = Grounded /\ setting' = setting
    BY <1>2, <2>1 DEF vars, Grounded, Estimated, Terminated
  <2> QED
    BY <2>1, <2>2, <2>3, <2>4 DEF Inv
<1> QED
  BY <1>1, <1>2

LEMMA Invariance == Spec => []Inv
<1>1. Init => Inv
  BY InitInv
<1>2. Inv /\ [Next]_vars => Inv'
  BY NextInv
<1> QED
  BY <1>1, <1>2, PTL DEF Spec

(* sbv_broadcast.rs tests its counts for equality, and counts BVals, Auxs  *)
(* and Terms in any order, before and after the epoch begins: no node ever *)
(* passes one of the thresholds f + 1, 2f + 1 and N - f unnoticed.         *)
THEOREM ThresholdsNoticed == Spec => []NoThresholdSkipped
<1>1. Inv => NoThresholdSkipped
  BY InvSuffices
<1> QED
  BY <1>1, Invariance, PTL

(* threshold_sign.rs: "Before terminating, make sure we sent our share": a *)
(* validator that is past an epoch with a coin has multicast its share.    *)
THEOREM CoinSharesSent == Spec => []CoinShareSent
<1>1. Inv => CoinShareSent
  BY InvSuffices
<1> QED
  BY <1>1, Invariance, PTL

(* binary_agreement/mod.rs: all correct nodes have the same output, for    *)
(* any number of nodes and epochs, any inputs and any messages of at most  *)
(* f faulty validators.                                                    *)
THEOREM AgreementHolds == Spec => []Agreement
<1>1. Inv => Agreement
  BY InvSuffices
<1> QED
  BY <1>1, Invariance, PTL

(* binary_agreement/mod.rs: the output was input by a correct node. *)
THEOREM ValidityHolds == Spec => []Validity
<1>1. Inv => Validity
  BY InvSuffices
<1> QED
  BY <1>1, Invariance, PTL
=============================================================================
