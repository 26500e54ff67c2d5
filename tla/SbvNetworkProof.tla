-------------------------- MODULE SbvNetworkProof --------------------------
(***************************************************************************)
(* Synchronized Binary Value Broadcast for any number of nodes, f of N     *)
(* validators being faulty at most, and any messages of theirs.            *)
(***************************************************************************)
EXTENDS SbvNetwork, NetworkInfoProof

SbvState ==
    [epoch : {0}, bin_values : SUBSET BOOLEAN, received_bval : BoolMultimap, sent_bval : SUBSET BOOLEAN,
     received_aux : BoolMultimap, sbv_output : (SUBSET BOOLEAN) \cup {None},
     out : SUBSET [from : Validators, epoch : {0}, type : {"BVal", "Aux"}, val : BOOLEAN], faults : SUBSET Validators]

BVal(v, b) == Msg(v, 0, "BVal", b)
Aux(v, b) == Msg(v, 0, "Aux", b)

LEMMA MessagesDiffer ==
    \A u, v, b, c :
        /\ BVal(u, b) = BVal(v, c) <=> u = v /\ b = c
        /\ Aux(u, b) = Aux(v, c) <=> u = v /\ b = c
        /\ BVal(u, b) # Aux(v, c)
        /\ BVal(u, b).from = u /\ Aux(u, b).from = u
BY DEF BVal, Aux, Msg

LEMMA MessageTypes ==
    ASSUME NEW v \in Validators, NEW b \in BOOLEAN
    PROVE  /\ BVal(v, b) \in [from : Validators, epoch : {0}, type : {"BVal", "Aux"}, val : BOOLEAN]
           /\ Aux(v, b) \in [from : Validators, epoch : {0}, type : {"BVal", "Aux"}, val : BOOLEAN]
BY DEF BVal, Aux, Msg
-----------------------------------------------------------------------------
(* What the handlers do to the fields *)

(* count_aux adds up two numbers. *)
AuxFor(s, b) == IF b \in s.bin_values THEN Cardinality(s.received_aux[b]) ELSE 0

LEMMA CountAuxFacts ==
    ASSUME NEW s \in SbvState
    PROVE  /\ AuxFor(s, TRUE) \in Nat /\ AuxFor(s, FALSE) \in Nat
           /\ \A b \in BOOLEAN : Cardinality(s.received_aux[b]) \in Nat
           /\ CountAux(s) = AuxFor(s, TRUE) + AuxFor(s, FALSE)
<1>1. \A b \in BOOLEAN : Cardinality(s.received_aux[b]) \in Nat
  BY Counting DEF SbvState, BoolMultimap
<1>2. AuxFor(s, TRUE) \in Nat /\ AuxFor(s, FALSE) \in Nat
  BY <1>1 DEF AuxFor
<1>3. CountAux(s) = AuxFor(s, TRUE) + AuxFor(s, FALSE)
  BY DEF CountAux, AuxFor
<1> QED
  BY <1>1, <1>2, <1>3

(* try_output has been made: with enough Aux there is an output. *)
OutputDue(s) == s.bin_values # {} /\ CountAux(s) >= num_correct => s.sbv_output # None

(* An output of one value rests on N - f Aux for it. *)
OutputBacked(s) == \A b \in BOOLEAN : s.sbv_output = {b} => Cardinality(s.received_aux[b]) >= num_correct

LEMMA TryOutputFacts ==
    ASSUME NEW s \in SbvState, OutputBacked(s)
    PROVE  LET t == TryOutput(s)
           IN  /\ t \in SbvState
               /\ t.bin_values = s.bin_values /\ t.received_bval = s.received_bval /\ t.sent_bval = s.sent_bval
               /\ t.received_aux = s.received_aux /\ t.out = s.out
               /\ OutputDue(t) /\ OutputBacked(t)
<1> DEFINE t == TryOutput(s)
           vals == {b \in s.bin_values : s.received_aux[b] # {}}
           enough == s.sbv_output = None /\ s.bin_values # {} /\ CountAux(s) >= num_correct
<1>1. CASE ~enough
  <2>1. t = s
    BY <1>1 DEF TryOutput
  <2> QED
    BY <1>1, <2>1 DEF OutputDue
<1>2. CASE enough
  <2>1. t = [s EXCEPT !.sbv_output = vals]
    BY <1>2 DEF TryOutput
  <2>2. vals \in SUBSET BOOLEAN
    BY DEF SbvState
  <2>3. /\ t \in SbvState /\ t.sbv_output = vals
        /\ t.bin_values = s.bin_values /\ t.received_bval = s.received_bval /\ t.sent_bval = s.sent_bval
        /\ t.received_aux = s.received_aux /\ t.out = s.out
    <3> HIDE DEF vals
    <3> QED
      BY <2>1, <2>2 DEF SbvState
  <2>4. OutputDue(t)
    BY <2>2, <2>3, NoneAssumption DEF OutputDue
  <2>5. ASSUME NEW b \in BOOLEAN, vals = {b} PROVE Cardinality(s.received_aux[b]) >= num_correct
    <3>1. \A c \in BOOLEAN : c # b => AuxFor(s, c) = 0
      BY <2>5, FS_EmptySet DEF SbvState, AuxFor
    <3> DEFINE x == AuxFor(s, TRUE)
               y == AuxFor(s, FALSE)
    <3>0. x \in Nat /\ y \in Nat /\ CountAux(s) = x + y
      BY CountAuxFacts
    <3>2. CountAux(s) = AuxFor(s, b) /\ AuxFor(s, b) \in Nat
      <4>1. CASE b = TRUE
        <5>1. y = 0
          BY <3>1, <4>1
        <5>2. CountAux(s) = x /\ x \in Nat
          <6> HIDE DEF x, y
          <6> QED
            BY <3>0, <5>1
        <5> QED
          BY <4>1, <5>2
      <4>2. CASE b = FALSE
        <5>1. x = 0
          BY <3>1, <4>2
        <5>2. CountAux(s) = y /\ y \in Nat
          <6> HIDE DEF x, y
          <6> QED
            BY <3>0, <5>1
        <5> QED
          BY <4>2, <5>2
      <4> QED
        BY <4>1, <4>2
    <3>3. b \in s.bin_values /\ AuxFor(s, b) = Cardinality(s.received_aux[b])
      BY <2>5 DEF AuxFor
    <3> QED
      BY <1>2, <3>2, <3>3
  <2> QED
    BY <2>3, <2>4, <2>5 DEF OutputBacked
<1> QED
  BY <1>1, <1>2

-----------------------------------------------------------------------------
(* The invariant of a node's state s, M being all that was ever sent       *)

(* What is on record was sent, if the sender is correct. *)
Recorded(s, M) ==
    \A b \in BOOLEAN : \A v \in CorrectValidators :
        /\ v \in s.received_bval[b] => BVal(v, b) \in M
        /\ v \in s.received_aux[b] => Aux(v, b) \in M

(* A validator sends one Aux, for a value that it believes in, and as soon *)
(* as there is one.                                                        *)
OwnAux(n, s, M) ==
    n \in Validators =>
        /\ \A b \in BOOLEAN : Aux(n, b) \in M => n \in s.received_aux[b] /\ b \in s.bin_values
        /\ \A b, c \in BOOLEAN : Aux(n, b) \in M /\ Aux(n, c) \in M => b = c
        /\ s.bin_values # {} => \E b \in s.bin_values : n \in s.received_aux[b]

(* No count passes 2f + 1 unnoticed. *)
BinValues(s) == \A b \in BOOLEAN : b \in s.bin_values <=> Cardinality(s.received_bval[b]) > 2 * num_faulty

NodeInv(n, s, M) ==
    s \in SbvState /\ Recorded(s, M) /\ OwnAux(n, s, M) /\ BinValues(s) /\ OutputDue(s) /\ OutputBacked(s)

(* Counting one more validator *)
LEMMA AddOne ==
    ASSUME NEW S \in SUBSET Validators, NEW v \in Validators, v \notin S
    PROVE  /\ S \cup {v} \in SUBSET Validators /\ Cardinality(S) \in Nat
           /\ Cardinality(S \cup {v}) = Cardinality(S) + 1
BY Counting, FS_AddElement

(* What handle_bval has counted, and what it believes in after it. *)
WithBVal(s, v, b) == [s EXCEPT !.received_bval[b] = @ \cup {v}]

Believing(s, b) == [s EXCEPT !.bin_values = @ \cup {b}]

LEMMA CountedFacts ==
    ASSUME NEW s \in SbvState, NEW v \in Validators, NEW b \in BOOLEAN
    PROVE  LET t == WithBVal(s, v, b)
           IN  /\ t \in SbvState
               /\ t.received_bval[b] = s.received_bval[b] \cup {v}
               /\ \A c \in BOOLEAN : c # b => t.received_bval[c] = s.received_bval[c]
               /\ t.bin_values = s.bin_values /\ t.sent_bval = s.sent_bval /\ t.sbv_output = s.sbv_output
               /\ t.received_aux = s.received_aux /\ t.out = s.out
BY DEF WithBVal, SbvState, BoolMultimap

LEMMA BelievingFacts ==
    ASSUME NEW s \in SbvState, NEW b \in BOOLEAN
    PROVE  LET t == Believing(s, b)
           IN  /\ t \in SbvState
               /\ t.bin_values = s.bin_values \cup {b}
               /\ t.received_bval = s.received_bval /\ t.sent_bval = s.sent_bval /\ t.sbv_output = s.sbv_output
               /\ t.received_aux = s.received_aux /\ t.out = s.out
BY DEF Believing, SbvState

WithAux(s, v, b) == [s EXCEPT !.received_aux[b] = @ \cup {v}]

LEMMA WithAuxFacts ==
    ASSUME NEW s \in SbvState, NEW v \in Validators, NEW b \in BOOLEAN
    PROVE  LET t == WithAux(s, v, b)
           IN  /\ t \in SbvState
               /\ t.received_aux[b] = s.received_aux[b] \cup {v}
               /\ \A c \in BOOLEAN : c # b => t.received_aux[c] = s.received_aux[c]
               /\ t.bin_values = s.bin_values /\ t.sent_bval = s.sent_bval /\ t.sbv_output = s.sbv_output
               /\ t.received_bval = s.received_bval /\ t.out = s.out
               /\ OutputBacked(s) => OutputBacked(t)
<1> DEFINE t == WithAux(s, v, b)
<1>1. /\ t \in SbvState
      /\ t.received_aux[b] = s.received_aux[b] \cup {v}
      /\ \A c \in BOOLEAN : c # b => t.received_aux[c] = s.received_aux[c]
      /\ t.bin_values = s.bin_values /\ t.sent_bval = s.sent_bval /\ t.sbv_output = s.sbv_output
      /\ t.received_bval = s.received_bval /\ t.out = s.out
  BY DEF WithAux, SbvState, BoolMultimap
<1> HIDE DEF t
<1>2. ASSUME OutputBacked(s), NEW c \in BOOLEAN, t.sbv_output = {c}
      PROVE  Cardinality(t.received_aux[c]) >= num_correct
  <2>1. s.received_aux[c] \subseteq t.received_aux[c] /\ s.received_aux[c] \subseteq Validators /\ t.received_aux[c] \subseteq Validators
    BY <1>1 DEF SbvState, BoolMultimap
  <2>2. /\ Cardinality(s.received_aux[c]) <= Cardinality(t.received_aux[c])
        /\ Cardinality(s.received_aux[c]) \in Nat /\ Cardinality(t.received_aux[c]) \in Nat
    BY <2>1, Counting
  <2>3. Cardinality(s.received_aux[c]) >= num_correct
    BY <1>1, <1>2 DEF OutputBacked
  <2> DEFINE x == Cardinality(s.received_aux[c])
             y == Cardinality(t.received_aux[c])
  <2>4. y >= num_correct
    <3> HIDE DEF x, y
    <3> QED
      BY <2>2, <2>3, Thresholds DEF x, y
  <2> QED
    BY <2>4
<1> QED
  BY <1>1, <1>2 DEF t, OutputBacked

(* handle_aux, with a first Aux from v *)
LEMMA HandleAuxInv ==
    ASSUME NEW n \in Correct, NEW v \in Validators, NEW b \in BOOLEAN, NEW s, NEW M,
           NodeInv(n, s, M), v \notin s.received_aux[b], v \in CorrectValidators => Aux(v, b) \in M
    PROVE  LET t == HandleAux(s, v, b)
           IN  /\ NodeInv(n, t, M) /\ t.received_bval = s.received_bval /\ t.sent_bval = s.sent_bval /\ t.out = s.out
<1> DEFINE u == WithAux(s, v, b)
           t == TryOutput(u)
<1>1. HandleAux(s, v, b) = t
  BY DEF HandleAux, WithAux
<1>2. s \in SbvState /\ OutputBacked(s)
  BY DEF NodeInv
<1>3. /\ u \in SbvState /\ OutputBacked(u)
      /\ u.received_aux[b] = s.received_aux[b] \cup {v}
      /\ \A c \in BOOLEAN : c # b => u.received_aux[c] = s.received_aux[c]
      /\ u.bin_values = s.bin_values /\ u.sent_bval = s.sent_bval
      /\ u.received_bval = s.received_bval /\ u.out = s.out
  BY <1>2, WithAuxFacts
<1> HIDE DEF u
<1>4. /\ t \in SbvState
      /\ t.bin_values = u.bin_values /\ t.received_bval = u.received_bval /\ t.sent_bval = u.sent_bval
      /\ t.received_aux = u.received_aux /\ t.out = u.out
      /\ OutputDue(t) /\ OutputBacked(t)
  BY <1>3, TryOutputFacts
<1> HIDE DEF t
<1>5. Recorded(t, M)
  BY <1>3, <1>4 DEF Recorded, NodeInv
<1>6. OwnAux(n, t, M)
  BY <1>3, <1>4 DEF OwnAux, NodeInv, SbvState
<1>7. BinValues(t)
  BY <1>3, <1>4 DEF BinValues, NodeInv
<1> QED
  BY <1>1, <1>3, <1>4, <1>5, <1>6, <1>7 DEF NodeInv

(* The first half of handle_bval, with a first BVal from v: the count goes *)
(* up by one, so that it does not miss 2f + 1, when v's value is believed  *)
(* in and, if it is the first, sent as Aux.                                *)
Inserted(n, v, b, s, t, M) ==
    /\ NodeInv(n, t, M \cup t.out)
    /\ t.received_bval[b] = s.received_bval[b] \cup {v}
    /\ \A c \in BOOLEAN : c # b => t.received_bval[c] = s.received_bval[c]
    /\ t.sent_bval = s.sent_bval
    /\ t.out \in {s.out, s.out \cup {Aux(n, b)}}

LEMMA InsertBValInv ==
    ASSUME NEW n \in Correct, NEW v \in Validators, NEW b \in BOOLEAN, NEW s, NEW M,
           NodeInv(n, s, M), s.out \subseteq M,
           v \notin s.received_bval[b], v \in CorrectValidators => BVal(v, b) \in M
    PROVE  Inserted(n, v, b, s, InsertBVal(s, n, v, b), M)
<1> DEFINE u == WithBVal(s, v, b)
           w == Believing(u, b)
           t == InsertBVal(s, n, v, b)
           old == Cardinality(s.received_bval[b])
<1> USE CorrectNodes
<1>1. s \in SbvState /\ Recorded(s, M) /\ OwnAux(n, s, M) /\ BinValues(s) /\ OutputDue(s) /\ OutputBacked(s)
  BY DEF NodeInv
<1>2. s.received_bval[b] \in SUBSET Validators /\ s.bin_values \subseteq BOOLEAN
  BY <1>1 DEF SbvState, BoolMultimap
<1>3. /\ u \in SbvState
      /\ u.received_bval[b] = s.received_bval[b] \cup {v}
      /\ \A c \in BOOLEAN : c # b => u.received_bval[c] = s.received_bval[c]
      /\ u.bin_values = s.bin_values /\ u.sent_bval = s.sent_bval /\ u.sbv_output = s.sbv_output
      /\ u.received_aux = s.received_aux /\ u.out = s.out
  BY <1>1, CountedFacts
<1>4. old \in Nat /\ Cardinality(u.received_bval[b]) = old + 1 /\ num_faulty \in Nat
  BY <1>2, <1>3, AddOne, Thresholds
<1>5. (b \in s.bin_values) <=> old > 2 * num_faulty
  BY <1>1 DEF BinValues
<1>6. t = IF Cardinality(u.received_bval[b]) # 2 * num_faulty + 1 THEN u
          ELSE IF w.bin_values # BOOLEAN THEN SendAux(w, n, b) ELSE TryOutput(w)
  BY DEF InsertBVal, WithBVal, Believing
<1>7. \A c \in BOOLEAN : c # b => (c \in s.bin_values <=> Cardinality(u.received_bval[c]) > 2 * num_faulty)
  BY <1>1, <1>3 DEF BinValues
<1>8. Recorded(u, M)
  BY <1>1, <1>3 DEF Recorded
<1> HIDE DEF u, old
<1>9. CASE old + 1 # 2 * num_faulty + 1
  <2>1. t = u
    BY <1>4, <1>6, <1>9
  <2>2. BinValues(u)
    <3>1. b \in s.bin_values <=> Cardinality(u.received_bval[b]) > 2 * num_faulty
      BY <1>4, <1>5, <1>9
    <3> QED
      BY <1>3, <1>7, <3>1 DEF BinValues
  <2>3. OwnAux(n, u, M) /\ OutputDue(u) /\ OutputBacked(u)
    BY <1>1, <1>3 DEF OwnAux, OutputDue, OutputBacked, CountAux
  <2>4. M \cup u.out = M
    BY <1>3
  <2> QED
    BY <1>3, <1>8, <2>1, <2>2, <2>3, <2>4 DEF NodeInv, Inserted
<1>10. CASE old + 1 = 2 * num_faulty + 1
  <2>1. b \notin s.bin_values
    BY <1>4, <1>5, <1>10
  <2>2. /\ w \in SbvState
        /\ w.bin_values = s.bin_values \cup {b}
        /\ w.received_bval = u.received_bval /\ w.sent_bval = s.sent_bval /\ w.sbv_output = s.sbv_output
        /\ w.received_aux = s.received_aux /\ w.out = s.out
    BY <1>3, BelievingFacts
  <2> HIDE DEF w
  <2>3. OutputBacked(w)
    BY <1>1, <2>2 DEF OutputBacked
  <2>4. BinValues(w)
    <3>1. Cardinality(u.received_bval[b]) > 2 * num_faulty
      BY <1>4, <1>10
    <3> QED
      BY <1>7, <2>2, <3>1 DEF BinValues
  <2>5. t = IF w.bin_values # BOOLEAN THEN SendAux(w, n, b) ELSE TryOutput(w)
    BY <1>4, <1>6, <1>10
  <2> HIDE DEF t
  <2>6. CASE w.bin_values = BOOLEAN \/ n \notin Validators
    <3>1. t = TryOutput(w)
      BY <2>5, <2>6 DEF SendAux, is_validator
    <3>2. /\ t \in SbvState
          /\ t.bin_values = w.bin_values /\ t.received_bval = w.received_bval /\ t.sent_bval = w.sent_bval
          /\ t.received_aux = w.received_aux /\ t.out = w.out
          /\ OutputDue(t) /\ OutputBacked(t)
      BY <2>2, <2>3, <3>1, TryOutputFacts
    <3>3. Recorded(t, M)
      BY <1>3, <1>8, <2>2, <3>2 DEF Recorded
    <3>4. OwnAux(n, t, M)
      <4>1. n \in Validators => s.bin_values # {}
        BY <2>2, <2>6
      <4> QED
        BY <1>1, <2>2, <3>2, <4>1 DEF OwnAux
    <3>5. BinValues(t)
      BY <2>4, <3>2 DEF BinValues
    <3>6. M \cup t.out = M
      BY <2>2, <3>2
    <3> QED
      BY <1>3, <2>2, <3>2, <3>3, <3>4, <3>5, <3>6 DEF NodeInv, t, Inserted
  <2>7. CASE w.bin_values # BOOLEAN /\ n \in Validators
    <3> DEFINE x == [w EXCEPT !.out = @ \cup {Aux(n, b)}]
               y == WithAux(x, n, b)
    <3>1. /\ x \in SbvState /\ x.out = s.out \cup {Aux(n, b)}
          /\ x.bin_values = w.bin_values /\ x.received_bval = w.received_bval /\ x.sent_bval = w.sent_bval
          /\ x.received_aux = w.received_aux /\ x.sbv_output = w.sbv_output
      BY <2>2, <2>7, MessageTypes DEF SbvState
    <3>2. n \in CorrectValidators /\ s.bin_values = {}
      BY <1>2, <2>1, <2>2, <2>7
    <3>3. \A c \in BOOLEAN : Aux(n, c) \notin M
      BY <1>1, <2>7, <3>2 DEF OwnAux
    <3>4. n \notin x.received_aux[b]
      BY <1>1, <2>2, <3>1, <3>2, <3>3 DEF Recorded
    <3>5. t = TryOutput(y)
      <4>1. w.epoch = 0
        BY <2>2 DEF SbvState
      <4> QED
        BY <2>5, <2>7, <3>4, <4>1 DEF SendAux, is_validator, Multicast, HandleAux, WithAux, Aux
    <3> HIDE DEF x
    <3>6. OutputBacked(x)
      BY <2>3, <3>1 DEF OutputBacked
    <3>7. /\ y \in SbvState /\ OutputBacked(y)
          /\ y.received_aux[b] = x.received_aux[b] \cup {n}
          /\ \A c \in BOOLEAN : c # b => y.received_aux[c] = x.received_aux[c]
          /\ y.bin_values = x.bin_values /\ y.sent_bval = x.sent_bval
          /\ y.received_bval = x.received_bval /\ y.out = x.out
      BY <2>7, <3>1, <3>6, WithAuxFacts
    <3> HIDE DEF y
    <3>8. /\ t \in SbvState
          /\ t.bin_values = w.bin_values /\ t.received_bval = w.received_bval /\ t.sent_bval = w.sent_bval
          /\ t.received_aux[b] = w.received_aux[b] \cup {n}
          /\ \A c \in BOOLEAN : c # b => t.received_aux[c] = w.received_aux[c]
          /\ t.out = s.out \cup {Aux(n, b)}
          /\ OutputDue(t) /\ OutputBacked(t)
      BY <3>1, <3>5, <3>7, TryOutputFacts
    <3>9. M \cup t.out = M \cup {Aux(n, b)}
      BY <3>8
    <3>10. Recorded(t, M \cup {Aux(n, b)})
      BY <1>3, <1>8, <2>2, <3>2, <3>8 DEF Recorded
    <3>11. OwnAux(n, t, M \cup {Aux(n, b)})
      <4>1. \A c \in BOOLEAN : Aux(n, c) \in M \cup {Aux(n, b)} => c = b
        BY <3>3, MessagesDiffer
      <4> QED
        BY <2>2, <3>8, <4>1 DEF OwnAux
    <3>12. BinValues(t)
      BY <2>4, <3>8 DEF BinValues
    <3> QED
      BY <1>3, <2>2, <3>8, <3>9, <3>10, <3>11, <3>12 DEF NodeInv, t, Inserted
  <2> QED
    BY <2>6, <2>7
<1> QED
  <2>1. old + 1 \in Int /\ 2 * num_faulty + 1 \in Int
    BY <1>4
  <2> QED
    BY <1>9, <1>10
-----------------------------------------------------------------------------
(* A validator's own BVal is the first that it counts. *)
OwnBVal(n, s, M) ==
    n \in Validators =>
        \A b \in BOOLEAN :
            /\ b \in s.sent_bval <=> n \in s.received_bval[b]
            /\ BVal(n, b) \in M => b \in s.sent_bval

(* No count passes f + 1 unnoticed. *)
Echoed(s) == \A b \in BOOLEAN : Cardinality(s.received_bval[b]) > num_faulty => b \in s.sent_bval

(* send_bval *)
HasSent(n, b, s, t, M) ==
    /\ NodeInv(n, t, M \cup t.out) /\ OwnBVal(n, t, M \cup t.out)
    /\ t.sent_bval = s.sent_bval \cup {b}
    /\ \A c \in BOOLEAN : c # b => t.received_bval[c] = s.received_bval[c]
    /\ s.out \subseteq t.out /\ t.out \subseteq s.out \cup {BVal(n, b), Aux(n, b)}

LEMMA SendBValInv ==
    ASSUME NEW n \in Correct, NEW b \in BOOLEAN, NEW s, NEW M,
           NodeInv(n, s, M), s.out \subseteq M, OwnBVal(n, s, M)
    PROVE  HasSent(n, b, s, SendBVal(s, n, b), M)
<1> DEFINE t == SendBVal(s, n, b)
<1> USE CorrectNodes
<1>1. s \in SbvState /\ Recorded(s, M) /\ OwnAux(n, s, M) /\ BinValues(s) /\ OutputDue(s) /\ OutputBacked(s)
  BY DEF NodeInv
<1>2. CASE b \in s.sent_bval
  <2>1. t = s
    BY <1>2 DEF SendBVal
  <2>2. M \cup s.out = M
    OBVIOUS
  <2>3. s.sent_bval = s.sent_bval \cup {b}
    BY <1>2
  <2> HIDE DEF t
  <2> QED
    BY <2>1, <2>2, <2>3 DEF t, HasSent
<1>3. CASE b \notin s.sent_bval /\ n \notin Validators
  <2> DEFINE u == [s EXCEPT !.sent_bval = @ \cup {b}]
  <2>1. t = TryOutput(u)
    BY <1>3 DEF SendBVal, Multicast, is_validator
  <2>2. /\ u \in SbvState /\ u.sent_bval = s.sent_bval \cup {b}
        /\ u.bin_values = s.bin_values /\ u.received_bval = s.received_bval
        /\ u.received_aux = s.received_aux /\ u.sbv_output = s.sbv_output /\ u.out = s.out
    BY <1>1 DEF SbvState
  <2> HIDE DEF u
  <2>3. OutputBacked(u)
    BY <1>1, <2>2 DEF OutputBacked
  <2>4. /\ t \in SbvState
        /\ t.bin_values = u.bin_values /\ t.received_bval = u.received_bval /\ t.sent_bval = u.sent_bval
        /\ t.received_aux = u.received_aux /\ t.out = u.out
        /\ OutputDue(t) /\ OutputBacked(t)
    BY <2>1, <2>2, <2>3, TryOutputFacts
  <2> HIDE DEF t
  <2>5. Recorded(t, M) /\ BinValues(t)
    BY <1>1, <2>2, <2>4 DEF Recorded, BinValues
  <2>6. OwnAux(n, t, M) /\ OwnBVal(n, t, M)
    BY <1>3 DEF OwnAux, OwnBVal
  <2>7. M \cup t.out = M
    BY <2>2, <2>4
  <2> QED
    BY <2>2, <2>4, <2>5, <2>6, <2>7 DEF NodeInv, t, HasSent
<1>4. CASE b \notin s.sent_bval /\ n \in Validators
  <2> DEFINE u == [s EXCEPT !.sent_bval = @ \cup {b}, !.out = @ \cup {BVal(n, b)}]
             P == M \cup {BVal(n, b)}
  <2>1. t = InsertBVal(u, n, n, b)
    <3>1. s.epoch = 0
      BY <1>1 DEF SbvState
    <3> QED
      BY <1>4, <3>1 DEF SendBVal, Multicast, is_validator, BVal
  <2>2. /\ u \in SbvState /\ u.sent_bval = s.sent_bval \cup {b} /\ u.out = s.out \cup {BVal(n, b)}
        /\ u.bin_values = s.bin_values /\ u.received_bval = s.received_bval
        /\ u.received_aux = s.received_aux /\ u.sbv_output = s.sbv_output
    <3>1. BVal(n, b) \in [from : Validators, epoch : {0}, type : {"BVal", "Aux"}, val : BOOLEAN]
      BY <1>4, MessageTypes
    <3>2. s.out \cup {BVal(n, b)} \in SUBSET [from : Validators, epoch : {0}, type : {"BVal", "Aux"}, val : BOOLEAN]
      BY <1>1, <3>1 DEF SbvState
    <3> QED
      BY <1>1, <3>2 DEF SbvState
  <2> HIDE DEF u
  <2>3. OutputBacked(u) /\ OutputDue(u) /\ BinValues(u) /\ Recorded(u, P)
    BY <1>1, <2>2 DEF OutputBacked, OutputDue, CountAux, BinValues, Recorded
  <2>4. \A c \in BOOLEAN : Aux(n, c) \in P => Aux(n, c) \in M
    BY MessagesDiffer
  <2>5. OwnAux(n, u, P)
    <3> HIDE DEF P
    <3> QED
      BY <1>1, <2>2, <2>4 DEF OwnAux
  <2>6. NodeInv(n, u, P) /\ u.out \subseteq P /\ n \notin u.received_bval[b] /\ BVal(n, b) \in P
    BY <1>4, <2>2, <2>3, <2>5 DEF NodeInv, OwnBVal
  <2> HIDE DEF P, t
  <2>7. /\ NodeInv(n, t, P \cup t.out)
        /\ t.received_bval[b] = u.received_bval[b] \cup {n}
        /\ \A c \in BOOLEAN : c # b => t.received_bval[c] = u.received_bval[c]
        /\ t.sent_bval = u.sent_bval
        /\ t.out \in {u.out, u.out \cup {Aux(n, b)}}
    <3>1. Inserted(n, n, b, u, t, P)
      BY <1>4, <2>1, <2>6, InsertBValInv
    <3> QED
      BY <3>1 DEF Inserted
  <2>8. P \cup t.out = M \cup t.out
    BY <2>2, <2>7 DEF P
  <2>9. OwnBVal(n, t, M \cup t.out)
    <3>1. \A c \in BOOLEAN : BVal(n, c) \in M \cup t.out => BVal(n, c) \in M \/ BVal(n, c) \in s.out \/ c = b
      BY <2>2, <2>7, MessagesDiffer
    <3> QED
      BY <2>2, <2>7, <3>1 DEF OwnBVal
  <2> QED
    BY <2>2, <2>7, <2>8, <2>9 DEF t, HasSent
<1> QED
  BY <1>2, <1>3, <1>4

(* handle_bval, with a first BVal from v *)
Handled(n, b, s, t, M) ==
    /\ NodeInv(n, t, M \cup t.out) /\ OwnBVal(n, t, M \cup t.out) /\ Echoed(t)
    /\ s.sent_bval \subseteq t.sent_bval
    /\ t.out \subseteq {BVal(n, b), Aux(n, b)}
    /\ BVal(n, b) \in t.out => \E u \in CorrectValidators : BVal(u, b) \in M

LEMMA HandleBValInv ==
    ASSUME NEW n \in Correct, NEW v \in Validators, NEW b \in BOOLEAN, NEW s, NEW M,
           NodeInv(n, s, M), s.out = {}, OwnBVal(n, s, M), Echoed(s),
           v \notin s.received_bval[b], v \in CorrectValidators => BVal(v, b) \in M
    PROVE  Handled(n, b, s, HandleBVal(s, n, v, b), M)
<1> DEFINE i == InsertBVal(s, n, v, b)
           t == HandleBVal(s, n, v, b)
           old == Cardinality(s.received_bval[b])
<1>1. /\ NodeInv(n, i, M \cup i.out)
      /\ i.received_bval[b] = s.received_bval[b] \cup {v}
      /\ \A c \in BOOLEAN : c # b => i.received_bval[c] = s.received_bval[c]
      /\ i.sent_bval = s.sent_bval
      /\ i.out \in {s.out, s.out \cup {Aux(n, b)}}
  <2>1. s.out \subseteq M
    OBVIOUS
  <2>2. Inserted(n, v, b, s, i, M)
    BY <2>1, InsertBValInv
  <2> QED
    BY <2>2 DEF Inserted
<1>2. t = IF old = num_faulty THEN SendBVal(i, n, b) ELSE i
  BY DEF HandleBVal
<1> HIDE DEF i
<1>3. /\ old \in Nat /\ num_faulty \in Nat /\ Cardinality(i.received_bval[b]) = old + 1
      /\ i.received_bval[b] \in SUBSET Validators
  <2>1. s.received_bval[b] \in SUBSET Validators
    BY DEF NodeInv, SbvState, BoolMultimap
  <2> QED
    BY <1>1, <2>1, AddOne, Thresholds
<1>4. OwnBVal(n, i, M \cup i.out)
  <2>1. v # n
    BY CorrectNodes DEF OwnBVal
  <2>2. \A c \in BOOLEAN : BVal(n, c) \in M \cup i.out => BVal(n, c) \in M
    BY <1>1, MessagesDiffer
  <2> QED
    BY <1>1, <2>1, <2>2 DEF OwnBVal
<1>5. \A c \in BOOLEAN : c # b => (Cardinality(i.received_bval[c]) > num_faulty => c \in s.sent_bval)
  BY <1>1 DEF Echoed
<1>6. old > num_faulty => b \in s.sent_bval
  BY DEF Echoed
<1> HIDE DEF old
<1>7. CASE old # num_faulty
  <2>1. t = i
    BY <1>2, <1>7
  <2>2. Cardinality(i.received_bval[b]) > num_faulty => b \in s.sent_bval
    BY <1>3, <1>6, <1>7
  <2>3. Echoed(i)
    BY <1>1, <1>5, <2>2 DEF Echoed
  <2>4. BVal(n, b) \notin i.out
    BY <1>1, MessagesDiffer
  <2> HIDE DEF t
  <2> QED
    BY <1>1, <1>4, <2>1, <2>3, <2>4 DEF t, Handled
<1>8. CASE old = num_faulty
  <2> DEFINE P == M \cup i.out
  <2>1. t = SendBVal(i, n, b)
    BY <1>2, <1>8
  <2> HIDE DEF t, P
  <2>2. NodeInv(n, i, P) /\ OwnBVal(n, i, P) /\ i.out \subseteq P
    BY <1>1, <1>4 DEF P
  <2>3. /\ NodeInv(n, t, P \cup t.out) /\ OwnBVal(n, t, P \cup t.out)
        /\ t.sent_bval = i.sent_bval \cup {b}
        /\ \A c \in BOOLEAN : c # b => t.received_bval[c] = i.received_bval[c]
        /\ i.out \subseteq t.out /\ t.out \subseteq i.out \cup {BVal(n, b), Aux(n, b)}
    <3>1. HasSent(n, b, i, t, P)
      BY <2>1, <2>2, SendBValInv
    <3> QED
      BY <3>1 DEF HasSent
  <2>4. P \cup t.out = M \cup t.out
    BY <2>3 DEF P
  <2>5. Echoed(t)
    <3>1. ASSUME NEW c \in BOOLEAN, Cardinality(t.received_bval[c]) > num_faulty PROVE c \in t.sent_bval
      <4>1. CASE c = b
        BY <2>3, <4>1
      <4>2. CASE c # b
        BY <1>1, <1>5, <2>3, <3>1, <4>2
      <4> QED
        BY <4>1, <4>2
    <3> QED
      BY <3>1 DEF Echoed
  <2>6. Cardinality(i.received_bval[b]) > num_faulty
    BY <1>3, <1>8
  <2>7. PICK u \in i.received_bval[b] : u \in CorrectValidators
    BY <1>3, <2>6, CorrectMember
  <2>8. BVal(u, b) \in P
    BY <2>2, <2>7 DEF NodeInv, Recorded
  <2>9. BVal(u, b) \in M
    BY <1>1, <2>8, MessagesDiffer DEF P
  <2> QED
    BY <1>1, <2>3, <2>4, <2>5, <2>7, <2>9 DEF t, Handled
<1> QED
  BY <1>7, <1>8
-----------------------------------------------------------------------------
(* The inductive invariant.  The messages are global: what a node has on   *)
(* record, and how often it sent what, only makes sense against them.      *)
NodesInv ==
    /\ sbv \in [Correct -> SbvState]
    /\ \A n \in Correct :
          /\ NodeInv(n, sbv[n], msgs) /\ OwnBVal(n, sbv[n], msgs) /\ Echoed(sbv[n])
          /\ sbv[n].out = {}

(* Every node sent BVal for its own input. *)
InputsInv ==
    /\ input \in [Correct -> BOOLEAN \cup {None}]
    /\ \A n \in Correct : input[n] # None => input[n] \in sbv[n].sent_bval

(* A BVal of a correct validator goes back to the input of some node. *)
MsgsInv ==
    \A v \in CorrectValidators, b \in BOOLEAN : BVal(v, b) \in msgs => \E m \in Correct : input[m] = b

IInv == NodesInv /\ InputsInv /\ MsgsInv

(* A step of a node leaves the others' part of the invariant alone. *)
LEMMA OtherNodes ==
    ASSUME NEW m \in Correct, NEW s, NEW M, NEW n, n # m, NEW b, NEW new \in SUBSET {BVal(n, b), Aux(n, b)},
           NodeInv(m, s, M), OwnBVal(m, s, M)
    PROVE  NodeInv(m, s, M \cup new) /\ OwnBVal(m, s, M \cup new)
<1> DEFINE P == M \cup new
<1>1. \A c \in BOOLEAN : (Aux(m, c) \in P <=> Aux(m, c) \in M) /\ (BVal(m, c) \in P <=> BVal(m, c) \in M)
  BY MessagesDiffer
<1>2. M \subseteq P
  OBVIOUS
<1> HIDE DEF P
<1>3. Recorded(s, P)
  BY <1>2 DEF NodeInv, Recorded
<1>4. OwnAux(m, s, P)
  BY <1>1 DEF NodeInv, OwnAux
<1>5. OwnBVal(m, s, P)
  BY <1>1 DEF OwnBVal
<1> QED
  BY <1>3, <1>4, <1>5 DEF NodeInv, P

(* The messages that were sent are no part of a node's state. *)
LEMMA Delivered ==
    ASSUME NEW n, NEW s, NEW M, NodeInv(n, s, M), OwnBVal(n, s, M), Echoed(s)
    PROVE  LET t == [s EXCEPT !.out = {}]
           IN  /\ t \in SbvState /\ t.out = {} /\ t.sent_bval = s.sent_bval
               /\ NodeInv(n, t, M) /\ OwnBVal(n, t, M) /\ Echoed(t)
<1> DEFINE t == [s EXCEPT !.out = {}]
<1>1. s \in SbvState
  BY DEF NodeInv
<1>2. /\ t \in SbvState /\ t.out = {} /\ t.sent_bval = s.sent_bval /\ t.bin_values = s.bin_values
      /\ t.received_bval = s.received_bval /\ t.received_aux = s.received_aux /\ t.sbv_output = s.sbv_output
  BY <1>1 DEF SbvState
<1> HIDE DEF t
<1>3. Recorded(t, M) /\ OwnAux(n, t, M) /\ BinValues(t)
  BY <1>2 DEF NodeInv, Recorded, OwnAux, BinValues
<1>4. OutputDue(t) /\ OutputBacked(t)
  BY <1>2 DEF NodeInv, OutputDue, OutputBacked, CountAux
<1>5. OwnBVal(n, t, M) /\ Echoed(t)
  BY <1>2 DEF OwnBVal, Echoed
<1> QED
  BY <1>2, <1>3, <1>4, <1>5 DEF NodeInv, t

(* A node that becomes s after a handler *)
LEMMA BecomesInv ==
    ASSUME NodesInv, NEW n \in Correct, NEW b, NEW s, Becomes(n, s),
           NodeInv(n, s, msgs \cup s.out), OwnBVal(n, s, msgs \cup s.out), Echoed(s),
           s.out \subseteq {BVal(n, b), Aux(n, b)}
    PROVE  /\ NodesInv' /\ sbv'[n].sent_bval = s.sent_bval
           /\ \A m \in Correct : m # n => sbv'[m] = sbv[m]
           /\ msgs' = msgs \cup s.out
<1> DEFINE t == [s EXCEPT !.out = {}]
<1>1. /\ t \in SbvState /\ t.out = {} /\ t.sent_bval = s.sent_bval
      /\ NodeInv(n, t, msgs \cup s.out) /\ OwnBVal(n, t, msgs \cup s.out) /\ Echoed(t)
  BY Delivered
<1>2. sbv' = [sbv EXCEPT ![n] = t] /\ msgs' = msgs \cup s.out
  BY DEF Becomes
<1> HIDE DEF t
<1>3. /\ sbv' \in [Correct -> SbvState] /\ sbv'[n] = t
      /\ \A m \in Correct : m # n => sbv'[m] = sbv[m]
  BY <1>1, <1>2 DEF NodesInv
<1>4. ASSUME NEW m \in Correct
      PROVE  /\ NodeInv(m, sbv'[m], msgs') /\ OwnBVal(m, sbv'[m], msgs') /\ Echoed(sbv'[m])
             /\ sbv'[m].out = {}
  <2>1. CASE m = n
    BY <1>1, <1>2, <1>3, <2>1
  <2>2. CASE m # n
    <3>1. NodeInv(m, sbv[m], msgs) /\ OwnBVal(m, sbv[m], msgs) /\ Echoed(sbv[m]) /\ sbv[m].out = {}
      BY DEF NodesInv
    <3>2. NodeInv(m, sbv[m], msgs \cup s.out) /\ OwnBVal(m, sbv[m], msgs \cup s.out)
      BY <2>2, <3>1, OtherNodes
    <3> QED
      BY <1>2, <1>3, <2>2, <3>1, <3>2
  <2> QED
    BY <2>1, <2>2
<1> QED
  BY <1>1, <1>2, <1>3, <1>4 DEF NodesInv

LEMMA InitInv == Init => IInv
<1> SUFFICES ASSUME Init PROVE IInv
  OBVIOUS
<1>1. SbvNew \in SbvState
  BY NoneAssumption DEF SbvNew, SbvState, EmptyMultimap, BoolMultimap
<1>2. /\ SbvNew.bin_values = {} /\ SbvNew.sent_bval = {} /\ SbvNew.out = {} /\ SbvNew.sbv_output = None
      /\ \A b \in BOOLEAN : SbvNew.received_bval[b] = {} /\ SbvNew.received_aux[b] = {}
  BY DEF SbvNew, EmptyMultimap
<1>3. \A n \in Correct : Recorded(SbvNew, {}) /\ OwnAux(n, SbvNew, {}) /\ OwnBVal(n, SbvNew, {})
  BY <1>2 DEF Recorded, OwnAux, OwnBVal
<1>4. OutputDue(SbvNew) /\ OutputBacked(SbvNew)
  BY <1>2, NoneAssumption DEF OutputDue, OutputBacked
<1>5. BinValues(SbvNew) /\ Echoed(SbvNew)
  <2>1. ~(0 > 2 * num_faulty) /\ ~(0 > num_faulty)
    BY Thresholds
  <2> QED
    BY <1>2, <2>1, FS_EmptySet DEF BinValues, Echoed
<1>6. NodesInv
  BY <1>1, <1>2, <1>3, <1>4, <1>5 DEF Init, NodesInv, NodeInv
<1>7. InputsInv /\ MsgsInv
  BY DEF Init, InputsInv, MsgsInv
<1> QED
  BY <1>6, <1>7 DEF IInv

(* What a correct validator is said to have sent, it sent. *)
LEMMA SentByCorrect ==
    ASSUME NEW v \in CorrectValidators, NEW b
    PROVE  /\ Sent(v, "BVal", b) => BVal(v, b) \in msgs
           /\ Sent(v, "Aux", b) => Aux(v, b) \in msgs
<1>1. BVal(v, b).from = v /\ Aux(v, b).from = v
  BY MessagesDiffer
<1>2. v \notin Faulty
  BY DEF CorrectValidators
<1> QED
  BY <1>1, <1>2, FaultyMsgsAssumption DEF Sent, BVal, Aux

LEMMA NextInv == IInv /\ [Next]_vars => IInv'
<1> SUFFICES ASSUME IInv, [Next]_vars PROVE IInv'
  OBVIOUS
<1>0. NodesInv /\ InputsInv /\ MsgsInv
  BY DEF IInv
<1>1. ASSUME NEW n \in Correct, NEW b \in BOOLEAN, Input(n, b) PROVE IInv'
  <2> DEFINE s == SendBVal(sbv[n], n, b)
  <2>1. NodeInv(n, sbv[n], msgs) /\ OwnBVal(n, sbv[n], msgs) /\ Echoed(sbv[n]) /\ sbv[n].out = {}
    BY <1>0 DEF NodesInv
  <2>2. sbv[n].out \subseteq msgs
    BY <2>1
  <2>3. HasSent(n, b, sbv[n], s, msgs)
    BY <2>1, <2>2, SendBValInv
  <2>4. Becomes(n, s) /\ input[n] = None /\ input' = [input EXCEPT ![n] = b]
    BY <1>1 DEF Input
  <2> HIDE DEF s
  <2>5. /\ NodeInv(n, s, msgs \cup s.out) /\ OwnBVal(n, s, msgs \cup s.out)
        /\ s.sent_bval = sbv[n].sent_bval \cup {b}
        /\ \A c \in BOOLEAN : c # b => s.received_bval[c] = sbv[n].received_bval[c]
        /\ s.out \subseteq {BVal(n, b), Aux(n, b)}
    BY <2>1, <2>3 DEF HasSent
  <2>6. Echoed(s)
    BY <2>1, <2>5 DEF Echoed
  <2>7. /\ NodesInv' /\ sbv'[n].sent_bval = s.sent_bval
        /\ \A m \in Correct : m # n => sbv'[m] = sbv[m]
        /\ msgs' = msgs \cup s.out
    BY <1>0, <2>4, <2>5, <2>6, BecomesInv
  <2>8. /\ input' \in [Correct -> BOOLEAN \cup {None}] /\ input'[n] = b
        /\ \A m \in Correct : m # n => input'[m] = input[m]
    BY <1>0, <2>4 DEF InputsInv
  <2>9. InputsInv'
    BY <1>0, <2>5, <2>7, <2>8 DEF InputsInv
  <2>10. ASSUME NEW v \in CorrectValidators, NEW c \in BOOLEAN, BVal(v, c) \in msgs'
         PROVE  \E m \in Correct : input'[m] = c
    <3>1. CASE BVal(v, c) \in msgs
      <4>1. PICK m \in Correct : input[m] = c
        BY <1>0, <3>1 DEF MsgsInv
      <4>2. m # n
        BY <2>4, <4>1, NoneAssumption
      <4> QED
        BY <2>8, <4>1, <4>2
    <3>2. CASE BVal(v, c) \in s.out
      BY <2>5, <2>8, <3>2, MessagesDiffer
    <3> QED
      BY <2>7, <2>10, <3>1, <3>2
  <2> QED
    BY <2>7, <2>9, <2>10 DEF IInv, MsgsInv
<1>2. ASSUME NEW n \in Correct, NEW b \in BOOLEAN, NEW v \in Validators, ReceiveBVal(n, v, b) PROVE IInv'
  <2> DEFINE s == HandleBVal(sbv[n], n, v, b)
  <2>1. NodeInv(n, sbv[n], msgs) /\ OwnBVal(n, sbv[n], msgs) /\ Echoed(sbv[n]) /\ sbv[n].out = {}
    BY <1>0 DEF NodesInv
  <2>2. Becomes(n, s) /\ input' = input /\ v \notin sbv[n].received_bval[b] /\ Sent(v, "BVal", b)
    BY <1>2 DEF ReceiveBVal
  <2>3. v \in CorrectValidators => BVal(v, b) \in msgs
    BY <2>2, SentByCorrect
  <2>4. Handled(n, b, sbv[n], s, msgs)
    BY <2>1, <2>2, <2>3, HandleBValInv
  <2> HIDE DEF s
  <2>5. /\ NodeInv(n, s, msgs \cup s.out) /\ OwnBVal(n, s, msgs \cup s.out) /\ Echoed(s)
        /\ sbv[n].sent_bval \subseteq s.sent_bval
        /\ s.out \subseteq {BVal(n, b), Aux(n, b)}
        /\ BVal(n, b) \in s.out => \E u \in CorrectValidators : BVal(u, b) \in msgs
    BY <2>4 DEF Handled
  <2>6. /\ NodesInv' /\ sbv'[n].sent_bval = s.sent_bval
        /\ \A m \in Correct : m # n => sbv'[m] = sbv[m]
        /\ msgs' = msgs \cup s.out
    BY <1>0, <2>2, <2>5, BecomesInv
  <2>7. InputsInv'
    BY <1>0, <2>2, <2>5, <2>6 DEF InputsInv
  <2>8. ASSUME NEW u \in CorrectValidators, NEW c \in BOOLEAN, BVal(u, c) \in msgs'
        PROVE  \E m \in Correct : input'[m] = c
    <3>1. CASE BVal(u, c) \in msgs
      BY <1>0, <2>2, <3>1 DEF MsgsInv
    <3>2. CASE BVal(u, c) \in s.out
      <4>1. u = n /\ c = b
        BY <2>5, <3>2, MessagesDiffer
      <4>2. PICK w \in CorrectValidators : BVal(w, b) \in msgs
        BY <2>5, <3>2, <4>1
      <4> QED
        BY <1>0, <2>2, <4>1, <4>2 DEF MsgsInv
    <3> QED
      BY <2>6, <2>8, <3>1, <3>2
  <2> QED
    BY <2>6, <2>7, <2>8 DEF IInv, MsgsInv
<1>3. ASSUME NEW n \in Correct, NEW b \in BOOLEAN, NEW v \in Validators, ReceiveAux(n, v, b) PROVE IInv'
  <2> DEFINE s == HandleAux(sbv[n], v, b)
  <2>1. NodeInv(n, sbv[n], msgs) /\ OwnBVal(n, sbv[n], msgs) /\ Echoed(sbv[n]) /\ sbv[n].out = {}
    BY <1>0 DEF NodesInv
  <2>2. Becomes(n, s) /\ input' = input /\ v \notin sbv[n].received_aux[b] /\ Sent(v, "Aux", b)
    BY <1>3 DEF ReceiveAux
  <2>3. v \in CorrectValidators => Aux(v, b) \in msgs
    BY <2>2, SentByCorrect
  <2>4. /\ NodeInv(n, s, msgs) /\ s.received_bval = sbv[n].received_bval /\ s.sent_bval = sbv[n].sent_bval
        /\ s.out = sbv[n].out
    BY <2>1, <2>2, <2>3, HandleAuxInv
  <2> HIDE DEF s
  <2>5. msgs \cup s.out = msgs /\ s.out \subseteq {BVal(n, b), Aux(n, b)}
    BY <2>1, <2>4
  <2>6. OwnBVal(n, s, msgs) /\ Echoed(s)
    BY <2>1, <2>4 DEF OwnBVal, Echoed
  <2>7. /\ NodesInv' /\ sbv'[n].sent_bval = s.sent_bval
        /\ \A m \in Correct : m # n => sbv'[m] = sbv[m]
        /\ msgs' = msgs \cup s.out
    BY <1>0, <2>2, <2>4, <2>5, <2>6, BecomesInv
  <2>8. InputsInv' /\ MsgsInv'
    BY <1>0, <2>2, <2>4, <2>5, <2>7 DEF InputsInv, MsgsInv
  <2> QED
    BY <2>7, <2>8 DEF IInv
<1>4. CASE UNCHANGED vars
  BY <1>0, <1>4 DEF vars, IInv, NodesInv, InputsInv, MsgsInv
<1> QED
  BY <1>1, <1>2, <1>3, <1>4 DEF Next

LEMMA Invariant == Spec => []IInv
BY InitInv, NextInv, PTL DEF Spec
-----------------------------------------------------------------------------
(* sbv_broadcast.rs: two nodes that output singletons output the same one, *)
(* since N - f Aux for each share a correct validator's, who sends one.    *)
THEOREM SingletonsAgreeTheorem == Spec => []SingletonsAgree
<1>1. IInv => SingletonsAgree
  <2> SUFFICES ASSUME IInv, NEW m \in Correct, NEW n \in Correct, NEW v \in BOOLEAN, NEW w \in BOOLEAN,
                      sbv[m].sbv_output = {v}, sbv[n].sbv_output = {w}
               PROVE  v = w
    BY DEF SingletonsAgree
  <2>1. \A k \in Correct : NodeInv(k, sbv[k], msgs)
    BY DEF IInv, NodesInv
  <2>2. /\ Cardinality(sbv[m].received_aux[v]) >= num_correct
        /\ Cardinality(sbv[n].received_aux[w]) >= num_correct
    BY <2>1 DEF NodeInv, OutputBacked
  <2>3. sbv[m].received_aux[v] \in SUBSET Validators /\ sbv[n].received_aux[w] \in SUBSET Validators
    BY <2>1 DEF NodeInv, SbvState, BoolMultimap
  <2>4. PICK u \in sbv[m].received_aux[v] \cap sbv[n].received_aux[w] : u \in CorrectValidators
    BY <2>2, <2>3, QuorumIntersection
  <2>5. Aux(u, v) \in msgs /\ Aux(u, w) \in msgs
    BY <2>1, <2>4 DEF NodeInv, Recorded
  <2>6. u \in Correct /\ u \in Validators
    BY <2>4, CorrectNodes
  <2> QED
    BY <2>1, <2>5, <2>6 DEF NodeInv, OwnAux
<1> QED
  BY <1>1, Invariant, PTL

(* binary_agreement/mod.rs: the values that a node believes in were input  *)
(* by correct nodes, since 2f + 1 BVal include a correct validator's.      *)
THEOREM JustifiedTheorem == Spec => []Justified
<1>1. IInv => Justified
  <2> SUFFICES ASSUME IInv, NEW n \in Correct, NEW b \in sbv[n].bin_values
               PROVE  \E m \in Correct : input[m] = b
    BY DEF Justified
  <2>1. NodeInv(n, sbv[n], msgs)
    BY DEF IInv, NodesInv
  <2>2. b \in BOOLEAN /\ sbv[n].received_bval[b] \in SUBSET Validators
    BY <2>1 DEF NodeInv, SbvState, BoolMultimap
  <2>3. Cardinality(sbv[n].received_bval[b]) > 2 * num_faulty
    BY <2>1, <2>2 DEF NodeInv, BinValues
  <2>4. Cardinality(sbv[n].received_bval[b]) > num_faulty
    BY <2>2, <2>3, Counting, Thresholds
  <2>5. PICK v \in sbv[n].received_bval[b] : v \in CorrectValidators
    BY <2>2, <2>4, CorrectMember
  <2>6. BVal(v, b) \in msgs
    BY <2>1, <2>2, <2>5 DEF NodeInv, Recorded
  <2> QED
    BY <2>2, <2>5, <2>6 DEF IInv, MsgsInv
<1> QED
  BY <1>1, Invariant, PTL
-----------------------------------------------------------------------------
(* All that correct validators have sent is on every node's record. *)
AllDelivered ==
    \A n \in Correct, b \in BOOLEAN : \A v \in CorrectValidators :
        /\ BVal(v, b) \in msgs => v \in sbv[n].received_bval[b]
        /\ Aux(v, b) \in msgs => v \in sbv[n].received_aux[b]

(* Then a BVal that f + 1 correct validators have sent was sent by all of  *)
(* them, and every node believes in it.                                    *)
LEMMA AllBelieve ==
    ASSUME IInv, AllDelivered, NEW b \in BOOLEAN, NEW S \in SUBSET CorrectValidators, Cardinality(S) > num_faulty,
           \A v \in S : BVal(v, b) \in msgs
    PROVE  \A n \in Correct : b \in sbv[n].bin_values
<1>1. \A n \in Correct : NodeInv(n, sbv[n], msgs) /\ OwnBVal(n, sbv[n], msgs) /\ Echoed(sbv[n])
  BY DEF IInv, NodesInv
<1>2. \A n \in Correct : sbv[n].received_bval[b] \in SUBSET Validators
  BY <1>1 DEF NodeInv, SbvState, BoolMultimap
<1>3. ASSUME NEW n \in Correct PROVE b \in sbv[n].sent_bval
  <2>1. S \subseteq sbv[n].received_bval[b] /\ S \in SUBSET Validators
    BY CorrectNodes DEF AllDelivered
  <2>2. /\ Cardinality(S) <= Cardinality(sbv[n].received_bval[b])
        /\ Cardinality(S) \in Nat /\ Cardinality(sbv[n].received_bval[b]) \in Nat
    BY <1>2, <2>1, Counting
  <2>3. Cardinality(sbv[n].received_bval[b]) > num_faulty
    BY <2>2, Thresholds
  <2> QED
    BY <1>1, <2>3 DEF Echoed
<1>4. \A v \in CorrectValidators : BVal(v, b) \in msgs
  BY <1>1, <1>3, CorrectNodes DEF OwnBVal, NodeInv, Recorded
<1>5. ASSUME NEW n \in Correct PROVE b \in sbv[n].bin_values
  <2>1. CorrectValidators \subseteq sbv[n].received_bval[b] /\ CorrectValidators \in SUBSET Validators
    BY <1>4, CorrectNodes DEF AllDelivered
  <2>2. /\ Cardinality(CorrectValidators) <= Cardinality(sbv[n].received_bval[b])
        /\ Cardinality(CorrectValidators) \in Nat /\ Cardinality(sbv[n].received_bval[b]) \in Nat
    BY <1>2, <2>1, Counting
  <2>3. Cardinality(sbv[n].received_bval[b]) > 2 * num_faulty
    BY <2>2, EnoughCorrect, Thresholds
  <2> QED
    BY <1>1, <2>3 DEF NodeInv, BinValues
<1> QED
  BY <1>5

(* Of the inputs of N - f correct validators, one value has f + 1. *)
LEMMA SomeoneBelieves ==
    ASSUME IInv, AllDelivered, \A n \in Correct : input[n] # None
    PROVE  \E b \in BOOLEAN : \A n \in Correct : b \in sbv[n].bin_values
<1> DEFINE In(b) == {v \in CorrectValidators : input[v] = b}
           T == In(TRUE)
           F == In(FALSE)
<1>1. \A n \in Correct : input[n] \in BOOLEAN /\ input[n] \in sbv[n].sent_bval
  BY DEF IInv, InputsInv
<1>2. T \in SUBSET CorrectValidators /\ F \in SUBSET CorrectValidators /\ T \cup F = CorrectValidators
  BY <1>1, CorrectNodes
<1>3. \A v \in T : BVal(v, TRUE) \in msgs
  BY <1>1, CorrectNodes DEF IInv, NodesInv, NodeInv, OwnBVal, Recorded
<1>4. \A v \in F : BVal(v, FALSE) \in msgs
  BY <1>1, CorrectNodes DEF IInv, NodesInv, NodeInv, OwnBVal, Recorded
<1> HIDE DEF T, F
<1>5. Cardinality(T) > num_faulty \/ Cardinality(F) > num_faulty
  <2>1. T \in SUBSET Validators /\ F \in SUBSET Validators
    BY <1>2, CorrectNodes
  <2>2. /\ IsFiniteSet(T) /\ IsFiniteSet(F) /\ Cardinality(T) \in Nat /\ Cardinality(F) \in Nat
        /\ Cardinality(T \cap F) \in Nat
    BY <2>1, Counting
  <2>3. Cardinality(CorrectValidators) = Cardinality(T) + Cardinality(F) - Cardinality(T \cap F)
    BY <1>2, <2>2, FS_Union
  <2> QED
    BY <2>2, <2>3, EnoughCorrect, Thresholds
<1>6. CASE Cardinality(T) > num_faulty
  BY <1>2, <1>3, <1>6, AllBelieve
<1>7. CASE Cardinality(F) > num_faulty
  BY <1>2, <1>4, <1>7, AllBelieve
<1> QED
  BY <1>5, <1>6, <1>7

LEMMA SameBeliefs ==
    ASSUME IInv, AllDelivered, NEW n \in Correct, NEW m \in Correct, NEW b \in sbv[n].bin_values
    PROVE  b \in sbv[m].bin_values
<1> DEFINE S == sbv[n].received_bval[b]
           C == S \ Faulty
<1>1. NodeInv(n, sbv[n], msgs)
  BY DEF IInv, NodesInv
<1>2. b \in BOOLEAN /\ S \in SUBSET Validators
  BY <1>1 DEF NodeInv, SbvState, BoolMultimap
<1>3. Cardinality(S) > 2 * num_faulty
  BY <1>1, <1>2 DEF NodeInv, BinValues
<1>4. C \in SUBSET CorrectValidators
  BY <1>2 DEF CorrectValidators
<1>5. \A v \in C : BVal(v, b) \in msgs
  BY <1>1, <1>2, <1>4 DEF NodeInv, Recorded
<1>6. Cardinality(C) > num_faulty
  <2>1. Cardinality(C) \in Nat /\ Cardinality(S) \in Nat /\ Cardinality(C) >= Cardinality(S) - num_faulty
    BY <1>2, WithoutFaulty, Counting
  <2> HIDE DEF C, S
  <2> QED
    BY <1>3, <2>1, Thresholds
<1> QED
  BY <1>2, <1>4, <1>5, <1>6, AllBelieve

(* Every correct validator's Aux counts, so that there are N - f. *)
LEMMA AllOutput ==
    ASSUME IInv, AllDelivered, NEW n \in Correct, \A m \in Correct : sbv[m].bin_values # {}
    PROVE  sbv[n].sbv_output # None
<1> DEFINE B == sbv[n].bin_values
           Counted(b) == {v \in sbv[n].received_aux[b] : b \in B}
           T == Counted(TRUE)
           F == Counted(FALSE)
<1>1. \A m \in Correct : NodeInv(m, sbv[m], msgs)
  BY DEF IInv, NodesInv
<1>2. /\ sbv[n] \in SbvState /\ B \subseteq BOOLEAN
      /\ \A b \in BOOLEAN : sbv[n].received_aux[b] \in SUBSET Validators
  BY <1>1 DEF NodeInv, SbvState, BoolMultimap
<1>3. ASSUME NEW v \in CorrectValidators PROVE v \in T \cup F
  <2>1. v \in Correct /\ v \in Validators
    BY CorrectNodes
  <2>2. PICK b \in sbv[v].bin_values : v \in sbv[v].received_aux[b]
    BY <1>1, <2>1 DEF NodeInv, OwnAux
  <2>3. b \in B /\ b \in BOOLEAN
    BY <1>2, <2>1, <2>2, SameBeliefs
  <2>4. Aux(v, b) \in msgs
    BY <1>1, <2>1, <2>2, <2>3 DEF NodeInv, Recorded
  <2>5. v \in sbv[n].received_aux[b]
    BY <2>3, <2>4 DEF AllDelivered
  <2> QED
    BY <2>3, <2>5
<1>4. T \in SUBSET Validators /\ F \in SUBSET Validators
  BY <1>2
<1>5. Cardinality(T) = AuxFor(sbv[n], TRUE)
  <2>1. CASE TRUE \in B
    <3>1. T = sbv[n].received_aux[TRUE]
      BY <2>1
    <3> QED
      BY <2>1, <3>1 DEF AuxFor
  <2>2. CASE TRUE \notin B
    <3>1. T = {}
      BY <2>2
    <3> QED
      BY <2>2, <3>1, FS_EmptySet DEF AuxFor
  <2> QED
    BY <2>1, <2>2
<1>6. Cardinality(F) = AuxFor(sbv[n], FALSE)
  <2>1. CASE FALSE \in B
    <3>1. F = sbv[n].received_aux[FALSE]
      BY <2>1
    <3> QED
      BY <2>1, <3>1 DEF AuxFor
  <2>2. CASE FALSE \notin B
    <3>1. F = {}
      BY <2>2
    <3> QED
      BY <2>2, <3>1, FS_EmptySet DEF AuxFor
  <2> QED
    BY <2>1, <2>2
<1> HIDE DEF T, F
<1>7. /\ IsFiniteSet(T) /\ IsFiniteSet(F) /\ Cardinality(T) \in Nat /\ Cardinality(F) \in Nat
      /\ Cardinality(T \cap F) \in Nat /\ Cardinality(T \cup F) \in Nat
  BY <1>4, Counting
<1>8. Cardinality(T \cup F) = Cardinality(T) + Cardinality(F) - Cardinality(T \cap F)
  BY <1>7, FS_Union
<1>9. Cardinality(CorrectValidators) <= Cardinality(T \cup F)
  <2>1. CorrectValidators \in SUBSET Validators /\ T \cup F \in SUBSET Validators /\ CorrectValidators \subseteq T \cup F
    BY <1>3, <1>4, CorrectNodes
  <2> QED
    BY <2>1, Counting
<1>10. CountAux(sbv[n]) = Cardinality(T) + Cardinality(F)
  BY <1>2, <1>5, <1>6, CountAuxFacts
<1>11. CountAux(sbv[n]) >= num_correct
  BY <1>7, <1>8, <1>9, <1>10, EnoughCorrect, Thresholds
<1> QED
  BY <1>1, <1>11 DEF NodeInv, OutputDue

(* binary_agreement/mod.rs: with every input given and every message of    *)
(* the correct delivered, all nodes have output and believe in the same,   *)
(* whatever the faulty sent and to whom.                                   *)
THEOREM EveryoneOutputsTheorem == Spec => []EveryoneOutputs
<1>1. IInv => EveryoneOutputs
  <2> SUFFICES ASSUME IInv, \A n \in Correct : input[n] # None,
                      \A n \in Correct, b \in BOOLEAN : \A v \in CorrectValidators \ {n} :
                         /\ BVal(v, b) \in msgs => v \in sbv[n].received_bval[b]
                         /\ Aux(v, b) \in msgs => v \in sbv[n].received_aux[b]
               PROVE  \A m, n \in Correct : sbv[n].sbv_output # None /\ sbv[n].bin_values = sbv[m].bin_values
    BY DEF EveryoneOutputs, BVal, Aux
  <2>1. \A n \in Correct : NodeInv(n, sbv[n], msgs) /\ OwnBVal(n, sbv[n], msgs)
    BY DEF IInv, NodesInv
  <2>2. ASSUME NEW n \in Correct, NEW b \in BOOLEAN, NEW v \in CorrectValidators
        PROVE  /\ BVal(v, b) \in msgs => v \in sbv[n].received_bval[b]
               /\ Aux(v, b) \in msgs => v \in sbv[n].received_aux[b]
    <3>1. CASE v = n
      BY <2>1, <3>1, CorrectNodes DEF NodeInv, OwnAux, OwnBVal
    <3>2. CASE v # n
      BY <3>2
    <3> QED
      BY <3>1, <3>2
  <2>3. AllDelivered
    BY <2>2 DEF AllDelivered
  <2>4. \A m \in Correct : sbv[m].bin_values # {}
    BY <2>3, SomeoneBelieves
  <2>5. \A m, n \in Correct : sbv[n].bin_values \subseteq sbv[m].bin_values
    BY <2>3, SameBeliefs
  <2>6. \A n \in Correct : sbv[n].sbv_output # None
    BY <2>3, <2>4, AllOutput
  <2>7. ASSUME NEW m \in Correct, NEW n \in Correct PROVE sbv[n].bin_values = sbv[m].bin_values
    <3>1. sbv[n].bin_values \subseteq sbv[m].bin_values /\ sbv[m].bin_values \subseteq sbv[n].bin_values
      BY <2>5
    <3> QED
      BY <3>1
  <2> QED
    BY <2>6, <2>7
<1> QED
  BY <1>1, Invariant, PTL
=============================================================================
