--------------------------- MODULE BroadcastProof ---------------------------
(***************************************************************************)
(* Safety of Broadcast for any number of validators, observers and roots,  *)
(* with up to f arbitrary validators, f being the greatest number below a  *)
(* third of N, and a decoder of which only CodingAssumption is known.      *)
(***************************************************************************)
EXTENDS Broadcast, NetworkInfoProof

-----------------------------------------------------------------------------
(* The network's messages are told apart by kind, sender, addressee, root. *)
LEMMA MessagesDiffer ==
    \A a, b, x, y :
        /\ Echo(a, x) = Echo(b, y) <=> a = b /\ x = y
        /\ Ready(a, x) = Ready(b, y) <=> a = b /\ x = y
        /\ Value(a, x) = Value(b, y) <=> a = b /\ x = y
        /\ Echo(a, x) # Ready(b, y)
        /\ Echo(a, x) # Value(b, y)
        /\ Ready(a, x) # Value(b, y)
BY DEF Echo, Ready, Value

LEMMA MessageTypes ==
    ASSUME NEW r \in Roots
    PROVE  /\ \A v \in Validators : Value(v, r) \in Message
           /\ \A v \in CorrectValidators : Echo(v, r) \in Message /\ Ready(v, r) \in Message
BY DEF Message, Echo, Ready, Value

-----------------------------------------------------------------------------
(* The inductive invariant *)

(* The validators that may have echoed r, as far as anyone can tell. *)
Echoed(E, r) == {v \in Validators : v \in Faulty \/ E[v][v] = r}

(* A correct validator's own Echo is on record iff sent, and is the only   *)
(* one of it that anyone holds.                                            *)
EchoInv ==
    /\ \A s \in CorrectValidators : echo_sent[s] <=> echos[s][s] # None
    /\ \A s \in CorrectValidators, r \in Roots : Echo(s, r) \in msgs <=> echos[s][s] = r
    /\ \A n \in Correct, s \in CorrectValidators :
          echos[n][s] # None => echos[n][s] = echos[s][s]

(* The same for its Ready, which it sends only for a root that N - f       *)
(* validators may have echoed.                                             *)
ReadyInv ==
    /\ \A s \in CorrectValidators : readys[s][s] # None => ready_sent[s]
    /\ \A s \in CorrectValidators, r \in Roots : Ready(s, r) \in msgs => readys[s][s] = r
    /\ \A n \in Correct, s \in CorrectValidators :
          readys[n][s] # None => readys[n][s] = readys[s][s]
    /\ \A s \in CorrectValidators, r \in Roots :
          readys[s][s] = r => Cardinality(Echoed(echos, r)) >= num_correct

(* An output rests on 2f + 1 Readys. *)
OutputInv ==
    \A n \in Correct :
        output[n] # None => Cardinality(From(readys[n], output[n])) > 2 * num_faulty

(* A correct proposer's input is the only root that correct validators     *)
(* get to echo, and it does not send itself a Value.                       *)
InputInv ==
    Proposer \in Correct =>
        /\ value_sent = None => ~echo_sent[Proposer]
        /\ \A v \in Validators, r \in Roots :
              Value(v, r) \in msgs => r = value_sent /\ v # Proposer
        /\ \A s \in CorrectValidators : echos[s][s] \in {None, value_sent}

IInv == TypeOK /\ EchoInv /\ ReadyInv /\ OutputInv /\ InputInv

-----------------------------------------------------------------------------
(* What a step does to the tables *)

NewEchos(n, s, r) == [echos[n] EXCEPT ![s] = r]
NewReadys(n, s, r) == [readys[n] EXCEPT ![s] = r]

EchoSends(n, s, r) == EchoQuorum(n, NewEchos(n, s, r), r) /\ n \in Validators
ReadySends(n, s, r) == ReadyQuorum(n, NewReadys(n, s, r), r) /\ n \in Validators

(* What compute_output may do, tables after the step given. *)
OutputStep(n, ech, rdy, r) ==
    /\ \/ output' = output
       \/ /\ output' = [output EXCEPT ![n] = r]
          /\ Cardinality(From(rdy, r)) > 2 * num_faulty
    /\ \/ faults' = faults
       \/ /\ faults' = faults \cup {Proposer}
          /\ Cardinality(From(rdy, r)) > 2 * num_faulty
          /\ Cardinality(From(ech, r)) >= data_shard_count
          /\ From(ech, r) \notin Rebuilds[r]

(* handle_echo from its insertion on, table by table. *)
LEMMA RecordEchoFacts ==
    ASSUME TypeOK,
           NEW n \in Correct, NEW s \in Validators, NEW r \in Roots, NEW M,
           RecordEcho(n, s, r, M)
    PROVE  /\ \A m \in Correct, v \in Validators :
                 echos'[m][v] = IF m = n /\ v = s THEN r ELSE echos[m][v]
           /\ \A m \in Correct, v \in Validators :
                 readys'[m][v] = IF EchoSends(n, s, r) /\ m = n /\ v = n THEN r ELSE readys[m][v]
           /\ \A m \in Correct :
                 ready_sent'[m] <=> (ready_sent[m] \/ (m = n /\ EchoQuorum(n, NewEchos(n, s, r), r)))
           /\ msgs' = msgs \cup M \cup (IF EchoSends(n, s, r) THEN {Ready(n, r)} ELSE {})
           /\ OutputStep(n, echos'[n], readys'[n], r)
           /\ echos' \in [Correct -> [Validators -> Roots \cup {None}]]
           /\ readys' \in [Correct -> [Validators -> Roots \cup {None}]]
           /\ ready_sent' \in [Correct -> BOOLEAN]
<1> DEFINE ech == NewEchos(n, s, r)
           rdy == IF EchoSends(n, s, r) THEN [readys[n] EXCEPT ![n] = r] ELSE readys[n]
<1>1. /\ echos' = [echos EXCEPT ![n] = ech]
      /\ readys' = [readys EXCEPT ![n] = rdy]
      /\ ready_sent' = [ready_sent EXCEPT ![n] = @ \/ EchoQuorum(n, ech, r)]
      /\ msgs' = msgs \cup M \cup (IF EchoSends(n, s, r) THEN {Ready(n, r)} ELSE {})
      /\ \/ UNCHANGED <<output, faults>>
         \/ ComputeOutput(n, ech, rdy, r)
  BY DEF RecordEcho, NewEchos, EchoSends, is_validator
<1>2. ech \in [Validators -> Roots \cup {None}] /\ rdy \in [Validators -> Roots \cup {None}]
  BY DEF TypeOK, NewEchos
<1>3. echos'[n] = ech /\ readys'[n] = rdy
  BY <1>1, <1>2 DEF TypeOK
<1>4. OutputStep(n, ech, rdy, r)
  BY <1>1 DEF ComputeOutput, MayOutput, Count, OutputStep
<1>5. /\ \A v \in Validators : ech[v] = IF v = s THEN r ELSE echos[n][v]
      /\ \A v \in Validators :
            rdy[v] = IF EchoSends(n, s, r) /\ v = n THEN r ELSE readys[n][v]
  BY DEF TypeOK, NewEchos
<1> HIDE DEF ech, rdy
<1>6. /\ echos' \in [Correct -> [Validators -> Roots \cup {None}]]
      /\ readys' \in [Correct -> [Validators -> Roots \cup {None}]]
  BY <1>1, <1>2 DEF TypeOK
<1>7. ready_sent' \in [Correct -> BOOLEAN]
  BY <1>1 DEF TypeOK, EchoQuorum
<1>8. \A m \in Correct :
        ready_sent'[m] <=> (ready_sent[m] \/ (m = n /\ EchoQuorum(n, ech, r)))
  BY <1>1 DEF TypeOK, EchoQuorum
<1>9. /\ \A m \in Correct : m # n => echos'[m] = echos[m] /\ readys'[m] = readys[m]
  BY <1>1 DEF TypeOK
<1> QED
  BY <1>1, <1>3, <1>4, <1>5, <1>6, <1>7, <1>8, <1>9 DEF ech

(* handle_ready, table by table. *)
LEMMA HandleReadyFacts ==
    ASSUME TypeOK,
           NEW n \in Correct, NEW s \in Validators, NEW r \in Roots,
           HandleReady(n, s, r)
    PROVE  /\ s # n /\ readys[n][s] = None /\ ReadyArrives(s, r)
           /\ UNCHANGED <<value_sent, echo_sent, echos>>
           /\ \A m \in Correct, v \in Validators :
                 readys'[m][v] = IF m = n /\ (v = s \/ (v = n /\ ReadySends(n, s, r)))
                                   THEN r ELSE readys[m][v]
           /\ \A m \in Correct :
                 ready_sent'[m] <=> (ready_sent[m] \/ (m = n /\ ReadyQuorum(n, NewReadys(n, s, r), r)))
           /\ msgs' = msgs \cup (IF ReadySends(n, s, r) THEN {Ready(n, r)} ELSE {})
           /\ OutputStep(n, echos'[n], readys'[n], r)
           /\ readys' \in [Correct -> [Validators -> Roots \cup {None}]]
           /\ ready_sent' \in [Correct -> BOOLEAN]
<1> DEFINE rdy == NewReadys(n, s, r)
           rdy2 == IF ReadySends(n, s, r) THEN [rdy EXCEPT ![n] = r] ELSE rdy
<1>1. /\ s # n /\ readys[n][s] = None /\ ReadyArrives(s, r)
      /\ UNCHANGED <<value_sent, echo_sent, echos>>
      /\ readys' = [readys EXCEPT ![n] = rdy2]
      /\ ready_sent' = [ready_sent EXCEPT ![n] = @ \/ ReadyQuorum(n, rdy, r)]
      /\ msgs' = msgs \cup (IF ReadySends(n, s, r) THEN {Ready(n, r)} ELSE {})
      /\ ComputeOutput(n, echos[n], rdy2, r)
  BY DEF HandleReady, NewReadys, ReadySends, is_validator
<1>2. rdy2 \in [Validators -> Roots \cup {None}]
  BY DEF TypeOK, NewReadys
<1>3. readys'[n] = rdy2
  BY <1>1, <1>2 DEF TypeOK
<1>4. OutputStep(n, echos[n], rdy2, r)
  BY <1>1 DEF ComputeOutput, MayOutput, Count, OutputStep
<1>5. \A v \in Validators :
         rdy2[v] = IF v = s \/ (v = n /\ ReadySends(n, s, r)) THEN r ELSE readys[n][v]
  BY DEF TypeOK, NewReadys
<1> HIDE DEF rdy, rdy2
<1>6. readys' \in [Correct -> [Validators -> Roots \cup {None}]]
  BY <1>1, <1>2 DEF TypeOK
<1>7. ready_sent' \in [Correct -> BOOLEAN]
  BY <1>1 DEF TypeOK, ReadyQuorum
<1>8. \A m \in Correct :
        ready_sent'[m] <=> (ready_sent[m] \/ (m = n /\ ReadyQuorum(n, rdy, r)))
  BY <1>1 DEF TypeOK, ReadyQuorum
<1>9. \A m \in Correct : m # n => readys'[m] = readys[m]
  BY <1>1 DEF TypeOK
<1> QED
  BY <1>1, <1>3, <1>4, <1>5, <1>6, <1>7, <1>8, <1>9 DEF rdy

-----------------------------------------------------------------------------
(* How the steps preserve the invariant *)

LEMMA CorrectSets == 
    /\ CorrectValidators \subseteq Correct /\ CorrectValidators \subseteq Validators
    /\ Correct \cap Validators = CorrectValidators
    /\ \A v \in Validators : v \notin Faulty => v \in CorrectValidators
    /\ Proposer \in Correct => Proposer \in CorrectValidators
BY CodingAssumption, NodesAssumption DEF Correct, CorrectValidators

LEMMA RootNotNone == None \notin Roots /\ HonestRoots \subseteq Roots
BY CodingAssumption

(* When readys only grow, outputs keep their Readys. *)
LEMMA OutputStepInv ==
    ASSUME TypeOK, OutputInv,
           NEW n \in Correct, NEW r \in Roots,
           readys' \in [Correct -> [Validators -> Roots \cup {None}]],
           \A m \in Correct, v \in Validators :
               readys[m][v] # None => readys'[m][v] = readys[m][v],
           OutputStep(n, echos'[n], readys'[n], r)
    PROVE  OutputInv' /\ output' \in [Correct -> Roots \cup {None}] /\ faults' \subseteq Validators
<1>1. output' \in [Correct -> Roots \cup {None}] /\ faults' \subseteq Validators
  BY CodingAssumption DEF OutputStep, TypeOK
<1>2. ASSUME NEW m \in Correct, output'[m] # None
      PROVE  Cardinality(From(readys'[m], output'[m])) > 2 * num_faulty
  <2>1. CASE output'[m] = output[m]
    <3>1. From(readys[m], output[m]) \subseteq From(readys'[m], output[m])
      BY <1>2, <2>1 DEF From
    <3>2. /\ Cardinality(From(readys[m], output[m])) <= Cardinality(From(readys'[m], output[m]))
          /\ Cardinality(From(readys[m], output[m])) \in Nat
          /\ Cardinality(From(readys'[m], output[m])) \in Nat
      BY <3>1, Counting DEF From
    <3>3. Cardinality(From(readys[m], output[m])) > 2 * num_faulty
      BY <1>2, <2>1 DEF OutputInv
    <3> QED
      BY <2>1, <3>2, <3>3, Thresholds
  <2>2. CASE output'[m] # output[m]
    <3>1. m = n /\ output'[m] = r /\ Cardinality(From(readys'[n], r)) > 2 * num_faulty
      BY <2>2 DEF OutputStep, TypeOK
    <3> QED
      BY <3>1
  <2> QED
    BY <2>1, <2>2
<1>3. OutputInv'
  BY <1>2 DEF OutputInv, From
<1> QED
  BY <1>1, <1>3

(* Recording an Echo that is our own or comes from its sender. *)
LEMMA RecordEchoInv ==
    ASSUME IInv,
           NEW n \in Correct, NEW s \in Validators, NEW r \in Roots, NEW M \in SUBSET Message,
           RecordEcho(n, s, r, M),
           echos[n][s] = None,
           s # n /\ s \in CorrectValidators => echos[s][s] = r,
           \A a, x : Echo(a, x) \in M <=> (s = n /\ a = n /\ x = r),
           \A a, x : Ready(a, x) \notin M,
           echo_sent' \in [Correct -> BOOLEAN],
           \A m \in Correct : echo_sent'[m] <=> (echo_sent[m] \/ (m = n /\ s = n)),
           value_sent' \in HonestRoots \cup {None}
    PROVE  TypeOK' /\ EchoInv' /\ ReadyInv' /\ OutputInv'
<1> USE CorrectSets, RootNotNone
<1>0. /\ \A m \in Correct, v \in Validators :
            echos'[m][v] = IF m = n /\ v = s THEN r ELSE echos[m][v]
      /\ \A m \in Correct, v \in Validators :
            readys'[m][v] = IF EchoSends(n, s, r) /\ m = n /\ v = n THEN r ELSE readys[m][v]
      /\ \A m \in Correct :
            ready_sent'[m] <=> (ready_sent[m] \/ (m = n /\ EchoQuorum(n, NewEchos(n, s, r), r)))
      /\ msgs' = msgs \cup M \cup (IF EchoSends(n, s, r) THEN {Ready(n, r)} ELSE {})
      /\ OutputStep(n, echos'[n], readys'[n], r)
      /\ echos' \in [Correct -> [Validators -> Roots \cup {None}]]
      /\ readys' \in [Correct -> [Validators -> Roots \cup {None}]]
      /\ ready_sent' \in [Correct -> BOOLEAN]
  BY RecordEchoFacts DEF IInv
<1>1. EchoSends(n, s, r) =>
        /\ n \in CorrectValidators /\ ~ready_sent[n] /\ readys[n][n] = None
        /\ Cardinality(From(NewEchos(n, s, r), r)) >= num_correct
  BY DEF EchoSends, EchoQuorum, Count, IInv, ReadyInv
<1>2. /\ \A a \in CorrectValidators, x \in Roots :
            Echo(a, x) \in msgs' <=> Echo(a, x) \in msgs \/ (s = n /\ a = n /\ x = r)
      /\ \A a \in CorrectValidators, x \in Roots :
            Ready(a, x) \in msgs' <=> Ready(a, x) \in msgs \/ (EchoSends(n, s, r) /\ a = n /\ x = r)
  <2>1. CASE EchoSends(n, s, r)
    <3>1. msgs' = msgs \cup M \cup {Ready(n, r)}
      BY <1>0, <2>1
    <3> QED
      BY <2>1, <3>1, MessagesDiffer
  <2>2. CASE ~EchoSends(n, s, r)
    <3>1. msgs' = msgs \cup M
      BY <1>0, <2>2
    <3> QED
      BY <2>2, <3>1
  <2> QED
    BY <2>1, <2>2
<1>3. EchoInv'
  <2>1. \A q \in CorrectValidators : echo_sent'[q] <=> echos'[q][q] # None
    BY <1>0 DEF IInv, EchoInv
  <2>2. \A q \in CorrectValidators, x \in Roots : Echo(q, x) \in msgs' <=> echos'[q][q] = x
    BY <1>0, <1>2 DEF IInv, EchoInv
  <2>3. \A m \in Correct, q \in CorrectValidators :
           echos'[m][q] # None => echos'[m][q] = echos'[q][q]
    BY <1>0 DEF IInv, EchoInv
  <2> QED
    BY <2>1, <2>2, <2>3 DEF EchoInv, Echo
<1>4. \A x \in Roots : Echoed(echos, x) \subseteq Echoed(echos', x)
  BY <1>0 DEF Echoed
<1>5. \A x \in Roots : Cardinality(Echoed(echos, x)) >= num_correct => Cardinality(Echoed(echos', x)) >= num_correct
  <2>1. \A x : Echoed(echos, x) \in SUBSET Validators /\ Echoed(echos', x) \in SUBSET Validators
    BY DEF Echoed
  <2> QED
    BY <1>4, <2>1, Counting, Thresholds
<1>6. ReadyInv'
  <2>1. \A q \in CorrectValidators : readys'[q][q] # None => ready_sent'[q]
    BY <1>0, <1>1 DEF IInv, ReadyInv, EchoSends
  <2>2. \A q \in CorrectValidators, x \in Roots : Ready(q, x) \in msgs' => readys'[q][q] = x
    BY <1>0, <1>1, <1>2 DEF IInv, ReadyInv
  <2>3. \A m \in Correct, q \in CorrectValidators :
           readys'[m][q] # None => readys'[m][q] = readys'[q][q]
    <3>1. CASE EchoSends(n, s, r)
      <4>1. \A m \in Correct, v \in Validators :
               readys'[m][v] = IF m = n /\ v = n THEN r ELSE readys[m][v]
        BY <1>0, <3>1
      <4>2. \A m \in Correct : readys[m][n] = None
        BY <1>1, <3>1 DEF IInv, ReadyInv
      <4>3. \A m \in Correct, q \in CorrectValidators :
               readys[m][q] # None => readys[m][q] = readys[q][q]
        BY DEF IInv, ReadyInv
      <4> QED
        BY <4>1, <4>2, <4>3
    <3>2. CASE ~EchoSends(n, s, r)
      BY <1>0, <3>2 DEF IInv, ReadyInv
    <3> QED
      BY <3>1, <3>2
  <2>4. ASSUME NEW q \in CorrectValidators, NEW x \in Roots, readys'[q][q] = x
        PROVE  Cardinality(Echoed(echos', x)) >= num_correct
    <3>1. CASE readys[q][q] = x
      BY <3>1, <1>5 DEF IInv, ReadyInv
    <3>2. CASE readys[q][q] # x
      <4>1. EchoSends(n, s, r) /\ x = r
        BY <1>0, <2>4, <3>2
      <4>2. From(NewEchos(n, s, r), r) = From(echos'[n], r)
        BY <1>0 DEF From, NewEchos, IInv, TypeOK
      <4>3. From(echos'[n], r) \subseteq Echoed(echos', r)
        BY <1>3 DEF From, Echoed, EchoInv
      <4>4. /\ Cardinality(From(echos'[n], r)) <= Cardinality(Echoed(echos', r))
            /\ Cardinality(From(echos'[n], r)) \in Nat /\ Cardinality(Echoed(echos', r)) \in Nat
        BY <4>3, Counting DEF From, Echoed
      <4> QED
        BY <4>1, <4>2, <4>4, <1>1, Thresholds
    <3> QED
      BY <3>1, <3>2
  <2> QED
    BY <2>1, <2>2, <2>3, <2>4 DEF ReadyInv, Ready, Echoed
<1>7. /\ OutputInv' /\ output' \in [Correct -> Roots \cup {None}] /\ faults' \subseteq Validators
  <2>1. \A m \in Correct, v \in Validators :
           readys[m][v] # None => readys'[m][v] = readys[m][v]
    BY <1>0, <1>1
  <2> QED
    BY <1>0, <2>1, OutputStepInv DEF IInv
<1>8. msgs' \subseteq Message
  BY <1>0, <1>1, MessageTypes DEF IInv, TypeOK
<1> QED
  BY <1>0, <1>3, <1>6, <1>7, <1>8 DEF TypeOK

(* Recording a Ready, and sending our own when it is the (f + 1)-st. *)
LEMMA HandleReadyInv ==
    ASSUME IInv,
           NEW n \in Correct, NEW s \in Validators, NEW r \in Roots,
           HandleReady(n, s, r)
    PROVE  TypeOK' /\ EchoInv' /\ ReadyInv' /\ OutputInv'
<1> USE CorrectSets, RootNotNone
<1>0. /\ s # n /\ readys[n][s] = None /\ ReadyArrives(s, r)
      /\ UNCHANGED <<value_sent, echo_sent, echos>>
      /\ \A m \in Correct, v \in Validators :
            readys'[m][v] = IF m = n /\ (v = s \/ (v = n /\ ReadySends(n, s, r)))
                              THEN r ELSE readys[m][v]
      /\ \A m \in Correct :
            ready_sent'[m] <=> (ready_sent[m] \/ (m = n /\ ReadyQuorum(n, NewReadys(n, s, r), r)))
      /\ msgs' = msgs \cup (IF ReadySends(n, s, r) THEN {Ready(n, r)} ELSE {})
      /\ OutputStep(n, echos'[n], readys'[n], r)
      /\ readys' \in [Correct -> [Validators -> Roots \cup {None}]]
      /\ ready_sent' \in [Correct -> BOOLEAN]
  BY HandleReadyFacts DEF IInv
<1>1. ReadySends(n, s, r) =>
        /\ n \in CorrectValidators /\ ~ready_sent[n] /\ readys[n][n] = None
        /\ Cardinality(From(NewReadys(n, s, r), r)) = num_faulty + 1
  BY DEF ReadySends, ReadyQuorum, Count, IInv, ReadyInv
<1>2. /\ \A a, x : Echo(a, x) \in msgs' <=> Echo(a, x) \in msgs
      /\ \A a, x : Ready(a, x) \in msgs' <=> Ready(a, x) \in msgs \/ (ReadySends(n, s, r) /\ a = n /\ x = r)
  <2>1. CASE ReadySends(n, s, r)
    <3>1. msgs' = msgs \cup {Ready(n, r)}
      BY <1>0, <2>1
    <3> QED
      BY <2>1, <3>1, MessagesDiffer
  <2>2. CASE ~ReadySends(n, s, r)
    BY <1>0, <2>2
  <2> QED
    BY <2>1, <2>2
<1>3. EchoInv'
  BY <1>0, <1>2 DEF IInv, EchoInv, Echo
<1>4. s \in CorrectValidators => readys[s][s] = r
  BY <1>0 DEF ReadyArrives, CorrectValidators, IInv, ReadyInv
<1>5. ReadySends(n, s, r) => Cardinality(Echoed(echos, r)) >= num_correct
  <2> SUFFICES ASSUME ReadySends(n, s, r) PROVE Cardinality(Echoed(echos, r)) >= num_correct
    OBVIOUS
  <2>1. PICK v \in From(NewReadys(n, s, r), r) : v \in CorrectValidators
    BY <1>1, CorrectMember, Thresholds DEF From
  <2>2. v = s \/ readys[n][v] = r
    BY DEF From, NewReadys, IInv, TypeOK
  <2>3. readys[v][v] = r
    BY <1>4, <2>1, <2>2 DEF IInv, ReadyInv
  <2> QED
    BY <2>1, <2>3 DEF IInv, ReadyInv
<1>6. ReadyInv'
  <2>1. \A q \in CorrectValidators : readys'[q][q] # None => ready_sent'[q]
    BY <1>0, <1>1 DEF IInv, ReadyInv, ReadySends
  <2>2. \A q \in CorrectValidators, x \in Roots : Ready(q, x) \in msgs' => readys'[q][q] = x
    BY <1>0, <1>1, <1>2 DEF IInv, ReadyInv
  <2>3. ASSUME NEW m \in Correct, NEW q \in CorrectValidators, readys'[m][q] # None
        PROVE  readys'[m][q] = readys'[q][q]
    <3>1. readys[m][q] # None => readys[m][q] = readys[q][q]
      BY DEF IInv, ReadyInv
    <3>2. readys[q][q] # None => readys'[q][q] = readys[q][q]
      BY <1>0, <1>1
    <3>3. CASE readys[m][q] # None
      BY <1>0, <1>1, <3>1, <3>2, <3>3
    <3>4. CASE readys[m][q] = None
      <4>1. m = n /\ readys'[m][q] = r /\ (q = s \/ q = n)
        BY <1>0, <2>3, <3>4
      <4> QED
        BY <1>4, <3>2, <4>1
    <3> QED
      BY <3>3, <3>4
  <2>4. ASSUME NEW q \in CorrectValidators, NEW x \in Roots, readys'[q][q] = x
        PROVE  Cardinality(Echoed(echos, x)) >= num_correct
    <3>1. CASE readys[q][q] = x
      BY <3>1 DEF IInv, ReadyInv
    <3>2. CASE readys[q][q] # x
      BY <1>0, <1>5, <2>4, <3>2
    <3> QED
      BY <3>1, <3>2
  <2>5. echos' = echos
    BY <1>0
  <2> QED
    BY <2>1, <2>2, <2>3, <2>4, <2>5 DEF ReadyInv, Ready
<1>7. /\ OutputInv' /\ output' \in [Correct -> Roots \cup {None}] /\ faults' \subseteq Validators
  <2>1. \A m \in Correct, v \in Validators :
           readys[m][v] # None => readys'[m][v] = readys[m][v]
    BY <1>0, <1>1
  <2> QED
    BY <1>0, <2>1, OutputStepInv DEF IInv
<1>8. msgs' \subseteq Message
  BY <1>0, <1>1, MessageTypes DEF IInv, TypeOK
<1> QED
  BY <1>0, <1>3, <1>6, <1>7, <1>8 DEF IInv, TypeOK

(* Handling an Echo puts no further Value on the network. *)
LEMMA RecordEchoValues ==
    ASSUME TypeOK,
           NEW n \in Correct, NEW s \in Validators, NEW r \in Roots, NEW M,
           RecordEcho(n, s, r, M)
    PROVE  \A v, x : Value(v, x) \in msgs' <=> Value(v, x) \in msgs \/ Value(v, x) \in M
<1>1. msgs' = msgs \cup M \cup (IF EchoSends(n, s, r) THEN {Ready(n, r)} ELSE {})
  BY RecordEchoFacts
<1>2. CASE EchoSends(n, s, r)
  <2>1. msgs' = msgs \cup M \cup {Ready(n, r)}
    BY <1>1, <1>2
  <2> QED
    BY <2>1, MessagesDiffer
<1>3. CASE ~EchoSends(n, s, r)
  BY <1>1, <1>3
<1> QED
  BY <1>2, <1>3

(* broadcast(input): the proposer's first and only call. *)
LEMMA BroadcastInputInv ==
    ASSUME IInv, Proposer \in Correct, NEW r \in HonestRoots, BroadcastInput(Proposer, r)
    PROVE  IInv'
<1> USE CorrectSets, RootNotNone
<1> DEFINE V == {Value(to, r) : to \in Validators \ {Proposer}}
           M == V \cup {Echo(Proposer, r)}
<1>1. /\ value_sent = None /\ value_sent' = r
      /\ echo_sent' = [echo_sent EXCEPT ![Proposer] = TRUE]
      /\ RecordEcho(Proposer, Proposer, r, M)
  BY DEF BroadcastInput, SendEcho
<1>2. ~echo_sent[Proposer] /\ echos[Proposer][Proposer] = None
  BY <1>1 DEF IInv, InputInv, EchoInv
<1>3. /\ \A a, x : Echo(a, x) \in M <=> (a = Proposer /\ x = r)
      /\ \A a, x : Ready(a, x) \notin M
      /\ \A a, x : Value(a, x) \in M <=> (a \in Validators \ {Proposer} /\ x = r)
  BY MessagesDiffer
<1>4. M \in SUBSET Message
  BY MessageTypes
<1> HIDE DEF M
<1>5. /\ echo_sent' \in [Correct -> BOOLEAN]
      /\ \A m \in Correct : echo_sent'[m] <=> (echo_sent[m] \/ (m = Proposer /\ Proposer = Proposer))
  BY <1>1 DEF IInv, TypeOK
<1>6. TypeOK' /\ EchoInv' /\ ReadyInv' /\ OutputInv'
  BY <1>1, <1>2, <1>3, <1>4, <1>5, RecordEchoInv
<1>7. InputInv'
  <2>1. \A m \in Correct, v \in Validators :
              echos'[m][v] = IF m = Proposer /\ v = Proposer THEN r ELSE echos[m][v]
    BY <1>1, RecordEchoFacts DEF IInv
  <2>2. \A q \in CorrectValidators : echos'[q][q] \in {None, r}
    BY <1>1, <2>1 DEF IInv, InputInv
  <2>3. \A v \in Validators, x \in Roots : Value(v, x) \notin msgs
    BY <1>1 DEF IInv, InputInv
  <2>4. \A v \in Validators, x \in Roots : Value(v, x) \in msgs' => x = r /\ v # Proposer
    BY <1>1, <1>3, <2>3, RecordEchoValues DEF IInv
  <2> QED
    BY <1>1, <2>2, <2>4 DEF InputInv, Value
<1> QED
  BY <1>6, <1>7 DEF IInv

(* handle_value of a first Value. *)
LEMMA HandleValueInv ==
    ASSUME IInv, NEW n \in Correct, NEW r \in Roots, HandleValue(n, r)
    PROVE  IInv'
<1> USE CorrectSets, RootNotNone
<1> DEFINE M == {} \cup {Echo(n, r)}
<1>1. /\ n \in Validators /\ ValueArrives(n, r) /\ ~echo_sent[n] /\ value_sent' = value_sent
      /\ echo_sent' = [echo_sent EXCEPT ![n] = TRUE]
      /\ RecordEcho(n, n, r, M)
  BY DEF HandleValue, SendEcho
<1>2. echos[n][n] = None
  BY <1>1 DEF IInv, EchoInv
<1>3. /\ \A a, x : Echo(a, x) \in M <=> (a = n /\ x = r)
      /\ \A a, x : Ready(a, x) \notin M
      /\ \A a, x : Value(a, x) \notin M
  BY MessagesDiffer
<1>4. M \in SUBSET Message
  BY <1>1, MessageTypes
<1> HIDE DEF M
<1>5. /\ echo_sent' \in [Correct -> BOOLEAN]
      /\ \A m \in Correct : echo_sent'[m] <=> (echo_sent[m] \/ (m = n /\ n = n))
  BY <1>1 DEF IInv, TypeOK
<1>6. TypeOK' /\ EchoInv' /\ ReadyInv' /\ OutputInv'
  BY <1>1, <1>2, <1>3, <1>4, <1>5, RecordEchoInv DEF IInv, TypeOK
<1>7. InputInv'
  <2>1. \A m \in Correct, v \in Validators :
              echos'[m][v] = IF m = n /\ v = n THEN r ELSE echos[m][v]
    BY <1>1, RecordEchoFacts DEF IInv
  <2>2. \A v, x : Value(v, x) \in msgs' <=> Value(v, x) \in msgs
    BY <1>1, <1>3, RecordEchoValues DEF IInv
  <2>3. Proposer \in Correct => r = value_sent /\ n # Proposer
    BY <1>1 DEF ValueArrives, Correct, IInv, InputInv
  <2> QED
    BY <1>1, <1>5, <2>1, <2>2, <2>3 DEF IInv, InputInv, Value
<1> QED
  BY <1>6, <1>7 DEF IInv

(* handle_echo of a first Echo from another validator. *)
LEMMA HandleEchoInv ==
    ASSUME IInv, NEW n \in Correct, NEW s \in Validators, NEW r \in Roots, HandleEcho(n, s, r)
    PROVE  IInv'
<1> USE CorrectSets, RootNotNone
<1>1. /\ EchoArrives(s, r) /\ s # n /\ echos[n][s] = None
      /\ RecordEcho(n, s, r, {})
      /\ value_sent' = value_sent /\ echo_sent' = echo_sent
  BY DEF HandleEcho
<1>2. s \in CorrectValidators => echos[s][s] = r
  BY <1>1 DEF EchoArrives, CorrectValidators, IInv, EchoInv
<1>3. TypeOK' /\ EchoInv' /\ ReadyInv' /\ OutputInv'
  BY <1>1, <1>2, RecordEchoInv DEF IInv, TypeOK
<1>4. InputInv'
  <2>1. \A q \in CorrectValidators : echos'[q][q] = echos[q][q]
    BY <1>1, RecordEchoFacts DEF IInv
  <2>2. \A v, x : Value(v, x) \in msgs' <=> Value(v, x) \in msgs
    BY <1>1, RecordEchoValues DEF IInv
  <2> QED
    BY <1>1, <2>1, <2>2 DEF IInv, InputInv, Value
<1> QED
  BY <1>3, <1>4 DEF IInv

(* The steps that only name someone at fault. *)
BlameStep ==
    \/ \E n \in Correct, r \in Roots :
          \/ HandleValueAgain(n, r)
          \/ \E s \in Validators : HandleEchoAgain(n, s, r) \/ HandleReadyAgain(n, s, r)
    \/ \E s \in Validators : HandleInvalid(s)

(* Every step is one of five kinds. *)
LEMMA NextCases ==
    Next =>
      \/ Proposer \in Correct /\ \E r \in HonestRoots : BroadcastInput(Proposer, r)
      \/ \E n \in Correct, r \in Roots : HandleValue(n, r)
      \/ \E n \in Correct, s \in Validators, r \in Roots : HandleEcho(n, s, r)
      \/ \E n \in Correct, s \in Validators, r \in Roots : HandleReady(n, s, r)
      \/ BlameStep
BY DEF Next, Input, HandleMessage, BlameStep

LEMMA BlameStepFrame ==
    BlameStep => UNCHANGED <<nodeVars, msgs>> /\ \E s \in Validators : faults' = faults \cup {s}
BY CodingAssumption
   DEF BlameStep, HandleValueAgain, HandleEchoAgain, HandleReadyAgain, HandleInvalid

(* IInv holds initially and is preserved by every step. *)
THEOREM Invariant == Spec => []IInv
<1>1. Init => IInv
  <2> SUFFICES ASSUME Init PROVE IInv
    OBVIOUS
  <2> USE CorrectSets, RootNotNone DEF Init
  <2>1. TypeOK
    BY DEF TypeOK
  <2>2. EchoInv /\ ReadyInv /\ OutputInv /\ InputInv
    BY DEF EchoInv, ReadyInv, OutputInv, InputInv
  <2> QED
    BY <2>1, <2>2 DEF IInv
<1>2. IInv /\ [Next]_vars => IInv'
  <2> SUFFICES ASSUME IInv, [Next]_vars PROVE IInv'
    OBVIOUS
  <2>1. CASE Proposer \in Correct /\ \E r \in HonestRoots : BroadcastInput(Proposer, r)
    BY <2>1, BroadcastInputInv
  <2>2. CASE \E n \in Correct, r \in Roots : HandleValue(n, r)
    BY <2>2, HandleValueInv
  <2>3. CASE \E n \in Correct, s \in Validators, r \in Roots : HandleEcho(n, s, r)
    BY <2>3, HandleEchoInv
  <2>4. ASSUME NEW n \in Correct, NEW s \in Validators, NEW r \in Roots, HandleReady(n, s, r)
        PROVE  IInv'
    <3>1. TypeOK' /\ EchoInv' /\ ReadyInv' /\ OutputInv'
      BY <2>4, HandleReadyInv
    <3>2. /\ UNCHANGED <<value_sent, echo_sent, echos>>
          /\ msgs' = msgs \cup (IF ReadySends(n, s, r) THEN {Ready(n, r)} ELSE {})
      BY <2>4, HandleReadyFacts DEF IInv
    <3>3. \A v, x : Value(v, x) \in msgs' => Value(v, x) \in msgs
      BY <3>2, MessagesDiffer
    <3>4. InputInv'
      BY <3>2, <3>3 DEF IInv, InputInv, Value
    <3> QED
      BY <3>1, <3>4 DEF IInv
  <2>5. CASE BlameStep
    BY <2>5, BlameStepFrame
       DEF IInv, TypeOK, EchoInv, ReadyInv, OutputInv, InputInv, nodeVars, From, Echo, Ready, Value
  <2>6. CASE UNCHANGED vars
    BY <2>6
       DEF IInv, TypeOK, EchoInv, ReadyInv, OutputInv, InputInv, vars, nodeVars, From, Echo, Ready, Value
  <2> QED
    BY <2>1, <2>2, <2>3, <2>4, <2>5, <2>6, NextCases
<1> QED
  BY <1>1, <1>2, PTL DEF Spec

-----------------------------------------------------------------------------
(* What the invariant gives *)

(* With 2f + 1 Readys for r in hand, N - f validators may have echoed r.   *)
(* Stated for any tables, so that it serves before and after a step.       *)
LEMMA ReadyRoot ==
    ASSUME NEW E, NEW R, NEW rdy, NEW r \in Roots,
           \A s \in CorrectValidators : rdy[s] # None => rdy[s] = R[s][s],
           \A s \in CorrectValidators, x \in Roots :
               R[s][s] = x => Cardinality(Echoed(E, x)) >= num_correct,
           Cardinality(From(rdy, r)) > 2 * num_faulty
    PROVE  Cardinality(Echoed(E, r)) >= num_correct
<1>1. From(rdy, r) \in SUBSET Validators /\ Cardinality(From(rdy, r)) > num_faulty
  BY Counting, Thresholds DEF From
<1>2. PICK s \in From(rdy, r) : s \in CorrectValidators
  BY <1>1, CorrectMember
<1>3. R[s][s] = r
  BY <1>2, RootNotNone DEF From
<1> QED
  BY <1>2, <1>3

(* If correct validators echo nothing but val, only val gets N - f Echos. *)
LEMMA EchoedRoot ==
    ASSUME NEW E, NEW val, NEW r \in Roots,
           \A s \in CorrectValidators : E[s][s] \in {None, val},
           Cardinality(Echoed(E, r)) >= num_correct
    PROVE  r = val
<1>1. Echoed(E, r) \in SUBSET Validators /\ Cardinality(Echoed(E, r)) > num_faulty
  BY Counting, Thresholds DEF Echoed
<1>2. PICK s \in Echoed(E, r) : s \in CorrectValidators
  BY <1>1, CorrectMember
<1> QED
  BY <1>2, RootNotNone DEF Echoed, CorrectValidators

(* Type correctness. *)
THEOREM TypeCorrect == Spec => []TypeOK
<1>1. IInv => TypeOK
  BY DEF IInv
<1> QED
  BY <1>1, Invariant, PTL

(* Any two correct nodes that output, output the same value, for any N, any  *)
(* at most f faulty validators, proposer included, and any decoder: the N - f *)
(* validators behind one output and those behind the other share a correct   *)
(* one, and that one has echoed once.                                        *)
THEOREM AgreementTheorem == Spec => []Agreement
<1>1. IInv => Agreement
  <2> SUFFICES ASSUME IInv, NEW m \in Correct, NEW n \in Correct,
                      output[m] # None, output[n] # None
               PROVE  output[m] = output[n]
    BY DEF Agreement
  <2> DEFINE P == Echoed(echos, output[m])
             Q == Echoed(echos, output[n])
  <2>1. output[m] \in Roots /\ output[n] \in Roots
    BY DEF IInv, TypeOK
  <2>2. Cardinality(P) >= num_correct /\ Cardinality(Q) >= num_correct
    BY <2>1, ReadyRoot DEF IInv, ReadyInv, OutputInv
  <2>3. PICK v \in P \cap Q : v \in CorrectValidators
    BY <2>2, QuorumIntersection DEF Echoed
  <2> QED
    BY <2>3 DEF Echoed, CorrectValidators
<1> QED
  BY <1>1, Invariant, PTL

(* What is output for a correct proposer is what it put in: no f validators *)
(* can get another root through.                                           *)
THEOREM ValidityTheorem == Spec => []Validity
<1>1. IInv => Validity
  <2> SUFFICES ASSUME IInv, Proposer \in Correct, NEW n \in Correct, output[n] # None
               PROVE  output[n] = value_sent
    BY DEF Validity
  <2>1. output[n] \in Roots
    BY DEF IInv, TypeOK
  <2>2. Cardinality(Echoed(echos, output[n])) >= num_correct
    BY <2>1, ReadyRoot DEF IInv, ReadyInv, OutputInv
  <2> QED
    BY <2>1, <2>2, EchoedRoot DEF IInv, InputInv
<1> QED
  BY <1>1, Invariant, PTL

(* A correct validator's Ready(r) means that N - f validators less the     *)
(* faulty ones have put Echo(r) on the network.                            *)
THEOREM ReadyMeansDecodableTheorem == Spec => []ReadyMeansDecodable
<1>1. IInv => ReadyMeansDecodable
  <2> SUFFICES ASSUME IInv, NEW n \in CorrectValidators, NEW r \in Roots, Ready(n, r) \in msgs
               PROVE  Cardinality({v \in CorrectValidators : Echo(v, r) \in msgs})
                        >= num_nodes - num_faulty - Cardinality(Faulty)
    BY DEF ReadyMeansDecodable
  <2> DEFINE A == {v \in CorrectValidators : Echo(v, r) \in msgs}
  <2>1. Cardinality(Echoed(echos, r)) >= num_correct
    BY DEF IInv, ReadyInv
  <2>2. Echoed(echos, r) \subseteq A \cup Faulty
    BY DEF Echoed, CorrectValidators, IInv, EchoInv
  <2>3. A \in SUBSET Validators /\ Faulty \in SUBSET Validators /\ Echoed(echos, r) \in SUBSET Validators
    BY NodesAssumption DEF CorrectValidators, Echoed
  <2> HIDE DEF A
  <2>4. /\ IsFiniteSet(A) /\ IsFiniteSet(Faulty)
        /\ Cardinality(A) \in Nat /\ Cardinality(Faulty) \in Nat
        /\ Cardinality(A \cap Faulty) \in Nat
        /\ Cardinality(Echoed(echos, r)) \in Nat
    BY <2>3, Counting
  <2>5. Cardinality(A \cup Faulty) = Cardinality(A) + Cardinality(Faulty) - Cardinality(A \cap Faulty)
    BY <2>4, FS_Union
  <2>6. Cardinality(Echoed(echos, r)) <= Cardinality(A \cup Faulty)
    BY <2>2, <2>3, Counting
  <2>7. Cardinality(A) >= num_nodes - num_faulty - Cardinality(Faulty)
    BY <2>1, <2>4, <2>5, <2>6, Thresholds
  <2> QED
    BY <2>7 DEF A
<1> QED
  BY <1>1, Invariant, PTL

(* compute_output blames no correct proposer: what 2f + 1 Readys vouch for  *)
(* is the proposer's own root, whose leaves decode.                        *)
LEMMA OutputStepBlame ==
    ASSUME IInv', NoFalseAccusation,
           NEW n \in Correct, NEW r \in Roots,
           OutputStep(n, echos'[n], readys'[n], r)
    PROVE  NoFalseAccusation'
<1> SUFFICES ASSUME Proposer \notin Faulty,
                    Cardinality(From(readys'[n], r)) > 2 * num_faulty,
                    Cardinality(From(echos'[n], r)) >= data_shard_count,
                    From(echos'[n], r) \notin Rebuilds[r]
             PROVE  FALSE
  BY DEF OutputStep, NoFalseAccusation
<1>1. Proposer \in Correct
  BY CodingAssumption DEF Correct
<1>2. Cardinality(Echoed(echos', r)) >= num_correct
  BY ReadyRoot DEF IInv, ReadyInv
<1>3. r = value_sent'
  BY <1>1, <1>2, EchoedRoot DEF IInv, InputInv
<1>4. r \in HonestRoots
  BY <1>3, RootNotNone DEF IInv, TypeOK
<1> QED
  BY <1>4, CodingAssumption DEF From

(* However the network repeats, delays and reorders messages, correct nodes *)
(* blame only faulty ones.                                                 *)
THEOREM NoFalseAccusationTheorem == Spec => []NoFalseAccusation
<1>1. Init => NoFalseAccusation
  BY DEF Init, NoFalseAccusation
<1>2. IInv /\ IInv' /\ NoFalseAccusation /\ [Next]_vars => NoFalseAccusation'
  <2> SUFFICES ASSUME IInv, IInv', NoFalseAccusation, [Next]_vars PROVE NoFalseAccusation'
    OBVIOUS
  <2> USE CorrectSets, RootNotNone
  <2>1. CASE Proposer \in Correct /\ \E r \in HonestRoots : BroadcastInput(Proposer, r)
    BY <2>1, RecordEchoFacts, OutputStepBlame DEF BroadcastInput, SendEcho, IInv
  <2>2. CASE \E n \in Correct, r \in Roots : HandleValue(n, r)
    BY <2>2, RecordEchoFacts, OutputStepBlame DEF HandleValue, SendEcho, IInv
  <2>3. CASE \E n \in Correct, s \in Validators, r \in Roots : HandleEcho(n, s, r)
    BY <2>3, RecordEchoFacts, OutputStepBlame DEF HandleEcho, IInv
  <2>4. CASE \E n \in Correct, s \in Validators, r \in Roots : HandleReady(n, s, r)
    BY <2>4, HandleReadyFacts, OutputStepBlame DEF IInv
  <2>5. CASE BlameStep
    <3>1. ASSUME NEW n \in Correct, NEW r \in Roots, HandleValueAgain(n, r)
          PROVE  faults' = faults \cup {Proposer} /\ Proposer \in Faulty
      <4>1. /\ faults' = faults \cup {Proposer} /\ n \in CorrectValidators
            /\ ValueArrives(n, r) /\ echos[n][n] # None /\ echos[n][n] # r
        BY <3>1 DEF HandleValueAgain, IInv, EchoInv
      <4>2. Proposer \in Correct => Value(n, r) \notin msgs
        BY <4>1 DEF IInv, InputInv
      <4> QED
        BY <4>1, <4>2, CodingAssumption DEF ValueArrives, Correct
    <3>2. ASSUME NEW n \in Correct, NEW s \in Validators, NEW r \in Roots, HandleEchoAgain(n, s, r)
          PROVE  faults' = faults \cup {s} /\ s \in Faulty
      BY <3>2 DEF HandleEchoAgain, EchoArrives, IInv, EchoInv
    <3>3. ASSUME NEW n \in Correct, NEW s \in Validators, NEW r \in Roots, HandleReadyAgain(n, s, r)
          PROVE  faults' = faults \cup {s} /\ s \in Faulty
      BY <3>3 DEF HandleReadyAgain, ReadyArrives, IInv, ReadyInv
    <3> QED
      BY <2>5, <3>1, <3>2, <3>3 DEF BlameStep, HandleInvalid, NoFalseAccusation
  <2>6. CASE UNCHANGED vars
    BY <2>6 DEF vars, NoFalseAccusation
  <2> QED
    BY <2>1, <2>2, <2>3, <2>4, <2>5, <2>6, NextCases
<1> QED
  BY <1>1, <1>2, Invariant, PTL DEF Spec
-----------------------------------------------------------------------------
(* No output is missed *)

(* A node that has not become ready has at most f Readys for any root: the *)
(* (f + 1)-st does not go unnoticed, not even by an observer.              *)
ReadyNoticed ==
    \A n \in Correct, r \in Roots : ~ready_sent[n] => Cardinality(From(readys[n], r)) <= num_faulty

Decodable(ech, rdy, r) ==
    /\ Cardinality(From(rdy, r)) > 2 * num_faulty
    /\ Cardinality(From(ech, r)) >= data_shard_count
    /\ From(ech, r) \in Rebuilds[r]

(* compute_output having been called for r *)
OutputTried(n, r) == Decodable(echos'[n], readys'[n], r) => output'[n] # None

(* A step of n that adds to what it has for r, and checks r. *)
LEMMA TablesStep ==
    ASSUME TypeOK, NoMissedOutput, NEW n \in Correct, NEW r \in Roots,
           \A m \in Correct, v \in Validators :
               \/ echos'[m][v] = echos[m][v]
               \/ m = n /\ echos[m][v] = None /\ echos'[m][v] = r,
           \A m \in Correct, v \in Validators :
               \/ readys'[m][v] = readys[m][v]
               \/ m = n /\ readys[m][v] = None /\ readys'[m][v] = r,
           OutputStep(n, echos'[n], readys'[n], r), OutputTried(n, r)
    PROVE  NoMissedOutput'
<1> USE RootNotNone
<1>1. \A m \in Correct : output[m] # None => output'[m] # None
  BY DEF OutputStep, TypeOK
<1>2. ASSUME NEW m \in Correct, NEW x \in Roots, Decodable(echos'[m], readys'[m], x) PROVE output'[m] # None
  <2>1. CASE m = n /\ x = r
    BY <1>2, <2>1 DEF OutputTried
  <2>2. CASE ~(m = n /\ x = r)
    <3>1. \A v \in Validators : (echos'[m][v] = x <=> echos[m][v] = x) /\ (readys'[m][v] = x <=> readys[m][v] = x)
      BY <2>2
    <3>2. From(echos'[m], x) = From(echos[m], x) /\ From(readys'[m], x) = From(readys[m], x)
      BY <3>1 DEF From
    <3>3. Decodable(echos[m], readys[m], x)
      BY <1>2, <3>2 DEF Decodable
    <3> QED
      BY <1>1, <3>3 DEF NoMissedOutput, Decodable, Count
  <2> QED
    BY <2>1, <2>2
<1>3. \A m \in Correct, x \in Roots : Decodable(echos'[m], readys'[m], x) => output'[m] # None
  BY <1>2
<1> QED
  BY <1>3 DEF NoMissedOutput, Decodable, Count

(* handle_echo: where an observer returns before the check, it has too few *)
(* Readys for it to succeed.                                               *)
LEMMA RecordEchoNoMiss ==
    ASSUME IInv, ReadyNoticed, NoMissedOutput,
           NEW n \in Correct, NEW s \in Validators, NEW r \in Roots, NEW M,
           RecordEcho(n, s, r, M), echos[n][s] = None
    PROVE  ReadyNoticed' /\ NoMissedOutput'
<1> USE CorrectSets, RootNotNone
<1>0. TypeOK
  BY DEF IInv
<1>1. /\ \A m \in Correct, v \in Validators :
            echos'[m][v] = IF m = n /\ v = s THEN r ELSE echos[m][v]
      /\ \A m \in Correct, v \in Validators :
            readys'[m][v] = IF EchoSends(n, s, r) /\ m = n /\ v = n THEN r ELSE readys[m][v]
      /\ \A m \in Correct :
            ready_sent'[m] <=> (ready_sent[m] \/ (m = n /\ EchoQuorum(n, NewEchos(n, s, r), r)))
      /\ OutputStep(n, echos'[n], readys'[n], r)
      /\ echos' \in [Correct -> [Validators -> Roots \cup {None}]]
      /\ readys' \in [Correct -> [Validators -> Roots \cup {None}]]
  BY <1>0, RecordEchoFacts
<1>2. EchoSends(n, s, r) => readys[n][n] = None
  BY DEF EchoSends, EchoQuorum, IInv, ReadyInv
<1>3. ReadyNoticed'
  <2> SUFFICES ASSUME NEW m \in Correct, NEW x \in Roots, ~ready_sent'[m]
               PROVE  Cardinality(From(readys'[m], x)) <= num_faulty
    BY DEF ReadyNoticed
  <2>1. ~ready_sent[m] /\ \A v \in Validators : readys'[m][v] = readys[m][v]
    BY <1>1 DEF EchoSends
  <2>2. From(readys'[m], x) = From(readys[m], x)
    BY <2>1 DEF From
  <2> QED
    BY <2>1, <2>2 DEF ReadyNoticed
<1>4. OutputTried(n, r)
  <2> DEFINE ech == NewEchos(n, s, r)
             rdy == IF EchoSends(n, s, r) THEN [readys[n] EXCEPT ![n] = r] ELSE readys[n]
  <2>1. /\ echos' = [echos EXCEPT ![n] = ech]
        /\ readys' = [readys EXCEPT ![n] = rdy]
        /\ ~(EchoQuorum(n, ech, r) /\ n \notin Validators) => ComputeOutput(n, ech, rdy, r)
    BY DEF RecordEcho, NewEchos, EchoSends, is_validator
  <2>2. echos'[n] = ech /\ readys'[n] = rdy
    BY <1>0, <2>1 DEF TypeOK
  <2> HIDE DEF ech
  <2>3. CASE EchoQuorum(n, ech, r) /\ n \notin Validators
    <3>1. ~ready_sent[n] /\ readys'[n] = readys[n]
      BY <2>2, <2>3 DEF EchoQuorum, EchoSends
    <3>2. Cardinality(From(readys'[n], r)) <= num_faulty /\ Cardinality(From(readys'[n], r)) \in Nat
      BY <3>1, Counting DEF ReadyNoticed, From
    <3>3. ~(Cardinality(From(readys'[n], r)) > 2 * num_faulty)
      BY <3>2, Thresholds
    <3> QED
      BY <3>3 DEF OutputTried, Decodable
  <2>4. CASE ~(EchoQuorum(n, ech, r) /\ n \notin Validators)
    <3> HIDE DEF rdy
    <3>1. output' = IF MayOutput(n, ech, rdy, r) /\ From(ech, r) \in Rebuilds[r] THEN [output EXCEPT ![n] = r] ELSE output
      BY <2>1, <2>4 DEF ComputeOutput
    <3> QED
      BY <1>0, <2>2, <3>1 DEF OutputTried, Decodable, MayOutput, Count, TypeOK
  <2> QED
    BY <2>3, <2>4
<1>5. NoMissedOutput'
  <2>1. \A m \in Correct, v \in Validators :
           \/ echos'[m][v] = echos[m][v]
           \/ m = n /\ echos[m][v] = None /\ echos'[m][v] = r
    BY <1>1
  <2>2. \A m \in Correct, v \in Validators :
           \/ readys'[m][v] = readys[m][v]
           \/ m = n /\ readys[m][v] = None /\ readys'[m][v] = r
    BY <1>1, <1>2
  <2> QED
    BY <1>0, <1>1, <1>4, <2>1, <2>2, TablesStep
<1> QED
  BY <1>3, <1>5

(* handle_ready *)
LEMMA HandleReadyNoMiss ==
    ASSUME IInv, ReadyNoticed, NoMissedOutput,
           NEW n \in Correct, NEW s \in Validators, NEW r \in Roots, HandleReady(n, s, r)
    PROVE  ReadyNoticed' /\ NoMissedOutput'
<1> USE CorrectSets, RootNotNone
<1>0. TypeOK
  BY DEF IInv
<1>1. /\ s # n /\ readys[n][s] = None /\ echos' = echos
      /\ \A m \in Correct, v \in Validators :
            readys'[m][v] = IF m = n /\ (v = s \/ (v = n /\ ReadySends(n, s, r)))
                              THEN r ELSE readys[m][v]
      /\ \A m \in Correct :
            ready_sent'[m] <=> (ready_sent[m] \/ (m = n /\ ReadyQuorum(n, NewReadys(n, s, r), r)))
      /\ OutputStep(n, echos'[n], readys'[n], r)
      /\ readys' \in [Correct -> [Validators -> Roots \cup {None}]]
  BY <1>0, HandleReadyFacts
<1>2. ReadySends(n, s, r) => readys[n][n] = None
  BY DEF ReadySends, ReadyQuorum, IInv, ReadyInv
<1>3. ReadyNoticed'
  <2> SUFFICES ASSUME NEW m \in Correct, NEW x \in Roots, ~ready_sent'[m]
               PROVE  Cardinality(From(readys'[m], x)) <= num_faulty
    BY DEF ReadyNoticed
  <2>1. ~ready_sent[m]
    BY <1>1
  <2>2. CASE ~(m = n /\ x = r)
    <3>1. \A v \in Validators : readys'[m][v] = x <=> readys[m][v] = x
      BY <1>1, <1>2, <2>2
    <3>2. From(readys'[m], x) = From(readys[m], x)
      BY <3>1 DEF From
    <3> QED
      BY <2>1, <3>2 DEF ReadyNoticed
  <2>3. CASE m = n /\ x = r
    <3> DEFINE S == From(readys[n], r)
               rdy == NewReadys(n, s, r)
    <3>1. ~ReadyQuorum(n, rdy, r) /\ ~ReadySends(n, s, r)
      BY <1>1, <2>3 DEF ReadySends
    <3>2. \A v \in Validators : readys'[n][v] = rdy[v] /\ rdy[v] = IF v = s THEN r ELSE readys[n][v]
      BY <1>0, <1>1, <3>1 DEF NewReadys, TypeOK
    <3>3. From(readys'[n], r) = S \cup {s} /\ From(rdy, r) = S \cup {s} /\ s \notin S /\ S \in SUBSET Validators
      BY <1>1, <3>2 DEF From
    <3>4. IsFiniteSet(S) /\ Cardinality(S) \in Nat
      BY <3>3, Counting
    <3>5. Cardinality(S \cup {s}) = Cardinality(S) + 1
      BY <3>3, <3>4, FS_AddElement
    <3>6. Cardinality(S) <= num_faulty
      BY <2>1, <2>3 DEF ReadyNoticed
    <3>7. Cardinality(S \cup {s}) # num_faulty + 1
      BY <2>1, <2>3, <3>1, <3>3 DEF ReadyQuorum, Count
    <3> HIDE DEF S
    <3> QED
      BY <2>3, <3>3, <3>4, <3>5, <3>6, <3>7, Thresholds
  <2> QED
    BY <2>2, <2>3
<1>4. OutputTried(n, r)
  <2> DEFINE rdy == NewReadys(n, s, r)
             rdy2 == IF ReadySends(n, s, r) THEN [rdy EXCEPT ![n] = r] ELSE rdy
  <2>1. readys' = [readys EXCEPT ![n] = rdy2] /\ ComputeOutput(n, echos[n], rdy2, r)
    BY DEF HandleReady, NewReadys, ReadySends, is_validator
  <2>2. readys'[n] = rdy2
    BY <1>0, <2>1 DEF TypeOK
  <2> HIDE DEF rdy2
  <2>3. output' = IF MayOutput(n, echos[n], rdy2, r) /\ From(echos[n], r) \in Rebuilds[r]
                    THEN [output EXCEPT ![n] = r] ELSE output
    BY <2>1 DEF ComputeOutput
  <2> QED
    BY <1>0, <1>1, <2>2, <2>3 DEF OutputTried, Decodable, MayOutput, Count, TypeOK
<1>5. NoMissedOutput'
  <2>1. \A m \in Correct, v \in Validators :
           \/ echos'[m][v] = echos[m][v]
           \/ m = n /\ echos[m][v] = None /\ echos'[m][v] = r
    BY <1>1
  <2>2. \A m \in Correct, v \in Validators :
           \/ readys'[m][v] = readys[m][v]
           \/ m = n /\ readys[m][v] = None /\ readys'[m][v] = r
    BY <1>1, <1>2
  <2> QED
    BY <1>0, <1>1, <1>4, <2>1, <2>2, TablesStep
<1> QED
  BY <1>3, <1>5

(* No handler returns with the condition for output met and no output: the *)
(* check that is skipped when an observer becomes ready could not succeed. *)
THEOREM NoMissedOutputTheorem == Spec => []NoMissedOutput
<1>1. Init => ReadyNoticed /\ NoMissedOutput
  <2> SUFFICES ASSUME Init PROVE ReadyNoticed /\ NoMissedOutput
    OBVIOUS
  <2>1. \A n \in Correct, r \in Roots : From(readys[n], r) = {}
    BY RootNotNone DEF Init, From
  <2>2. \A n \in Correct, r \in Roots : Cardinality(From(readys[n], r)) = 0
    BY <2>1, FS_EmptySet
  <2>3. 0 <= num_faulty /\ ~(0 > 2 * num_faulty)
    BY Thresholds
  <2> QED
    BY <2>2, <2>3 DEF ReadyNoticed, NoMissedOutput, Count
<1>2. IInv /\ ReadyNoticed /\ NoMissedOutput /\ [Next]_vars => ReadyNoticed' /\ NoMissedOutput'
  <2> SUFFICES ASSUME IInv, ReadyNoticed, NoMissedOutput, [Next]_vars PROVE ReadyNoticed' /\ NoMissedOutput'
    OBVIOUS
  <2> USE CorrectSets, RootNotNone
  <2>1. ASSUME Proposer \in Correct, NEW r \in HonestRoots, BroadcastInput(Proposer, r)
        PROVE  ReadyNoticed' /\ NoMissedOutput'
    <3>1. value_sent = None /\ SendEcho(Proposer, r, {Value(to, r) : to \in Validators \ {Proposer}})
      BY <2>1 DEF BroadcastInput
    <3>2. echos[Proposer][Proposer] = None
      BY <2>1, <3>1 DEF IInv, InputInv, EchoInv
    <3> QED
      BY <2>1, <3>1, <3>2, RecordEchoNoMiss DEF SendEcho
  <2>2. ASSUME NEW n \in Correct, NEW r \in Roots, HandleValue(n, r) PROVE ReadyNoticed' /\ NoMissedOutput'
    <3>1. n \in Validators /\ ~echo_sent[n] /\ SendEcho(n, r, {})
      BY <2>2 DEF HandleValue
    <3>2. echos[n][n] = None
      BY <3>1 DEF IInv, EchoInv
    <3> QED
      BY <3>1, <3>2, RecordEchoNoMiss DEF SendEcho
  <2>3. ASSUME NEW n \in Correct, NEW s \in Validators, NEW r \in Roots, HandleEcho(n, s, r)
        PROVE  ReadyNoticed' /\ NoMissedOutput'
    BY <2>3, RecordEchoNoMiss DEF HandleEcho
  <2>4. CASE \E n \in Correct, s \in Validators, r \in Roots : HandleReady(n, s, r)
    BY <2>4, HandleReadyNoMiss
  <2>5. CASE BlameStep
    BY <2>5, BlameStepFrame DEF nodeVars, ReadyNoticed, NoMissedOutput, From, Count
  <2>6. CASE UNCHANGED vars
    BY <2>6 DEF vars, nodeVars, ReadyNoticed, NoMissedOutput, From, Count
  <2> QED
    BY <2>1, <2>2, <2>3, <2>4, <2>5, <2>6, NextCases
<1> QED
  BY <1>1, <1>2, Invariant, PTL DEF Spec
=============================================================================
