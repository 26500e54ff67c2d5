----------------------- MODULE BinaryAgreementSettled -----------------------
(***************************************************************************)
(* No call into Binary Agreement returns with an epoch that is over but    *)
(* still going on, however many epochs the call goes through.              *)
(*                                                                         *)
(* Every handler leaves a settled state behind if the calls of             *)
(* update_epoch that it makes do.  Those nest, and each one but the first  *)
(* is due to a message that was queued, so that Depth is enough for them.  *)
(* The exception is a sole validator, which gets through epoch 0 without   *)
(* any message, and decides in epoch 1 at the latest.                      *)
(***************************************************************************)
EXTENDS BinaryAgreementProof

(* What a call has to leave behind: it settles, and takes messages out of  *)
(* the queue only.                                                         *)
Calm(s) == s.decision # None \/ s.coin = None \/ s.conf_values = None

Quiet(s, t) == Calm(t) /\ t.queue \subseteq s.queue

Small(s, k) == IsFiniteSet(s.queue) /\ Cardinality(s.queue) <= k

(* Calls of update_epoch settle if at most k messages are queued. *)
UpdatesQuiet(x, known, n, i, calls, k) ==
    \A c : CallOK(x, known, n, i, c) /\ c.b # None /\ Small(c.s, k) => Quiet(c.s, calls[c])

LEMMA QuietThen ==
    ASSUME NEW s, NEW t, t.queue \subseteq s.queue, NEW u, Quiet(t, u)
    PROVE  Quiet(s, u)
BY DEF Quiet

LEMMA SmallStays ==
    ASSUME NEW k \in Nat, NEW s, Small(s, k), NEW t, t.queue \subseteq s.queue
    PROVE  Small(t, k)
<1>1. /\ IsFiniteSet(t.queue) /\ Cardinality(t.queue) <= Cardinality(s.queue)
      /\ Cardinality(t.queue) \in Nat /\ Cardinality(s.queue) \in Nat
  BY FS_Subset, FS_CardinalityType DEF Small
<1> QED
  BY <1>1 DEF Small

(* decide *)
LEMMA DecideQuiet ==
    ASSUME NEW s \in State, NEW n, NEW b \in BOOLEAN, s.decision = None
    PROVE  Quiet(s, Decide(s, n, b))
<1> DEFINE u == [s EXCEPT !.decision = b]
           t == Decide(s, n, b)
<1>1. u.decision = b /\ u.queue = s.queue
  BY DEF State
<1>2. t = Multicast(u, n, s.epoch + 1, "Term", b)
  BY DEF Decide
<1>3. t.decision = u.decision /\ t.queue = u.queue
  <2>1. u \in State
    BY DEF State
  <2> HIDE DEF u
  <2> QED
    BY <1>2, <2>1 DEF Multicast, State
<1>4. t.decision # None /\ t.queue = s.queue
  BY <1>1, <1>3, NoneAssumption
<1> HIDE DEF t
<1> QED
  BY <1>4 DEF Quiet, Calm, t

(* try_update_epoch *)
LEMMA TryUpdateEpochQuiet ==
    ASSUME NEW x, NEW known, NEW n \in Nodes, NEW i, NEW calls, NEW k \in Nat,
           UpdatesQuiet(x, known, n, i, calls, k), NEW s, Sound(x, known, n, i, s), Small(s, k)
    PROVE  Quiet(s, TryUpdateEpoch(calls, s, n))
<1> DEFINE t == TryUpdateEpoch(calls, s, n)
<1>0. s \in State
  BY SoundFacts
<1>1. Updated(x, known, n, calls, s, t)
  BY TryUpdateEpochCases
<1> HIDE DEF t
<1>2. CASE t = s /\ (s.decision # None \/ s.coin = None \/ s.conf_values = None)
  BY <1>2 DEF Quiet, Calm, t
<1>3. ASSUME NEW b \in BOOLEAN, t = Decide(s, n, b), s.decision = None PROVE Quiet(s, t)
  BY <1>0, <1>3, DecideQuiet
<1>4. ASSUME NEW b \in BOOLEAN, t = calls[UpdateCall(s, n, b)], MayUpdate(x, known \cup s.out, s, b)
      PROVE  Quiet(s, t)
  <2> DEFINE c == UpdateCall(s, n, b)
  <2>1. c \in Call /\ c.n = n /\ c.s = s /\ c.b = b
    BY <1>0 DEF UpdateCall, Call
  <2>2. c.b # None
    BY <2>1, NoneAssumption
  <2>3. t = calls[c]
    BY <1>4
  <2> HIDE DEF c
  <2>4. CallOK(x, known, n, i, c)
    BY <1>4, <2>1, <2>2 DEF CallOK
  <2> QED
    BY <2>1, <2>2, <2>3, <2>4 DEF UpdatesQuiet
<1> QED
  BY <1>1, <1>2, <1>3, <1>4 DEF Updated, t

(* on_coin_step: without the coin, all is calm *)
LEMMA WithTsFields ==
    ASSUME NEW s \in State, NEW n, NEW ts \in TsState
    PROVE  LET u == WithTs(s, n, ts)
           IN  u.queue = s.queue /\ u.coin = s.coin /\ u.epoch = s.epoch /\ u.conf_values = s.conf_values
<1> DEFINE t == [s EXCEPT !.ts = ts]
<1>1. t \in State /\ t.queue = s.queue /\ t.coin = s.coin /\ t.epoch = s.epoch /\ t.conf_values = s.conf_values
  BY DEF State, TsState
<1> HIDE DEF t
<1>2. WithTs(s, n, ts) \in {t, [t EXCEPT !.out = @ \cup {Msg(n, s.epoch, "Coin", TRUE)}]}
  BY DEF WithTs, Multicast, t
<1> QED
  BY <1>1, <1>2 DEF State

LEMMA OnCoinStepQuiet ==
    ASSUME NEW x, EnvOK(x), NEW known, NEW n \in Nodes, NEW i, NEW calls, NEW k \in Nat,
           UpdatesQuiet(x, known, n, i, calls, k), NEW s, Sound(x, known, n, i, s), Small(s, k),
           s.coin = None, NEW ts, TsStep(s.ts, ts)
    PROVE  Quiet(s, OnCoinStep(calls, s, n, ts))
<1> DEFINE u == WithTs(s, n, ts)
           w == [u EXCEPT !.coin = Parity(s.epoch)]
           t == OnCoinStep(calls, s, n, ts)
<1>1. t = IF ts.terminated /\ ~s.ts.terminated THEN TryUpdateEpoch(calls, w, n) ELSE u
  BY DEF OnCoinStep, WithTs
<1>2. Done(x, known, n, i, s, u) /\ u.ts = ts /\ u.coin = None /\ u.epoch = s.epoch
  BY WithTsSound
<1>3. u.queue = s.queue
  BY SoundFacts, WithTsFields DEF TsStep, TsSound
<1> HIDE DEF u, t
<1>4. CASE ts.terminated /\ ~s.ts.terminated
  <2>1. ts.terminated = TRUE
    BY <1>4 DEF TsStep, TsSound, TsState
  <2>2. w = [u EXCEPT !.coin = Parity(u.epoch)] /\ Sound(x, known, n, i, u) /\ u.ts.terminated = TRUE
    BY <1>2, <2>1 DEF Done
  <2>3. Done(x, known, n, i, u, w)
    BY <1>2, <2>2, CoinSound
  <2>4. w.queue = s.queue
    BY <1>3, <2>2, SoundFacts DEF State
  <2> HIDE DEF w
  <2>5. Sound(x, known, n, i, w) /\ Small(w, k)
    BY <2>3, <2>4, SmallStays DEF Done
  <2>6. Quiet(w, TryUpdateEpoch(calls, w, n))
    BY <2>5, TryUpdateEpochQuiet
  <2>7. t = TryUpdateEpoch(calls, w, n)
    BY <1>1, <1>4
  <2> QED
    BY <2>4, <2>6, <2>7, QuietThen DEF t
<1>5. CASE ~(ts.terminated /\ ~s.ts.terminated)
  <2>1. t = u
    BY <1>1, <1>5
  <2> QED
    BY <1>2, <1>3, <2>1 DEF Quiet, Calm, t
<1> QED
  BY <1>4, <1>5

(* try_finish_conf_round *)
LEMMA TryFinishConfRoundQuiet ==
    ASSUME NEW x, EnvOK(x), NEW known, NEW n \in Nodes, NEW i, NEW calls, CallsOK(x, known, n, i, calls),
           NEW k \in Nat, UpdatesQuiet(x, known, n, i, calls, k),
           NEW s, Sound(x, known, n, i, s), Small(s, k), Calm(s)
    PROVE  Quiet(s, TryFinishConfRound(calls, s, n))
<1> DEFINE over == s.conf_values = None \/ CountConf(s) < num_correct \/ s.coin # None
           u == OnCoinStep(calls, s, n, TsSign(s.ts, n))
           t == TryFinishConfRound(calls, s, n)
<1>1. t = IF over THEN s ELSE TryUpdateEpoch(calls, u, n)
  BY DEF TryFinishConfRound
<1>2. CASE over
  BY <1>1, <1>2 DEF Quiet
<1>3. CASE ~over
  <2>1. s.coin = None /\ t = TryUpdateEpoch(calls, u, n)
    BY <1>1, <1>3
  <2>2. TsStep(s.ts, TsSign(s.ts, n))
    BY TsOfState, TsSignSound
  <2>3. Done(x, known, n, i, s, u)
    BY <2>1, <2>2, OnCoinStepSound
  <2>4. Quiet(s, u)
    BY <2>1, <2>2, OnCoinStepQuiet
  <2> HIDE DEF u
  <2>5. Sound(x, known, n, i, u) /\ Small(u, k) /\ u.queue \subseteq s.queue
    BY <2>3, <2>4, SmallStays DEF Done, Quiet
  <2>6. Quiet(u, TryUpdateEpoch(calls, u, n))
    BY <2>5, TryUpdateEpochQuiet
  <2> QED
    BY <2>1, <2>5, <2>6, QuietThen
<1> QED
  BY <1>2, <1>3

(* handle_conf *)
LEMMA HandleConfQuiet ==
    ASSUME NEW x, EnvOK(x), NEW known, NEW n \in Nodes, NEW i, NEW calls, CallsOK(x, known, n, i, calls),
           NEW k \in Nat, UpdatesQuiet(x, known, n, i, calls, k),
           NEW s, Sound(x, known, n, i, s), Small(s, k), Calm(s), NEW v \in Validators, NEW vals \in SUBSET BOOLEAN
    PROVE  Quiet(s, HandleConf(calls, s, n, v, vals))
<1> DEFINE u == [s EXCEPT !.received_conf[v] = vals]
<1>1. s \in State
  BY SoundFacts
<1>2. u \in State /\ SbvKept(s, u) /\ Kept(s, u) /\ u.out = s.out
  <2>1. [s.received_conf EXCEPT ![v] = vals] \in [Validators -> {None} \cup SUBSET BOOLEAN]
    BY <1>1 DEF State
  <2> QED
    BY <1>1, <2>1 DEF State, SbvKept, Kept
<1>3. HandleConf(calls, s, n, v, vals) = TryFinishConfRound(calls, u, n)
  BY DEF HandleConf
<1> HIDE DEF u
<1>4. Sound(x, known, n, i, u)
  BY <1>2, SoundKept DEF Done
<1>5. Calm(u) /\ u.queue \subseteq s.queue /\ Small(u, k)
  BY <1>2, SmallStays DEF Calm, Kept
<1>6. Quiet(u, TryFinishConfRound(calls, u, n))
  BY <1>4, <1>5, TryFinishConfRoundQuiet
<1> QED
  BY <1>3, <1>5, <1>6, QuietThen

(* send_conf *)
LEMMA SendConfQuiet ==
    ASSUME NEW x, EnvOK(x), NEW known, NEW n \in Nodes, NEW i, NEW calls, CallsOK(x, known, n, i, calls),
           NEW k \in Nat, UpdatesQuiet(x, known, n, i, calls, k),
           NEW s, Sound(x, known, n, i, s), Small(s, k), s.coin = None, s.sbv_output # None
    PROVE  Quiet(s, SendConf(calls, s, n, s.sbv_output))
<1> DEFINE vals == s.sbv_output
           t == [s EXCEPT !.conf_values = vals]
           w == Multicast(t, n, t.epoch, "Conf", vals)
           r == SendConf(calls, s, n, vals)
<1>1. Sound(x, known, n, i, t) /\ vals \in SUBSET BOOLEAN
  BY CandidatesSound, SoundFacts, StateFields DEF Done
<1>2. r = IF n \in Validators THEN HandleConf(calls, w, n, n, vals) ELSE TryFinishConfRound(calls, t, n)
  BY DEF SendConf, is_validator
<1>3. t.coin = None /\ t.queue = s.queue
  BY SoundFacts DEF State
<1> HIDE DEF t, vals, r
<1>4. Calm(t) /\ Small(t, k) /\ t.queue \subseteq s.queue
  BY <1>3, SmallStays DEF Calm
<1>5. CASE n \notin Validators
  <2>1. Quiet(t, r)
    BY <1>1, <1>2, <1>4, <1>5, TryFinishConfRoundQuiet
  <2> QED
    BY <1>4, <2>1, QuietThen DEF r, vals
<1>6. CASE n \in Validators
  <2>0. t \in State /\ t.epoch \in Nat
    BY <1>1, SoundFacts, StateFields
  <2>1. Msg(n, t.epoch, "Conf", vals) \in Message
    BY <1>1, <1>6, <2>0, MessageTypes
  <2>2. Sound(x, known, n, i, w)
    BY <1>1, <1>6, <2>1, MulticastSound
  <2>3. Kept(t, w)
    BY <1>6, <2>0, <2>1, MulticastFacts
  <2> HIDE DEF w
  <2>4. Calm(w) /\ Small(w, k) /\ w.queue \subseteq s.queue
    BY <1>3, <1>4, <2>3, SmallStays DEF Calm, Kept
  <2>5. Quiet(w, HandleConf(calls, w, n, n, vals))
    BY <1>1, <1>6, <2>2, <2>4, HandleConfQuiet
  <2>6. r = HandleConf(calls, w, n, n, vals)
    BY <1>2, <1>6
  <2> QED
    BY <2>4, <2>5, <2>6, QuietThen DEF r, vals
<1> QED
  BY <1>5, <1>6

(* handle_sbvb_step *)
LEMMA HandleSbvStepQuiet ==
    ASSUME NEW x, EnvOK(x), NEW known, NEW n \in Nodes, NEW i, NEW calls, CallsOK(x, known, n, i, calls),
           NEW k \in Nat, UpdatesQuiet(x, known, n, i, calls, k),
           NEW s, NEW t, Sound(x, known, n, i, t), Small(t, k), Calm(t), Kept(s, t)
    PROVE  Quiet(t, HandleSbvStep(calls, s, t, n))
<1> DEFINE r == HandleSbvStep(calls, s, t, n)
           u == [t EXCEPT !.conf_values = t.sbv_output]
<1>1. CASE t.conf_values # None \/ t.sbv_output = s.sbv_output
  <2>1. r = t
    BY <1>1 DEF HandleSbvStep
  <2> QED
    BY <2>1 DEF Quiet
<1>2. CASE ~(t.conf_values # None \/ t.sbv_output = s.sbv_output)
  <2>1. t.sbv_output # None
    BY <1>2 DEF Kept
  <2>2. r = IF t.coin # None THEN TryUpdateEpoch(calls, u, n) ELSE SendConf(calls, t, n, t.sbv_output)
    BY <1>2 DEF HandleSbvStep
  <2> HIDE DEF r
  <2>3. CASE t.coin # None
    <3>1. Sound(x, known, n, i, u)
      BY <2>1, CandidatesSound DEF Done
    <3>2. u.queue = t.queue
      BY SoundFacts DEF State
    <3> HIDE DEF u
    <3>3. Small(u, k) /\ u.queue \subseteq t.queue
      BY <3>2, SmallStays
    <3>4. Quiet(u, TryUpdateEpoch(calls, u, n))
      BY <3>1, <3>3, TryUpdateEpochQuiet
    <3> QED
      BY <2>2, <2>3, <3>3, <3>4, QuietThen DEF r
  <2>4. CASE t.coin = None
    <3>1. r = SendConf(calls, t, n, t.sbv_output)
      BY <2>2, <2>4
    <3> QED
      BY <2>1, <2>4, <3>1, SendConfQuiet DEF r
  <2> QED
    BY <2>3, <2>4
<1> QED
  BY <1>1, <1>2

(* handle_sbv_broadcast, the SBV handlers having taken s to t *)
LEMMA SbvHandlerQuiet ==
    ASSUME NEW x, EnvOK(x), NEW known, NEW n \in Nodes, NEW i, NEW calls, CallsOK(x, known, n, i, calls),
           NEW k \in Nat, UpdatesQuiet(x, known, n, i, calls, k),
           NEW s, Small(s, k), Calm(s), NEW t, Sound(x, known, n, i, t), Kept(s, t)
    PROVE  Quiet(s, HandleSbvStep(calls, s, t, n))
<1>1. Calm(t) /\ t.queue \subseteq s.queue /\ Small(t, k)
  BY SmallStays DEF Kept, Calm
<1>2. Quiet(t, HandleSbvStep(calls, s, t, n))
  BY <1>1, HandleSbvStepQuiet
<1> QED
  BY <1>1, <1>2, QuietThen

(* handle_term *)
LEMMA HandleTermQuiet ==
    ASSUME NEW x, EnvOK(x), NEW known, NEW n \in Nodes, NEW i, NEW calls, CallsOK(x, known, n, i, calls),
           NEW k \in Nat, UpdatesQuiet(x, known, n, i, calls, k),
           NEW s, Sound(x, known, n, i, s), Small(s, k), Calm(s), NEW v \in Validators, v # n, NEW b \in BOOLEAN,
           v \in ByTerm(known \cup s.out, s.epoch, b)
    PROVE  Quiet(s, HandleTerm(calls, s, n, v, b))
<1> DEFINE t == [s EXCEPT !.received_term[b] = @ \cup {v}]
           aux == HandleAux(HandleBVal(t, n, v, b), v, b)
           u == HandleSbvStep(calls, t, aux, n)
           r == HandleTerm(calls, s, n, v, b)
           ev == known \cup t.out
<1>1. TermNoted(x, known, n, i, s, t, {b})
  BY TermCountedSound
<1>2. r = IF t.decision # None THEN t
          ELSE IF Cardinality(t.received_term[b]) > num_faulty THEN Decide(t, n, b)
          ELSE HandleConf(calls, u, n, v, {b})
  BY DEF HandleTerm
<1> HIDE DEF t, r
<1>3. /\ t \in State /\ SbvSound(x, ev, n, i, t) /\ OutputDue(t) /\ Relayed(t) /\ Local(x, ev, n, i, t)
      /\ t.epoch = s.epoch /\ t.out = s.out /\ t.decision = s.decision /\ t.coin = s.coin
      /\ t.conf_values = s.conf_values /\ t.queue = s.queue
      /\ t.decision # None \/ ~(Cardinality(t.received_term[b]) > num_faulty) => TermsFew(t)
  BY <1>1 DEF TermNoted
<1>4. Calm(t) /\ t.queue \subseteq s.queue /\ Small(t, k)
  BY <1>3, SmallStays DEF Calm
<1>5. CASE t.decision # None
  <2>1. r = t
    BY <1>2, <1>5
  <2> QED
    BY <1>4, <2>1 DEF Quiet, r
<1>6. CASE t.decision = None /\ Cardinality(t.received_term[b]) > num_faulty
  <2>1. r = Decide(t, n, b)
    BY <1>2, <1>6
  <2>2. Quiet(t, r)
    BY <1>3, <1>6, <2>1, DecideQuiet
  <2> QED
    BY <1>4, <2>2, QuietThen DEF r
<1>7. CASE t.decision = None /\ ~(Cardinality(t.received_term[b]) > num_faulty)
  <2>1. Sound(x, known, n, i, t)
    BY <1>3, <1>7 DEF Sound
  <2>2. v \in ByTerm(known \cup t.out, t.epoch, b)
    BY <1>3
  <2>3. Done(x, known, n, i, t, aux) /\ Kept(t, aux)
    BY <2>1, <2>2, TermAsMessagesSound
  <2> HIDE DEF aux
  <2>4. Sound(x, known, n, i, aux)
    BY <2>3 DEF Done
  <2>5. Done(x, known, n, i, aux, u)
    BY <2>3, <2>4, HandleSbvStepSound
  <2>6. Quiet(t, u)
    BY <1>4, <2>3, <2>4, SbvHandlerQuiet
  <2> HIDE DEF u
  <2>7. Sound(x, known, n, i, u) /\ Calm(u) /\ u.queue \subseteq t.queue /\ Small(u, k) /\ u.queue \subseteq s.queue
    BY <1>4, <2>5, <2>6, SmallStays DEF Done, Quiet
  <2> DEFINE vals == {b}
  <2>8. r = HandleConf(calls, u, n, v, vals) /\ vals \in SUBSET BOOLEAN
    BY <1>2, <1>7
  <2> HIDE DEF vals
  <2>9. Quiet(u, r)
    BY <2>7, <2>8, HandleConfQuiet
  <2> QED
    BY <2>7, <2>9, QuietThen DEF r
<1> QED
  BY <1>5, <1>6, <1>7

(* handle_coin *)
LEMMA HandleCoinQuiet ==
    ASSUME NEW x, EnvOK(x), NEW known, NEW n \in Nodes, NEW i, NEW calls,
           NEW k \in Nat, UpdatesQuiet(x, known, n, i, calls, k),
           NEW s, Sound(x, known, n, i, s), Small(s, k), Calm(s), NEW v \in Validators, NEW valid \in BOOLEAN
    PROVE  Quiet(s, HandleCoin(calls, s, n, v, valid))
<1> DEFINE t == IF ~s.ts.terminated /\ ~valid THEN Blame(s, v) ELSE s
           ts == TsHandleMessage(s.ts, v, valid)
           r == HandleCoin(calls, s, n, v, valid)
<1>1. r = IF s.coin # None THEN s ELSE OnCoinStep(calls, t, n, ts)
  BY DEF HandleCoin
<1>2. CASE s.coin # None
  BY <1>1, <1>2 DEF Quiet
<1>3. CASE s.coin = None
  <2>1. Done(x, known, n, i, s, t) /\ Kept(s, t)
    <3>1. Done(x, known, n, i, s, Blame(s, v)) /\ Kept(s, Blame(s, v))
      BY BlameSound
    <3>2. Done(x, known, n, i, s, s) /\ Kept(s, s)
      BY DoneNothing DEF Kept
    <3> QED
      BY <3>1, <3>2
  <2>2. TsStep(s.ts, ts)
    BY TsOfState, TsHandleMessageSound
  <2>3. r = OnCoinStep(calls, t, n, ts)
    BY <1>1, <1>3
  <2> HIDE DEF r, t, ts
  <2>4. /\ Sound(x, known, n, i, t) /\ t.coin = None /\ TsStep(t.ts, ts)
        /\ t.queue \subseteq s.queue /\ Small(t, k)
    BY <1>3, <2>1, <2>2, SmallStays DEF Done, Kept
  <2>5. Quiet(t, r)
    BY <2>3, <2>4, OnCoinStepQuiet
  <2> QED
    BY <2>4, <2>5, QuietThen DEF r
<1> QED
  BY <1>2, <1>3

(* handle_message_content *)
LEMMA HandleContentQuiet ==
    ASSUME NEW x, EnvOK(x), NEW known, NEW n \in Nodes, NEW i, NEW calls, CallsOK(x, known, n, i, calls),
           NEW k \in Nat, UpdatesQuiet(x, known, n, i, calls, k),
           NEW s, Sound(x, known, n, i, s), Small(s, k), Calm(s),
           NEW m \in Message, Due(known \cup s.out, n, s, m)
    PROVE  Quiet(s, HandleContent(calls, s, n, m))
<1> DEFINE r == HandleContent(calls, s, n, m)
           v == m.from
           b == m.val
           ev == known \cup s.out
<1>0. s.epoch \in Nat /\ v \in Validators /\ v # n /\ m.epoch \in Nat /\ m.epoch <= s.epoch
  BY SoundFacts, StateFields DEF Message, Due
<1>1. /\ m.type \in {"BVal", "Aux", "Term", "Coin", "Conf"}
      /\ IF m.type = "Conf" THEN b \in SUBSET BOOLEAN ELSE b \in BOOLEAN
  BY DEF Message
<1>2. m = Msg(v, m.epoch, m.type, b)
  BY DEF Message, Msg
<1>3. m \in ev /\ (m.type # "Term" => m.epoch = s.epoch)
  BY DEF Due, CanExpire
<1>4. CASE m.type = "BVal"
  <2>1. b \in BOOLEAN /\ v \in ByBVal(ev, s.epoch, b)
    BY <1>0, <1>1, <1>2, <1>3, <1>4 DEF ByBVal
  <2> DEFINE t == HandleBVal(s, n, v, b)
  <2>2. r = HandleSbvStep(calls, s, t, n)
    BY <1>4 DEF HandleContent
  <2> HIDE DEF b, r, v
  <2>3. Sound(x, known, n, i, t) /\ Kept(s, t)
    BY <1>0, <2>1, BValMessageSound DEF Done
  <2> HIDE DEF t
  <2> QED
    BY <2>2, <2>3, SbvHandlerQuiet DEF r
<1>5. CASE m.type = "Aux"
  <2>1. b \in BOOLEAN /\ v \in ByAux(ev, s.epoch, b)
    BY <1>0, <1>1, <1>2, <1>3, <1>5 DEF ByAux
  <2> DEFINE t == HandleAux(s, v, b)
  <2>2. r = HandleSbvStep(calls, s, t, n)
    BY <1>5 DEF HandleContent
  <2> HIDE DEF b, r, v
  <2>3. Sound(x, known, n, i, t) /\ Kept(s, t)
    BY <1>0, <2>1, AuxMessageSound DEF Done
  <2> HIDE DEF t
  <2> QED
    BY <2>2, <2>3, SbvHandlerQuiet DEF r
<1>6. CASE m.type = "Conf"
  <2>1. b \in SUBSET BOOLEAN /\ r = HandleConf(calls, s, n, v, b)
    BY <1>1, <1>6 DEF HandleContent
  <2> HIDE DEF b, r, v
  <2> QED
    BY <1>0, <2>1, HandleConfQuiet DEF r
<1>7. CASE m.type = "Term"
  <2>1. b \in BOOLEAN /\ r = HandleTerm(calls, s, n, v, b)
    BY <1>1, <1>7 DEF HandleContent
  <2>2. v \in ByTerm(ev, s.epoch, b)
    BY <1>0, <1>2, <1>3, <1>7 DEF ByTerm
  <2> HIDE DEF b, r, v
  <2>3. v \in ByTerm(known \cup s.out, s.epoch, b)
    BY <2>2
  <2> HIDE DEF ev
  <2>4. Quiet(s, HandleTerm(calls, s, n, v, b))
    BY <1>0, <2>1, <2>3, HandleTermQuiet
  <2> QED
    BY <2>1, <2>4 DEF r
<1>8. CASE m.type = "Coin"
  <2>1. b \in BOOLEAN /\ r = HandleCoin(calls, s, n, v, b)
    BY <1>1, <1>8 DEF HandleContent
  <2> HIDE DEF b, r, v
  <2> QED
    BY <1>0, <2>1, HandleCoinQuiet DEF r
<1> QED
  BY <1>1, <1>4, <1>5, <1>6, <1>7, <1>8
-----------------------------------------------------------------------------
(* The calls of update_epoch *)

(* try_output, without a value to believe in or with one only *)
LEMMA TryOutputValues ==
    ASSUME NEW s \in State, s.sbv_output = None
    PROVE  LET t == TryOutput(s)
           IN  /\ t.sbv_output = None \/ (t.sbv_output \in SUBSET s.bin_values /\ CountAux(s) >= num_correct)
               /\ s.bin_values = {} => t.sbv_output = None
<1> DEFINE vals == {b \in s.bin_values : s.received_aux[b] # {}}
           due == s.bin_values # {} /\ CountAux(s) >= num_correct
<1>1. TryOutput(s) = IF due THEN [s EXCEPT !.sbv_output = vals] ELSE s
  BY DEF TryOutput
<1>2. vals \in SUBSET s.bin_values
  OBVIOUS
<1> HIDE DEF vals
<1>3. [s EXCEPT !.sbv_output = vals].sbv_output = vals
  BY DEF State
<1> QED
  BY <1>1, <1>2, <1>3

(* Our own BVal, with at most f others: there is no output unless we are   *)
(* the only validator.                                                     *)
Begins(s, n) ==
    /\ s \in State /\ s.bin_values = {} /\ s.sent_bval = {} /\ s.sbv_output = None
    /\ \A b \in BOOLEAN : /\ s.received_aux[b] = s.received_bval[b] /\ n \notin s.received_bval[b]
                         /\ Cardinality(s.received_bval[b]) <= num_faulty

LEMMA OwnBVal ==
    ASSUME NEW s, NEW n, NEW b \in BOOLEAN, Begins(s, n)
    PROVE  LET t == SendBVal(s, n, b)
           IN  t.sbv_output = None \/ (t.sbv_output \in SUBSET {b} /\ Validators = {n})
<1> DEFINE u == [s EXCEPT !.sent_bval = @ \cup {b}]
           sent == Multicast(u, n, s.epoch, "BVal", b)
           t == SendBVal(s, n, b)
           bvals == s.received_bval[b]
<1>0. /\ s \in State /\ s.bin_values = {} /\ s.sent_bval = {} /\ s.sbv_output = None
      /\ s.received_aux[b] = bvals /\ n \notin bvals /\ Cardinality(bvals) <= num_faulty
      /\ bvals \in SUBSET Validators /\ s.epoch \in Nat
  BY StateFields DEF Begins
<1>1. t = IF n \in Validators THEN InsertBVal(sent, n, n, b) ELSE TryOutput(sent)
  BY <1>0 DEF SendBVal, is_validator
<1>2. /\ u \in State /\ u.bin_values = {} /\ u.sbv_output = None /\ u.epoch = s.epoch
      /\ u.received_bval = s.received_bval /\ u.received_aux = s.received_aux
  BY <1>0 DEF State
<1> HIDE DEF u, t
<1>3. CASE n \notin Validators
  <2>1. sent = u
    BY <1>3 DEF Multicast, is_validator
  <2> QED
    BY <1>1, <1>2, <1>3, <2>1, TryOutputValues DEF t
<1>4. CASE n \in Validators
  <2>1. Msg(n, s.epoch, "BVal", b) \in Message
    BY <1>0, <1>4, MessageTypes
  <2>2. sent \in State /\ SbvKept(u, sent)
    BY <1>2, <1>4, <2>1, MulticastFacts
  <2>3. /\ sent.bin_values = {} /\ sent.sbv_output = None /\ sent.epoch = s.epoch
        /\ sent.received_bval = s.received_bval /\ sent.received_aux = s.received_aux
    BY <1>2, <2>2 DEF SbvKept
  <2> HIDE DEF sent
  <2> DEFINE counted == [sent EXCEPT !.received_bval[b] = @ \cup {n}]
             accepted == [counted EXCEPT !.bin_values = @ \cup {b}]
             full == Cardinality(bvals \cup {n}) = 2 * num_faulty + 1
  <2>4. /\ counted \in State /\ counted.bin_values = {} /\ counted.sbv_output = None /\ counted.epoch = s.epoch
        /\ counted.received_bval[b] = bvals \cup {n} /\ counted.received_aux = s.received_aux
    <3>1. [sent.received_bval EXCEPT ![b] = @ \cup {n}] \in BoolMultimap
      BY <1>4, <2>2 DEF State, BoolMultimap
    <3> QED
      BY <2>2, <2>3, <3>1 DEF State, BoolMultimap
  <2>5. t = IF ~full THEN counted
            ELSE IF accepted.bin_values # BOOLEAN THEN SendAux(accepted, n, b) ELSE TryOutput(accepted)
    <3>1. t = IF Cardinality(counted.received_bval[b]) # 2 * num_faulty + 1 THEN counted
              ELSE IF accepted.bin_values # BOOLEAN THEN SendAux(accepted, n, b) ELSE TryOutput(accepted)
      BY <1>1, <1>4 DEF InsertBVal
    <3> HIDE DEF counted, accepted
    <3> QED
      BY <2>4, <3>1
  <2> HIDE DEF counted
  <2>6. /\ accepted \in State /\ accepted.bin_values = {b} /\ accepted.sbv_output = None /\ accepted.epoch = s.epoch
        /\ accepted.received_aux = s.received_aux
    BY <2>4 DEF State
  <2> HIDE DEF accepted, full
  <2>7. CASE ~full
    BY <2>4, <2>5, <2>7 DEF t
  <2>8. CASE full
    <3>1. Cardinality(bvals \cup {n}) = 2 * num_faulty + 1
      BY <2>8 DEF full
    <3>2. bvals \cup {n} \in SUBSET Validators /\ Cardinality(bvals) \in Nat /\ Cardinality(bvals \cup {n}) = Cardinality(bvals) + 1
      BY <1>0, <1>4, AddOne
    <3>3. num_faulty = 0 /\ Cardinality(bvals \cup {n}) = 1
      <4>1. num_faulty \in Nat
        BY Thresholds
      <4> QED
        BY <1>0, <3>1, <3>2, <4>1
    <3> DEFINE told == Multicast(accepted, n, accepted.epoch, "Aux", b)
               last == [told EXCEPT !.received_aux[b] = @ \cup {n}]
    <3>4. told \in State /\ SbvKept(accepted, told)
      <4>1. Msg(n, accepted.epoch, "Aux", b) \in Message
        BY <1>0, <1>4, <2>6, MessageTypes
      <4> QED
        BY <1>4, <2>6, <4>1, MulticastFacts
    <3>5. told.bin_values = {b} /\ told.sbv_output = None /\ told.received_aux = s.received_aux
      BY <2>6, <3>4 DEF SbvKept
    <3>6. t = HandleAux(told, n, b)
      <4>1. accepted.bin_values # BOOLEAN
        BY <2>6
      <4> QED
        BY <1>4, <2>5, <2>8, <4>1 DEF SendAux, is_validator
    <3> HIDE DEF told
    <3>7. t = TryOutput(last)
      BY <1>0, <3>5, <3>6 DEF HandleAux
    <3>8. /\ last \in State /\ last.bin_values = {b} /\ last.sbv_output = None
          /\ last.received_aux[b] = bvals \cup {n}
      <4>1. [told.received_aux EXCEPT ![b] = @ \cup {n}] \in BoolMultimap
        BY <1>4, <3>4 DEF State, BoolMultimap
      <4> QED
        BY <1>0, <3>4, <3>5, <4>1 DEF State, BoolMultimap
    <3> HIDE DEF last
    <3>9. t.sbv_output = None \/ (t.sbv_output \in SUBSET {b} /\ CountAux(last) >= num_correct)
      BY <3>7, <3>8, TryOutputValues
    <3>10. ASSUME CountAux(last) >= num_correct PROVE Validators = {n}
      <4>1. Cardinality(last.received_aux[b]) >= num_correct
        BY <3>8, <3>10, AuxsForOne
      <4>2. 1 >= num_correct
        BY <3>3, <3>8, <4>1
      <4>3. num_correct = Cardinality(Validators) /\ Cardinality(Validators) \in Nat /\ Cardinality(Validators) > 0
        BY <3>3, Thresholds DEF num_nodes
      <4>4. Cardinality(Validators) = 1
        BY <4>2, <4>3
      <4> QED
        BY <1>4, <4>4, NodesAssumption, FS_Singleton
    <3> QED
      BY <3>9, <3>10 DEF t
  <2> QED
    BY <2>7, <2>8
<1> QED
  BY <1>3, <1>4

(* The new epoch begins so. *)
LEMMA EnteredBegins ==
    ASSUME NEW x, NEW known, NEW n, NEW i, NEW s, Sound(x, known, n, i, s), s.decision = None, NEW b \in BOOLEAN
    PROVE  Begins(Entered(s, b), n)
<1> DEFINE t == Entered(s, b)
<1>0. s \in State /\ Local(x, known \cup s.out, n, i, s) /\ TermsFew(s)
  BY SoundFacts
<1>1. /\ t \in State /\ t.bin_values = {} /\ t.received_bval = s.received_term
      /\ t.sent_bval = {} /\ t.received_aux = s.received_term /\ t.sbv_output = None
  BY <1>0, EnteredFacts
<1>2. \A c \in BOOLEAN : n \notin s.received_term[c] /\ Cardinality(s.received_term[c]) <= num_faulty
  BY <1>0 DEF Local, TermRecord, TermsFew
<1> HIDE DEF t
<1>3. Begins(t, n)
  BY <1>1, <1>2 DEF Begins
<1> QED
  BY <1>3 DEF t

(* How deep the calls in c may nest: a call of update_epoch is followed by *)
(* one of its loop, and one of the loop handles a message.                 *)
Enough(d, c) ==
    /\ IsFiniteSet(c.s.queue)
    /\ c.b # None => 2 * Cardinality(c.s.queue) + 1 <= d
    /\ c.b = None => /\ Calm(c.s) /\ IsFiniteSet(c.queued)
                     /\ 2 * (Cardinality(c.queued) + Cardinality(c.s.queue)) <= d

CallsQuiet(x, known, n, i, calls, d) ==
    \A c : CallOK(x, known, n, i, c) /\ Enough(d, c) => Quiet(c.s, calls[c])

LEMMA CallsAreUpdates ==
    ASSUME NEW x, NEW known, NEW n, NEW i, NEW calls, NEW d \in Nat, CallsQuiet(x, known, n, i, calls, d),
           NEW k \in Nat, 2 * k + 1 <= d
    PROVE  UpdatesQuiet(x, known, n, i, calls, k)
<1> SUFFICES ASSUME NEW c, CallOK(x, known, n, i, c), c.b # None, Small(c.s, k)
             PROVE  Quiet(c.s, calls[c])
  BY DEF UpdatesQuiet
<1>1. IsFiniteSet(c.s.queue) /\ Cardinality(c.s.queue) \in Nat /\ Cardinality(c.s.queue) <= k
  BY FS_CardinalityType DEF Small
<1>2. 2 * Cardinality(c.s.queue) + 1 <= d
  BY <1>1
<1>3. Enough(d, c)
  BY <1>1, <1>2 DEF Enough
<1> QED
  BY <1>3 DEF CallsQuiet

LEMMA LoopQuiet ==
    ASSUME NEW x, NEW known, NEW n \in Nodes, NEW i, NEW calls, NEW d \in Nat, CallsQuiet(x, known, n, i, calls, d),
           NEW s, Sound(x, known, n, i, s), Calm(s), NEW queued \in SUBSET Message,
           MayLoop(known \cup s.out, n, s, queued), IsFiniteSet(s.queue), IsFiniteSet(queued),
           2 * (Cardinality(queued) + Cardinality(s.queue)) <= d
    PROVE  Quiet(s, calls[LoopCall(s, n, queued)])
<1> DEFINE c == LoopCall(s, n, queued)
<1>1. s \in State
  BY SoundFacts
<1>2. c \in Call /\ c.n = n /\ c.s = s /\ c.b = None /\ c.queued = queued
  BY <1>1 DEF LoopCall, Call
<1> HIDE DEF c
<1>3. CallOK(x, known, n, i, c) /\ Enough(d, c)
  BY <1>2 DEF CallOK, Enough
<1> QED
  BY <1>2, <1>3 DEF CallsQuiet, c

(* The loop: the first message may end the epoch, and if not, there is one *)
(* less.                                                                   *)
LEMMA DrainQuiet ==
    ASSUME NEW x, EnvOK(x), NEW known, NEW n \in Nodes, NEW i, NEW calls, CallsOK(x, known, n, i, calls),
           NEW d \in Nat, CallsQuiet(x, known, n, i, calls, d),
           NEW s, Sound(x, known, n, i, s), Calm(s), NEW queued \in SUBSET Message,
           MayLoop(known \cup s.out, n, s, queued), IsFiniteSet(s.queue), IsFiniteSet(queued),
           2 * (Cardinality(queued) + Cardinality(s.queue)) <= d + 1
    PROVE  Quiet(s, Drain(calls, s, n, queued))
<1> DEFINE m == First(queued)
           t == HandleContent(calls, s, n, m)
           r == Drain(calls, s, n, queued)
           rest == queued \ {m}
           k == Cardinality(s.queue)
<1>1. CASE queued = {}
  <2>1. r = s
    BY <1>1 DEF Drain
  <2> QED
    BY <2>1 DEF Quiet
<1>2. CASE queued # {}
  <2>1. Slots(queued) /\ \A q \in queued : q.epoch = s.epoch /\ Due(known \cup s.out, n, s, q)
    BY DEF MayLoop
  <2>2. m \in queued
    BY <1>2, <2>1, FirstIsQueued
  <2>3. r = IF t.decision # None \/ t.epoch > s.epoch THEN t ELSE calls[LoopCall(t, n, rest)]
    BY <1>2 DEF Drain
  <2> HIDE DEF m, r
  <2>4. m \in Message /\ Due(known \cup s.out, n, s, m)
    BY <2>1, <2>2
  <2>5. Done(x, known, n, i, s, t)
    BY <2>4, HandleContentSound
  <2>6. /\ k \in Nat /\ IsFiniteSet(rest) /\ Cardinality(rest) \in Nat
        /\ Cardinality(queued) = Cardinality(rest) + 1
    <3>1. IsFiniteSet(rest) /\ Cardinality(rest) = Cardinality(queued) - 1 /\ Cardinality(queued) \in Nat
      BY <2>2, FS_RemoveElement, FS_CardinalityType
    <3>2. k \in Nat /\ Cardinality(rest) \in Nat
      BY <3>1, FS_CardinalityType
    <3> QED
      BY <3>1, <3>2
  <2>7. Small(s, k)
    BY <2>6 DEF Small
  <2>8. 2 * k + 1 <= d /\ 2 * (Cardinality(rest) + k) <= d
    <3> DEFINE j == Cardinality(rest)
    <3>1. 2 * (j + 1 + k) <= d + 1 /\ j \in Nat
      BY <2>6
    <3> HIDE DEF j, k
    <3>2. 2 * k + 1 <= d /\ 2 * (j + k) <= d
      BY <2>6, <3>1
    <3> QED
      BY <3>2 DEF j
  <2> HIDE DEF k
  <2>9. UpdatesQuiet(x, known, n, i, calls, k)
    BY <2>6, <2>8, CallsAreUpdates
  <2>10. Quiet(s, t)
    BY <2>4, <2>6, <2>7, <2>9, HandleContentQuiet
  <2> HIDE DEF t
  <2>11. /\ Sound(x, known, n, i, t) /\ Sends(n, s, t) /\ s.epoch <= t.epoch /\ s.epoch \in Nat /\ t.epoch \in Nat
         /\ Calm(t) /\ t.queue \subseteq s.queue
    BY <2>5, <2>10, SoundFacts, StateFields DEF Done, Grown, Quiet
  <2>12. CASE t.decision # None \/ t.epoch > s.epoch
    BY <2>3, <2>10, <2>12 DEF r
  <2>13. CASE ~(t.decision # None \/ t.epoch > s.epoch)
    <3>1. t.epoch = s.epoch /\ r = calls[LoopCall(t, n, rest)]
      BY <2>3, <2>11, <2>13
    <3>2. rest \in SUBSET Message /\ Slots(rest)
      BY <2>1 DEF Slots
    <3>3. \A q \in rest : q.epoch = t.epoch /\ Due(known \cup t.out, n, t, q)
      BY <2>1, <2>11, <3>1 DEF Due, Sends
    <3> HIDE DEF rest
    <3>4. MayLoop(known \cup t.out, n, t, rest)
      BY <3>2, <3>3 DEF MayLoop
    <3>5. IsFiniteSet(t.queue) /\ Cardinality(t.queue) \in Nat /\ Cardinality(t.queue) <= k
      BY <2>11, FS_Subset, FS_CardinalityType DEF k
    <3>6. 2 * (Cardinality(rest) + Cardinality(t.queue)) <= d
      BY <2>6, <2>8, <3>5
    <3>7. Quiet(t, r)
      BY <2>6, <2>11, <3>1, <3>2, <3>4, <3>5, <3>6, LoopQuiet
    <3> QED
      BY <2>11, <3>7, QuietThen DEF r
  <2> QED
    BY <2>12, <2>13
<1> QED
  BY <1>1, <1>2

(* update_epoch *)
LEMMA UpdateEpochQuiet ==
    ASSUME NEW x, EnvOK(x), NEW known, NEW n \in Nodes, Validators # {n}, NEW i, NEW calls,
           CallsOK(x, known, n, i, calls), NEW d \in Nat, CallsQuiet(x, known, n, i, calls, d),
           NEW s, Sound(x, known, n, i, s), NEW b \in BOOLEAN, MayUpdate(x, known \cup s.out, s, b),
           IsFiniteSet(s.queue), 2 * Cardinality(s.queue) + 1 <= d + 1
    PROVE  Quiet(s, UpdateEpoch(calls, s, n, b))
<1> DEFINE next == Entered(s, b)
           sent == SendBVal(next, n, b)
           due == DueNow(sent)
           left == Dequeued(sent)
           r == UpdateEpoch(calls, s, n, b)
<1>0. next.sbv_output = None /\ next.conf_values = None /\ next.queue = s.queue /\ s.decision = None
  BY SoundFacts, EnteredFacts DEF MayUpdate
<1>1. Done(x, known, n, i, s, next) /\ MaySend(x, known \cup next.out, n, i, next, b) /\ Begins(next, n)
  <2>1. Done(x, known, n, i, s, next) /\ MaySend(x, known \cup next.out, n, i, next, b)
    BY EnteredSound
  <2>2. Begins(next, n)
    BY <1>0, EnteredBegins
  <2> QED
    BY <2>1, <2>2
<1>2. r = LET started == HandleSbvStep(calls, next, sent, n)
          IN  calls[LoopCall(Dequeued(started), n, DueNow(started))]
  BY DEF UpdateEpoch, Entered, DueNow, Dequeued
<1> HIDE DEF r, next
<1>3. Sound(x, known, n, i, sent) /\ Kept(next, sent)
  BY <1>1, BValSentSound DEF Done
<1>4. sent.sbv_output = None
  BY <1>1, OwnBVal
<1> HIDE DEF sent
<1>5. HandleSbvStep(calls, next, sent, n) = sent
  BY <1>0, <1>4 DEF HandleSbvStep
<1>6. r = calls[LoopCall(left, n, due)]
  BY <1>2, <1>5
<1>7. Done(x, known, n, i, sent, left) /\ due \in SUBSET Message /\ MayLoop(known \cup left.out, n, left, due)
  BY <1>3, DequeueSound
<1>8. Sound(x, known, n, i, left) /\ sent \in State /\ sent.queue = s.queue /\ sent.conf_values = None
  BY <1>0, <1>3, <1>7, SoundFacts DEF Done, Kept
<1>9. left.queue = s.queue \ due /\ left.conf_values = None /\ due \subseteq s.queue
  BY <1>8 DEF Dequeued, DueNow, State
<1> HIDE DEF left, due
<1>10. /\ IsFiniteSet(left.queue) /\ IsFiniteSet(due) /\ Cardinality(s.queue) \in Nat
       /\ Cardinality(due) + Cardinality(left.queue) = Cardinality(s.queue)
  <2>1. IsFiniteSet(due) /\ Cardinality(due) \in Nat /\ Cardinality(s.queue) \in Nat
    BY <1>9, FS_Subset, FS_CardinalityType
  <2>2. s.queue \cap due = due
    BY <1>9
  <2>3. IsFiniteSet(s.queue \ due) /\ Cardinality(s.queue \ due) = Cardinality(s.queue) - Cardinality(due)
    BY <2>2, FS_Difference
  <2> QED
    BY <1>9, <2>1, <2>3
<1>11. 2 * (Cardinality(due) + Cardinality(left.queue)) <= d
  BY <1>10
<1>12. Calm(left) /\ left.queue \subseteq s.queue
  BY <1>9 DEF Calm
<1>13. Quiet(left, r)
  BY <1>6, <1>7, <1>8, <1>10, <1>11, <1>12, LoopQuiet
<1> QED
  BY <1>12, <1>13, QuietThen DEF r

LEMMA LayerQuiet ==
    ASSUME NEW x, EnvOK(x), NEW known, NEW n \in Nodes, Validators # {n}, NEW i, NEW calls,
           CallsOK(x, known, n, i, calls), NEW d \in Nat, CallsQuiet(x, known, n, i, calls, d)
    PROVE  CallsQuiet(x, known, n, i, Layer(calls), d + 1)
<1> SUFFICES ASSUME NEW c, CallOK(x, known, n, i, c), Enough(d + 1, c)
             PROVE  Quiet(c.s, Layer(calls)[c])
  BY DEF CallsQuiet
<1>1. /\ c \in Call /\ c.n = n /\ Sound(x, known, n, i, c.s)
      /\ c.b # None => MayUpdate(x, known \cup c.s.out, c.s, c.b)
      /\ c.b = None => MayLoop(known \cup c.s.out, n, c.s, c.queued)
  BY DEF CallOK
<1>2. Layer(calls)[c] = IF c.b # None THEN UpdateEpoch(calls, c.s, n, c.b) ELSE Drain(calls, c.s, n, c.queued)
  BY <1>1 DEF Layer
<1>3. c.b \in {None} \cup BOOLEAN /\ c.queued \in SUBSET Message
  BY <1>1 DEF Call
<1>4. CASE c.b # None
  <2> DEFINE b == c.b
             s == c.s
  <2>1. /\ b \in BOOLEAN /\ MayUpdate(x, known \cup s.out, s, b) /\ Sound(x, known, n, i, s)
        /\ IsFiniteSet(s.queue) /\ 2 * Cardinality(s.queue) + 1 <= d + 1
    BY <1>1, <1>3, <1>4 DEF Enough
  <2>2. Layer(calls)[c] = UpdateEpoch(calls, s, n, b)
    BY <1>2, <1>4
  <2> HIDE DEF b, s
  <2>3. Quiet(s, UpdateEpoch(calls, s, n, b))
    BY <2>1, UpdateEpochQuiet
  <2> QED
    BY <2>2, <2>3 DEF s
<1>5. CASE c.b = None
  <2>1. Layer(calls)[c] = Drain(calls, c.s, n, c.queued)
    BY <1>2, <1>5
  <2>2. /\ MayLoop(known \cup c.s.out, n, c.s, c.queued) /\ Calm(c.s) /\ IsFiniteSet(c.s.queue) /\ IsFiniteSet(c.queued)
        /\ 2 * (Cardinality(c.queued) + Cardinality(c.s.queue)) <= d + 1
    BY <1>1, <1>5 DEF Enough
  <2> QED
    BY <1>1, <1>3, <2>1, <2>2, DrainQuiet
<1> QED
  BY <1>4, <1>5

LEMMA CallsSettle ==
    ASSUME NEW x, EnvOK(x), NEW known, NEW n \in Nodes, Validators # {n}, NEW i, NEW d \in Nat
    PROVE  CallsQuiet(x, known, n, i, Calls[d], d)
<1> DEFINE Bad == {j \in Nat : ~CallsQuiet(x, known, n, i, Calls[j], j)}
<1>1. ASSUME NEW j \in Bad, \A l \in Bad : j <= l PROVE FALSE
  <2>1. j \in Nat /\ ~CallsQuiet(x, known, n, i, Calls[j], j)
    BY <1>1
  <2>2. CASE j = 0
    <3>1. Calls[j] = Base
      BY <2>1, <2>2, CallsFacts
    <3>2. ASSUME NEW c, CallOK(x, known, n, i, c), Enough(j, c) PROVE Quiet(c.s, Base[c])
      <4>1. Base[c] = c.s
        BY <3>2 DEF CallOK, Base
      <4>2. c.b = None
        <5>1. IsFiniteSet(c.s.queue) /\ Cardinality(c.s.queue) \in Nat
          BY <3>2, FS_CardinalityType DEF Enough
        <5> QED
          BY <2>2, <3>2, <5>1 DEF Enough
      <4> QED
        BY <3>2, <4>1, <4>2 DEF Quiet, Enough
    <3> QED
      BY <2>1, <3>1, <3>2 DEF CallsQuiet
  <2>3. CASE j # 0
    <3>1. j - 1 \in Nat /\ j - 1 \notin Bad /\ Calls[j] = Layer(Calls[j - 1]) /\ (j - 1) + 1 = j
      BY <1>1, <2>1, <2>3, CallsFacts
    <3>2. CallsQuiet(x, known, n, i, Calls[j - 1], j - 1) /\ CallsOK(x, known, n, i, Calls[j - 1])
      BY <3>1, CallsSound
    <3>3. CallsQuiet(x, known, n, i, Layer(Calls[j - 1]), (j - 1) + 1)
      BY <3>1, <3>2, LayerQuiet
    <3> QED
      BY <2>1, <3>1, <3>3
  <2> QED
    BY <2>2, <2>3
<1>2. Bad = {}
  BY <1>1, Least
<1> QED
  BY <1>2

(* handle_message; what is kept for later does not matter yet *)
LEMMA HandleMessageQuiet ==
    ASSUME NEW x, EnvOK(x), NEW known, NEW n \in Nodes, Validators # {n}, NEW i, NEW s, Sound(x, known, n, i, s),
           Calm(s), IsFiniteSet(s.queue), NEW m \in Message, m \in known, m.from # n, ~Obsolete(s, m)
    PROVE  Calm(HandleMessage(s, n, m))
<1>0. s.epoch \in Nat /\ m.epoch \in Nat /\ max_future_epochs \in Nat /\ m.from \in Validators /\ s \in State
  BY SoundFacts, StateFields, AgreementAssumption DEF Message
<1>1. Calm(Blame(s, m.from))
  <2>1. Kept(s, Blame(s, m.from))
    BY <1>0, BlameSound
  <2> QED
    BY <2>1 DEF Calm, Kept
<1>2. CASE m.epoch > s.epoch + max_future_epochs
  <2>1. HandleMessage(s, n, m) = Blame(s, m.from)
    BY <1>2 DEF HandleMessage
  <2> QED
    BY <1>1, <2>1
<1>3. CASE ~(m.epoch > s.epoch + max_future_epochs) /\ m.epoch > s.epoch
  <2> DEFINE t == [s EXCEPT !.queue = @ \cup {m}]
  <2>1. HandleMessage(s, n, m) = Enqueue(s, m)
    BY <1>3 DEF HandleMessage
  <2>2. Enqueue(s, m) \in {Blame(s, m.from), t}
    BY DEF Enqueue
  <2>3. t.decision = s.decision /\ t.coin = s.coin /\ t.conf_values = s.conf_values
    BY <1>0 DEF State
  <2> HIDE DEF t
  <2>4. Calm(t)
    BY <2>3 DEF Calm
  <2> QED
    BY <1>1, <2>1, <2>2, <2>4
<1>4. CASE ~(m.epoch > s.epoch + max_future_epochs) /\ ~(m.epoch > s.epoch)
  <2> DEFINE k == Cardinality(s.queue)
             d == Depth(s)
  <2>1. HandleMessage(s, n, m) = HandleContent(Calls[d], s, n, m)
    BY <1>4 DEF HandleMessage
  <2>2. m.epoch <= s.epoch /\ (CanExpire(m) => m.epoch = s.epoch)
    BY <1>0, <1>4 DEF Obsolete
  <2>3. Due(known \cup s.out, n, s, m)
    BY <2>2 DEF Due
  <2>4. k \in Nat /\ d \in Nat /\ d = 2 * k + 1 /\ Small(s, k)
    BY <1>0, FS_CardinalityType, DepthIsNat DEF Depth, Small
  <2> HIDE DEF d, k
  <2>5. CallsOK(x, known, n, i, Calls[d]) /\ CallsQuiet(x, known, n, i, Calls[d], d)
    BY <2>4, CallsSound, CallsSettle
  <2>6. 2 * k + 1 <= d
    BY <2>4
  <2>7. UpdatesQuiet(x, known, n, i, Calls[d], k)
    BY <2>4, <2>5, <2>6, CallsAreUpdates
  <2>8. Quiet(s, HandleContent(Calls[d], s, n, m))
    BY <2>3, <2>4, <2>5, <2>7, HandleContentQuiet
  <2> QED
    BY <2>1, <2>8 DEF Quiet
<1> QED
  BY <1>2, <1>3, <1>4
-----------------------------------------------------------------------------
(* A sole validator gets its own messages only. *)

LEMMA EmptyLoop ==
    ASSUME NEW s \in State, NEW n \in Nodes, NEW d \in Nat
    PROVE  Calls[d][LoopCall(s, n, {})] = s
<1> DEFINE c == LoopCall(s, n, {})
<1>1. c \in Call /\ c.s = s /\ c.n = n /\ c.b = None /\ c.queued = {}
  BY DEF LoopCall, Call
<1> HIDE DEF c
<1>2. Base[c] = s
  BY <1>1 DEF Base
<1>3. \A calls : Layer(calls)[c] = s
  BY <1>1 DEF Layer, Drain
<1>4. CASE d = 0
  BY <1>2, <1>4, CallsFacts DEF c
<1>5. CASE d # 0
  BY <1>3, <1>5, CallsFacts DEF c
<1> QED
  BY <1>4, <1>5

LEMMA NothingQueued ==
    ASSUME NEW x, NEW known, NEW n, Validators = {n}, NEW i, NEW s, Sound(x, known, n, i, s)
    PROVE  s.queue = {}
<1>1. s \in State /\ Local(x, known \cup s.out, n, i, s)
  BY SoundFacts
<1>2. s.queue \in SUBSET Message /\ \A m \in s.queue : m.from # n
  BY <1>1, StateFields DEF Local, QueueRule
<1>3. \A m \in Message : m.from \in Validators
  BY DEF Message
<1> QED
  BY <1>2, <1>3

(* Its own BVal may decide, or end the epoch if the coin is another; b is  *)
(* the only member of vals.                                                *)
EndsEpoch(x, known, n, i, calls, s, r, vals) ==
    \E b \in vals : \E u :
        /\ Sound(x, known, n, i, u) /\ u.epoch = s.epoch /\ s.coin # b
        /\ MayUpdate(x, known \cup u.out, u, b) /\ r = calls[UpdateCall(u, n, b)]

LEMMA OwnBValSettles ==
    ASSUME NEW x, NEW known, NEW n \in Nodes, NEW i, NEW calls, NEW s, Sound(x, known, n, i, s), Begins(s, n),
           s.decision = None, s.conf_values = None, s.coin \in BOOLEAN, NEW b \in BOOLEAN,
           MaySend(x, known \cup s.out, n, i, s, b)
    PROVE  LET r == HandleSbvStep(calls, s, SendBVal(s, n, b), n)
           IN  Calm(r) \/ EndsEpoch(x, known, n, i, calls, s, r, {b})
<1> DEFINE t == SendBVal(s, n, b)
           u == [t EXCEPT !.conf_values = t.sbv_output]
           r == HandleSbvStep(calls, s, t, n)
<1>1. Sound(x, known, n, i, t) /\ Kept(s, t)
  BY BValSentSound DEF Done
<1>2. t.sbv_output = None \/ t.sbv_output \in SUBSET {b}
  BY OwnBVal
<1>3. s.sbv_output = None
  BY DEF Begins
<1> HIDE DEF t
<1>4. t.decision = None /\ t.conf_values = None /\ t.coin = s.coin /\ t.epoch = s.epoch /\ t \in State
  BY <1>1, SoundFacts DEF Kept
<1>5. CASE t.sbv_output = None
  <2>1. r = t
    BY <1>3, <1>5 DEF HandleSbvStep
  <2> QED
    BY <1>4, <2>1 DEF Calm, t
<1>6. CASE t.sbv_output # None
  <2>1. t.sbv_output = {b}
    <3>1. Candidates(known \cup t.out, t.epoch, t.sbv_output)
      BY <1>1, <1>6, SoundFacts DEF SbvSound
    <3> QED
      BY <1>2, <1>6, <3>1 DEF Candidates
  <2>2. r = TryUpdateEpoch(calls, u, n)
    BY <1>3, <1>4, <1>6, NoneAssumption DEF HandleSbvStep
  <2>3. Sound(x, known, n, i, u)
    BY <1>1, <1>6, CandidatesSound DEF Done
  <2>4. /\ u \in State /\ u.decision = None /\ u.conf_values = {b} /\ u.conf_values # None
        /\ u.coin = s.coin /\ u.epoch = s.epoch
    <3>1. u \in State /\ u.decision = t.decision /\ u.conf_values = t.sbv_output /\ u.coin = t.coin /\ u.epoch = t.epoch
      BY <1>4 DEF State
    <3> QED
      BY <1>4, <1>6, <2>1, <3>1
  <2> HIDE DEF u, r
  <2>5. Definite(u.conf_values) = b
    <3>1. Cardinality({b}) = 1
      BY FS_Singleton
    <3> QED
      BY <2>4, <3>1 DEF Definite
  <2>6. CASE s.coin = b
    <3>1. r = Decide(u, n, b)
      BY <2>2, <2>4, <2>5, <2>6, NoneAssumption DEF TryUpdateEpoch
    <3>2. Quiet(u, r)
      BY <2>4, <3>1, DecideQuiet
    <3> QED
      BY <3>2 DEF Quiet, r, t
  <2>7. CASE s.coin # b
    <3>1. r = calls[UpdateCall(u, n, b)]
      BY <2>2, <2>4, <2>5, <2>7, NoneAssumption DEF TryUpdateEpoch
    <3>2. Leads(x, known \cup u.out, u.epoch, b)
      <4>1. Candidates(known \cup u.out, u.epoch, u.conf_values)
        BY <2>3, <2>4, SoundFacts DEF Local
      <4> QED
        BY <2>4, <4>1 DEF Candidates, Leads
    <3>3. MayUpdate(x, known \cup u.out, u, b)
      BY <2>4, <3>2, NoneAssumption DEF MayUpdate
    <3>4. EndsEpoch(x, known, n, i, calls, s, r, {b})
      BY <2>3, <2>4, <2>7, <3>1, <3>3 DEF EndsEpoch
    <3> QED
      BY <3>4 DEF r, t
  <2> QED
    BY <2>6, <2>7
<1> QED
  BY <1>5, <1>6

(* update_epoch, into an epoch whose coin is the new estimate *)
LEMMA SoleUpdateEpoch ==
    ASSUME NEW x, EnvOK(x), NEW known, NEW n \in Nodes, Validators = {n}, NEW i, NEW d \in Nat,
           NEW s, Sound(x, known, n, i, s), NEW b \in BOOLEAN, MayUpdate(x, known \cup s.out, s, b),
           InitialCoin(s.epoch + 1) = b
    PROVE  Calm(UpdateEpoch(Calls[d], s, n, b))
<1> DEFINE calls == Calls[d]
           next == Entered(s, b)
           sent == SendBVal(next, n, b)
           started == HandleSbvStep(calls, next, sent, n)
           r == UpdateEpoch(calls, s, n, b)
<1>0. s.decision = None /\ s \in State
  BY SoundFacts DEF MayUpdate
<1>1. next.conf_values = None /\ next.decision = None /\ next.coin = b
  BY <1>0, EnteredFacts
<1>2. Sound(x, known, n, i, next) /\ MaySend(x, known \cup next.out, n, i, next, b) /\ Begins(next, n)
  <2>1. Done(x, known, n, i, s, next) /\ MaySend(x, known \cup next.out, n, i, next, b)
    BY EnteredSound
  <2>2. Begins(next, n)
    BY <1>0, EnteredBegins
  <2> QED
    BY <2>1, <2>2 DEF Done
<1>3. r = calls[LoopCall(Dequeued(started), n, DueNow(started))]
  BY DEF UpdateEpoch, Entered, DueNow, Dequeued
<1>4. CallsOK(x, known, n, i, calls)
  BY CallsSound
<1> HIDE DEF r, next, calls
<1>5. Sound(x, known, n, i, sent) /\ Kept(next, sent)
  BY <1>2, BValSentSound DEF Done
<1>6. Sound(x, known, n, i, started)
  BY <1>4, <1>5, HandleSbvStepSound DEF Done
<1>7. Calm(started)
  <2>1. Calm(started) \/ EndsEpoch(x, known, n, i, calls, next, started, {b})
    BY <1>1, <1>2, OwnBValSettles
  <2>2. ~EndsEpoch(x, known, n, i, calls, next, started, {b})
    BY <1>1 DEF EndsEpoch
  <2> QED
    BY <2>1, <2>2
<1> HIDE DEF started
<1>8. started.queue = {} /\ started \in State
  BY <1>6, NothingQueued, SoundFacts
<1>9. DueNow(started) = {}
  BY <1>8 DEF DueNow
<1> DEFINE left == Dequeued(started)
<1>10. /\ left \in State /\ left.decision = started.decision /\ left.coin = started.coin
       /\ left.conf_values = started.conf_values
  <2>1. left = [started EXCEPT !.queue = {}]
    BY <1>8, <1>9 DEF Dequeued
  <2> QED
    BY <1>8, <2>1 DEF State
<1>11. r = calls[LoopCall(left, n, {})]
  BY <1>3, <1>9
<1> HIDE DEF left
<1>12. r = left
  BY <1>10, <1>11, EmptyLoop DEF calls
<1> QED
  BY <1>7, <1>10, <1>12 DEF Calm, r, calls

(* propose, in epoch 0: the coin is true in this epoch, false in the next *)
LEMMA SolePropose ==
    ASSUME NEW x, EnvOK(x), NEW known, NEW n \in Nodes, Validators = {n}, NEW i, NEW s, Sound(x, known, n, i, s),
           Begins(s, n), s.decision = None, s.conf_values = None, s.epoch = 0, Depth(s) \in Nat,
           NEW b \in BOOLEAN, MaySend(x, known \cup s.out, n, i, s, b)
    PROVE  Calm(HandleSbvStep(Calls[Depth(s)], s, SendBVal(s, n, b), n))
<1> DEFINE d == Depth(s)
           calls == Calls[d]
           r == HandleSbvStep(calls, s, SendBVal(s, n, b), n)
<1>1. InitialCoin(0) = TRUE /\ InitialCoin(1) = FALSE
  BY DEF InitialCoin
<1>2. s.coin = TRUE
  <2>1. CoinRule(x, s)
    BY SoundFacts DEF Local
  <2> QED
    BY <1>1, <2>1, NoneAssumption DEF CoinRule, CoinOf
<1>3. d \in Nat /\ d # 0
  <2>1. s.queue = {}
    BY NothingQueued
  <2>2. d = 1
    BY <2>1, FS_EmptySet DEF Depth
  <2> QED
    BY <2>2
<1> HIDE DEF d
<1>4. Calm(r) \/ EndsEpoch(x, known, n, i, calls, s, r, {b})
  BY <1>2, OwnBValSettles
<1> HIDE DEF r
<1>5. ASSUME NEW u, Sound(x, known, n, i, u), u.epoch = s.epoch, s.coin # b,
             MayUpdate(x, known \cup u.out, u, b), r = calls[UpdateCall(u, n, b)]
      PROVE  Calm(r)
  <2>1. b = FALSE /\ InitialCoin(u.epoch + 1) = b
    <3>1. u.epoch + 1 = 1
      BY <1>5
    <3>2. b = FALSE
      BY <1>2, <1>5
    <3> QED
      BY <1>1, <3>1, <3>2
  <2>2. u \in State
    BY <1>5, SoundFacts
  <2> DEFINE c == UpdateCall(u, n, b)
             j == d - 1
  <2>3. c \in Call /\ c.s = u /\ c.n = n /\ c.b = b
    BY <2>2 DEF UpdateCall, Call
  <2>4. j \in Nat /\ calls = Layer(Calls[j])
    BY <1>3, CallsFacts
  <2>5. r = calls[c]
    BY <1>5
  <2> HIDE DEF c, j, calls
  <2>6. r = UpdateEpoch(Calls[j], u, n, b)
    BY <2>3, <2>4, <2>5, NoneAssumption DEF Layer
  <2>7. Calm(UpdateEpoch(Calls[j], u, n, b))
    BY <1>5, <2>1, <2>4, SoleUpdateEpoch
  <2> QED
    BY <2>6, <2>7
<1>6. Calm(r)
  BY <1>4, <1>5 DEF EndsEpoch
<1> QED
  BY <1>6 DEF r, d
-----------------------------------------------------------------------------
(* The network *)

(* A node is calm between two calls, and a sole validator has done nothing *)
(* before it is asked to propose.                                          *)
Still(n) ==
    /\ Calm(node[n])
    /\ Validators = {n} /\ ~Proposed(n) =>
          Begins(node[n], n) /\ node[n].conf_values = None /\ node[n].decision = None

LEMMA InitStill == ASSUME Init, NEW n \in Runners PROVE Still(n)
<1> DEFINE s == Started(n, input[n])
<1>1. Inv
  BY InitInv
<1>2. /\ setting.start = 0 => input[n] = None
      /\ setting.start # 0 => input[n] \in BOOLEAN
  <2>1. CASE setting.start = 0
    BY <2>1 DEF Init
  <2>2. CASE setting.start # 0
    <3>1. input \in [Runners -> BOOLEAN]
      BY <2>2, AgreementAssumption DEF Init, Runners
    <3> QED
      BY <2>2, <3>1
  <2> QED
    BY <2>1, <2>2
<1>3. node[n] = [s EXCEPT !.out = {}]
  BY DEF Init
<1>4. s \in State /\ s.conf_values = None
  <2>1. Setup
    BY <1>1 DEF Inv, NetTypes
  <2> QED
    BY <1>2, <2>1, StartedSound, SoundFacts
<1>5. Calm(node[n])
  <2> HIDE DEF s
  <2>1. node[n].conf_values = None
    BY <1>3, <1>4 DEF State
  <2> QED
    BY <2>1 DEF Calm
<1>6. ASSUME ~Proposed(n)
      PROVE  Begins(node[n], n) /\ node[n].conf_values = None /\ node[n].decision = None
  <2>1. setting.start = 0
    <3>1. Sound(Env, Known(n), n, input[n], node[n]) /\ Env.start = setting.start /\ setting.start \in Nat
      BY <1>1, AgreementAssumption DEF Inv, NetTypes, Setup, Steady, Env
    <3>2. Place(Env, input[n], node[n]) /\ node[n].epoch \in Nat
      BY <3>1, SoundFacts, StateFields DEF Local
    <3> QED
      BY <1>6, <3>1, <3>2 DEF Place, Proposed
  <2>2. s = New
    BY <2>1 DEF Started
  <2>3. Fresh(New, 0)
    BY NewIsFresh
  <2>4. Fresh(node[n], 0)
    <3> DEFINE w == [New EXCEPT !.out = {}]
    <3>1. New \in State /\ node[n] = w
      BY <1>3, <2>2, <2>3 DEF Fresh
    <3>2. /\ w \in State /\ w.epoch = New.epoch /\ w.coin = New.coin /\ w.bin_values = New.bin_values
          /\ w.sent_bval = New.sent_bval /\ w.received_bval = New.received_bval
          /\ w.received_aux = New.received_aux /\ w.received_term = New.received_term
          /\ w.sbv_output = New.sbv_output /\ w.conf_values = New.conf_values /\ w.decision = New.decision
          /\ w.ts = New.ts /\ w.out = {} /\ w.queue = New.queue
      BY <3>1 DEF State
    <3> HIDE DEF w
    <3>3. Fresh(w, 0)
      BY <2>3, <3>2 DEF Fresh
    <3> QED
      BY <3>1, <3>3
  <2>5. \A b \in BOOLEAN : node[n].received_bval[b] = {} /\ node[n].received_aux[b] = {}
    BY <2>4 DEF Fresh, EmptyMultimap
  <2>6. Cardinality({}) <= num_faulty
    BY FS_EmptySet, Thresholds
  <2> QED
    BY <2>4, <2>5, <2>6 DEF Begins, Fresh
<1> QED
  BY <1>5, <1>6 DEF Still

(* A call into node n that ends in a calm state *)
LEMMA StillAfter ==
    ASSUME Inv, Inv', \A w \in Runners : Still(w), NEW n \in Runners, NEW s \in State, Calm(s),
           Becomes(n, s), setting' = setting, Validators = {n} => Proposed(n)'
    PROVE  \A w \in Runners' : Still(w)'
<1> DEFINE t == [s EXCEPT !.out = {}]
<1>1. node' = [node EXCEPT ![n] = t] /\ node \in [Runners -> State] /\ Runners' = Runners
  BY DEF Becomes, Inv, NetTypes, Runners
<1>2. t.decision = s.decision /\ t.coin = s.coin /\ t.conf_values = s.conf_values
  BY DEF State
<1> HIDE DEF t
<1>3. Calm(t)
  BY <1>2 DEF Calm
<1>4. node'[n] = t /\ \A w \in Runners : w # n => node'[w] = node[w]
  BY <1>1
<1>5. ASSUME NEW w \in Runners, w # n PROVE Still(w)'
  <2>1. node'[w] = node[w] /\ Still(w)
    BY <1>4, <1>5
  <2> QED
    BY <2>1 DEF Still, Proposed
<1>6. Still(n)'
  BY <1>3, <1>4 DEF Still
<1> QED
  BY <1>1, <1>5, <1>6

LEMMA ReceiveStill ==
    ASSUME Inv, \A w \in Runners : Still(w), NEW n \in Runners, NEW m \in Arriving(n), Receive(n, m)
    PROVE  \A w \in Runners' : Still(w)'
<1> DEFINE s == node[n]
           known == Known(n) \cup {m}
           t == HandleMessage(s, n, m)
<1>1. /\ m \in Message /\ m.from # n /\ n \in Nodes /\ EnvOK(Env) /\ Sound(Env, known, n, input[n], s)
  BY Given
<1>2. Validators # {n}
  BY <1>1 DEF Message
<1>3. Calm(s) /\ ~Obsolete(s, m) /\ m \in known /\ Becomes(n, t) /\ setting' = setting
  BY DEF Still, Receive
<1>4. IsFiniteSet(s.queue) /\ Depth(s) \in Nat
  BY QueueIsFinite
<1> HIDE DEF s, known
<1>5. Calm(t)
  BY <1>1, <1>2, <1>3, <1>4, HandleMessageQuiet
<1>6. t \in State
  BY <1>1, <1>3, <1>4, HandleMessageSound, SoundFacts DEF Done
<1> HIDE DEF t
<1>7. Inv'
  BY ReceiveStep
<1> QED
  BY <1>2, <1>3, <1>5, <1>6, <1>7, StillAfter

LEMMA ProposeStill ==
    ASSUME Inv, \A w \in Runners : Still(w), NEW n \in Runners, NEW b \in BOOLEAN, Propose(n, b)
    PROVE  \A w \in Runners' : Still(w)'
<1> DEFINE s == [node[n] EXCEPT !.estimated = b]
           d == Depth(s)
           t == SendBVal(s, n, b)
           u == HandleSbvStep(Calls[d], s, t, n)
<1>1. /\ ~Proposed(n) /\ Becomes(n, u) /\ setting' = setting /\ Still(n)
      /\ input' = [input EXCEPT ![n] = b]
  BY DEF Propose
<1>2. n \in Nodes /\ EnvOK(Env) /\ d \in Nat /\ IsFiniteSet(s.queue)
  BY <1>1, Proposing, QueueIsFinite
<1>3. Sound(Env, Known(n), n, b, s) /\ s.epoch = 0 /\ s.queue = node[n].queue
  BY <1>1, Proposing
<1>4. MaySend(Env, Known(n) \cup s.out, n, b, s, b)
  BY <1>1, Proposing
<1>5. node[n] \in State
  BY DEF Inv, NetTypes
<1>6. /\ s \in State /\ s.decision = node[n].decision /\ s.coin = node[n].coin /\ s.conf_values = node[n].conf_values
      /\ s.bin_values = node[n].bin_values /\ s.sent_bval = node[n].sent_bval /\ s.sbv_output = node[n].sbv_output
      /\ s.received_bval = node[n].received_bval /\ s.received_aux = node[n].received_aux
  BY <1>5 DEF State
<1> HIDE DEF s
<1>7. Calm(s) /\ (Validators = {n} => Begins(s, n) /\ s.conf_values = None /\ s.decision = None)
  BY <1>1, <1>6 DEF Still, Calm, Begins
<1>8. Sound(Env, Known(n), n, b, t) /\ Kept(s, t)
  BY <1>3, <1>4, BValSentSound DEF Done
<1>9. CallsOK(Env, Known(n), n, b, Calls[d])
  BY <1>2, CallsSound
<1>10. u \in State
  <2> HIDE DEF t, d
  <2> QED
    BY <1>2, <1>8, <1>9, HandleSbvStepSound, SoundFacts DEF Done
<1>11. ASSUME Validators = {n} PROVE Calm(u)
  BY <1>2, <1>3, <1>4, <1>7, <1>11, SolePropose
<1>12. ASSUME Validators # {n} PROVE Calm(u)
  <2> DEFINE k == Cardinality(s.queue)
  <2>1. k \in Nat /\ d = 2 * k + 1 /\ Small(s, k)
    BY <1>2, FS_CardinalityType DEF Depth, Small
  <2> HIDE DEF k, d, t
  <2>2. 2 * k + 1 <= d
    BY <1>2, <2>1
  <2>3. CallsQuiet(Env, Known(n), n, b, Calls[d], d)
    BY <1>2, <1>12, CallsSettle
  <2>4. UpdatesQuiet(Env, Known(n), n, b, Calls[d], k)
    BY <1>2, <2>1, <2>2, <2>3, CallsAreUpdates
  <2>5. Quiet(s, u)
    BY <1>2, <1>7, <1>8, <1>9, <2>1, <2>4, SbvHandlerQuiet
  <2> QED
    BY <2>5 DEF Quiet
<1>13. Calm(u)
  BY <1>11, <1>12
<1> HIDE DEF u
<1>14. Inv'
  BY ProposeStep
<1>15. Proposed(n)'
  <2>1. Runners' = Runners /\ input'[n] = b
    BY <1>1 DEF Inv, NetTypes, Runners
  <2>2. (Sound(Env, Known(n), n, input[n], node[n]))'
    BY <1>14, <2>1 DEF Inv, Steady
  <2>3. (Place(Env, input[n], node[n]))'
    BY <2>2, SoundFacts DEF Local
  <2> QED
    BY <2>1, <2>3, NoneAssumption DEF Place, Proposed
<1> QED
  BY <1>1, <1>10, <1>13, <1>14, <1>15, StillAfter

(* No call returns with the coin and the candidate values both known and   *)
(* the epoch still going on: try_update_epoch is called wherever the last  *)
(* of the two becomes known, in the course of the calls of update_epoch    *)
(* that other messages lead to as well, and the model's bound on how deep  *)
(* these nest cuts none of them off.                                       *)
THEOREM SettledHolds == Spec => []Settled
<1> DEFINE Calmness == \A n \in Runners : Still(n)
<1>1. Init => Calmness
  BY InitStill
<1>2. ASSUME Inv, Calmness, [Next]_vars PROVE Calmness'
  <2>1. CASE Next
    <3>1. PICK n \in Runners : (\E b \in BOOLEAN : Propose(n, b)) \/ (\E m \in Arriving(n) : Receive(n, m))
      BY <2>1 DEF Next
    <3>2. CASE \E b \in BOOLEAN : Propose(n, b)
      BY <1>2, <3>2, ProposeStill
    <3>3. CASE \E m \in Arriving(n) : Receive(n, m)
      BY <1>2, <3>3, ReceiveStill
    <3> QED
      BY <3>1, <3>2, <3>3
  <2>2. CASE UNCHANGED vars
    <3>1. Runners' = Runners /\ node' = node
      BY <2>2 DEF vars, Runners
    <3> QED
      BY <1>2, <3>1 DEF Still, Proposed
  <2> QED
    BY <1>2, <2>1, <2>2
<1>3. Calmness => Settled
  BY DEF Still, Calm, Settled
<1>4. Inv /\ Calmness /\ [Next]_vars => Calmness'
  BY <1>2
<1> HIDE DEF Calmness
<1> QED
  BY <1>1, <1>3, <1>4, Invariance, PTL DEF Spec
=============================================================================
