-------------------------- MODULE HoneyBadgerProof --------------------------
(***************************************************************************)
(* Honey Badger for any number of nodes and epochs, at most f of the N     *)
(* validators being faulty, on top of a Subset that keeps its promises.    *)
(***************************************************************************)
EXTENDS HoneyBadger, NetworkInfoProof

-----------------------------------------------------------------------------
(* Threshold decryption at node n of a contribution v, where in says that  *)
(* the contribution is one of those that Subset accepts.                   *)

TdState ==
    [ciphertext : Values \cup {None}, valid : SUBSET Validators, invalid : SUBSET Validators,
     had_input : BOOLEAN, terminated : BOOLEAN, output : Values \cup {Garbage, None}, faults : SUBSET Faulty]

(* Shares that are invalid, or for a contribution that is not accepted,    *)
(* are the faulty nodes'.  With the ciphertext comes our own share, and    *)
(* all invalid ones go.                                                    *)
Shares(td, n, v, in) ==
    /\ td \in TdState
    /\ td.invalid \subseteq Faulty /\ (in \/ td.valid \subseteq Faulty)
    /\ td.had_input = TRUE <=> td.ciphertext # None
    /\ td.had_input = TRUE =>
          in /\ td.ciphertext = v /\ td.invalid = {} /\ (is_validator(n) => n \in td.valid)

(* In the middle of a call *)
Collecting(td, n, v, in) == Shares(td, n, v, in) /\ td.output = None /\ td.terminated = FALSE

(* After a call: f + 1 shares do not go unnoticed, and give v itself. *)
Settled(td, n, v, in) ==
    /\ Shares(td, n, v, in)
    /\ td.output = None => td.terminated = FALSE /\ (td.had_input = TRUE => Cardinality(td.valid) <= num_faulty)
    /\ td.output # None => td.output = v /\ td.had_input = TRUE

LEMMA ValuesFacts == None \notin Values /\ None # Garbage /\ Garbage \notin Values /\ Values # {}
BY HoneyBadgerAssumption DEF Values, Garbage

LEMMA TryOutputInv ==
    ASSUME NEW td, NEW n, NEW v, NEW in, in => v \in Values, Collecting(td, n, v, in)
    PROVE  LET t == TryOutput(td, n)
           IN  Settled(t, n, v, in) /\ (td.had_input = TRUE => t.had_input = TRUE)
<1> DEFINE done == [td EXCEPT !.terminated = TRUE]
           t == [done EXCEPT !.output = IF done.invalid = {} THEN td.ciphertext ELSE Garbage]
<1>0. td \in TdState /\ Shares(td, n, v, in) /\ td.output = None /\ td.terminated = FALSE
  BY DEF Collecting, Shares
<1>1. CASE Cardinality(sender_ids(td)) <= num_faulty \/ td.ciphertext = None
  <2>1. TryOutput(td, n) = td
    BY <1>1 DEF TryOutput
  <2>2. td.had_input = TRUE => Cardinality(td.valid) <= num_faulty
    <3> HAVE td.had_input = TRUE
    <3>1. td.invalid = {} /\ td.ciphertext # None
      BY <1>0 DEF Shares
    <3>2. sender_ids(td) = td.valid
      BY <3>1 DEF sender_ids
    <3> QED
      BY <1>1, <3>1, <3>2
  <2> QED
    BY <1>0, <2>1, <2>2 DEF Settled
<1>2. CASE ~(Cardinality(sender_ids(td)) <= num_faulty \/ td.ciphertext = None)
  <2>0. td.had_input = TRUE /\ in /\ td.ciphertext = v /\ v \in Values /\ td.invalid = {}
    BY <1>0, <1>2 DEF Shares
  <2>1. done \in TdState /\ done.had_input = TRUE /\ done.invalid = {} /\ done.valid = td.valid
        /\ done.ciphertext = v /\ done.faults = td.faults
    BY <1>0, <2>0 DEF TdState
  <2>2. SendShare(done, n) = done
    BY <2>1 DEF SendShare
  <2>3. TryOutput(td, n) = t
    BY <1>0, <1>2, <2>2 DEF TryOutput
  <2>4. t = [done EXCEPT !.output = v]
    BY <2>0, <2>1
  <2> HIDE DEF done, t
  <2>5. /\ t \in TdState /\ t.had_input = TRUE /\ t.invalid = {} /\ t.valid = td.valid
        /\ t.ciphertext = v /\ t.output = v
    BY <2>0, <2>1, <2>4 DEF TdState
  <2>6. Shares(t, n, v, in)
    BY <1>0, <2>0, <2>5, ValuesFacts DEF Shares
  <2> QED
    BY <2>0, <2>3, <2>5, <2>6, ValuesFacts DEF Settled
<1> QED
  BY <1>1, <1>2

(* set_ciphertext, for a contribution that is accepted *)
LEMMA SetCiphertextInv ==
    ASSUME NEW td, NEW n, NEW v \in Values, NEW in, in, Settled(td, n, v, in), td.output = None
    PROVE  LET t == SetCiphertext(td, n, v)
           IN  Settled(t, n, v, in) /\ t.had_input = TRUE
<1> DEFINE u == [td EXCEPT !.ciphertext = v]
           r == RemoveInvalidShares(u)
           valid == IF is_validator(n) THEN td.valid \cup {n} ELSE td.valid
           w == SendShare(u, n)
           t == SetCiphertext(td, n, v)
<1>0. td \in TdState /\ Shares(td, n, v, in) /\ td.terminated = FALSE
  BY DEF Settled, Shares
<1>1. /\ u \in TdState /\ u.ciphertext = v /\ u.valid = td.valid /\ u.invalid = td.invalid
      /\ u.had_input = td.had_input /\ u.terminated = FALSE /\ u.output = None /\ u.faults = td.faults
  BY <1>0 DEF TdState
<1>2. t = StartDecryption(u, n)
  BY DEF SetCiphertext
<1>3. CASE td.had_input = TRUE
  <2>1. t = u
    BY <1>1, <1>2, <1>3 DEF StartDecryption
  <2> HIDE DEF u
  <2>2. Shares(u, n, v, in)
    BY <1>0, <1>1, <1>3, ValuesFacts DEF Shares
  <2> QED
    BY <1>0, <1>1, <1>3, <2>1, <2>2 DEF Settled
<1>4. CASE td.had_input # TRUE
  <2>0. u.had_input = FALSE
    BY <1>0, <1>1, <1>4 DEF TdState
  <2>1. t = TryOutput(w, n)
    BY <1>2, <2>0 DEF StartDecryption
  <2>2. u.faults \cup u.invalid \in SUBSET Faulty /\ valid \in SUBSET Validators
    BY <1>0, <1>1 DEF TdState, Shares, is_validator
  <2>3. /\ r \in TdState /\ r.ciphertext = v /\ r.valid = td.valid /\ r.invalid = {} /\ r.had_input = FALSE
        /\ r.terminated = FALSE /\ r.output = None
    <3> HIDE DEF u
    <3> QED
      BY <1>1, <2>0, <2>2 DEF RemoveInvalidShares, TdState
  <2>4. w = [r EXCEPT !.had_input = TRUE, !.valid = valid]
    <3>1. w = [r EXCEPT !.had_input = TRUE, !.valid = IF is_validator(n) THEN @ \cup {n} ELSE @]
      BY <2>0 DEF SendShare
    <3> HIDE DEF r
    <3> QED
      BY <2>3, <3>1
  <2> HIDE DEF u, r, valid, w
  <2>5. /\ w \in TdState /\ w.ciphertext = v /\ w.valid = valid /\ w.invalid = {} /\ w.had_input = TRUE
        /\ w.terminated = FALSE /\ w.output = None
    BY <2>2, <2>3, <2>4 DEF TdState
  <2>6. is_validator(n) => n \in valid
    BY DEF valid
  <2>7. Collecting(w, n, v, in)
    BY <2>5, <2>6, ValuesFacts DEF Collecting, Shares
  <2>8. Settled(t, n, v, in) /\ t.had_input = TRUE
    BY <2>1, <2>5, <2>7, TryOutputInv
  <2> QED
    BY <2>8
<1> QED
  BY <1>3, <1>4

(* handle_message: what correct nodes send is valid, sent once, and only   *)
(* for accepted contributions.                                             *)
LEMMA TdHandleMessageInv ==
    ASSUME NEW td, NEW n, NEW v, NEW in, in => v \in Values, Settled(td, n, v, in), td.output = None,
           NEW sender \in Validators, NEW valid \in BOOLEAN,
           sender \notin Faulty => valid /\ in /\ sender \notin sender_ids(td)
    PROVE  LET t == TdHandleMessage(td, n, sender, valid)
           IN  Settled(t, n, v, in) /\ (td.had_input = TRUE => t.had_input = TRUE)
<1> DEFINE good == IF valid THEN td.valid \cup {sender} ELSE td.valid \ {sender}
           bad == IF valid THEN td.invalid \ {sender} ELSE td.invalid \cup {sender}
           stored == [td EXCEPT !.valid = good, !.invalid = bad]
           t == TdHandleMessage(td, n, sender, valid)
<1>0. td \in TdState /\ Shares(td, n, v, in) /\ td.terminated = FALSE
  BY DEF Settled, Shares
<1>1. CASE ~IsShareValid(td, valid)
  <2>1. t = [td EXCEPT !.faults = @ \cup {sender}]
    BY <1>0, <1>1 DEF TdHandleMessage
  <2>2. td.faults \cup {sender} \in SUBSET Faulty
    BY <1>0, <1>1 DEF IsShareValid, TdState
  <2>3. /\ t \in TdState /\ t.ciphertext = td.ciphertext /\ t.valid = td.valid /\ t.invalid = td.invalid
        /\ t.had_input = td.had_input /\ t.terminated = FALSE /\ t.output = None
    BY <1>0, <2>1, <2>2 DEF TdState
  <2> HIDE DEF t
  <2> QED
    BY <1>0, <2>3 DEF Settled, Shares, t
<1>2. CASE IsShareValid(td, valid)
  <2>0. good \in SUBSET Validators /\ bad \in SUBSET Validators
    BY <1>0 DEF TdState
  <2>1. good \subseteq td.valid \cup {sender} /\ bad \subseteq td.invalid \cup {sender}
    OBVIOUS
  <2>2. bad \subseteq Faulty /\ (in \/ good \subseteq Faulty)
    BY <1>0 DEF Shares
  <2>3. td.had_input = TRUE => valid /\ bad = {} /\ (is_validator(n) => n \in good)
    BY <1>0, <1>2 DEF Shares, IsShareValid
  <2> HIDE DEF good, bad
  <2>4. /\ stored \in TdState /\ stored.ciphertext = td.ciphertext /\ stored.valid = good /\ stored.invalid = bad
        /\ stored.had_input = td.had_input /\ stored.terminated = FALSE /\ stored.output = None
        /\ stored.faults = td.faults
    BY <1>0, <2>0 DEF TdState
  <2>5. t = IF sender \in sender_ids(td) THEN [stored EXCEPT !.faults = @ \cup {sender}] ELSE TryOutput(stored, n)
    BY <1>0, <1>2 DEF TdHandleMessage, good, bad
  <2> HIDE DEF stored, t
  <2>6. Collecting(stored, n, v, in)
    BY <1>0, <2>2, <2>3, <2>4 DEF Collecting, Shares
  <2>7. CASE sender \notin sender_ids(td)
    BY <2>4, <2>5, <2>6, <2>7, TryOutputInv DEF t
  <2>8. CASE sender \in sender_ids(td)
    <3>1. stored.faults \cup {sender} \in SUBSET Faulty
      BY <2>4, <2>8 DEF TdState
    <3>2. /\ t \in TdState /\ t.ciphertext = td.ciphertext /\ t.valid = good /\ t.invalid = bad
          /\ t.had_input = td.had_input /\ t.terminated = FALSE /\ t.output = None
      BY <2>4, <2>5, <2>8, <3>1 DEF TdState
    <3>3. Shares(t, n, v, in)
      BY <2>4, <2>6, <3>2 DEF Collecting, Shares
    <3>4. t.had_input = TRUE => Cardinality(good) <= num_faulty
      <4> HAVE t.had_input = TRUE
      <4>1. td.invalid = {} /\ valid /\ Cardinality(td.valid) <= num_faulty
        BY <1>0, <2>3, <3>2 DEF Settled, Shares
      <4>2. good = td.valid
        BY <2>8, <4>1 DEF good, sender_ids
      <4> QED
        BY <4>1, <4>2
    <3> QED
      BY <3>2, <3>3, <3>4 DEF Settled, t
  <2> QED
    BY <2>7, <2>8
<1> QED
  BY <1>1, <1>2
-----------------------------------------------------------------------------
(* The state of an epoch at node n.  Subset accepts the contributions val; *)
(* enc says whether they are encrypted; S are the proposers for whose      *)
(* contributions n has sent its share in earlier calls.                    *)

EsState ==
    [subset_handler : Strategies, complete : (SUBSET Validators) \cup {None}, held : SUBSET Validators,
     accepted_proposers : SUBSET Validators, decryption : [Validators -> TdState],
     sent : SUBSET Validators, faults : SUBSET Faulty]

Agreed(val) ==
    /\ DOMAIN val \subseteq Validators
    /\ \A p \in DOMAIN val : val[p] \in Values /\ (p \notin Faulty => val[p] = "ok")

TdInv(td, n, v, in) ==
    \/ in /\ td = Complete(v)
    \/ Settled(td, n, v, in) /\ td.output = None

(* An accepted contribution is being decrypted, unless that is impossible, *)
(* and none is decrypted without our share.                                *)
Entry(td, n, p, val, enc, accepted, sent) ==
    /\ TdInv(td, n, val[p], p \in DOMAIN val)
    /\ p \in accepted =>
          IsComplete(td) \/ (enc /\ (td.had_input = TRUE \/ val[p] \in {"garbled", "invalid"}))
    /\ enc /\ is_validator(n) /\ (IsComplete(td) \/ td.had_input = TRUE) => p \in sent

EsInv(es, n, val, enc, S) ==
    /\ es \in EsState
    /\ es.accepted_proposers \cup es.held \subseteq DOMAIN val
    /\ es.subset_handler = "Incremental" => es.held = {}
    /\ es.complete # None => es.complete = DOMAIN val /\ es.accepted_proposers = DOMAIN val
    /\ es.sent \subseteq DOMAIN val
    /\ \A p \in Validators : Entry(es.decryption[p], n, p, val, enc, es.accepted_proposers, es.sent \cup S)

LEMMA CompleteFacts ==
    ASSUME NEW v \in Values
    PROVE  LET td == Complete(v)
           IN  /\ td \in TdState /\ td.ciphertext = None /\ td.valid = {} /\ td.invalid = {} /\ td.had_input = FALSE
               /\ td.terminated = TRUE /\ td.output = v /\ IsComplete(td)
BY ValuesFacts DEF Complete, TdNew, TdState, IsComplete

LEMMA TdNewFacts ==
    ASSUME NEW n, NEW v, NEW in
    PROVE  /\ TdNew \in TdState /\ TdNew.had_input = FALSE /\ ~IsComplete(TdNew) /\ sender_ids(TdNew) = {}
           /\ Settled(TdNew, n, v, in) /\ TdInv(TdNew, n, v, in)
<1>1. /\ TdNew \in TdState /\ TdNew.had_input = FALSE /\ TdNew.valid = {} /\ TdNew.invalid = {}
      /\ TdNew.ciphertext = None /\ TdNew.output = None /\ TdNew.terminated = FALSE
  BY DEF TdNew, TdState
<1>2. Shares(TdNew, n, v, in)
  BY <1>1 DEF Shares
<1> QED
  BY <1>1, <1>2 DEF Settled, TdInv, IsComplete, sender_ids

LEMMA TdInvFacts ==
    ASSUME NEW td, NEW n, NEW v, NEW in, TdInv(td, n, v, in), in => v \in Values
    PROVE  /\ td \in TdState
           /\ IsComplete(td) => in /\ td.output = v
           /\ ~IsComplete(td) => Settled(td, n, v, in) /\ td.output = None
           /\ td.had_input = TRUE => in
           /\ ~in => sender_ids(td) \subseteq Faulty
<1>1. CASE in /\ td = Complete(v)
  <2>1. v \in Values
    BY <1>1
  <2> QED
    BY <1>1, <2>1, CompleteFacts
<1>2. CASE Settled(td, n, v, in) /\ td.output = None
  BY <1>2 DEF IsComplete, Settled, Shares, sender_ids
<1> QED
  BY <1>1, <1>2 DEF TdInv

(* What a call leaves alone when it changes one proposer's decryption *)
OnlyFor(es, t, p, val) ==
    /\ t \in EsState /\ t.subset_handler = es.subset_handler /\ t.complete = es.complete /\ t.held = es.held
    /\ \A q \in Validators : q # p => t.decryption[q] = es.decryption[q]
    /\ es.sent \subseteq t.sent /\ t.sent \subseteq es.sent \cup ({p} \cap DOMAIN val)

(* process_decryption *)
Processed(es, t, n, p, val, td) ==
    /\ OnlyFor(es, t, p, val) /\ t.accepted_proposers = es.accepted_proposers
    /\ TdInv(t.decryption[p], n, val[p], p \in DOMAIN val)
    /\ td.had_input = TRUE => IsComplete(t.decryption[p]) \/ t.decryption[p].had_input = TRUE
    /\ is_validator(n) /\ (IsComplete(t.decryption[p]) \/ t.decryption[p].had_input = TRUE) => p \in t.sent

LEMMA ProcessDecryptionInv ==
    ASSUME NEW es \in EsState, NEW n, NEW val, Agreed(val), NEW p \in Validators, NEW td,
           Settled(td, n, val[p], p \in DOMAIN val)
    PROVE  Processed(es, ProcessDecryption(es, n, p, td), n, p, val, td)
<1> DEFINE d == IF IsComplete(td) THEN Complete(td.output) ELSE [td EXCEPT !.faults = {}]
           sent == IF td.had_input /\ is_validator(n) THEN es.sent \cup {p} ELSE es.sent
           faults == es.faults \cup td.faults
           t == ProcessDecryption(es, n, p, td)
<1>0. td \in TdState /\ (td.had_input = TRUE => p \in DOMAIN val)
  BY DEF Settled, Shares
<1>1. /\ d \in TdState /\ TdInv(d, n, val[p], p \in DOMAIN val)
      /\ (IsComplete(d) \/ d.had_input = TRUE) <=> td.had_input = TRUE
  <2>1. CASE IsComplete(td)
    <3>1. td.had_input = TRUE /\ td.output = val[p] /\ p \in DOMAIN val /\ val[p] \in Values
      BY <1>0, <2>1 DEF Settled, IsComplete, Agreed
    <3>2. d = Complete(val[p])
      BY <2>1, <3>1
    <3> HIDE DEF d
    <3> QED
      BY <3>1, <3>2, CompleteFacts DEF TdInv
  <2>2. CASE ~IsComplete(td)
    <3>1. d = [td EXCEPT !.faults = {}]
      BY <2>2
    <3> HIDE DEF d
    <3>2. /\ d \in TdState /\ d.ciphertext = td.ciphertext /\ d.valid = td.valid /\ d.invalid = td.invalid
          /\ d.had_input = td.had_input /\ d.terminated = td.terminated /\ d.output = None
      BY <1>0, <2>2, <3>1 DEF TdState, IsComplete
    <3>3. Settled(d, n, val[p], p \in DOMAIN val)
      BY <2>2, <3>2 DEF Settled, Shares, IsComplete
    <3> QED
      BY <3>2, <3>3 DEF TdInv, IsComplete
  <2> QED
    BY <2>1, <2>2
<1>2. sent \in SUBSET Validators /\ faults \in SUBSET Faulty /\ es.sent \subseteq sent
      /\ sent \subseteq es.sent \cup ({p} \cap DOMAIN val)
      /\ (td.had_input = TRUE /\ is_validator(n) => p \in sent)
  BY <1>0 DEF EsState, TdState
<1>3. t = [es EXCEPT !.decryption[p] = d, !.sent = sent, !.faults = faults]
  BY DEF ProcessDecryption
<1> HIDE DEF d, sent, faults
<1>4. es.decryption \in [Validators -> TdState]
  BY DEF EsState
<1>5. [es.decryption EXCEPT ![p] = d] \in [Validators -> TdState]
  BY <1>1, <1>4
<1>6. /\ t \in EsState /\ t.subset_handler = es.subset_handler /\ t.complete = es.complete /\ t.held = es.held
      /\ t.accepted_proposers = es.accepted_proposers /\ t.decryption = [es.decryption EXCEPT ![p] = d]
      /\ t.sent = sent
  BY <1>2, <1>3, <1>5 DEF EsState
<1> HIDE DEF t
<1>7. t.decryption[p] = d /\ \A q \in Validators : q # p => t.decryption[q] = es.decryption[q]
  BY <1>4, <1>6
<1>8. OnlyFor(es, t, p, val)
  BY <1>2, <1>6, <1>7 DEF OnlyFor
<1> QED
  BY <1>1, <1>2, <1>6, <1>7, <1>8 DEF Processed, t

(* What EsInv needs when only p's decryption has changed *)
LEMMA OnlyForInv ==
    ASSUME NEW es, NEW t, NEW n, NEW val, NEW enc, NEW S, EsInv(es, n, val, enc, S), NEW p \in Validators,
           OnlyFor(es, t, p, val), t.accepted_proposers = es.accepted_proposers,
           Entry(t.decryption[p], n, p, val, enc, t.accepted_proposers, t.sent \cup S)
    PROVE  EsInv(t, n, val, enc, S)
<1>1. \A q \in Validators : Entry(t.decryption[q], n, q, val, enc, t.accepted_proposers, t.sent \cup S)
  <2> TAKE q \in Validators
  <2>1. CASE q # p
    BY <2>1 DEF EsInv, OnlyFor, Entry
  <2> QED
    BY <2>1
<1> QED
  BY <1>1 DEF EsInv, OnlyFor

(* handle_message_content with a decryption share *)
LEMMA HandleShareInv ==
    ASSUME NEW es, NEW n, NEW val, NEW enc, NEW S, Agreed(val), EsInv(es, n, val, enc, S),
           NEW sender \in Validators, NEW p \in Validators, NEW valid \in BOOLEAN,
           sender \notin Faulty => valid /\ p \in DOMAIN val /\ sender \notin sender_ids(es.decryption[p])
    PROVE  LET t == HandleShare(es, n, sender, p, valid)
           IN  /\ EsInv(t, n, val, enc, S)
               /\ t.accepted_proposers = es.accepted_proposers /\ t.held = es.held
<1> DEFINE d == es.decryption[p]
           td == TdHandleMessage(d, n, sender, valid)
           t == HandleShare(es, n, sender, p, valid)
<1>0. /\ es \in EsState /\ Entry(d, n, p, val, enc, es.accepted_proposers, es.sent \cup S)
      /\ TdInv(d, n, val[p], p \in DOMAIN val) /\ (p \in DOMAIN val => val[p] \in Values)
  BY DEF EsInv, Entry, Agreed
<1>1. CASE accepted_ids(es) # None /\ p \notin accepted_ids(es)
  <2>1. t = [es EXCEPT !.faults = @ \cup {sender}]
    BY <1>1 DEF HandleShare, EsBlame
  <2>2. es.faults \cup {sender} \in SUBSET Faulty
    BY <1>0, <1>1 DEF EsInv, EsState, accepted_ids
  <2>3. /\ t \in EsState /\ t.subset_handler = es.subset_handler /\ t.complete = es.complete /\ t.held = es.held
        /\ t.accepted_proposers = es.accepted_proposers /\ t.decryption = es.decryption /\ t.sent = es.sent
    BY <1>0, <2>1, <2>2 DEF EsState
  <2> HIDE DEF t
  <2> QED
    BY <2>3 DEF EsInv, t
<1>2. CASE ~(accepted_ids(es) # None /\ p \notin accepted_ids(es)) /\ IsComplete(d)
  BY <1>2 DEF HandleShare
<1>3. CASE ~(accepted_ids(es) # None /\ p \notin accepted_ids(es)) /\ ~IsComplete(d)
  <2>1. t = ProcessDecryption(es, n, p, td)
    BY <1>3 DEF HandleShare
  <2>2. Settled(d, n, val[p], p \in DOMAIN val) /\ d.output = None
    BY <1>0, <1>3, TdInvFacts
  <2>3. Settled(td, n, val[p], p \in DOMAIN val) /\ (d.had_input = TRUE => td.had_input = TRUE)
    <3> HIDE DEF d
    <3>1. sender \notin Faulty => valid /\ p \in DOMAIN val /\ sender \notin sender_ids(d)
      BY DEF d
    <3> QED
      BY <1>0, <2>2, <3>1, TdHandleMessageInv
  <2> HIDE DEF td, t
  <2>4. Processed(es, t, n, p, val, td)
    BY <1>0, <2>1, <2>3, ProcessDecryptionInv
  <2>5. Entry(t.decryption[p], n, p, val, enc, es.accepted_proposers, t.sent \cup S)
    BY <1>0, <1>3, <2>3, <2>4 DEF Entry, Processed
  <2> QED
    BY <2>4, <2>5, OnlyForInv DEF Processed, OnlyFor, t
<1> QED
  BY <1>1, <1>2, <1>3

(* process_subset with one contribution *)
Accepted(es, t, n, p, val, enc, S) ==
    /\ OnlyFor(es, t, p, val)
    /\ Entry(t.decryption[p], n, p, val, enc, es.accepted_proposers \cup {p}, t.sent \cup S)

LEMMA AcceptInv ==
    ASSUME NEW es, NEW n, NEW val, NEW enc, NEW S, Agreed(val), EsInv(es, n, val, enc, S), NEW p \in DOMAIN val
    PROVE  Accepted(es, Accept(es, n, p, val[p], enc), n, p, val, enc, S)
<1> DEFINE d == es.decryption[p]
           u == IF enc THEN SendDecryptionShare(es, n, p, val[p])
                ELSE [es EXCEPT !.decryption[p] = Complete(val[p])]
           t == Accept(es, n, p, val[p], enc)
<1>0. /\ es \in EsState /\ Entry(d, n, p, val, enc, es.accepted_proposers, es.sent \cup S)
      /\ TdInv(d, n, val[p], p \in DOMAIN val) /\ val[p] \in Values /\ p \in Validators
      /\ es.decryption \in [Validators -> TdState]
  BY DEF EsInv, Entry, Agreed, EsState
<1>1. OnlyFor(es, u, p, val) /\ u.accepted_proposers = es.accepted_proposers
      /\ Entry(u.decryption[p], n, p, val, enc, es.accepted_proposers \cup {p}, u.sent \cup S)
  <2>1. CASE ~enc
    <3> DEFINE c == Complete(val[p])
    <3>1. u = [es EXCEPT !.decryption[p] = c]
      BY <2>1
    <3>2. c \in TdState /\ IsComplete(c) /\ TdInv(c, n, val[p], p \in DOMAIN val)
      BY <1>0, CompleteFacts DEF TdInv
    <3> HIDE DEF c, u
    <3>3. [es.decryption EXCEPT ![p] = c] \in [Validators -> TdState]
      BY <1>0, <3>2
    <3>4. /\ u \in EsState /\ u.subset_handler = es.subset_handler /\ u.complete = es.complete /\ u.held = es.held
          /\ u.accepted_proposers = es.accepted_proposers /\ u.sent = es.sent
          /\ u.decryption = [es.decryption EXCEPT ![p] = c]
      BY <1>0, <3>1, <3>3 DEF EsState
    <3>5. u.decryption[p] = c /\ \A q \in Validators : q # p => u.decryption[q] = es.decryption[q]
      BY <1>0, <3>4
    <3> QED
      BY <2>1, <3>2, <3>4, <3>5 DEF OnlyFor, Entry
  <2>2. CASE enc /\ val[p] \in {"garbled", "invalid"}
    <3>1. u = [es EXCEPT !.faults = @ \cup {p}]
      BY <2>2 DEF SendDecryptionShare, EsBlame
    <3>2. es.faults \cup {p} \in SUBSET Faulty
      BY <1>0, <2>2 DEF Agreed, EsState
    <3> HIDE DEF u
    <3>3. /\ u \in EsState /\ u.subset_handler = es.subset_handler /\ u.complete = es.complete /\ u.held = es.held
          /\ u.accepted_proposers = es.accepted_proposers /\ u.sent = es.sent /\ u.decryption = es.decryption
      BY <1>0, <3>1, <3>2 DEF EsState
    <3> QED
      BY <1>0, <2>2, <3>3 DEF OnlyFor, Entry
  <2>3. CASE enc /\ val[p] \notin {"garbled", "invalid"} /\ IsComplete(d)
    <3>1. u = es
      BY <2>3 DEF SendDecryptionShare
    <3> HIDE DEF u
    <3> QED
      BY <1>0, <2>3, <3>1 DEF OnlyFor, Entry
  <2>4. CASE enc /\ val[p] \notin {"garbled", "invalid"} /\ ~IsComplete(d)
    <3> DEFINE td == SetCiphertext(d, n, val[p])
    <3>1. u = ProcessDecryption(es, n, p, td)
      BY <2>4 DEF SendDecryptionShare
    <3>2. Settled(d, n, val[p], p \in DOMAIN val) /\ d.output = None
      BY <1>0, <2>4, TdInvFacts
    <3>3. Settled(td, n, val[p], p \in DOMAIN val) /\ td.had_input = TRUE
      <4> HIDE DEF d
      <4> QED
        BY <1>0, <3>2, SetCiphertextInv
    <3> HIDE DEF td, u
    <3>4. Processed(es, u, n, p, val, td)
      BY <1>0, <3>1, <3>3, ProcessDecryptionInv
    <3> QED
      BY <2>4, <3>3, <3>4 DEF Processed, Entry
  <2> QED
    BY <2>1, <2>2, <2>3, <2>4
<1>2. t = [u EXCEPT !.accepted_proposers = @ \cup {p}]
  BY DEF Accept
<1> HIDE DEF u
<1>3. u.accepted_proposers \cup {p} \in SUBSET Validators
  BY <1>0, <1>1 DEF EsState
<1>4. /\ t \in EsState /\ t.subset_handler = u.subset_handler /\ t.complete = u.complete /\ t.held = u.held
      /\ t.decryption = u.decryption /\ t.sent = u.sent
  BY <1>1, <1>2, <1>3 DEF EsState, OnlyFor
<1> HIDE DEF t
<1> QED
  BY <1>1, <1>4 DEF Accepted, OnlyFor, t

(* process_subset with several *)
AllAccepted(es, t, n, ps, val, enc, S) ==
    /\ t \in EsState /\ t.subset_handler = es.subset_handler /\ t.complete = es.complete /\ t.held = es.held
    /\ t.accepted_proposers = es.accepted_proposers \cup ps /\ t.sent \subseteq DOMAIN val
    /\ \A p \in Validators : Entry(t.decryption[p], n, p, val, enc, t.accepted_proposers, t.sent \cup S)

LEMMA AcceptAllInv ==
    ASSUME NEW es, NEW n, NEW val, NEW enc, NEW S, Agreed(val), EsInv(es, n, val, enc, S),
           NEW ps \in SUBSET (DOMAIN val)
    PROVE  AllAccepted(es, AcceptAll(es, n, ps, val, enc), n, ps, val, enc, S)
<1> DEFINE after == [p \in ps |-> Accept(es, n, p, val[p], enc)]
           decryption == [p \in Validators |-> IF p \in ps THEN after[p].decryption[p] ELSE es.decryption[p]]
           accepted == es.accepted_proposers \cup ps
           sent == es.sent \cup UNION {after[p].sent : p \in ps}
           faults == es.faults \cup UNION {after[p].faults : p \in ps}
           t == AcceptAll(es, n, ps, val, enc)
<1>0. /\ es \in EsState /\ DOMAIN val \subseteq Validators /\ es.sent \subseteq DOMAIN val
      /\ es.decryption \in [Validators -> TdState] /\ es.faults \in SUBSET Faulty
      /\ \A p \in Validators : Entry(es.decryption[p], n, p, val, enc, es.accepted_proposers, es.sent \cup S)
  BY DEF EsInv, Agreed, EsState
<1>1. \A p \in ps : Accepted(es, after[p], n, p, val, enc, S)
  BY AcceptInv
<1>2. t = [es EXCEPT !.decryption = decryption, !.accepted_proposers = accepted, !.sent = sent, !.faults = faults]
  BY <1>0 DEF AcceptAll, EsState
<1> HIDE DEF after
<1>3. \A p \in ps : after[p] \in EsState /\ after[p].sent \subseteq DOMAIN val
  BY <1>0, <1>1 DEF Accepted, OnlyFor
<1>4. decryption \in [Validators -> TdState]
  BY <1>0, <1>3 DEF EsState
<1>5. sent \in SUBSET Validators /\ sent \subseteq DOMAIN val /\ es.sent \subseteq sent
      /\ \A p \in ps : after[p].sent \subseteq sent
  BY <1>0, <1>3
<1>6. faults \in SUBSET Faulty
  BY <1>0, <1>3 DEF EsState
<1>7. accepted \in SUBSET Validators
  BY <1>0 DEF EsState
<1>8. ASSUME NEW p \in Validators PROVE Entry(decryption[p], n, p, val, enc, accepted, sent \cup S)
  <2>1. CASE p \in ps
    <3>1. decryption[p] = after[p].decryption[p]
      BY <2>1
    <3>2. Entry(after[p].decryption[p], n, p, val, enc, es.accepted_proposers \cup {p}, after[p].sent \cup S)
      BY <1>1, <2>1 DEF Accepted
    <3>3. after[p].sent \subseteq sent
      BY <1>5, <2>1
    <3> HIDE DEF decryption, sent
    <3> QED
      BY <2>1, <3>1, <3>2, <3>3 DEF Entry
  <2>2. CASE p \notin ps
    <3>1. decryption[p] = es.decryption[p]
      BY <2>2
    <3> HIDE DEF decryption, sent
    <3> QED
      BY <1>0, <1>5, <2>2, <3>1 DEF Entry
  <2> QED
    BY <2>1, <2>2
<1> HIDE DEF decryption, sent, faults
<1>9. /\ t \in EsState /\ t.subset_handler = es.subset_handler /\ t.complete = es.complete /\ t.held = es.held
      /\ t.accepted_proposers = accepted /\ t.sent = sent /\ t.decryption = decryption
  <2> HIDE DEF accepted
  <2> QED
    BY <1>0, <1>2, <1>4, <1>5, <1>6, <1>7 DEF EsState
<1> HIDE DEF t
<1> QED
  BY <1>5, <1>8, <1>9 DEF AllAccepted, t

(* process_subset on Done: only faulty nodes have sent shares for what is  *)
(* not accepted.                                                           *)
LEMMA FinishInv ==
    ASSUME NEW es, NEW t, NEW n, NEW val, NEW enc, NEW S, Agreed(val),
           EsInv(t, n, val, enc, S), t.accepted_proposers = DOMAIN val
    PROVE  LET u == Finish(es, t)
           IN  EsInv(u, n, val, enc, S) /\ u.accepted_proposers = DOMAIN val /\ u.held = t.held
<1> DEFINE unexpected == Validators \ DOMAIN val
           decryption == [p \in Validators |-> IF p \in unexpected THEN TdNew ELSE t.decryption[p]]
           faults == t.faults \cup UNION {sender_ids(t.decryption[p]) : p \in unexpected}
           u == Finish(es, t)
<1>0. /\ t \in EsState /\ DOMAIN val \in SUBSET Validators /\ t.decryption \in [Validators -> TdState]
      /\ t.faults \in SUBSET Faulty
      /\ \A p \in Validators : Entry(t.decryption[p], n, p, val, enc, t.accepted_proposers, t.sent \cup S)
  BY DEF EsInv, Agreed, EsState
<1>1. u = [t EXCEPT !.complete = DOMAIN val, !.decryption = decryption, !.faults = faults]
  BY <1>0 DEF Finish, EsState
<1>2. decryption \in [Validators -> TdState]
  BY <1>0, TdNewFacts
<1>3. \A p \in unexpected : sender_ids(t.decryption[p]) \subseteq Faulty
  <2> TAKE p \in unexpected
  <2>1. p \notin DOMAIN val /\ TdInv(t.decryption[p], n, val[p], p \in DOMAIN val)
    BY <1>0 DEF Entry
  <2> QED
    BY <2>1 DEF TdInv, Settled, Shares, sender_ids
<1>4. faults \in SUBSET Faulty
  BY <1>0, <1>3
<1>5. ASSUME NEW p \in Validators PROVE Entry(decryption[p], n, p, val, enc, t.accepted_proposers, t.sent \cup S)
  <2>1. CASE p \in DOMAIN val
    <3>1. decryption[p] = t.decryption[p]
      BY <2>1
    <3> HIDE DEF decryption
    <3> QED
      BY <1>0, <3>1
  <2>2. CASE p \notin DOMAIN val
    <3>1. decryption[p] = TdNew
      BY <2>2
    <3> HIDE DEF decryption
    <3> QED
      BY <2>2, <3>1, TdNewFacts DEF Entry
  <2> QED
    BY <2>1, <2>2
<1> HIDE DEF decryption, faults
<1>6. /\ u \in EsState /\ u.subset_handler = t.subset_handler /\ u.complete = DOMAIN val /\ u.held = t.held
      /\ u.accepted_proposers = t.accepted_proposers /\ u.sent = t.sent /\ u.decryption = decryption
  BY <1>0, <1>1, <1>2, <1>4 DEF EsState
<1> HIDE DEF u
<1> QED
  BY <1>5, <1>6 DEF EsInv, u

(* process_subset *)
SubsetProcessed(es, t, n, ps, val, enc, S) ==
    /\ EsInv(t, n, val, enc, S)
    /\ t.accepted_proposers \cup t.held = es.accepted_proposers \cup es.held \cup ps

LEMMA ProcessSubsetInv ==
    ASSUME NEW es, NEW n, NEW val, NEW enc, NEW S, Agreed(val), EsInv(es, n, val, enc, S), es.complete = None,
           NEW ps \in SUBSET (DOMAIN val), NEW done \in BOOLEAN,
           done => es.accepted_proposers \cup es.held \cup ps = DOMAIN val
    PROVE  SubsetProcessed(es, ProcessSubset(es, n, ps, done, val, enc), n, ps, val, enc, S)
<1> DEFINE through == LetThrough(es, ps, done)
           a == AcceptAll(es, n, through, val, enc)
           held == (es.held \cup ps) \ through
           t == [a EXCEPT !.held = held]
           u == ProcessSubset(es, n, ps, done, val, enc)
<1>0. es \in EsState /\ es.held \subseteq DOMAIN val /\ es.accepted_proposers \subseteq DOMAIN val
      /\ (es.subset_handler = "Incremental" => es.held = {}) /\ DOMAIN val \subseteq Validators
  BY DEF EsInv, Agreed
<1>1. /\ through \in SUBSET (DOMAIN val)
      /\ (es.held \cup ps) \ through \in SUBSET Validators
      /\ through \subseteq es.held \cup ps
      /\ (done => es.accepted_proposers \cup through = DOMAIN val)
      /\ (es.subset_handler = "Incremental" => held = {})
  BY <1>0 DEF LetThrough
<1>2. AllAccepted(es, a, n, through, val, enc, S)
  <2> HIDE DEF through
  <2> QED
    BY <1>1, AcceptAllInv
<1>3. u = IF done THEN Finish(es, t) ELSE t
  <2>1. a.held = es.held
    BY <1>2 DEF AllAccepted
  <2> QED
    BY <2>1 DEF ProcessSubset
<1> HIDE DEF through, a
<1>4. /\ t \in EsState /\ t.subset_handler = es.subset_handler /\ t.complete = None /\ t.held = held
      /\ t.accepted_proposers = es.accepted_proposers \cup through /\ t.sent = a.sent
      /\ t.decryption = a.decryption
  <2> HIDE DEF held
  <2>1. held \in SUBSET Validators
    BY <1>1 DEF held
  <2> QED
    BY <1>2, <2>1 DEF AllAccepted, EsState
<1>5. t.accepted_proposers \cup t.held = es.accepted_proposers \cup es.held \cup ps
  BY <1>1, <1>4
<1> HIDE DEF t
<1>6. EsInv(t, n, val, enc, S)
  <2>1. t.accepted_proposers \cup t.held \subseteq DOMAIN val
    BY <1>0, <1>5
  <2>2. t.sent \subseteq DOMAIN val
        /\ \A p \in Validators : Entry(t.decryption[p], n, p, val, enc, t.accepted_proposers, t.sent \cup S)
    BY <1>2, <1>4 DEF AllAccepted
  <2> QED
    BY <1>1, <1>4, <2>1, <2>2 DEF EsInv
<1>7. CASE ~done
  BY <1>3, <1>5, <1>6, <1>7 DEF SubsetProcessed
<1>8. CASE done
  <2>1. t.accepted_proposers = DOMAIN val
    BY <1>1, <1>4, <1>8
  <2>2. LET f == Finish(es, t)
        IN  EsInv(f, n, val, enc, S) /\ f.accepted_proposers = DOMAIN val /\ f.held = t.held
    BY <1>6, <2>1, FinishInv
  <2> HIDE DEF u
  <2> QED
    BY <1>3, <1>5, <1>8, <2>1, <2>2 DEF SubsetProcessed, u
<1> QED
  BY <1>7, <1>8

LEMMA EsNewInv ==
    ASSUME NEW strategy \in Strategies, NEW n, NEW val, NEW enc, NEW S
    PROVE  LET es == EsNew(strategy)
           IN  /\ EsInv(es, n, val, enc, S) /\ ~CanOutput(es)
               /\ es.accepted_proposers = {} /\ es.held = {} /\ es.sent = {}
<1> DEFINE es == EsNew(strategy)
<1>1. [p \in Validators |-> TdNew] \in [Validators -> TdState]
  BY TdNewFacts
<1>2. /\ es \in EsState /\ es.complete = None /\ es.held = {} /\ es.accepted_proposers = {} /\ es.sent = {}
      /\ es.decryption = [p \in Validators |-> TdNew]
  BY <1>1 DEF EsNew, EsState
<1> HIDE DEF es
<1>3. ASSUME NEW p \in Validators PROVE Entry(es.decryption[p], n, p, val, enc, es.accepted_proposers, es.sent \cup S)
  <2>1. es.decryption[p] = TdNew
    BY <1>2
  <2> QED
    BY <1>2, <2>1, TdNewFacts DEF Entry
<1> QED
  BY <1>2, <1>3 DEF EsInv, CanOutput, accepted_ids, es

(* A batch is output when all its contributions are decrypted, and then it *)
(* holds exactly those that deserialize.                                   *)
Good(val) == {p \in DOMAIN val : val[p] = "ok"}

LEMMA BatchFacts ==
    ASSUME NEW es, NEW n, NEW val, NEW enc, NEW S, Agreed(val), EsInv(es, n, val, enc, S), CanOutput(es)
    PROVE  /\ Contributors(es) = Good(val) /\ BatchFaults(es) \subseteq Faulty
           /\ es.accepted_proposers = DOMAIN val
           /\ enc /\ is_validator(n) => DOMAIN val \subseteq es.sent \cup S
<1>1. es.complete = DOMAIN val /\ es.accepted_proposers = DOMAIN val /\ DOMAIN val \subseteq Validators
  BY DEF CanOutput, accepted_ids, EsInv, Agreed
<1>2. \A p \in DOMAIN val : IsComplete(es.decryption[p]) /\ Entry(es.decryption[p], n, p, val, enc, es.accepted_proposers, es.sent \cup S)
  BY <1>1 DEF CanOutput, accepted_ids, EsInv
<1>3. ASSUME NEW p \in DOMAIN val PROVE es.decryption[p].output = val[p]
  <2>1. TdInv(es.decryption[p], n, val[p], p \in DOMAIN val) /\ IsComplete(es.decryption[p]) /\ val[p] \in Values
    BY <1>2 DEF Entry, Agreed
  <2> QED
    BY <2>1, TdInvFacts
<1>4. Contributors(es) = Good(val)
  BY <1>1, <1>3 DEF Contributors, accepted_ids, Good
<1>5. BatchFaults(es) \subseteq Faulty
  BY <1>1, <1>4 DEF BatchFaults, accepted_ids, Good, Agreed
<1>6. enc /\ is_validator(n) => DOMAIN val \subseteq es.sent \cup S
  BY <1>2 DEF Entry
<1> QED
  BY <1>1, <1>4, <1>5, <1>6
-----------------------------------------------------------------------------
(* The state s of node n, where Subset accepts the contributions A[e] for  *)
(* epoch e.                                                                *)

Outputs == UNION {[0 .. k - 1 -> SUBSET Validators] : k \in 0 .. LastEpoch + 1}

HbState ==
    [epoch : 0 .. LastEpoch + 1, has_input : BOOLEAN, epochs : [Epochs -> EsState], strategy : Strategies,
     proposed : SUBSET Epochs, output : Outputs, faults : SUBSET Faulty, sent : SUBSET (Epochs \X Validators)]

SentFor(s, e) == {p \in Validators : <<e, p>> \in s.sent}

Log(A, k) == [e \in 0 .. k - 1 |-> Good(A[e])]

AllAgreed(A) == \A e \in Epochs : Agreed(A[e])

NodeInv(s, n, A) ==
    /\ s \in HbState
    /\ s.output = Log(A, s.epoch)
    /\ s.has_input = TRUE => s.epoch \in s.proposed
    /\ \A e \in Epochs :
          /\ EsInv(s.epochs[e], n, A[e], Encrypted(e), SentFor(s, e)) /\ s.epochs[e].sent = {}
          /\ SentFor(s, e) \subseteq DOMAIN A[e]
          /\ e < s.epoch /\ Encrypted(e) /\ is_validator(n) => DOMAIN A[e] \subseteq SentFor(s, e)

(* Nothing that can be output is kept back. *)
UpToDate(s) == s.epoch \in Epochs => ~CanOutput(s.epochs[s.epoch])

(* What counts as contributed was proposed, P being who proposed when. *)
Backed(s, A, P) ==
    \A e \in Epochs, p \in Runners :
        p \in Contributed(s, e) \/ (e < s.epoch /\ p \in DOMAIN A[e]) => e \in P[p]

LEMMA EpochFacts == LastEpoch \in Nat /\ Epochs \subseteq Nat /\ Epochs = 0 .. LastEpoch
BY HoneyBadgerAssumption DEF Epochs

LEMMA LogFacts ==
    ASSUME NEW A, AllAgreed(A), NEW k \in 0 .. LastEpoch + 1
    PROVE  Log(A, k) \in Outputs
<1>1. \A e \in 0 .. k - 1 : e \in Epochs
  BY EpochFacts
<1>2. \A e \in 0 .. k - 1 : Good(A[e]) \in SUBSET Validators
  BY <1>1 DEF Good, AllAgreed, Agreed
<1>3. Log(A, k) \in [0 .. k - 1 -> SUBSET Validators]
  BY <1>2 DEF Log
<1> QED
  BY <1>3 DEF Outputs

(* The state of epoch e is replaced. *)
PutIn(s, t, e, es) ==
    /\ t.epoch = s.epoch /\ t.has_input = s.has_input /\ t.proposed = s.proposed
    /\ Contributed(t, e) = es.accepted_proposers \cup es.held
    /\ \A d \in Epochs : d # e => Contributed(t, d) = Contributed(s, d)

LEMMA PutInv ==
    ASSUME NEW s, NEW n, NEW A, AllAgreed(A), NodeInv(s, n, A), NEW e \in Epochs, NEW es,
           EsInv(es, n, A[e], Encrypted(e), SentFor(s, e))
    PROVE  NodeInv(Put(s, e, es), n, A) /\ PutIn(s, Put(s, e, es), e, es)
<1> DEFINE t == Put(s, e, es)
           c == [es EXCEPT !.sent = {}, !.faults = {}]
           sent == s.sent \cup {<<e, p>> : p \in es.sent}
           faults == s.faults \cup es.faults
<1>0. /\ s \in HbState /\ es \in EsState /\ s.epochs \in [Epochs -> EsState]
      /\ s.sent \in SUBSET (Epochs \X Validators) /\ es.sent \in SUBSET Validators
      /\ es.sent \subseteq DOMAIN A[e]
  BY DEF NodeInv, EsInv, HbState, EsState
<1>1. /\ c \in EsState /\ c.subset_handler = es.subset_handler /\ c.complete = es.complete /\ c.held = es.held
      /\ c.accepted_proposers = es.accepted_proposers /\ c.decryption = es.decryption /\ c.sent = {}
  BY <1>0 DEF EsState
<1>2. sent \in SUBSET (Epochs \X Validators) /\ faults \in SUBSET Faulty
  BY <1>0 DEF HbState, EsState
<1>3. t = [s EXCEPT !.epochs[e] = c, !.sent = sent, !.faults = faults]
  BY DEF Put
<1> HIDE DEF c
<1>4. [s.epochs EXCEPT ![e] = c] \in [Epochs -> EsState]
  BY <1>0, <1>1
<1>5. /\ t \in HbState /\ t.epoch = s.epoch /\ t.has_input = s.has_input /\ t.proposed = s.proposed
      /\ t.output = s.output /\ t.epochs = [s.epochs EXCEPT ![e] = c] /\ t.sent = sent
  <2> HIDE DEF sent, faults
  <2> QED
    BY <1>0, <1>2, <1>3, <1>4 DEF HbState
<1> HIDE DEF t
<1>6. t.epochs[e] = c /\ \A d \in Epochs : d # e => t.epochs[d] = s.epochs[d]
  BY <1>0, <1>5
<1>7. SentFor(t, e) = SentFor(s, e) \cup es.sent
  BY <1>0, <1>5 DEF SentFor
<1>8. \A d \in Epochs : d # e => SentFor(t, d) = SentFor(s, d)
  BY <1>5 DEF SentFor
<1>9. ASSUME NEW d \in Epochs
      PROVE  /\ EsInv(t.epochs[d], n, A[d], Encrypted(d), SentFor(t, d)) /\ t.epochs[d].sent = {}
             /\ SentFor(t, d) \subseteq DOMAIN A[d]
             /\ d < t.epoch /\ Encrypted(d) /\ is_validator(n) => DOMAIN A[d] \subseteq SentFor(t, d)
  <2>1. CASE d # e
    BY <1>5, <1>6, <1>8, <2>1 DEF NodeInv
  <2>2. CASE d = e
    <3>1. c.sent \cup SentFor(t, e) = es.sent \cup SentFor(s, e)
      BY <1>1, <1>7
    <3>2. EsInv(c, n, A[e], Encrypted(e), SentFor(t, e))
      BY <1>1, <3>1 DEF EsInv
    <3>3. SentFor(t, e) \subseteq DOMAIN A[e]
      BY <1>0, <1>7 DEF NodeInv
    <3>4. e < t.epoch /\ Encrypted(e) /\ is_validator(n) => DOMAIN A[e] \subseteq SentFor(t, e)
      BY <1>5, <1>7 DEF NodeInv
    <3> QED
      BY <1>1, <1>6, <2>2, <3>2, <3>3, <3>4
  <2> QED
    BY <2>1, <2>2
<1>10. NodeInv(t, n, A)
  BY <1>5, <1>9 DEF NodeInv
<1>11. PutIn(s, t, e, es)
  BY <1>1, <1>5, <1>6 DEF PutIn, Contributed
<1> QED
  BY <1>10, <1>11 DEF t

(* Where the loop of try_output_batches ends: there is such an epoch. *)
LEMMA NextIncompleteFacts ==
    ASSUME NEW s, s.epoch \in 0 .. LastEpoch + 1
    PROVE  LET k == NextIncomplete(s)
           IN  /\ k \in s.epoch .. LastEpoch + 1 /\ (k \in Epochs => ~CanOutput(s.epochs[k]))
               /\ \A e \in s.epoch .. k - 1 : CanOutput(s.epochs[e])
<1> DEFINE T == {k \in s.epoch .. LastEpoch + 1 : k \in Epochs => ~CanOutput(s.epochs[k])}
<1>1. LastEpoch + 1 \in T
  BY EpochFacts
<1>2. T \in SUBSET Nat
  BY EpochFacts
<1>3. PICK k \in T : \A j \in T : k <= j
  BY <1>1, <1>2, Least
<1>4. ASSUME NEW e \in s.epoch .. k - 1 PROVE CanOutput(s.epochs[e])
  <2>1. e \in s.epoch .. LastEpoch + 1 /\ ~(k <= e)
    BY <1>2, EpochFacts
  <2> QED
    BY <1>3, <2>1
<1>5. \E k0 \in s.epoch .. LastEpoch + 1 :
         /\ k0 \in Epochs => ~CanOutput(s.epochs[k0])
         /\ \A e \in s.epoch .. k0 - 1 : CanOutput(s.epochs[e])
  BY <1>4
<1> HIDE DEF T
<1> QED
  BY <1>5 DEF NextIncomplete

(* try_output_batches *)
CaughtUp(s, t, n, A, P) ==
    /\ NodeInv(t, n, A) /\ UpToDate(t) /\ Backed(t, A, P)
    /\ t.epoch >= s.epoch /\ t.proposed = s.proposed

LEMMA TryOutputBatchesInv ==
    ASSUME NEW s, NEW n, NEW A, NEW P, AllAgreed(A), NodeInv(s, n, A), Backed(s, A, P)
    PROVE  CaughtUp(s, TryOutputBatches(s), n, A, P)
<1> DEFINE k == NextIncomplete(s)
           t == TryOutputBatches(s)
           epochs == [e \in Epochs |-> IF e < k THEN EsNew(s.strategy) ELSE s.epochs[e]]
           output == [e \in 0 .. k - 1 |-> IF e < s.epoch THEN s.output[e] ELSE Contributors(s.epochs[e])]
           faults == s.faults \cup UNION {BatchFaults(s.epochs[e]) : e \in s.epoch .. k - 1}
           has_input == s.has_input /\ k = s.epoch
<1>0. /\ s \in HbState /\ s.epoch \in 0 .. LastEpoch + 1 /\ s.strategy \in Strategies /\ s.epochs \in [Epochs -> EsState]
      /\ s.faults \in SUBSET Faulty /\ s.output = Log(A, s.epoch) /\ s.has_input \in BOOLEAN
  BY DEF NodeInv, HbState
<1>1. /\ k \in s.epoch .. LastEpoch + 1 /\ (k \in Epochs => ~CanOutput(s.epochs[k]))
      /\ \A e \in s.epoch .. k - 1 : CanOutput(s.epochs[e])
  BY <1>0, NextIncompleteFacts
<1>2. t = [s EXCEPT !.epoch = k, !.has_input = has_input, !.epochs = epochs, !.output = output, !.faults = faults]
  BY <1>0 DEF TryOutputBatches, Advance, HbState
<1> HIDE DEF k, has_input
<1>3. k \in 0 .. LastEpoch + 1 /\ k \in Nat /\ s.epoch \in Nat /\ s.epoch <= k
  BY <1>0, <1>1, EpochFacts
<1>4. ASSUME NEW e \in s.epoch .. k - 1
      PROVE  /\ e \in Epochs /\ Contributors(s.epochs[e]) = Good(A[e]) /\ BatchFaults(s.epochs[e]) \subseteq Faulty
             /\ s.epochs[e].accepted_proposers = DOMAIN A[e]
             /\ Encrypted(e) /\ is_validator(n) => DOMAIN A[e] \subseteq SentFor(s, e)
  <2>1. e \in Epochs /\ CanOutput(s.epochs[e])
    BY <1>1, <1>3, EpochFacts
  <2>2. EsInv(s.epochs[e], n, A[e], Encrypted(e), SentFor(s, e)) /\ Agreed(A[e])
    BY <2>1 DEF NodeInv, AllAgreed
  <2>3. /\ Contributors(s.epochs[e]) = Good(A[e]) /\ BatchFaults(s.epochs[e]) \subseteq Faulty
        /\ s.epochs[e].accepted_proposers = DOMAIN A[e]
        /\ Encrypted(e) /\ is_validator(n) => DOMAIN A[e] \subseteq s.epochs[e].sent \cup SentFor(s, e)
    BY <2>1, <2>2, BatchFacts
  <2> QED
    BY <2>1, <2>3 DEF NodeInv
<1>5. output = Log(A, k)
  <2>1. \A e \in 0 .. k - 1 : e < s.epoch => s.output[e] = Good(A[e])
    BY <1>0, <1>3 DEF Log
  <2>2. \A e \in 0 .. k - 1 : ~(e < s.epoch) => e \in s.epoch .. k - 1
    BY <1>3
  <2> QED
    BY <1>4, <2>1, <2>2 DEF Log
<1>6. faults \in SUBSET Faulty
  BY <1>0, <1>4
<1>7. epochs \in [Epochs -> EsState]
  BY <1>0, EsNewInv DEF EsInv
<1>8. has_input \in BOOLEAN /\ (has_input = TRUE => s.has_input = TRUE /\ k = s.epoch)
  BY <1>0 DEF has_input
<1>9. Log(A, k) \in Outputs
  BY <1>3, LogFacts
<1> HIDE DEF output, faults
<1>10. /\ t \in HbState /\ t.epoch = k /\ t.has_input = has_input /\ t.epochs = epochs /\ t.output = Log(A, k)
       /\ t.sent = s.sent /\ t.proposed = s.proposed
  <2> HIDE DEF epochs
  <2> QED
    BY <1>0, <1>2, <1>3, <1>5, <1>6, <1>7, <1>8, <1>9 DEF HbState
<1>11. \A e \in Epochs : epochs[e] = IF e < k THEN EsNew(s.strategy) ELSE s.epochs[e]
  OBVIOUS
<1>12. \A e \in Epochs : SentFor(t, e) = SentFor(s, e)
  BY <1>10 DEF SentFor
<1> HIDE DEF t, epochs
<1>13. ASSUME NEW e \in Epochs
       PROVE  /\ EsInv(t.epochs[e], n, A[e], Encrypted(e), SentFor(t, e)) /\ t.epochs[e].sent = {}
              /\ SentFor(t, e) \subseteq DOMAIN A[e]
              /\ e < t.epoch /\ Encrypted(e) /\ is_validator(n) => DOMAIN A[e] \subseteq SentFor(t, e)
  <2>1. SentFor(t, e) = SentFor(s, e) /\ SentFor(s, e) \subseteq DOMAIN A[e]
    BY <1>12 DEF NodeInv
  <2>2. EsInv(t.epochs[e], n, A[e], Encrypted(e), SentFor(t, e)) /\ t.epochs[e].sent = {}
    <3>1. CASE e < k
      <4>1. t.epochs[e] = EsNew(s.strategy)
        BY <1>10, <1>11, <3>1
      <4> QED
        BY <1>0, <4>1, EsNewInv
    <3>2. CASE ~(e < k)
      <4>1. t.epochs[e] = s.epochs[e]
        BY <1>10, <1>11, <3>2
      <4> QED
        BY <2>1, <4>1 DEF NodeInv
    <3> QED
      BY <3>1, <3>2
  <2>3. e < t.epoch /\ Encrypted(e) /\ is_validator(n) => DOMAIN A[e] \subseteq SentFor(s, e)
    <3>1. CASE e < s.epoch
      BY <3>1 DEF NodeInv
    <3>2. CASE ~(e < s.epoch) /\ e < k
      <4>1. e \in s.epoch .. k - 1
        BY <1>3, <3>2, EpochFacts
      <4> QED
        BY <1>4, <4>1
    <3> QED
      BY <1>10, <3>1, <3>2
  <2> QED
    BY <2>1, <2>2, <2>3
<1>14. t.has_input = TRUE => t.epoch \in t.proposed
  BY <1>8, <1>10 DEF NodeInv
<1>15. NodeInv(t, n, A)
  BY <1>10, <1>13, <1>14 DEF NodeInv
<1>16. UpToDate(t)
  <2>1. ASSUME k \in Epochs PROVE t.epochs[k] = s.epochs[k]
    BY <1>3, <1>10, <1>11, <2>1
  <2> QED
    BY <1>1, <1>10, <2>1 DEF UpToDate
<1>17. Backed(t, A, P)
  <2> SUFFICES ASSUME NEW e \in Epochs, NEW p \in Runners,
                      p \in Contributed(t, e) \/ (e < t.epoch /\ p \in DOMAIN A[e])
               PROVE  e \in P[p]
    BY DEF Backed
  <2>1. CASE e < k
    <3>1. p \in DOMAIN A[e]
      BY <1>15 DEF NodeInv, EsInv, Contributed
    <3>2. CASE e < s.epoch
      BY <3>1, <3>2 DEF Backed
    <3>3. CASE ~(e < s.epoch)
      <4>1. e \in s.epoch .. k - 1
        BY <1>3, <2>1, <3>3, EpochFacts
      <4>2. p \in Contributed(s, e)
        BY <1>4, <3>1, <4>1 DEF Contributed
      <4> QED
        BY <4>2 DEF Backed
    <3> QED
      BY <3>2, <3>3
  <2>2. CASE ~(e < k)
    <3>1. t.epochs[e] = s.epochs[e] /\ ~(e < t.epoch)
      BY <1>10, <1>11, <2>2
    <3>2. p \in Contributed(s, e)
      BY <3>1 DEF Contributed
    <3> QED
      BY <3>2 DEF Backed
  <2> QED
    BY <2>1, <2>2
<1> QED
  BY <1>3, <1>10, <1>15, <1>16, <1>17 DEF CaughtUp, t
-----------------------------------------------------------------------------
(* The whole network *)

Proposed == [m \in Runners |-> node[m].proposed]

IInv ==
    /\ agreed \in Agreements
    /\ node \in [Runners -> HbState]
    /\ \A n \in Runners : NodeInv(node[n], n, agreed) /\ UpToDate(node[n]) /\ Backed(node[n], agreed, Proposed)

LEMMA AgreedFacts ==
    ASSUME agreed \in Agreements
    PROVE  AllAgreed(agreed) /\ \A e \in Epochs : Cardinality(DOMAIN agreed[e]) >= num_correct
BY HoneyBadgerAssumption DEF AllAgreed, Agreed

LEMMA InitInv == Init => IInv
<1> SUFFICES ASSUME Init PROVE IInv
  OBVIOUS
<1>1. PICK strategy \in [Runners -> Handling] : node = [n \in Runners |-> New(strategy[n])]
  BY DEF Init
<1>2. agreed \in Agreements /\ AllAgreed(agreed)
  BY AgreedFacts DEF Init
<1>3. ASSUME NEW n \in Runners
      PROVE  node[n] \in HbState /\ NodeInv(node[n], n, agreed) /\ UpToDate(node[n]) /\ Backed(node[n], agreed, Proposed)
  <2> DEFINE h == strategy[n]
             s == New(h)
             epochs == [e \in Epochs |-> EsNew(h)]
             empty == [e \in 0 .. -1 |-> {}]
  <2>1. node[n] = s /\ h \in Strategies
    BY <1>1, HoneyBadgerAssumption
  <2> HIDE DEF h
  <2>2. empty = Log(agreed, 0)
    BY DEF Log
  <2>3. empty \in Outputs
    BY <1>2, <2>2, EpochFacts, LogFacts
  <2>4. epochs \in [Epochs -> EsState] /\ \A e \in Epochs : epochs[e] = EsNew(h)
    BY <2>1, EsNewInv DEF EsInv
  <2> HIDE DEF epochs, empty
  <2>5. s = [epoch |-> 0, has_input |-> FALSE, epochs |-> epochs, strategy |-> h,
             proposed |-> {}, output |-> empty, faults |-> {}, sent |-> {}]
    BY DEF New, epochs, empty
  <2>6. /\ s \in HbState /\ s.epoch = 0 /\ s.has_input = FALSE /\ s.epochs = epochs /\ s.output = empty
        /\ s.sent = {}
    BY <2>1, <2>3, <2>4, <2>5, EpochFacts DEF HbState
  <2> HIDE DEF s
  <2>7. \A e \in Epochs : SentFor(s, e) = {}
    BY <2>6 DEF SentFor
  <2>8. ASSUME NEW e \in Epochs
        PROVE  /\ EsInv(s.epochs[e], n, agreed[e], Encrypted(e), SentFor(s, e)) /\ s.epochs[e].sent = {}
               /\ SentFor(s, e) \subseteq DOMAIN agreed[e] /\ ~(e < s.epoch)
               /\ ~CanOutput(s.epochs[e]) /\ Contributed(s, e) = {}
    <3>1. s.epochs[e] = EsNew(h)
      BY <2>4, <2>6
    <3>2. ~(e < s.epoch)
      BY <2>6, EpochFacts
    <3> QED
      BY <2>1, <2>7, <3>1, <3>2, EsNewInv DEF Contributed
  <2>9. NodeInv(s, n, agreed)
    BY <2>2, <2>6, <2>8 DEF NodeInv
  <2>10. UpToDate(s) /\ Backed(s, agreed, Proposed)
    BY <2>8 DEF UpToDate, Backed
  <2> QED
    BY <2>1, <2>6, <2>9, <2>10
<1>4. node \in [Runners -> HbState]
  BY <1>1, <1>3
<1> QED
  BY <1>2, <1>3, <1>4 DEF IInv

(* What every action does to the node that takes it *)
Moved(n, t) ==
    /\ node' = [node EXCEPT ![n] = t] /\ agreed' = agreed
    /\ NodeInv(t, n, agreed) /\ UpToDate(t) /\ Backed(t, agreed, Proposed')
    /\ t.epoch >= node[n].epoch
    /\ t.proposed \in {node[n].proposed, node[n].proposed \cup {node[n].epoch}}

LEMMA BecomesInv ==
    ASSUME IInv, NEW n \in Runners, NEW s, NodeInv(s, n, agreed),
           s.epoch = node[n].epoch, s.epochs = node[n].epochs,
           s.proposed \in {node[n].proposed, node[n].proposed \cup {node[n].epoch}},
           NEW e \in Epochs, NEW es, EsInv(es, n, agreed[e], Encrypted(e), SentFor(s, e)),
           \A p \in Runners : p \in es.accepted_proposers \cup es.held =>
              p \in Contributed(s, e) \/ e \in node[p].proposed \/ (p = n /\ e \in s.proposed),
           Becomes(n, s, e, es)
    PROVE  \E t : Moved(n, t)
<1> DEFINE u == Put(s, e, es)
           t == TryOutputBatches(u)
           P == [m \in Runners |-> IF m = n THEN s.proposed ELSE node[m].proposed]
<1>0. AllAgreed(agreed) /\ node \in [Runners -> HbState] /\ Backed(node[n], agreed, Proposed)
  BY AgreedFacts DEF IInv
<1>1. NodeInv(u, n, agreed) /\ PutIn(s, u, e, es)
  BY <1>0, PutInv
<1>2. \A p \in Runners : node[p].proposed \subseteq P[p] /\ Proposed[p] = node[p].proposed
  BY DEF Proposed
<1>3. P[n] = s.proposed
  OBVIOUS
<1>4. Backed(s, agreed, P)
  <2> HIDE DEF P
  <2> QED
    BY <1>0, <1>2 DEF Backed, Contributed
<1> HIDE DEF u, P
<1>5. Backed(u, agreed, P)
  <2> SUFFICES ASSUME NEW d \in Epochs, NEW p \in Runners,
                      p \in Contributed(u, d) \/ (d < u.epoch /\ p \in DOMAIN agreed[d])
               PROVE  d \in P[p]
    BY DEF Backed
  <2>1. CASE d # e \/ (d < u.epoch /\ p \in DOMAIN agreed[d])
    BY <1>1, <1>4, <2>1 DEF PutIn, Backed
  <2>2. CASE d = e /\ p \in Contributed(u, d)
    <3>1. p \in Contributed(s, e) \/ e \in node[p].proposed \/ (p = n /\ e \in s.proposed)
      BY <1>1, <2>2 DEF PutIn
    <3> QED
      BY <1>2, <1>3, <1>4, <2>2, <3>1 DEF Backed
  <2> QED
    BY <2>1, <2>2
<1>6. CaughtUp(u, t, n, agreed, P)
  BY <1>0, <1>1, <1>5, TryOutputBatchesInv
<1>7. node' = [node EXCEPT ![n] = t] /\ agreed' = agreed
  BY DEF Becomes, u
<1> HIDE DEF t
<1>8. t.proposed = s.proposed /\ t.epoch >= node[n].epoch
  BY <1>1, <1>6 DEF CaughtUp, PutIn
<1>9. Proposed' = P
  <2>1. \A m \in Runners : node'[m].proposed = IF m = n THEN s.proposed ELSE node[m].proposed
    BY <1>0, <1>7, <1>8
  <2> QED
    BY <2>1 DEF Proposed, P
<1>10. Moved(n, t)
  BY <1>6, <1>7, <1>8, <1>9 DEF Moved, CaughtUp
<1> QED
  BY <1>10

(* Where n is the only validator, its own contribution is what is accepted.*)
LEMMA Alone ==
    ASSUME agreed \in Agreements, NEW n \in Validators, num_nodes = 1, NEW e \in Epochs
    PROVE  DOMAIN agreed[e] = {n}
<1>1. DOMAIN agreed[e] \subseteq Validators /\ Cardinality(DOMAIN agreed[e]) >= num_correct
  BY AgreedFacts DEF AllAgreed, Agreed
<1>2. PICK v : Validators = {v}
  BY NodesAssumption, FS_Singleton DEF num_nodes
<1>3. num_correct = 1
  BY Thresholds
<1>4. DOMAIN agreed[e] # {}
  BY <1>1, <1>3, FS_EmptySet
<1> QED
  BY <1>1, <1>2, <1>4

LEMMA ProposeInv ==
    ASSUME IInv, NEW n \in Runners, Propose(n)
    PROVE  \E t : Moved(n, t)
<1> DEFINE s == node[n]
           e == s.epoch
           es == s.epochs[e]
           proposed == s.proposed \cup {e}
           s0 == [s EXCEPT !.has_input = TRUE, !.proposed = @ \cup {s.epoch}]
           es0 == IF num_nodes = 1 /\ accepted_ids(es) = None
                    THEN ProcessSubset(es, n, {n}, TRUE, agreed[e], Encrypted(e))
                    ELSE es
<1>0. NodeInv(s, n, agreed) /\ s \in HbState /\ AllAgreed(agreed) /\ agreed \in Agreements
  BY AgreedFacts DEF IInv, NodeInv
<1>1. n \in Validators /\ e \in Epochs /\ Becomes(n, s0, e, es0)
  BY DEF Propose, is_validator
<1>2. proposed \in SUBSET Epochs
  BY <1>0, <1>1 DEF HbState
<1>3. s0 = [s EXCEPT !.has_input = TRUE, !.proposed = proposed]
  BY <1>0 DEF HbState
<1> HIDE DEF s, proposed, es0
<1>4. /\ s0 \in HbState /\ s0.epoch = e /\ s0.has_input = TRUE /\ s0.proposed = proposed /\ s0.epochs = s.epochs
      /\ s0.output = s.output /\ s0.sent = s.sent
  <2> HIDE DEF s0
  <2> QED
    BY <1>0, <1>2, <1>3 DEF HbState
<1> HIDE DEF s0
<1>5. \A d \in Epochs : SentFor(s0, d) = SentFor(s, d)
  BY <1>4 DEF SentFor
<1>6. NodeInv(s0, n, agreed)
  <2>1. s0.epoch \in s0.proposed
    BY <1>4 DEF proposed
  <2> QED
    BY <1>0, <1>4, <1>5, <2>1 DEF NodeInv
<1>7. EsInv(es, n, agreed[e], Encrypted(e), SentFor(s0, e)) /\ Agreed(agreed[e])
  BY <1>0, <1>1, <1>5 DEF NodeInv, AllAgreed
<1>8. /\ EsInv(es0, n, agreed[e], Encrypted(e), SentFor(s0, e))
      /\ es0.accepted_proposers \cup es0.held \subseteq Contributed(s0, e) \cup {n}
  <2>1. CASE num_nodes = 1 /\ accepted_ids(es) = None
    <3>1. es0 = ProcessSubset(es, n, {n}, TRUE, agreed[e], Encrypted(e))
      BY <2>1 DEF es0
    <3>2. DOMAIN agreed[e] = {n}
      BY <1>0, <1>1, <2>1, Alone
    <3>3. es.accepted_proposers \cup es.held \subseteq DOMAIN agreed[e] /\ es.complete = None
      BY <1>7, <2>1 DEF EsInv, accepted_ids
    <3>4. {n} \in SUBSET (DOMAIN agreed[e]) /\ es.accepted_proposers \cup es.held \cup {n} = DOMAIN agreed[e]
      BY <3>2, <3>3
    <3> HIDE DEF e, es
    <3>5. SubsetProcessed(es, es0, n, {n}, agreed[e], Encrypted(e), SentFor(s0, e))
      BY <1>7, <3>1, <3>3, <3>4, ProcessSubsetInv
    <3> QED
      BY <1>4, <3>5 DEF SubsetProcessed, Contributed, es
  <2>2. CASE ~(num_nodes = 1 /\ accepted_ids(es) = None)
    BY <1>4, <1>7, <2>2 DEF Contributed, es0
  <2> QED
    BY <2>1, <2>2
<1>9. \A p \in Runners : p \in es0.accepted_proposers \cup es0.held =>
         p \in Contributed(s0, e) \/ e \in node[p].proposed \/ (p = n /\ e \in s0.proposed)
  BY <1>4, <1>8 DEF proposed
<1>10. s0.proposed \in {node[n].proposed, node[n].proposed \cup {node[n].epoch}}
       /\ s0.epoch = node[n].epoch /\ s0.epochs = node[n].epochs
  BY <1>4 DEF proposed, s
<1> HIDE DEF e, es
<1> QED
  BY <1>1, <1>6, <1>8, <1>9, <1>10, BecomesInv

LEMMA SubsetOutputInv ==
    ASSUME IInv, NEW n \in Runners, NEW e \in Handled(node[n]), NEW ps \in SUBSET Forthcoming(node[n], e),
           NEW done \in BOOLEAN, SubsetOutput(n, e, ps, done)
    PROVE  \E t : Moved(n, t)
<1> DEFINE s == node[n]
           es == s.epochs[e]
           es0 == ProcessSubset(es, n, ps, done, agreed[e], Encrypted(e))
<1>0. NodeInv(s, n, agreed) /\ AllAgreed(agreed) /\ e \in Epochs
  BY AgreedFacts DEF IInv, Handled
<1>1. /\ es.complete = None /\ Becomes(n, s, e, es0)
      /\ done => es.accepted_proposers \cup es.held \cup ps = DOMAIN agreed[e]
  BY DEF SubsetOutput, accepted_ids, Contributed
<1>2. ps \in SUBSET (DOMAIN agreed[e]) /\ \A p \in ps \cap Runners : e \in node[p].proposed
  BY DEF Forthcoming
<1>3. EsInv(es, n, agreed[e], Encrypted(e), SentFor(s, e)) /\ Agreed(agreed[e])
  BY <1>0 DEF NodeInv, AllAgreed
<1>4. SubsetProcessed(es, es0, n, ps, agreed[e], Encrypted(e), SentFor(s, e))
  <2> HIDE DEF es
  <2> QED
    BY <1>1, <1>2, <1>3, ProcessSubsetInv
<1> HIDE DEF es0
<1>5. \A p \in Runners : p \in es0.accepted_proposers \cup es0.held =>
         p \in Contributed(s, e) \/ e \in node[p].proposed
  BY <1>2, <1>4 DEF SubsetProcessed, Contributed
<1>6. EsInv(es0, n, agreed[e], Encrypted(e), SentFor(s, e))
  BY <1>4 DEF SubsetProcessed
<1> HIDE DEF es
<1> QED
  BY <1>0, <1>1, <1>5, <1>6, BecomesInv

(* A correct node sends shares for accepted contributions only. *)
LEMMA SentFacts ==
    ASSUME IInv, NEW sender \in Validators, NEW e \in Epochs, NEW p \in Validators, Sent(sender, e, p)
    PROVE  p \in DOMAIN agreed[e]
<1>1. CASE sender \in Runners
  <2>1. p \in SentFor(node[sender], e)
    BY <1>1 DEF Sent, SentFor
  <2> QED
    BY <1>1, <2>1 DEF IInv, NodeInv
<1>2. CASE sender \notin Runners
  BY <1>2 DEF Sent
<1> QED
  BY <1>1, <1>2

LEMMA ReceiveShareInv ==
    ASSUME IInv, NEW n \in Runners, NEW sender \in Validators \ {n}, NEW e \in Epochs, NEW p \in Validators,
           NEW valid \in BOOLEAN, ReceiveShare(n, sender, e, p, valid)
    PROVE  \E t : Moved(n, t)
<1> DEFINE s == node[n]
           es == s.epochs[e]
<1>0. NodeInv(s, n, agreed) /\ s \in HbState /\ AllAgreed(agreed)
  BY AgreedFacts DEF IInv, NodeInv
<1>1. EsInv(es, n, agreed[e], Encrypted(e), SentFor(s, e)) /\ Agreed(agreed[e])
  BY <1>0 DEF NodeInv, AllAgreed
<1>2. sender \notin Faulty =>
         /\ valid /\ p \in DOMAIN agreed[e] /\ sender \notin sender_ids(es.decryption[p])
         /\ e <= s.epoch + max_future_epochs
  BY SentFacts DEF ReceiveShare, ShareArrives, Handled
<1>3. CASE e > s.epoch + max_future_epochs
  <2> DEFINE faults == s.faults \cup {sender}
             s0 == [s EXCEPT !.faults = @ \cup {sender}]
  <2>1. Becomes(n, s0, e, es)
    BY <1>3 DEF ReceiveShare
  <2>2. s.epoch \in Int /\ max_future_epochs \in Int /\ e \in Int
    BY <1>0, HoneyBadgerAssumption, EpochFacts DEF HbState
  <2>3. sender \in Faulty
    BY <1>2, <1>3, <2>2
  <2>4. faults \in SUBSET Faulty
    BY <1>0, <2>3 DEF HbState
  <2>5. s0 = [s EXCEPT !.faults = faults]
    BY <1>0 DEF HbState
  <2> HIDE DEF s, faults
  <2>6. /\ s0 \in HbState /\ s0.epoch = s.epoch /\ s0.has_input = s.has_input /\ s0.proposed = s.proposed
        /\ s0.epochs = s.epochs /\ s0.output = s.output /\ s0.sent = s.sent
    <3> HIDE DEF s0
    <3> QED
      BY <1>0, <2>4, <2>5 DEF HbState
  <2> HIDE DEF s0
  <2>7. \A d \in Epochs : SentFor(s0, d) = SentFor(s, d)
    BY <2>6 DEF SentFor
  <2>8. NodeInv(s0, n, agreed)
    BY <1>0, <2>6, <2>7 DEF NodeInv
  <2>9. EsInv(es, n, agreed[e], Encrypted(e), SentFor(s0, e))
    BY <1>1, <2>7
  <2>10. \A q \in Runners : q \in es.accepted_proposers \cup es.held => q \in Contributed(s0, e)
    BY <2>6 DEF Contributed
  <2>11. s0.epoch = node[n].epoch /\ s0.epochs = node[n].epochs /\ s0.proposed = node[n].proposed
    BY <2>6 DEF s
  <2> HIDE DEF es
  <2> QED
    BY <2>1, <2>8, <2>9, <2>10, <2>11, BecomesInv
<1>4. CASE ~(e > s.epoch + max_future_epochs)
  <2> DEFINE es0 == HandleShare(es, n, sender, p, valid)
  <2>1. Becomes(n, s, e, es0)
    BY <1>4 DEF ReceiveShare
  <2>2. /\ EsInv(es0, n, agreed[e], Encrypted(e), SentFor(s, e))
        /\ es0.accepted_proposers = es.accepted_proposers /\ es0.held = es.held
    <3> HIDE DEF es
    <3> QED
      BY <1>1, <1>2, HandleShareInv
  <2> HIDE DEF es0
  <2>3. \A q \in Runners : q \in es0.accepted_proposers \cup es0.held => q \in Contributed(s, e)
    BY <2>2 DEF Contributed
  <2> HIDE DEF es
  <2> QED
    BY <1>0, <2>1, <2>2, <2>3, BecomesInv
<1> QED
  BY <1>3, <1>4

LEMMA MovedInv ==
    ASSUME IInv, NEW n \in Runners, NEW t, Moved(n, t)
    PROVE  IInv'
<1>1. node \in [Runners -> HbState] /\ node' = [node EXCEPT ![n] = t] /\ agreed' = agreed /\ t \in HbState
  BY DEF IInv, Moved, NodeInv
<1>2. node' \in [Runners -> HbState] /\ node'[n] = t /\ \A m \in Runners : m # n => node'[m] = node[m]
  BY <1>1
<1>3. \A m \in Runners : Proposed[m] \subseteq Proposed'[m]
  BY <1>2 DEF Proposed, Moved
<1>4. ASSUME NEW m \in Runners
      PROVE  NodeInv(node'[m], m, agreed') /\ UpToDate(node'[m]) /\ Backed(node'[m], agreed', Proposed')
  <2>1. CASE m = n
    BY <1>1, <1>2, <2>1 DEF Moved
  <2>2. CASE m # n
    <3>1. NodeInv(node[m], m, agreed) /\ UpToDate(node[m]) /\ Backed(node[m], agreed, Proposed)
      BY DEF IInv
    <3>2. Backed(node[m], agreed, Proposed')
      BY <1>3, <3>1 DEF Backed
    <3> QED
      BY <1>1, <1>2, <2>2, <3>1, <3>2
  <2> QED
    BY <2>1, <2>2
<1>5. agreed' \in Agreements
  BY <1>1 DEF IInv
<1> QED
  BY <1>2, <1>4, <1>5 DEF IInv

LEMMA NextMoves ==
    ASSUME IInv, Next
    PROVE  \E n \in Runners : \E t : Moved(n, t)
<1>1. PICK n \in Runners :
         \/ Propose(n)
         \/ \E e \in Handled(node[n]) : \E ps \in SUBSET Forthcoming(node[n], e), done \in BOOLEAN :
               SubsetOutput(n, e, ps, done)
         \/ \E sender \in Validators \ {n}, e \in Epochs, p \in Validators, valid \in BOOLEAN :
               ReceiveShare(n, sender, e, p, valid)
  BY DEF Next
<1> QED
  BY <1>1, ProposeInv, SubsetOutputInv, ReceiveShareInv

(* Every call of propose or handle_message, on any node, keeps IInv. *)
THEOREM Invariant == Spec => []IInv
<1>1. IInv /\ [Next]_vars => IInv'
  <2> SUFFICES ASSUME IInv, [Next]_vars PROVE IInv'
    OBVIOUS
  <2>1. CASE Next
    BY <2>1, NextMoves, MovedInv
  <2>2. CASE UNCHANGED vars
    BY <2>2 DEF vars, IInv, Proposed
  <2> QED
    BY <2>1, <2>2
<1> QED
  BY InitInv, <1>1, PTL DEF Spec

(* fault_log.rs: no correct node is ever blamed. *)
THEOREM NoFalseAccusationTheorem == Spec => []NoFalseAccusation
<1>1. IInv => NoFalseAccusation
  BY DEF IInv, NodeInv, HbState, NoFalseAccusation
<1> QED
  BY <1>1, Invariant, PTL

(* threshold_decrypt.rs: a validator that leaves an encrypted epoch has    *)
(* sent its share of every accepted contribution.                          *)
THEOREM LeavesSharesTheorem == Spec => []LeavesShares
<1>1. IInv => LeavesShares
  <2> SUFFICES ASSUME IInv, NEW n \in Runners \cap Validators, NEW e \in Epochs,
                      e < node[n].epoch, Encrypted(e), NEW p \in DOMAIN agreed[e]
               PROVE  <<e, p>> \in node[n].sent
    BY DEF LeavesShares
  <2>1. DOMAIN agreed[e] \subseteq SentFor(node[n], e)
    BY DEF IInv, NodeInv, is_validator
  <2> QED
    BY <2>1 DEF SentFor
<1> QED
  BY <1>1, Invariant, PTL

(* The abstract log: what Subset accepts and deserializes, of which N - 2f *)
(* contributions or more are correct nodes'.                               *)
LEMMA InitImplements == Init => AB!Init
<1> SUFFICES ASSUME Init PROVE AB!Init
  OBVIOUS
<1> DEFINE log == [e \in Epochs |-> {p \in DOMAIN agreed[e] : agreed[e][p] = "ok"}]
           Batches == {b \in SUBSET Validators : Cardinality(b \ Faulty) >= num_correct - num_faulty}
<1>1. agreed \in Agreements /\ AllAgreed(agreed) /\ \A e \in Epochs : Cardinality(DOMAIN agreed[e]) >= num_correct
  BY AgreedFacts DEF Init
<1>2. ASSUME NEW e \in Epochs PROVE log[e] \in Batches
  <2> DEFINE all == DOMAIN agreed[e]
  <2>1. all \in SUBSET Validators /\ \A p \in all : p \notin Faulty => agreed[e][p] = "ok"
    BY <1>1 DEF AllAgreed, Agreed
  <2>2. log[e] \in SUBSET Validators /\ log[e] \ Faulty = all \ Faulty
    BY <2>1
  <2>3. Cardinality(all \ Faulty) >= Cardinality(all) - num_faulty /\ Cardinality(all \ Faulty) \in Nat
        /\ Cardinality(all) \in Nat /\ Cardinality(all) >= num_correct
    BY <1>1, <2>1, WithoutFaulty, Counting
  <2>4. Cardinality(all \ Faulty) >= num_correct - num_faulty
    <3> HIDE DEF all
    <3> QED
      BY <2>3, Thresholds
  <2> HIDE DEF log, all
  <2> QED
    BY <2>2, <2>4
<1>3. log \in [0 .. LastEpoch -> Batches]
  <2>1. log \in [Epochs -> Batches]
    <3> HIDE DEF Batches
    <3> QED
      BY <1>2
  <2> QED
    BY <2>1 DEF Epochs
<1>4. PICK strategy \in [Runners -> Handling] : node = [n \in Runners |-> New(strategy[n])]
  BY DEF Init
<1>5. \A n \in Runners : node[n].epoch = 0 /\ node[n].proposed = {} /\ node[n].output = [e \in 0 .. -1 |-> {}]
  BY <1>4 DEF New
<1>6. [e \in 0 .. -1 |-> {}] = [e \in 0 .. -1 |-> log[e]]
  OBVIOUS
<1> QED
  BY <1>3, <1>5, <1>6 DEF AB!Init

(* A call is a step of the abstract specification. *)
LEMMA MovedImplements ==
    ASSUME IInv, NEW n \in Runners, NEW t, Moved(n, t)
    PROVE  AB!Step(n)
<1> DEFINE log == [e \in Epochs |-> {p \in DOMAIN agreed[e] : agreed[e][p] = "ok"}]
           next == [m \in Runners |-> node[m].epoch]
           proposed == [m \in Runners |-> node[m].proposed]
           output == [m \in Runners |-> node[m].output]
           k == t.epoch
<1>1. node \in [Runners -> HbState] /\ node' = [node EXCEPT ![n] = t] /\ agreed' = agreed /\ t \in HbState
      /\ t.output = Log(agreed, k) /\ Backed(t, agreed, Proposed') /\ k >= node[n].epoch
      /\ t.proposed \in {node[n].proposed, node[n].proposed \cup {node[n].epoch}}
  BY DEF IInv, Moved, NodeInv
<1>2. node'[n] = t /\ \A m \in Runners : m # n => node'[m] = node[m]
  BY <1>1
<1>3. k \in 0 .. LastEpoch + 1 /\ node[n].epoch \in 0 .. LastEpoch + 1 /\ k \in node[n].epoch .. LastEpoch + 1
  BY <1>1, EpochFacts DEF HbState
<1> HIDE DEF k
<1>4. proposed' \in {proposed, [proposed EXCEPT ![n] = @ \cup {next[n]}]}
  <2>1. next[n] = node[n].epoch
    OBVIOUS
  <2>2. CASE t.proposed = node[n].proposed
    BY <1>2, <2>2
  <2>3. CASE t.proposed = node[n].proposed \cup {node[n].epoch}
    BY <1>2, <2>3
  <2> QED
    BY <1>1, <2>2, <2>3
<1>5. next' = [next EXCEPT ![n] = k]
  BY <1>2 DEF k
<1>6. Log(agreed, k) = [e \in 0 .. k - 1 |-> log[e]]
  <2>1. \A e \in 0 .. k - 1 : e \in Epochs
    BY <1>3, EpochFacts
  <2> QED
    BY <2>1 DEF Log, Good
<1>7. output' = [output EXCEPT ![n] = [e \in 0 .. k - 1 |-> log[e]]]
  <2> HIDE DEF log
  <2> QED
    BY <1>1, <1>2, <1>6
<1>8. ASSUME NEW e \in next[n] .. k - 1, NEW p \in log[e] \cap Runners PROVE e \in proposed'[p]
  <2>1. e \in Epochs /\ e < k
    BY <1>3, EpochFacts
  <2>2. p \in DOMAIN agreed[e]
    BY <2>1
  <2>3. e \in Proposed'[p]
    BY <1>1, <2>1, <2>2 DEF Backed, k
  <2> QED
    BY <2>3 DEF Proposed
<1>9. log' = log
  BY <1>1
<1>10. k \in next[n] .. LastEpoch + 1
  BY <1>3
<1> QED
  BY <1>4, <1>5, <1>7, <1>8, <1>9, <1>10 DEF AB!Step

(* honey_badger/mod.rs: the nodes output the same batches, one for each    *)
(* epoch and in order, of contributions that were made for that epoch.     *)
THEOREM ImplementsAtomicBroadcastTheorem == Spec => ImplementsAtomicBroadcast
<1>1. IInv /\ [Next]_vars => [AB!Next]_(AB!vars)
  <2> SUFFICES ASSUME IInv, [Next]_vars PROVE [AB!Next]_(AB!vars)
    OBVIOUS
  <2>1. CASE Next
    BY <2>1, NextMoves, MovedImplements DEF AB!Next
  <2>2. CASE UNCHANGED vars
    BY <2>2 DEF vars, AB!vars
  <2> QED
    BY <2>1, <2>2
<1> QED
  BY InitImplements, <1>1, Invariant, PTL DEF Spec, AB!Spec, ImplementsAtomicBroadcast

(* Accepted contributions to encrypted epochs are valid ciphertexts: what  *)
(* HB_invalid_ciphertext shows to be needed for epochs to end.             *)
Decryptable ==
    \A a \in Agreements, e \in Epochs :
        Encrypted(e) => \A p \in DOMAIN a[e] : a[e][p] \notin {"garbled", "invalid"}

(* epoch_state.rs: where all proposals, Subset's outputs and decryption    *)
(* shares that are due have been handled, every node has output all its    *)
(* batches.  A node that is behind all others finds that what was accepted *)
(* was proposed, that every correct validator has sent its share, and that *)
(* the N - f correct ones are more than f.                                 *)
THEOREM NoStallTheorem ==
    ASSUME Decryptable
    PROVE  Spec => []NoStall
<1>1. IInv => NoStall
  <2> SUFFICES ASSUME IInv,
                      \A n \in Runners : is_validator(n) /\ node[n].epoch \in Epochs => node[n].has_input,
                      \A n \in Runners : \A e \in Handled(node[n]) :
                         /\ DOMAIN agreed[e] \subseteq Contributed(node[n], e) \cup Forthcoming(node[n], e) =>
                               accepted_ids(node[n].epochs[e]) # None
                         /\ \A sender \in CorrectValidators \ {n}, p \in Validators : ~ShareArrives(n, sender, e, p),
                      NEW m \in Runners, ~(node[m].epoch > LastEpoch)
               PROVE  FALSE
    BY DEF NoStall
  <2>0. /\ \A r \in Runners : /\ NodeInv(node[r], r, agreed) /\ UpToDate(node[r]) /\ Backed(node[r], agreed, Proposed)
                              /\ node[r].epoch \in Nat /\ node[r].has_input \in BOOLEAN
        /\ agreed \in Agreements /\ AllAgreed(agreed)
    BY AgreedFacts, EpochFacts DEF IInv, HbState
  <2>1. PICK n \in Runners : \A r \in Runners : node[n].epoch <= node[r].epoch
    <3> DEFINE T == {node[r].epoch : r \in Runners}
    <3>1. T \in SUBSET Nat /\ T # {}
      BY <2>0
    <3>2. PICK k \in T : \A j \in T : k <= j
      BY <3>1, Least
    <3> QED
      BY <3>2
  <2> DEFINE k == node[n].epoch
             val == agreed[k]
  <2>2. k \in Epochs /\ k \in Nat
    BY <2>0, <2>1, EpochFacts
  <2>3. Agreed(val) /\ DOMAIN val \subseteq Validators
        /\ (Encrypted(k) => \A p \in DOMAIN val : val[p] \notin {"garbled", "invalid"})
    BY <2>0, <2>2 DEF AllAgreed, Agreed, Decryptable
  <2>4. ASSUME NEW r \in Runners, r \in DOMAIN val PROVE k \in node[r].proposed
    <3>1. CASE node[r].epoch = k
      <4>1. node[r].has_input = TRUE
        BY <2>0, <2>2, <2>3, <2>4, <3>1 DEF is_validator
      <4> QED
        BY <2>0, <3>1, <4>1 DEF NodeInv
    <3>2. CASE k < node[r].epoch
      <4>1. k \in Proposed[r]
        BY <2>0, <2>2, <2>4, <3>2 DEF Backed
      <4> QED
        BY <4>1 DEF Proposed
    <3> QED
      BY <2>0, <2>1, <3>1, <3>2
  <2>5. ASSUME NEW r \in Runners, node[r].epoch = k
        PROVE  node[r].epochs[k].complete # None /\ node[r].epochs[k].accepted_proposers = DOMAIN val
               /\ node[r].epochs[k].complete = DOMAIN val /\ k \in Handled(node[r])
    <3>1. k \in Handled(node[r])
      BY <2>2, <2>5, HoneyBadgerAssumption DEF Handled
    <3>2. DOMAIN val \subseteq Contributed(node[r], k) \cup Forthcoming(node[r], k)
      BY <2>4 DEF Forthcoming
    <3>3. node[r].epochs[k].complete # None
      BY <3>1, <3>2 DEF accepted_ids
    <3> QED
      BY <2>0, <2>2, <3>1, <3>3 DEF NodeInv, EsInv
  <2>6. ASSUME NEW r \in Runners, node[r].epoch = k, NEW p \in DOMAIN val
        PROVE  /\ Entry(node[r].epochs[k].decryption[p], r, p, val, Encrypted(k), DOMAIN val, SentFor(node[r], k))
               /\ p \in Validators
    <3>1. EsInv(node[r].epochs[k], r, val, Encrypted(k), SentFor(node[r], k)) /\ node[r].epochs[k].sent = {}
      BY <2>0, <2>2 DEF NodeInv
    <3>2. node[r].epochs[k].sent \cup SentFor(node[r], k) = SentFor(node[r], k)
      BY <3>1
    <3> QED
      BY <2>3, <2>5, <2>6, <3>1, <3>2 DEF EsInv
  <2>7. ASSUME NEW r \in Runners, r \in Validators, Encrypted(k), NEW p \in DOMAIN val
        PROVE  <<k, p>> \in node[r].sent
    <3>1. CASE k < node[r].epoch
      BY <2>0, <2>2, <2>7, <3>1 DEF NodeInv, SentFor, is_validator
    <3>2. CASE node[r].epoch = k
      <4>1. p \in SentFor(node[r], k)
        BY <2>3, <2>6, <2>7, <3>2 DEF Entry, is_validator
      <4> QED
        BY <4>1 DEF SentFor
    <3> QED
      BY <2>0, <2>1, <3>1, <3>2
  <2> DEFINE td(p) == node[n].epochs[k].decryption[p]
  <2>8. PICK p \in DOMAIN val : ~IsComplete(td(p))
    BY <2>0, <2>2, <2>5 DEF UpToDate, CanOutput, accepted_ids
  <2> DEFINE d == td(p)
  <2>9. Encrypted(k) /\ d.had_input = TRUE /\ TdInv(d, n, val[p], p \in DOMAIN val) /\ p \in Validators
    BY <2>3, <2>6, <2>8 DEF Entry
  <2>10. Settled(d, n, val[p], p \in DOMAIN val) /\ d.output = None
    BY <2>3, <2>8, <2>9, TdInvFacts DEF Agreed
  <2>11. /\ Cardinality(d.valid) <= num_faulty /\ d.invalid = {} /\ d.valid \in SUBSET Validators
         /\ (is_validator(n) => n \in d.valid)
    BY <2>9, <2>10 DEF Settled, Shares, TdState
  <2>12. ASSUME NEW v \in CorrectValidators \ {n} PROVE v \in d.valid
    <3>1. v \in Validators /\ v \notin Faulty
      BY DEF CorrectValidators
    <3>2. Sent(v, k, p)
      <4>1. CASE v \in Runners
        BY <2>7, <2>9, <3>1, <4>1 DEF Sent
      <4>2. CASE v \notin Runners
        BY <2>3, <2>9, <4>2 DEF Sent
      <4> QED
        BY <4>1, <4>2
    <3>3. ~ShareArrives(n, v, k, p)
      BY <2>5, <2>9
    <3>4. v \in sender_ids(d)
      BY <2>5, <2>8, <3>1, <3>2, <3>3 DEF ShareArrives
    <3> QED
      BY <2>11, <3>4 DEF sender_ids
  <2>13. CorrectValidators \subseteq d.valid
    BY <2>11, <2>12, CorrectNodes DEF is_validator
  <2> HIDE DEF d
  <2>14. /\ Cardinality(CorrectValidators) <= Cardinality(d.valid) /\ Cardinality(d.valid) \in Nat
    BY <2>11, <2>13, Counting, CorrectNodes
  <2> QED
    BY <2>11, <2>14, EnoughCorrect, Thresholds
<1> QED
  BY <1>1, Invariant, PTL
=============================================================================
