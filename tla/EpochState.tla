----------------------------- MODULE EpochState -----------------------------
(***************************************************************************)
(* One epoch of Honey Badger (src/src/honey_badger/epoch_state.rs): Subset *)
(* says whose contributions are accepted, and every one of them has to be  *)
(* decrypted.  The operators map the state es of node n, a record, to the  *)
(* one that the handler leaves behind; es.sent are the proposers for whose *)
(* contributions it has multicast its decryption share, and es.faults the  *)
(* nodes that the call has blamed.                                         *)
(*                                                                         *)
(* Contributions are abstracted to what becomes of them: "ok" is one that  *)
(* deserializes, "junk" one that does not, "invalid" a ciphertext that     *)
(* does not verify, "garbled" bytes that are no ciphertext.                *)
(***************************************************************************)
EXTENDS ThresholdDecrypt

(* SubsetHandlingStrategy *)
Strategies == {"Incremental", "AllAtEnd"}

(* EpochState::new.  complete is None while Subset is ongoing and then the *)
(* accepted_ids; held are the contributions that AllAtEnd keeps back; an   *)
(* entry of decryption that was not made yet is an instance without shares.*)
EsNew(strategy) ==
    [subset_handler |-> strategy, complete |-> None, held |-> {}, accepted_proposers |-> {},
     decryption |-> [p \in Validators |-> TdNew], sent |-> {}, faults |-> {}]

(* SubsetState::accepted_ids: None while Subset is ongoing, and it then    *)
(* takes no more input or messages.                                        *)
accepted_ids(es) == es.complete

(* DecryptionState::Complete *)
Complete(plaintext) == [TdNew EXCEPT !.terminated = TRUE, !.output = plaintext]

IsComplete(td) == td.output # None

EsBlame(es, who) == [es EXCEPT !.faults = @ \cup who]

(* process_decryption, ThresholdDecrypt having gone to td *)
ProcessDecryption(es, n, p, td) ==
    [es EXCEPT !.decryption[p] = IF IsComplete(td) THEN Complete(td.output) ELSE [td EXCEPT !.faults = {}],
               !.sent = IF td.had_input /\ is_validator(n) THEN @ \cup {p} ELSE @,
               !.faults = @ \cup td.faults]

(* send_decryption_share for an accepted contribution *)
SendDecryptionShare(es, n, p, value) ==
    IF value \in {"garbled", "invalid"} THEN EsBlame(es, {p})
    ELSE IF IsComplete(es.decryption[p]) THEN es
    ELSE ProcessDecryption(es, n, p, SetCiphertext(es.decryption[p], n, value))

(* process_subset, what it does with a contribution that the handler lets  *)
(* through: decrypt it, unless it is plaintext.                            *)
Accept(es, n, p, value, encrypted) ==
    LET t == IF encrypted THEN SendDecryptionShare(es, n, p, value)
             ELSE [es EXCEPT !.decryption[p] = Complete(value)]
    IN  [t EXCEPT !.accepted_proposers = @ \cup {p}]

(* The same for several, each with a decryption state of its own. *)
AcceptAll(es, n, ps, value, encrypted) ==
    LET after == [p \in ps |-> Accept(es, n, p, value[p], encrypted)]
    IN  [es EXCEPT !.decryption = [p \in Validators |-> IF p \in ps THEN after[p].decryption[p] ELSE @[p]],
                   !.accepted_proposers = @ \cup ps,
                   !.sent = @ \cup UNION {after[p].sent : p \in ps},
                   !.faults = @ \cup UNION {after[p].faults : p \in ps}]

(* SubsetHandler::handle: AllAtEnd lets nothing through until Done. *)
LetThrough(es, ps, done) ==
    IF es.subset_handler = "Incremental" THEN ps ELSE IF done THEN es.held \cup ps ELSE {}

FinishEarly(es, t) ==  \* mutant: shares are judged by what was accepted before
    LET unexpected == {p \in Validators : p \notin es.accepted_proposers}
    IN  [t EXCEPT !.complete = t.accepted_proposers,
                  !.faults = @ \cup UNION {sender_ids(es.decryption[p]) : p \in unexpected}]

(* process_subset on Done, when accepting what came with it has taken the  *)
(* state from es to t: who sent shares for others than the accepted has    *)
(* done so without reason.                                                 *)
Finish(es, t) ==
    LET unexpected == Validators \ t.accepted_proposers
    IN  [t EXCEPT !.complete = t.accepted_proposers,
                  !.decryption = [p \in Validators |-> IF p \in unexpected THEN TdNew ELSE @[p]],
                  !.faults = @ \cup UNION {sender_ids(t.decryption[p]) : p \in unexpected}]

(* process_subset, with a step of Subset that outputs the contributions of *)
(* ps, and Done after them or not.                                         *)
ProcessSubset(es, n, ps, done, value, encrypted) ==
    LET through == LetThrough(es, ps, done)
        t == [AcceptAll(es, n, through, value, encrypted) EXCEPT !.held = (@ \cup ps) \ through]
    IN  IF done THEN Finish(es, t) ELSE t

(* handle_message_content, with a decryption share *)
HandleShare(es, n, sender, p, valid) ==
    IF accepted_ids(es) # None /\ p \notin accepted_ids(es) THEN EsBlame(es, {sender})
    ELSE IF IsComplete(es.decryption[p]) THEN es
    ELSE ProcessDecryption(es, n, p, TdHandleMessage(es.decryption[p], n, sender, valid))

(* try_output_batch: whether there is a batch, its contributors, and who   *)
(* is to blame for what did not deserialize.                               *)
CanOutput(es) ==
    /\ accepted_ids(es) # None
    /\ \A p \in accepted_ids(es) : IsComplete(es.decryption[p])

Contributors(es) == {p \in accepted_ids(es) : es.decryption[p].output = "ok"}

BatchFaults(es) == accepted_ids(es) \ Contributors(es)
=============================================================================
