--------------------------- MODULE ThresholdSign ---------------------------
(***************************************************************************)
(* Threshold signing (src/src/threshold_sign.rs), used as the common coin: *)
(* f + 1 valid shares give the signature.  The state of an instance is a   *)
(* record; a share is known by its sender and by whether it verifies.      *)
(* Our own share goes out when had_input turns true, and the signature is  *)
(* output when terminated does.                                            *)
(***************************************************************************)
EXTENDS NetworkInfo

Share == [from : Validators, valid : BOOLEAN]

(* new_with_document: the document is known from the start. *)
TsNew == [doc |-> TRUE, shares |-> {}, had_input |-> FALSE, terminated |-> FALSE]

TsTryOutputSilent(ts) ==  \* mutant: terminates without our share
    IF /\ ts.doc
       /\ ~ts.terminated
       /\ Cardinality(ts.shares) > num_faulty
       /\ \A sh \in ts.shares : sh.valid
      THEN [ts EXCEPT !.terminated = TRUE]
      ELSE ts

(* try_output: combine more than f shares; combining with a share that was *)
(* stored unverified fails, and changes nothing.  Before terminating it    *)
(* makes sure that our share is sent.                                      *)
TsTryOutput(ts) ==
    IF /\ ts.doc
       /\ ~ts.terminated
       /\ Cardinality(ts.shares) > num_faulty
       /\ \A sh \in ts.shares : sh.valid
      THEN [ts EXCEPT !.terminated = TRUE, !.had_input = TRUE]
      ELSE ts

(* handle_message: a share that does not verify is dropped (and its sender *)
(* blamed), unless there is no document yet to verify it against.          *)
TsHandleMessage(ts, sender, valid) ==
    IF ts.terminated \/ (ts.doc /\ ~valid)
      THEN ts
      ELSE TsTryOutput([ts EXCEPT !.shares =
               {sh \in @ : sh.from # sender} \cup {[from |-> sender, valid |-> valid]}])

(* sign: send our share, once, and handle it. *)
TsSign(ts, n) ==
    IF ts.had_input \/ ~ts.doc
      THEN ts
      ELSE LET signed == [ts EXCEPT !.had_input = TRUE, !.shares = {sh \in @ : sh.valid}]
           IN  IF is_validator(n) THEN TsHandleMessage(signed, n, TRUE) ELSE TsTryOutput(signed)
=============================================================================
