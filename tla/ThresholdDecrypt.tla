-------------------------- MODULE ThresholdDecrypt --------------------------
(***************************************************************************)
(* Threshold decryption (src/src/threshold_decrypt.rs): f + 1 valid shares *)
(* give the plaintext.  The state of an instance is a record; a share is   *)
(* known by its sender and by whether it verifies, a ciphertext by what is *)
(* in it.  Our own share goes out when had_input turns true.               *)
(***************************************************************************)
EXTENDS NetworkInfo

CONSTANT None

(* What f + 1 shares give when one of them is invalid. *)
Garbage == "garbage"

(* new, and what a call reports: the plaintext and the senders at fault.   *)
TdNew ==
    [ciphertext |-> None, valid |-> {}, invalid |-> {}, had_input |-> FALSE, terminated |-> FALSE,
     output |-> None, faults |-> {}]

sender_ids(td) == td.valid \cup td.invalid

(* is_share_valid: without the ciphertext every share is. *)
IsShareValid(td, valid) == td.ciphertext = None \/ valid

KeepInvalidShares(td) == td  \* mutant

RemoveInvalidShares(td) == [td EXCEPT !.invalid = {}, !.faults = @ \cup td.invalid]

(* start_decryption up to try_output: our share, once, unless we observe.  *)
SendShare(td, n) ==
    IF td.had_input
      THEN td
      ELSE [RemoveInvalidShares(td) EXCEPT !.had_input = TRUE,
                                           !.valid = IF is_validator(n) THEN @ \cup {n} ELSE @]

(* try_output: decrypt with more than f shares.  Before terminating it     *)
(* makes sure that our share is sent.                                      *)
TryOutput(td, n) ==
    IF td.terminated \/ Cardinality(sender_ids(td)) <= num_faulty \/ td.ciphertext = None
      THEN td
      ELSE LET sent == SendShare([td EXCEPT !.terminated = TRUE], n)
           IN  [sent EXCEPT !.output = IF sent.invalid = {} THEN td.ciphertext ELSE Garbage]

StartDecryptionSilent(td, n) ==  \* mutant: no share where others' are enough
    IF td.had_input THEN td
    ELSE IF Cardinality(td.valid) > num_faulty
      THEN [RemoveInvalidShares(td) EXCEPT !.terminated = TRUE, !.output = td.ciphertext]
    ELSE TryOutput(SendShare(td, n), n)

(* start_decryption *)
StartDecryption(td, n) == IF td.had_input THEN td ELSE TryOutput(SendShare(td, n), n)

(* set_ciphertext, with one that verifies, and start_decryption *)
SetCiphertext(td, n, ct) == StartDecryption([td EXCEPT !.ciphertext = ct], n)

(* handle_message: a share that does not verify is dropped; the latest of  *)
(* a sender is kept, and a second one is a fault.                          *)
TdHandleMessage(td, n, sender, valid) ==
    IF td.terminated THEN td
    ELSE IF ~IsShareValid(td, valid) THEN [td EXCEPT !.faults = @ \cup {sender}]
    ELSE LET stored == [td EXCEPT !.valid = IF valid THEN @ \cup {sender} ELSE @ \ {sender},
                                  !.invalid = IF valid THEN @ \ {sender} ELSE @ \cup {sender}]
         IN  IF sender \in sender_ids(td)
               THEN [stored EXCEPT !.faults = @ \cup {sender}]
               ELSE TryOutput(stored, n)
=============================================================================
