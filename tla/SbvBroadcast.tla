---------------------------- MODULE SbvBroadcast ----------------------------
(***************************************************************************)
(* Synchronized Binary Value Broadcast (src/src/binary_agreement/          *)
(* sbv_broadcast.rs), the BVal and Aux rounds of an agreement epoch.  The  *)
(* operators map the state s of node n, a record with at least the fields  *)
(* of SbvNew, to the state that the handler leaves behind; what it         *)
(* multicasts is added to s.out, stamped with the epoch.                   *)
(***************************************************************************)
EXTENDS NetworkInfo

CONSTANT None

ASSUME NoneAssumption == None \notin BOOLEAN /\ \A bs \in SUBSET BOOLEAN : None # bs

(* A set of validators for each boolean (bool_multimap.rs). *)
BoolMultimap == [BOOLEAN -> SUBSET Validators]

EmptyMultimap == [b \in BOOLEAN |-> {}]

(* SbvBroadcast::new, the epoch of the agreement that it belongs to, and   *)
(* what its handlers report: the set that it output, None until terminated,*)
(* the messages to send and the senders at fault.                          *)
SbvNew ==
    [epoch |-> 0, bin_values |-> {}, received_bval |-> EmptyMultimap, sent_bval |-> {},
     received_aux |-> EmptyMultimap, sbv_output |-> None, out |-> {}, faults |-> {}]

Msg(from, epoch, type, val) == [from |-> from, epoch |-> epoch, type |-> type, val |-> val]

Multicast(s, n, epoch, type, val) ==
    IF is_validator(n) THEN [s EXCEPT !.out = @ \cup {Msg(n, epoch, type, val)}] ELSE s

Blame(s, sender) == [s EXCEPT !.faults = @ \cup {sender}]

(* count_aux: validators count once for each value that they sent. *)
CountAux(s) ==
    LET count(b) == IF b \in s.bin_values THEN Cardinality(s.received_aux[b]) ELSE 0
    IN  count(TRUE) + count(FALSE)

TryOutputEarly(s) ==  \* mutant: f + 1 Aux are enough
    IF s.sbv_output = None /\ s.bin_values # {} /\ CountAux(s) > num_faulty
      THEN [s EXCEPT !.sbv_output = {b \in s.bin_values : s.received_aux[b] # {}}]
      ELSE s

(* try_output: N - f Aux for values in bin_values; outputs those values. *)
TryOutput(s) ==
    IF s.sbv_output = None /\ s.bin_values # {} /\ CountAux(s) >= num_correct
      THEN [s EXCEPT !.sbv_output = {b \in s.bin_values : s.received_aux[b] # {}}]
      ELSE s

(* handle_aux *)
HandleAux(s, sender, b) ==
    IF sender \in s.received_aux[b]
      THEN Blame(s, sender)
      ELSE TryOutput([s EXCEPT !.received_aux[b] = @ \cup {sender}])

(* send(Aux(b)): multicast it and handle it ourselves. *)
SendAux(s, n, b) ==
    IF is_validator(n)
      THEN HandleAux(Multicast(s, n, s.epoch, "Aux", b), n, b)
      ELSE TryOutput(s)

(* The first half of handle_bval: count the BVal; the (2f + 1)-st puts b   *)
(* into bin_values, and the first value that gets there is sent as Aux.    *)
InsertBVal(s, n, sender, b) ==
    LET counted == [s EXCEPT !.received_bval[b] = @ \cup {sender}]
        accepted == [counted EXCEPT !.bin_values = @ \cup {b}]
    IN  IF Cardinality(counted.received_bval[b]) # 2 * num_faulty + 1
          THEN counted
          ELSE IF accepted.bin_values # BOOLEAN THEN SendAux(accepted, n, b) ELSE TryOutput(accepted)

(* send_bval: once per value, multicast it and handle it ourselves.  Our   *)
(* own BVal may complete 2f + 1; it never triggers a second send.          *)
SendBVal(s, n, b) ==
    LET sent == Multicast([s EXCEPT !.sent_bval = @ \cup {b}], n, s.epoch, "BVal", b)
    IN  IF b \in s.sent_bval
          THEN s
          ELSE IF is_validator(n) THEN InsertBVal(sent, n, n, b) ELSE TryOutput(sent)

HandleBValSkips(s, n, sender, b) ==  \* mutant: the threshold is read after our own BVal
    IF sender \in s.received_bval[b]
      THEN Blame(s, sender)
      ELSE LET t == InsertBVal(s, n, sender, b)
           IN  IF Cardinality(t.received_bval[b]) = num_faulty + 2 THEN SendBVal(t, n, b) ELSE t

HandleBValGullible(s, n, sender, b) ==  \* mutant: one BVal is enough
    IF sender \in s.received_bval[b]
      THEN Blame(s, sender)
      ELSE SendBVal(InsertBVal(s, n, sender, b), n, b)

(* handle_bval: the (f + 1)-st BVal(b) makes us send BVal(b) too. *)
HandleBVal(s, n, sender, b) ==
    IF sender \in s.received_bval[b]
      THEN Blame(s, sender)
      ELSE LET t == InsertBVal(s, n, sender, b)
           IN  IF Cardinality(s.received_bval[b]) = num_faulty THEN SendBVal(t, n, b) ELSE t

(* clear(init): start again, those in init having sent BVal and Aux. *)
Clear(s, init) ==
    [s EXCEPT !.bin_values = {}, !.received_bval = init, !.sent_bval = {},
              !.received_aux = init, !.sbv_output = None]
=============================================================================
