---------------------------- MODULE RevenueOutbox ----------------------------
(***************************************************************************)
(* What the purchase ledger promises the rest of the system: a staged      *)
(* batch of revenue events reaches the sink, in pieces and possibly more   *)
(* than once; it is published once, and only when the sink has all of it;  *)
(* a batch that cannot be delivered is buried and may be revived.          *)
(***************************************************************************)
EXTENDS Integers

CONSTANTS NumRows, Events

VARIABLES phase, payload, sunk

vars == <<phase, payload, sunk>>

Rows == 1..NumRows

Init ==
  /\ phase = [r \in Rows |-> "absent"]
  /\ payload = [r \in Rows |-> {}]
  /\ sunk = [r \in Rows |-> {}]

(* A purchase commits with its events. *)
Enqueue(r) ==
  /\ phase[r] = "absent"
  /\ phase' = [phase EXCEPT ![r] = "queued"]
  /\ \E S \in SUBSET Events : payload' = [payload EXCEPT ![r] = S]
  /\ UNCHANGED sunk

(* The sink accepts some of the events.  A slow delivery may arrive after  *)
(* the row was settled by another.                                         *)
Accept(r) ==
  /\ phase[r] # "absent"
  /\ \E S \in SUBSET payload[r] : sunk' = [sunk EXCEPT ![r] = @ \cup S]
  /\ UNCHANGED <<phase, payload>>

Publish(r) ==
  /\ phase[r] = "queued"
  /\ payload[r] \subseteq sunk[r]
  /\ phase' = [phase EXCEPT ![r] = "published"]
  /\ UNCHANGED <<payload, sunk>>

Bury(r) ==
  /\ phase[r] = "queued"
  /\ phase' = [phase EXCEPT ![r] = "buried"]
  /\ UNCHANGED <<payload, sunk>>

(* Buried rows are put back in the queue, several at a time. *)
Revive(S) ==
  /\ \A r \in S : phase[r] = "buried"
  /\ phase' = [r \in Rows |-> IF r \in S THEN "queued" ELSE phase[r]]
  /\ UNCHANGED <<payload, sunk>>

Next ==
  \/ \E r \in Rows : Enqueue(r) \/ Accept(r) \/ Publish(r) \/ Bury(r)
  \/ \E S \in SUBSET Rows : Revive(S)

Spec == Init /\ [][Next]_vars

=============================================================================
