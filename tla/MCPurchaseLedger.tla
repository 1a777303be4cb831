-------------------------- MODULE MCPurchaseLedger --------------------------
(* Small instances of PurchaseLedger for TLC.                              *)
EXTENDS PurchaseLedger, TLC

(* min(3600, 2^attempt) seconds, in ticks.                                 *)
CappedDoubling ==
  [n \in 1..MaxAttempts |-> IF 2^n < BackoffCap THEN 2^n ELSE BackoffCap]

(* Tokens, workers and events are interchangeable; used only where no     *)
(* liveness is checked.                                                    *)
Symmetry == Permutations(Tokens) \cup Permutations(Workers)
              \cup Permutations(Events)

=============================================================================
