---------------------------- MODULE MCPushDelivery ----------------------------
(* Small instances of PushDelivery for TLC.                                *)
EXTENDS PushDelivery, TLC

(* Devices, handlers and requests are interchangeable; used only where no  *)
(* liveness is checked.                                                    *)
Symmetry == Permutations(Devices) \cup Permutations(Workers) \cup Permutations(Requests)

=============================================================================
