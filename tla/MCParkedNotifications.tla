------------------------ MODULE MCParkedNotifications ------------------------
(* Small instances of ParkedNotifications for TLC.                         *)
EXTENDS ParkedNotifications, TLC

(* One purchase and an event that depends on it.                           *)
Pair == 1..2

(* Every event after the first depends on the first.                       *)
OfTheFirst == [e \in Events \ {1} |-> 1]

=============================================================================
