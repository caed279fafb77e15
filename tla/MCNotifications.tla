-------------------------- MODULE MCNotifications --------------------------
(* A small instance of Notifications for TLC: two additions to one playlist   *)
(* and a bulk removal, which is counted under no key.                         *)
EXTENDS Notifications

CONSTANTS e1, e2, b, k1

OneKey == [e \in {e1, e2, b} |-> k1]
=============================================================================
