-------------------------- MODULE MCNotifications --------------------------
(* Small instances of Notifications for TLC.                               *)
EXTENDS Notifications

CONSTANTS anchor, bridge, course

EqualPrio == [s \in Sources |-> 100]
=============================================================================
