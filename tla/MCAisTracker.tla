---------------------------- MODULE MCAisTracker ---------------------------
(* Small instances of AisTracker for TLC.                                  *)
EXTENDS AisTracker

CONSTANTS ship, buoy

(* A ship needs two messages, a buoy one.                                  *)
MCThresholds == [t \in Targets |->
  [confirm_count |-> IF t = ship THEN 2 ELSE 1, confirm_window |-> 1,
   lost_after |-> 1, remove_after |-> 1]]
=============================================================================
