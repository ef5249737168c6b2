------------------------------ MODULE MCPilot ------------------------------
(* Small instances of the autopilot and of the anchor alarm for TLC.  The  *)
(* control loop with its API, the numeric controllers and the alarm share  *)
(* no state: a behaviour is about one of them, `part' says which.          *)
EXTENDS Autopilot, PilotControl, Anchor

VARIABLE part

MCGains == [p |-> 100, i |-> 50, d |-> 100]
(* The first is once round the circle, and the far end of it.              *)
MCErrors == {-9, 0, 2, 3}
MCDErrors == {-1, 1}
MCActuals == {-2, 0, 2, NoReading}

allVars == <<part, pilotVars, controlVars, anchorVars>>

MCInit == /\ part \in {"loop", "control", "anchor"}
          /\ AutopilotInit /\ ControlInit /\ AnchorInit

LoopPart    == part = "loop" /\ AutopilotNext /\ UNCHANGED <<part, controlVars, anchorVars>>
ControlPart == part = "control" /\ ControlNext /\ UNCHANGED <<part, pilotVars, anchorVars>>
AnchorPart  == part = "anchor" /\ AnchorNext /\ UNCHANGED <<part, pilotVars, controlVars>>

(* tokio runs the loop's task whenever it can and time passes.             *)
Fairness ==
  /\ WF_allVars(part = "loop" /\ Loop /\ UNCHANGED <<part, controlVars, anchorVars>>)
  /\ WF_allVars(part = "loop" /\ Pass /\ UNCHANGED <<part, controlVars, anchorVars>>)

MCSpec == MCInit /\ [][LoopPart \/ ControlPart \/ AnchorPart]_allVars /\ Fairness
=============================================================================
