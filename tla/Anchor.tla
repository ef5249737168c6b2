------------------------------- MODULE Anchor ------------------------------
(***************************************************************************)
(* The anchor alarm, crates/plugins/anchor-alarm: a callback compares each *)
(* position of the vessel with the radius and, when it crosses it, hands a *)
(* notification to a task of its own.  The tasks run in any order; what    *)
(* becomes of a notification in the manager is in Notifications.           *)
(***************************************************************************)
EXTENDS Naturals, Sequences, SequencesExt

CONSTANTS
  Distances,          \* where a position lies, as seen from the anchor
  Radii,              \* radii the plugin is configured with
  Unheard,
  MaxFixes,           \* bounds
  MaxAnchorStarts

ASSUME AnchorAssumption ==
  Distances \subseteq Nat /\ Radii \subseteq Nat /\ Unheard \notin Distances \cup Radii

VARIABLES
  radius,      \* of the running plugin, Unheard when it is stopped
  alarming,    \* shared with the callback, of the running plugin
  emitting,    \* notifications of spawned tasks, in the order of their spawning
  anchorShown, \* notifications.navigation.anchor in the store
  fix,         \* the last distance this run has heard of
  overtaken,   \* a notification was stored after a later one of the same run
  inherited,   \* an earlier run left an alarm, and this one has sent nothing
  fixes, anchorStarts

anchorVars == <<radius, alarming, emitting, anchorShown, fix, overtaken, inherited,
                fixes, anchorStarts>>

AnchorInit ==
  /\ radius = Unheard /\ alarming = FALSE /\ emitting = <<>>
  /\ anchorShown = "none" /\ fix = Unheard /\ overtaken = FALSE
  /\ inherited = FALSE
  /\ fixes = 0 /\ anchorStarts = 0

(* start, with a configuration that can be read: the flag is new, what the *)
(* store shows is not looked at.                                           *)
AnchorStart(r) ==
  /\ radius = Unheard
  /\ anchorStarts < MaxAnchorStarts /\ anchorStarts' = anchorStarts + 1
  /\ radius' = r /\ alarming' = FALSE /\ fix' = Unheard
  /\ overtaken' = FALSE
  /\ inherited' = (emitting # <<>> \/ anchorShown = "alarm")
  /\ UNCHANGED <<emitting, anchorShown, fixes>>

(* stop: the subscription ends, spawned tasks do not.                      *)
AnchorStop ==
  /\ radius # Unheard
  /\ radius' = Unheard
  /\ UNCHANGED <<alarming, emitting, anchorShown, fix, overtaken, inherited, fixes,
                 anchorStarts>>

Outside(d) == d > radius

(* Mutant: on the circle is neither inside nor outside.                    *)
Crossed_open(d) == IF alarming THEN d < radius ELSE d > radius

Crossed(d) == Outside(d) # alarming

(* The callback, for one value: emit_notification spawns a task.           *)
Fix(d) ==
  /\ radius # Unheard
  /\ fixes < MaxFixes /\ fixes' = fixes + 1
  /\ fix' = d
  /\ IF Crossed(d)
     THEN /\ alarming' = ~alarming
          /\ emitting' = Append(emitting, IF alarming' THEN "alarm" ELSE "normal")
          /\ inherited' = FALSE
     ELSE UNCHANGED <<alarming, emitting, inherited>>
  /\ UNCHANGED <<radius, anchorShown, overtaken, anchorStarts>>

(* raise_notification of one of the tasks.                                 *)
Raise(i) ==
  /\ i \in DOMAIN emitting
  /\ anchorShown' = emitting[i]
  /\ emitting' = RemoveAt(emitting, i)
  /\ overtaken' = (overtaken \/ i # 1)
  /\ UNCHANGED <<radius, alarming, fix, inherited, fixes, anchorStarts>>

AnchorNext ==
  \/ \E r \in Radii : AnchorStart(r)
  \/ AnchorStop
  \/ \E d \in Distances : Fix(d)
  \/ \E i \in 1..MaxFixes : Raise(i)

AnchorSpec == AnchorInit /\ [][AnchorNext]_anchorVars

-----------------------------------------------------------------------------
(* The plugin, its tasks and the store keep their shapes.                  *)
AnchorTypeOK ==
  /\ radius \in Radii \cup {Unheard} /\ fix \in Distances \cup {Unheard}
  /\ alarming \in BOOLEAN /\ overtaken \in BOOLEAN
  /\ emitting \in Seq({"alarm", "normal"}) /\ inherited \in BOOLEAN
  /\ anchorShown \in {"none", "alarm", "normal"}

(* Once the tasks are through, and unless they overtook each other, the    *)
(* alarm is in the store when the last position was outside the circle and *)
(* gone when it was inside.  (Except that an alarm an earlier run has left *)
(* behind stays until this one has raised and cleared its own.)            *)
AnchorIsShown ==
  (radius # Unheard /\ fix # Unheard /\ emitting = <<>> /\ ~overtaken) =>
    /\ Outside(fix) => anchorShown = "alarm"
    /\ ~Outside(fix) /\ ~inherited => anchorShown # "alarm"

(* What the skipper relies on at anchor.                                   *)
AnchorCorrect == AnchorTypeOK /\ AnchorIsShown
=============================================================================
