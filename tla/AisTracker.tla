---------------------------- MODULE AisTracker -----------------------------
(***************************************************************************)
(* The AIS target tracker, crates/plugins/ais-status: the life of a target *)
(* (tracker.rs), the subscription that feeds it, the tick task with the    *)
(* collision alarms and the deltas the plugin sends (lib.rs).              *)
(*                                                                         *)
(* The plugin subscribes to every path of every vessel, so the deltas it   *)
(* sends about a target come back to it through the store's channel        *)
(* (`inbox').  Status deltas are sent by spawned tasks, in any order; the  *)
(* tick task waits for each delta it sends itself.                         *)
(*                                                                         *)
(* Instants are ages: how long ago, up to AgeCap, which is past every      *)
(* threshold.  What the closest approach is classified as is an input; the *)
(* geometry is not modelled.  One run of the plugin, no restart.           *)
(***************************************************************************)
EXTENDS Naturals, Sequences, FiniteSets

CONSTANTS
  Targets,      \* MMSIs
  Thresholds,   \* Thresholds[t]: the ClassThresholds of its class
  Levels,       \* "warn" and "alarm", if their distances are configured
  Capacity,     \* deltas the channel keeps for the subscription
  None,
  AgeCap,       \* ages from here on are not told apart
  MaxEmitting,  \* bound on status deltas in flight, per target and status
  MaxMessages   \* bound on AIS messages

Statuses == {"acquiring", "tracking", "lost"}
Sent == {"tracking", "lost"}
ClassThresholds == [confirm_count : Nat, confirm_window : Nat,
                    lost_after : Nat, remove_after : Nat]
Target == [status : Statuses, age : 0..AgeCap, recent : Seq(0..AgeCap),
           located : BOOLEAN, level : Levels \cup {None},
           cpa_alarm_active : BOOLEAN]

ASSUME AisAssumption ==
  /\ Thresholds \in [Targets -> ClassThresholds]
  /\ Levels \subseteq {"warn", "alarm"}
  /\ None \notin {"warn", "alarm", "normal"} \cup Sent \cup Target
  /\ AgeCap \in Nat
  /\ \A t \in Targets :
       /\ AgeCap > Thresholds[t].confirm_window
       /\ AgeCap > Thresholds[t].lost_after + Thresholds[t].remove_after
  /\ Capacity \in Nat \ {0}
  /\ MaxEmitting \in Nat \ {0}
  /\ MaxMessages \in Nat

VARIABLES
  targets,   \* the TrackedTargets; None: no entry
  inbox,     \* deltas the subscription has yet to handle
  emitting,  \* emitting[t, s]: spawned tasks about to send status s of t
  task,      \* the tick task: where it is, and its locals
  status,    \* sensors.ais.status of each target in the store
  notified,  \* notifications.collision.* of each target in the store
  messages

vars == <<targets, inbox, emitting, task, status, notified, messages>>

-----------------------------------------------------------------------------
Older(age) == IF age < AgeCap THEN age + 1 ELSE age

(* A slow subscription loses the oldest delta.                             *)
Push(q, d) == Append(IF Len(q) < Capacity THEN q ELSE Tail(q), d)

NewTarget == [status |-> "acquiring", age |-> 0, recent |-> <<>>,
              located |-> FALSE, level |-> None, cpa_alarm_active |-> FALSE]

Idle == [at |-> "idle", snaps |-> {}, deltas |-> <<>>, changes |-> <<>>]

Init ==
  /\ targets = [t \in Targets |-> None]
  /\ inbox = <<>>
  /\ emitting = [ts \in Targets \X Sent |-> 0]
  /\ task = Idle
  /\ status = [t \in Targets |-> None]
  /\ notified = [t \in Targets |-> None]
  /\ messages = 0

Room == \A ts \in Targets \X Sent : emitting[ts] < MaxEmitting

(* Time passes for every target.                                           *)
Second ==
  /\ targets' = [t \in Targets |->
       IF targets[t] = None THEN None
       ELSE [targets[t] EXCEPT !.age = Older(@),
               !.recent = [i \in DOMAIN @ |-> Older(@[i])]]]
  /\ UNCHANGED <<inbox, emitting, task, status, notified, messages>>

(* A receiver puts a delta about t into the store, with its position or    *)
(* not.                                                                    *)
Message(t, position) ==
  /\ messages < MaxMessages
  /\ messages' = messages + 1
  /\ inbox' = Push(inbox, [target |-> t, position |-> position])
  /\ UNCHANGED <<targets, emitting, task, status, notified>>

(* Messages outside the confirm window are forgotten; the oldest are first. *)
Pruned(ages, window) ==
  SubSeq(ages, 1 + Cardinality({i \in DOMAIN ages : ages[i] > window}), Len(ages))

(* record_message; what has confirmed a target is not needed any more.     *)
Recorded(t, x) ==
  LET recent == Pruned(Append(x.recent, 0), Thresholds[t].confirm_window)
      confirmed == \/ x.status # "acquiring"
                   \/ Len(recent) >= Thresholds[t].confirm_count
  IN  [x EXCEPT !.age = 0,
                !.recent = IF confirmed THEN <<>> ELSE recent,
                !.status = IF confirmed THEN "tracking" ELSE @]

(* The subscription callback: update_target, and a status delta for a      *)
(* target that is tracked now and was not before.                          *)
Deliver ==
  /\ inbox # <<>>
  /\ Room
  /\ inbox' = Tail(inbox)
  /\ LET d == Head(inbox)
         t == d.target
         old == IF targets[t] = None THEN NewTarget ELSE targets[t]
         new == Recorded(t, [old EXCEPT !.located = @ \/ d.position])
     IN  /\ targets' = [targets EXCEPT ![t] = new]
         /\ emitting' = IF new.status # old.status
                        THEN [emitting EXCEPT ![<<t, new.status>>] = @ + 1]
                        ELSE emitting
  /\ UNCHANGED <<task, status, notified, messages>>

(* emit_status_delta, as its task gets to run.                             *)
EmitStatus(t, s) ==
  /\ emitting[<<t, s>>] > 0
  /\ emitting' = [emitting EXCEPT ![<<t, s>>] = @ - 1]
  /\ status' = [status EXCEPT ![t] = s]
  /\ inbox' = Push(inbox, [target |-> t, position |-> FALSE])
  /\ UNCHANGED <<targets, task, notified, messages>>

-----------------------------------------------------------------------------
(* Mutant: an unconfirmed target stays until it is confirmed.              *)
Expired_confirmed(t, x) ==
  /\ x.status = "lost"
  /\ x.age > Thresholds[t].lost_after + Thresholds[t].remove_after

Expired(t, x) ==
  \/ x.status = "acquiring" /\ x.age > Thresholds[t].confirm_window
  \/ /\ x.status = "lost"
     /\ x.age > Thresholds[t].lost_after + Thresholds[t].remove_after
GoesLost(t, x) == x.status = "tracking" /\ x.age > Thresholds[t].lost_after

(* tick: stale targets are removed, silent ones are lost.                  *)
Tick ==
  /\ task.at = "idle"
  /\ Room
  /\ targets' = [t \in Targets |->
       IF targets[t] = None \/ Expired(t, targets[t]) THEN None
       ELSE IF GoesLost(t, targets[t])
            THEN [targets[t] EXCEPT !.status = "lost"]
            ELSE targets[t]]
  /\ emitting' = [ts \in Targets \X Sent |->
       IF targets[ts[1]] # None /\ GoesLost(ts[1], targets[ts[1]])
          /\ ts[2] = "lost"
       THEN emitting[ts] + 1 ELSE emitting[ts]]
  /\ task' = IF Levels = {} THEN Idle ELSE [Idle EXCEPT !.at = "own position"]
  /\ UNCHANGED <<inbox, status, notified, messages>>

(* Mutant: unconfirmed targets take part.                                  *)
TargetsForCpa_all == {t \in Targets : targets[t] # None /\ targets[t].located}

(* targets_for_cpa *)
TargetsForCpa == {t \in Targets : /\ targets[t] # None
                                  /\ targets[t].status = "tracking"
                                  /\ targets[t].located}

(* run_cpa_tick ends early while the own position is not known.            *)
CpaBegin ==
  /\ task.at = "own position"
  /\ \/ task' = Idle
     \/ task' = [task EXCEPT !.at = "compute", !.snaps = TargetsForCpa]
  /\ UNCHANGED <<targets, inbox, emitting, status, notified, messages>>

(* Mutant: a warning sets the flag but is not notified.                    *)
Changes_quiet(t, level) ==
  IF level = "alarm" /\ ~targets[t].cpa_alarm_active
  THEN <<[target |-> t, level |-> level]>> ELSE <<>>

(* A notification is due when the alarm becomes active or inactive.  The   *)
(* snapshot's flag is still the target's: only this task changes it.       *)
Changes(t, level) ==
  IF (level # None) # targets[t].cpa_alarm_active
  THEN <<[target |-> t, level |-> level]>> ELSE <<>>

(* One target of the snapshot, for which an approach could be computed     *)
(* (classify_cpa_alarm says level, or None) ...                            *)
Compute(t, level) ==
  /\ task.at = "compute"
  /\ t \in task.snaps
  /\ targets' = [targets EXCEPT ![t].level = level,
                                ![t].cpa_alarm_active = level # None]
  /\ task' = [task EXCEPT !.snaps = @ \ {t}, !.deltas = Append(@, t),
                          !.changes = @ \o Changes(t, level)]
  /\ UNCHANGED <<inbox, emitting, status, notified, messages>>

(* ... or could not.                                                       *)
Skip(t) ==
  /\ task.at = "compute"
  /\ t \in task.snaps
  /\ task' = [task EXCEPT !.snaps = @ \ {t}]
  /\ UNCHANGED <<targets, inbox, emitting, status, notified, messages>>

(* The approach of each target goes out under its own context ...          *)
EmitCpa ==
  /\ task.at = "compute"
  /\ task.snaps = {}
  /\ task.deltas # <<>>
  /\ task' = [task EXCEPT !.deltas = Tail(@)]
  /\ inbox' = Push(inbox, [target |-> Head(task.deltas), position |-> FALSE])
  /\ UNCHANGED <<targets, emitting, status, notified, messages>>

(* ... and after them the notifications, under the own vessel's.           *)
Notify ==
  /\ task.at = "compute"
  /\ task.snaps = {}
  /\ task.deltas = <<>>
  /\ \/ /\ task.changes = <<>>
        /\ task' = Idle
        /\ UNCHANGED notified
     \/ /\ task.changes # <<>>
        /\ task' = [task EXCEPT !.changes = Tail(@)]
        /\ LET c == Head(task.changes)
           IN  notified' = [notified EXCEPT ![c.target] =
                              IF c.level = None THEN "normal" ELSE c.level]
  /\ UNCHANGED <<targets, inbox, emitting, status, messages>>

TickTask == \/ Tick
            \/ CpaBegin
            \/ \E t \in Targets, level \in Levels \cup {None} : Compute(t, level)
            \/ \E t \in Targets : Skip(t)
            \/ EmitCpa
            \/ Notify

Next == \/ Second
        \/ \E t \in Targets, position \in BOOLEAN : Message(t, position)
        \/ Deliver
        \/ \E t \in Targets, s \in Sent : EmitStatus(t, s)
        \/ TickTask

Spec == Init /\ [][Next]_vars

(* Time passes, the interval timer fires, and tasks that can run do.       *)
AisFairness == /\ WF_vars(Second)
               /\ WF_vars(Deliver)
               /\ \A t \in Targets, s \in Sent : WF_vars(EmitStatus(t, s))
               /\ WF_vars(TickTask)
FairSpec == Spec /\ AisFairness

-----------------------------------------------------------------------------
(* Targets, deltas under way and the tick task keep their shapes.          *)
TypeOK ==
  /\ targets \in [Targets -> Target \cup {None}]
  /\ inbox \in Seq([target : Targets, position : BOOLEAN])
  /\ Len(inbox) <= Capacity
  /\ emitting \in [Targets \X Sent -> 0..MaxEmitting]
  /\ task \in [at : {"idle", "own position", "compute"}, snaps : SUBSET Targets,
               deltas : Seq(Targets),
               changes : Seq([target : Targets, level : Levels \cup {None}])]
  /\ status \in [Targets -> Sent \cup {None}]
  /\ notified \in [Targets -> Levels \cup {"normal", None}]
  /\ messages \in 0..MaxMessages

Tracked(t) == targets[t] # None
Alarming(t) == Tracked(t) /\ targets[t].cpa_alarm_active

(* No alarm for a target before it has been confirmed and has a position,  *)
(* however deltas and ticks interleave: a single stray message never       *)
(* sounds the collision alarm.                                             *)
OnlyConfirmedAlarm ==
  \A t \in Targets :
    Alarming(t) => targets[t].status # "acquiring" /\ targets[t].located

(* Between two ticks every target whose alarm the tracker takes for active *)
(* has its notification in the store: the flag, which suppresses further   *)
(* notifications, is never set without one.                                *)
AlarmIsShown ==
  task.at = "idle" =>
    \A t \in Targets : Alarming(t) => notified[t] \in {"warn", "alarm"}

(* A target that was seen is confirmed or forgotten, it does not stay      *)
(* unconfirmed for ever.                                                   *)
AcquiringSettles ==
  \A t \in Targets :
    (Tracked(t) /\ targets[t].status = "acquiring")
      ~> ~(Tracked(t) /\ targets[t].status = "acquiring")

(* "Acquiring, Tracking, Lost, Removed": once the messages have stopped    *)
(* (there are at most MaxMessages) every target is removed in the end.     *)
SilentIsRemoved == \A t \in Targets : <>[]~Tracked(t)
=============================================================================
