---------------------------- MODULE VesselsProofs ----------------------------
(* Theorems about what is kept of the vessels around and what is answered  *)
(* of it: the targets of the AIS plugin and their alarms (AisTracker), the *)
(* tracks (Tracks) and the columns of a history query (HistoryQuery).      *)
EXTENDS AisTracker, Tracks, HistoryQuery, PathValuesProofs, FiniteSetTheorems,
        SequenceTheorems, TLAPS

-----------------------------------------------------------------------------
(* AIS targets: the type invariant, that only confirmed targets with a     *)
(* position raise collision alarms, and that no alarm the tracker believes *)
(* to be active is missing from the store.                                 *)

Delta  == [target : Targets, position : BOOLEAN]
Change == [target : Targets, level : Levels \cup {None}]
Task   == [at : {"idle", "own position", "compute"}, snaps : SUBSET Targets,
           deltas : Seq(Targets), changes : Seq(Change)]

(* Confirmed and located: what it takes to be in a snapshot, and what a    *)
(* target keeps until a tick removes it.                                   *)
Eligible(t) == /\ targets[t] # None
               /\ targets[t].status # "acquiring"
               /\ targets[t].located

(* The notification that raises the alarm of t is still to be sent.        *)
Raising(t) == \E i \in 1..Len(task.changes) :
                /\ task.changes[i].target = t
                /\ task.changes[i].level # None

(* Outside "compute" the tick task holds nothing of an earlier pass.       *)
TaskEmpty == task.at # "compute" => task.snaps = {} /\ task.changes = <<>>

SnapsEligible == \A t \in task.snaps : Eligible(t)

(* The targets whose alarm flag is up.                                     *)
Alarmed == {t \in Targets : Alarming(t)}

(* A target is computed once in a pass, and a clearing notification is     *)
(* under way only for a target whose flag is down.                         *)
ChangesSettled ==
  \A i \in 1..Len(task.changes) :
    /\ task.changes[i].target \notin task.snaps
    /\ task.changes[i].level = None => task.changes[i].target \notin Alarmed

AlarmsRaised ==
  \A t \in Targets :
    Alarming(t) => notified[t] \in {"warn", "alarm"} \/ Raising(t)

(* The inductive invariant.                                                *)
AlarmInv == /\ TaskEmpty
            /\ SnapsEligible
            /\ OnlyConfirmedAlarm
            /\ ChangesSettled
            /\ AlarmsRaised

-----------------------------------------------------------------------------
LEMMA OlderType ==
  ASSUME NEW a \in 0..AgeCap
  PROVE  Older(a) \in 0..AgeCap
BY AisAssumption DEF Older

(* What is left after forgetting old messages is a sequence of ages.       *)
LEMMA PrunedType ==
  ASSUME NEW ages \in Seq(0..AgeCap), NEW window
  PROVE  Pruned(ages, window) \in Seq(0..AgeCap)
<1> DEFINE old == {i \in 1..Len(ages) : ages[i] > window}
<1>1. Len(ages) \in Nat /\ DOMAIN ages = 1..Len(ages)
  OBVIOUS
<1>2. IsFiniteSet(1..Len(ages))
  BY <1>1, FS_Interval
<1>3. IsFiniteSet(old)
  BY <1>2, FS_Subset
<1>4. Cardinality(old) \in Nat
  BY <1>3, FS_CardinalityType
<1> DEFINE first == 1 + Cardinality(old)
<1>5. first \in Int /\ first >= 1
  BY <1>4
<1>6. Pruned(ages, window) = SubSeq(ages, first, Len(ages))
  BY <1>1 DEF Pruned
<1> HIDE DEF old, first
<1>7. \A i \in first..Len(ages) : ages[i] \in 0..AgeCap
  <2> SUFFICES ASSUME NEW i \in first..Len(ages) PROVE ages[i] \in 0..AgeCap
    OBVIOUS
  <2>1. i \in 1..Len(ages)
    BY <1>1, <1>5
  <2> QED
    BY <2>1, ElementOfSeq
<1>8. SubSeq(ages, first, Len(ages)) \in Seq(0..AgeCap)
  BY <1>1, <1>5, <1>7, SubSeqProperties
<1> QED
  BY <1>6, <1>8

(* The lossy channel keeps deltas, and no more than its capacity.          *)
LEMMA PushType ==
  ASSUME NEW q \in Seq(Delta), Len(q) <= Capacity, NEW d \in Delta
  PROVE  Push(q, d) \in Seq(Delta) /\ Len(Push(q, d)) <= Capacity
<1>1. CASE Len(q) < Capacity
  BY <1>1, AisAssumption DEF Push
<1>2. CASE ~(Len(q) < Capacity)
  <2>1. q # <<>>
    BY <1>2, AisAssumption
  <2>2. Tail(q) \in Seq(Delta) /\ Len(Tail(q)) = Len(q) - 1
    BY <2>1, HeadTailProperties
  <2> QED
    BY <1>2, <2>2, AisAssumption DEF Push
<1> QED
  BY <1>1, <1>2

(* record_message yields a target again, confirmed if it was before, with  *)
(* the same position and the same alarm.                                   *)
LEMMA RecordedType ==
  ASSUME NEW t \in Targets, NEW x \in Target
  PROVE  /\ Recorded(t, x) \in Target
         /\ Recorded(t, x).status \in {x.status, "tracking"}
         /\ Recorded(t, x).located = x.located
         /\ Recorded(t, x).cpa_alarm_active = x.cpa_alarm_active
<1> DEFINE recent == Pruned(Append(x.recent, 0), Thresholds[t].confirm_window)
<1>1. Append(x.recent, 0) \in Seq(0..AgeCap)
  BY AisAssumption DEF Target
<1>2. recent \in Seq(0..AgeCap)
  BY <1>1, PrunedType
<1>3. 0 \in 0..AgeCap /\ <<>> \in Seq(0..AgeCap)
  BY AisAssumption
<1> HIDE DEF recent
<1> DEFINE confirmed == \/ x.status # "acquiring"
                        \/ Len(recent) >= Thresholds[t].confirm_count
           new == [x EXCEPT !.age = 0,
                            !.recent = IF confirmed THEN <<>> ELSE recent,
                            !.status = IF confirmed THEN "tracking" ELSE @]
<1>4. Recorded(t, x) = new
  BY DEF Recorded, recent
<1> HIDE DEF confirmed
<1>5. /\ new \in Target
      /\ new.status \in {x.status, "tracking"}
      /\ new.located = x.located
      /\ new.cpa_alarm_active = x.cpa_alarm_active
  BY <1>2, <1>3 DEF Target, Statuses
<1> QED
  BY <1>4, <1>5

(* The target the subscription callback starts from.                       *)
LEMMA NewTargetType == NewTarget \in Target
BY AisAssumption DEF NewTarget, Target, Statuses

LEMMA IdleType == Idle \in Task
BY DEF Idle, Task

LEMMA ChangesType ==
  ASSUME NEW t \in Targets, NEW level \in Levels \cup {None}
  PROVE  Changes(t, level) \in Seq(Change)
<1>1. [target |-> t, level |-> level] \in Change
  BY DEF Change
<1> DEFINE c == [target |-> t, level |-> level]
<1>2. Changes(t, level) \in {<<c>>, <<>>}
  BY Zenon DEF Changes
<1>3. c \in Change
  BY <1>1
<1> HIDE DEF c
<1>4. <<c>> \in Seq(Change) /\ <<>> \in Seq(Change)
  BY <1>3
<1> QED
  BY <1>2, <1>4

-----------------------------------------------------------------------------
LEMMA TypeInit == Init => TypeOK
<1> SUFFICES ASSUME Init PROVE TypeOK
  OBVIOUS
<1>1. task \in Task
  BY IdleType DEF Init
<1>2. emitting \in [Targets \X Sent -> 0..MaxEmitting] /\ messages \in 0..MaxMessages
  BY AisAssumption DEF Init
<1>3. /\ inbox \in Seq(Delta)
      /\ Len(inbox) <= Capacity
  BY AisAssumption DEF Init
<1>4. /\ targets \in [Targets -> Target \cup {None}]
      /\ status \in [Targets -> Sent \cup {None}]
      /\ notified \in [Targets -> Levels \cup {"normal", None}]
  BY DEF Init
<1> QED
  BY <1>1, <1>2, <1>3, <1>4 DEF TypeOK, Task, Change, Delta

(* A target that grows older is the same target otherwise.                 *)
LEMMA SecondTarget ==
  ASSUME TypeOK, Second, NEW t \in Targets, targets[t] # None
  PROVE  /\ targets'[t] \in Target
         /\ targets'[t].status = targets[t].status
         /\ targets'[t].located = targets[t].located
         /\ targets'[t].cpa_alarm_active = targets[t].cpa_alarm_active
<1>1. targets[t] \in Target
  BY DEF TypeOK
<1> DEFINE r == targets[t].recent
           aged == [i \in DOMAIN r |-> Older(r[i])]
<1>2. r \in Seq(0..AgeCap) /\ targets[t].age \in 0..AgeCap
  BY <1>1 DEF Target
<1>3. targets'[t] = [targets[t] EXCEPT !.age = Older(@), !.recent = aged]
  BY DEF Second
<1> HIDE DEF r
<1>4. Len(r) \in Nat /\ DOMAIN r = 1..Len(r)
  BY <1>2
<1>5. \A i \in 1..Len(r) : Older(r[i]) \in 0..AgeCap
  BY <1>2, ElementOfSeq, OlderType
<1>6. aged \in Seq(0..AgeCap)
  BY <1>4, <1>5, IsASeq
<1>7. Older(targets[t].age) \in 0..AgeCap
  BY <1>2, OlderType
<1> HIDE DEF aged
<1> QED
  BY <1>1, <1>3, <1>6, <1>7 DEF Target

LEMMA SecondType == ASSUME TypeOK, Second PROVE TypeOK'
<1>1. \A t \in Targets : targets'[t] \in Target \cup {None}
  BY SecondTarget DEF Second
<1>2. targets' \in [Targets -> Target \cup {None}]
  BY <1>1 DEF Second
<1> QED
  BY <1>2 DEF TypeOK, Second

LEMMA MessageType ==
  ASSUME TypeOK, NEW t \in Targets, NEW position \in BOOLEAN, Message(t, position)
  PROVE  TypeOK'
<1>1. [target |-> t, position |-> position] \in Delta
  BY DEF Delta
<1>2. inbox' \in Seq(Delta) /\ Len(inbox') <= Capacity
  BY <1>1, PushType DEF TypeOK, Message, Delta
<1>3. messages' \in 0..MaxMessages
  <2>1. messages \in 0..MaxMessages
    BY DEF TypeOK
  <2>2. messages < MaxMessages /\ messages' = messages + 1
    BY DEF Message
  <2>3. MaxMessages \in Nat
    BY AisAssumption
  <2> QED
    BY <2>1, <2>2, <2>3
<1> QED
  BY <1>2, <1>3 DEF TypeOK, Message, Delta

(* The target after a delta: never None, confirmed and located if it was   *)
(* before, with the alarm flag it had, which is down if it is new.         *)
LEMMA DeliverTarget ==
  ASSUME TypeOK, Deliver
  PROVE  \E t \in Targets, new \in Target :
           /\ targets' = [targets EXCEPT ![t] = new]
           /\ emitting' \in {emitting, [emitting EXCEPT ![<<t, "tracking">>] = @ + 1]}
           /\ targets[t] # None =>
                /\ new.status \in {targets[t].status, "tracking"}
                /\ targets[t].located => new.located
                /\ new.cpa_alarm_active = targets[t].cpa_alarm_active
           /\ targets[t] = None => ~new.cpa_alarm_active
<1> DEFINE d == Head(inbox)
           t == d.target
           old == IF targets[t] = None THEN NewTarget ELSE targets[t]
           seen == [old EXCEPT !.located = @ \/ d.position]
           new == Recorded(t, seen)
<1>1. d \in Delta
  BY HeadTailProperties DEF TypeOK, Deliver, Delta
<1>2. t \in Targets /\ d.position \in BOOLEAN
  BY <1>1 DEF Delta
<1>3. old \in Target
  BY <1>2, NewTargetType DEF TypeOK
<1>4. targets' = [targets EXCEPT ![t] = new]
  BY DEF Deliver
<1>5. emitting' = IF new.status # old.status
                  THEN [emitting EXCEPT ![<<t, new.status>>] = @ + 1]
                  ELSE emitting
  BY DEF Deliver
<1>6. targets[t] = None => ~old.cpa_alarm_active
  BY DEF NewTarget
<1>7. targets[t] # None => old = targets[t]
  OBVIOUS
<1> HIDE DEF d, t, old
<1>8. /\ seen \in Target
      /\ seen.status = old.status
      /\ old.located => seen.located
      /\ seen.cpa_alarm_active = old.cpa_alarm_active
  BY <1>2, <1>3 DEF Target
<1> HIDE DEF seen
<1>9. /\ new \in Target
      /\ new.status \in {seen.status, "tracking"}
      /\ new.located = seen.located
      /\ new.cpa_alarm_active = seen.cpa_alarm_active
  BY <1>2, <1>8, RecordedType
<1> HIDE DEF new
<1>10. emitting' \in {emitting, [emitting EXCEPT ![<<t, "tracking">>] = @ + 1]}
  <2>1. CASE new.status = old.status
    BY <1>5, <2>1
  <2>2. CASE new.status # old.status
    <3>1. new.status = "tracking"
      BY <1>8, <1>9, <2>2
    <3> QED
      BY <1>5, <2>2, <3>1
  <2> QED
    BY <2>1, <2>2
<1>11. targets[t] # None =>
         /\ new.status \in {targets[t].status, "tracking"}
         /\ targets[t].located => new.located
         /\ new.cpa_alarm_active = targets[t].cpa_alarm_active
  BY <1>7, <1>8, <1>9
<1>12. targets[t] = None => ~new.cpa_alarm_active
  BY <1>6, <1>8, <1>9
<1> QED
  BY <1>2, <1>4, <1>9, <1>10, <1>11, <1>12

LEMMA DeliverType == ASSUME TypeOK, Deliver PROVE TypeOK'
<1>1. PICK t \in Targets, new \in Target :
        /\ targets' = [targets EXCEPT ![t] = new]
        /\ emitting' \in {emitting, [emitting EXCEPT ![<<t, "tracking">>] = @ + 1]}
  BY DeliverTarget
<1>2. targets' \in [Targets -> Target \cup {None}]
  BY <1>1 DEF TypeOK
<1>3. emitting' \in [Targets \X Sent -> 0..MaxEmitting]
  <2>1. <<t, "tracking">> \in Targets \X Sent
    BY DEF Sent
  <2>2. emitting[<<t, "tracking">>] \in 0..MaxEmitting
    BY <2>1 DEF TypeOK
  <2>3. emitting[<<t, "tracking">>] < MaxEmitting
    BY <2>1 DEF Deliver, Room
  <2>4. emitting[<<t, "tracking">>] + 1 \in 0..MaxEmitting
    BY <2>2, <2>3, AisAssumption
  <2> QED
    BY <1>1, <2>4 DEF TypeOK
<1>4. inbox' \in Seq(Delta) /\ Len(inbox') <= Capacity
  <2>1. inbox \in Seq(Delta) /\ Len(inbox) <= Capacity
    BY DEF TypeOK, Delta
  <2>2. inbox # <<>> /\ inbox' = Tail(inbox)
    BY DEF Deliver
  <2>3. Tail(inbox) \in Seq(Delta) /\ Len(Tail(inbox)) = Len(inbox) - 1
    BY <2>1, <2>2, HeadTailProperties
  <2>4. Capacity \in Nat /\ Len(inbox) \in Nat
    BY <2>1, AisAssumption
  <2> QED
    BY <2>1, <2>2, <2>3, <2>4
<1> QED
  BY <1>2, <1>3, <1>4 DEF TypeOK, Deliver, Delta

LEMMA EmitStatusType ==
  ASSUME TypeOK, NEW t \in Targets, NEW s \in Sent, EmitStatus(t, s)
  PROVE  TypeOK'
<1>1. [target |-> t, position |-> FALSE] \in Delta
  BY DEF Delta
<1>2. inbox' \in Seq(Delta) /\ Len(inbox') <= Capacity
  BY <1>1, PushType DEF TypeOK, EmitStatus, Delta
<1>3. emitting' \in [Targets \X Sent -> 0..MaxEmitting]
  <2>1. <<t, s>> \in Targets \X Sent
    OBVIOUS
  <2>2. emitting[<<t, s>>] \in 0..MaxEmitting /\ emitting[<<t, s>>] > 0
    BY <2>1 DEF TypeOK, EmitStatus
  <2>3. emitting[<<t, s>>] - 1 \in 0..MaxEmitting
    BY <2>2, AisAssumption
  <2> QED
    BY <2>3 DEF TypeOK, EmitStatus
<1>4. status' \in [Targets -> Sent \cup {None}]
  BY DEF TypeOK, EmitStatus
<1> QED
  BY <1>2, <1>3, <1>4 DEF TypeOK, EmitStatus, Delta

LEMMA TickType == ASSUME TypeOK, Tick PROVE TypeOK'
<1>1. targets' \in [Targets -> Target \cup {None}]
  <2> SUFFICES ASSUME NEW t \in Targets, targets[t] # None
               PROVE  [targets[t] EXCEPT !.status = "lost"] \in Target
    BY DEF TypeOK, Tick
  <2>1. targets[t] \in Target
    BY DEF TypeOK
  <2> QED
    BY <2>1 DEF Target, Statuses
<1>2. emitting' \in [Targets \X Sent -> 0..MaxEmitting]
  <2>1. \A ts \in Targets \X Sent :
          emitting[ts] \in 0..MaxEmitting /\ emitting[ts] < MaxEmitting
    BY DEF TypeOK, Tick, Room
  <2>2. \A ts \in Targets \X Sent : emitting[ts] + 1 \in 0..MaxEmitting
    BY <2>1, AisAssumption
  <2> QED
    BY <2>1, <2>2 DEF Tick
<1>3. task' \in Task
  <2>1. [Idle EXCEPT !.at = "own position"] \in Task
    BY IdleType DEF Task
  <2> QED
    BY <2>1, IdleType DEF Tick
<1> QED
  BY <1>1, <1>2, <1>3 DEF TypeOK, Tick, Task, Change

LEMMA CpaBeginType == ASSUME TypeOK, CpaBegin PROVE TypeOK'
<1>1. TargetsForCpa \in SUBSET Targets
  BY DEF TargetsForCpa
<1>2. task \in Task
  BY DEF TypeOK, Task, Change
<1>3. task' \in Task
  BY <1>1, <1>2, IdleType DEF CpaBegin, Task
<1> QED
  BY <1>3 DEF TypeOK, CpaBegin, Task, Change

(* Every target of a snapshot is in the map, so computing it yields a      *)
(* target again.                                                           *)
LEMMA ComputeTarget ==
  ASSUME TypeOK, NEW t \in Targets, targets[t] # None,
         NEW level \in Levels \cup {None}, Compute(t, level)
  PROVE  \E new \in Target :
           /\ targets' = [targets EXCEPT ![t] = new]
           /\ new.status = targets[t].status
           /\ new.located = targets[t].located
           /\ new.cpa_alarm_active = (level # None)
<1> DEFINE new == [targets[t] EXCEPT !.level = level,
                                     !.cpa_alarm_active = level # None]
<1>1. targets[t] \in Target
  BY DEF TypeOK
<1>2. /\ new \in Target
      /\ new.status = targets[t].status
      /\ new.located = targets[t].located
      /\ new.cpa_alarm_active = (level # None)
  BY <1>1 DEF Target
<1>3. targets' = [targets EXCEPT ![t] = new]
  BY DEF TypeOK, Compute
<1> QED
  BY <1>2, <1>3

LEMMA ComputeType ==
  ASSUME TypeOK, SnapsEligible, NEW t \in Targets,
         NEW level \in Levels \cup {None}, Compute(t, level)
  PROVE  TypeOK'
<1>1. t \in task.snaps /\ targets[t] # None
  BY DEF Compute, SnapsEligible, Eligible
<1>2. targets' \in [Targets -> Target \cup {None}]
  BY <1>1, ComputeTarget DEF TypeOK
<1>3. task \in Task
  BY DEF TypeOK, Task, Change
<1>4. task.changes \o Changes(t, level) \in Seq(Change)
  <2>1. task.changes \in Seq(Change)
    BY <1>3 DEF Task
  <2> QED
    BY <2>1, ChangesType, ConcatProperties
<1>5. Append(task.deltas, t) \in Seq(Targets)
  <2>1. task.deltas \in Seq(Targets)
    BY <1>3 DEF Task
  <2> QED
    BY <2>1
<1>6. task' \in Task
  BY <1>3, <1>4, <1>5 DEF Compute, Task
<1> QED
  BY <1>2, <1>6 DEF TypeOK, Compute, Task, Change

LEMMA SkipType ==
  ASSUME TypeOK, NEW t \in Targets, Skip(t) PROVE TypeOK'
<1>1. task \in Task
  BY DEF TypeOK, Task, Change
<1>2. task' \in Task
  BY <1>1 DEF Skip, Task
<1> QED
  BY <1>2 DEF TypeOK, Skip, Task, Change

LEMMA EmitCpaType == ASSUME TypeOK, EmitCpa PROVE TypeOK'
<1>1. task \in Task
  BY DEF TypeOK, Task, Change
<1>2. task.deltas \in Seq(Targets) /\ task.deltas # <<>>
  BY <1>1 DEF EmitCpa, Task
<1>3. Head(task.deltas) \in Targets /\ Tail(task.deltas) \in Seq(Targets)
  BY <1>2, HeadTailProperties
<1>4. [target |-> Head(task.deltas), position |-> FALSE] \in Delta
  BY <1>3 DEF Delta
<1>5. inbox' \in Seq(Delta) /\ Len(inbox') <= Capacity
  BY <1>4, PushType DEF TypeOK, EmitCpa, Delta
<1>6. task' \in Task
  BY <1>1, <1>3 DEF EmitCpa, Task
<1> QED
  BY <1>5, <1>6 DEF TypeOK, EmitCpa, Task, Change, Delta

(* The notification at the head of the queue.                              *)
LEMMA NotifyHead ==
  ASSUME TypeOK, task.changes # <<>>
  PROVE  /\ Head(task.changes) \in Change
         /\ Head(task.changes) = task.changes[1]
         /\ Len(task.changes) \in Nat \ {0}
         /\ Tail(task.changes) \in Seq(Change)
         /\ Len(Tail(task.changes)) = Len(task.changes) - 1
         /\ \A i \in 1..Len(Tail(task.changes)) :
              Tail(task.changes)[i] = task.changes[i + 1]
<1>1. task.changes \in Seq(Change)
  BY DEF TypeOK, Change
<1> QED
  BY <1>1, HeadTailProperties, EmptySeq

LEMMA NotifyType == ASSUME TypeOK, Notify PROVE TypeOK'
<1>1. task \in Task
  BY DEF TypeOK, Task, Change
<1>2. CASE task.changes = <<>>
  BY <1>2, IdleType DEF TypeOK, Notify, Task, Change
<1>3. CASE task.changes # <<>>
  <2>1. Head(task.changes) \in Change /\ Tail(task.changes) \in Seq(Change)
    BY <1>3, NotifyHead
  <2>2. task' \in Task
    BY <1>1, <1>3, <2>1 DEF Notify, Task
  <2>3. notified' \in [Targets -> Levels \cup {"normal", None}]
    BY <1>3, <2>1 DEF TypeOK, Notify, Change
  <2> QED
    BY <2>2, <2>3 DEF TypeOK, Notify, Task, Change
<1> QED
  BY <1>2, <1>3

-----------------------------------------------------------------------------
(* A step that leaves the tick task and the notifications alone, and in    *)
(* which no target leaves the map, loses its confirmation or its position, *)
(* or changes its alarm flag, keeps the invariant.                         *)
LEMMA AlarmFrame ==
  ASSUME TypeOK, AlarmInv, UNCHANGED <<task, notified>>,
         \A t \in Targets :
           /\ Alarming(t)' <=> Alarming(t)
           /\ Eligible(t) => Eligible(t)'
  PROVE  AlarmInv'
<1>1. TaskEmpty'
  BY DEF AlarmInv, TaskEmpty
<1>2. task.snaps \subseteq Targets
  BY DEF TypeOK
<1>3. SnapsEligible'
  BY <1>2 DEF AlarmInv, SnapsEligible
<1>4. OnlyConfirmedAlarm'
  <2> SUFFICES ASSUME NEW t \in Targets, Alarming(t)'
               PROVE  targets'[t].status # "acquiring" /\ targets'[t].located
    BY DEF OnlyConfirmedAlarm
  <2>1. Eligible(t)
    BY DEF AlarmInv, OnlyConfirmedAlarm, Eligible, Alarming, Tracked
  <2> QED
    BY <2>1 DEF Eligible
<1>5. ChangesSettled'
  <2>1. Alarmed' = Alarmed
    BY DEF Alarmed
  <2> QED
    BY <2>1 DEF AlarmInv, ChangesSettled
<1>6. AlarmsRaised'
  BY DEF AlarmInv, AlarmsRaised, Raising
<1> QED
  BY <1>1, <1>3, <1>4, <1>5, <1>6 DEF AlarmInv

LEMMA AlarmInit == ASSUME TypeOK, Init PROVE AlarmInv
<1>1. task.at = "idle" /\ task.snaps = {} /\ task.changes = <<>>
  BY DEF Init, Idle
<1>2. \A t \in Targets : ~Alarming(t)
  BY DEF Init, Alarming, Tracked
<1> QED
  BY <1>1, <1>2 DEF AlarmInv, TaskEmpty, SnapsEligible, OnlyConfirmedAlarm,
                    ChangesSettled, AlarmsRaised

(* Growing older changes neither status nor flag.                          *)
LEMMA SecondAlarm == ASSUME TypeOK, AlarmInv, Second PROVE AlarmInv'
<1> SUFFICES ASSUME NEW t \in Targets
             PROVE  /\ Alarming(t)' <=> Alarming(t)
                    /\ Eligible(t) => Eligible(t)'
  BY AlarmFrame DEF Second
<1>1. CASE targets[t] = None
  BY <1>1 DEF Second, Alarming, Tracked, Eligible
<1>2. CASE targets[t] # None
  <2>1. targets'[t] # None
    BY <1>2, SecondTarget, AisAssumption
  <2> QED
    BY <1>2, <2>1, SecondTarget DEF Alarming, Tracked, Eligible
<1> QED
  BY <1>1, <1>2

(* Message and EmitStatus touch only the channel and the status deltas.    *)
LEMMA ChannelAlarm ==
  ASSUME TypeOK, AlarmInv, UNCHANGED <<targets, task, notified>>
  PROVE  AlarmInv'
<1>1. \A t \in Targets : /\ Alarming(t)' <=> Alarming(t)
                         /\ Eligible(t) => Eligible(t)'
  BY DEF Alarming, Tracked, Eligible
<1> QED
  BY <1>1, AlarmFrame

(* A delta confirms or locates a target, or brings in a new one without    *)
(* an alarm; it never takes anything back.                                 *)
LEMMA DeliverAlarm == ASSUME TypeOK, AlarmInv, Deliver PROVE AlarmInv'
<1>1. PICK t \in Targets, new \in Target :
        /\ targets' = [targets EXCEPT ![t] = new]
        /\ targets[t] # None =>
             /\ new.status \in {targets[t].status, "tracking"}
             /\ targets[t].located => new.located
             /\ new.cpa_alarm_active = targets[t].cpa_alarm_active
        /\ targets[t] = None => ~new.cpa_alarm_active
  BY DeliverTarget
<1>2. UNCHANGED <<task, notified>>
  BY DEF Deliver
<1>3. ASSUME NEW u \in Targets
      PROVE  /\ Alarming(u)' <=> Alarming(u)
             /\ Eligible(u) => Eligible(u)'
  <2>1. CASE u # t
    <3>1. targets'[u] = targets[u]
      BY <1>1, <2>1 DEF TypeOK
    <3> QED
      BY <3>1 DEF Alarming, Tracked, Eligible
  <2>2. CASE u = t
    <3>1. targets'[t] = new /\ new # None
      BY <1>1, AisAssumption DEF TypeOK
    <3>2. CASE targets[t] = None
      BY <1>1, <2>2, <3>1, <3>2 DEF Alarming, Tracked, Eligible
    <3>3. CASE targets[t] # None
      BY <1>1, <2>2, <3>1, <3>3 DEF Alarming, Tracked, Eligible
    <3> QED
      BY <3>2, <3>3
  <2> QED
    BY <2>1, <2>2
<1> QED
  BY <1>2, <1>3, AlarmFrame

(* A tick removes targets, but not while a pass over them is under way.    *)
LEMMA TickAlarm == ASSUME TypeOK, AlarmInv, Tick PROVE AlarmInv'
<1>1. task.snaps = {} /\ task.changes = <<>>
  BY DEF AlarmInv, TaskEmpty, Tick
<1>2. task'.at # "compute" /\ task'.snaps = {} /\ task'.changes = <<>>
  BY DEF Tick, Idle
<1>3. ASSUME NEW t \in Targets, Alarming(t)'
      PROVE  /\ Alarming(t)
             /\ targets'[t].status # "acquiring"
             /\ targets'[t].located
  <2>1. targets'[t] # None
    BY <1>3 DEF Alarming, Tracked
  <2>2. /\ targets[t] # None
        /\ targets'[t] \in {targets[t], [targets[t] EXCEPT !.status = "lost"]}
    BY <2>1 DEF Tick
  <2>3. targets[t] \in Target
    BY <2>2 DEF TypeOK
  <2>4. /\ targets'[t].status \in {targets[t].status, "lost"}
        /\ targets'[t].located = targets[t].located
        /\ targets'[t].cpa_alarm_active = targets[t].cpa_alarm_active
    BY <2>2, <2>3 DEF Target
  <2>5. Alarming(t)
    BY <1>3, <2>2, <2>4 DEF Alarming, Tracked
  <2>6. targets[t].status # "acquiring" /\ targets[t].located
    BY <2>5 DEF AlarmInv, OnlyConfirmedAlarm
  <2> QED
    BY <2>4, <2>5, <2>6
<1>4. OnlyConfirmedAlarm'
  BY <1>3 DEF OnlyConfirmedAlarm
<1>5. AlarmsRaised'
  <2> SUFFICES ASSUME NEW t \in Targets, Alarming(t)'
               PROVE  notified'[t] \in {"warn", "alarm"}
    BY DEF AlarmsRaised
  <2>1. notified[t] \in {"warn", "alarm"} \/ Raising(t)
    BY <1>3 DEF AlarmInv, AlarmsRaised
  <2>2. ~Raising(t)
    BY <1>1 DEF Raising
  <2> QED
    BY <2>1, <2>2 DEF Tick
<1> QED
  BY <1>2, <1>4, <1>5
     DEF AlarmInv, TaskEmpty, SnapsEligible, ChangesSettled

(* The snapshot holds confirmed and located targets only.                  *)
LEMMA CpaBeginAlarm == ASSUME TypeOK, AlarmInv, CpaBegin PROVE AlarmInv'
<1>1. task.snaps = {} /\ task.changes = <<>>
  BY DEF AlarmInv, TaskEmpty, CpaBegin
<1>2. \/ task'.at = "idle" /\ task'.snaps = {} /\ task'.changes = <<>>
      \/ task'.at = "compute" /\ task'.snaps = TargetsForCpa /\ task'.changes = <<>>
  <2>1. CASE task' = Idle
    BY <2>1 DEF Idle
  <2>2. CASE task' = [task EXCEPT !.at = "compute", !.snaps = TargetsForCpa]
    BY <1>1, <2>2 DEF TypeOK
  <2> QED
    BY <2>1, <2>2 DEF CpaBegin
<1>3. \A t \in TargetsForCpa : Eligible(t)
  BY DEF TargetsForCpa, Eligible
<1>4. UNCHANGED <<targets, notified>>
  BY DEF CpaBegin
<1>5. TaskEmpty'
  BY <1>2 DEF TaskEmpty
<1>6. SnapsEligible'
  BY <1>2, <1>3, <1>4 DEF SnapsEligible, Eligible
<1>7. OnlyConfirmedAlarm'
  BY <1>4 DEF AlarmInv, OnlyConfirmedAlarm, Alarming, Tracked
<1>8. ChangesSettled'
  BY <1>2 DEF ChangesSettled
<1>9. AlarmsRaised'
  <2>1. \A t \in Targets : ~Raising(t)
    BY <1>1 DEF Raising
  <2> QED
    BY <1>4, <2>1 DEF AlarmInv, AlarmsRaised, Alarming, Tracked
<1> QED
  BY <1>5, <1>6, <1>7, <1>8, <1>9 DEF AlarmInv

(* The target computed leaves the snapshot with its flag set to whether    *)
(* there is a level, and with a notification if that changes the flag.     *)
LEMMA ComputeAlarm ==
  ASSUME TypeOK, AlarmInv, NEW t \in Targets,
         NEW level \in Levels \cup {None}, Compute(t, level)
  PROVE  AlarmInv'
<1> DEFINE q == task.changes
           c == [target |-> t, level |-> level]
<1>1. t \in task.snaps /\ Eligible(t) /\ task.at = "compute"
  BY DEF Compute, AlarmInv, SnapsEligible
<1>2. PICK new \in Target :
        /\ targets' = [targets EXCEPT ![t] = new]
        /\ new.status = targets[t].status
        /\ new.located = targets[t].located
        /\ new.cpa_alarm_active = (level # None)
  BY <1>1, ComputeTarget DEF Eligible
<1>3. /\ task'.at = "compute"
      /\ task'.snaps = task.snaps \ {t}
      /\ task'.changes = q \o Changes(t, level)
  BY <1>1 DEF TypeOK, Compute
<1>4. /\ targets'[t] = new
      /\ new # None
      /\ \A u \in Targets : u # t => targets'[u] = targets[u]
  BY <1>2, AisAssumption DEF TypeOK
<1>5. /\ Alarming(t)' <=> level # None
      /\ \A u \in Targets : u # t => (Alarming(u)' <=> Alarming(u))
      /\ t \in Alarmed' <=> level # None
      /\ Alarmed' \ {t} = Alarmed \ {t}
  <2>1. /\ Alarming(t)' <=> level # None
        /\ \A u \in Targets : u # t => (Alarming(u)' <=> Alarming(u))
    BY <1>2, <1>4 DEF Alarming, Tracked
  <2> QED
    BY <2>1 DEF Alarmed
<1>6. notified' = notified
  BY DEF Compute
<1>7. q \in Seq(Change) /\ Len(q) \in Nat
  <2>1. q \in Seq(Change)
    BY DEF TypeOK, Change
  <2> QED
    BY <2>1, LenProperties
<1>8. \/ Changes(t, level) = <<>> /\ (Alarming(t) <=> level # None)
      \/ Changes(t, level) = <<c>>
  BY <1>1, Zenon DEF Changes, Alarming, Tracked, Eligible
<1>9. \/ task'.changes = q /\ (Alarming(t) <=> level # None)
      \/ /\ Len(task'.changes) = Len(q) + 1
         /\ \A i \in 1..Len(q) : task'.changes[i] = q[i]
         /\ task'.changes[Len(q) + 1] = c
  <2>1. CASE Changes(t, level) = <<>> /\ (Alarming(t) <=> level # None)
    <3>1. q \o <<>> = q
      BY <1>7, ConcatEmptySeq
    <3> QED
      BY <1>3, <2>1, <3>1
  <2>2. CASE Changes(t, level) = <<c>>
    <3>1. c \in Change
      BY DEF Change
    <3> HIDE DEF c
    <3>2. <<c>> \in Seq(Change) /\ Len(<<c>>) = 1 /\ <<c>>[1] = c
      BY <3>1
    <3>3. /\ Len(q \o <<c>>) = Len(q) + 1
          /\ \A i \in 1..(Len(q) + 1) :
               (q \o <<c>>)[i] = IF i <= Len(q) THEN q[i] ELSE <<c>>[i - Len(q)]
      BY <1>7, <3>2, ConcatProperties
    <3>4. /\ \A i \in 1..Len(q) : (q \o <<c>>)[i] = q[i]
          /\ (q \o <<c>>)[Len(q) + 1] = c
      BY <1>7, <3>2, <3>3
    <3> QED
      BY <1>3, <2>2, <3>3, <3>4
  <2> QED
    BY <1>8, <2>1, <2>2
<1>10. c.target = t /\ c.level = level
  OBVIOUS
<1> HIDE DEF q, c
<1>11. \A i \in 1..Len(q) :
         /\ q[i].target \notin task.snaps
         /\ q[i].level = None => q[i].target \notin Alarmed
  BY DEF AlarmInv, ChangesSettled, q
<1>12. TaskEmpty'
  BY <1>3 DEF TaskEmpty
<1>13. SnapsEligible'
  <2>1. \A u \in task.snaps \ {t} : u \in Targets /\ u # t /\ Eligible(u)
    BY DEF TypeOK, AlarmInv, SnapsEligible
  <2> QED
    BY <1>3, <1>4, <2>1 DEF SnapsEligible, Eligible
<1>14. OnlyConfirmedAlarm'
  <2>1. targets'[t].status # "acquiring" /\ targets'[t].located
    BY <1>1, <1>2, <1>4 DEF Eligible
  <2>2. \A u \in Targets : u # t /\ Alarming(u)' =>
          targets'[u].status # "acquiring" /\ targets'[u].located
    BY <1>4, <1>5 DEF AlarmInv, OnlyConfirmedAlarm
  <2> QED
    BY <2>1, <2>2 DEF OnlyConfirmedAlarm
<1>15. ChangesSettled'
  <2>1. \A i \in 1..Len(q) :
          /\ q[i].target \notin task'.snaps
          /\ q[i].level = None => q[i].target \notin Alarmed'
    BY <1>1, <1>3, <1>5, <1>11
  <2>2. CASE task'.changes = q
    BY <2>1, <2>2 DEF ChangesSettled
  <2>3. CASE /\ Len(task'.changes) = Len(q) + 1
             /\ \A i \in 1..Len(q) : task'.changes[i] = q[i]
             /\ task'.changes[Len(q) + 1] = c
    <3> SUFFICES ASSUME NEW i \in 1..Len(task'.changes)
                 PROVE  /\ task'.changes[i].target \notin task'.snaps
                        /\ task'.changes[i].level = None
                             => task'.changes[i].target \notin Alarmed'
      BY DEF ChangesSettled
    <3>1. CASE i \in 1..Len(q)
      <4>1. task'.changes[i] = q[i]
        BY <2>3, <3>1
      <4> QED
        BY <2>1, <3>1, <4>1
    <3>2. CASE i = Len(q) + 1
      <4>1. task'.changes[i] = c
        BY <2>3, <3>2
      <4> QED
        BY <1>3, <1>5, <1>10, <4>1
    <3> QED
      BY <1>7, <2>3, <3>1, <3>2 DEF q
  <2> QED
    BY <1>9, <2>2, <2>3
<1>16. AlarmsRaised'
  <2> SUFFICES ASSUME NEW u \in Targets, Alarming(u)',
                      notified[u] \notin {"warn", "alarm"}
               PROVE  Raising(u)'
    BY <1>6 DEF AlarmsRaised
  <2>1. CASE Alarming(u)
    <3>1. PICK i \in 1..Len(q) : q[i].target = u /\ q[i].level # None
      BY <2>1 DEF AlarmInv, AlarmsRaised, Raising, q
    <3>2. i \in 1..Len(task'.changes) /\ task'.changes[i] = q[i]
      BY <1>7, <1>9 DEF q
    <3> QED
      BY <3>1, <3>2 DEF Raising
  <2>2. CASE ~Alarming(u)
    <3>1. u = t /\ level # None
      BY <1>5, <2>2
    <3>2. Len(task'.changes) = Len(q) + 1 /\ task'.changes[Len(q) + 1] = c
      BY <1>9, <2>2, <3>1
    <3>3. Len(q) + 1 \in 1..Len(task'.changes)
      BY <1>7, <3>2 DEF q
    <3> QED
      BY <1>10, <3>1, <3>2, <3>3 DEF Raising
  <2> QED
    BY <2>1, <2>2
<1> QED
  BY <1>12, <1>13, <1>14, <1>15, <1>16 DEF AlarmInv

(* A step of the tick task that leaves the targets and the notifications   *)
(* alone and only drops targets from its snapshot keeps the invariant.     *)
LEMMA TaskFrame ==
  ASSUME AlarmInv, UNCHANGED <<targets, notified>>,
         task'.at = "compute", task'.changes = task.changes,
         task'.snaps \subseteq task.snaps
  PROVE  AlarmInv'
<1>1. \A t : (Alarming(t)' <=> Alarming(t)) /\ (Eligible(t)' <=> Eligible(t))
  BY DEF Alarming, Tracked, Eligible
<1>2. Alarmed' = Alarmed
  BY <1>1 DEF Alarmed
<1>3. TaskEmpty'
  BY DEF TaskEmpty
<1>4. SnapsEligible'
  BY <1>1 DEF AlarmInv, SnapsEligible
<1>5. OnlyConfirmedAlarm'
  BY <1>1 DEF AlarmInv, OnlyConfirmedAlarm
<1>6. ChangesSettled'
  BY <1>2 DEF AlarmInv, ChangesSettled
<1>7. AlarmsRaised'
  BY <1>1 DEF AlarmInv, AlarmsRaised, Raising
<1> QED
  BY <1>3, <1>4, <1>5, <1>6, <1>7 DEF AlarmInv

LEMMA SkipAlarm ==
  ASSUME TypeOK, AlarmInv, NEW t \in Targets, Skip(t) PROVE AlarmInv'
<1>1. /\ task'.at = "compute"
      /\ task'.changes = task.changes
      /\ task'.snaps \subseteq task.snaps
  BY DEF TypeOK, Skip
<1> QED
  BY <1>1, TaskFrame DEF Skip

LEMMA EmitCpaAlarm == ASSUME TypeOK, AlarmInv, EmitCpa PROVE AlarmInv'
<1>1. /\ task'.at = "compute"
      /\ task'.changes = task.changes
      /\ task'.snaps \subseteq task.snaps
  BY DEF TypeOK, EmitCpa
<1> QED
  BY <1>1, TaskFrame DEF EmitCpa

(* Sending the first notification: a raise settles its target, and a       *)
(* clear is about a target whose flag is down.                             *)
LEMMA NotifyAlarm == ASSUME TypeOK, AlarmInv, Notify PROVE AlarmInv'
<1>1. targets' = targets /\ task.snaps = {} /\ task.at = "compute"
  BY DEF Notify
<1>2. \A t : (Alarming(t)' <=> Alarming(t)) /\ (Eligible(t)' <=> Eligible(t))
  BY <1>1 DEF Alarming, Tracked, Eligible
<1>3. OnlyConfirmedAlarm'
  BY <1>1, <1>2 DEF AlarmInv, OnlyConfirmedAlarm
<1>4. CASE task.changes = <<>>
  <2>1. task'.at = "idle" /\ task'.snaps = {} /\ task'.changes = <<>>
    BY <1>4 DEF Notify, Idle
  <2>2. notified' = notified
    BY <1>4 DEF Notify
  <2>3. \A t \in Targets : ~Raising(t)
    BY <1>4 DEF Raising
  <2>4. AlarmsRaised'
    BY <1>2, <2>2, <2>3 DEF AlarmInv, AlarmsRaised
  <2> QED
    BY <1>3, <2>1, <2>4 DEF AlarmInv, TaskEmpty, SnapsEligible, ChangesSettled
<1>5. CASE task.changes # <<>>
  <2> DEFINE q == task.changes
             c == Head(q)
  <2>1. /\ c \in Change
        /\ c = q[1]
        /\ Len(q) \in Nat \ {0}
        /\ Len(Tail(q)) = Len(q) - 1
        /\ \A i \in 1..Len(Tail(q)) : Tail(q)[i] = q[i + 1]
    BY <1>5, NotifyHead
  <2>2. task'.at = "compute" /\ task'.snaps = {} /\ task'.changes = Tail(q)
    BY <1>1, <1>5 DEF TypeOK, Notify
  <2>3. notified' = [notified EXCEPT ![c.target] =
                       IF c.level = None THEN "normal" ELSE c.level]
    BY <1>5 DEF Notify
  <2>4. c.target \in Targets /\ c.level \in Levels \cup {None}
    BY <2>1 DEF Change
  <2>5. \A i \in 1..Len(q) : q[i].level = None => q[i].target \notin Alarmed
    BY DEF AlarmInv, ChangesSettled
  <2>6. Alarmed' = Alarmed
    BY <1>2 DEF Alarmed
  <2>7. \A t \in Targets : Alarming(t) =>
          \/ notified[t] \in {"warn", "alarm"}
          \/ \E i \in 1..Len(q) : q[i].target = t /\ q[i].level # None
    BY DEF AlarmInv, AlarmsRaised, Raising
  <2> HIDE DEF q, c
  <2>8. ChangesSettled'
    <3> SUFFICES ASSUME NEW i \in 1..Len(Tail(q)), Tail(q)[i].level = None
                 PROVE  Tail(q)[i].target \notin Alarmed
      BY <2>2, <2>6 DEF ChangesSettled
    <3>1. i + 1 \in 1..Len(q)
      BY <2>1
    <3> QED
      BY <2>1, <2>5, <3>1
  <2>9. AlarmsRaised'
    <3> SUFFICES ASSUME NEW t \in Targets, Alarming(t),
                        notified'[t] \notin {"warn", "alarm"}
                 PROVE  \E i \in 1..Len(Tail(q)) :
                          Tail(q)[i].target = t /\ Tail(q)[i].level # None
      BY <1>2, <2>2 DEF AlarmsRaised, Raising
    <3>1. t # c.target
      <4>1. SUFFICES ASSUME t = c.target PROVE FALSE
        OBVIOUS
      <4>2. 1 \in 1..Len(q)
        BY <2>1
      <4>3. c.level # None
        BY <2>1, <2>5, <4>1, <4>2 DEF Alarmed
      <4>4. notified'[t] = c.level
        BY <2>3, <2>4, <4>1, <4>3 DEF TypeOK
      <4> QED
        BY <2>4, <4>3, <4>4, AisAssumption
    <3>2. notified'[t] = notified[t]
      BY <2>3, <3>1 DEF TypeOK
    <3>3. PICK i \in 1..Len(q) : q[i].target = t /\ q[i].level # None
      BY <2>7, <3>2
    <3>4. i - 1 \in 1..Len(Tail(q)) /\ (i - 1) + 1 = i
      <4>1. i # 1
        BY <2>1, <3>1, <3>3
      <4> QED
        BY <2>1, <4>1
    <3>5. Tail(q)[i - 1] = q[i]
      BY <2>1, <3>4
    <3> QED
      BY <3>3, <3>4, <3>5
  <2> QED
    BY <1>3, <2>2, <2>8, <2>9 DEF AlarmInv, TaskEmpty, SnapsEligible
<1> QED
  BY <1>4, <1>5

-----------------------------------------------------------------------------
(* One step of the tracker keeps types and alarms in order.                *)
LEMMA NextInv ==
  ASSUME TypeOK, AlarmInv, [Next]_vars PROVE TypeOK' /\ AlarmInv'
<1>1. CASE Second
  BY <1>1, SecondType, SecondAlarm
<1>2. ASSUME NEW t \in Targets, NEW position \in BOOLEAN, Message(t, position)
      PROVE  TypeOK' /\ AlarmInv'
  <2>1. UNCHANGED <<targets, task, notified>>
    BY <1>2 DEF Message
  <2> QED
    BY <1>2, <2>1, MessageType, ChannelAlarm
<1>3. CASE Deliver
  BY <1>3, DeliverType, DeliverAlarm
<1>4. ASSUME NEW t \in Targets, NEW s \in Sent, EmitStatus(t, s)
      PROVE  TypeOK' /\ AlarmInv'
  <2>1. UNCHANGED <<targets, task, notified>>
    BY <1>4 DEF EmitStatus
  <2> QED
    BY <1>4, <2>1, EmitStatusType, ChannelAlarm
<1>5. CASE Tick
  BY <1>5, TickType, TickAlarm
<1>6. CASE CpaBegin
  BY <1>6, CpaBeginType, CpaBeginAlarm
<1>7. ASSUME NEW t \in Targets, NEW level \in Levels \cup {None}, Compute(t, level)
      PROVE  TypeOK' /\ AlarmInv'
  BY <1>7, ComputeType, ComputeAlarm DEF AlarmInv
<1>8. ASSUME NEW t \in Targets, Skip(t) PROVE TypeOK' /\ AlarmInv'
  BY <1>8, SkipType, SkipAlarm
<1>9. CASE EmitCpa
  BY <1>9, EmitCpaType, EmitCpaAlarm
<1>10. CASE Notify
  BY <1>10, NotifyType, NotifyAlarm
<1>11. CASE UNCHANGED vars
  <2>1. TypeOK'
    BY <1>11 DEF TypeOK, vars
  <2>2. UNCHANGED <<targets, task, notified>>
    BY <1>11 DEF vars
  <2> QED
    BY <2>1, <2>2, ChannelAlarm
<1> QED
  BY <1>1, <1>2, <1>3, <1>4, <1>5, <1>6, <1>7, <1>8, <1>9, <1>10, <1>11
     DEF Next, TickTask

LEMMA AisInvariant == Spec => [](TypeOK /\ AlarmInv)
<1>1. Init => TypeOK /\ AlarmInv
  BY TypeInit, AlarmInit
<1>2. TypeOK /\ AlarmInv /\ [Next]_vars => (TypeOK /\ AlarmInv)'
  BY NextInv
<1> QED
  BY <1>1, <1>2, PTL DEF Spec

(* The tracker's map, the channel, the status deltas in flight and the     *)
(* locals of the tick task keep their shapes; no bound is exceeded.        *)
THEOREM AisTypeCorrect == Spec => []TypeOK
BY AisInvariant, PTL

(* targets_for_cpa, the subscription and tick together: whatever their     *)
(* interleaving, the alarm flag is up for confirmed targets with a         *)
(* position only.                                                          *)
THEOREM AlarmOnlyConfirmed == Spec => []OnlyConfirmedAlarm
<1>1. AlarmInv => OnlyConfirmedAlarm
  BY DEF AlarmInv
<1> QED
  BY <1>1, AisInvariant, PTL

(* run_cpa_tick sets a flag and sends the notification several awaits      *)
(* later; when the pass is over every flag that is up has its notification *)
(* in the store.                                                           *)
THEOREM AlarmAlwaysShown == Spec => []AlarmIsShown
<1>1. AlarmInv => AlarmIsShown
  <2> SUFFICES ASSUME AlarmInv, task.at = "idle",
                      NEW t \in Targets, Alarming(t)
               PROVE  notified[t] \in {"warn", "alarm"}
    BY DEF AlarmIsShown
  <2>1. task.changes = <<>>
    BY DEF AlarmInv, TaskEmpty
  <2>2. ~Raising(t)
    BY <2>1 DEF Raising
  <2> QED
    BY <2>2 DEF AlarmInv, AlarmsRaised
<1> QED
  BY <1>1, AisInvariant, PTL

-----------------------------------------------------------------------------
(* Orders of finite sets.                                                  *)

(* U[x] is what comes up to x in a total order of S.                       *)
TotalOrder(S, U) ==
  /\ U \in [S -> SUBSET S]
  /\ \A x \in S : x \in U[x]
  /\ \A x, y \in S : x \in U[y] \/ y \in U[x]
  /\ \A x, y \in S : x \in U[y] /\ y \in U[x] => x = y
  /\ \A x, y \in S : x \in U[y] => U[x] \subseteq U[y]
RankOf(U, x) == Cardinality(U[x])

(* Every element of a finite set has a rank of its own, and every number   *)
(* up to the size of the set is a rank.                                    *)
LEMMA RanksAreUnique ==
  ASSUME NEW S, IsFiniteSet(S), NEW U, TotalOrder(S, U)
  PROVE  /\ Cardinality(S) \in Nat
         /\ \A x \in S : RankOf(U, x) \in 1 .. Cardinality(S)
         /\ \A x, y \in S : RankOf(U, x) = RankOf(U, y) => x = y
         /\ \A x, y \in S : RankOf(U, x) <= RankOf(U, y) <=> x \in U[y]
         /\ \A k \in 1 .. Cardinality(S) : \E x \in S : RankOf(U, x) = k
<1>1. Cardinality(S) \in Nat BY FS_CardinalityType
<1>2. \A x \in S : U[x] \in SUBSET S BY DEF TotalOrder
<1>3. ASSUME NEW x \in S PROVE IsFiniteSet(U[x]) /\ RankOf(U, x) \in Nat
  BY <1>2, FS_Subset, FS_CardinalityType DEF RankOf
<1>4. ASSUME NEW x \in S PROVE RankOf(U, x) \in 1 .. Cardinality(S)
  <2>1. RankOf(U, x) <= Cardinality(S) BY <1>2, FS_Subset DEF RankOf
  <2>2. U[x] # {} BY DEF TotalOrder
  <2>3. RankOf(U, x) # 0 BY <1>3, <2>2, FS_EmptySet DEF RankOf
  <2>4. QED BY <1>1, <1>3, <2>1, <2>3
<1>5. ASSUME NEW x \in S, NEW y \in S, x \in U[y] PROVE RankOf(U, x) <= RankOf(U, y)
  <2>1. U[x] \in SUBSET U[y] BY <1>5 DEF TotalOrder
  <2>2. QED BY <1>3, <2>1, FS_Subset DEF RankOf
<1>6. ASSUME NEW x \in S, NEW y \in S, RankOf(U, x) = RankOf(U, y), x \in U[y] PROVE x = y
  <2>1. U[x] \in SUBSET U[y] BY <1>6 DEF TotalOrder
  <2>2. U[x] = U[y] BY <1>3, <1>6, <2>1, FS_Subset DEF RankOf
  <2>3. QED BY <1>6, <2>2 DEF TotalOrder
<1>7. ASSUME NEW x \in S, NEW y \in S, RankOf(U, x) = RankOf(U, y) PROVE x = y
  <2>1. x \in U[y] \/ y \in U[x] BY DEF TotalOrder
  <2>2. QED BY <1>6, <1>7, <2>1
<1>8. ASSUME NEW x \in S, NEW y \in S, RankOf(U, x) <= RankOf(U, y) PROVE x \in U[y]
  <2>1. CASE y \in U[x]
    <3>1. RankOf(U, x) = RankOf(U, y) BY <1>3, <1>5, <1>8, <2>1
    <3>2. QED BY <1>7, <3>1 DEF TotalOrder
  <2>2. QED BY <2>1 DEF TotalOrder
<1>9. ASSUME NEW k \in 1 .. Cardinality(S) PROVE \E x \in S : RankOf(U, x) = k
  <2> DEFINE r == [x \in S |-> RankOf(U, x)]
             T == 1 .. Cardinality(S)
  <2>1. r \in [S -> T] BY <1>4
  <2>2. \A x, y \in S : r[x] = r[y] => x = y BY <1>7
  <2>3. r \in Injection(S, T) BY <2>1, <2>2 DEF Injection, IsInjective
  <2>4. IsFiniteSet(T) /\ Cardinality(T) = Cardinality(S)
    <3>1. 0 \in Int /\ 1 \in Int /\ Cardinality(S) \in Int BY <1>1
    <3>2. Cardinality(T) = IF 1 > Cardinality(S) THEN 0 ELSE Cardinality(S) - 1 + 1
      BY <3>1, FS_Interval
    <3>3. QED BY <1>1, <3>1, <3>2, FS_Interval
  <2> HIDE DEF T
  <2>5. r \in Surjection(S, T)
    <3>1. Cardinality(S) = Cardinality(T) <=> r \in Surjection(S, T)
      BY <2>3, <2>4, FS_Injection
    <3>2. QED BY <2>4, <3>1
  <2>6. PICK x \in S : r[x] = k BY <2>5 DEF Surjection, T
  <2>7. QED BY <2>6
<1>10. QED BY <1>1, <1>4, <1>5, <1>7, <1>8, <1>9

(* So to count what comes up to an element puts the set in order.          *)
LEMMA RankedInOrder ==
  ASSUME NEW S, IsFiniteSet(S), NEW U, TotalOrder(S, U)
  PROVE  /\ Cardinality(S) \in Nat
         /\ InOrder(U) \in [1 .. Cardinality(S) -> S]
         /\ \A x \in S : \E k \in 1 .. Cardinality(S) : InOrder(U)[k] = x
         /\ \A j, k \in 1 .. Cardinality(S) :
              j <= k <=> InOrder(U)[j] \in U[InOrder(U)[k]]
<1> DEFINE n == Cardinality(S)
           f == InOrder(U)
<1>0. DOMAIN U = S BY DEF TotalOrder
<1>1. /\ n \in Nat
      /\ \A x \in S : RankOf(U, x) \in 1 .. n
      /\ \A x, y \in S : RankOf(U, x) = RankOf(U, y) => x = y
      /\ \A x, y \in S : RankOf(U, x) <= RankOf(U, y) <=> x \in U[y]
      /\ \A k \in 1 .. n : \E x \in S : RankOf(U, x) = k
  BY RanksAreUnique
<1>2. ASSUME NEW k \in 1 .. n PROVE f[k] \in S /\ RankOf(U, f[k]) = k
  <2>1. f[k] = CHOOSE x \in S : RankOf(U, x) = k BY <1>0, <1>2 DEF InOrder, RankOf
  <2>2. QED BY <1>1, <2>1
<1>3. f \in [1 .. n -> S]
  <2>1. f = [k \in 1 .. n |-> f[k]] BY <1>0 DEF InOrder
  <2> HIDE DEF f, n
  <2>2. QED BY <1>2, <2>1
<1> HIDE DEF f, n
<1>4. ASSUME NEW x \in S PROVE \E k \in 1 .. n : f[k] = x
  <2>1. RankOf(U, x) \in 1 .. n BY <1>1
  <2>2. f[RankOf(U, x)] = x BY <1>1, <1>2, <2>1
  <2>3. QED BY <2>1, <2>2
<1>5. ASSUME NEW j \in 1 .. n, NEW k \in 1 .. n PROVE j <= k <=> f[j] \in U[f[k]]
  BY <1>1, <1>2
<1>6. QED BY <1>1, <1>3, <1>4, <1>5 DEF f, n

LEMMA AscendingIs ==
  ASSUME NEW S \in SUBSET Int, IsFiniteSet(S)
  PROVE  /\ Cardinality(S) \in Nat
         /\ Ascending(S) \in [1 .. Cardinality(S) -> S]
         /\ \A x \in S : \E k \in 1 .. Cardinality(S) : Ascending(S)[k] = x
         /\ \A j, k \in 1 .. Cardinality(S) : j < k <=> Ascending(S)[j] < Ascending(S)[k]
<1> DEFINE U == [x \in S |-> {y \in S : y <= x}]
<1>0. \A x \in S : x \in Int OBVIOUS
<1>1. TotalOrder(S, U)
  <2>0. U \in [S -> SUBSET S] /\ \A x, y \in S : x \in U[y] <=> x <= y OBVIOUS
  <2> HIDE DEF U
  <2>1. \A x \in S : x \in U[x] BY <1>0, <2>0
  <2>2. \A x, y \in S : x \in U[y] \/ y \in U[x] BY <1>0, <2>0
  <2>3. \A x, y \in S : x \in U[y] /\ y \in U[x] => x = y BY <1>0, <2>0
  <2>4. \A x, y, z \in S : x \in U[y] /\ z \in U[x] => z \in U[y] BY <1>0, <2>0
  <2>5. \A x, y \in S : x \in U[y] => U[x] \subseteq U[y] BY <2>0, <2>4
  <2>6. QED BY <2>0, <2>1, <2>2, <2>3, <2>5 DEF TotalOrder
<1>2. Ascending(S) = InOrder(U) /\ \A x, y \in S : x \in U[y] <=> x <= y BY DEF Ascending
<1> HIDE DEF U
<1> DEFINE n == Cardinality(S)
           f == Ascending(S)
<1>3. /\ n \in Nat
      /\ f \in [1 .. n -> S]
      /\ \A x \in S : \E k \in 1 .. n : f[k] = x
      /\ \A j, k \in 1 .. n : j <= k <=> f[j] \in U[f[k]]
  BY <1>1, <1>2, RankedInOrder
<1> HIDE DEF n, f
<1>4. ASSUME NEW j \in 1 .. n, NEW k \in 1 .. n PROVE j < k <=> f[j] < f[k]
  <2>1. f[j] \in Int /\ f[k] \in Int /\ f[j] \in S /\ f[k] \in S BY <1>3, <1>0
  <2>2. k <= j <=> f[k] <= f[j] BY <1>2, <1>3, <2>1
  <2>3. j \in Int /\ k \in Int BY <1>3
  <2>4. QED BY <2>1, <2>2, <2>3
<1>5. QED BY <1>3, <1>4 DEF n, f

LEMMA PlacesFinite ==
  ASSUME NEW n \in Nat, NEW P \in SUBSET (1 .. n)
  PROVE  P \in SUBSET Int /\ IsFiniteSet(P) /\ Cardinality(P) \in 0 .. n
<1>1. IsFiniteSet(1 .. n) /\ Cardinality(1 .. n) = n
  <2>1. Cardinality(1 .. n) = IF 1 > n THEN 0 ELSE n - 1 + 1 BY FS_Interval
  <2>2. QED BY <2>1, FS_Interval
<1>2. IsFiniteSet(P) /\ Cardinality(P) <= n BY <1>1, FS_Subset
<1>3. QED BY <1>2, FS_CardinalityType

(* f leads from the places of the result to the places that were picked.   *)
Picks(f, P) ==
  /\ f \in [1 .. Cardinality(P) -> P]
  /\ \A x \in P : \E k \in 1 .. Cardinality(P) : f[k] = x
  /\ \A j, k \in 1 .. Cardinality(P) : j < k <=> f[j] < f[k]

LEMMA AmongIs ==
  ASSUME NEW seq, NEW n \in Nat, NEW P \in SUBSET (1 .. n)
  PROVE  /\ Cardinality(P) \in 0 .. n
         /\ Picks(Ascending(P), P)
         /\ Among(seq, P) = [k \in 1 .. Cardinality(P) |-> seq[Ascending(P)[k]]]
<1>1. P \in SUBSET Int /\ IsFiniteSet(P) /\ Cardinality(P) \in 0 .. n BY PlacesFinite
<1>2. Picks(Ascending(P), P) BY <1>1, AscendingIs DEF Picks
<1>3. DOMAIN Ascending(P) = 1 .. Cardinality(P) BY <1>2 DEF Picks
<1>4. QED BY <1>1, <1>2, <1>3 DEF Among

LEMMA AmongSeq ==
  ASSUME NEW X, NEW seq \in Seq(X), NEW P \in SUBSET DOMAIN seq
  PROVE  /\ Among(seq, P) \in Seq(X)
         /\ Len(Among(seq, P)) = Cardinality(P) /\ Cardinality(P) \in Nat
<1>1. Len(seq) \in Nat /\ DOMAIN seq = 1 .. Len(seq) OBVIOUS
<1>2. /\ Cardinality(P) \in 0 .. Len(seq)
      /\ Picks(Ascending(P), P)
      /\ Among(seq, P) = [k \in 1 .. Cardinality(P) |-> seq[Ascending(P)[k]]]
  BY <1>1, AmongIs
<1>3. \A k \in 1 .. Cardinality(P) : seq[Ascending(P)[k]] \in X BY <1>1, <1>2 DEF Picks
<1> DEFINE c == Cardinality(P)
           a == Among(seq, P)
<1>4. c \in Nat BY <1>1, <1>2
<1> HIDE DEF c
<1>5. a \in [1 .. c -> X] BY <1>2, <1>3 DEF c
<1> HIDE DEF a
<1>6. a \in Seq(X) /\ Len(a) = c BY <1>4, <1>5
<1>7. QED BY <1>4, <1>6 DEF a, c

(* f leads from the places of a sorted sequence to where they were.        *)
Sorts(f, key, n) ==
  /\ f \in [1 .. n -> 1 .. n]
  /\ \A i \in 1 .. n : \E k \in 1 .. n : f[k] = i
  /\ \A j, k \in 1 .. n : f[j] = f[k] => j = k
  /\ \A j, k \in 1 .. n : j <= k => key[f[j]] <= key[f[k]]

Numbers(key, n) == DOMAIN key = 1 .. n /\ \A i \in 1 .. n : key[i] \in Int

LEMMA SortedByIs ==
  ASSUME NEW n \in Nat, NEW key, Numbers(key, n), NEW seq
  PROVE  \E f : Sorts(f, key, n) /\ SortedBy(key, seq) = [k \in 1 .. n |-> seq[f[k]]]
<1> DEFINE S == 1 .. n
           U == [i \in DOMAIN key |->
                   {j \in DOMAIN key : key[j] < key[i] \/ (key[j] = key[i] /\ j <= i)}]
           f == InOrder(U)
<1>0. /\ U \in [S -> SUBSET S]
      /\ \A i, j \in S : i \in U[j] <=> key[i] < key[j] \/ (key[i] = key[j] /\ i <= j)
      /\ \A i \in S : key[i] \in Int
  BY DEF Numbers
<1>3. SortedBy(key, seq) = [k \in DOMAIN f |-> seq[f[k]]] BY DEF SortedBy
<1> HIDE DEF f, U
<1>1. TotalOrder(S, U)
  <2>2. \A x \in S : x \in U[x] BY <1>0
  <2>3. \A x, y \in S : x \in U[y] \/ y \in U[x] BY <1>0
  <2>4. \A x, y \in S : x \in U[y] /\ y \in U[x] => x = y BY <1>0
  <2>5. \A x, y, z \in S : x \in U[y] /\ z \in U[x] => z \in U[y] BY <1>0
  <2>6. \A x, y \in S : x \in U[y] => U[x] \subseteq U[y] BY <1>0, <2>5
  <2>7. QED BY <1>0, <2>2, <2>3, <2>4, <2>6 DEF TotalOrder
<1>2. IsFiniteSet(S) /\ Cardinality(S) = n
  <2>1. Cardinality(1 .. n) = IF 1 > n THEN 0 ELSE n - 1 + 1 BY FS_Interval
  <2>2. QED BY <2>1, FS_Interval
<1>4. /\ f \in [1 .. n -> 1 .. n]
      /\ \A i \in 1 .. n : \E k \in 1 .. n : f[k] = i
      /\ \A j, k \in 1 .. n : j <= k <=> f[j] \in U[f[k]]
  <2>1. /\ InOrder(U) \in [1 .. Cardinality(S) -> S]
        /\ \A x \in S : \E k \in 1 .. Cardinality(S) : InOrder(U)[k] = x
        /\ \A j, k \in 1 .. Cardinality(S) : j <= k <=> InOrder(U)[j] \in U[InOrder(U)[k]]
    <3> HIDE DEF S
    <3>1. QED BY <1>1, <1>2, RankedInOrder
  <2>2. QED BY <1>2, <2>1 DEF f
<1>5. \A i, j \in S : i \in U[j] => key[i] <= key[j] BY <1>0
<1>6. \A j, k \in 1 .. n : j <= k => key[f[j]] <= key[f[k]] BY <1>4, <1>5
<1>7. ASSUME NEW j \in 1 .. n, NEW k \in 1 .. n, f[j] = f[k] PROVE j = k
  <2>1. f[j] \in U[f[k]] /\ f[k] \in U[f[j]] BY <1>1, <1>4, <1>7 DEF TotalOrder
  <2>2. j <= k /\ k <= j BY <1>4, <2>1
  <2>3. QED BY <2>2
<1>8. Sorts(f, key, n) BY <1>4, <1>6, <1>7 DEF Sorts
<1>9. SortedBy(key, seq) = [k \in 1 .. n |-> seq[f[k]]] BY <1>3, <1>4
<1>10. QED BY <1>8, <1>9

-----------------------------------------------------------------------------
(* The table of the tracks plugin.                                         *)

Speeds == {d.sog : d \in TrackDeltas} \cup {NoSuch}
Point == [context : Boats, at : Int \X Int, timestamp : Int, sog : Speeds]

LEMMA PointIs ==
  ASSUME NEW p \in Point
  PROVE  p.context \in Boats /\ p.at \in Int \X Int /\ p.timestamp \in Int
  BY DEF Point

(* In its first run the plugin remembers of every vessel in the table a    *)
(* moment no earlier than any of its points.                               *)
RecordedLast ==
  trackStarts = 1 /\ tracking # NoSuch =>
    \A i \in DOMAIN track_points :
      /\ last_recorded[track_points[i].context] \in Int
      /\ track_points[i].timestamp <= last_recorded[track_points[i].context]
TableInv ==
  /\ minute \in Int /\ trackStarts \in Nat
  /\ aux_cache \in [Boats -> Speeds]
  /\ last_recorded \in [Boats -> Int \cup {NoSuch}]
  /\ track_points \in Seq(Point)
  /\ tracking # NoSuch => tracking \in TrackConfigs /\ trackStarts # 0
  /\ trackStarts = 0 => track_points = <<>>
  /\ RecordedLast /\ PointsSpaced

(* Rows that stay keep their order.                                        *)
LEMMA KeepsInv ==
  ASSUME TableInv, NEW P \in SUBSET DOMAIN track_points, Keep(P),
         UNCHANGED <<tracking, last_recorded, aux_cache, minute, heardDeltas, trackStarts>>
  PROVE  TableInv'
<1> DEFINE n == Len(track_points)
           c == Cardinality(P)
           a == Ascending(P)
<1>0. track_points \in Seq(Point) /\ DOMAIN track_points = 1 .. n /\ n \in Nat BY DEF TableInv
<1>1. track_points' \in Seq(Point) /\ Len(track_points') = c /\ c \in Nat
  BY <1>0, AmongSeq DEF Keep
<1>2. c \in 0 .. n /\ Picks(a, P) /\ track_points' = [k \in 1 .. c |-> track_points[a[k]]]
  BY <1>0, AmongIs DEF Keep
<1>3. DOMAIN track_points' = 1 .. c BY <1>2
<1>4. ASSUME NEW k \in 1 .. c
      PROVE  a[k] \in DOMAIN track_points /\ track_points'[k] = track_points[a[k]]
  BY <1>2 DEF Picks
<1>5. \A j, k \in 1 .. c : j < k => a[j] < a[k] BY <1>2 DEF Picks
<1> HIDE DEF n, c, a
<1>6. RecordedLast' BY <1>3, <1>4 DEF TableInv, RecordedLast
<1>7. PointsSpaced' BY <1>3, <1>4, <1>5 DEF TableInv, PointsSpaced
<1>8. trackStarts' = 0 => track_points' = <<>>
  <2>1. SUFFICES ASSUME trackStarts' = 0 PROVE track_points' = <<>> OBVIOUS
  <2>2. track_points = <<>> BY <2>1 DEF TableInv
  <2>3. n = 0 BY <2>2 DEF n
  <2>4. c = 0 BY <1>1, <1>2, <2>3
  <2>5. QED BY <1>1, <2>4
<1>9. QED BY <1>1, <1>6, <1>7, <1>8 DEF TableInv

LEMMA TableInitially == TracksInit => TableInv
<1>1. SUFFICES ASSUME TracksInit PROVE TableInv OBVIOUS
<1>2. tracking = NoSuch /\ track_points = <<>> /\ minute = 0 /\ trackStarts = 0 BY <1>1 DEF TracksInit
<1>3. aux_cache \in [Boats -> Speeds] /\ last_recorded \in [Boats -> Int \cup {NoSuch}]
  BY <1>1 DEF TracksInit, Speeds
<1>4. QED BY <1>2, <1>3 DEF TableInv, RecordedLast, PointsSpaced

LEMMA HearVesselInv ==
  ASSUME TableInv, HearVessel PROVE TableInv'
<1>1. PICK d \in TrackDeltas :
        /\ Wanted(d.context)
        /\ aux_cache' = IF d.sog = NoSuch THEN aux_cache
                        ELSE [aux_cache EXCEPT ![d.context] = d.sog]
        /\ IF d.position # NoSuch /\ Due(d.context, minute + d.ahead)
           THEN /\ last_recorded' = [last_recorded EXCEPT ![d.context] = minute + d.ahead]
                /\ track_points' = Append(track_points,
                     [context |-> d.context, at |-> d.position, timestamp |-> minute + d.ahead,
                      sog |-> aux_cache'[d.context]])
           ELSE UNCHANGED <<last_recorded, track_points>>
  BY DEF HearVessel
<1>2. tracking # NoSuch /\ UNCHANGED <<tracking, minute, trackStarts>> BY DEF HearVessel
<1>3. d.context \in Boats BY <1>1 DEF Wanted, Boats
<1>4. aux_cache' \in [Boats -> Speeds] BY <1>1, <1>3 DEF TableInv, Speeds
<1>5. CASE UNCHANGED <<last_recorded, track_points>>
  BY <1>2, <1>4, <1>5 DEF TableInv, RecordedLast, PointsSpaced
<1>6. CASE d.position # NoSuch /\ Due(d.context, minute + d.ahead)
  <2> DEFINE t == minute + d.ahead
             row == [context |-> d.context, at |-> d.position, timestamp |-> t,
                     sog |-> aux_cache'[d.context]]
             n == Len(track_points)
  <2>1. t \in Int BY TracksAssumption DEF TableInv
  <2>2. row \in Point BY <1>3, <1>4, <1>6, <2>1, TracksAssumption DEF Point
  <2>3. last_recorded' = [last_recorded EXCEPT ![d.context] = t]
    BY <1>1, <1>6
  <2>4. track_points' = Append(track_points, row) BY <1>1, <1>6
  <2>5. row.context = d.context /\ row.timestamp = t OBVIOUS
  <2> HIDE DEF t, row
  <2>6. track_points \in Seq(Point) /\ n \in Nat /\ DOMAIN track_points = 1 .. n BY DEF TableInv
  <2>7. track_points' \in Seq(Point) /\ DOMAIN track_points' = 1 .. (n + 1)
    BY <2>2, <2>4, <2>6
  <2>8. track_points'[n + 1] = row /\ \A i \in 1 .. n : track_points'[i] = track_points[i]
    BY <2>2, <2>4, <2>6
  <2>9. last_recorded' \in [Boats -> Int \cup {NoSuch}]
    BY <1>3, <2>1, <2>3 DEF TableInv
  <2>10. tracking \in TrackConfigs /\ tracking.min_interval \in Nat /\ trackStarts # 0
    BY <1>2, TracksAssumption DEF TableInv
  <2>11. \A i \in 1 .. n : track_points[i].context \in Boats /\ track_points[i].timestamp \in Int
    <3>1. \A i \in 1 .. n : track_points[i] \in Point BY <2>6
    <3>2. QED BY <3>1, PointIs
  <2> HIDE DEF n
  <2>12. last_recorded'[d.context] = t
         /\ \A v \in Boats : v # d.context => last_recorded'[v] = last_recorded[v]
    BY <1>3, <2>3 DEF TableInv
  <2>13. ASSUME trackStarts = 1, NEW i \in 1 .. n, track_points[i].context = d.context
         PROVE  t >= track_points[i].timestamp + tracking.min_interval
    <3>1. /\ last_recorded[d.context] \in Int
          /\ track_points[i].timestamp <= last_recorded[d.context]
      BY <1>2, <2>6, <2>13 DEF TableInv, RecordedLast
    <3>2. t - last_recorded[d.context] >= tracking.min_interval
      BY <1>6, <3>1, TracksAssumption DEF Due, t
    <3>3. QED BY <2>1, <2>10, <2>11, <3>1, <3>2
  <2>14. PointsSpaced'
    <3>1. SUFFICES ASSUME trackStarts = 1,
                          NEW i \in 1 .. (n + 1), NEW j \in 1 .. (n + 1), i < j,
                          track_points'[i].context = track_points'[j].context
                   PROVE  track_points'[j].timestamp
                            >= track_points'[i].timestamp + tracking.min_interval
      BY <1>2, <2>7 DEF PointsSpaced
    <3>2. i \in 1 .. n BY <2>6, <3>1
    <3>3. CASE j = n + 1 BY <2>5, <2>8, <2>13, <3>1, <3>2, <3>3
    <3>4. CASE j \in 1 .. n
      BY <1>2, <2>6, <2>8, <3>1, <3>2, <3>4 DEF TableInv, PointsSpaced
    <3>5. QED BY <2>6, <3>3, <3>4
  <2>15. RecordedLast'
    <3>1. SUFFICES ASSUME trackStarts = 1, NEW i \in 1 .. (n + 1)
                   PROVE  /\ last_recorded'[track_points'[i].context] \in Int
                          /\ track_points'[i].timestamp <= last_recorded'[track_points'[i].context]
      BY <1>2, <2>7 DEF RecordedLast
    <3>2. CASE i = n + 1 BY <2>1, <2>5, <2>8, <2>12, <3>2
    <3>3. CASE i \in 1 .. n
      <4>1. track_points'[i] = track_points[i] BY <2>8, <3>3
      <4>2. /\ last_recorded[track_points[i].context] \in Int
            /\ track_points[i].timestamp <= last_recorded[track_points[i].context]
        BY <1>2, <2>6, <3>1, <3>3 DEF TableInv, RecordedLast
      <4>3. CASE track_points[i].context # d.context BY <2>11, <2>12, <3>3, <4>1, <4>2, <4>3
      <4>4. CASE track_points[i].context = d.context
        <5>1. t - last_recorded[d.context] >= tracking.min_interval
          BY <1>6, <4>2, <4>4, TracksAssumption DEF Due, t
        <5>2. QED BY <2>1, <2>10, <2>11, <2>12, <3>3, <4>1, <4>2, <4>4, <5>1
      <4>5. QED BY <4>3, <4>4
    <3>4. QED BY <2>6, <3>2, <3>3
  <2>16. QED BY <1>2, <1>4, <2>7, <2>9, <2>10, <2>14, <2>15 DEF TableInv
<1>7. QED BY <1>1, <1>5, <1>6

LEMMA TableStep ==
  ASSUME TableInv, [TracksNext]_trackVars PROVE TableInv'
<1>1. CASE StartTracks
  <2>1. /\ trackStarts' = trackStarts + 1 /\ trackStarts \in Nat
        /\ tracking' \in TrackConfigs
        /\ UNCHANGED <<track_points, minute, heardDeltas>>
    BY <1>1 DEF StartTracks, TableInv
  <2>2. aux_cache' \in [Boats -> Speeds] /\ last_recorded' \in [Boats -> Int \cup {NoSuch}]
    BY <1>1 DEF StartTracks, Speeds
  <2>3. trackStarts' = 1 => track_points' = <<>> BY <2>1 DEF TableInv
  <2>4. RecordedLast' /\ PointsSpaced' BY <2>3 DEF RecordedLast, PointsSpaced
  <2>5. trackStarts' # 0 BY <2>1
  <2>6. QED BY <2>1, <2>2, <2>4, <2>5 DEF TableInv
<1>2. CASE StopTracks
  BY <1>2 DEF StopTracks, TableInv, RecordedLast, PointsSpaced
<1>3. CASE HearVessel BY <1>3, HearVesselInv
<1>4. CASE Prune
  <2>1. PICK P \in SUBSET DOMAIN track_points : Keep(P) BY <1>4 DEF Prune
  <2>2. QED BY <1>4, <2>1, KeepsInv DEF Prune
<1>5. CASE DeleteTracks
  <2>1. CASE \E v \in Boats : Keep({i \in DOMAIN track_points : track_points[i].context # v})
    <3>1. PICK P \in SUBSET DOMAIN track_points : Keep(P) BY <2>1
    <3>2. QED BY <1>5, <3>1, KeepsInv DEF DeleteTracks
  <2>2. CASE track_points' = <<>>
    <3>1. RecordedLast' /\ PointsSpaced' BY <2>2 DEF RecordedLast, PointsSpaced
    <3>2. UNCHANGED <<tracking, last_recorded, aux_cache, minute, heardDeltas, trackStarts>>
      BY <1>5 DEF DeleteTracks
    <3>3. QED BY <2>2, <3>1, <3>2 DEF TableInv
  <2>3. QED BY <1>5, <2>1, <2>2 DEF DeleteTracks
<1>6. CASE MinutesPass
  <2>1. minute' \in Int BY <1>6 DEF MinutesPass, SEGMENT_GAP, TableInv
  <2>2. QED BY <1>6, <2>1 DEF MinutesPass, TableInv, RecordedLast, PointsSpaced
<1>7. CASE UNCHANGED trackVars
  BY <1>7 DEF trackVars, TableInv, RecordedLast, PointsSpaced
<1>8. QED BY <1>1, <1>2, <1>3, <1>4, <1>5, <1>6, <1>7 DEF TracksNext

-----------------------------------------------------------------------------
(* What a request finds.                                                   *)

InTime(points) == \A i, j \in DOMAIN points : i <= j => points[i].timestamp <= points[j].timestamp

(* g leads from the points found to the rows they are.                     *)
Finds(g, points, rows, M) ==
  /\ g \in [DOMAIN points -> M]
  /\ \A i \in M : \E k \in DOMAIN points : g[k] = i
  /\ \A j, k \in DOMAIN points : g[j] = g[k] => j = k
  /\ \A k \in DOMAIN points : points[k] = rows[g[k]]

LEMMA OrderedIs ==
  ASSUME NEW rows \in Seq(Point)
  PROVE  /\ Ordered(rows) \in Seq(Point) /\ InTime(Ordered(rows))
         /\ \E f : Finds(f, Ordered(rows), rows, DOMAIN rows)
<1> DEFINE n == Len(rows)
           key == [i \in DOMAIN rows |-> rows[i].timestamp]
           s == Ordered(rows)
<1>1. n \in Nat /\ DOMAIN rows = 1 .. n /\ DOMAIN key = 1 .. n OBVIOUS
<1>2. \A i \in 1 .. n : rows[i] \in Point BY <1>1
<1>3. \A i \in 1 .. n : key[i] \in Int /\ key[i] = rows[i].timestamp BY <1>1, <1>2, PointIs
<1>4. s = SortedBy(key, rows) BY DEF Ordered
<1> HIDE DEF n, key, s
<1>5. PICK f : Sorts(f, key, n) /\ s = [k \in 1 .. n |-> rows[f[k]]]
  <2>1. Numbers(key, n) BY <1>1, <1>3 DEF Numbers
  <2>2. QED BY <1>1, <1>4, <2>1, SortedByIs
<1>6. s \in Seq(Point) /\ DOMAIN s = 1 .. n BY <1>1, <1>2, <1>5 DEF Sorts
<1>7. Finds(f, s, rows, DOMAIN rows) BY <1>1, <1>5, <1>6 DEF Sorts, Finds
<1>8. InTime(s)
  <2>1. \A k \in 1 .. n : s[k].timestamp = key[f[k]] BY <1>3, <1>5 DEF Sorts
  <2>2. \A j, k \in 1 .. n : j <= k => s[j].timestamp <= s[k].timestamp
    BY <1>5, <2>1 DEF Sorts
  <2>3. QED BY <1>6, <2>2 DEF InTime
<1>9. QED BY <1>6, <1>7, <1>8 DEF s

(* Two sets one of which leads to the other one to one are of one size.    *)
LEMMA SameSize ==
  ASSUME NEW S, NEW T, IsFiniteSet(S), NEW g \in [S -> T],
         \A t \in T : \E x \in S : g[x] = t, \A x, y \in S : g[x] = g[y] => x = y
  PROVE  IsFiniteSet(T) /\ Cardinality(T) = Cardinality(S)
<1>1. g \in Bijection(S, T) BY DEF Bijection, Injection, Surjection, IsInjective
<1>2. ExistsBijection(S, T) BY <1>1 DEF ExistsBijection
<1>3. QED BY <1>2, FS_Bijection

Matching(q, v) == {i \in DOMAIN track_points :
                     track_points[i].context = v /\ Matches(q, track_points[i])}
Found(q, v) == LET rows == Ordered(track_points)
               IN  Among(rows, {i \in DOMAIN rows : rows[i].context = v /\ Matches(q, rows[i])})

(* A request finds all the rows that match, in the order of their times.   *)
LEMMA FoundIs ==
  ASSUME track_points \in Seq(Point), NEW q, NEW v
  PROVE  /\ Found(q, v) \in Seq(Point) /\ InTime(Found(q, v))
         /\ \E g : Finds(g, Found(q, v), track_points, Matching(q, v))
         /\ IsFiniteSet(Matching(q, v)) /\ Len(Found(q, v)) = Cardinality(Matching(q, v))
<1> DEFINE s == Ordered(track_points)
           P == {i \in DOMAIN s : s[i].context = v /\ Matches(q, s[i])}
           F == Found(q, v)
           M == Matching(q, v)
           c == Cardinality(P)
           a == Ascending(P)
           n == Len(s)
<1>1. s \in Seq(Point) /\ InTime(s) BY OrderedIs
<1>2. PICK f : Finds(f, s, track_points, DOMAIN track_points) BY OrderedIs
<1>3. n \in Nat /\ DOMAIN s = 1 .. n BY <1>1
<1>4. F = Among(s, P) BY DEF Found
<1> HIDE DEF s
<1>5. P \in SUBSET DOMAIN s OBVIOUS
<1>6. c \in 0 .. n /\ Picks(a, P) /\ F = [k \in 1 .. c |-> s[a[k]]]
  <2> HIDE DEF P, F
  <2>1. QED BY <1>3, <1>4, <1>5, AmongIs
<1>7. F \in Seq(Point) /\ Len(F) = c /\ c \in Nat
  <2> HIDE DEF P, F
  <2>1. QED BY <1>1, <1>4, <1>5, AmongSeq
<1>8. \A i \in DOMAIN s : i \in P <=> f[i] \in M BY <1>2 DEF Finds, Matching
<1> HIDE DEF P, F, M, a, c
<1>9. DOMAIN F = 1 .. c BY <1>6
<1>10. \A j, k \in 1 .. c : a[j] \in DOMAIN s /\ F[j] = s[a[j]] /\ (j <= k => a[j] <= a[k])
  <2>1. \A j \in 1 .. c : a[j] \in P BY <1>6 DEF Picks, c
  <2>2. \A j \in 1 .. c : a[j] \in Int BY <1>3, <1>5, <2>1
  <2>3. \A j, k \in 1 .. c : j < k => a[j] < a[k] BY <1>6 DEF Picks, c
  <2>4. \A j, k \in 1 .. c : j <= k => a[j] <= a[k] BY <2>2, <2>3
  <2>5. QED BY <1>5, <1>6, <2>1, <2>4
<1>11. InTime(F) BY <1>1, <1>9, <1>10 DEF InTime
<1> DEFINE g == [k \in 1 .. c |-> f[a[k]]]
<1>12. Finds(g, F, track_points, M)
  <2>1. \A k \in 1 .. c : a[k] \in P BY <1>6 DEF Picks, c
  <2>2. g \in [1 .. c -> M] BY <1>5, <1>8, <2>1
  <2>3. ASSUME NEW i \in M PROVE \E k \in 1 .. c : g[k] = i
    <3>1. PICK x \in DOMAIN s : f[x] = i BY <1>2 DEF Finds, M, Matching
    <3>2. x \in P BY <1>8, <3>1
    <3>3. PICK k \in 1 .. c : a[k] = x BY <1>6, <3>2 DEF Picks, c
    <3>4. QED BY <3>1, <3>3
  <2>4. ASSUME NEW j \in 1 .. c, NEW k \in 1 .. c, g[j] = g[k] PROVE j = k
    <3>1. a[j] = a[k] BY <1>2, <1>10, <2>4 DEF Finds
    <3>2. ~(j < k) /\ ~(k < j)
      <4>1. a[j] \in Int BY <1>3, <1>5, <2>1
      <4>2. QED BY <1>6, <3>1, <4>1 DEF Picks, c
    <3>3. QED BY <3>2
  <2>5. \A k \in 1 .. c : F[k] = track_points[g[k]] BY <1>2, <1>10 DEF Finds
  <2> HIDE DEF g
  <2>6. QED BY <1>9, <2>2, <2>3, <2>4, <2>5 DEF Finds
<1> HIDE DEF g
<1>13. IsFiniteSet(1 .. c) /\ Cardinality(1 .. c) = c
  <2>1. Cardinality(1 .. c) = IF 1 > c THEN 0 ELSE c - 1 + 1 BY <1>7, FS_Interval
  <2>2. QED BY <1>7, <2>1, FS_Interval
<1>14. IsFiniteSet(M) /\ Cardinality(M) = c
  <2> DEFINE D == 1 .. c
  <2>1. /\ g \in [D -> M] /\ \A t \in M : \E x \in D : g[x] = t
        /\ \A x, y \in D : g[x] = g[y] => x = y
    BY <1>9, <1>12 DEF Finds
  <2>2. IsFiniteSet(D) /\ Cardinality(D) = c BY <1>13
  <2> HIDE DEF D
  <2>3. QED BY <2>1, <2>2, SameSize
<1>15. QED BY <1>7, <1>11, <1>12, <1>14 DEF F, M

LEMMA QueryIs ==
  ASSUME NEW q
  PROVE  /\ DOMAIN query(q) = {u \in Boats : Found(q, u) # <<>>}
         /\ \A v \in DOMAIN query(q) : query(q)[v] = segment_by_gap(limited(q, Found(q, v)))
  BY DEF query, Found

LEMMA LesserOf ==
  ASSUME NEW a \in Int, NEW b \in Int
  PROVE  Min({a, b}) = IF a <= b THEN a ELSE b
<1>1. \E x \in {a, b} : \A y \in {a, b} : x <= y OBVIOUS
<1>2. Min({a, b}) \in {a, b} /\ \A y \in {a, b} : Min({a, b}) <= y BY <1>1 DEF Min
<1>3. QED BY <1>2

(* A limit leaves the most recent points.                                  *)
LEMMA LimitedIs ==
  ASSUME NEW q, Asked(q, "limit") => q.limit \in Nat,
         NEW found \in Seq(Point), InTime(found)
  PROVE  /\ limited(q, found) \in Seq(Point) /\ InTime(limited(q, found))
         /\ Len(limited(q, found)) = IF Asked(q, "limit") THEN Min({q.limit, Len(found)})
                                     ELSE Len(found)
         /\ \E d \in Nat : /\ Len(limited(q, found)) + d = Len(found)
                           /\ \A i \in DOMAIN limited(q, found) :
                                limited(q, found)[i] = found[i + d]
<1> DEFINE n == Len(found)
           p == limited(q, found)
<1>1. n \in Nat /\ DOMAIN found = 1 .. n /\ \A i \in 1 .. n : found[i] \in Point OBVIOUS
<1>2. CASE ~(Asked(q, "limit") /\ n > q.limit)
  <2>1. p = found BY <1>2 DEF limited
  <2>2. Asked(q, "limit") => Min({q.limit, n}) = n BY <1>1, <1>2, LesserOf
  <2>3. \A i \in DOMAIN p : p[i] = found[i + 0] BY <2>1
  <2>4. 0 \in Nat /\ Len(p) + 0 = n BY <1>1, <2>1
  <2>5. Len(p) = IF Asked(q, "limit") THEN Min({q.limit, n}) ELSE n BY <2>1, <2>2
  <2> HIDE DEF p, n
  <2>6. \E d \in Nat : Len(p) + d = n /\ \A i \in DOMAIN p : p[i] = found[i + d] BY <2>3, <2>4
  <2>7. QED BY <2>1, <2>5, <2>6 DEF p, n
<1>3. CASE Asked(q, "limit") /\ n > q.limit
  <2> DEFINE m == q.limit
             d == n - m
  <2>1. m \in Nat /\ d \in Nat BY <1>1, <1>3
  <2>2. p = SubSeq(found, n - m + 1, n) BY <1>3 DEF limited
  <2>3. Min({m, n}) = m BY <1>1, <1>3, <2>1, LesserOf
  <2>4. Asked(q, "limit") /\ n > m BY <1>3
  <2> HIDE DEF n, m, p
  <2>5. /\ p \in Seq(Point)
        /\ Len(p) = IF n - m + 1 <= n THEN n - (n - m + 1) + 1 ELSE 0
        /\ \A i \in 1 .. n - (n - m + 1) + 1 : p[i] = found[n - m + 1 + i - 1]
    <3>1. \A i \in n - m + 1 .. n : found[i] \in Point BY <1>1, <2>1
    <3>2. n - m + 1 \in Int /\ n \in Int BY <1>1, <2>1
    <3>3. QED BY <2>2, <3>1, <3>2, SubSeqProperties
  <2>6. Len(p) = m BY <1>1, <2>1, <2>5
  <2>7. \A i \in 1 .. m : p[i] = found[i + d]
    <3>1. \A i \in 1 .. m : n - m + 1 + i - 1 = i + d /\ i \in 1 .. n - (n - m + 1) + 1
      BY <1>1, <2>1
    <3>2. QED BY <2>5, <3>1
  <2>8. DOMAIN p = 1 .. m BY <2>5, <2>6
  <2>9. InTime(p)
    <3>1. \A i \in 1 .. m : i + d \in 1 .. n BY <1>1, <2>1, <2>4
    <3>2. \A i, j \in 1 .. m : i <= j => i + d <= j + d BY <1>1, <2>1
    <3>3. QED BY <1>1, <2>7, <2>8, <3>1, <3>2 DEF InTime
  <2>10. m + d = n BY <1>1, <2>1
  <2>11. QED BY <2>1, <2>3, <2>4, <2>5, <2>6, <2>7, <2>8, <2>9, <2>10 DEF n, p, m
<1>4. QED BY <1>2, <1>3

(* Where the m segments of a track begin and end.                          *)
Cuts(first, last, m, points) ==
  /\ m \in Nat /\ m # 0
  /\ first \in [1 .. m -> DOMAIN points] /\ last \in [1 .. m -> DOMAIN points]
  /\ first[1] = 1 /\ last[m] = Len(points)
  /\ \A k \in 1 .. m : first[k] <= last[k]
  /\ \A k \in 2 .. m : first[k] = last[k - 1] + 1
  /\ \A k \in 2 .. m : points[first[k]].timestamp > points[last[k - 1]].timestamp + 5
  /\ \A k \in 1 .. m : \A i \in first[k] + 1 .. last[k] :
       points[i].timestamp <= points[i - 1].timestamp + 5
Pieces(first, last, m, points) == [k \in 1 .. m |-> SubSeq(points, first[k], last[k])]

LEMMA SegmentsAre ==
  ASSUME NEW points \in Seq(Point), points # <<>>
  PROVE  \E first, last, m : /\ Cuts(first, last, m, points)
                             /\ segment_by_gap(points) = Pieces(first, last, m, points)
<1> DEFINE n == Len(points)
           S == {i \in DOMAIN points :
                   i = 1 \/ Splits(points[i].timestamp - points[i - 1].timestamp)}
           m == Cardinality(S)
           f == Ascending(S)
           l == [k \in 1 .. m |-> IF k = m THEN n ELSE f[k + 1] - 1]
<1>1. n \in Nat /\ n # 0 /\ DOMAIN points = 1 .. n BY EmptySeq
<1>2. \A i \in 1 .. n : points[i].timestamp \in Int
  <2>1. \A i \in 1 .. n : points[i] \in Point BY <1>1
  <2>2. QED BY <2>1, PointIs
<1>3. S \in SUBSET (1 .. n) /\ 1 \in S BY <1>1
<1>4. m \in 0 .. n /\ Picks(f, S) BY <1>1, <1>3, PlacesFinite, AmongIs
<1>5. \A i \in 2 .. n : i \in S <=> points[i].timestamp > points[i - 1].timestamp + 5
  <2>1. \A i \in 2 .. n : i \in 1 .. n /\ i # 1 /\ i - 1 \in 1 .. n BY <1>1
  <2>2. \A i \in 2 .. n : i \in S <=> points[i].timestamp - points[i - 1].timestamp > 5
    BY <1>1, <2>1 DEF Splits, SEGMENT_GAP
  <2>3. \A i \in 2 .. n : points[i].timestamp \in Int /\ points[i - 1].timestamp \in Int
    BY <1>2, <2>1
  <2> HIDE DEF S
  <2>4. QED BY <2>2, <2>3
<1>6. segment_by_gap(points) = Pieces(f, l, m, points)
  <2>1. Len(f) = m /\ DOMAIN f = 1 .. m BY <1>4 DEF Picks
  <2>2. segment_by_gap(points)
          = [k \in DOMAIN f |-> SubSeq(points, f[k], IF k = Len(f) THEN n ELSE f[k + 1] - 1)]
    BY DEF segment_by_gap
  <2> HIDE DEF f, m, n, S
  <2>3. QED BY <2>1, <2>2 DEF Pieces
<1> HIDE DEF n, S, m, f
<1>7. m \in Nat /\ m # 0 /\ 1 \in 1 .. m
  <2>1. PICK k \in 1 .. m : f[k] = 1 BY <1>3, <1>4 DEF Picks, m
  <2>2. QED BY <1>4, <2>1
<1>8. /\ f \in [1 .. m -> S]
      /\ \A x \in S : \E k \in 1 .. m : f[k] = x
      /\ \A j, k \in 1 .. m : j < k <=> f[j] < f[k]
      /\ \A k \in 1 .. m : f[k] \in 1 .. n
  BY <1>3, <1>4 DEF Picks, m
<1>9. f[1] = 1
  <2>1. PICK k \in 1 .. m : f[k] = 1 BY <1>3, <1>8
  <2>2. ~(f[1] < f[k]) BY <1>7, <1>8, <2>1
  <2>3. ~(1 < k) BY <1>7, <1>8, <2>2
  <2>4. k = 1 BY <1>7, <2>3
  <2>5. QED BY <2>1, <2>4
<1>10. ASSUME NEW k \in 1 .. m, k # m PROVE k + 1 \in 1 .. m /\ f[k] < f[k + 1] /\ l[k] = f[k + 1] - 1
  <2>1. k + 1 \in 1 .. m /\ k < k + 1 BY <1>7, <1>10
  <2>2. QED BY <1>8, <1>10, <2>1
<1>11. ASSUME NEW k \in 1 .. m PROVE l[k] \in 1 .. n /\ f[k] <= l[k]
  <2>1. CASE k = m BY <1>1, <1>8, <2>1
  <2>2. CASE k # m
    <3>1. f[k] \in 1 .. n /\ f[k + 1] \in 1 .. n /\ f[k] < f[k + 1] /\ l[k] = f[k + 1] - 1
      BY <1>8, <1>10, <2>2
    <3> HIDE DEF l
    <3>2. QED BY <1>1, <3>1
  <2>3. QED BY <2>1, <2>2
<1>12. l[m] = n BY <1>7
<1>13. DOMAIN l = 1 .. m OBVIOUS
<1>14. l \in [1 .. m -> 1 .. n] BY <1>11
<1> HIDE DEF l
<1>15. ASSUME NEW k \in 2 .. m
       PROVE  f[k] = l[k - 1] + 1 /\ points[f[k]].timestamp > points[l[k - 1]].timestamp + 5
  <2>1. k - 1 \in 1 .. m /\ k - 1 # m /\ k \in 1 .. m /\ k # 1 /\ (k - 1) + 1 = k BY <1>7
  <2>2. f[k] \in 1 .. n /\ f[k] \in S BY <1>8, <2>1
  <2>3. l[k - 1] = f[k] - 1 /\ f[k - 1] < f[k] /\ f[k - 1] \in 1 .. n BY <1>8, <1>10, <2>1
  <2>4. f[k] \in 2 .. n /\ f[k] = l[k - 1] + 1 BY <1>1, <2>2, <2>3
  <2>5. QED BY <1>5, <2>2, <2>3, <2>4
<1>16. ASSUME NEW k \in 1 .. m, NEW i \in f[k] + 1 .. l[k]
       PROVE  points[i].timestamp <= points[i - 1].timestamp + 5
  <2>1. f[k] \in 1 .. n /\ l[k] \in 1 .. n BY <1>8, <1>11
  <2>2. i \in 2 .. n /\ i - 1 \in 1 .. n /\ i \in 1 .. n /\ f[k] < i /\ i <= l[k] BY <1>1, <2>1
  <2>3. i \notin S
    <3>1. SUFFICES ASSUME i \in S PROVE FALSE OBVIOUS
    <3>2. PICK j \in 1 .. m : f[j] = i BY <1>8, <3>1
    <3>3. k < j BY <1>8, <2>2, <3>2
    <3>4. k # m BY <1>7, <3>3
    <3>5. k + 1 \in 1 .. m /\ l[k] = f[k + 1] - 1 /\ f[k + 1] \in 1 .. n BY <1>8, <1>10, <3>4
    <3>6. f[j] < f[k + 1] BY <1>1, <2>2, <3>2, <3>5
    <3>7. j < k + 1 BY <1>8, <3>5, <3>6
    <3>8. QED BY <1>7, <3>3, <3>7
  <2>4. points[i].timestamp \in Int /\ points[i - 1].timestamp \in Int BY <1>2, <2>2
  <2>5. ~(points[i].timestamp > points[i - 1].timestamp + 5) BY <1>5, <2>2, <2>3
  <2>6. QED BY <2>4, <2>5
<1>17. Cuts(f, l, m, points)
  BY <1>1, <1>7, <1>8, <1>9, <1>11, <1>12, <1>14, <1>15, <1>16 DEF Cuts, n
<1>18. QED BY <1>6, <1>17

LEMMA NoSegments == segment_by_gap(<<>>) = <<>>
<1>1. {i \in DOMAIN <<>> : i = 1 \/ Splits(<<>>[i].timestamp - <<>>[i - 1].timestamp)} = {}
  OBVIOUS
<1>2. Ascending({}) = <<>>
  <2>1. {} \in SUBSET Int /\ IsFiniteSet({}) /\ Cardinality({}) = 0 BY FS_EmptySet
  <2>2. Ascending({}) \in [1 .. 0 -> {}]
    <3>1. Ascending({}) \in [1 .. Cardinality({}) -> {}] BY <2>1, AscendingIs
    <3>2. QED BY <2>1, <3>1
  <2>3. QED BY <2>2
<1>3. QED BY <1>1, <1>2 DEF segment_by_gap

(* Put together again, the segments are the points: the pieces so far are  *)
(* the points up to the end of the last of them.                           *)
LEMMA PiecesFlatten ==
  ASSUME NEW points \in Seq(Point), NEW m, NEW first, NEW last, Cuts(first, last, m, points)
  PROVE  FlattenSeq(Pieces(first, last, m, points)) = points
<1> DEFINE segs == Pieces(first, last, m, points)
           upTo == [i \in 1 .. m |-> SubSeq(points, 1, last[i])]
           Chosen == CHOOSE f : f = [i \in 1 .. Len(segs) |->
                                      IF i = 1 THEN segs[i] ELSE f[i - 1] \o segs[i]]
           n == Len(points)
<1>1. m \in Nat /\ m # 0 /\ 1 \in 1 .. m /\ DOMAIN points = 1 .. n /\ n \in Nat BY DEF Cuts
<1>2. Len(segs) = m /\ \A k \in 1 .. m : segs[k] = SubSeq(points, first[k], last[k])
  <2>1. DOMAIN segs = 1 .. m BY DEF Pieces
  <2>2. \A k \in 1 .. m : segs[k] = SubSeq(points, first[k], last[k]) BY DEF Pieces
  <2> HIDE DEF segs
  <2>3. Len(segs) = m BY <1>1, <2>1
  <2>4. QED BY <2>2, <2>3
<1>3. /\ \A k \in 1 .. m : first[k] \in 1 .. n /\ last[k] \in 1 .. n /\ first[k] <= last[k]
      /\ first[1] = 1 /\ last[m] = n /\ \A k \in 2 .. m : first[k] = last[k - 1] + 1
  BY <1>1 DEF Cuts
<1> HIDE DEF segs
<1>4. FlattenSeq(segs) = Chosen[m] BY <1>1, <1>2 DEF FlattenSeq
<1>5. ASSUME NEW i \in 2 .. m PROVE upTo[i] = upTo[i - 1] \o segs[i]
  <2>1. i - 1 \in 1 .. m /\ i \in 1 .. m BY <1>1
  <2> DEFINE k == last[i - 1]
             e == last[i]
  <2>2. k \in 1 .. n /\ e \in 1 .. n /\ first[i] = k + 1 /\ k + 1 <= e BY <1>3, <2>1
  <2>3. upTo[i] = SubSeq(points, 1, e) /\ upTo[i - 1] = SubSeq(points, 1, k)
        /\ segs[i] = SubSeq(points, k + 1, e)
    BY <1>2, <2>1, <2>2
  <2> HIDE DEF upTo, k, e, n
  <2>4. 1 \in 1 .. n + 1 /\ k \in 1 - 1 .. n /\ e \in k .. n BY <1>1, <2>2
  <2>5. SubSeq(points, 1, k) \o SubSeq(points, k + 1, e) = SubSeq(points, 1, e)
    BY <2>4, ConcatAdjacentSubSeq DEF n
  <2>6. QED BY <2>3, <2>5
<1>6. upTo[1] = segs[1]
  <2>1. upTo[1] = SubSeq(points, 1, last[1]) BY <1>1
  <2>2. segs[1] = SubSeq(points, first[1], last[1]) BY <1>1, <1>2
  <2> HIDE DEF upTo
  <2>3. QED BY <1>3, <2>1, <2>2
<1>7. upTo = [i \in 1 .. m |-> IF i = 1 THEN segs[i] ELSE upTo[i - 1] \o segs[i]]
  <2>2. upTo = [i \in 1 .. m |-> upTo[i]] OBVIOUS
  <2> HIDE DEF upTo
  <2>1. ASSUME NEW i \in 1 .. m
        PROVE  upTo[i] = IF i = 1 THEN segs[i] ELSE upTo[i - 1] \o segs[i]
    <3>1. CASE i = 1 BY <1>6, <3>1
    <3>2. CASE i # 1
      <4>1. i \in 2 .. m BY <1>1, <3>2
      <4>2. QED BY <1>5, <3>2, <4>1
    <3>3. QED BY <3>1, <3>2
  <2>3. QED BY <2>1, <2>2
<1> HIDE DEF upTo
<1>8. Chosen = [i \in 1 .. m |-> IF i = 1 THEN segs[i] ELSE Chosen[i - 1] \o segs[i]]
  <2> DEFINE Eq(f) == f = [i \in 1 .. Len(segs) |->
                            IF i = 1 THEN segs[i] ELSE f[i - 1] \o segs[i]]
  <2>1. Eq(upTo) BY <1>2, <1>7
  <2>2. Chosen = CHOOSE f : Eq(f) OBVIOUS
  <2> HIDE DEF Eq, Chosen
  <2>3. Eq(Chosen) BY <2>1, <2>2
  <2>4. QED BY <1>2, <2>3 DEF Eq
<1> HIDE DEF Chosen
<1>9. \A i \in 1 .. m : Chosen[i] = IF i = 1 THEN segs[i] ELSE Chosen[i - 1] \o segs[i]
  BY <1>8
<1>10. \A i \in 1 .. m : Chosen[i] = upTo[i]
  <2> DEFINE bad == {i \in 1 .. m : Chosen[i] # upTo[i]}
  <2>1. SUFFICES ASSUME bad # {} PROVE FALSE OBVIOUS
  <2>2. bad \in SUBSET Nat OBVIOUS
  <2>3. PICK x \in bad : \A y \in bad : x <= y
    <3> HIDE DEF bad
    <3>1. QED BY <2>1, <2>2, LeastNatural
  <2>4. x # 1 BY <1>6, <1>9
  <2>5. x \in 2 .. m /\ x - 1 \in 1 .. m /\ x - 1 \notin bad BY <1>1, <2>3, <2>4
  <2>6. Chosen[x - 1] = upTo[x - 1] BY <2>5
  <2>7. Chosen[x] = upTo[x] BY <1>5, <1>9, <2>4, <2>5, <2>6
  <2>8. QED BY <2>7
<1>11. Chosen[m] = SubSeq(points, 1, n) BY <1>1, <1>3, <1>10 DEF upTo
<1>12. QED BY <1>4, <1>11, SubSeqFull DEF segs

(* Taken apart at the gaps and put together again: the same points.        *)
LEMMA SegmentsFlatten ==
  ASSUME NEW points \in Seq(Point)
  PROVE  FlattenSeq(segment_by_gap(points)) = points
<1>1. CASE points = <<>>
  <2>1. FlattenSeq(<<>>) = <<>> BY DEF FlattenSeq
  <2>2. QED BY <1>1, <2>1, NoSegments
<1>2. CASE points # <<>> BY <1>2, SegmentsAre, PiecesFlatten
<1>3. QED BY <1>1, <1>2

LEMMA PieceIs ==
  ASSUME NEW points \in Seq(Point), NEW m, NEW first, NEW last, Cuts(first, last, m, points),
         NEW k \in 1 .. m, NEW seg, seg = Pieces(first, last, m, points)[k]
  PROVE  /\ seg \in Seq(Point) /\ seg # <<>>
         /\ first[k] \in DOMAIN points /\ last[k] \in DOMAIN points
         /\ first[k] <= last[k] /\ Len(seg) = last[k] - first[k] + 1
         /\ \A i \in DOMAIN seg : seg[i] = points[first[k] + i - 1]
         /\ Head(seg) = points[first[k]] /\ Last(seg) = points[last[k]]
<1> DEFINE n == Len(points)
           a == first[k]
           z == last[k]
<1>1. n \in Nat /\ DOMAIN points = 1 .. n /\ \A i \in 1 .. n : points[i] \in Point OBVIOUS
<1>2. a \in 1 .. n /\ z \in 1 .. n /\ a <= z BY <1>1 DEF Cuts
<1>3. seg = SubSeq(points, a, z) BY DEF Pieces
<1> HIDE DEF n, a, z
<1>4. /\ seg \in Seq(Point) /\ Len(seg) = IF a <= z THEN z - a + 1 ELSE 0
      /\ \A i \in 1 .. z - a + 1 : seg[i] = points[a + i - 1]
  <2>1. a \in Int /\ z \in Int /\ \A i \in a .. z : points[i] \in Point BY <1>1, <1>2
  <2>2. QED BY <1>3, <2>1, SubSeqProperties
<1>5. Len(seg) = z - a + 1 /\ DOMAIN seg = 1 .. (z - a + 1) /\ Len(seg) # 0 /\ Len(seg) \in Nat
  BY <1>1, <1>2, <1>4
<1>6. Head(seg) = points[a]
  <2>0. 1 \in 1 .. z - a + 1 BY <1>1, <1>2
  <2>1. seg[1] = points[a + 1 - 1] BY <1>4, <2>0
  <2>2. a + 1 - 1 = a BY <1>1, <1>2
  <2>3. seg # <<>> BY <1>5
  <2>4. Head(seg) = seg[1] BY <1>4, <2>3
  <2>5. QED BY <2>1, <2>2, <2>4
<1>7. Last(seg) = points[z]
  <2>1. z - a + 1 \in 1 .. z - a + 1 /\ a + (z - a + 1) - 1 = z BY <1>1, <1>2
  <2>2. QED BY <1>4, <1>5, <2>1 DEF Last
<1>8. seg # <<>> BY <1>5
<1>9. QED BY <1>1, <1>2, <1>4, <1>5, <1>6, <1>7, <1>8 DEF a, z

(* Every track of an answer: the points of a request, and where they are   *)
(* among the points it found.                                              *)
LEMMA TrackIs ==
  ASSUME TableInv, NEW q, Asked(q, "limit") => q.limit \in Nat, NEW v \in DOMAIN query(q)
  PROVE  \E points : /\ points = limited(q, Found(q, v))
                     /\ points \in Seq(Point) /\ InTime(points)
                     /\ query(q)[v] = segment_by_gap(points)
                     /\ FlattenSeq(query(q)[v]) = points
<1>1. track_points \in Seq(Point) BY DEF TableInv
<1>2. Found(q, v) \in Seq(Point) /\ InTime(Found(q, v)) BY <1>1, FoundIs
<1>3. limited(q, Found(q, v)) \in Seq(Point) /\ InTime(limited(q, Found(q, v)))
  BY <1>2, LimitedIs
<1>4. query(q)[v] = segment_by_gap(limited(q, Found(q, v))) BY QueryIs
<1>5. QED BY <1>3, <1>4, SegmentsFlatten

LEMMA AnswersAlwaysFit == ASSUME TableInv PROVE AnswersFit
<1>1. SUFFICES ASSUME NEW q \in TrackRequests, parses(q), NEW v \in DOMAIN query(q)
               PROVE  LET segments == query(q)[v]
                          points == FlattenSeq(segments)
                          matching == Matching(q, v)
                      IN  /\ Len(points) = IF Asked(q, "limit")
                                           THEN Min({q.limit, Cardinality(matching)})
                                           ELSE Cardinality(matching)
                          /\ \A i \in DOMAIN points : \E j \in matching : track_points[j] = points[i]
                          /\ \A i \in DOMAIN points \ {1} : points[i - 1].timestamp <= points[i].timestamp
                          /\ \A j \in matching : points # <<>> =>
                               \/ track_points[j] \in ToSet(points)
                               \/ track_points[j].timestamp <= points[1].timestamp
                          /\ \A k \in DOMAIN segments : \A i \in DOMAIN segments[k] \ {1} :
                               segments[k][i].timestamp <= segments[k][i - 1].timestamp + 5
                          /\ \A k \in DOMAIN segments \ {1} :
                               Head(segments[k]).timestamp > Last(segments[k - 1]).timestamp + 5
  BY DEF AnswersFit, Matching
<1> DEFINE segments == query(q)[v]
           p == limited(q, Found(q, v))
           F == Found(q, v)
           M == Matching(q, v)
           n == Len(p)
<1>2. Asked(q, "limit") => q.limit \in Nat BY <1>1, TracksAssumption
<1>3. track_points \in Seq(Point) BY DEF TableInv
<1>4. /\ F \in Seq(Point) /\ InTime(F) /\ Len(F) = Cardinality(M) BY <1>3, FoundIs
<1>5. PICK g : Finds(g, F, track_points, M) BY <1>3, FoundIs
<1>6. /\ p \in Seq(Point) /\ InTime(p)
      /\ Len(p) = IF Asked(q, "limit") THEN Min({q.limit, Len(F)}) ELSE Len(F)
  BY <1>2, <1>4, LimitedIs
<1>7. PICK d \in Nat : Len(p) + d = Len(F) /\ \A i \in DOMAIN p : p[i] = F[i + d]
  BY <1>2, <1>4, LimitedIs
<1>8. segments = segment_by_gap(p) /\ FlattenSeq(segments) = p BY <1>2, TrackIs
<1> HIDE DEF segments, p, F, M
<1>9. n \in Nat /\ DOMAIN p = 1 .. n /\ DOMAIN F = 1 .. (n + d) BY <1>4, <1>6, <1>7
<1>10. \A i \in 1 .. n : i + d \in DOMAIN F /\ p[i] = F[i + d] BY <1>7, <1>9
<1> HIDE DEF n
<1>11. \A i \in DOMAIN p : \E j \in M : track_points[j] = p[i]
  <2>1. \A i \in 1 .. n : g[i + d] \in M /\ p[i] = track_points[g[i + d]]
    BY <1>5, <1>10 DEF Finds
  <2>2. QED BY <1>9, <2>1
<1>12. \A i \in DOMAIN p \ {1} : p[i - 1].timestamp <= p[i].timestamp
  <2>1. \A i \in DOMAIN p \ {1} : i - 1 \in DOMAIN p /\ i - 1 <= i BY <1>9
  <2>2. QED BY <1>6, <2>1 DEF InTime
<1>13. ASSUME NEW j \in M, p # <<>>
       PROVE  track_points[j] \in ToSet(p) \/ track_points[j].timestamp <= p[1].timestamp
  <2>1. PICK x \in 1 .. (n + d) : g[x] = j BY <1>5, <1>9 DEF Finds
  <2>2. track_points[j] = F[x] BY <1>5, <1>9, <2>1 DEF Finds
  <2>3. n # 0 BY <1>6, <1>13 DEF n
  <2>4. CASE x > d
    <3>1. x - d \in 1 .. n /\ (x - d) + d = x BY <1>9, <2>1, <2>4
    <3>2. p[x - d] = F[x] BY <1>10, <3>1
    <3>3. QED BY <1>9, <2>2, <3>1, <3>2 DEF ToSet
  <2>5. CASE x <= d
    <3>1. 1 \in 1 .. n /\ 1 + d \in 1 .. (n + d) /\ x <= 1 + d BY <1>9, <2>1, <2>3, <2>5
    <3>2. F[x].timestamp <= F[1 + d].timestamp BY <1>4, <1>9, <2>1, <3>1 DEF InTime
    <3>3. QED BY <1>10, <2>2, <3>1, <3>2
  <2>6. QED BY <1>9, <2>1, <2>4, <2>5
<1>14. /\ \A k \in DOMAIN segments : \A i \in DOMAIN segments[k] \ {1} :
            segments[k][i].timestamp <= segments[k][i - 1].timestamp + 5
       /\ \A k \in DOMAIN segments \ {1} :
            Head(segments[k]).timestamp > Last(segments[k - 1]).timestamp + 5
  <2>1. CASE p = <<>>
    <3>1. segments = <<>> BY <1>8, <2>1, NoSegments
    <3>2. QED BY <3>1
  <2>2. CASE p # <<>>
    <3>1. PICK first, last, m : Cuts(first, last, m, p) /\ segments = Pieces(first, last, m, p)
      BY <1>6, <1>8, <2>2, SegmentsAre
    <3>2. DOMAIN segments = 1 .. m /\ m \in Nat BY <3>1 DEF Pieces, Cuts
    <3>3. ASSUME NEW k \in 1 .. m, NEW i \in DOMAIN segments[k] \ {1}
          PROVE  segments[k][i].timestamp <= segments[k][i - 1].timestamp + 5
      <4> DEFINE seg == segments[k]
                 a == first[k]
                 z == last[k]
      <4>1. /\ seg \in Seq(Point) /\ Len(seg) = z - a + 1
            /\ a \in 1 .. n /\ z \in 1 .. n /\ a <= z
            /\ \A j \in DOMAIN seg : seg[j] = p[a + j - 1]
        <5>1. seg = Pieces(first, last, m, p)[k] BY <3>1
        <5> HIDE DEF seg
        <5>2. /\ seg \in Seq(Point) /\ Len(seg) = last[k] - first[k] + 1
              /\ first[k] \in DOMAIN p /\ last[k] \in DOMAIN p /\ first[k] <= last[k]
              /\ \A j \in DOMAIN seg : seg[j] = p[first[k] + j - 1]
          BY <1>6, <3>1, <5>1, PieceIs
        <5>3. QED BY <1>9, <5>2
      <4>2. i \in 1 .. (z - a + 1) /\ i # 1 /\ DOMAIN seg = 1 .. (z - a + 1) BY <4>1
      <4>3. \A j \in a + 1 .. z : p[j].timestamp <= p[j - 1].timestamp + 5 BY <3>1 DEF Cuts
      <4> HIDE DEF seg, a, z
      <4>4. i - 1 \in 1 .. (z - a + 1) /\ a + i - 1 \in a + 1 .. z
            /\ a + (i - 1) - 1 = (a + i - 1) - 1
        BY <1>9, <4>1, <4>2
      <4>5. seg[i] = p[a + i - 1] /\ seg[i - 1] = p[(a + i - 1) - 1]
        BY <4>1, <4>2, <4>4
      <4>6. seg[i].timestamp <= seg[i - 1].timestamp + 5 BY <4>3, <4>4, <4>5
      <4>7. QED BY <4>6 DEF seg
    <3>4. ASSUME NEW k \in (1 .. m) \ {1}
          PROVE  Head(segments[k]).timestamp > Last(segments[k - 1]).timestamp + 5
      <4>1. k \in 2 .. m /\ k - 1 \in 1 .. m /\ k \in 1 .. m BY <3>2
      <4>2. Head(segments[k]) = p[first[k]] BY <1>6, <3>1, <4>1, PieceIs
      <4>3. Last(segments[k - 1]) = p[last[k - 1]] BY <1>6, <3>1, <4>1, PieceIs
      <4>4. p[first[k]].timestamp > p[last[k - 1]].timestamp + 5 BY <3>1, <4>1 DEF Cuts
      <4>5. QED BY <4>2, <4>3, <4>4
    <3>5. QED BY <3>2, <3>3, <3>4
  <2>3. QED BY <2>1, <2>2
<1>15. QED BY <1>4, <1>6, <1>8, <1>11, <1>12, <1>13, <1>14 DEF segments, M

-----------------------------------------------------------------------------
(* The summary.                                                            *)

NoParams == [p \in {} |-> NoSuch]
OnlyOf(v) == [p \in DOMAIN NoParams \cup {"context"} |-> IF p \in DOMAIN NoParams THEN NoParams[p] ELSE v]
RowsOf(v) == {i \in DOMAIN track_points : track_points[i].context = v}
TimesOf(v) == {track_points[i].timestamp : i \in RowsOf(v)}

(* What the answer to a request without parameters of its own says of a    *)
(* vessel, without thinning.                                               *)
LEMMA FeatureIs ==
  ASSUME tracking # NoSuch, TableInv, NEW q, parses(q),
         ~Asked(q, "limit"), ~Asked(q, "simplify"), ~Asked(q, "format")
  PROVE  LET body == handle_get_tracks(q).body
         IN  /\ DOMAIN body = {u \in Boats : Matching(q, u) # {}}
             /\ \A v \in DOMAIN body :
                  /\ body[v].pointCount = Cardinality(Matching(q, v))
                  /\ body[v].oldest = Head(Found(q, v)).timestamp
                  /\ body[v].newest = Last(Found(q, v)).timestamp
                  /\ Found(q, v) # <<>>
<1> DEFINE body == handle_get_tracks(q).body
<1>1. body = [v \in DOMAIN query(q) |-> track_to_feature(query(q)[v])]
  BY DEF handle_get_tracks, simplified
<1>2. track_points \in Seq(Point) BY DEF TableInv
<1>3. ASSUME NEW v PROVE Found(q, v) = <<>> <=> Matching(q, v) = {}
  <2>1. /\ Found(q, v) \in Seq(Point) /\ IsFiniteSet(Matching(q, v))
        /\ Len(Found(q, v)) = Cardinality(Matching(q, v))
    BY <1>2, FoundIs
  <2>2. Found(q, v) = <<>> <=> Len(Found(q, v)) = 0 BY <2>1, EmptySeq
  <2>3. QED BY <2>1, <2>2, FS_EmptySet
<1>4. DOMAIN query(q) = {u \in Boats : Matching(q, u) # {}}
  <2>1. DOMAIN query(q) = {u \in Boats : Found(q, u) # <<>>} BY QueryIs
  <2>2. QED BY <1>3, <2>1
<1>5. ASSUME NEW v \in DOMAIN query(q)
      PROVE  /\ body[v].pointCount = Cardinality(Matching(q, v))
             /\ body[v].oldest = Head(Found(q, v)).timestamp
             /\ body[v].newest = Last(Found(q, v)).timestamp
             /\ Found(q, v) # <<>>
  <2> DEFINE F == Found(q, v)
  <2>1. FlattenSeq(query(q)[v]) = limited(q, F) BY TrackIs
  <2>2. FlattenSeq(query(q)[v]) = F BY <2>1 DEF limited
  <2>3. body[v] = track_to_feature(query(q)[v]) BY <1>1
  <2>4. F # <<>> BY <1>3, <1>4
  <2>5. Len(F) = Cardinality(Matching(q, v)) BY <1>2, FoundIs
  <2> HIDE DEF F, body
  <2>6. /\ body[v].pointCount = Len(F) /\ body[v].oldest = Head(F).timestamp
        /\ body[v].newest = Last(F).timestamp
    BY <2>2, <2>3, <2>4 DEF track_to_feature
  <2>7. QED BY <2>4, <2>5, <2>6 DEF F
<1> HIDE DEF body
<1>6. DOMAIN body = DOMAIN query(q) BY <1>1
<1>7. QED BY <1>4, <1>5, <1>6 DEF body

(* The first and the last of all rows of a vessel, by time.                *)
LEMMA EndsAre ==
  ASSUME TableInv, NEW q, NEW v, Matching(q, v) = RowsOf(v), Found(q, v) # <<>>
  PROVE  /\ Head(Found(q, v)).timestamp = Min(TimesOf(v))
         /\ Last(Found(q, v)).timestamp = Max(TimesOf(v))
<1> DEFINE F == Found(q, v)
           T == TimesOf(v)
           n == Len(F)
<1>1. track_points \in Seq(Point) BY DEF TableInv
<1>2. F \in Seq(Point) /\ InTime(F) BY <1>1, FoundIs
<1>3. PICK g : Finds(g, F, track_points, RowsOf(v)) BY <1>1, FoundIs
<1> HIDE DEF F, T
<1>4. n \in Nat /\ n # 0 /\ DOMAIN F = 1 .. n BY <1>2, EmptySeq DEF F
<1>5. F # <<>> /\ Head(F) = F[1] /\ Last(F) = F[n] BY <1>2 DEF F, Last
<1> HIDE DEF n
<1>6. \A k \in 1 .. n : F[k].timestamp \in T
  <2>1. \A k \in 1 .. n : g[k] \in RowsOf(v) /\ F[k] = track_points[g[k]] BY <1>3, <1>4 DEF Finds
  <2>2. QED BY <2>1 DEF T, TimesOf
<1>7. \A t \in T : \E k \in 1 .. n : t = F[k].timestamp
  <2>1. \A i \in RowsOf(v) : \E k \in 1 .. n : track_points[i] = F[k] BY <1>3, <1>4 DEF Finds
  <2>2. QED BY <2>1 DEF T, TimesOf
<1>8. \A k \in 1 .. n : F[k].timestamp \in Int
  <2>1. \A k \in 1 .. n : F[k] \in Point BY <1>2, <1>4
  <2>2. QED BY <2>1, PointIs
<1>9. \A t \in T : t \in Int /\ F[1].timestamp <= t /\ t <= F[n].timestamp
  <2>1. \A k \in 1 .. n : F[1].timestamp <= F[k].timestamp /\ F[k].timestamp <= F[n].timestamp
    BY <1>2, <1>4 DEF InTime
  <2>2. QED BY <1>7, <1>8, <2>1
<1>10. F[1].timestamp \in T /\ F[n].timestamp \in T BY <1>4, <1>6
<1>11. Min(T) = F[1].timestamp
  <2>1. Min(T) \in T /\ \A y \in T : Min(T) <= y BY <1>9, <1>10 DEF Min
  <2>2. Min(T) <= F[1].timestamp /\ F[1].timestamp <= Min(T) BY <1>9, <1>10, <2>1
  <2>3. QED BY <1>9, <1>10, <2>1, <2>2
<1>12. Max(T) = F[n].timestamp
  <2>1. Max(T) \in T /\ \A y \in T : Max(T) >= y BY <1>9, <1>10 DEF Max
  <2>2. F[n].timestamp <= Max(T) /\ Max(T) <= F[n].timestamp BY <1>9, <1>10, <2>1
  <2>3. QED BY <1>9, <1>10, <2>1, <2>2
<1>13. QED BY <1>5, <1>11, <1>12 DEF F, T

LEMMA SummaryAlwaysAgrees == ASSUME TableInv PROVE SummaryAgrees
<1>1. SUFFICES ASSUME tracking # NoSuch PROVE SummaryAgrees BY DEF SummaryAgrees
<1> DEFINE all == handle_get_tracks(NoParams).body
           only(v) == handle_get_tracks(OnlyOf(v)).body
<1>2. /\ parses(NoParams)
      /\ ~Asked(NoParams, "limit") /\ ~Asked(NoParams, "simplify") /\ ~Asked(NoParams, "format")
      /\ \A v : Matching(NoParams, v) = RowsOf(v)
  BY DEF parses, Asked, NoParams, Matching, Matches, RowsOf
<1>3. ASSUME NEW v \in Boats
      PROVE  /\ parses(OnlyOf(v))
             /\ ~Asked(OnlyOf(v), "limit") /\ ~Asked(OnlyOf(v), "simplify")
             /\ ~Asked(OnlyOf(v), "format")
             /\ Matching(OnlyOf(v), v) = RowsOf(v)
  <2>1. DOMAIN OnlyOf(v) = {"context"} /\ OnlyOf(v)["context"] = v BY DEF OnlyOf, NoParams
  <2>2. OnlyOf(v).context = v BY <2>1
  <2>3. parses(OnlyOf(v)) BY <2>1, TracksAssumption DEF parses, Asked
  <2>4. \A x : Asked(OnlyOf(v), x) <=> x = "context" BY <2>1 DEF Asked
  <2>5. \A r : Matches(OnlyOf(v), r) <=> r.context = v BY <2>2, <2>4 DEF Matches
  <2>6. QED BY <2>3, <2>4, <2>5 DEF Matching, RowsOf
<1>4. /\ DOMAIN all = {u \in Boats : RowsOf(u) # {}}
      /\ \A v \in DOMAIN all : /\ all[v].oldest = Head(Found(NoParams, v)).timestamp
                               /\ all[v].newest = Last(Found(NoParams, v)).timestamp
                               /\ Found(NoParams, v) # <<>>
  BY <1>1, <1>2, FeatureIs
<1>5. ASSUME NEW v \in Boats, RowsOf(v) # {}
      PROVE  only(v)[v].pointCount = Cardinality(RowsOf(v))
  BY <1>1, <1>3, <1>5, FeatureIs
<1>6. /\ DOMAIN summary = {u \in Boats : RowsOf(u) # {}}
      /\ \A v \in DOMAIN summary : /\ summary[v].point_count = Cardinality(RowsOf(v))
                                   /\ summary[v].oldest = Min(TimesOf(v))
                                   /\ summary[v].newest = Max(TimesOf(v))
  BY DEF summary, RowsOf, TimesOf
<1>7. \A v : get_vessel_track(v, NoParams).body = only(v) BY DEF get_vessel_track, OnlyOf
<1> HIDE DEF all, only
<1>8. ASSUME NEW v \in DOMAIN all
      PROVE  /\ summary[v].point_count = get_vessel_track(v, NoParams).body[v].pointCount
             /\ summary[v].oldest = all[v].oldest /\ summary[v].newest = all[v].newest
  <2>1. v \in Boats /\ RowsOf(v) # {} /\ v \in DOMAIN summary BY <1>4, <1>6
  <2>2. /\ Head(Found(NoParams, v)).timestamp = Min(TimesOf(v))
        /\ Last(Found(NoParams, v)).timestamp = Max(TimesOf(v))
    BY <1>2, <1>4, EndsAre
  <2>3. QED BY <1>4, <1>5, <1>6, <1>7, <2>1, <2>2
<1>9. DOMAIN summary = DOMAIN all BY <1>4, <1>6
<1>10. QED BY <1>8, <1>9 DEF SummaryAgrees, all, NoParams

-----------------------------------------------------------------------------
(* Simplified tracks.                                                      *)

OffOf(points, i, s, e) == Off(points[i].at, points[s].at, points[e].at)
FarOff(points, epsilon, i, s, e) == Beyond(epsilon, points[i].at, points[s].at, points[e].at)

LEMMA OffIs ==
  ASSUME NEW p \in Int \X Int, NEW a \in Int \X Int, NEW b \in Int \X Int
  PROVE  Off(p, a, b) \in Int /\ Length(a, b) \in Int
<1>1. p[1] \in Int /\ p[2] \in Int /\ a[1] \in Int /\ a[2] \in Int /\ b[1] \in Int /\ b[2] \in Int
  OBVIOUS
<1>2. \A x, y \in Int : x * y \in Int /\ x - y \in Int /\ x + y \in Int OBVIOUS
<1>3. Squared(p, a) \in Int /\ Squared(a, b) \in Int BY <1>1, <1>2 DEF Squared
<1> DEFINE cross == (p[1] - a[1]) * (b[2] - a[2]) - (p[2] - a[2]) * (b[1] - a[1])
<1>4. cross \in Int BY <1>1, <1>2
<1>5. cross * cross \in Int
  <2> HIDE DEF cross
  <2>1. QED BY <1>2, <1>4
<1>6. Off(p, a, b) = IF a = b THEN Squared(p, a) ELSE cross * cross BY DEF Off
<1> HIDE DEF cross
<1>7. QED BY <1>3, <1>5, <1>6 DEF Length

LEMMA FurthestIs ==
  ASSUME NEW points \in Seq(Point), NEW s \in DOMAIN points, NEW e \in DOMAIN points, e > s + 1
  PROVE  /\ Furthest(points, s, e) \in s + 1 .. e - 1
         /\ \A j \in s + 1 .. e - 1 :
              OffOf(points, j, s, e) <= OffOf(points, Furthest(points, s, e), s, e)
<1> DEFINE n == Len(points)
           S == s + 1 .. e - 1
           off == [i \in S |-> OffOf(points, i, s, e)]
           U == [i \in S |-> {j \in S : off[j] < off[i] \/ (off[j] = off[i] /\ i <= j)}]
           f == InOrder(U)
           c == Cardinality(S)
<1>1. n \in Nat /\ DOMAIN points = 1 .. n /\ s \in Int /\ e \in Int OBVIOUS
<1>2. \A i \in S : off[i] \in Int /\ off[i] = OffOf(points, i, s, e)
  <2>1. ASSUME NEW i \in S PROVE OffOf(points, i, s, e) \in Int
    <3>1. i \in DOMAIN points BY <1>1
    <3>2. points[i] \in Point /\ points[s] \in Point /\ points[e] \in Point BY <3>1
    <3>3. points[i].at \in Int \X Int /\ points[s].at \in Int \X Int /\ points[e].at \in Int \X Int
      BY <3>2, PointIs
    <3>4. QED BY <3>3, OffIs DEF OffOf
  <2>2. QED BY <2>1
<1>3. Furthest(points, s, e) = CHOOSE i \in S : \A j \in S :
        \/ OffOf(points, j, s, e) < OffOf(points, i, s, e)
        \/ (OffOf(points, j, s, e) = OffOf(points, i, s, e) /\ i <= j)
  BY DEF Furthest, OffOf
<1>4. S # {} /\ S \in SUBSET Int
  <2>1. s + 1 \in S BY <1>1
  <2>2. QED BY <2>1
<1> HIDE DEF off
<1>5. /\ U \in [S -> SUBSET S]
      /\ \A i, j \in S : j \in U[i] <=> off[j] < off[i] \/ (off[j] = off[i] /\ i <= j)
  OBVIOUS
<1>6. IsFiniteSet(S) BY <1>1, FS_Interval
<1> HIDE DEF U, S, f, c
<1>7. TotalOrder(S, U)
  <2>1. \A x \in S : x \in U[x] BY <1>2, <1>4, <1>5
  <2>2. \A x, y \in S : x \in U[y] \/ y \in U[x] BY <1>2, <1>4, <1>5
  <2>3. \A x, y \in S : x \in U[y] /\ y \in U[x] => x = y BY <1>2, <1>4, <1>5
  <2>4. \A x, y, z \in S : x \in U[y] /\ z \in U[x] => z \in U[y] BY <1>2, <1>4, <1>5
  <2>5. \A x, y \in S : x \in U[y] => U[x] \subseteq U[y] BY <1>5, <2>4
  <2>6. QED BY <1>5, <2>1, <2>2, <2>3, <2>5 DEF TotalOrder
<1>8. /\ c \in Nat /\ f \in [1 .. c -> S]
      /\ \A x \in S : \E k \in 1 .. c : f[k] = x
      /\ \A j, k \in 1 .. c : j <= k <=> f[j] \in U[f[k]]
  BY <1>6, <1>7, RankedInOrder DEF f, c
<1>9. c \in 1 .. c /\ f[c] \in S
  <2>1. PICK x \in S : TRUE BY <1>4
  <2>2. PICK k \in 1 .. c : f[k] = x BY <1>8
  <2>3. c \in 1 .. c BY <1>8, <2>2
  <2>4. QED BY <1>8, <2>3
<1>10. \A j \in S : j \in U[f[c]] BY <1>8, <1>9
<1> DEFINE Is(i) == \A j \in S : \/ OffOf(points, j, s, e) < OffOf(points, i, s, e)
                                 \/ (OffOf(points, j, s, e) = OffOf(points, i, s, e) /\ i <= j)
<1>11. Is(f[c]) BY <1>2, <1>5, <1>9, <1>10
<1>12. Furthest(points, s, e) = CHOOSE i \in S : Is(i) BY <1>3
<1> HIDE DEF Is
<1>13. Furthest(points, s, e) \in S /\ Is(Furthest(points, s, e)) BY <1>9, <1>11, <1>12
<1>14. \A i, j \in S : Is(i) => OffOf(points, j, s, e) <= OffOf(points, i, s, e)
  BY <1>2 DEF Is
<1>15. QED BY <1>13, <1>14 DEF S

(* One step of the recursion, and its defining equation.                   *)
Step(points, epsilon, f, s, e) ==
  LET m == Furthest(points, s, e)
  IN  IF e > s + 1 /\ FarOff(points, epsilon, m, s, e)
      THEN {m} \cup f[<<s, m>>] \cup f[<<m, e>>] ELSE {}
Spans(points) == (DOMAIN points) \X (DOMAIN points)
KeptEquation(points, epsilon, f) ==
  f = [p \in Spans(points) |-> Step(points, epsilon, f, p[1], p[2])]
Kept(points, epsilon) == CHOOSE f : KeptEquation(points, epsilon, f)

LEMMA SimplifiedIs ==
  ASSUME NEW points, NEW epsilon
  PROVE  simplify_track_points(points, epsilon)
           = IF Len(points) <= 2 \/ epsilon <= 0 THEN points
             ELSE Among(points, {1, Len(points)} \cup Kept(points, epsilon)[<<1, Len(points)>>])
  BY DEF simplify_track_points, Kept, KeptEquation, Step, FarOff, Spans

(* The recursion goes only so deep as the segment is long: by depth there  *)
(* is a function that satisfies its equation.                              *)
StepTo(points, epsilon, f, d, p) ==
  IF p[2] - p[1] <= d THEN Step(points, epsilon, f, p[1], p[2]) ELSE {}
ToDepth(points, epsilon, f, d) == f = [p \in Spans(points) |-> StepTo(points, epsilon, f, d, p)]

LEMMA Deeper ==
  ASSUME NEW points \in Seq(Point), NEW epsilon, NEW d \in Nat, NEW f,
         ToDepth(points, epsilon, f, d)
  PROVE  \E g : ToDepth(points, epsilon, g, d + 1)
<1> DEFINE D == DOMAIN points
           n == Len(points)
           St(h, p) == Step(points, epsilon, h, p[1], p[2])
           g == [p \in Spans(points) |-> StepTo(points, epsilon, f, d + 1, p)]
<1>1. n \in Nat /\ D = 1 .. n OBVIOUS
<1>2. \A p \in D \X D : f[p] = IF p[2] - p[1] <= d THEN St(f, p) ELSE {}
  <2>1. \A p \in Spans(points) : f[p] = StepTo(points, epsilon, f, d, p)
    BY DEF ToDepth
  <2>2. \A p \in Spans(points) : f[p] = IF p[2] - p[1] <= d THEN St(f, p) ELSE {}
    BY <2>1 DEF StepTo
  <2>3. QED BY <2>2 DEF Spans
<1>3. \A p \in D \X D : g[p] = IF p[2] - p[1] <= d + 1 THEN St(f, p) ELSE {}
  <2>1. \A p \in Spans(points) : g[p] = StepTo(points, epsilon, f, d + 1, p) OBVIOUS
  <2>2. \A p \in Spans(points) : g[p] = IF p[2] - p[1] <= d + 1 THEN St(f, p) ELSE {}
    BY <2>1 DEF StepTo
  <2>3. QED BY <2>2 DEF Spans
<1>4. g = [p \in Spans(points) |-> g[p]] OBVIOUS
<1> HIDE DEF D, n, St, g
<1>5. \A p \in D \X D : p[2] - p[1] <= d => f[p] = g[p]
  <2>1. \A p \in D \X D : p[1] \in Int /\ p[2] \in Int BY <1>1
  <2>2. \A p \in D \X D : p[2] - p[1] <= d => p[2] - p[1] <= d + 1 BY <2>1
  <2>3. QED BY <1>2, <1>3, <2>2
<1>6. ASSUME NEW p \in D \X D, p[2] - p[1] <= d + 1 PROVE St(f, p) = St(g, p)
  <2> DEFINE s == p[1]
             e == p[2]
             m == Furthest(points, s, e)
  <2>0. s \in D /\ e \in D OBVIOUS
  <2>1. CASE ~(e > s + 1)
    BY <2>1 DEF St, Step
  <2>2. CASE e > s + 1
    <3>1. m \in s + 1 .. e - 1 BY <2>0, <2>2, FurthestIs DEF D
    <3>2. e - s <= d + 1 BY <1>6
    <3>3. St(f, p) = IF e > s + 1 /\ FarOff(points, epsilon, m, s, e)
                     THEN {m} \cup f[<<s, m>>] \cup f[<<m, e>>] ELSE {}
      BY DEF St, Step
    <3>4. St(g, p) = IF e > s + 1 /\ FarOff(points, epsilon, m, s, e)
                     THEN {m} \cup g[<<s, m>>] \cup g[<<m, e>>] ELSE {}
      BY DEF St, Step
    <3> HIDE DEF m, s, e
    <3>5. m \in D /\ m - s <= d /\ e - m <= d BY <1>1, <2>0, <3>1, <3>2
    <3>6. f[<<s, m>>] = g[<<s, m>>] /\ f[<<m, e>>] = g[<<m, e>>] BY <1>5, <2>0, <3>5
    <3>7. QED BY <3>3, <3>4, <3>6
  <2>3. QED BY <2>1, <2>2
<1>7. \A p \in Spans(points) : g[p] = StepTo(points, epsilon, g, d + 1, p)
  <2>1. \A p \in D \X D : g[p] = IF p[2] - p[1] <= d + 1 THEN St(g, p) ELSE {} BY <1>3, <1>6
  <2>2. \A p \in Spans(points) : g[p] = IF p[2] - p[1] <= d + 1 THEN St(g, p) ELSE {}
    BY <2>1 DEF Spans, D
  <2>3. QED BY <2>2 DEF StepTo, St
<1>8. g = [p \in Spans(points) |-> StepTo(points, epsilon, g, d + 1, p)] BY <1>4, <1>7
<1>9. ToDepth(points, epsilon, g, d + 1) BY <1>8 DEF ToDepth
<1>10. QED BY <1>9

LEMMA KeptIs ==
  ASSUME NEW points \in Seq(Point), NEW epsilon
  PROVE  \A s, e \in DOMAIN points :
           Kept(points, epsilon)[<<s, e>>] = Step(points, epsilon, Kept(points, epsilon), s, e)
<1> DEFINE n == Len(points)
           bad == {d \in Nat : ~ \E f : ToDepth(points, epsilon, f, d)}
<1>1. n \in Nat /\ DOMAIN points = 1 .. n OBVIOUS
<1>2. \A p \in Spans(points) : p[1] \in 1 .. n /\ p[2] \in 1 .. n BY DEF Spans
<1>3. \E f : ToDepth(points, epsilon, f, 0)
  <2> DEFINE f == [p \in Spans(points) |-> {}]
  <2>1. ASSUME NEW p \in Spans(points) PROVE StepTo(points, epsilon, f, 0, p) = {}
    <3>1. p[2] - p[1] <= 0 => ~(p[2] > p[1] + 1) BY <1>1, <1>2
    <3>2. QED BY <3>1 DEF StepTo, Step
  <2>2. f = [p \in Spans(points) |-> StepTo(points, epsilon, f, 0, p)]
    <3>1. \A p \in Spans(points) : f[p] = StepTo(points, epsilon, f, 0, p) BY <2>1
    <3>2. f = [p \in Spans(points) |-> f[p]] OBVIOUS
    <3> HIDE DEF f
    <3>3. QED BY <3>1, <3>2
  <2> HIDE DEF f
  <2>3. ToDepth(points, epsilon, f, 0) BY <2>2 DEF ToDepth
  <2>4. QED BY <2>3
<1>4. bad = {}
  <2>1. SUFFICES ASSUME bad # {} PROVE FALSE OBVIOUS
  <2>2. PICK x \in bad : \A y \in bad : x <= y
    <3>1. bad \in SUBSET Nat OBVIOUS
    <3> HIDE DEF bad
    <3>2. QED BY <2>1, <3>1, LeastNatural
  <2>3. x # 0 BY <1>3
  <2>4. x - 1 \in Nat /\ x - 1 \notin bad /\ (x - 1) + 1 = x BY <2>2, <2>3
  <2>5. PICK f : ToDepth(points, epsilon, f, x - 1) BY <2>4
  <2>6. \E g : ToDepth(points, epsilon, g, (x - 1) + 1) BY <2>4, <2>5, Deeper
  <2>7. QED BY <2>4, <2>6
<1>5. PICK f : ToDepth(points, epsilon, f, n) BY <1>1, <1>4
<1>6. \A p \in Spans(points) :
        StepTo(points, epsilon, f, n, p) = Step(points, epsilon, f, p[1], p[2])
  BY <1>1, <1>2 DEF StepTo
<1>7. KeptEquation(points, epsilon, f) BY <1>5, <1>6 DEF ToDepth, KeptEquation
<1> DEFINE K == Kept(points, epsilon)
<1>8. KeptEquation(points, epsilon, K) BY <1>7 DEF Kept
<1> HIDE DEF K
<1>9. \A p \in Spans(points) : K[p] = Step(points, epsilon, K, p[1], p[2])
  BY <1>8 DEF KeptEquation
<1>10. ASSUME NEW s \in DOMAIN points, NEW e \in DOMAIN points
       PROVE  K[<<s, e>>] = Step(points, epsilon, K, s, e)
  <2>1. <<s, e>> \in Spans(points) BY DEF Spans
  <2>2. <<s, e>>[1] = s /\ <<s, e>>[2] = e OBVIOUS
  <2>3. K[<<s, e>>] = Step(points, epsilon, K, <<s, e>>[1], <<s, e>>[2]) BY <1>9, <2>1
  <2>4. QED BY <2>2, <2>3
<1>11. QED BY <1>10 DEF K

(* What the recursion keeps of a span lies inside it, and each point of    *)
(* the span stands between two kept ones, or ends, with nothing kept in    *)
(* between, and is no further off their line than the tolerance.           *)
CloseSpan(points, epsilon, K, s, e) ==
  /\ K \in SUBSET (s + 1 .. e - 1)
  /\ \A i \in s .. e : \E a, b \in {s, e} \cup K :
       /\ a <= i /\ i <= b /\ \A x \in K : x <= a \/ b <= x
       /\ i = a \/ i = b \/ ~FarOff(points, epsilon, i, a, b)

LEMMA NotFurther ==
  ASSUME NEW points \in Seq(Point), NEW epsilon \in Int,
         NEW s \in DOMAIN points, NEW e \in DOMAIN points, e > s + 1,
         ~FarOff(points, epsilon, Furthest(points, s, e), s, e),
         NEW i \in s + 1 .. e - 1
  PROVE  ~FarOff(points, epsilon, i, s, e)
<1> DEFINE m == Furthest(points, s, e)
           L == epsilon * epsilon * Length(points[s].at, points[e].at)
<1>1. m \in s + 1 .. e - 1 /\ OffOf(points, i, s, e) <= OffOf(points, m, s, e) BY FurthestIs
<1>2. \A j \in s + 1 .. e - 1 : OffOf(points, j, s, e) \in Int
  <2>1. \A j \in s + 1 .. e - 1 : j \in DOMAIN points OBVIOUS
  <2>2. \A j \in DOMAIN points : points[j].at \in Int \X Int
    <3>1. \A j \in DOMAIN points : points[j] \in Point OBVIOUS
    <3>2. QED BY <3>1, PointIs
  <2>3. QED BY <2>1, <2>2, OffIs DEF OffOf
<1>3. L \in Int
  <2>1. \A x, y \in Int : x * y \in Int OBVIOUS
  <2>2. points[s] \in Point /\ points[e] \in Point OBVIOUS
  <2>3. Length(points[s].at, points[e].at) \in Int BY <2>2, PointIs, OffIs
  <2> DEFINE ee == epsilon * epsilon
             l == Length(points[s].at, points[e].at)
  <2>4. ee \in Int BY <2>1
  <2>5. l \in Int BY <2>3
  <2> HIDE DEF ee, l
  <2>6. ee * l \in Int BY <2>1, <2>4, <2>5
  <2>7. QED BY <2>6 DEF ee, l
<1>4. \A j : FarOff(points, epsilon, j, s, e) <=> OffOf(points, j, s, e) > L
  BY DEF FarOff, Beyond, OffOf
<1> HIDE DEF L, m
<1>5. ~FarOff(points, epsilon, m, s, e) BY DEF m
<1>6. ~(OffOf(points, m, s, e) > L) BY <1>4, <1>5
<1>7. OffOf(points, m, s, e) \in Int /\ OffOf(points, i, s, e) \in Int BY <1>1, <1>2
<1>8. ~(OffOf(points, i, s, e) > L) BY <1>1, <1>3, <1>6, <1>7
<1>9. QED BY <1>4, <1>8

LEMMA CloseWhenJoined ==
  ASSUME NEW points, NEW epsilon, NEW s \in Int, NEW e \in Int,
         NEW m \in s + 1 .. e - 1, NEW A, NEW B,
         CloseSpan(points, epsilon, A, s, m), CloseSpan(points, epsilon, B, m, e)
  PROVE  CloseSpan(points, epsilon, {m} \cup A \cup B, s, e)
<1> DEFINE K == {m} \cup A \cup B
<1>1. /\ \A x \in A : x \in Int /\ s < x /\ x < m
      /\ \A x \in B : x \in Int /\ m < x /\ x < e
      /\ m \in Int /\ s < m /\ m < e
  BY DEF CloseSpan
<1>2. K \in SUBSET (s + 1 .. e - 1) BY <1>1
<1>3. ASSUME NEW i \in s .. e
      PROVE  \E a, b \in {s, e} \cup K :
               /\ a <= i /\ i <= b /\ \A x \in K : x <= a \/ b <= x
               /\ i = a \/ i = b \/ ~FarOff(points, epsilon, i, a, b)
  <2>1. CASE i <= m
    <3>1. i \in s .. m BY <1>1, <2>1
    <3>2. PICK a \in {s, m} \cup A, b \in {s, m} \cup A :
            /\ a <= i /\ i <= b /\ \A x \in A : x <= a \/ b <= x
            /\ i = a \/ i = b \/ ~FarOff(points, epsilon, i, a, b)
      BY <3>1 DEF CloseSpan
    <3>3. a \in {s, e} \cup K /\ b \in {s, e} \cup K OBVIOUS
    <3>4. b <= m /\ b \in Int BY <1>1
    <3>5. \A x \in K : x <= a \/ b <= x BY <1>1, <3>2, <3>4
    <3>6. QED BY <3>2, <3>3, <3>5
  <2>2. CASE m <= i
    <3>1. i \in m .. e BY <1>1, <2>2
    <3>2. PICK a \in {m, e} \cup B, b \in {m, e} \cup B :
            /\ a <= i /\ i <= b /\ \A x \in B : x <= a \/ b <= x
            /\ i = a \/ i = b \/ ~FarOff(points, epsilon, i, a, b)
      BY <3>1 DEF CloseSpan
    <3>3. a \in {s, e} \cup K /\ b \in {s, e} \cup K OBVIOUS
    <3>4. m <= a /\ a \in Int BY <1>1
    <3>5. \A x \in K : x <= a \/ b <= x BY <1>1, <3>2, <3>4
    <3>6. QED BY <3>2, <3>3, <3>5
  <2>3. QED BY <1>1, <2>1, <2>2
<1>4. QED BY <1>2, <1>3 DEF CloseSpan

LEMMA CloseAlone ==
  ASSUME NEW points \in Seq(Point), NEW epsilon \in Int,
         NEW s \in DOMAIN points, NEW e \in DOMAIN points, s <= e,
         e > s + 1 => ~FarOff(points, epsilon, Furthest(points, s, e), s, e)
  PROVE  CloseSpan(points, epsilon, {}, s, e)
<1>1. s \in Int /\ e \in Int OBVIOUS
<1>2. ASSUME NEW i \in s .. e PROVE i = s \/ i = e \/ ~FarOff(points, epsilon, i, s, e)
  <2>1. SUFFICES ASSUME i # s, i # e PROVE ~FarOff(points, epsilon, i, s, e) OBVIOUS
  <2>2. i \in s + 1 .. e - 1 /\ e > s + 1 BY <1>1, <2>1
  <2>3. QED BY <2>2, NotFurther
<1>3. \A i \in s .. e : s <= i /\ i <= e BY <1>1
<1>4. QED BY <1>2, <1>3 DEF CloseSpan

LEMMA KeptIsClose ==
  ASSUME NEW points \in Seq(Point), NEW epsilon \in Int,
         NEW s \in DOMAIN points, NEW e \in DOMAIN points, s <= e
  PROVE  CloseSpan(points, epsilon, Kept(points, epsilon)[<<s, e>>], s, e)
<1> DEFINE n == Len(points)
           K == Kept(points, epsilon)
           Good(a, z) == CloseSpan(points, epsilon, K[<<a, z>>], a, z)
           bad == {d \in Nat : \E a, z \in DOMAIN points : a <= z /\ z - a = d /\ ~Good(a, z)}
<1>1. n \in Nat /\ DOMAIN points = 1 .. n OBVIOUS
<1>2. SUFFICES ASSUME bad # {} PROVE FALSE
  <2>1. s <= e /\ e - s \in Nat BY <1>1
  <2>2. QED BY <2>1
<1>3. PICK d \in bad : \A y \in bad : d <= y
  <2>1. bad \in SUBSET Nat OBVIOUS
  <2> HIDE DEF bad
  <2>2. QED BY <1>2, <2>1, LeastNatural
<1>4. PICK a \in DOMAIN points, z \in DOMAIN points : a <= z /\ z - a = d /\ ~Good(a, z)
  OBVIOUS
<1>5. \A u, w \in DOMAIN points : u <= w /\ w - u < d => Good(u, w)
  <2>1. SUFFICES ASSUME NEW u \in DOMAIN points, NEW w \in DOMAIN points, u <= w, w - u < d,
                        ~Good(u, w)
                 PROVE  FALSE
    OBVIOUS
  <2>2. w - u \in Nat BY <1>1, <2>1
  <2>3. w - u \in bad BY <2>1, <2>2
  <2>4. d <= w - u /\ d \in Nat BY <1>3, <2>3
  <2> HIDE DEF bad, Good
  <2>5. QED BY <2>1, <2>2, <2>4
<1> HIDE DEF bad
<1>6. K[<<a, z>>] = Step(points, epsilon, K, a, z) BY KeptIs
<1> DEFINE m == Furthest(points, a, z)
<1>7. CASE z > a + 1 /\ FarOff(points, epsilon, m, a, z)
  <2>1. K[<<a, z>>] = {m} \cup K[<<a, m>>] \cup K[<<m, z>>] BY <1>6, <1>7 DEF Step
  <2>2. m \in a + 1 .. z - 1 BY <1>7, FurthestIs
  <2> HIDE DEF m, K, Good
  <2>3. m \in DOMAIN points /\ a <= m /\ m - a < d /\ m <= z /\ z - m < d BY <1>1, <1>4, <2>2
  <2>4. Good(a, m) /\ Good(m, z) BY <1>5, <2>3
  <2>5. a \in Int /\ z \in Int BY <1>1
  <2>6. CloseSpan(points, epsilon, {m} \cup K[<<a, m>>] \cup K[<<m, z>>], a, z)
    BY <2>2, <2>4, <2>5, CloseWhenJoined DEF Good
  <2>7. QED BY <1>4, <2>1, <2>6 DEF Good
<1>8. CASE ~(z > a + 1 /\ FarOff(points, epsilon, m, a, z))
  <2>1. K[<<a, z>>] = {} BY <1>6, <1>8 DEF Step
  <2>2. CloseSpan(points, epsilon, {}, a, z) BY <1>4, <1>8, CloseAlone
  <2> HIDE DEF K
  <2>3. QED BY <1>4, <2>1, <2>2
<1>9. QED BY <1>7, <1>8

(* Neighbours of a set stand side by side in its order.                    *)
LEMMA SideBySide ==
  ASSUME NEW n \in Nat, NEW P \in SUBSET (1 .. n),
         NEW a \in P, NEW b \in P, a < b, \A x \in P : x <= a \/ b <= x
  PROVE  \E k \in 2 .. Cardinality(P) : Ascending(P)[k - 1] = a /\ Ascending(P)[k] = b
<1> DEFINE f == Ascending(P)
<1>0. Picks(f, P) BY AmongIs
<1> HIDE DEF f
<1> DEFINE c == Cardinality(P)
<1>1. c \in Nat BY PlacesFinite
<1>2. \A x \in P : x \in Int OBVIOUS
<1>3. PICK k \in 1 .. c : f[k] = b BY <1>0 DEF Picks
<1>4. PICK j \in 1 .. c : f[j] = a BY <1>0 DEF Picks
<1> HIDE DEF c
<1>5. \A x, y \in 1 .. c : x < y <=> f[x] < f[y] BY <1>0 DEF Picks, c
<1>6. \A x \in 1 .. c : f[x] \in P BY <1>0 DEF Picks, c
<1>7. j < k BY <1>3, <1>4, <1>5
<1>8. k \in 2 .. c /\ k - 1 \in 1 .. c /\ k - 1 < k /\ j <= k - 1 BY <1>1, <1>3, <1>4, <1>7
<1>9. f[k - 1] < b /\ f[k - 1] \in P BY <1>3, <1>5, <1>6, <1>8
<1>10. \A x \in P : x < b => x <= a
  <2>1. \A x \in P : x <= a \/ b <= x OBVIOUS
  <2>2. a \in Int /\ b \in Int BY <1>2
  <2>3. QED BY <1>2, <2>1, <2>2
<1>11. ~(j < k - 1)
  <2>1. f[k - 1] <= a BY <1>9, <1>10
  <2>2. f[k - 1] \in Int /\ a \in Int BY <1>2, <1>9
  <2>3. ~(a < f[k - 1]) BY <2>1, <2>2
  <2>4. QED BY <1>4, <1>5, <1>8, <2>3
<1>12. j = k - 1 BY <1>1, <1>8, <1>11
<1>13. QED BY <1>3, <1>4, <1>8, <1>12 DEF c, f

LEMMA SimplifiedIsClose ==
  ASSUME NEW before \in Seq(Point), before # <<>>, InTime(before), NEW epsilon \in Int,
         NEW after, after = simplify_track_points(before, epsilon)
  PROVE  /\ Head(after) = Head(before) /\ Last(after) = Last(before)
         /\ \A i \in DOMAIN before :
              \/ before[i] \in ToSet(after)
              \/ \E n \in DOMAIN after \ {1} :
                   /\ after[n - 1].timestamp <= before[i].timestamp
                   /\ before[i].timestamp <= after[n].timestamp
                   /\ ~Beyond(epsilon, before[i].at, after[n - 1].at, after[n].at)
<1> DEFINE n == Len(before)
           K == Kept(before, epsilon)[<<1, n>>]
           P == {1, n} \cup K
           f == Ascending(P)
           c == Cardinality(P)
<1>1. n \in Nat /\ n # 0 /\ DOMAIN before = 1 .. n BY EmptySeq
<1>2. CASE after = before
  <2>1. \A i \in DOMAIN before : before[i] \in ToSet(after) BY <1>2 DEF ToSet
  <2>2. QED BY <1>2, <2>1
<1>3. CASE ~(n <= 2 \/ epsilon <= 0)
  <2>1. after = Among(before, P) BY <1>3, SimplifiedIs
  <2>2. CloseSpan(before, epsilon, K, 1, n)
    <3>1. 1 \in DOMAIN before /\ n \in DOMAIN before /\ 1 <= n BY <1>1
    <3>2. QED BY <3>1, KeptIsClose
  <2> HIDE DEF K
  <2>20. K \subseteq 1 + 1 .. n - 1 BY <2>2 DEF CloseSpan
  <2> HIDE DEF n
  <2>21. K \subseteq 1 .. n BY <1>1, <2>20
  <2>22. 1 \in 1 .. n /\ n \in 1 .. n BY <1>1
  <2>3. P \in SUBSET (1 .. n) /\ 1 \in P /\ n \in P BY <2>21, <2>22
  <2> HIDE DEF P
  <2>4. /\ c \in 0 .. n /\ Picks(f, P)
        /\ after = [k \in 1 .. c |-> before[f[k]]]
    BY <1>1, <2>1, <2>3, AmongIs
  <2> HIDE DEF f
  <2>5. after \in Seq(Point) /\ Len(after) = c /\ DOMAIN after = 1 .. c
    <3>1. DOMAIN before = 1 .. n BY <1>1 DEF n
    <3>2. P \in SUBSET DOMAIN before BY <2>3, <3>1
    <3>3. Among(before, P) \in Seq(Point) BY <3>2, AmongSeq
    <3>4. DOMAIN after = 1 .. c /\ c \in Nat BY <1>1, <2>4
    <3> HIDE DEF c
    <3>5. after \in Seq(Point) BY <2>1, <3>3
    <3>6. QED BY <3>4, <3>5
  <2>6. \A x \in P : \E k \in 1 .. c : after[k] = before[x] /\ f[k] = x
    BY <2>4 DEF Picks
  <2> HIDE DEF f, c
  <2>7. \A j, k \in 1 .. c : j < k <=> f[j] < f[k] BY <2>4 DEF Picks, c
  <2>8. \A k \in 1 .. c : f[k] \in P /\ f[k] \in 1 .. n BY <2>3, <2>4 DEF Picks, c
  <2>9. Head(after) = Head(before)
    <3>1. PICK k \in 1 .. c : after[k] = before[1] /\ f[k] = 1 BY <2>3, <2>6
    <3>2. 1 \in 1 .. c BY <2>4, <3>1
    <3>3. ~(1 < k) BY <2>7, <2>8, <3>1, <3>2
    <3>4. k = 1 BY <3>1, <3>3
    <3>5. after[1] = before[1] BY <3>1, <3>4
    <3>6. after # <<>> BY <2>5, <3>2
    <3>7. QED BY <2>5, <3>5, <3>6
  <2>10. Last(after) = Last(before)
    <3>1. PICK k \in 1 .. c : after[k] = before[n] /\ f[k] = n BY <2>3, <2>6
    <3>2. c \in 1 .. c BY <2>4, <3>1
    <3>3. ~(k < c) BY <1>1, <2>7, <2>8, <3>1, <3>2
    <3>4. k = c BY <3>1, <3>2, <3>3
    <3>5. after[c] = before[n] BY <3>1, <3>4
    <3>6. QED BY <2>5, <3>5 DEF Last, n
  <2>11. ASSUME NEW i \in DOMAIN before
         PROVE  \/ before[i] \in ToSet(after)
                \/ \E k \in DOMAIN after \ {1} :
                     /\ after[k - 1].timestamp <= before[i].timestamp
                     /\ before[i].timestamp <= after[k].timestamp
                     /\ ~Beyond(epsilon, before[i].at, after[k - 1].at, after[k].at)
    <3>1. PICK a \in P, b \in P :
            /\ a <= i /\ i <= b /\ \A x \in K : x <= a \/ b <= x
            /\ i = a \/ i = b \/ ~FarOff(before, epsilon, i, a, b)
      <4>1. i \in 1 .. n BY <1>1
      <4>2. QED BY <2>2, <4>1 DEF CloseSpan, P
    <3>2. CASE i \in P
      <4>1. PICK k \in 1 .. c : after[k] = before[i] BY <2>6, <3>2
      <4>2. QED BY <2>5, <4>1 DEF ToSet
    <3>3. CASE i \notin P
      <4>1. a \in 1 .. n /\ b \in 1 .. n /\ i \in 1 .. n BY <1>1, <2>3
      <4>2. i # a /\ i # b BY <3>1, <3>3
      <4>3. a < b BY <3>1, <4>1, <4>2
      <4>4. \A x \in P : x <= a \/ b <= x
        <5>1. 1 <= a /\ b <= n BY <4>1
        <5>2. QED BY <3>1, <5>1 DEF P
      <4>5. \E k \in 2 .. Cardinality(P) : f[k - 1] = a /\ f[k] = b
        <5>1. n \in Nat /\ P \in SUBSET (1 .. n) BY <1>1, <2>3
        <5>2. QED BY <4>3, <4>4, <5>1, SideBySide DEF f
      <4>6. PICK k \in 2 .. c : f[k - 1] = a /\ f[k] = b BY <4>5 DEF c
      <4>7. k - 1 \in 1 .. c /\ k \in 1 .. c /\ k # 1 BY <2>4, <4>6
      <4>8. after[k - 1] = before[a] /\ after[k] = before[b] BY <2>4, <4>6, <4>7 DEF c, f
      <4>9. before[a].timestamp <= before[i].timestamp /\ before[i].timestamp <= before[b].timestamp
        BY <1>1, <3>1, <4>1 DEF InTime
      <4>10. ~Beyond(epsilon, before[i].at, before[a].at, before[b].at)
        BY <3>1, <4>2 DEF FarOff
      <4>11. QED BY <2>5, <4>7, <4>8, <4>9, <4>10
    <3>4. QED BY <3>2, <3>3
  <2>12. QED BY <2>9, <2>10, <2>11
<1>4. QED BY <1>2, <1>3, SimplifiedIs

LEMMA AlwaysClose == ASSUME TableInv PROVE SimplifiedClose
<1>1. SUFFICES ASSUME NEW q \in TrackRequests, parses(q), Asked(q, "simplify"),
                      NEW v \in DOMAIN query(q), NEW k \in DOMAIN query(q)[v]
               PROVE  LET before == query(q)[v][k]
                          after == simplify_track_points(before, q.simplify)
                      IN  /\ Head(after) = Head(before) /\ Last(after) = Last(before)
                          /\ \A i \in DOMAIN before :
                               \/ before[i] \in ToSet(after)
                               \/ \E n \in DOMAIN after \ {1} :
                                    /\ after[n - 1].timestamp <= before[i].timestamp
                                    /\ before[i].timestamp <= after[n].timestamp
                                    /\ ~Beyond(q.simplify, before[i].at, after[n - 1].at, after[n].at)
  BY DEF SimplifiedClose
<1> DEFINE segments == query(q)[v]
           before == segments[k]
<1>2. (Asked(q, "limit") => q.limit \in Nat) /\ q.simplify \in Int BY <1>1, TracksAssumption
<1>3. PICK p \in Seq(Point) : InTime(p) /\ segments = segment_by_gap(p)
  <2>1. \E points : points \in Seq(Point) /\ InTime(points) /\ segments = segment_by_gap(points)
    BY <1>2, TrackIs
  <2>2. QED BY <2>1
<1>4. k \in DOMAIN segments OBVIOUS
<1> HIDE DEF segments
<1>5. p # <<>> BY <1>3, <1>4, NoSegments
<1>6. PICK first, last, m : Cuts(first, last, m, p) /\ segments = Pieces(first, last, m, p)
  BY <1>3, <1>5, SegmentsAre
<1>7. k \in 1 .. m BY <1>4, <1>6 DEF Pieces
<1>8. before = Pieces(first, last, m, p)[k] BY <1>6
<1> HIDE DEF before
<1>9. /\ before \in Seq(Point) /\ before # <<>>
      /\ first[k] \in DOMAIN p /\ last[k] \in DOMAIN p /\ first[k] <= last[k]
      /\ Len(before) = last[k] - first[k] + 1
      /\ \A i \in DOMAIN before : before[i] = p[first[k] + i - 1]
  BY <1>6, <1>7, <1>8, PieceIs
<1>10. InTime(before)
  <2> DEFINE a == first[k]
             z == last[k]
             n == Len(p)
  <2>1. n \in Nat /\ DOMAIN p = 1 .. n OBVIOUS
  <2>2. a \in 1 .. n /\ z \in 1 .. n /\ DOMAIN before = 1 .. (z - a + 1)
        /\ \A i \in 1 .. (z - a + 1) : before[i] = p[a + i - 1]
    <3>1. a \in 1 .. n /\ z \in 1 .. n BY <1>9, <2>1
    <3>2. DOMAIN before = 1 .. Len(before) /\ Len(before) = z - a + 1 BY <1>9
    <3>3. \A i \in DOMAIN before : before[i] = p[a + i - 1] BY <1>9
    <3> HIDE DEF a, z, n
    <3>4. QED BY <3>1, <3>2, <3>3
  <2> HIDE DEF a, z, n
  <2>3. \A i, j \in 1 .. (z - a + 1) : /\ a + i - 1 \in 1 .. n
                                       /\ i <= j => a + i - 1 <= a + j - 1
    BY <2>1, <2>2
  <2>4. QED BY <1>3, <2>1, <2>2, <2>3 DEF InTime
<1>11. QED BY <1>2, <1>9, <1>10, SimplifiedIsClose DEF before, segments

(* Whatever was recorded, pruned or deleted before, and whatever is asked: *)
(* the tracks of an answer are the matching points or the most recent of   *)
(* them, split at the gaps and only there, simplified to the tolerance and *)
(* no more; the points of a run are min_interval apart and the summary     *)
(* tells the same as the answers (handle_get_tracks, record_position).     *)
THEOREM TracksAlwaysCorrect == TracksSpec => []TracksCorrect
<1>1. TableInv => TracksCorrect
  BY AnswersAlwaysFit, AlwaysClose, SummaryAlwaysAgrees DEF TracksCorrect, TableInv
<1>2. QED BY TableInitially, TableStep, <1>1, PTL DEF TracksSpec

-----------------------------------------------------------------------------
(* The columns of a history query.                                         *)

IsTuple(s) == \E S : s \in Seq(S)

LEMMA IsTupleOf ==
  ASSUME NEW n \in Nat, NEW s, DOMAIN s = 1 .. n, s = [k \in 1 .. n |-> s[k]]
  PROVE  IsTuple(s) /\ Len(s) = n
<1> DEFINE V == {s[k] : k \in 1 .. n}
<1>1. s \in [1 .. n -> V]
  <2>1. \A k \in 1 .. n : s[k] \in V OBVIOUS
  <2> HIDE DEF V
  <2>2. QED BY <2>1
<1> HIDE DEF V
<1>2. s \in Seq(V) BY <1>1
<1>3. Len(s) = n BY <1>1, <1>2
<1>4. QED BY <1>2, <1>3 DEF IsTuple

LEMMA IsTupleIs ==
  ASSUME NEW s, IsTuple(s)
  PROVE  Len(s) \in Nat /\ DOMAIN s = 1 .. Len(s) /\ s = [k \in 1 .. Len(s) |-> s[k]]
<1>1. PICK S : s \in Seq(S) BY DEF IsTuple
<1>2. QED BY <1>1

LEMMA TuplesJoin ==
  ASSUME NEW s, IsTuple(s), NEW t, IsTuple(t)
  PROVE  /\ IsTuple(s \o t) /\ Len(s \o t) = Len(s) + Len(t)
         /\ \A k \in 1 .. Len(s) : (s \o t)[k] = s[k]
         /\ \A k \in Len(s) + 1 .. Len(s) + Len(t) : (s \o t)[k] = t[k - Len(s)]
<1> DEFINE u == s \o t
<1>1. PICK S : s \in Seq(S) BY DEF IsTuple
<1>2. PICK T : t \in Seq(T) BY DEF IsTuple
<1> DEFINE V == S \cup T
<1>3. s \in Seq(V) /\ t \in Seq(V)
  <2>1. s \in [1 .. Len(s) -> V] /\ Len(s) \in Nat BY <1>1
  <2>2. t \in [1 .. Len(t) -> V] /\ Len(t) \in Nat BY <1>2
  <2> HIDE DEF V
  <2>3. s \in Seq(V) BY <2>1
  <2>4. t \in Seq(V) BY <2>2
  <2>5. QED BY <2>3, <2>4
<1> HIDE DEF V
<1>4. u \in Seq(V) BY <1>3
<1>5. /\ Len(u) = Len(s) + Len(t)
      /\ \A k \in 1 .. Len(s) : u[k] = s[k]
  BY <1>3
<1>6. \A k \in Len(s) + 1 .. Len(s) + Len(t) : u[k] = t[k - Len(s)] BY <1>3
<1>7. QED BY <1>4, <1>5, <1>6 DEF IsTuple

(* What a row shows for the i-th path.                                     *)
At(row, i) == IF Len(row) > i THEN row[i + 1] ELSE NoColumn

(* A cell is put behind a row that is filled up for it.                    *)
Grown(row, n, v) == Append(Padded(row, n), v)

LEMMA RowGrows ==
  ASSUME NEW n \in Nat, n # 0, NEW row, IsTuple(row), Len(row) \in 1 .. n, NEW v
  PROVE  /\ IsTuple(Grown(row, n, v)) /\ Len(Grown(row, n, v)) = n + 1
         /\ Grown(row, n, v)[1] = row[1]
         /\ \A i \in 1 .. n - 1 : At(Grown(row, n, v), i) = At(row, i)
         /\ At(Grown(row, n, v), n) = v
<1> DEFINE r == Grown(row, n, v)
<1>1. PICK S : row \in Seq(S) BY DEF IsTuple
<1> DEFINE m == Len(row)
           T == S \cup {v, NoColumn}
           pad == [k \in 1 .. (n - m) |-> NoColumn]
           p == Padded(row, n)
<1>2. m \in 1 .. n /\ row \in [1 .. m -> S] BY <1>1
<1>3. row \in Seq(T) /\ v \in T
  <2>1. row \in [1 .. m -> T] BY <1>2
  <2>2. m \in Nat BY <1>2
  <2> HIDE DEF m, T
  <2>3. row \in Seq(T) BY <2>1, <2>2
  <2>4. QED BY <2>3 DEF T
<1>4. pad \in Seq(T) /\ Len(pad) = n - m /\ \A k \in 1 .. n - m : pad[k] = NoColumn
  <2>1. n - m \in Nat BY <1>2
  <2>2. NoColumn \in T OBVIOUS
  <2> HIDE DEF m, T
  <2>3. QED BY <2>1, <2>2
<1> HIDE DEF T
<1>5. p \in Seq(T) /\ Len(p) = n /\ \A k \in 1 .. n : p[k] = IF k <= m THEN row[k] ELSE NoColumn
  <2>1. CASE m >= n
    <3>1. m = n
      <4> HIDE DEF m
      <4>1. QED BY <1>2, <2>1
    <3>2. p = row BY <2>1 DEF Padded
    <3>3. QED BY <1>2, <1>3, <3>1, <3>2
  <2>2. CASE ~(m >= n)
    <3>1. p = row \o pad BY <2>2 DEF Padded
    <3> HIDE DEF pad, p
    <3>2. p \in Seq(T) /\ Len(p) = n BY <1>2, <1>3, <1>4, <3>1
    <3>3. ASSUME NEW k \in 1 .. n PROVE p[k] = IF k <= m THEN row[k] ELSE NoColumn
      <4>1. Len(row) = m BY DEF m
      <4> HIDE DEF m
      <4>2. CASE k <= m BY <1>2, <1>3, <1>4, <3>1, <4>1, <4>2
      <4>3. CASE ~(k <= m)
        <5>1. p[k] = pad[k - m] BY <1>2, <1>3, <1>4, <3>1, <4>1, <4>3
        <5>2. k - m \in 1 .. n - m BY <1>2, <4>3
        <5>3. QED BY <1>4, <4>3, <5>1, <5>2
      <4>4. QED BY <4>2, <4>3
    <3>4. QED BY <3>2, <3>3
  <2>3. QED BY <2>1, <2>2
<1>6. r = Append(p, v) BY DEF Grown
<1>60. Len(row) = m OBVIOUS
<1> HIDE DEF pad, p, m, r
<1>7. r \in Seq(T) /\ Len(r) = n + 1 /\ (\A k \in 1 .. n : r[k] = p[k]) /\ r[n + 1] = v
  BY <1>3, <1>5, <1>6
<1>8. r[1] = row[1] BY <1>2, <1>5, <1>7
<1>9. ASSUME NEW i \in 1 .. n - 1 PROVE At(r, i) = At(row, i)
  <2>1. i + 1 \in 1 .. n /\ Len(r) > i BY <1>7
  <2>2. At(r, i) = p[i + 1] BY <1>7, <2>1 DEF At
  <2>3. QED BY <1>2, <1>5, <1>60, <2>1, <2>2 DEF At
<1>10. At(r, n) = v BY <1>7 DEF At
<1>11. IsTuple(r) BY <1>7 DEF IsTuple
<1>12. QED BY <1>7, <1>8, <1>9, <1>10, <1>11 DEF r

(* The rows of one path: no two of the same time.                          *)
ColumnFits(c) ==
  /\ IsTuple(c)
  /\ \A k \in DOMAIN c : c[k] = <<c[k][1], c[k][2]>> /\ c[k][1] \in Int
  /\ \A j, k \in DOMAIN c : c[j][1] = c[k][1] => j = k

RowsFit(rows, n) ==
  /\ IsTuple(rows)
  /\ \A k \in DOMAIN rows :
       IsTuple(rows[k]) /\ Len(rows[k]) \in 2 .. n + 1 /\ rows[k][1] \in Int
  /\ \A j, k \in DOMAIN rows : rows[j][1] = rows[k][1] => j = k

(* The i-th cell of a row is what column c has at the row's time.          *)
Tells(row, c, i) ==
  /\ \A r \in DOMAIN c : c[r][1] = row[1] => At(row, i) = c[r][2]
  /\ (\A r \in DOMAIN c : c[r][1] # row[1]) => At(row, i) = NoColumn

Lined(rows, C, n) ==
  /\ RowsFit(rows, n)
  /\ \A k \in DOMAIN rows : \A i \in 1 .. n : Tells(rows[k], C[i], i)
  /\ \A i \in 1 .. n : \A r \in DOMAIN C[i] : \E k \in DOMAIN rows : rows[k][1] = C[i][r][1]

(* What is made of m rows and of a later column: row[1] .. row[m] go on,   *)
(* and the rows from m + 1 onward are of new times.                        *)
Merges(merged, m, rows, c, n) ==
  \E p \in Nat : \E h \in [m + 1 .. m + p -> DOMAIN c] :
    /\ IsTuple(merged) /\ Len(merged) = m + p
    /\ \A k \in 1 .. m :
         \/ \E r \in DOMAIN c : c[r][1] = rows[k][1] /\ merged[k] = Grown(rows[k], n, c[r][2])
         \/ (\A r \in DOMAIN c : c[r][1] # rows[k][1]) /\ merged[k] = rows[k]
    /\ \A k \in m + 1 .. m + p : merged[k] = Grown(<<c[h[k]][1]>>, n, c[h[k]][2])
    /\ \A k \in m + 1 .. m + p, j \in 1 .. m : c[h[k]][1] # rows[j][1]
    /\ \A j, k \in m + 1 .. m + p : h[j] = h[k] => j = k
    /\ \A r \in DOMAIN c :
         (\E k \in 1 .. m : rows[k][1] = c[r][1]) \/ (\E k \in m + 1 .. m + p : h[k] = r)

LEMMA MergeIs ==
  ASSUME NEW n \in Nat, n > 1, NEW rows, IsTuple(rows), NEW c, ColumnFits(c)
  PROVE  Merges(MergeColumn(rows, c, n), Len(rows), rows, c, n)
<1> DEFINE merged == MergeColumn(rows, c, n)
           m == Len(rows)
<1> DEFINE known == {rows[k][1] : k \in DOMAIN rows}
           P == {k \in DOMAIN c : c[k][1] \notin known}
           p == Cardinality(P)
           g == Ascending(P)
           new == Among(c, P)
           late == [k \in DOMAIN new |-> Append(Padded(<<new[k][1]>>, n), new[k][2])]
           Has(t) == \E k \in DOMAIN c : c[k][1] = t
           Val(t) == c[CHOOSE k \in DOMAIN c : c[k][1] = t][2]
           old == [k \in DOMAIN rows |->
                    IF Has(rows[k][1]) THEN Append(Padded(rows[k], n), Val(rows[k][1]))
                    ELSE rows[k]]
<1>1. merged = old \o late
  <2>1. n # 1 OBVIOUS
  <2>2. QED BY <2>1, Zenon DEF MergeColumn
<1> HIDE DEF merged
<1>2. m \in Nat /\ DOMAIN rows = 1 .. m BY IsTupleIs
<1>3. Len(c) \in Nat /\ DOMAIN c = 1 .. Len(c) BY IsTupleIs DEF ColumnFits
<1>4. \A j \in 1 .. m : rows[j][1] \in known BY <1>2
<1>5. \A t \in known : \E j \in 1 .. m : rows[j][1] = t BY <1>2
<1> HIDE DEF known
<1>6. P \in SUBSET (1 .. Len(c)) BY <1>3
<1>7. \A r \in DOMAIN c : r \in P <=> c[r][1] \notin known OBVIOUS
<1>70. P \subseteq DOMAIN c OBVIOUS
<1> HIDE DEF P
<1>8. p \in Nat /\ Picks(g, P) /\ new = [k \in 1 .. p |-> c[g[k]]]
  BY <1>3, <1>6, AmongIs
<1>9. /\ g \in [1 .. p -> P] /\ (\A x \in P : \E k \in 1 .. p : g[k] = x)
      /\ \A j, k \in 1 .. p : j < k <=> g[j] < g[k]
  BY <1>8 DEF Picks
<1>10. late = [k \in 1 .. p |-> Grown(<<c[g[k]][1]>>, n, c[g[k]][2])]
  BY <1>8 DEF Grown
<1> HIDE DEF p, g, new, late
<1>11. \A j, k \in 1 .. p : g[j] = g[k] => j = k
  <2>1. \A k \in 1 .. p : g[k] \in 1 .. Len(c) BY <1>6, <1>9
  <2>2. QED BY <1>3, <1>8, <1>9, <2>1
<1>12. g \in [1 .. p -> DOMAIN c] BY <1>9, <1>70
<1>13. \A k \in 1 .. p, j \in 1 .. m : c[g[k]][1] # rows[j][1] BY <1>4, <1>7, <1>9, <1>12
<1>14. \A r \in DOMAIN c :
         (\E k \in 1 .. m : rows[k][1] = c[r][1]) \/ (\E k \in 1 .. p : g[k] = r)
  BY <1>5, <1>7, <1>9
<1>15. ASSUME NEW k \in 1 .. m
       PROVE  \/ \E r \in DOMAIN c : /\ c[r][1] = rows[k][1]
                                     /\ old[k] = Grown(rows[k], n, c[r][2])
              \/ (\A r \in DOMAIN c : c[r][1] # rows[k][1]) /\ old[k] = rows[k]
  <2>1. old[k] = IF Has(rows[k][1]) THEN Append(Padded(rows[k], n), Val(rows[k][1]))
                 ELSE rows[k]
    BY <1>2
  <2>2. CASE Has(rows[k][1])
    <3> DEFINE r == CHOOSE r \in DOMAIN c : c[r][1] = rows[k][1]
    <3>1. r \in DOMAIN c /\ c[r][1] = rows[k][1] BY <2>2
    <3>2. Val(rows[k][1]) = c[r][2] OBVIOUS
    <3>3. old[k] = Grown(rows[k], n, c[r][2]) BY <2>1, <2>2, <3>2 DEF Grown
    <3> HIDE DEF r, old
    <3>4. QED BY <3>1, <3>3
  <2>3. CASE ~Has(rows[k][1])
    <3>1. old[k] = rows[k] BY <2>1, <2>3
    <3> HIDE DEF old
    <3>2. QED BY <2>3, <3>1
  <2>4. QED BY <2>2, <2>3
<1>16. IsTuple(old) /\ Len(old) = m
  <2>0. DOMAIN old = DOMAIN rows /\ old = [k \in DOMAIN rows |-> old[k]] BY Zenon
  <2>1. DOMAIN old = 1 .. m /\ old = [k \in 1 .. m |-> old[k]] BY <1>2, <2>0
  <2> HIDE DEF old
  <2>2. QED BY <1>2, <2>1, IsTupleOf
<1>17. IsTuple(late) /\ Len(late) = p
  <2>1. DOMAIN late = 1 .. p /\ late = [k \in 1 .. p |-> late[k]] BY <1>10
  <2>2. QED BY <1>8, <2>1, IsTupleOf
<1> HIDE DEF old
<1>18. /\ IsTuple(merged) /\ Len(merged) = m + p
       /\ \A k \in 1 .. m : merged[k] = old[k]
       /\ \A k \in m + 1 .. m + p : merged[k] = late[k - m]
  <2>1. /\ IsTuple(old \o late) /\ Len(old \o late) = m + p
        /\ \A k \in 1 .. m : (old \o late)[k] = old[k]
        /\ \A k \in m + 1 .. m + p : (old \o late)[k] = late[k - m]
    <3>1. IsTuple(old) /\ IsTuple(late) BY <1>16, <1>17
    <3>2. /\ IsTuple(old \o late) /\ Len(old \o late) = Len(old) + Len(late)
          /\ \A k \in 1 .. Len(old) : (old \o late)[k] = old[k]
          /\ \A k \in Len(old) + 1 .. Len(old) + Len(late) : (old \o late)[k] = late[k - Len(old)]
      BY <3>1, TuplesJoin
    <3>3. Len(old) = m /\ Len(late) = p BY <1>16, <1>17
    <3>4. QED BY <3>2, <3>3
  <2>2. QED BY <1>1, <2>1
<1> DEFINE h == [k \in m + 1 .. m + p |-> g[k - m]]
<1>30. \A k \in m + 1 .. m + p : k - m \in 1 .. p /\ h[k] = g[k - m] BY <1>2, <1>8
<1>31. h \in [m + 1 .. m + p -> DOMAIN c]
  <2>1. \A k \in m + 1 .. m + p : g[k - m] \in DOMAIN c BY <1>12, <1>30
  <2>2. QED BY <2>1
<1> HIDE DEF h
<1>32. \A j \in 1 .. p : \E k \in m + 1 .. m + p : h[k] = g[j]
  <2>1. ASSUME NEW j \in 1 .. p PROVE m + j \in m + 1 .. m + p /\ m + j - m = j
    BY <1>2, <1>8
  <2>2. QED BY <1>30, <2>1
<1>19. \A k \in m + 1 .. m + p : merged[k] = Grown(<<c[h[k]][1]>>, n, c[h[k]][2])
  BY <1>10, <1>18, <1>30
<1>33. \A k \in m + 1 .. m + p, j \in 1 .. m : c[h[k]][1] # rows[j][1] BY <1>13, <1>30
<1>34. \A j, k \in m + 1 .. m + p : h[j] = h[k] => j = k
  <2>1. ASSUME NEW j \in m + 1 .. m + p, NEW k \in m + 1 .. m + p, h[j] = h[k] PROVE j = k
    <3>1. j - m = k - m BY <1>11, <1>30, <2>1
    <3>2. QED BY <1>2, <1>8, <3>1
  <2>2. QED BY <2>1
<1>35. \A r \in DOMAIN c :
         (\E k \in 1 .. m : rows[k][1] = c[r][1]) \/ (\E k \in m + 1 .. m + p : h[k] = r)
  BY <1>14, <1>32
<1>20. ASSUME NEW k \in 1 .. m
       PROVE  \/ \E r \in DOMAIN c : /\ c[r][1] = rows[k][1]
                                     /\ merged[k] = Grown(rows[k], n, c[r][2])
              \/ (\A r \in DOMAIN c : c[r][1] # rows[k][1]) /\ merged[k] = rows[k]
  <2>1. merged[k] = old[k] BY <1>18
  <2>2. QED BY <1>15, <2>1
<1>21. p \in Nat BY <1>8
<1> HIDE DEF m
<1>22. Merges(merged, m, rows, c, n)
  BY <1>18, <1>19, <1>20, <1>21, <1>31, <1>33, <1>34, <1>35 DEF Merges
<1>23. QED BY <1>22 DEF merged, m

LEMMA SameCell ==
  ASSUME NEW row, NEW r, NEW i, NEW c, r[1] = row[1], At(r, i) = At(row, i), Tells(row, c, i)
  PROVE  Tells(r, c, i)
BY DEF Tells

(* A row that was there goes on to tell what it told, and tells the new    *)
(* column too.                                                             *)
LEMMA OldRowTells ==
  ASSUME NEW n \in Nat, n > 1, NEW row, IsTuple(row), Len(row) \in 2 .. n, NEW c, ColumnFits(c),
         NEW r,
         \/ \E x \in DOMAIN c : c[x][1] = row[1] /\ r = Grown(row, n, c[x][2])
         \/ (\A x \in DOMAIN c : c[x][1] # row[1]) /\ r = row
  PROVE  /\ IsTuple(r) /\ Len(r) \in 2 .. n + 1 /\ r[1] = row[1]
         /\ \A i \in 1 .. n - 1 : At(r, i) = At(row, i)
         /\ Tells(r, c, n)
<1>1. CASE \E x \in DOMAIN c : c[x][1] = row[1] /\ r = Grown(row, n, c[x][2])
  <2>1. PICK x \in DOMAIN c : c[x][1] = row[1] /\ r = Grown(row, n, c[x][2]) BY <1>1
  <2>2. n # 0 /\ Len(row) \in 1 .. n OBVIOUS
  <2>3. /\ IsTuple(r) /\ Len(r) = n + 1 /\ r[1] = row[1]
        /\ \A i \in 1 .. n - 1 : At(r, i) = At(row, i)
        /\ At(r, n) = c[x][2]
    BY <2>1, <2>2, RowGrows
  <2>4. \A y \in DOMAIN c : c[y][1] = r[1] => y = x BY <2>1, <2>3 DEF ColumnFits
  <2>5. Tells(r, c, n) BY <2>1, <2>3, <2>4 DEF Tells
  <2>6. QED BY <2>3, <2>5
<1>2. CASE (\A x \in DOMAIN c : c[x][1] # row[1]) /\ r = row
  <2>1. At(r, n) = NoColumn BY <1>2 DEF At
  <2>2. Tells(r, c, n) BY <1>2, <2>1 DEF Tells
  <2>3. QED BY <1>2, <2>2
<1>3. QED BY <1>1, <1>2

(* The row of a new time tells its column and nothing of those before.     *)
LEMMA NewRowTells ==
  ASSUME NEW n \in Nat, n > 1, NEW c, ColumnFits(c), NEW x \in DOMAIN c
  PROVE  LET r == Grown(<<c[x][1]>>, n, c[x][2])
         IN  /\ IsTuple(r) /\ Len(r) \in 2 .. n + 1 /\ r[1] = c[x][1]
             /\ \A i \in 1 .. n - 1 : At(r, i) = NoColumn
             /\ Tells(r, c, n)
<1> DEFINE row == <<c[x][1]>>
           r == Grown(<<c[x][1]>>, n, c[x][2])
<1>1. IsTuple(row) /\ Len(row) = 1 /\ row[1] = c[x][1]
  <2>1. row \in Seq({c[x][1]}) OBVIOUS
  <2>2. QED BY <2>1 DEF IsTuple
<1>2. r = Grown(row, n, c[x][2]) OBVIOUS
<1> HIDE DEF row, r
<1>3. n # 0 /\ Len(row) \in 1 .. n BY <1>1
<1>4. /\ IsTuple(r) /\ Len(r) = n + 1 /\ r[1] = row[1]
      /\ \A i \in 1 .. n - 1 : At(r, i) = At(row, i)
      /\ At(r, n) = c[x][2]
  <2> DEFINE v == c[x][2]
             w == Grown(row, n, v)
  <2> HIDE DEF v
  <2>1. /\ IsTuple(w) /\ Len(w) = n + 1 /\ w[1] = row[1]
        /\ \A i \in 1 .. n - 1 : At(w, i) = At(row, i)
        /\ At(w, n) = v
    <3>1. IsTuple(row) BY <1>1
    <3>2. Len(row) \in 1 .. n BY <1>3
    <3>3. n # 0 BY <1>3
    <3> HIDE DEF w
    <3>4. QED BY <3>1, <3>2, <3>3, RowGrows DEF w
  <2>2. r = w BY <1>2 DEF v
  <2> HIDE DEF w
  <2>3. QED BY <2>1, <2>2 DEF v
<1>5. \A i \in 1 .. n - 1 : At(row, i) = NoColumn BY <1>1 DEF At
<1>6. \A y \in DOMAIN c : c[y][1] = r[1] => y = x BY <1>1, <1>4 DEF ColumnFits
<1>7. Tells(r, c, n) BY <1>1, <1>4, <1>6 DEF Tells
<1>8. QED BY <1>1, <1>4, <1>5, <1>7 DEF r

LEMMA FirstColumnLined ==
  ASSUME NEW c, ColumnFits(c), NEW C, C[1] = c,
         NEW merged, merged = [k \in DOMAIN c |-> c[k]]
  PROVE  Lined(merged, C, 1)
<1>1. IsTuple(merged) /\ DOMAIN merged = DOMAIN c /\ \A k \in DOMAIN c : merged[k] = c[k]
  <2>1. Len(c) \in Nat /\ DOMAIN c = 1 .. Len(c) BY IsTupleIs DEF ColumnFits
  <2>2. DOMAIN merged = 1 .. Len(c) /\ merged = [k \in 1 .. Len(c) |-> merged[k]] BY <2>1
  <2>3. IsTuple(merged) BY <2>1, <2>2, IsTupleOf
  <2>4. QED BY <2>3
<1>2. ASSUME NEW k \in DOMAIN c
      PROVE  /\ IsTuple(c[k]) /\ Len(c[k]) = 2 /\ c[k][1] \in Int
             /\ At(c[k], 1) = c[k][2]
  <2>1. c[k] = <<c[k][1], c[k][2]>> /\ c[k][1] \in Int BY DEF ColumnFits
  <2>2. ASSUME NEW a, NEW b PROVE IsTuple(<<a, b>>) /\ Len(<<a, b>>) = 2
    <3>1. <<a, b>> \in Seq({a, b}) OBVIOUS
    <3>2. QED BY <3>1 DEF IsTuple
  <2>3. IsTuple(c[k]) /\ Len(c[k]) = 2 BY <2>1, <2>2
  <2>4. QED BY <2>1, <2>3 DEF At
<1>3. RowsFit(merged, 1)
  <2>1. \A k \in DOMAIN merged :
          IsTuple(merged[k]) /\ Len(merged[k]) \in 2 .. 1 + 1 /\ merged[k][1] \in Int
    BY <1>1, <1>2
  <2>2. \A j, k \in DOMAIN merged : merged[j][1] = merged[k][1] => j = k
    BY <1>1 DEF ColumnFits
  <2>3. QED BY <1>1, <2>1, <2>2 DEF RowsFit
<1>4. ASSUME NEW k \in DOMAIN merged PROVE Tells(merged[k], c, 1)
  <2>1. \A x \in DOMAIN c : c[x][1] = c[k][1] => x = k BY <1>1 DEF ColumnFits
  <2>2. QED BY <1>1, <1>2, <2>1 DEF Tells
<1>5. \A r \in DOMAIN c : \E k \in DOMAIN merged : merged[k][1] = c[r][1] BY <1>1
<1>6. \A i \in 1 .. 1 : C[i] = c /\ i = 1 OBVIOUS
<1>7. QED BY <1>3, <1>4, <1>5, <1>6 DEF Lined

(* A column joins the rows and every cell tells its own path's column.     *)
LEMMA MergeLined ==
  ASSUME NEW n \in Nat, n # 0, NEW rows, NEW C, NEW c, ColumnFits(c), C[n] = c,
         Lined(rows, C, n - 1)
  PROVE  Lined(MergeColumn(rows, c, n), C, n)
<1> DEFINE merged == MergeColumn(rows, c, n)
<1>1. CASE n = 1
  <2>1. merged = [k \in DOMAIN c |-> c[k]] BY <1>1 DEF MergeColumn
  <2>2. QED BY <1>1, <2>1, FirstColumnLined
<1>2. CASE n > 1
  <2> DEFINE m == Len(rows)
  <2>1. /\ IsTuple(rows)
        /\ \A k \in DOMAIN rows :
             IsTuple(rows[k]) /\ Len(rows[k]) \in 2 .. n /\ rows[k][1] \in Int
        /\ \A j, k \in DOMAIN rows : rows[j][1] = rows[k][1] => j = k
        /\ \A k \in DOMAIN rows : \A i \in 1 .. n - 1 : Tells(rows[k], C[i], i)
        /\ \A i \in 1 .. n - 1 : \A r \in DOMAIN C[i] :
             \E k \in DOMAIN rows : rows[k][1] = C[i][r][1]
    <3>1. n - 1 + 1 = n OBVIOUS
    <3>2. QED BY <3>1 DEF Lined, RowsFit
  <2>2. m \in Nat /\ DOMAIN rows = 1 .. m BY <2>1, IsTupleIs
  <2>29. Merges(merged, m, rows, c, n)
    <3>1. n > 1 /\ IsTuple(rows) BY <1>2, <2>1
    <3>2. QED BY <3>1, MergeIs
  <2> HIDE DEF merged, m
  <2>30. PICK p \in Nat : \E h \in [m + 1 .. m + p -> DOMAIN c] :
           /\ IsTuple(merged) /\ Len(merged) = m + p
           /\ \A k \in 1 .. m :
                \/ \E r \in DOMAIN c : /\ c[r][1] = rows[k][1]
                                       /\ merged[k] = Grown(rows[k], n, c[r][2])
                \/ (\A r \in DOMAIN c : c[r][1] # rows[k][1]) /\ merged[k] = rows[k]
           /\ \A k \in m + 1 .. m + p :
                merged[k] = Grown(<<c[h[k]][1]>>, n, c[h[k]][2])
           /\ \A k \in m + 1 .. m + p, j \in 1 .. m : c[h[k]][1] # rows[j][1]
           /\ \A j, k \in m + 1 .. m + p : h[j] = h[k] => j = k
           /\ \A r \in DOMAIN c :
                (\E k \in 1 .. m : rows[k][1] = c[r][1]) \/ (\E k \in m + 1 .. m + p : h[k] = r)
    BY <2>29 DEF Merges
  <2>3. PICK h \in [m + 1 .. m + p -> DOMAIN c] :
           /\ IsTuple(merged) /\ Len(merged) = m + p
           /\ \A k \in 1 .. m :
                \/ \E r \in DOMAIN c : /\ c[r][1] = rows[k][1]
                                       /\ merged[k] = Grown(rows[k], n, c[r][2])
                \/ (\A r \in DOMAIN c : c[r][1] # rows[k][1]) /\ merged[k] = rows[k]
           /\ \A k \in m + 1 .. m + p :
                merged[k] = Grown(<<c[h[k]][1]>>, n, c[h[k]][2])
           /\ \A k \in m + 1 .. m + p, j \in 1 .. m : c[h[k]][1] # rows[j][1]
           /\ \A j, k \in m + 1 .. m + p : h[j] = h[k] => j = k
           /\ \A r \in DOMAIN c :
                (\E k \in 1 .. m : rows[k][1] = c[r][1]) \/ (\E k \in m + 1 .. m + p : h[k] = r)
    BY <2>30
  <2> HIDE DEF m
  <2>4. ASSUME NEW k \in 1 .. m
        PROVE  /\ IsTuple(merged[k]) /\ Len(merged[k]) \in 2 .. n + 1
               /\ merged[k][1] = rows[k][1] /\ rows[k][1] \in Int
               /\ \A i \in 1 .. n - 1 : Tells(merged[k], C[i], i)
               /\ Tells(merged[k], c, n)
    <3> DEFINE row == rows[k]
               r == merged[k]
    <3>1. /\ IsTuple(row) /\ Len(row) \in 2 .. n /\ row[1] \in Int
          /\ \A i \in 1 .. n - 1 : Tells(row, C[i], i)
      BY <2>1, <2>2
    <3>2. \/ \E x \in DOMAIN c : c[x][1] = row[1] /\ r = Grown(row, n, c[x][2])
          \/ (\A x \in DOMAIN c : c[x][1] # row[1]) /\ r = row
      BY <2>3
    <3> HIDE DEF row, r
    <3>3. /\ IsTuple(r) /\ Len(r) \in 2 .. n + 1 /\ r[1] = row[1]
          /\ \A i \in 1 .. n - 1 : At(r, i) = At(row, i)
          /\ Tells(r, c, n)
      BY <1>2, <3>1, <3>2, OldRowTells
    <3>4. \A i \in 1 .. n - 1 : Tells(r, C[i], i) BY <3>1, <3>3, SameCell
    <3>5. QED BY <3>1, <3>3, <3>4 DEF row, r
  <2>5. ASSUME NEW k \in m + 1 .. m + p
        PROVE  /\ IsTuple(merged[k]) /\ Len(merged[k]) \in 2 .. n + 1
               /\ merged[k][1] = c[h[k]][1] /\ c[h[k]][1] \in Int
               /\ \A i \in 1 .. n - 1 : Tells(merged[k], C[i], i)
               /\ Tells(merged[k], c, n)
    <3> DEFINE x == h[k]
               r == merged[k]
    <3>1. x \in DOMAIN c /\ r = Grown(<<c[x][1]>>, n, c[x][2]) BY <2>3
    <3>2. \A j \in 1 .. m : c[x][1] # rows[j][1] BY <2>3
    <3> HIDE DEF x, r
    <3>3. /\ IsTuple(r) /\ Len(r) \in 2 .. n + 1 /\ r[1] = c[x][1]
          /\ \A i \in 1 .. n - 1 : At(r, i) = NoColumn
          /\ Tells(r, c, n)
      BY <1>2, <3>1, NewRowTells
    <3>4. ASSUME NEW i \in 1 .. n - 1 PROVE Tells(r, C[i], i)
      <4>1. \A y \in DOMAIN C[i] : C[i][y][1] # r[1] BY <2>1, <2>2, <3>2, <3>3
      <4>2. QED BY <3>3, <4>1 DEF Tells
    <3>5. c[x][1] \in Int BY <3>1 DEF ColumnFits
    <3>6. QED BY <3>3, <3>4, <3>5 DEF x, r
  <2>6. DOMAIN merged = 1 .. m + p BY <2>3, IsTupleIs
  <2>7. \A k \in DOMAIN merged : k \in 1 .. m \/ k \in m + 1 .. m + p BY <2>2, <2>6
  <2>8. ASSUME NEW k \in DOMAIN merged
        PROVE  /\ IsTuple(merged[k]) /\ Len(merged[k]) \in 2 .. n + 1 /\ merged[k][1] \in Int
               /\ \A i \in 1 .. n : Tells(merged[k], C[i], i)
    <3>1. /\ IsTuple(merged[k]) /\ Len(merged[k]) \in 2 .. n + 1 /\ merged[k][1] \in Int
          /\ \A i \in 1 .. n - 1 : Tells(merged[k], C[i], i)
          /\ Tells(merged[k], c, n)
      BY <2>4, <2>5, <2>7
    <3>2. \A i \in 1 .. n : i \in 1 .. n - 1 \/ i = n OBVIOUS
    <3>3. QED BY <3>1, <3>2
  <2>9. ASSUME NEW j \in DOMAIN merged, NEW k \in DOMAIN merged, merged[j][1] = merged[k][1]
        PROVE  j = k
    <3>1. CASE j \in 1 .. m /\ k \in 1 .. m BY <2>1, <2>2, <2>4, <2>9, <3>1
    <3>2. CASE j \in m + 1 .. m + p /\ k \in m + 1 .. m + p
      <4>1. c[h[j]][1] = c[h[k]][1] BY <2>5, <2>9, <3>2
      <4>2. h[j] = h[k] BY <2>3, <3>2, <4>1 DEF ColumnFits
      <4>3. QED BY <2>3, <3>2, <4>2
    <3>3. \A x \in 1 .. m, y \in m + 1 .. m + p : merged[x][1] # merged[y][1]
      BY <2>3, <2>4, <2>5
    <3>4. QED BY <2>7, <2>9, <3>1, <3>2, <3>3
  <2>10. ASSUME NEW i \in 1 .. n, NEW r \in DOMAIN C[i]
         PROVE  \E k \in DOMAIN merged : merged[k][1] = C[i][r][1]
    <3>1. \A k \in 1 .. m : k \in DOMAIN merged /\ merged[k][1] = rows[k][1]
      BY <2>2, <2>4, <2>6
    <3>2. \A k \in m + 1 .. m + p : k \in DOMAIN merged /\ merged[k][1] = c[h[k]][1]
      BY <2>2, <2>5, <2>6
    <3>3. CASE i \in 1 .. n - 1
      <4>1. PICK k \in 1 .. m : rows[k][1] = C[i][r][1] BY <2>1, <2>2, <3>3
      <4>2. QED BY <3>1, <4>1
    <3>4. CASE i = n
      <4>1. (\E k \in 1 .. m : rows[k][1] = c[r][1]) \/ (\E k \in m + 1 .. m + p : h[k] = r)
        BY <2>3, <3>4
      <4>2. QED BY <3>1, <3>2, <3>4, <4>1
    <3>5. QED BY <3>3, <3>4
  <2>11. RowsFit(merged, n) BY <2>3, <2>8, <2>9 DEF RowsFit
  <2>12. Lined(merged, C, n) BY <2>8, <2>10, <2>11 DEF Lined
  <2>13. QED BY <2>12 DEF merged
<1>3. QED BY <1>1, <1>2

(* Sorting by time moves rows and changes none.                            *)
LEMMA SortLined ==
  ASSUME NEW n \in Nat, NEW rows, NEW C, Lined(rows, C, n)
  PROVE  Lined(SortedBy([k \in DOMAIN rows |-> rows[k][1]], rows), C, n)
<1> DEFINE m == Len(rows)
           key == [k \in DOMAIN rows |-> rows[k][1]]
           sorted == SortedBy(key, rows)
<1>1. RowsFit(rows, n) BY DEF Lined
<1>2. m \in Nat /\ DOMAIN rows = 1 .. m BY <1>1, IsTupleIs DEF RowsFit
<1>3. Numbers(key, m) BY <1>1, <1>2 DEF RowsFit, Numbers
<1> HIDE DEF m, key
<1>12. m \in Nat BY <1>2
<1>13. \E f : Sorts(f, key, m) /\ SortedBy(key, rows) = [k \in 1 .. m |-> rows[f[k]]]
  BY <1>3, <1>12, SortedByIs
<1> HIDE DEF sorted
<1>4. PICK f : Sorts(f, key, m) /\ sorted = [k \in 1 .. m |-> rows[f[k]]]
  BY <1>13 DEF sorted
<1>14. /\ \A k \in 1 .. m : IsTuple(rows[k]) /\ Len(rows[k]) \in 2 .. n + 1 /\ rows[k][1] \in Int
       /\ \A j, k \in 1 .. m : rows[j][1] = rows[k][1] => j = k
  BY <1>1, <1>2 DEF RowsFit
<1>15. /\ \A k \in 1 .. m : \A i \in 1 .. n : Tells(rows[k], C[i], i)
       /\ \A i \in 1 .. n : \A r \in DOMAIN C[i] : \E k \in 1 .. m : rows[k][1] = C[i][r][1]
  BY <1>2 DEF Lined
<1>5. /\ \A k \in 1 .. m : f[k] \in 1 .. m /\ sorted[k] = rows[f[k]]
      /\ \A i \in 1 .. m : \E k \in 1 .. m : f[k] = i
      /\ \A j, k \in 1 .. m : f[j] = f[k] => j = k
  BY <1>4 DEF Sorts
<1>6. IsTuple(sorted) /\ DOMAIN sorted = 1 .. m
  <2>1. DOMAIN sorted = 1 .. m /\ sorted = [k \in 1 .. m |-> sorted[k]] BY <1>4
  <2>2. QED BY <1>2, <2>1, IsTupleOf
<1>7. RowsFit(sorted, n)
  <2>1. \A k \in DOMAIN sorted :
          IsTuple(sorted[k]) /\ Len(sorted[k]) \in 2 .. n + 1 /\ sorted[k][1] \in Int
    BY <1>5, <1>6, <1>14
  <2>2. ASSUME NEW j \in 1 .. m, NEW k \in 1 .. m, sorted[j][1] = sorted[k][1] PROVE j = k
    <3>1. f[j] \in 1 .. m /\ f[k] \in 1 .. m /\ rows[f[j]][1] = rows[f[k]][1] BY <1>5, <2>2
    <3>2. f[j] = f[k] BY <1>14, <3>1
    <3>3. QED BY <1>5, <3>2
  <2>3. QED BY <1>6, <2>1, <2>2 DEF RowsFit
<1>8. \A k \in DOMAIN sorted : \A i \in 1 .. n : Tells(sorted[k], C[i], i)
  <2>1. ASSUME NEW k \in 1 .. m, NEW i \in 1 .. n PROVE Tells(sorted[k], C[i], i)
    <3>1. f[k] \in 1 .. m /\ sorted[k] = rows[f[k]] BY <1>5
    <3>2. Tells(rows[f[k]], C[i], i) BY <1>15, <3>1
    <3>3. QED BY <3>1, <3>2
  <2>2. QED BY <1>6, <2>1
<1>9. ASSUME NEW i \in 1 .. n, NEW r \in DOMAIN C[i]
      PROVE  \E k \in DOMAIN sorted : sorted[k][1] = C[i][r][1]
  <2>1. PICK j \in 1 .. m : rows[j][1] = C[i][r][1] BY <1>15
  <2>2. PICK k \in 1 .. m : f[k] = j BY <1>5
  <2>3. sorted[k] = rows[j] BY <1>5, <2>2
  <2>4. QED BY <1>6, <2>1, <2>2, <2>3
<1>10. Lined(sorted, C, n) BY <1>7, <1>8, <1>9 DEF Lined
<1>11. QED BY <1>10 DEF sorted, key

LEMMA WidthIs == ASSUME NEW res PROVE BucketWidth(res) \in Nat \ {0}
BY DEF BucketWidth

LEMMA BucketIs ==
  ASSUME NEW t \in Int, NEW width \in Nat \ {0}
  PROVE  BucketOf(t, width) \in Int
BY DEF BucketOf

(* The buckets of a path follow each other in time.                        *)
LEMMA PathFits ==
  ASSUME NEW values, DOMAIN values \in SUBSET Int, IsFiniteSet(DOMAIN values),
         NEW method, NEW res
  PROVE  ColumnFits(PathRows(values, method, res))
<1> DEFINE width == BucketWidth(res)
           B == {BucketOf(t, width) : t \in DOMAIN values}
           buckets == Ascending(B)
           rows == PathRows(values, method, res)
           c == Cardinality(B)
<1>1. width \in Nat \ {0} BY WidthIs
<1>2. rows = [k \in 1 .. Len(buckets) |->
               <<buckets[k], IF width = 1 THEN 2 * values[buckets[k]]
                             ELSE Aggregate(InBucket(values, buckets[k], width), method)>>]
  BY DEF PathRows
<1> HIDE DEF width, rows
<1>3. B \in SUBSET Int BY <1>1, BucketIs
<1>4. IsFiniteSet(B)
  <2> DEFINE f == [t \in DOMAIN values |-> BucketOf(t, width)]
  <2>1. f \in Surjection(DOMAIN values, B) BY DEF Surjection
  <2> HIDE DEF B, f
  <2>2. QED BY <2>1, FS_Surjection
<1> HIDE DEF B
<1>5. /\ c \in Nat /\ buckets \in [1 .. c -> B]
      /\ \A j, k \in 1 .. c : j < k <=> buckets[j] < buckets[k]
  BY <1>3, <1>4, AscendingIs
<1> HIDE DEF c, buckets
<1>6. Len(buckets) = c BY <1>5
<1>7. DOMAIN rows = 1 .. c /\ rows = [k \in 1 .. c |-> rows[k]] BY <1>2, <1>6
<1>8. IsTuple(rows) BY <1>5, <1>7, IsTupleOf
<1>9. ASSUME NEW k \in 1 .. c
      PROVE  rows[k] = <<rows[k][1], rows[k][2]>> /\ rows[k][1] = buckets[k] /\ buckets[k] \in Int
  BY <1>2, <1>3, <1>5, <1>6
<1>10. ASSUME NEW j \in 1 .. c, NEW k \in 1 .. c, rows[j][1] = rows[k][1] PROVE j = k
  <2>1. buckets[j] = buckets[k] /\ buckets[j] \in Int BY <1>9, <1>10
  <2>2. ~(j < k) /\ ~(k < j) BY <1>5, <2>1
  <2>3. QED BY <1>5, <2>2
<1>11. QED BY <1>7, <1>8, <1>9, <1>10 DEF ColumnFits, rows

(* The rows of the answer are lined up after every path, also after the    *)
(* sorting at the end, and what is stored is finitely many readings.       *)
QueryInv ==
  /\ IsTuple(stored) /\ Len(stored) <= Len(PathMethods)
  /\ \A i \in 1 .. Len(stored) :
       /\ DOMAIN stored[i] \in SUBSET Seconds
       /\ \A t \in DOMAIN stored[i] : stored[i][t] \in Int
  /\ Lined(answer, [i \in 1 .. Len(stored) |-> Column(stored[i], i)], Len(stored))

LEMMA SecondsAre ==
  ASSUME NEW D \in SUBSET Seconds
  PROVE  D \in SUBSET Int /\ IsFiniteSet(D)
BY QueryAssumption, FS_Subset

LEMMA ColumnIs ==
  ASSUME NEW values, DOMAIN values \in SUBSET Seconds, NEW i
  PROVE  ColumnFits(Column(values, i))
<1> DEFINE range == InRange(values, asked)
<1>1. DOMAIN range \in SUBSET Seconds BY DEF InRange
<1>2. Column(values, i) = PathRows(range, PathMethods[i], Resolution(asked)) BY DEF Column
<1> HIDE DEF range
<1>3. DOMAIN range \in SUBSET Int /\ IsFiniteSet(DOMAIN range) BY <1>1, SecondsAre
<1>4. QED BY <1>2, <1>3, PathFits

LEMMA QueryInitially == QueryInit => QueryInv
<1> SUFFICES ASSUME QueryInit PROVE QueryInv OBVIOUS
<1>1. \A s : s = <<>> => s \in Seq({}) /\ Len(s) = 0 /\ DOMAIN s = {} OBVIOUS
<1>2. stored = <<>> /\ answer = <<>> BY DEF QueryInit
<1>3. IsTuple(stored) /\ Len(stored) = 0 BY <1>1, <1>2 DEF IsTuple
<1>4. IsTuple(answer) /\ DOMAIN answer = {} BY <1>1, <1>2 DEF IsTuple
<1>5. RowsFit(answer, 0) BY <1>4 DEF RowsFit
<1>6. \A i \in 1 .. 0 : FALSE OBVIOUS
<1>7. \A C : Lined(answer, C, 0) BY <1>4, <1>5, <1>6 DEF Lined
<1>8. QED BY QueryAssumption, <1>3, <1>6, <1>7 DEF QueryInv

LEMMA TupleGrows ==
  ASSUME NEW s, IsTuple(s), NEW v
  PROVE  /\ IsTuple(Append(s, v)) /\ Len(Append(s, v)) = Len(s) + 1
         /\ \A i \in 1 .. Len(s) : Append(s, v)[i] = s[i]
         /\ Append(s, v)[Len(s) + 1] = v
<1>1. PICK S : s \in Seq(S) BY DEF IsTuple
<1> DEFINE T == S \cup {v}
<1>2. s \in Seq(T)
  <2>1. s \in [1 .. Len(s) -> T] /\ Len(s) \in Nat BY <1>1
  <2> HIDE DEF T
  <2>2. QED BY <2>1
<1>3. v \in T OBVIOUS
<1> HIDE DEF T
<1>4. Append(s, v) \in Seq(T) BY <1>2, <1>3
<1>5. QED BY <1>2, <1>3, <1>4 DEF IsTuple

LEMMA QueryStep == QueryInv /\ [QueryNext]_queryVars => QueryInv'
<1> SUFFICES ASSUME QueryInv, [QueryNext]_queryVars PROVE QueryInv' OBVIOUS
<1>1. CASE UNCHANGED queryVars BY <1>1 DEF queryVars, QueryInv, Column
<1>2. CASE QueryNext
  <2> DEFINE n == Len(stored) + 1
             C == [i \in 1 .. Len(stored) |-> Column(stored[i], i)]
  <2>20. PICK T \in SUBSET Seconds : \E values \in [T -> Readings[n]] :
           AddColumn(values) /\ Len(stored) < Len(PathMethods)
    BY <1>2 DEF QueryNext
  <2>1. PICK values \in [T -> Readings[n]] :
          AddColumn(values) /\ Len(stored) < Len(PathMethods)
    BY <2>20
  <2> DEFINE c == Column(values, n)
             rows == MergeColumn(answer, c, n)
             D == [i \in 1 .. n |-> IF i = n THEN c ELSE C[i]]
  <2>2. IsTuple(stored) /\ Len(stored) \in Nat BY IsTupleIs DEF QueryInv
  <2>3. /\ stored' = Append(stored, values) /\ asked' = asked
        /\ answer' = IF n < Len(PathMethods) THEN rows
                     ELSE SortedBy([k \in DOMAIN rows |-> rows[k][1]], rows)
    BY <2>1 DEF AddColumn
  <2>4. /\ IsTuple(stored') /\ Len(stored') = n
        /\ \A i \in 1 .. Len(stored) : stored'[i] = stored[i]
        /\ stored'[n] = values
    BY <2>2, <2>3, TupleGrows
  <2>5. n \in Nat /\ n # 0 /\ n - 1 = Len(stored) BY <2>2
  <2>6. /\ DOMAIN values \in SUBSET Seconds
        /\ \A t \in DOMAIN values : values[t] \in Int
    <3>1. Readings[n] \subseteq Int
      <4>1. n \in 1 .. Len(PathMethods) BY QueryAssumption, <2>1, <2>2
      <4>2. QED BY QueryAssumption, <4>1
    <3>2. QED BY <2>1, <3>1
  <2>7. \A i \in 1 .. n : i \in 1 .. Len(stored) \/ i = n BY <2>5
  <2>8. ColumnFits(c) BY <2>6, ColumnIs
  <2>9. Lined(answer, C, n - 1) BY <2>5 DEF QueryInv
  <2>10. D[n] = c BY <2>5
  <2>11. \A i \in 1 .. n - 1 : D[i] = C[i] BY <2>5
  <2>12. D = [i \in 1 .. Len(stored') |-> Column(stored[i], i)']
    <3>1. ASSUME NEW i \in 1 .. n PROVE Column(stored[i], i)' = D[i]
      <4>1. Column(stored[i], i)' = Column(stored'[i], i) BY <2>3 DEF Column
      <4>2. QED BY <2>4, <2>7, <4>1
    <3>2. QED BY <2>4, <3>1
  <2> HIDE DEF n, c, C, D
  <2>13. Lined(answer, D, n - 1) BY <2>9, <2>11 DEF Lined
  <2>14. Lined(rows, D, n) BY <2>5, <2>8, <2>10, <2>13, MergeLined
  <2> HIDE DEF rows
  <2>15. Lined(answer', D, n)
    <3>1. Lined(SortedBy([k \in DOMAIN rows |-> rows[k][1]], rows), D, n)
      BY <2>5, <2>14, SortLined
    <3>2. QED BY <2>3, <2>14, <3>1
  <2>16. ASSUME NEW i \in 1 .. n
         PROVE  /\ DOMAIN stored'[i] \in SUBSET Seconds
                /\ \A t \in DOMAIN stored'[i] : stored'[i][t] \in Int
    BY <2>4, <2>6, <2>7 DEF QueryInv
  <2>17. n <= Len(PathMethods) BY QueryAssumption, <2>1, <2>2 DEF n
  <2>18. QED BY <2>4, <2>12, <2>15, <2>16, <2>17 DEF QueryInv
<1>3. QED BY <1>1, <1>2

LEMMA AlwaysAligned == ASSUME QueryInv PROVE ColumnsAligned
<1> DEFINE n == Len(stored)
           C == [i \in 1 .. n |-> Column(stored[i], i)]
<1>1. DOMAIN stored = 1 .. n BY IsTupleIs DEF QueryInv
<1>2. Lined(answer, C, n) BY DEF QueryInv
<1>3. \A i \in DOMAIN stored : C[i] = Column(stored[i], i) BY <1>1
<1> HIDE DEF C, n
<1>4. \A j, k \in DOMAIN answer : answer[j][1] = answer[k][1] => j = k
  BY <1>2 DEF Lined, RowsFit
<1>5. ASSUME NEW k \in DOMAIN answer, NEW i PROVE Cell(answer[k][1], i) = At(answer[k], i)
  <2> DEFINE j == CHOOSE j \in DOMAIN answer : answer[j][1] = answer[k][1]
  <2>1. j \in DOMAIN answer /\ answer[j][1] = answer[k][1] OBVIOUS
  <2>2. j = k BY <1>4, <2>1
  <2>3. Cell(answer[k][1], i) = IF Len(answer[j]) > i THEN answer[j][i + 1] ELSE NoColumn
    BY DEF Cell
  <2> HIDE DEF j
  <2>4. QED BY <2>2, <2>3 DEF At
<1>6. ASSUME NEW k \in DOMAIN answer, NEW i \in DOMAIN stored
      PROVE  LET rows == Column(stored[i], i)
                 mine == {r \in Range(rows) : r[1] = answer[k][1]}
             IN  IF mine = {} THEN Cell(answer[k][1], i) = NoColumn
                 ELSE \A r \in mine : Cell(answer[k][1], i) = r[2]
  <2> DEFINE rows == Column(stored[i], i)
  <2>1. Tells(answer[k], rows, i) BY <1>1, <1>2, <1>3 DEF Lined
  <2> HIDE DEF rows
  <2>2. ASSUME NEW r \in Range(rows), r[1] = answer[k][1] PROVE Cell(answer[k][1], i) = r[2]
    <3>1. PICK x \in DOMAIN rows : r = rows[x] BY DEF Range
    <3>2. QED BY <1>5, <2>1, <2>2, <3>1 DEF Tells
  <2>3. ASSUME \A r \in Range(rows) : r[1] # answer[k][1]
        PROVE  Cell(answer[k][1], i) = NoColumn
    <3>1. \A x \in DOMAIN rows : rows[x] \in Range(rows) BY DEF Range
    <3>2. QED BY <1>5, <2>1, <2>3, <3>1 DEF Tells
  <2>4. QED BY <2>2, <2>3 DEF rows
<1>7. ASSUME NEW i \in DOMAIN stored, NEW r \in Range(Column(stored[i], i))
      PROVE  \E k \in DOMAIN answer : answer[k][1] = r[1]
  <2> DEFINE rows == Column(stored[i], i)
  <2>1. PICK x \in DOMAIN rows : r = rows[x] BY DEF Range
  <2>2. rows = C[i] /\ i \in 1 .. n BY <1>1, <1>3
  <2> HIDE DEF rows
  <2>3. QED BY <1>2, <2>1, <2>2 DEF Lined
<1>8. \A j, k \in DOMAIN answer : j # k => answer[j][1] # answer[k][1] BY <1>4
<1>9. QED BY <1>6, <1>7, <1>8, Zenon DEF ColumnsAligned

(* What stands from place a to place b of a sorted sequence comes from as  *)
(* many places.                                                            *)
LEMMA SortedCount ==
  ASSUME NEW n \in Nat, NEW key, NEW f, Sorts(f, key, n), NEW a \in 1 .. n, NEW b \in a .. n,
         NEW D \in SUBSET (1 .. n), \A k \in a .. b : f[k] \in D
  PROVE  Cardinality(D) \in Nat /\ b - a + 1 <= Cardinality(D)
<1> DEFINE S == a .. b
           g == [k \in S |-> f[k]]
<1>1. \A k \in S : k \in 1 .. n OBVIOUS
<1>2. \A j, k \in 1 .. n : f[j] = f[k] => j = k BY DEF Sorts
<1>3. IsFiniteSet(D) /\ Cardinality(D) \in Nat BY PlacesFinite
<1>4. IsFiniteSet(S) /\ Cardinality(S) = b - a + 1
  <2>1. a \in Int /\ b \in Int /\ a <= b OBVIOUS
  <2>2. Cardinality(a .. b) = IF a > b THEN 0 ELSE b - a + 1 BY <2>1, FS_Interval
  <2>3. QED BY <2>1, <2>2, FS_Interval
<1> HIDE DEF S
<1>5. \A k \in S : f[k] \in D BY DEF S
<1>6. g \in Injection(S, D) BY <1>1, <1>2, <1>5 DEF Injection, IsInjective
<1> HIDE DEF g
<1>7. Cardinality(S) <= Cardinality(D) BY <1>3, <1>4, <1>6, FS_Injection
<1>8. QED BY <1>3, <1>4, <1>7

(* The middle of sorted readings, doubled.                                 *)
Middle(m, sorted, n) ==
  \E mid \in Nat :
    \/ n = 2 * mid /\ m = sorted[mid] + sorted[mid + 1]
    \/ n = 2 * mid + 1 /\ m = 2 * sorted[mid + 1]

LEMMA MiddleIs ==
  ASSUME NEW n \in Nat, NEW sorted,
         NEW m, m = IF n % 2 = 0 THEN sorted[n \div 2] + sorted[n \div 2 + 1]
                    ELSE 2 * sorted[n \div 2 + 1]
  PROVE  Middle(m, sorted, n)
<1> DEFINE mid == n \div 2
<1>1. mid \in Nat /\ (n % 2 = 0 => n = 2 * mid) /\ (n % 2 # 0 => n = 2 * mid + 1) OBVIOUS
<1>2. m = IF n % 2 = 0 THEN sorted[mid] + sorted[mid + 1] ELSE 2 * sorted[mid + 1] OBVIOUS
<1> HIDE DEF mid
<1>3. QED BY <1>1, <1>2 DEF Middle

(* It has half of the readings on either side.                             *)
LEMMA MedianIs ==
  ASSUME NEW n \in Nat, n # 0,
         NEW seq, Numbers(seq, n), NEW m, Middle(m, SortedBy(seq, seq), n)
  PROVE  /\ 2 * Cardinality({k \in 1 .. n : 2 * seq[k] <= m}) >= n
         /\ 2 * Cardinality({k \in 1 .. n : 2 * seq[k] >= m}) >= n
<1> DEFINE sorted == SortedBy(seq, seq)
           below == {k \in 1 .. n : 2 * seq[k] <= m}
           above == {k \in 1 .. n : 2 * seq[k] >= m}
<1>1. DOMAIN seq = 1 .. n /\ \A k \in 1 .. n : seq[k] \in Int BY DEF Numbers
<1>12. Middle(m, sorted, n) OBVIOUS
<1> HIDE DEF below, above
<1>3. \E f : Sorts(f, seq, n) /\ SortedBy(seq, seq) = [k \in 1 .. n |-> seq[f[k]]]
  BY SortedByIs
<1> HIDE DEF sorted
<1>2. PICK mid \in Nat :
        \/ n = 2 * mid /\ m = sorted[mid] + sorted[mid + 1]
        \/ n = 2 * mid + 1 /\ m = 2 * sorted[mid + 1]
  BY <1>12 DEF Middle
<1>4. PICK f : Sorts(f, seq, n) /\ sorted = [k \in 1 .. n |-> seq[f[k]]] BY <1>3 DEF sorted
<1>5. /\ \A k \in 1 .. n : f[k] \in 1 .. n /\ sorted[k] = seq[f[k]] /\ sorted[k] \in Int
      /\ \A j, k \in 1 .. n : j <= k => sorted[j] <= sorted[k]
  BY <1>1, <1>4 DEF Sorts
<1>7. below \in SUBSET (1 .. n) /\ above \in SUBSET (1 .. n) BY DEF below, above
<1>8. \A k \in 1 .. n : /\ 2 * sorted[k] <= m => f[k] \in below
                        /\ 2 * sorted[k] >= m => f[k] \in above
  BY <1>5 DEF below, above
<1>9. CASE n = 2 * mid /\ m = sorted[mid] + sorted[mid + 1]
  <2>1. n = 2 * mid /\ mid \in 1 .. n /\ mid + 1 \in 1 .. n BY <1>9
  <2>2. m = sorted[mid] + sorted[mid + 1] BY <1>9
  <2>3. sorted[mid] \in Int /\ sorted[mid + 1] \in Int BY <1>5, <2>1
  <2>4. ASSUME NEW k \in 1 .. mid PROVE f[k] \in below
    <3>1. k \in 1 .. n /\ k <= mid /\ k <= mid + 1 BY <2>1
    <3>2. sorted[k] \in Int /\ sorted[k] <= sorted[mid] /\ sorted[k] <= sorted[mid + 1]
      BY <1>5, <2>1, <3>1
    <3>3. 2 * sorted[k] <= m BY <2>2, <2>3, <3>2
    <3>4. QED BY <1>8, <3>1, <3>3
  <2>5. ASSUME NEW k \in mid + 1 .. n PROVE f[k] \in above
    <3>1. k \in 1 .. n /\ mid <= k /\ mid + 1 <= k BY <2>1
    <3>2. sorted[k] \in Int /\ sorted[mid] <= sorted[k] /\ sorted[mid + 1] <= sorted[k]
      BY <1>5, <2>1, <3>1
    <3>3. 2 * sorted[k] >= m BY <2>2, <2>3, <3>2
    <3>4. QED BY <1>8, <3>1, <3>3
  <2>6. Cardinality(below) \in Nat /\ mid - 1 + 1 <= Cardinality(below)
    <3>1. 1 \in 1 .. n /\ mid \in 1 .. n BY <2>1
    <3>2. QED BY <1>4, <1>7, <2>4, <3>1, SortedCount
  <2>7. Cardinality(above) \in Nat /\ n - (mid + 1) + 1 <= Cardinality(above)
    <3>1. mid + 1 \in 1 .. n /\ n \in mid + 1 .. n BY <2>1
    <3>2. QED BY <1>4, <1>7, <2>5, <3>1, SortedCount
  <2>8. 2 * Cardinality(below) >= n /\ 2 * Cardinality(above) >= n BY <2>1, <2>6, <2>7
  <2>9. QED BY <2>8 DEF below, above
<1>10. CASE n = 2 * mid + 1 /\ m = 2 * sorted[mid + 1]
  <2>1. n = 2 * mid + 1 /\ mid + 1 \in 1 .. n BY <1>10
  <2>2. m = 2 * sorted[mid + 1] /\ sorted[mid + 1] \in Int BY <1>5, <1>10, <2>1
  <2>4. ASSUME NEW k \in 1 .. mid + 1 PROVE f[k] \in below
    <3>1. k \in 1 .. n /\ k <= mid + 1 BY <2>1
    <3>2. sorted[k] \in Int /\ sorted[k] <= sorted[mid + 1] BY <1>5, <2>1, <3>1
    <3>3. 2 * sorted[k] <= m BY <2>2, <3>2
    <3>4. QED BY <1>8, <3>1, <3>3
  <2>5. ASSUME NEW k \in mid + 1 .. n PROVE f[k] \in above
    <3>1. k \in 1 .. n /\ mid + 1 <= k BY <2>1
    <3>2. sorted[k] \in Int /\ sorted[mid + 1] <= sorted[k] BY <1>5, <2>1, <3>1
    <3>3. 2 * sorted[k] >= m BY <2>2, <3>2
    <3>4. QED BY <1>8, <3>1, <3>3
  <2>6. Cardinality(below) \in Nat /\ mid + 1 - 1 + 1 <= Cardinality(below)
    <3>1. 1 \in 1 .. n /\ mid + 1 \in 1 .. n BY <2>1
    <3>2. Sorts(f, seq, n) /\ below \in SUBSET (1 .. n) BY <1>4, <1>7
    <3> DEFINE z == mid + 1
    <3> HIDE DEF z
    <3>3. z \in 1 .. n /\ \A k \in 1 .. z : f[k] \in below BY <2>4, <3>1 DEF z
    <3>4. Cardinality(below) \in Nat /\ z - 1 + 1 <= Cardinality(below)
      BY <3>1, <3>2, <3>3, SortedCount
    <3>5. QED BY <3>4 DEF z
  <2>7. Cardinality(above) \in Nat /\ n - (mid + 1) + 1 <= Cardinality(above)
    <3>1. mid + 1 \in 1 .. n /\ n \in mid + 1 .. n BY <2>1
    <3>2. QED BY <1>4, <1>7, <2>5, <3>1, SortedCount
  <2>8. 2 * Cardinality(below) >= n /\ 2 * Cardinality(above) >= n
    <3> DEFINE x == Cardinality(below)
               y == Cardinality(above)
    <3>1. x \in Nat /\ y \in Nat /\ mid + 1 - 1 + 1 <= x /\ n - (mid + 1) + 1 <= y BY <2>6, <2>7
    <3> HIDE DEF x, y
    <3>2. 2 * x >= n /\ 2 * y >= n BY <2>1, <3>1
    <3>3. QED BY <3>2 DEF x, y
  <2>9. QED BY <2>8 DEF below, above
<1>11. QED BY <1>2, <1>9, <1>10

LEMMA AlwaysSplits == ASSUME QueryInv PROVE MedianSplits
<1>1. SUFFICES ASSUME NEW i \in DOMAIN stored, NEW t \in DOMAIN stored[i]
               PROVE  LET seq == InBucket(stored[i], BucketOf(t, 60), 60)
                          m   == Aggregate(seq, "mid")
                      IN  /\ 2 * Cardinality({k \in DOMAIN seq : 2 * seq[k] <= m}) >= Len(seq)
                          /\ 2 * Cardinality({k \in DOMAIN seq : 2 * seq[k] >= m}) >= Len(seq)
  BY DEF MedianSplits
<1> DEFINE values == stored[i]
           b == BucketOf(t, 60)
           times == {u \in DOMAIN values : BucketOf(u, 60) = b}
           order == Ascending(times)
           n == Cardinality(times)
           seq == InBucket(values, b, 60)
           m == Aggregate(seq, "mid")
<1>2. /\ DOMAIN values \in SUBSET Seconds
      /\ \A u \in DOMAIN values : values[u] \in Int
  <2>1. DOMAIN stored = 1 .. Len(stored) BY IsTupleIs DEF QueryInv
  <2>2. QED BY <1>1, <2>1 DEF QueryInv
<1> HIDE DEF values
<1>3. t \in times BY <1>1 DEF values
<1>4. times \in SUBSET DOMAIN values OBVIOUS
<1>5. seq = [k \in 1 .. Len(order) |-> values[order[k]]] BY DEF InBucket
<1> HIDE DEF b, times, seq
<1>6. times \in SUBSET Int /\ IsFiniteSet(times) BY <1>2, <1>4, SecondsAre
<1>7. n \in Nat /\ order \in [1 .. n -> times] BY <1>6, AscendingIs
<1>8. n # 0 BY <1>3, <1>6, FS_EmptySet
<1> HIDE DEF n, order
<1>9. Len(order) = n BY <1>7
<1>10. seq \in [1 .. n -> Int]
  <2>1. \A k \in 1 .. n : values[order[k]] \in Int BY <1>2, <1>4, <1>7
  <2>2. QED BY <1>5, <1>9, <2>1
<1>13. Numbers(seq, n) BY <1>10 DEF Numbers
<1>14. Len(seq) = n BY <1>7, <1>10
<1>15. m = IF n % 2 = 0 THEN SortedBy(seq, seq)[n \div 2] + SortedBy(seq, seq)[n \div 2 + 1]
           ELSE 2 * SortedBy(seq, seq)[n \div 2 + 1]
  BY <1>14 DEF Aggregate
<1> HIDE DEF m
<1>17. Middle(m, SortedBy(seq, seq), n) BY <1>7, <1>15, MiddleIs
<1>16. /\ 2 * Cardinality({k \in 1 .. n : 2 * seq[k] <= m}) >= n
       /\ 2 * Cardinality({k \in 1 .. n : 2 * seq[k] >= m}) >= n
  BY <1>7, <1>8, <1>13, <1>17, MedianIs
<1>11. /\ 2 * Cardinality({k \in DOMAIN seq : 2 * seq[k] <= m}) >= Len(seq)
       /\ 2 * Cardinality({k \in DOMAIN seq : 2 * seq[k] >= m}) >= Len(seq)
  BY <1>13, <1>14, <1>16 DEF Numbers
<1>12. QED BY <1>11 DEF seq, b, values, m

(* Whatever is stored for the paths of a request: every value stands in    *)
(* its own path's column, in the one row of its time, every other cell is  *)
(* null, and a median has half of its bucket on either side                *)
(* (get_values, query_raw_values, merge of the columns in provider.rs).    *)
THEOREM AnswerAlwaysCorrect == QuerySpec => []AnswerCorrect
<1>1. QueryInv => AnswerCorrect BY AlwaysAligned, AlwaysSplits DEF AnswerCorrect
<1>2. QED BY QueryInitially, QueryStep, <1>1, PTL DEF QuerySpec
=============================================================================
