---------------------------- MODULE PilotProofs ----------------------------
(* Theorems about the autopilot's control loop and its API (Autopilot),    *)
(* the numeric controllers (PilotControl) and the anchor alarm (Anchor),   *)
(* for every set of angles, gains, limits and inputs and any number of     *)
(* ticks and calls.                                                        *)
EXTENDS Autopilot, PilotControl, Anchor, Integers, SequenceTheorems, TLAPS

-----------------------------------------------------------------------------
(* The control loop and its API.                                           *)

(* No command is on its way: the pilot is off and so is the copy that the  *)
(* running tick works on.                                                  *)
Resting == ~enabled /\ pc # "steer" /\ (snap # Absent => ~snap.enabled)

(* One late command used up the tick that could send it.                   *)
LateInv == late \in {0, 1} /\ (late = 1 => Resting)

(* From a trip until somebody engages the loop only centres the rudder and *)
(* raises its alarm.                                                       *)
TripInv ==
  /\ tripped \in BOOLEAN
  /\ tripped => Resting
  /\ tripped /\ pc = "alarm" => shown.rudder = 0
  /\ TripIsShown

PilotInv == AutopilotTypeOK /\ LateInv /\ TripInv

LEMMA AngleFacts ==
  /\ 0 \in Angles
  /\ \A a, b \in Angles : Wrap(a + b) \in Angles
  /\ \A a \in Angles : Dist(a) \in Angles /\ -a \in Angles
  /\ 1 \in Angles /\ -1 \in Angles
BY AutopilotAssumption DEF Angles, Wrap, Dist

LEMMA LaterType ==
  ASSUME NEW age \in 0..MaxAge \cup {Absent}
  PROVE  Later(age) \in 0..MaxAge \cup {Absent}
BY AutopilotAssumption DEF Later

LEMMA SnapshotType ==
  ASSUME AutopilotTypeOK
  PROVE  Snapshot \in Copies /\ Snapshot # Absent /\ Snapshot.enabled = enabled
<1>1. SensorPath(mode) \in Sensors
  BY DEF AutopilotTypeOK, SensorPath, Modes, Sensors
<1>2. (sensor[SensorPath(mode)] # Absent) \in BOOLEAN /\ TimedOut \in BOOLEAN
  BY DEF TimedOut
<1>3. Heading \in Reading \cup {Absent}
  BY DEF AutopilotTypeOK, Heading, Sensors
<1>4. (IF Heading = Absent THEN Absent ELSE Heading.value) \in Angles \cup {Absent}
  BY <1>3 DEF Reading
<1>5. Snapshot \in Copies
  BY <1>2, <1>4 DEF AutopilotTypeOK, Snapshot, Copies
<1> QED
  BY <1>5, AutopilotAssumption DEF Snapshot

(* The plausibility check keeps its state's shape, and its count below the *)
(* limit whenever the heading is accepted.                                 *)
LEMMA CheckType ==
  ASSUME AutopilotTypeOK, snap \in Copies
  PROVE  /\ PlausibilityNow \in [prev : Angles \cup {Absent}, count : 0..(GlitchMax - 1)]
         /\ HeadingAccepted =>
              AfterCheck(PlausibilityNow, snap.heading)
                \in [prev : Angles \cup {Absent}, count : 0..(GlitchMax - 1)]
<1> DEFINE P == [prev : Angles \cup {Absent}, count : 0..(GlitchMax - 1)]
<1>1. PlausibilityNow \in P
  BY AutopilotAssumption DEF PlausibilityNow, Unseen, AutopilotTypeOK
<1>2. ASSUME NEW p \in P, NEW h \in Angles \cup {Absent},
             h = Absent \/ ~SensorFailure(AfterCheck(p, h)) \/ Plausible(p, h)
      PROVE  AfterCheck(p, h) \in P
  <2>1. CASE h = Absent
    BY <2>1 DEF AfterCheck
  <2>2. CASE h # Absent /\ Plausible(p, h)
    BY <2>2, AutopilotAssumption DEF AfterCheck
  <2>3. CASE h # Absent /\ ~Plausible(p, h)
    <3>1. AfterCheck(p, h) = [p EXCEPT !.count = @ + 1]
      BY <2>3 DEF AfterCheck
    <3>2. p.count + 1 \in 0..(GlitchMax - 1)
      BY <1>2, <2>3, <3>1, AutopilotAssumption DEF SensorFailure
    <3> QED
      BY <3>1, <3>2
  <2> QED
    BY <2>1, <2>2, <2>3
<1>3. snap.heading \in Angles \cup {Absent}
  BY DEF Copies
<1> QED
  BY <1>1, <1>2, <1>3 DEF HeadingAccepted

LEMMA LoopStep ==
  ASSUME PilotInv, Loop
  PROVE  PilotInv'
<1> USE DEF PilotInv, LateInv, TripInv, TripIsShown, Resting, EndTick
<1>1. CASE TakeSnapshot
  <2>1. /\ pc = "due" /\ snap' = Snapshot
        /\ tick_counter' = (tick_counter + 1) % OutputEvery
        /\ pc' = IF tick_counter' = 0 THEN "show" ELSE "decide"
        /\ UNCHANGED <<enabled, mode, target, dodge, last_rudder, last_tick, sensor,
                       wound, plausibility, cause, shown, registered, bearing,
                       tripped, late>>
    BY <1>1 DEF TakeSnapshot, stateVars, managerVars, historyVars
  <2>2. snap' \in Copies /\ snap' # Absent /\ snap'.enabled = enabled
    BY <2>1, SnapshotType
  <2>3. tick_counter' \in 0..(OutputEvery - 1)
    BY <2>1, AutopilotAssumption DEF AutopilotTypeOK
  <2>4. AutopilotTypeOK'
    BY <2>1, <2>2, <2>3 DEF AutopilotTypeOK
  <2> QED
    BY <2>1, <2>2, <2>4
<1>2. CASE ShowState
  <2>1. /\ pc = "show" /\ pc' = "decide"
        /\ shown' = [shown EXCEPT !.engaged = snap.enabled]
        /\ UNCHANGED <<enabled, mode, target, dodge, last_rudder, last_tick, sensor,
                       wound, plausibility, tick_counter, snap, cause, registered,
                       bearing, tripped, late>>
    BY <1>2 DEF ShowState, stateVars, loopVars, managerVars, historyVars
  <2>2. snap.enabled \in BOOLEAN
    BY <2>1 DEF AutopilotTypeOK, Copies
  <2>3. AutopilotTypeOK'
    BY <2>1, <2>2 DEF AutopilotTypeOK
  <2>4. shown'.rudder = shown.rudder /\ shown'.alarms = shown.alarms
    BY <2>1 DEF AutopilotTypeOK
  <2> QED
    BY <2>1, <2>3, <2>4
<1>3. CASE DecideIdle
  <2>1. /\ pc = "decide" /\ pc' = "sleep" /\ snap' = Absent
        /\ UNCHANGED <<enabled, mode, target, dodge, last_rudder, last_tick, sensor,
                       wound, plausibility, tick_counter, cause, shown,
                       registered, bearing, tripped, late>>
    BY <1>3 DEF DecideIdle, stateVars, managerVars, historyVars
  <2>2. AutopilotTypeOK'
    BY <2>1 DEF AutopilotTypeOK
  <2> QED
    BY <2>1, <2>2
<1>4. ASSUME NEW alarm \in Causes, pc = "decide", snap.enabled, Trip(alarm)
      PROVE  PilotInv'
  <2>1. /\ enabled' = FALSE /\ last_rudder' = 0 /\ last_tick' = Absent
        /\ wound' = FALSE /\ plausibility' = Unseen
        /\ pc' = "centre" /\ snap' = Absent /\ cause' = alarm /\ tripped' = TRUE
        /\ UNCHANGED <<mode, target, dodge, sensor, tick_counter, shown,
                       registered, bearing, late>>
    BY <1>4 DEF Trip, managerVars
  <2>2. Unseen \in [prev : Angles \cup {Absent}, count : 0..(GlitchMax - 1)]
    BY AutopilotAssumption DEF Unseen
  <2>3. alarm # Absent /\ 0 \in Rudders
    BY <1>4, AutopilotAssumption
  <2>4. AutopilotTypeOK'
    <3>1. /\ plausibility' \in [prev : Angles \cup {Absent}, count : 0..(GlitchMax - 1)]
          /\ (cause' # Absent) = (pc' \in {"centre", "alarm"})
      BY <2>1, <2>2, <2>3
    <3>2. /\ (snap' # Absent) = (pc' \in {"show", "decide", "steer"})
          /\ snap' \in Copies \cup {Absent}
      BY <2>1
    <3> QED
      BY <2>1, <2>3, <3>1, <3>2 DEF AutopilotTypeOK
  <2> QED
    BY <2>1, <2>4
<1>5. CASE DecideTimeout
  BY <1>4, <1>5 DEF DecideTimeout, Causes
<1>6. CASE DecideFailure
  BY <1>4, <1>6 DEF DecideFailure, Deciding, Causes
<1>7. CASE DecideNoTarget \/ DecideBlind
  <2>1. /\ pc = "decide" /\ pc' = "sleep" /\ snap' = Absent
        /\ wound' = WoundNow
        /\ \/ plausibility' = PlausibilityNow
           \/ HeadingAccepted /\ plausibility' = AfterCheck(PlausibilityNow, snap.heading)
        /\ UNCHANGED <<enabled, mode, target, dodge, last_rudder, last_tick, sensor,
                       tick_counter, cause, shown, registered, bearing, tripped, late>>
    BY <1>7 DEF DecideNoTarget, DecideBlind, Deciding, stateVars, managerVars, historyVars
  <2>2. plausibility' \in [prev : Angles \cup {Absent}, count : 0..(GlitchMax - 1)]
    BY <2>1, CheckType DEF AutopilotTypeOK
  <2>3. wound' \in BOOLEAN
    BY <2>1 DEF WoundNow, AutopilotTypeOK
  <2>4. AutopilotTypeOK'
    BY <2>1, <2>2, <2>3 DEF AutopilotTypeOK
  <2> QED
    BY <2>1, <2>4
<1>8. ASSUME NEW r \in Rudders, NEW winds \in BOOLEAN, DecideSteer(r, winds)
      PROVE  PilotInv'
  <2>1. /\ pc = "decide" /\ snap.enabled /\ last_rudder' = r /\ last_tick' = 0
        /\ wound' = (WoundNow \/ winds)
        /\ HeadingAccepted /\ plausibility' = AfterCheck(PlausibilityNow, snap.heading)
        /\ \/ pc' = "steer" /\ snap' = snap
           \/ pc' = "sleep" /\ snap' = Absent
        /\ UNCHANGED <<enabled, mode, target, dodge, sensor, tick_counter, cause,
                       shown, registered, bearing, tripped, late>>
    BY <1>8 DEF DecideSteer, Deciding, managerVars
  <2>2. plausibility' \in [prev : Angles \cup {Absent}, count : 0..(GlitchMax - 1)]
    BY <2>1, CheckType DEF AutopilotTypeOK
  <2>3. wound' \in BOOLEAN /\ last_tick' \in 0..MaxAge \cup {Absent}
    BY <2>1, AutopilotAssumption DEF WoundNow, AutopilotTypeOK
  <2>4. AutopilotTypeOK'
    BY <2>1, <2>2, <2>3 DEF AutopilotTypeOK
  <2> QED
    BY <2>1, <2>4 DEF AutopilotTypeOK
<1>9. CASE EmitRudder
  <2>1. /\ pc = "steer" /\ pc' = "sleep" /\ snap' = Absent
        /\ shown' = [shown EXCEPT !.rudder = last_rudder]
        /\ late' = IF enabled THEN 0 ELSE late + 1
        /\ UNCHANGED <<enabled, mode, target, dodge, last_rudder, last_tick, sensor,
                       wound, plausibility, tick_counter, cause, registered, bearing,
                       tripped>>
    BY <1>9 DEF EmitRudder, stateVars, managerVars
  <2>2. AutopilotTypeOK'
    BY <2>1 DEF AutopilotTypeOK
  <2> QED
    BY <2>1, <2>2 DEF AutopilotTypeOK
<1>10. CASE EmitCentre
  <2>1. /\ pc = "centre" /\ pc' = "alarm" /\ shown' = [shown EXCEPT !.rudder = 0]
        /\ UNCHANGED <<enabled, mode, target, dodge, last_rudder, last_tick, sensor,
                       wound, plausibility, tick_counter, snap, cause, registered,
                       bearing, tripped, late>>
    BY <1>10 DEF EmitCentre, stateVars, loopVars, managerVars, historyVars
  <2>2. AutopilotTypeOK' /\ shown'.rudder = 0
    BY <2>1, AutopilotAssumption DEF AutopilotTypeOK
  <2> QED
    BY <2>1, <2>2
<1>11. CASE EmitAlarm
  <2>1. /\ pc = "alarm" /\ pc' = "sleep" /\ snap' = Absent /\ cause' = Absent
        /\ shown' = [shown EXCEPT !.alarms = @ \cup {cause}]
        /\ UNCHANGED <<enabled, mode, target, dodge, last_rudder, last_tick, sensor,
                       wound, plausibility, tick_counter, registered, bearing,
                       tripped, late>>
    BY <1>11 DEF EmitAlarm, stateVars, managerVars, historyVars
  <2>2. cause \in Causes
    BY <2>1 DEF AutopilotTypeOK
  <2>3. /\ shown' \in [engaged : BOOLEAN, rudder : Rudders, alarms : SUBSET Causes]
        /\ shown'.rudder = shown.rudder /\ shown'.alarms # {}
    BY <2>1, <2>2 DEF AutopilotTypeOK
  <2>4. AutopilotTypeOK'
    BY <2>1, <2>3 DEF AutopilotTypeOK
  <2> QED
    BY <2>1, <2>3, <2>4
<1> QED
  BY <1>1, <1>2, <1>3, <1>5, <1>6, <1>7, <1>8, <1>9, <1>10, <1>11 DEF Loop

(* An API call leaves the loop alone; only engaging forgets a trip and a   *)
(* late command.                                                           *)
LEMMA CallStep ==
  ASSUME PilotInv,
         UNCHANGED <<sensor, wound, plausibility, tick_counter, snap, cause, pc,
                     shown, last_rudder>>,
         enabled' \in BOOLEAN, mode' \in Modes,
         target' \in Angles \cup {Absent}, dodge' \in Angles \cup {Absent},
         last_tick' \in {last_tick, Absent},
         registered' = registered, bearing' \in Angles \cup {Absent},
         \/ tripped' = FALSE /\ late' = 0
         \/ /\ tripped' = tripped /\ late' = late
            /\ enabled' => enabled
  PROVE  PilotInv'
<1>1. AutopilotTypeOK'
  BY DEF PilotInv, AutopilotTypeOK
<1>2. LateInv'
  BY DEF PilotInv, LateInv, Resting
<1>3. TripInv'
  <2>1. tripped' => tripped /\ ~enabled'
    BY DEF PilotInv, TripInv, Resting, AutopilotTypeOK
  <2>2. tripped' \in BOOLEAN
    BY DEF PilotInv, TripInv
  <2> QED
    BY <2>1, <2>2 DEF PilotInv, TripInv, TripIsShown, Resting
<1> QED
  BY <1>1, <1>2, <1>3 DEF PilotInv

LEMMA ApiStep ==
  ASSUME PilotInv, Api
  PROVE  PilotInv'
<1> USE DEF Rest, loopVars, managerVars, stateVars, historyVars, Engaged, Call
<1>0. AutopilotTypeOK /\ TargetAngles \subseteq Angles
  BY AutopilotAssumption DEF PilotInv
<1>1. /\ enabled \in BOOLEAN /\ mode \in Modes /\ target \in Angles \cup {Absent}
      /\ dodge \in Angles \cup {Absent} /\ bearing \in Angles \cup {Absent}
  BY <1>0 DEF AutopilotTypeOK
<1>2. CASE Engage
  BY <1>1, <1>2, CallStep DEF Engage
<1>3. CASE Disengage
  BY <1>1, <1>3, CallStep DEF Disengage
<1>4. CASE CourseCurrentPoint
  BY <1>1, <1>4, CallStep DEF CourseCurrentPoint, Modes
<1>5. CASE CourseNextPoint
  BY <1>1, <1>5, CallStep DEF CourseNextPoint, Modes
<1>6. ASSUME NEW m \in Modes, SetMode(m) PROVE PilotInv'
  BY <1>1, <1>6, CallStep DEF SetMode
<1>7. ASSUME NEW t \in TargetAngles, SetTarget(t) PROVE PilotInv'
  BY <1>0, <1>1, <1>7, CallStep DEF SetTarget
<1>8. ASSUME NEW t \in TargetAngles, AdjustTarget(t) PROVE PilotInv'
  <2>1. Wrap((IF target = Absent THEN 0 ELSE target) + t) \in Angles
    BY <1>0, <1>1, AngleFacts
  <2> QED
    BY <1>1, <1>8, <2>1, CallStep DEF AdjustTarget
<1>9. ASSUME NEW t \in TargetAngles \cup {Absent}, Dodge(t) PROVE PilotInv'
  BY <1>0, <1>1, <1>9, CallStep DEF Dodge
<1>10. ASSUME NEW t \in TargetAngles, ReadBearing(t) PROVE PilotInv'
  BY <1>0, <1>1, <1>10, CallStep DEF ReadBearing
<1>11. ASSUME NEW side \in {-1, 1}, Tack(side) PROVE PilotInv'
  <2> DEFINE current   == IF target = Absent THEN 0 ELSE target
             magnitude == IF current = 0 THEN 1 ELSE Dist(current)
  <2>1. current \in Angles
    BY <1>1, AngleFacts
  <2>2. magnitude \in Angles
    BY <2>1, AngleFacts
  <2>3. side * magnitude \in {magnitude, -magnitude}
    BY <2>2 DEF Angles
  <2>4. side * magnitude \in Angles
    BY <2>2, <2>3, AngleFacts
  <2> QED
    BY <1>1, <1>11, <2>4, CallStep DEF Tack
<1> QED
  BY <1>2, <1>3, <1>4, <1>5, <1>6, <1>7, <1>8, <1>9, <1>10, <1>11 DEF Api

LEMMA PilotStep ==
  ASSUME PilotInv, [AutopilotNext]_pilotVars
  PROVE  PilotInv'
<1>1. CASE StartPilot
  <2>1. /\ enabled' = FALSE /\ mode' = InitialMode /\ target' = Absent
        /\ dodge' = Absent /\ last_rudder' = 0 /\ last_tick' = Absent
        /\ sensor' = [s \in Sensors |-> Absent]
        /\ wound' = FALSE /\ plausibility' = Unseen /\ pc' = "sleep"
        /\ tick_counter' = 0 /\ snap' = Absent /\ cause' = Absent
        /\ registered' = TRUE /\ tripped' = FALSE /\ late' = 0
        /\ UNCHANGED <<shown, bearing>>
    BY <1>1 DEF StartPilot
  <2>2. Unseen \in [prev : Angles \cup {Absent}, count : 0..(GlitchMax - 1)]
    BY AutopilotAssumption DEF Unseen
  <2>3. [s \in Sensors |-> Absent] \in [Sensors -> Reading \cup {Absent}]
    OBVIOUS
  <2>4. 0 \in Rudders /\ 0 \in 0..(OutputEvery - 1) /\ InitialMode \in Modes
    BY AutopilotAssumption
  <2>5. AutopilotTypeOK'
    <3>1. /\ plausibility' \in [prev : Angles \cup {Absent}, count : 0..(GlitchMax - 1)]
          /\ sensor' \in [Sensors -> Reading \cup {Absent}]
      BY <2>1, <2>2, <2>3
    <3>2. /\ (snap' # Absent) = (pc' \in {"show", "decide", "steer"})
          /\ snap' \in Copies \cup {Absent}
          /\ (cause' # Absent) = (pc' \in {"centre", "alarm"})
      BY <2>1
    <3> QED
      BY <2>1, <2>4, <3>1, <3>2 DEF PilotInv, AutopilotTypeOK
  <2> QED
    BY <2>1, <2>5 DEF PilotInv, LateInv, TripInv, TripIsShown, Resting
<1>2. CASE StopPilot
  <2>1. /\ pc' = "off" /\ snap' = Absent /\ cause' = Absent
        /\ UNCHANGED <<enabled, mode, target, dodge, last_rudder, last_tick, sensor,
                       wound, plausibility, tick_counter, shown, registered, bearing,
                       tripped, late>>
    BY <1>2 DEF StopPilot, stateVars, managerVars, historyVars
  <2>2. AutopilotTypeOK'
    BY <2>1 DEF PilotInv, AutopilotTypeOK
  <2> QED
    BY <2>1, <2>2 DEF PilotInv, LateInv, TripInv, TripIsShown, Resting
<1>3. CASE Pass
  <2>1. /\ sensor' = [s \in Sensors |-> IF sensor[s] = Absent THEN Absent
                        ELSE [sensor[s] EXCEPT !.age = Later(@)]]
        /\ last_tick' = Later(last_tick)
        /\ snap' = IF snap = Absent THEN Absent ELSE [snap EXCEPT !.last_tick = Later(@)]
        /\ pc' = IF pc = "sleep" THEN "due" ELSE pc
        /\ UNCHANGED <<enabled, mode, target, dodge, last_rudder, wound,
                       plausibility, tick_counter, cause, shown, registered, bearing,
                       tripped, late>>
    BY <1>3 DEF Pass, managerVars, historyVars
  <2>2. sensor' \in [Sensors -> Reading \cup {Absent}]
    <3>1. ASSUME NEW x \in Reading
          PROVE  [x EXCEPT !.age = Later(@)] \in Reading
      <4>1. Later(x.age) \in 0..MaxAge
        BY AutopilotAssumption DEF Reading, Later
      <4> QED
        BY <4>1 DEF Reading
    <3> QED
      BY <2>1, <3>1 DEF PilotInv, AutopilotTypeOK
  <2>3. last_tick' \in 0..MaxAge \cup {Absent}
    BY <2>1, LaterType DEF PilotInv, AutopilotTypeOK
  <2>4. ASSUME snap \in Copies
        PROVE  /\ [snap EXCEPT !.last_tick = Later(@)] \in Copies
               /\ [snap EXCEPT !.last_tick = Later(@)].enabled = snap.enabled
    <3>1. Later(snap.last_tick) \in 0..MaxAge \cup {Absent}
      BY <2>4, LaterType DEF Copies
    <3> QED
      BY <2>4, <3>1 DEF Copies
  <2>5. /\ snap' \in Copies \cup {Absent}
        /\ (snap' # Absent) = (snap # Absent)
        /\ snap' # Absent => snap'.enabled = snap.enabled
    BY <2>1, <2>4, AutopilotAssumption DEF PilotInv, AutopilotTypeOK
  <2>6. AutopilotTypeOK'
    BY <2>1, <2>2, <2>3, <2>5 DEF PilotInv, AutopilotTypeOK
  <2> QED
    BY <2>1, <2>5, <2>6 DEF PilotInv, LateInv, TripInv, TripIsShown, Resting
<1>4. CASE Loop
  BY <1>4, LoopStep
<1>5. CASE Api
  BY <1>5, ApiStep
<1>6. ASSUME NEW s \in Aboard, NEW v \in Sensed(s), Sense(s, v) PROVE PilotInv'
  <2>1. /\ sensor' = [sensor EXCEPT ![s] = [value |-> v, age |-> 0]]
        /\ UNCHANGED <<enabled, mode, target, dodge, last_rudder, last_tick, wound,
                       plausibility, tick_counter, snap, cause, pc, shown,
                       registered, bearing, tripped, late>>
    BY <1>6 DEF Sense, stateVars, loopVars, managerVars, historyVars
  <2>2. v \in Angles
    BY AutopilotAssumption, AngleFacts DEF Sensed
  <2>3. [value |-> v, age |-> 0] \in Reading
    BY <2>2, AutopilotAssumption DEF Reading
  <2>4. sensor' \in [Sensors -> Reading \cup {Absent}]
    BY <2>1, <2>3 DEF PilotInv, AutopilotTypeOK
  <2>5. AutopilotTypeOK'
    BY <2>1, <2>4 DEF PilotInv, AutopilotTypeOK
  <2> QED
    BY <2>1, <2>5 DEF PilotInv, LateInv, TripInv, TripIsShown, Resting
<1>7. CASE UNCHANGED pilotVars
  BY <1>7 DEF pilotVars, stateVars, loopVars, managerVars, historyVars, PilotInv,
       AutopilotTypeOK, LateInv, TripInv, TripIsShown, Resting
<1> QED
  BY <1>1, <1>2, <1>3, <1>4, <1>5, <1>6, <1>7 DEF AutopilotNext

(* A pilot that is off, by request or by its own decision, sends at most   *)
(* the one command of the tick that was running; after a trip it has       *)
(* centred the rudder and raised the alarm, whatever the API and the       *)
(* sensors did between the steps of the tick.                              *)
THEOREM OffStaysOff == AutopilotSpec => []OffIsOff
<1>1. AutopilotInit => PilotInv
  <2>1. Unseen \in [prev : Angles \cup {Absent}, count : 0..(GlitchMax - 1)]
    BY AutopilotAssumption DEF Unseen
  <2>2. [s \in Sensors |-> Absent] \in [Sensors -> Reading \cup {Absent}]
    OBVIOUS
  <2>3. /\ 0 \in Rudders /\ 0 \in 0..(OutputEvery - 1)
        /\ InitialMode \in Modes
        /\ [engaged |-> FALSE, rudder |-> 0, alarms |-> {}]
             \in [engaged : BOOLEAN, rudder : Rudders, alarms : SUBSET Causes]
    BY AutopilotAssumption
  <2>4. ASSUME AutopilotInit PROVE AutopilotTypeOK
    <3>1. /\ plausibility \in [prev : Angles \cup {Absent}, count : 0..(GlitchMax - 1)]
          /\ sensor \in [Sensors -> Reading \cup {Absent}]
          /\ shown \in [engaged : BOOLEAN, rudder : Rudders, alarms : SUBSET Causes]
      BY <2>1, <2>2, <2>3, <2>4 DEF AutopilotInit
    <3>2. /\ (snap # Absent) = (pc \in {"show", "decide", "steer"})
          /\ snap \in Copies \cup {Absent}
          /\ (cause # Absent) = (pc \in {"centre", "alarm"})
      BY <2>4 DEF AutopilotInit
    <3> QED
      BY <2>3, <2>4, <3>1, <3>2 DEF AutopilotInit, AutopilotTypeOK
  <2> QED
    BY <2>4
       DEF AutopilotInit, PilotInv, AutopilotTypeOK, LateInv, TripInv, TripIsShown, Resting
<1>2. PilotInv /\ [AutopilotNext]_pilotVars => PilotInv'
  BY PilotStep
<1>3. PilotInv => OffIsOff
  BY DEF PilotInv, OffIsOff, LateInv, TripInv, AtMostOneLateCommand
<1> QED
  BY <1>1, <1>2, <1>3, PTL DEF AutopilotSpec

-----------------------------------------------------------------------------
(* The numeric controllers.                                                *)

(* A recovery still has the ticks left that it has not used up.            *)
RecoveryInv ==
  /\ RecoveryThreshold = 0 => ~recovery.active
  /\ recovery.active => recovery.left > 0 /\ recovering_for + recovery.left <= RecoveryTicks
  /\ ~recovery.active => recovering_for = 0

(* The monitor counts every mismatch it is shown, and while its alarm is   *)
(* on the store shows it.                                                  *)
FeedbackInv ==
  FeedbackThreshold > 0 =>
    /\ misses_for = feedback.misses
    /\ feedback.misses > 0 /\ feedback.misses >= FeedbackTicks => feedback.alarm
    /\ feedback.alarm => failure_shown = "alarm"

ControlInv == ControlTypeOK /\ RudderInRange /\ RecoveryInv /\ FeedbackInv

LEMMA ProductType == \A a, b \in Int : a * b \in Int
OBVIOUS

LEMMA TowardsZeroType ==
  ASSUME NEW x \in Int
  PROVE  TowardsZero(x, 100) \in Int
BY DEF TowardsZero

(* Decay brings the integral nearer to zero.                               *)
LEMMA DecayShrinks ==
  ASSUME NEW limit \in Nat, NEW i \in -limit..limit
  PROVE  TowardsZero(95 * i, 100) \in -limit..limit
<1>1. CASE i < 0
  <2>1. 0 <= (-(95 * i)) \div 100 /\ (-(95 * i)) \div 100 <= -i
    BY <1>1
  <2> QED
    BY <1>1, <2>1 DEF TowardsZero
<1>2. CASE i >= 0
  <2>1. 0 <= (95 * i) \div 100 /\ (95 * i) \div 100 <= i
    BY <1>2
  <2> QED
    BY <1>2, <2>1 DEF TowardsZero
<1> QED
  BY <1>1, <1>2

LEMMA NormalizeType ==
  ASSUME NEW a \in Int
  PROVE  Normalize(a) \in Int
<1>1. a % (2 * Half) \in Int
  BY ControlAssumption
<1> QED
  BY <1>1, ControlAssumption DEF Normalize

GainTriples == [p : Int, i : Int, d : Int]

LEMMA ScaledGains ==
  ASSUME NEW speed \in Nat, NEW r, r.active \in BOOLEAN
  PROVE  RecoveryApply(r, ScaleGains(Gains, speed)) \in GainTriples
<1>1. Gains \in GainTriples /\ Gains.p \in Nat /\ Gains.i \in Nat /\ Gains.d \in Nat
  BY ControlAssumption DEF GainTriples
<1>2. ScaleGains(Gains, speed) \in GainTriples
  <2>1. CASE SpeedNominal = 0 \/ speed = 0
    BY <1>1, <2>1 DEF ScaleGains
  <2>2. CASE ~(SpeedNominal = 0 \/ speed = 0)
    <3> DEFINE ratio == Clamp((100 * speed) \div SpeedNominal, 30, 300)
    <3>1. (100 * speed) \div SpeedNominal \in Int
      BY <2>2, ControlAssumption
    <3>2. ratio \in 30..300
      BY <3>1 DEF Clamp
    <3> HIDE DEF ratio
    <3>3. Gains.p * ratio \in Int /\ Gains.i * ratio \in Int
      BY <1>1, <3>2, ProductType
    <3>4. /\ (Gains.p * ratio) \div 100 \in Int /\ (Gains.i * ratio) \div 100 \in Int
          /\ (Gains.d * 100) \div ratio \in Int
      BY <1>1, <3>2, <3>3
    <3>5. ScaleGains(Gains, speed) =
            [p |-> (Gains.p * ratio) \div 100, i |-> (Gains.i * ratio) \div 100,
             d |-> (Gains.d * 100) \div ratio]
      BY <2>2 DEF ScaleGains, ratio
    <3> QED
      BY <3>4, <3>5 DEF GainTriples
  <2> QED
    BY <2>1, <2>2
<1> QED
  BY <1>2, ProductType, ControlAssumption DEF RecoveryApply, GainTriples

(* Whatever the gains, the integral stays within its limit and the output  *)
(* is a number.                                                            *)
LEMMA PidBounded ==
  ASSUME NEW i \in -IntegralLimit..IntegralLimit, NEW error \in Int, NEW d \in Int,
         NEW dt \in Nat, NEW g \in GainTriples
  PROVE  /\ PidCompute(i, error, d, dt, g).integral \in -IntegralLimit..IntegralLimit
         /\ PidCompute(i, error, d, dt, g).out \in -MaxRudder..MaxRudder
<1> DEFINE pd    == g.p * error + g.d * d
           grows == \/ Magnitude(pd + g.i * i) < 100 * MaxRudder
                    \/ Signum(error) # Signum(i)
           i2    == IF grows
                    THEN Clamp(i + error * dt, -IntegralLimit, IntegralLimit) ELSE i
           out   == Clamp(TowardsZero(pd + g.i * i2, 100), -MaxRudder, MaxRudder)
<1>1. IntegralLimit \in Nat /\ MaxRudder \in Nat
  BY ControlAssumption
<1>2. i2 \in -IntegralLimit..IntegralLimit
  <2>1. i + error * dt \in Int
    BY <1>1, ProductType
  <2> DEFINE moved == i + error * dt
  <2> HIDE DEF moved
  <2>2. Clamp(moved, -IntegralLimit, IntegralLimit) \in -IntegralLimit..IntegralLimit
    BY <1>1, <2>1 DEF Clamp, moved
  <2> QED
    BY <2>2 DEF moved
<1>3. pd + g.i * i2 \in Int
  <2>1. g.p * error \in Int /\ g.d * d \in Int /\ g.i * i2 \in Int
    BY <1>1, <1>2, ProductType DEF GainTriples
  <2> QED
    BY <2>1
<1>4. out \in -MaxRudder..MaxRudder
  <2> DEFINE wanted == TowardsZero(pd + g.i * i2, 100)
  <2>1. wanted \in Int
    BY <1>3, TowardsZeroType
  <2> HIDE DEF wanted
  <2>2. Clamp(wanted, -MaxRudder, MaxRudder) \in -MaxRudder..MaxRudder
    BY <1>1, <2>1 DEF Clamp
  <2> QED
    BY <2>2 DEF wanted
<1>5. TowardsZero(95 * i, 100) \in -IntegralLimit..IntegralLimit
  BY <1>1, DecayShrinks
<1>6. PidCompute(i, error, d, dt, g) =
        IF Magnitude(error) < DeadZone
        THEN [integral |-> TowardsZero(95 * i, 100), out |-> 0]
        ELSE [integral |-> i2, out |-> out]
  BY DEF PidCompute
<1> HIDE DEF i2, out
<1> QED
  BY <1>1, <1>2, <1>4, <1>5, <1>6

(* From a rudder in its range towards a command in its range the limiter   *)
(* never leaves it.                                                        *)
LEMMA LimitedInRange ==
  ASSUME NEW current \in -MaxRudder..MaxRudder, NEW goal \in -MaxRudder..MaxRudder,
         NEW dt \in Nat
  PROVE  RateLimit(current, goal, dt) \in -MaxRudder..MaxRudder
<1>1. MaxRudder \in Nat /\ MaxRate * dt \in Nat
  BY ControlAssumption
<1> DEFINE step == MaxRate * dt
<1> HIDE DEF step
<1>2. current + Clamp(goal - current, -step, step) \in -MaxRudder..MaxRudder
  BY <1>1 DEF Clamp, step
<1> QED
  BY <1>2 DEF RateLimit, step

LEMMA RecoveryStep ==
  ASSUME ControlInv, NEW error \in Int,
         recovery' = RecoveryUpdate(recovery, error),
         recovering_for' = IF recovery'.active THEN recovering_for + 1 ELSE 0
  PROVE  /\ RecoveryInv'
         /\ recovery' \in [active : BOOLEAN, left : 0..RecoveryTicks]
         /\ recovering_for' \in Nat
<1> DEFINE begins == ~recovery.active /\ Magnitude(error) > RecoveryThreshold
           left   == IF begins THEN RecoveryTicks ELSE recovery.left
           ticked == IF left = 0 THEN 0 ELSE left - 1
           lasts  == ticked # 0 /\ 10 * Magnitude(error) >= 3 * RecoveryThreshold
<1>1. /\ recovery.active \in BOOLEAN /\ recovery.left \in 0..RecoveryTicks
      /\ recovery \in [active : BOOLEAN, left : 0..RecoveryTicks]
      /\ recovering_for \in Nat /\ RecoveryTicks \in Nat
  BY ControlAssumption DEF ControlInv, ControlTypeOK
<1>2. CASE RecoveryThreshold = 0 \/ ~(recovery.active \/ begins)
  <2>1. recovery' = recovery /\ ~recovery.active
    BY <1>2 DEF RecoveryUpdate, ControlInv, RecoveryInv
  <2> QED
    BY <1>1, <2>1 DEF RecoveryInv
<1>3. CASE ~(RecoveryThreshold = 0 \/ ~(recovery.active \/ begins))
  <2>1. recovery' = [active |-> lasts, left |-> ticked]
    BY <1>3 DEF RecoveryUpdate
  <2>2. ticked \in 0..RecoveryTicks /\ lasts \in BOOLEAN
    BY <1>1
  <2>3. ASSUME lasts
        PROVE  ticked > 0 /\ recovering_for + 1 + ticked <= RecoveryTicks
    <3>1. CASE begins
      BY <1>1, <2>3, <3>1 DEF ControlInv, RecoveryInv
    <3>2. CASE ~begins
      BY <1>1, <1>3, <2>3, <3>2 DEF ControlInv, RecoveryInv
    <3> QED
      BY <3>1, <3>2
  <2> HIDE DEF lasts, ticked
  <2> QED
    BY <1>1, <1>3, <2>1, <2>2, <2>3 DEF RecoveryInv
<1> QED
  BY <1>2, <1>3

LEMMA FeedbackStep ==
  ASSUME ControlInv, NEW command \in Int, NEW actual \in Int \cup {NoReading},
         feedback' = FeedbackUpdate(feedback, command, actual),
         feedback'.misses <= FeedbackTicks + 1,
         ReportFeedback(feedback'),
         misses_for' = IF actual = NoReading THEN misses_for
                       ELSE IF Mismatch(command, actual) THEN misses_for + 1 ELSE 0
  PROVE  /\ FeedbackInv'
         /\ feedback' \in [misses : 0..(FeedbackTicks + 1), alarm : BOOLEAN]
         /\ failure_shown' \in {"none", "alarm", "normal"}
         /\ misses_for' \in Nat
<1>1. /\ feedback \in [misses : 0..(FeedbackTicks + 1), alarm : BOOLEAN]
      /\ failure_shown \in {"none", "alarm", "normal"} /\ misses_for \in Nat
      /\ FeedbackTicks \in Nat
  BY ControlAssumption DEF ControlInv, ControlTypeOK
<1>2. failure_shown' \in {"none", "alarm", "normal"} /\ misses_for' \in Nat
  BY <1>1 DEF ReportFeedback
<1>3. CASE FeedbackThreshold = 0 \/ actual = NoReading
  <2>1. feedback' = feedback /\ failure_shown' = failure_shown
    BY <1>1, <1>3 DEF FeedbackUpdate, ReportFeedback
  <2> QED
    BY <1>1, <1>2, <1>3, <2>1 DEF ControlInv, FeedbackInv
<1>4. CASE FeedbackThreshold # 0 /\ actual # NoReading /\ Mismatch(command, actual)
  <2> DEFINE rings == feedback.alarm \/ feedback.misses + 1 >= FeedbackTicks
  <2>1. feedback' = [misses |-> feedback.misses + 1, alarm |-> rings]
    BY <1>4 DEF FeedbackUpdate
  <2>2. rings \in BOOLEAN
    BY <1>1
  <2>3. feedback'.misses = feedback.misses + 1 /\ feedback'.alarm = rings
    BY <2>1
  <2>4. misses_for' = misses_for + 1
    BY <1>4
  <2>5. feedback.misses + 1 \in 0..(FeedbackTicks + 1)
    BY <1>1, <2>3
  <2>6. FeedbackThreshold > 0 => misses_for = feedback.misses
                                 /\ (feedback.alarm => failure_shown = "alarm")
    BY DEF ControlInv, FeedbackInv
  <2>7. rings /\ FeedbackThreshold > 0 => failure_shown' = "alarm"
    BY <2>2, <2>3, <2>6 DEF ReportFeedback
  <2>8. feedback.misses + 1 >= FeedbackTicks => rings
    OBVIOUS
  <2> HIDE DEF rings
  <2>9. FeedbackInv'
    BY <1>1, <2>3, <2>4, <2>6, <2>7, <2>8 DEF FeedbackInv
  <2> QED
    BY <1>2, <2>1, <2>2, <2>5, <2>9
<1>5. CASE FeedbackThreshold # 0 /\ actual # NoReading /\ ~Mismatch(command, actual)
  <2>1. feedback' = NoFeedback /\ misses_for' = 0
    BY <1>5 DEF FeedbackUpdate
  <2> QED
    BY <1>1, <1>2, <2>1 DEF NoFeedback, FeedbackInv
<1> QED
  BY <1>3, <1>4, <1>5

LEMMA ControlStep ==
  ASSUME ControlInv, [ControlNext]_controlVars
  PROVE  ControlInv'
<1>1. ASSUME NEW error \in Errors, NEW d \in DErrors, NEW speed \in Speeds,
             NEW ff \in FeedForwards, NEW actual \in Actuals, NEW dt \in Steps,
             Steer(Normalize(error), d, speed, ff, actual, dt)
      PROVE  ControlInv'
  <2> DEFINE err == Normalize(error)
             r2  == RecoveryUpdate(recovery, err)
             g   == RecoveryApply(r2, ScaleGains(Gains, speed))
             pid == PidCompute(integral, err, d, dt, g)
             goal == Command(pid.out, ff)
             cmd == RateLimit(rudder, goal, dt)
             f2  == FeedbackUpdate(feedback, cmd, actual)
  <2>1. /\ f2.misses <= FeedbackTicks + 1
        /\ recovery' = r2 /\ integral' = pid.integral /\ rudder' = cmd /\ feedback' = f2
        /\ ReportFeedback(f2)
        /\ recovering_for' = IF r2.active THEN recovering_for + 1 ELSE 0
        /\ misses_for' = IF actual = NoReading THEN misses_for
                         ELSE IF Mismatch(cmd, actual) THEN misses_for + 1 ELSE 0
    BY <1>1 DEF Steer
  <2>2. /\ error \in Int /\ d \in Int /\ speed \in Nat /\ ff \in Int
        /\ actual \in Int \cup {NoReading} /\ dt \in Nat /\ MaxRudder \in Nat
        /\ integral \in -IntegralLimit..IntegralLimit
        /\ rudder \in -MaxRudder..MaxRudder
    BY ControlAssumption DEF ControlInv, ControlTypeOK, RudderInRange
  <2>3. err \in Int
    BY <2>2, NormalizeType
  <2> HIDE DEF err
  <2>4. /\ RecoveryInv' /\ r2 \in [active : BOOLEAN, left : 0..RecoveryTicks]
        /\ recovering_for' \in Nat
    BY <2>1, <2>3, RecoveryStep
  <2> HIDE DEF r2
  <2>5. g \in GainTriples
    BY <2>2, <2>4, ScaledGains
  <2> HIDE DEF g
  <2>6. /\ pid.integral \in -IntegralLimit..IntegralLimit
        /\ pid.out \in -MaxRudder..MaxRudder
    BY <2>2, <2>3, <2>5, PidBounded
  <2> HIDE DEF pid
  <2>7. goal \in -MaxRudder..MaxRudder
    BY <2>2, <2>6 DEF Command, Clamp
  <2> HIDE DEF goal
  <2>8. cmd \in -MaxRudder..MaxRudder /\ cmd \in Int
    BY <2>2, <2>7, LimitedInRange
  <2> HIDE DEF cmd
  <2>9. /\ FeedbackInv'
        /\ feedback' \in [misses : 0..(FeedbackTicks + 1), alarm : BOOLEAN]
        /\ failure_shown' \in {"none", "alarm", "normal"} /\ misses_for' \in Nat
    BY <2>1, <2>2, <2>8, FeedbackStep
  <2> HIDE DEF f2
  <2> QED
    BY <2>1, <2>4, <2>6, <2>8, <2>9 DEF ControlInv, ControlTypeOK, RudderInRange
<1>2. ASSUME ResetControllers, rudder' \in {rudder, 0}, UNCHANGED failure_shown
      PROVE  ControlInv'
  <2>1. MaxRudder \in Nat /\ RecoveryTicks \in Nat /\ FeedbackTicks \in Nat
        /\ IntegralLimit \in Nat
    BY ControlAssumption
  <2>2. /\ integral' = 0 /\ recovery' = [active |-> FALSE, left |-> 0]
        /\ feedback' = [misses |-> 0, alarm |-> FALSE]
        /\ recovering_for' = 0 /\ misses_for' = 0
    BY <1>2 DEF ResetControllers, NotRecovering, NoFeedback
  <2>3. ControlTypeOK' /\ RudderInRange'
    BY <1>2, <2>1, <2>2 DEF ControlInv, ControlTypeOK, RudderInRange
  <2>4. RecoveryInv' /\ FeedbackInv'
    BY <2>1, <2>2 DEF RecoveryInv, FeedbackInv
  <2> QED
    BY <2>3, <2>4 DEF ControlInv
<1>3. CASE ModeChange
  BY <1>2, <1>3 DEF ModeChange
<1>4. CASE TripControl
  BY <1>2, <1>4 DEF TripControl
<1>5. CASE UNCHANGED controlVars
  BY <1>5 DEF controlVars, ControlInv, ControlTypeOK, RudderInRange, RecoveryInv, FeedbackInv
<1> QED
  BY <1>1, <1>3, <1>4, <1>5 DEF ControlNext

(* For all gains, limits, speeds and sensor inputs: the rudder command     *)
(* stays in its range, recovery ends within its ticks, and a rudder that   *)
(* does not follow for the configured number of samples is in the store.   *)
THEOREM ControlStaysBounded == ControlSpec => []ControlBounded
<1>1. ControlInit => ControlInv
  BY ControlAssumption
     DEF ControlInit, NotRecovering, NoFeedback, ControlInv, ControlTypeOK,
         RudderInRange, RecoveryInv, FeedbackInv
<1>2. ControlInv /\ [ControlNext]_controlVars => ControlInv'
  BY ControlStep
<1>3. ControlInv => ControlBounded
  <2>1. ControlInv => RecoveryRests
    BY ControlAssumption DEF ControlInv, ControlTypeOK, RecoveryInv, RecoveryRests
  <2>2. ControlInv => PersistentMismatchIsShown
    BY ControlAssumption
       DEF ControlInv, ControlTypeOK, FeedbackInv, PersistentMismatchIsShown
  <2> QED
    BY <2>1, <2>2 DEF ControlInv, ControlBounded
<1> QED
  BY <1>1, <1>2, <1>3, PTL DEF ControlSpec

-----------------------------------------------------------------------------
(* The anchor alarm.                                                       *)

States == {"alarm", "normal"}

(* Taking one of the notifications leaves a shorter list; when it was not  *)
(* the only one and the first, the last one stays the last.                *)
LEMMA TakeOne ==
  ASSUME NEW e \in Seq(States), NEW i \in 1..Len(e)
  PROVE  /\ RemoveAt(e, i) \in Seq(States)
         /\ Len(RemoveAt(e, i)) = Len(e) - 1
         /\ i = 1 /\ Len(e) > 1 =>
              RemoveAt(e, i)[Len(e) - 1] = e[Len(e)]
<1> DEFINE head == SubSeq(e, 1, i - 1)
           tail == SubSeq(e, i + 1, Len(e))
<1>1. Len(e) \in Nat /\ \A j \in 1..Len(e) : e[j] \in States
  OBVIOUS
<1>2. /\ head \in Seq(States) /\ Len(head) = i - 1
  BY <1>1, SubSeqProperties
<1>3. /\ tail \in Seq(States) /\ Len(tail) = Len(e) - i
      /\ \A j \in 1..Len(e) - i : tail[j] = e[i + j]
  BY <1>1, SubSeqProperties
<1>4. RemoveAt(e, i) = head \o tail
  BY DEF RemoveAt
<1> HIDE DEF head, tail
<1>5. /\ head \o tail \in Seq(States) /\ Len(head \o tail) = Len(head) + Len(tail)
      /\ \A j \in 1..Len(head) + Len(tail) :
           (head \o tail)[j] = IF j <= Len(head) THEN head[j] ELSE tail[j - Len(head)]
  BY <1>2, <1>3, ConcatProperties
<1>6. ASSUME i = 1, Len(e) > 1 PROVE (head \o tail)[Len(e) - 1] = e[Len(e)]
  <2>1. (head \o tail)[Len(e) - 1] = tail[Len(e) - 1]
    BY <1>1, <1>2, <1>3, <1>5, <1>6
  <2> QED
    BY <1>1, <1>3, <1>6, <2>1
<1> QED
  BY <1>1, <1>2, <1>3, <1>4, <1>5, <1>6

(* What the store will show once the tasks are through, if none overtakes. *)
Latest == IF emitting = <<>> THEN anchorShown ELSE emitting[Len(emitting)]

(* The flag of the running plugin is what its last position says, and, as  *)
(* long as no task overtook another one, what the store will show.         *)
FlagInv ==
  radius # Unheard =>
    /\ alarming = (fix # Unheard /\ Outside(fix))
    /\ ~overtaken /\ alarming => Latest = "alarm"
    /\ ~overtaken /\ ~alarming /\ ~inherited => Latest # "alarm"

AnchorInv == AnchorTypeOK /\ FlagInv

LEMMA AnchorStep ==
  ASSUME AnchorInv, [AnchorNext]_anchorVars
  PROVE  AnchorInv'
<1> USE AnchorAssumption DEF AnchorInv, AnchorTypeOK, FlagInv
<1>1. ASSUME NEW r \in Radii, AnchorStart(r) PROVE AnchorInv'
  <2>1. AnchorTypeOK'
    BY <1>1 DEF AnchorStart
  <2>2. ~inherited' => Latest' # "alarm"
    BY <1>1 DEF AnchorStart, Latest
  <2> QED
    BY <1>1, <2>1, <2>2 DEF AnchorStart
<1>2. CASE AnchorStop
  BY <1>2 DEF AnchorStop
<1>3. ASSUME NEW d \in Distances, Fix(d) PROVE AnchorInv'
  <2>1. /\ radius # Unheard /\ fix' = d /\ d # Unheard /\ radius' = radius
        /\ UNCHANGED <<anchorShown, overtaken>>
    BY <1>3 DEF Fix
  <2>2. Outside(d)' <=> Outside(d)
    BY <2>1 DEF Outside
  <2>3. CASE Crossed(d)
    <3> DEFINE e == IF alarming' THEN "alarm" ELSE "normal"
    <3>1. /\ alarming' = ~alarming /\ inherited' = FALSE
          /\ emitting' = Append(emitting, e)
      BY <1>3, <2>3 DEF Fix
    <3>2. e \in States
      BY DEF States
    <3> HIDE DEF e
    <3>3. /\ emitting' \in Seq(States) /\ Len(emitting') = Len(emitting) + 1
          /\ emitting'[Len(emitting) + 1] = e
      BY <3>1, <3>2, AppendProperties DEF States
    <3>4. Latest' = e
      BY <3>3 DEF Latest
    <3>5. alarming' = Outside(d)
      BY <2>3, <3>1 DEF Crossed, Outside
    <3> QED
      BY <2>1, <2>2, <3>1, <3>3, <3>4, <3>5 DEF e, States, Outside
  <2>4. CASE ~Crossed(d)
    <3>1. UNCHANGED <<alarming, emitting, inherited>>
      BY <1>3, <2>4 DEF Fix
    <3>2. alarming = Outside(d)
      BY <2>4 DEF Crossed, Outside
    <3>3. Latest' = Latest
      BY <2>1, <3>1 DEF Latest
    <3> QED
      BY <2>1, <2>2, <3>1, <3>2, <3>3 DEF Outside
  <2> QED
    BY <2>3, <2>4
<1>4. ASSUME NEW i \in 1..MaxFixes, Raise(i) PROVE AnchorInv'
  <2>1. /\ i \in 1..Len(emitting) /\ emitting \in Seq(States)
        /\ anchorShown' = emitting[i] /\ emitting' = RemoveAt(emitting, i)
        /\ overtaken' = (overtaken \/ i # 1)
        /\ UNCHANGED <<radius, alarming, fix, inherited>>
    BY <1>4 DEF Raise, States
  <2>2. /\ emitting' \in Seq(States) /\ Len(emitting') = Len(emitting) - 1
        /\ i = 1 /\ Len(emitting) > 1 =>
             emitting'[Len(emitting) - 1] = emitting[Len(emitting)]
    BY <2>1, TakeOne
  <2>3. AnchorTypeOK'
    BY <2>1, <2>2 DEF States
  <2>4. ASSUME i = 1 PROVE Latest' = Latest
    <3>1. CASE Len(emitting) = 1
      <4>1. emitting' = <<>> /\ emitting # <<>>
        BY <2>1, <2>2, <3>1, EmptySeq
      <4> QED
        BY <2>1, <2>4, <3>1, <4>1 DEF Latest
    <3>2. CASE Len(emitting) > 1
      <4>1. emitting' # <<>> /\ emitting # <<>>
        BY <2>2, <3>2
      <4> QED
        BY <2>2, <2>4, <3>2, <4>1 DEF Latest
    <3>3. Len(emitting) = 1 \/ Len(emitting) > 1
      <4>1. Len(emitting) \in Nat
        BY <2>1
      <4>2. Len(emitting) # 0
        BY <2>1
      <4> QED
        BY <4>1, <4>2, \A n \in Nat : n # 0 => n = 1 \/ n > 1
    <3> QED
      BY <3>1, <3>2, <3>3
  <2>5. Outside(fix)' <=> Outside(fix)
    BY <2>1 DEF Outside
  <2> QED
    BY <2>1, <2>3, <2>4, <2>5
<1>5. CASE UNCHANGED anchorVars
  BY <1>5 DEF anchorVars, Latest, Outside
<1> QED
  BY <1>1, <1>2, <1>3, <1>4, <1>5 DEF AnchorNext

(* For any circle and any positions: once the tasks are through, and       *)
(* unless one overtook another, the store shows the alarm exactly when the *)
(* last position was outside.                                              *)
THEOREM AnchorAlwaysShown == AnchorSpec => []AnchorCorrect
<1>1. AnchorInit => AnchorInv
  <2>1. AnchorInit => AnchorTypeOK
    <3>1. <<>> \in Seq({"alarm", "normal"})
      OBVIOUS
    <3> QED
      BY <3>1 DEF AnchorInit, AnchorTypeOK
  <2>2. AnchorInit => FlagInv
    BY DEF AnchorInit, FlagInv
  <2> QED
    BY <2>1, <2>2 DEF AnchorInv
<1>2. AnchorInv /\ [AnchorNext]_anchorVars => AnchorInv'
  BY AnchorStep
<1>3. AnchorInv => AnchorCorrect
  BY DEF AnchorInv, FlagInv, Latest, AnchorCorrect, AnchorTypeOK, AnchorIsShown, Outside
<1> QED
  BY <1>1, <1>2, <1>3, PTL DEF AnchorSpec
=============================================================================
