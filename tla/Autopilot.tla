------------------------------ MODULE Autopilot -----------------------------
(***************************************************************************)
(* The autopilot plugin, crates/plugins/autopilot/src, and the server's    *)
(* autopilot manager and V2 API in front of it.                            *)
(*                                                                         *)
(* The plugin's state sits behind a RwLock shared by the control loop, the *)
(* sensor callback and the provider the API calls.  A tick of the loop     *)
(* copies the state under the read lock, awaits the store, decides on the  *)
(* copy and takes the write lock for the outcome: each piece between two   *)
(* awaits is a step here, and API requests run in between.  What the       *)
(* numeric controllers compute is PilotControl's business: a tick picks    *)
(* any rudder the limits allow.                                            *)
(***************************************************************************)
EXTENDS Integers, FiniteSets

CONSTANTS
  Angle,            \* half a circle; angles are -Angle..Angle
  Rudders,          \* commands the controllers may compute
  SensorTimeout,    \* sensor_timeout_secs in time units
  HeadingRate,      \* plausible turn per time unit
  GlitchMax,        \* heading_glitch_max_count
  OutputEvery,      \* ticks per output
  TargetAngles,          \* targets the API sets
  Headings,         \* headings the compasses report
  InitialMode,
  Aboard,           \* the sensors this vessel has
  Absent,
  MaxAge,           \* ages saturate here
  MaxCalls,         \* bound on API calls
  MaxStarts         \* bound on starts of the plugin

Modes == {"compass", "wind", "route"}
Angles == -Angle..Angle
Sensors == {"headingMagnetic", "headingTrue", "windAngleApparent",
            "bearingTrackTrue"}
SensorPath(mode) == CASE mode = "compass" -> "headingMagnetic"
                      [] mode = "wind"    -> "windAngleApparent"
                      [] mode = "route"   -> "bearingTrackTrue"
Reading == [value : Angles, age : 0..MaxAge]
(* What a tick copies of the state.                                        *)
Copies == [enabled : BOOLEAN, mode : Modes, target : Angles \cup {Absent},
           dodge : Angles \cup {Absent}, primary : BOOLEAN, timed_out : BOOLEAN,
           last_tick : 0..MaxAge \cup {Absent}, last_rudder : Rudders,
           heading : Angles \cup {Absent}]
Causes == {"dataTimeout", "heading"}

ASSUME AutopilotAssumption ==
  /\ Angle \in Nat \ {0}
  /\ 0 \in Rudders
  /\ {SensorTimeout, HeadingRate, MaxAge, MaxCalls, MaxStarts} \subseteq Nat
  /\ SensorTimeout < MaxAge
  /\ {GlitchMax, OutputEvery} \subseteq Nat \ {0}
  /\ TargetAngles \cup Headings \subseteq Angles
  /\ InitialMode \in Modes
  /\ Aboard \subseteq Sensors
  /\ Absent \notin Angles \cup Reading \cup 0..MaxAge
  /\ Absent \notin Copies /\ Absent \notin Causes

VARIABLES
  enabled, mode, target, dodge, last_rudder, last_tick,
                    \* AutopilotState; last_tick is the age of last_tick_at
  sensor,           \* sensor_values and sensor_last_seen
  wound,            \* the PID integral is not zero
  plausibility,     \* HeadingPlausibility
  pc,               \* where the loop is, "off" when there is none
  prev_mode, tick_counter,
  snap,             \* the tick's copy of the state, or Absent
  cause,            \* the alarm a trip still has to raise, or Absent
  shown,            \* what the store shows of the autopilot
  registered,       \* the manager knows the pilot's provider
  bearing,          \* courseCurrentPoint's bearing, read but not yet used
  calls, starts,    \* bounds
  tripped,          \* the loop disengaged itself and nobody engaged since
  late              \* commands sent since the API disengaged

stateVars == <<enabled, mode, target, dodge, last_rudder, last_tick>>
loopVars  == <<wound, plausibility, prev_mode, tick_counter, snap, cause>>
managerVars == <<registered, bearing>>
historyVars == <<tripped, late>>
pilotVars == <<stateVars, sensor, loopVars, pc, shown, managerVars, calls,
               starts, historyVars>>

(* normalize_angle, for the sum of two angles.                             *)
Wrap(a) == IF a > Angle THEN a - 2 * Angle
           ELSE IF a < -Angle THEN a + 2 * Angle ELSE a
Dist(a) == IF a < 0 THEN -a ELSE a
Later(age) == IF age = Absent THEN Absent ELSE IF age = MaxAge THEN MaxAge ELSE age + 1

Unseen == [prev |-> Absent, count |-> 0]

(* Magnetic heading, or the true one when there was never a magnetic one.  *)
Heading == IF sensor["headingMagnetic"] # Absent THEN sensor["headingMagnetic"]
           ELSE sensor["headingTrue"]

(* A sensor times out when its last value is too old or never came: for    *)
(* compass mode this looks at the magnetic heading alone.                  *)
TimedOut == LET s == sensor[SensorPath(mode)]
            IN  s = Absent \/ (s # Absent /\ s.age > SensorTimeout)

AutopilotInit ==
  /\ enabled = FALSE /\ mode = InitialMode /\ target = Absent /\ dodge = Absent
  /\ last_rudder = 0 /\ last_tick = Absent
  /\ sensor = [s \in Sensors |-> Absent]
  /\ wound = FALSE /\ plausibility = Unseen
  /\ pc = "off" /\ prev_mode = Absent /\ tick_counter = 0
  /\ snap = Absent /\ cause = Absent
  /\ shown = [engaged |-> FALSE, rudder |-> 0, alarms |-> {}]
  /\ registered = FALSE /\ bearing = Absent
  /\ calls = 0 /\ starts = 0
  /\ tripped = FALSE /\ late = 0

-----------------------------------------------------------------------------
(* AutopilotPlugin::start after a stop, or for the first time.             *)
StartPilot ==
  /\ pc = "off" /\ starts < MaxStarts
  /\ starts' = starts + 1
  /\ enabled' = FALSE /\ mode' = InitialMode /\ target' = Absent /\ dodge' = Absent
  /\ last_rudder' = 0 /\ last_tick' = Absent
  /\ sensor' = [s \in Sensors |-> Absent]
  /\ wound' = FALSE /\ plausibility' = Unseen
  /\ pc' = "sleep" /\ prev_mode' = Absent /\ tick_counter' = 0
  /\ snap' = Absent /\ cause' = Absent
  /\ registered' = TRUE
  /\ tripped' = FALSE /\ late' = 0
  /\ UNCHANGED <<shown, bearing, calls>>

(* stop aborts the loop at whichever await it is and drops the             *)
(* subscription; state and registration stay.                              *)
StopPilot ==
  /\ pc # "off"
  /\ pc' = "off" /\ snap' = Absent /\ cause' = Absent
  /\ UNCHANGED <<stateVars, sensor, wound, plausibility, prev_mode,
                 tick_counter, shown, managerVars, calls, starts, historyVars>>

(* Only headings are checked for jumps, so only their values matter.       *)
Sensed(s) == IF s \in {"headingMagnetic", "headingTrue"} THEN Headings ELSE {0}

(* A spawned callback task stores a value; tasks of two deltas may finish  *)
(* in either order.                                                        *)
Sense(s, v) ==
  /\ pc # "off"
  /\ sensor' = [sensor EXCEPT ![s] = [value |-> v, age |-> 0]]
  /\ UNCHANGED <<stateVars, loopVars, pc, shown, managerVars, calls, starts,
                 historyVars>>

(* Time passes; a sleeping loop becomes due.                               *)
Pass ==
  /\ sensor' = [s \in Sensors |-> IF sensor[s] = Absent THEN Absent
                  ELSE [sensor[s] EXCEPT !.age = Later(@)]]
  /\ last_tick' = Later(last_tick)
  /\ snap' = IF snap = Absent THEN Absent ELSE [snap EXCEPT !.last_tick = Later(@)]
  /\ pc' = IF pc = "sleep" THEN "due" ELSE pc
  /\ UNCHANGED <<enabled, mode, target, dodge, last_rudder, wound, plausibility,
                 prev_mode, tick_counter, cause, shown, managerVars, calls,
                 starts, historyVars>>

-----------------------------------------------------------------------------
ShouldEmit == tick_counter = 0

Snapshot_targeted ==
  [enabled |-> enabled, mode |-> mode, target |-> target, dodge |-> dodge,
   primary |-> sensor[SensorPath(mode)] # Absent,
   timed_out |-> TimedOut /\ target # Absent,
   last_tick |-> last_tick, last_rudder |-> last_rudder,
   heading |-> IF Heading = Absent THEN Absent ELSE Heading.value]

Snapshot ==
  [enabled |-> enabled, mode |-> mode, target |-> target, dodge |-> dodge,
   primary |-> sensor[SensorPath(mode)] # Absent, timed_out |-> TimedOut,
   last_tick |-> last_tick, last_rudder |-> last_rudder,
   heading |-> IF Heading = Absent THEN Absent ELSE Heading.value]

(* The tick begins: count it and copy the state under the read lock.       *)
TakeSnapshot ==
  /\ pc = "due"
  /\ tick_counter' = (tick_counter + 1) % OutputEvery
  /\ snap' = Snapshot
  /\ pc' = IF tick_counter' = 0 THEN "show" ELSE "decide"
  /\ UNCHANGED <<stateVars, sensor, wound, plausibility, prev_mode, cause,
                 shown, managerVars, calls, starts, historyVars>>

(* emit_autopilot_state, at the output rate.                               *)
ShowState ==
  /\ pc = "show"
  /\ shown' = [shown EXCEPT !.engaged = snap.enabled]
  /\ pc' = "decide"
  /\ UNCHANGED <<stateVars, sensor, loopVars, managerVars, calls, starts,
                 historyVars>>

EndTick == pc' = "sleep" /\ snap' = Absent

(* A snapshot of a disengaged autopilot ends the tick before anything is   *)
(* reset.                                                                  *)
DecideIdle ==
  /\ pc = "decide" /\ ~snap.enabled
  /\ EndTick
  /\ UNCHANGED <<stateVars, sensor, wound, plausibility, prev_mode,
                 tick_counter, cause, shown, managerVars, calls, starts,
                 historyVars>>

ModeChanged == prev_mode # snap.mode
PlausibilityNow == IF ModeChanged THEN Unseen ELSE plausibility
WoundNow == wound /\ ~ModeChanged

(* The loop disengages by itself, resets its controllers and goes on to    *)
(* centre the rudder and raise the alarm.                                  *)
Trip(alarm) ==
  /\ enabled' = FALSE /\ last_rudder' = 0 /\ last_tick' = Absent
  /\ wound' = FALSE /\ plausibility' = Unseen /\ prev_mode' = snap.mode
  /\ pc' = "centre" /\ snap' = Absent /\ cause' = alarm
  /\ tripped' = TRUE
  /\ UNCHANGED <<mode, target, dodge, sensor, tick_counter, shown, managerVars,
                 calls, starts, late>>

DecideTimeout ==
  /\ pc = "decide" /\ snap.enabled /\ snap.timed_out
  /\ Trip("dataTimeout")

DecideNoTarget ==
  /\ pc = "decide" /\ snap.enabled /\ ~snap.timed_out /\ snap.target = Absent
  /\ EndTick
  /\ wound' = WoundNow /\ plausibility' = PlausibilityNow /\ prev_mode' = snap.mode
  /\ UNCHANGED <<stateVars, sensor, tick_counter, cause, shown, managerVars,
                 calls, starts, historyVars>>

Dt == IF snap.last_tick = Absent THEN 1 ELSE snap.last_tick

(* HeadingPlausibility::check: a jump keeps the previous value and counts. *)
Plausible(p, h) == p.prev = Absent
                   \/ (p.prev # Absent /\ Dist(Wrap(h - p.prev)) <= HeadingRate * Dt)
AfterCheck(p, h) ==
  IF h = Absent THEN p
  ELSE IF Plausible(p, h) THEN [prev |-> h, count |-> 0]
  ELSE [p EXCEPT !.count = @ + 1]
SensorFailure(p) == p.count >= GlitchMax

Deciding_unchecked == pc = "decide" /\ ~snap.timed_out /\ snap.target # Absent

Deciding == pc = "decide" /\ snap.enabled /\ ~snap.timed_out /\ snap.target # Absent

DecideFailure ==
  /\ Deciding
  /\ SensorFailure(AfterCheck(PlausibilityNow, snap.heading))
  /\ ~Plausible(PlausibilityNow, snap.heading)
  /\ Trip("heading")

(* What a mode needs to steer: compass and route a heading, wind and route *)
(* their own sensor.                                                       *)
CanSteer == /\ snap.mode \in {"compass", "route"} => snap.heading # Absent
            /\ snap.mode \in {"wind", "route"} => snap.primary

HeadingAccepted ==
  snap.heading = Absent \/ ~SensorFailure(AfterCheck(PlausibilityNow, snap.heading))
                      \/ Plausible(PlausibilityNow, snap.heading)

(* No input for the mode: the tick ends without touching the rudder.       *)
DecideBlind ==
  /\ Deciding /\ HeadingAccepted /\ ~CanSteer
  /\ EndTick
  /\ wound' = WoundNow /\ prev_mode' = snap.mode
  /\ plausibility' = AfterCheck(PlausibilityNow, snap.heading)
  /\ UNCHANGED <<stateVars, sensor, tick_counter, cause, shown, managerVars,
                 calls, starts, historyVars>>

(* The controllers compute a rudder and the write lock is taken for it,    *)
(* without another look at enabled.                                        *)
DecideSteer(r, winds) ==
  /\ Deciding /\ HeadingAccepted /\ CanSteer
  /\ last_rudder' = r /\ last_tick' = 0
  /\ wound' = (WoundNow \/ winds) /\ prev_mode' = snap.mode
  /\ plausibility' = AfterCheck(PlausibilityNow, snap.heading)
  /\ IF ShouldEmit THEN pc' = "steer" /\ snap' = snap ELSE EndTick
  /\ UNCHANGED <<enabled, mode, target, dodge, sensor, tick_counter, cause,
                 shown, managerVars, calls, starts, tripped, late>>

(* emit_rudder: the store, and the steering gear behind it, get the        *)
(* command.  The loop wrote last_rudder itself one step before.            *)
EmitRudder ==
  /\ pc = "steer"
  /\ shown' = [shown EXCEPT !.rudder = last_rudder]
  /\ late' = IF enabled THEN 0 ELSE late + 1
  /\ EndTick
  /\ UNCHANGED <<stateVars, sensor, wound, plausibility, prev_mode,
                 tick_counter, cause, managerVars, calls, starts, tripped>>

(* After a trip: rudder 0 goes out first, the alarm second.  Neither is    *)
(* ever withdrawn.                                                         *)
EmitCentre ==
  /\ pc = "centre"
  /\ shown' = [shown EXCEPT !.rudder = 0]
  /\ pc' = "alarm"
  /\ UNCHANGED <<stateVars, sensor, loopVars, managerVars, calls, starts,
                 historyVars>>

EmitAlarm ==
  /\ pc = "alarm"
  /\ shown' = [shown EXCEPT !.alarms = @ \cup {cause}]
  /\ cause' = Absent
  /\ EndTick
  /\ UNCHANGED <<stateVars, sensor, wound, plausibility, prev_mode,
                 tick_counter, managerVars, calls, starts, historyVars>>

-----------------------------------------------------------------------------
(* A V2 API request resolves the provider, which stays registered when the *)
(* plugin stops, and calls it.                                             *)
Call == registered /\ calls < MaxCalls /\ calls' = calls + 1
Rest == UNCHANGED <<sensor, loopVars, pc, shown, managerVars, starts>>

Engaged == /\ enabled' = TRUE /\ tripped' = FALSE /\ late' = 0

(* engage, and set_state("enabled"): no look at target or sensors.         *)
Engage ==
  /\ Call
  /\ Engaged
  /\ UNCHANGED <<mode, target, dodge, last_rudder, last_tick>> /\ Rest

(* disengage, and set_state("disabled"): the rudder stays as it is.        *)
Disengage ==
  /\ Call
  /\ enabled' = FALSE /\ last_tick' = Absent
  /\ UNCHANGED <<mode, target, dodge, last_rudder, tripped, late>>
  /\ Rest

SetMode(m) ==
  /\ Call
  /\ mode' = m /\ last_tick' = Absent
  /\ UNCHANGED <<enabled, target, dodge, last_rudder, tripped, late>>
  /\ Rest

SetTarget(t) ==
  /\ Call
  /\ target' = t
  /\ UNCHANGED <<enabled, mode, dodge, last_rudder, last_tick, tripped, late>>
  /\ Rest

AdjustTarget(d) ==
  /\ Call
  /\ target' = Wrap((IF target = Absent THEN 0 ELSE target) + d)
  /\ UNCHANGED <<enabled, mode, dodge, last_rudder, last_tick, tripped, late>>
  /\ Rest

(* tack and gybe compute the same target; refused outside wind mode and    *)
(* when already there.  No target counts as 0, whose magnitude is 0.1, a   *)
(* unit here.                                                              *)
Tack(side) ==
  LET current   == IF target = Absent THEN 0 ELSE target
      magnitude == IF current = 0 THEN 1 ELSE Dist(current)
  IN  /\ Call
      /\ mode = "wind"
      /\ side * magnitude # current
      /\ target' = side * magnitude
      /\ UNCHANGED <<enabled, mode, dodge, last_rudder, last_tick, tripped,
                     late>>
      /\ Rest

Dodge(offset) ==
  /\ Call
  /\ dodge' = offset
  /\ UNCHANGED <<enabled, mode, target, last_rudder, last_tick, tripped, late>>
  /\ Rest

(* courseCurrentPoint reads the bearing from the store, awaits the lock    *)
(* and only then enters route mode with the bearing it read.               *)
ReadBearing(b) ==
  /\ Call /\ bearing = Absent
  /\ bearing' = b
  /\ UNCHANGED <<stateVars, sensor, loopVars, pc, shown, registered,
                 starts, historyVars>>

CourseCurrentPoint ==
  /\ bearing # Absent
  /\ mode' = "route" /\ target' = bearing /\ last_tick' = Absent
  /\ Engaged
  /\ bearing' = Absent
  /\ UNCHANGED <<dodge, last_rudder, sensor, loopVars, pc, shown, registered,
                 calls, starts>>

(* courseNextPoint: the handler has advanced the course (see Course) before *)
(* it resolved the device.                                                 *)
CourseNextPoint ==
  /\ Call
  /\ mode' = "route" /\ Engaged
  /\ last_tick' = IF mode = "route" THEN last_tick ELSE Absent
  /\ UNCHANGED <<target, dodge, last_rudder>> /\ Rest

Loop ==
  \/ TakeSnapshot \/ ShowState
  \/ DecideIdle \/ DecideTimeout \/ DecideNoTarget \/ DecideFailure
  \/ DecideBlind \/ EmitRudder \/ EmitCentre \/ EmitAlarm
  \/ \E r \in Rudders, winds \in BOOLEAN : DecideSteer(r, winds)

Api ==
  \/ Engage \/ Disengage \/ CourseCurrentPoint \/ CourseNextPoint
  \/ \E m \in Modes : SetMode(m)
  \/ \E t \in TargetAngles : SetTarget(t) \/ AdjustTarget(t) \/ Dodge(t) \/ ReadBearing(t)
  \/ Dodge(Absent)
  \/ \E side \in {-1, 1} : Tack(side)

AutopilotNext ==
  \/ StartPilot \/ StopPilot \/ Pass \/ Loop \/ Api
  \/ \E s \in Aboard : \E v \in Sensed(s) : Sense(s, v)

AutopilotSpec == AutopilotInit /\ [][AutopilotNext]_pilotVars

-----------------------------------------------------------------------------
(* The shapes of the state, the loop's locals and what the store shows.    *)
AutopilotTypeOK ==
  /\ enabled \in BOOLEAN /\ mode \in Modes
  /\ target \in Angles \cup {Absent} /\ dodge \in Angles \cup {Absent}
  /\ last_rudder \in Rudders /\ last_tick \in 0..MaxAge \cup {Absent}
  /\ sensor \in [Sensors -> Reading \cup {Absent}]
  /\ wound \in BOOLEAN
  /\ plausibility \in [prev : Angles \cup {Absent}, count : 0..(GlitchMax - 1)]
  /\ pc \in {"off", "sleep", "due", "show", "decide", "steer", "centre", "alarm"}
  /\ snap \in Copies \cup {Absent}
  /\ (snap # Absent) = (pc \in {"show", "decide", "steer"})
  /\ cause \in Causes \cup {Absent}
  /\ (cause # Absent) = (pc \in {"centre", "alarm"})
  /\ tick_counter \in 0..(OutputEvery - 1)
  /\ shown \in [engaged : BOOLEAN, rudder : Rudders,
                 alarms : SUBSET Causes]
  /\ registered \in BOOLEAN /\ bearing \in Angles \cup {Absent}

(* A disengaged pilot may still send the one command of the tick that was  *)
(* running; no later tick steers.                                          *)
AtMostOneLateCommand == late <= 1

(* When the loop gave up by itself and nobody has engaged it since, the    *)
(* rudder is amidships and an alarm is in the store once the tick is over. *)
TripIsShown ==
  (tripped /\ pc \in {"sleep", "due", "show", "decide"})
    => shown.rudder = 0 /\ shown.alarms # {}

(* What the operator relies on when the pilot is off, by request or by its *)
(* own decision: no steering, and a trip has centred the rudder and raised *)
(* its alarm.                                                              *)
OffIsOff == AutopilotTypeOK /\ AtMostOneLateCommand /\ TripIsShown

(* Once its sensor is silent an engaged pilot disengages, unless the       *)
(* sensor or the mode comes back, or the plugin stops.                     *)
SilentSensorDisengages ==
  (enabled /\ TimedOut /\ pc # "off") ~> (~enabled \/ ~TimedOut \/ pc = "off")

=============================================================================
