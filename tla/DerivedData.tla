----------------------------- MODULE DerivedData ----------------------------
(* The derived-data plugin: it hears the deltas of the vessel, runs the    *)
(* calculators whose inputs changed until nothing new comes out, and sends *)
(* what they derived back through the server, which lets it hear that too. *)
(*                                                                         *)
(* The callback runs to its end in the subscription's task, so one delta   *)
(* is one step; the delta it sends is handed to a task of its own.         *)
EXTENDS Calculators, FiniteSets

CONSTANTS Disabled,       \* the configurations: sets of calculators switched off
          SensorDeltas,   \* what other sources send: functions from paths to numbers
          MaxSensed, MaxDerivedStarts

VARIABLES calculating,      \* the calculators of the running callback, {} when stopped
          snapshot,         \* the last value of every path the callback heard
          prev_direction,   \* the memory of the wind shift calculator
          heardDerived,     \* the deltas under way to the callback
          derivedEmits,     \* derived deltas whose task has not run yet
          shownDerived,     \* what the store shows
          sensorSends, derivedStarts

derivedVars == <<calculating, snapshot, prev_direction, heardDerived, derivedEmits,
                 shownDerived, sensorSends, derivedStarts>>

(* The calculators in the order they run, and the inputs each declares.    *)
all_calculators == <<
  "headingTrue", "courseOverGroundMagnetic", "courseOverGroundTrue",
  "leewayAngle", "leeway", "setDrift", "trueWind", "vmgWind", "vmgStw",
  "windDirectionMagnetic", "windDirectionMagnetic2", "windGround",
  "windGroundDirection", "windShift", "courseBearing", "bearingMagnetic",
  "courseDistance", "previousPointDistance", "courseXte", "vmgWaypoint",
  "eta", "steerError", "airDensity", "dewPoint", "heatIndex", "windChill",
  "depthBelowKeel", "depthBelowSurface", "transducerToKeel", "suncalc",
  "suntime", "moon", "batteryPower", "propState", "fuelConsumption",
  "propSlip", "tankVolume" >>

inputs == [
  headingTrue |-> {"headingMagnetic", "magneticVariation"},
  courseOverGroundMagnetic |-> {"courseOverGroundTrue", "magneticVariation"},
  courseOverGroundTrue |-> {"courseOverGroundMagnetic", "magneticVariation"},
  leewayAngle |-> {"headingTrue", "courseOverGroundTrue"},
  leeway |-> {"attitude", "speedThroughWater"},
  setDrift |-> {"headingMagnetic", "courseOverGroundTrue",
                "speedThroughWater", "speedOverGround", "magneticVariation"},
  trueWind |-> {"headingTrue", "speedThroughWater", "speedApparent",
                "angleApparent"},
  vmgWind |-> {"angleTrueWater", "speedOverGround"},
  vmgStw |-> {"angleTrueWater", "speedThroughWater"},
  windDirectionMagnetic |-> {"directionTrue", "magneticVariation"},
  windDirectionMagnetic2 |-> {"headingMagnetic", "angleApparent"},
  windGround |-> {"speedApparent", "angleApparent", "speedOverGround"},
  windGroundDirection |-> {"headingTrue", "angleTrueGround"},
  windShift |-> {"directionTrue"},
  courseBearing |-> {"position", "nextPoint"},
  bearingMagnetic |-> {"bearingTrackTrue", "magneticVariation"},
  courseDistance |-> {"position", "nextPoint"},
  previousPointDistance |-> {"position", "previousPoint"},
  courseXte |-> {"position", "nextPoint", "previousPoint"},
  vmgWaypoint |-> {"speedOverGround", "courseOverGroundTrue",
                   "bearingTrackTrue"},
  eta |-> {"nextPointDistance", "waypointVelocity"},
  steerError |-> {"courseOverGroundTrue", "bearingTrackTrue"},
  airDensity |-> {"temperature", "pressure", "humidity"},
  dewPoint |-> {"temperature", "humidity"},
  heatIndex |-> {"temperature", "humidity"},
  windChill |-> {"temperature", "speedApparent"},
  depthBelowKeel |-> {"belowTransducer", "transducerToKeel"},
  depthBelowSurface |-> {"belowKeel", "draft"},
  transducerToKeel |-> {"belowTransducer", "surfaceToTransducer", "draft"},
  suncalc |-> {"position", "datetime"},
  suntime |-> {"position", "datetime"},
  moon |-> {"datetime"},
  batteryPower |-> {"electrical.batteries"},
  propState |-> {"propulsion"},
  fuelConsumption |-> {"speedOverGround", "propulsion"},
  propSlip |-> {"speedThroughWater", "propulsion"},
  tankVolume |-> {"tanks"} ]

Calculators == ToSet(all_calculators)

(* Three inputs are prefixes, for paths that name an instance.             *)
Below ==
  [prefix \in {"electrical.batteries", "propulsion", "tanks"} |->
     CASE prefix = "electrical.batteries" ->
            {"batteries.voltage", "batteries.current", "batteries.power"}
       [] prefix = "propulsion" ->
            {"propulsion.revolutions", "propulsion.fuel.rate", "propulsion.state",
             "propulsion.fuel.economy", "propulsion.slip"}
       [] prefix = "tanks" ->
            {"tanks.capacity", "tanks.currentLevel", "tanks.currentVolume"}]
path_matches_input(path, input) ==
  path = input \/ (input \in DOMAIN Below /\ path \in Below[input])

calculate(name, v, prev) ==
  CASE name = "headingTrue"              -> HeadingTrue(v)
    [] name = "courseOverGroundMagnetic" -> CourseOverGroundMagnetic(v)
    [] name = "courseOverGroundTrue"     -> CourseOverGroundTrue(v)
    [] name = "leewayAngle"              -> LeewayAngle(v)
    [] name = "leeway"                   -> Leeway(v)
    [] name = "setDrift"                 -> SetDrift(v)
    [] name = "trueWind"                 -> TrueWind(v)
    [] name = "vmgWind"                  -> VmgWind(v)
    [] name = "vmgStw"                   -> VmgStw(v)
    [] name = "windDirectionMagnetic"    -> WindDirectionMagnetic(v)
    [] name = "windDirectionMagnetic2"   -> WindDirectionMagnetic2(v)
    [] name = "windGround"               -> WindGround(v)
    [] name = "windGroundDirection"      -> WindGroundDirection(v)
    [] name = "windShift"                -> WindShift(v, prev)
    [] name = "courseBearing"            -> CourseBearing(v)
    [] name = "bearingMagnetic"          -> BearingMagnetic(v)
    [] name = "courseDistance"           -> CourseDistance(v)
    [] name = "previousPointDistance"    -> PreviousPointDistance(v)
    [] name = "courseXte"                -> CourseXte(v)
    [] name = "vmgWaypoint"              -> VmgWaypoint(v)
    [] name = "eta"                      -> Eta(v)
    [] name = "steerError"               -> SteerError(v)
    [] name = "airDensity"               -> AirDensity(v)
    [] name = "dewPoint"                 -> DewPoint(v)
    [] name = "heatIndex"                -> HeatIndex(v)
    [] name = "windChill"                -> WindChill(v)
    [] name = "depthBelowKeel"           -> DepthBelowKeel(v)
    [] name = "depthBelowSurface"        -> DepthBelowSurface(v)
    [] name = "transducerToKeel"         -> TransducerToKeel(v)
    [] name = "suncalc"                  -> SunCalc(v)
    [] name = "suntime"                  -> SunTime(v)
    [] name = "moon"                     -> Moon(v)
    [] name = "batteryPower"             -> BatteryPower(v)
    [] name = "propState"                -> PropState(v)
    [] name = "fuelConsumption"          -> FuelConsumption(v)
    [] name = "propSlip"                 -> PropSlip(v)
    [] name = "tankVolume"               -> TankVolume(v)

OnlyDerived ==
  {"leewayAngle", "leewayAngleHeel", "setTrue", "setMagnetic", "drift",
   "driftImpact", "speedTrue", "velocityMadeGood", "velocityMadeGoodWater",
   "directionMagnetic", "directionMagneticApparent", "windSpeedOverGround",
   "directionGround", "directionChange", "bearingTrackMagnetic",
   "previousPointDistance", "crossTrackError", "estimatedTimeOfArrival",
   "steerError", "airDensity", "dewPointTemperature", "heatIndexTemperature",
   "windChillTemperature", "belowSurface", "sunAzimuth", "sunAltitude",
   "sunrise", "sunset", "dawn", "dusk", "moonPhase", "moonIllumination",
   "moonAge", "moonPhaseName"}
EveryPath ==
  (UNION {inputs[c] : c \in Calculators}) \cup (UNION {Below[q] : q \in DOMAIN Below})
    \cup OnlyDerived
Unknown == [p \in EveryPath |-> NoValue]

(* Who may derive a path: a sensor's path is derived by nobody.            *)
DerivedBy(path) ==
  CASE path = "belowKeel"             -> {"depthBelowKeel", "transducerToKeel"}
    [] path = "leewayAngleHeel"       -> {"leeway"}
    [] path \in Current \cup {"driftImpact"} -> {"setDrift"}
    [] path \in {"speedTrue", "angleTrueWater", "directionTrue"} -> {"trueWind"}
    [] path = "velocityMadeGood"      -> {"vmgWind"}
    [] path = "velocityMadeGoodWater" -> {"vmgStw"}
    [] path = "directionMagnetic"     -> {"windDirectionMagnetic"}
    [] path = "directionMagneticApparent" -> {"windDirectionMagnetic2"}
    [] path \in {"angleTrueGround", "windSpeedOverGround"} -> {"windGround"}
    [] path = "directionGround"       -> {"windGroundDirection"}
    [] path = "directionChange"       -> {"windShift"}
    [] path = "bearingTrackTrue"      -> {"courseBearing"}
    [] path = "bearingTrackMagnetic"  -> {"bearingMagnetic"}
    [] path = "nextPointDistance"     -> {"courseDistance"}
    [] path = "crossTrackError"       -> {"courseXte"}
    [] path = "waypointVelocity"      -> {"vmgWaypoint"}
    [] path = "estimatedTimeOfArrival" -> {"eta"}
    [] path = "dewPointTemperature"   -> {"dewPoint"}
    [] path = "heatIndexTemperature"  -> {"heatIndex"}
    [] path = "windChillTemperature"  -> {"windChill"}
    [] path = "belowSurface"          -> {"depthBelowSurface"}
    [] path \in {"sunAzimuth", "sunAltitude"} -> {"suncalc"}
    [] path \in {"sunrise", "sunset", "dawn", "dusk"} -> {"suntime"}
    [] path \in {"moonPhase", "moonIllumination", "moonAge", "moonPhaseName"} -> {"moon"}
    [] path = "batteries.power"       -> {"batteryPower"}
    [] path = "propulsion.state"      -> {"propState"}
    [] path = "propulsion.fuel.economy" -> {"fuelConsumption"}
    [] path = "propulsion.slip"       -> {"propSlip"}
    [] path = "tanks.currentVolume"   -> {"tankVolume"}
    [] OTHER                          -> {path}

-----------------------------------------------------------------------------
(* What the callback does with the paths that changed.                     *)

MaxIterations_few == 2
MaxIterations == 5

Affected(name, changed) ==
  \E i \in inputs[name], p \in changed : path_matches_input(p, i)

(* One round: every affected calculator looks at the same snapshot; where  *)
(* two derive the same path, the later one in the list counts.             *)
Round(on, r) ==
  LET due == {c \in on : Affected(c, r.changed)}
      new == Merged([i \in DOMAIN all_calculators |->
                       IF all_calculators[i] \notin due THEN Nothing
                       ELSE calculate(all_calculators[i], r.snap, r.prev)])
  IN  [snap    |-> new ++ r.snap,
       changed |-> DOMAIN new,
       derived |-> new ++ r.derived,
       prev    |-> IF "windShift" \in due /\ r.snap["directionTrue"] # NoValue
                   THEN r.snap["directionTrue"] ELSE r.prev]

(* Rounds until one derives nothing, but no more than MaxIterations.       *)
Rounds(on, first) ==
  LET after[n \in 0 .. MaxIterations] ==
        IF n = 0 THEN first
        ELSE LET r == after[n - 1]
             IN  IF r.changed = {} THEN r ELSE Round(on, r)
  IN  after[MaxIterations]

-----------------------------------------------------------------------------

DerivedInit ==
  /\ calculating = {} /\ snapshot = Unknown /\ prev_direction = NoValue
  /\ heardDerived = <<>> /\ derivedEmits = {} /\ shownDerived = Unknown
  /\ sensorSends = 0 /\ derivedStarts = 0

(* Every start has a snapshot and calculators of its own; with none        *)
(* enabled there is no subscription.                                       *)
StartDerived ==
  /\ calculating = {} /\ derivedStarts < MaxDerivedStarts
  /\ \E off \in Disabled : calculating' = Calculators \ off
  /\ snapshot' = Unknown /\ prev_direction' = NoValue /\ derivedStarts' = derivedStarts + 1
  /\ UNCHANGED <<heardDerived, derivedEmits, shownDerived, sensorSends>>

StopDerived ==
  /\ calculating # {} /\ calculating' = {} /\ heardDerived' = <<>>
  /\ UNCHANGED <<snapshot, prev_direction, derivedEmits, shownDerived, sensorSends, derivedStarts>>

(* The paths subscribed to are the inputs as they are declared: a prefix   *)
(* matches no path below it.                                               *)
HearsOf(values) ==
  \E c \in calculating : inputs[c] \cap DOMAIN values # {}

(* The store takes a delta and tells the subscription of it.               *)
Publish(label, values) ==
  /\ shownDerived' = values ++ shownDerived
  /\ heardDerived' = IF HearsOf(values)
                     THEN Append(heardDerived, [label |-> label, values |-> values])
                     ELSE heardDerived

SensorSends ==
  /\ sensorSends < MaxSensed /\ sensorSends' = sensorSends + 1
  /\ \E values \in SensorDeltas : Publish("sensor", values)
  /\ UNCHANGED <<calculating, snapshot, prev_direction, derivedEmits, derivedStarts>>

(* Its own values are left out; the rest goes into the snapshot, whether   *)
(* it was subscribed to or not.                                            *)
Own_unlabelled(delta) == FALSE
Own(delta) == delta.label = "derived-data"

HearOwn ==
  /\ heardDerived # <<>> /\ Own(Head(heardDerived)) /\ heardDerived' = Tail(heardDerived)
  /\ UNCHANGED <<calculating, snapshot, prev_direction, derivedEmits, shownDerived,
                 sensorSends, derivedStarts>>

Derive ==
  /\ heardDerived # <<>> /\ ~Own(Head(heardDerived)) /\ heardDerived' = Tail(heardDerived)
  /\ LET values == Head(heardDerived).values
     IN  \E result \in {Rounds(calculating, [snap |-> values ++ snapshot,
                          changed |-> DOMAIN values, derived |-> Nothing,
                          prev |-> prev_direction])} :
         /\ snapshot' = result.snap /\ prev_direction' = result.prev
         /\ derivedEmits' = IF result.derived = Nothing THEN derivedEmits
                            ELSE derivedEmits \cup {result.derived}
  /\ UNCHANGED <<calculating, shownDerived, sensorSends, derivedStarts>>

(* The tasks that send derived deltas run in any order.                    *)
EmitDerived ==
  /\ \E values \in derivedEmits :
       derivedEmits' = derivedEmits \ {values} /\ Publish("derived-data", values)
  /\ UNCHANGED <<calculating, snapshot, prev_direction, sensorSends, derivedStarts>>

DerivedNext ==
  StartDerived \/ StopDerived \/ SensorSends \/ HearOwn \/ Derive \/ EmitDerived

(* The subscription's task takes what it hears, the sending tasks run:     *)
(* HearOwn or Derive, and EmitDerived, by what they do to their queue.     *)
Heard   == heardDerived # <<>> /\ heardDerived' = Tail(heardDerived)
Emitted == \E values \in derivedEmits : derivedEmits' = derivedEmits \ {values}
DerivedFairness == WF_heardDerived(Heard) /\ WF_derivedEmits(Emitted)

DerivedSpec == DerivedInit /\ [][DerivedNext]_derivedVars /\ DerivedFairness

-----------------------------------------------------------------------------
(* The rounds end with a snapshot no calculator would change: each derived *)
(* value is the one its inputs give, however long the chain between a      *)
(* sensor and it, and whichever of two calculators wrote it last.  Not so  *)
(* what depends on the courses over ground where both are derived, each    *)
(* from the other: their values may swap in every round, until the limit.  *)
OfCourses ==
  {"courseOverGroundMagnetic", "courseOverGroundTrue", "leewayAngle", "setDrift",
   "vmgWaypoint", "eta", "steerError"}
Circular(on) == {"courseOverGroundMagnetic", "courseOverGroundTrue"} \subseteq on
Steady(on) == on \ ({"windShift"} \cup IF Circular(on) THEN OfCourses ELSE {})
FixpointReached ==
  \A c \in Steady(calculating) :
    LET out == calculate(c, snapshot, prev_direction)
    IN  \A p \in DOMAIN out : snapshot[p] = out[p]

(* What the proof asks of the sensors: they send numbers, and leave to the *)
(* calculators that are on what those derive.                              *)
ASSUME SensorsAssumption ==
  /\ NoValue \notin Int
  /\ \A values \in SensorDeltas : \A p \in DOMAIN values :
       /\ values[p] \in Int
       /\ \A off \in Disabled : DerivedBy(p) \cap Steady(Calculators \ off) = {}

(* The plugin does not answer itself: once the sensors are quiet the last  *)
(* derived delta is sent, heard and left at that.                          *)
DerivedSettles == <>[](heardDerived = <<>> /\ derivedEmits = {})

(* A voltage that changes in the store while its calculator runs reaches   *)
(* the callback: the comment in start says "prefix-based inputs subscribe  *)
(* with a wildcard suffix".                                                *)
InstancesHeard ==
  [][ ("batteryPower" \in calculating
        /\ shownDerived'["batteries.voltage"] # shownDerived["batteries.voltage"])
      => heardDerived' # heardDerived ]_derivedVars
=============================================================================
