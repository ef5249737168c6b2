----------------------------- MODULE Calculators ----------------------------
(* The calculators of the derived-data plugin.  Each is a function of the  *)
(* snapshot: the last number seen of every path, NoValue for one that was  *)
(* never seen or is not a number.  It answers with the values it derives,  *)
(* Nothing where the code answers None.                                    *)
(*                                                                         *)
(* Sums of angles, depths and thresholds are computed; what a formula of   *)
(* trigonometry, meteorology or astronomy yields is the constant           *)
(* `Formula', of which nothing is assumed.  Speeds are whole numbers, 0    *)
(* standing for whatever is below a calculator's threshold.  A position,   *)
(* an attitude or a date is one number.  An engine, a battery and a tank   *)
(* have one instance.                                                      *)
EXTENDS PathValues

CONSTANTS NoValue,          \* not an integer
          Circle,           \* a full turn
          ShiftThreshold,   \* a wind shift worth an alert, of that turn
          Formula(_, _)     \* what the named formula yields for its arguments

ASSUME CalculatorsAssumption == Circle \in Nat \ {0} /\ ShiftThreshold \in Nat

Nothing == NoPaths

normalize_angle(angle) == angle % Circle

(* The difference of two angles, in [-Circle/2, Circle/2].                 *)
SignedDifference(a, b) ==
  CASE 2 * (a - b) > Circle    -> a - b - Circle
    [] 2 * (a - b) < - Circle  -> a - b + Circle
    [] OTHER                   -> a - b

(* One value, or several, when every number it needs is there.             *)
Out(p, x) == [q \in {p} |-> x]
Given(v, needs, out) == IF \A p \in needs : v[p] # NoValue THEN out ELSE Nothing

(* What is computed for each of several outputs from the same numbers.     *)
Formulas(outs, args) == [p \in outs |-> Formula(p, args)]

-----------------------------------------------------------------------------
(* Navigation.                                                             *)

HeadingTrue(v) ==
  Given(v, {"headingMagnetic", "magneticVariation"},
        Out("headingTrue", normalize_angle(v["headingMagnetic"] + v["magneticVariation"])))

CourseOverGroundMagnetic(v) ==
  Given(v, {"courseOverGroundTrue", "magneticVariation"},
        Out("courseOverGroundMagnetic",
            normalize_angle(v["courseOverGroundTrue"] - v["magneticVariation"])))

CourseOverGroundTrue(v) ==
  Given(v, {"courseOverGroundMagnetic", "magneticVariation"},
        Out("courseOverGroundTrue",
            normalize_angle(v["courseOverGroundMagnetic"] + v["magneticVariation"])))

LeewayAngle(v) ==
  Given(v, {"headingTrue", "courseOverGroundTrue"},
        Out("leewayAngle", SignedDifference(v["headingTrue"], v["courseOverGroundTrue"])))

Leeway(v) ==
  Given(v, {"attitude", "speedThroughWater"},
        IF v["speedThroughWater"] = 0 THEN Nothing
        ELSE Formulas({"leewayAngleHeel"}, <<v["attitude"], v["speedThroughWater"]>>))

Current == {"drift", "setTrue", "setMagnetic"}

(* The heading is magnetic and the course over ground true.                *)
SetDrift(v) ==
  Given(v, {"headingMagnetic", "courseOverGroundTrue", "speedThroughWater",
            "speedOverGround", "magneticVariation"},
        LET args == <<v["headingMagnetic"], v["courseOverGroundTrue"],
                      v["speedThroughWater"], v["speedOverGround"]>>
            set  == Formula("setMagnetic", args)
        IN  IF v["speedOverGround"] = 0 /\ v["speedThroughWater"] = 0
            THEN [p \in Current |-> 0]
            ELSE Formulas({"drift"} \cup IF v["speedThroughWater"] = 0 THEN {}
                                         ELSE {"driftImpact"}, args)
                 ++ Out("setMagnetic", set)
                 ++ Out("setTrue", normalize_angle(set + v["magneticVariation"])))

-----------------------------------------------------------------------------
(* Wind.                                                                   *)

TrueWind(v) ==
  Given(v, {"headingTrue", "speedThroughWater", "speedApparent", "angleApparent"},
        LET args  == <<v["speedThroughWater"], v["speedApparent"], v["angleApparent"]>>
            angle == IF v["speedApparent"] = 0 THEN v["angleApparent"]
                     ELSE Formula("angleTrueWater", args)
        IN  Formulas({"speedTrue"}, args) ++ Out("angleTrueWater", angle)
            ++ Out("directionTrue", normalize_angle(v["headingTrue"] + angle)))

VmgWind(v) ==
  Given(v, {"angleTrueWater", "speedOverGround"},
        Formulas({"velocityMadeGood"}, <<v["angleTrueWater"], v["speedOverGround"]>>))

VmgStw(v) ==
  Given(v, {"angleTrueWater", "speedThroughWater"},
        Formulas({"velocityMadeGoodWater"}, <<v["angleTrueWater"], v["speedThroughWater"]>>))

WindDirectionMagnetic(v) ==
  Given(v, {"directionTrue", "magneticVariation"},
        Out("directionMagnetic", normalize_angle(v["directionTrue"] - v["magneticVariation"])))

WindDirectionMagnetic2(v) ==
  Given(v, {"headingMagnetic", "angleApparent"},
        Out("directionMagneticApparent",
            normalize_angle(v["headingMagnetic"] + v["angleApparent"])))

WindGround(v) ==
  Given(v, {"speedApparent", "angleApparent", "speedOverGround"},
        Formulas({"angleTrueGround", "windSpeedOverGround"},
                 <<v["speedApparent"], v["angleApparent"], v["speedOverGround"]>>))

WindGroundDirection(v) ==
  Given(v, {"headingTrue", "angleTrueGround"},
        Out("directionGround", normalize_angle(v["headingTrue"] + v["angleTrueGround"])))

(* The only calculator with a memory: the direction it saw last.           *)
Shift(direction, prev) ==
  IF prev = NoValue THEN 0
  ELSE LET diff == SignedDifference(direction, prev)
       IN  IF diff < 0 THEN - diff ELSE diff

WindShift(v, prev) ==
  Given(v, {"directionTrue"},
        IF Shift(v["directionTrue"], prev) > ShiftThreshold
        THEN Out("directionChange", 1) ELSE Nothing)

-----------------------------------------------------------------------------
(* The course, from the position and the points the course manager sends.  *)

CourseBearing(v) ==
  Given(v, {"position", "nextPoint"},
        Formulas({"bearingTrackTrue"}, <<v["position"], v["nextPoint"]>>))

BearingMagnetic(v) ==
  Given(v, {"bearingTrackTrue", "magneticVariation"},
        Out("bearingTrackMagnetic",
            normalize_angle(v["bearingTrackTrue"] - v["magneticVariation"])))

CourseDistance(v) ==
  Given(v, {"position", "nextPoint"},
        Formulas({"nextPointDistance"}, <<v["position"], v["nextPoint"]>>))

PreviousPointDistance(v) ==
  Given(v, {"position", "previousPoint"},
        Formulas({"previousPointDistance"}, <<v["position"], v["previousPoint"]>>))

CourseXte(v) ==
  Given(v, {"position", "nextPoint", "previousPoint"},
        Formulas({"crossTrackError"}, <<v["position"], v["previousPoint"], v["nextPoint"]>>))

VmgWaypoint(v) ==
  Given(v, {"speedOverGround", "courseOverGroundTrue", "bearingTrackTrue"},
        Formulas({"waypointVelocity"},
                 <<v["speedOverGround"], v["courseOverGroundTrue"], v["bearingTrackTrue"]>>))

(* No estimate when the boat does not close in: the last one stays.        *)
Eta(v) ==
  Given(v, {"nextPointDistance", "waypointVelocity"},
        IF v["waypointVelocity"] <= 0 \/ v["nextPointDistance"] < 0 THEN Nothing
        ELSE Formulas({"estimatedTimeOfArrival"},
                      <<v["nextPointDistance"], v["waypointVelocity"]>>))

SteerError(v) ==
  Given(v, {"courseOverGroundTrue", "bearingTrackTrue"},
        Out("steerError", SignedDifference(v["courseOverGroundTrue"], v["bearingTrackTrue"])))

-----------------------------------------------------------------------------
(* Environment.                                                            *)

Humid(v) == v["humidity"] # NoValue /\ v["humidity"] \in 1 .. 100

(* Humidity is optional: dry air is taken when it is missing or absurd.    *)
AirDensity(v) ==
  Given(v, {"temperature", "pressure"},
        IF v["temperature"] <= 0 \/ v["pressure"] <= 0 THEN Nothing
        ELSE Formulas({"airDensity"}, <<v["temperature"], v["pressure"],
                                        IF Humid(v) THEN v["humidity"] ELSE 0>>))

DewPoint(v) ==
  Given(v, {"temperature", "humidity"},
        IF ~Humid(v) \/ v["temperature"] <= 0 THEN Nothing
        ELSE Formulas({"dewPointTemperature"}, <<v["temperature"], v["humidity"]>>))

HeatIndex(v) ==
  Given(v, {"temperature", "humidity"},
        IF v["temperature"] <= 0 \/ v["humidity"] \notin 0 .. 100 THEN Nothing
        ELSE Formulas({"heatIndexTemperature"}, <<v["temperature"], v["humidity"]>>))

WindChill(v) ==
  Given(v, {"temperature", "speedApparent"},
        IF v["temperature"] <= 0 \/ v["speedApparent"] < 0 THEN Nothing
        ELSE Formulas({"windChillTemperature"}, <<v["temperature"], v["speedApparent"]>>))

(* The offset of the transducer is optional.                               *)
DepthBelowKeel(v) ==
  Given(v, {"belowTransducer"},
        Out("belowKeel", v["belowTransducer"] -
            IF v["transducerToKeel"] = NoValue THEN 0 ELSE v["transducerToKeel"]))

DepthBelowSurface(v) ==
  Given(v, {"belowKeel", "draft"},
        IF v["belowKeel"] < 0 \/ v["draft"] < 0 THEN Nothing
        ELSE Out("belowSurface", v["belowKeel"] + v["draft"]))

TransducerToKeel(v) ==
  Given(v, {"belowTransducer", "surfaceToTransducer", "draft"},
        LET offset == v["draft"] - v["surfaceToTransducer"]
        IN  Out("transducerToKeel", offset)
            ++ Out("belowKeel", v["belowTransducer"] - offset))

-----------------------------------------------------------------------------
(* Sun and moon; a date before 1970 has no moon.                           *)

SunCalc(v) ==
  Given(v, {"position", "datetime"},
        Formulas({"sunAzimuth", "sunAltitude"}, <<v["datetime"], v["position"]>>))

SunTime(v) ==
  Given(v, {"position", "datetime"},
        Formulas({"sunrise", "sunset", "dawn", "dusk"}, <<v["datetime"], v["position"]>>))

Moon(v) ==
  Given(v, {"datetime"},
        IF v["datetime"] < 0 THEN Nothing
        ELSE Formulas({"moonPhase", "moonIllumination", "moonAge", "moonPhaseName"},
                      <<v["datetime"]>>))

-----------------------------------------------------------------------------
(* Batteries, engines and tanks: found by scanning the snapshot for paths  *)
(* of their instances.                                                     *)

BatteryPower(v) ==
  Given(v, {"batteries.voltage", "batteries.current"},
        Out("batteries.power", v["batteries.voltage"] * v["batteries.current"]))

PropState(v) ==
  Given(v, {"propulsion.revolutions"},
        Out("propulsion.state", IF v["propulsion.revolutions"] > 0 THEN 1 ELSE 0))

FuelConsumption(v) ==
  Given(v, {"speedOverGround", "propulsion.fuel.rate"},
        IF v["speedOverGround"] = 0 \/ v["propulsion.fuel.rate"] <= 0 THEN Nothing
        ELSE Formulas({"propulsion.fuel.economy"},
                      <<v["speedOverGround"], v["propulsion.fuel.rate"]>>))

PropSlip(v) ==
  Given(v, {"speedThroughWater", "propulsion.revolutions"},
        IF v["propulsion.revolutions"] <= 0 THEN Nothing
        ELSE Formulas({"propulsion.slip"},
                      <<v["speedThroughWater"], v["propulsion.revolutions"]>>))

(* Levels are percentages.                                                 *)
TankVolume(v) ==
  Given(v, {"tanks.capacity", "tanks.currentLevel"},
        IF v["tanks.capacity"] <= 0 \/ v["tanks.currentLevel"] \notin 0 .. 100 THEN Nothing
        ELSE Out("tanks.currentVolume", v["tanks.currentLevel"] * v["tanks.capacity"]))
=============================================================================
