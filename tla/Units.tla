-------------------------------- MODULE Units --------------------------------
(* The units of what the receivers tell.  The server gives every           *)
(* well-known path a unit, once in its default metadata and once in the    *)
(* categories its clients convert by; whatever sentence or message a value *)
(* came in, it has to have that unit.                                      *)
EXTENDS Pgns

VARIABLES heardValues, heardFrom  \* the values of the last sentence or message, and which it was
unitVars == <<heardValues, heardFrom>>

In(unit, paths) == [p \in paths |-> unit]

(* The metadata of the paths the receivers fill.                           *)
default_metadata ==
  In("m/s", {"navigation.speedOverGround", "navigation.speedThroughWater",
             "environment.wind.speedApparent", "environment.wind.speedTrue",
             "environment.current.drift"})
  ++ In("rad", {"navigation.courseOverGroundTrue", "navigation.courseOverGroundMagnetic",
                "navigation.headingTrue", "navigation.headingMagnetic",
                "navigation.magneticVariation", "environment.wind.angleApparent",
                "environment.wind.angleTrueGround", "environment.wind.angleTrueWater",
                "environment.wind.directionTrue", "environment.wind.directionMagnetic",
                "environment.current.setTrue"})
  ++ In("m", {"environment.depth.belowTransducer", "environment.depth.belowKeel",
              "environment.depth.belowSurface"})
  ++ In("K", {"environment.outside.temperature", "environment.outside.dewPointTemperature",
              "environment.water.temperature"})
  ++ In("Pa", {"environment.outside.pressure"}) ++ In("ratio", {"environment.outside.humidity"})

(* The categories, for the paths of theirs the receivers fill; the engine  *)
(* and battery numbers are the ones of the messages below.                 *)
categories ==
  In("K", {"environment.inside.temperature", "propulsion.1.oilTemperature",
           "propulsion.1.coolantTemperature"})
  ++ In("Pa", {"propulsion.1.oilPressure"})
  ++ In("m", {"navigation.trip.log", "navigation.log",
              "navigation.courseGreatCircle.nextPoint.distance"})
  ++ In("rad", {"navigation.magneticDeviation", "navigation.attitude.roll",
                "navigation.attitude.pitch", "navigation.attitude.yaw",
                "navigation.courseGreatCircle.bearingTrackTrue",
                "navigation.courseGreatCircle.bearingTrackMagnetic",
                "navigation.courseGreatCircle.nextPoint.bearingTrue",
                "navigation.courseGreatCircle.nextPoint.bearingMagnetic",
                "steering.rudderAngle", "steering.rudderAnglePort"})
  ++ In("rad/s", {"navigation.rateOfTurn"})
  ++ In("V", {"electrical.batteries.1.voltage"}) ++ In("A", {"electrical.batteries.1.current"})
Revolutions == {"propulsion.engine1.revolutions", "propulsion.shaft1.revolutions",
                "propulsion.1.revolutions"}

(* How the paths of one of several engines or batteries are spelled.       *)
ASSUME NumberedAssumption ==
  /\ Numbered("propulsion.engine", 1, ".revolutions") = "propulsion.engine1.revolutions"
  /\ Numbered("propulsion.engine", 1, ".pitch") = "propulsion.engine1.pitch"
  /\ Numbered("propulsion.shaft", 1, ".revolutions") = "propulsion.shaft1.revolutions"
  /\ Numbered("propulsion.shaft", 1, ".pitch") = "propulsion.shaft1.pitch"
  /\ Numbered("propulsion.", 1, ".revolutions") = "propulsion.1.revolutions"
  /\ Numbered("propulsion.", 1, ".oilPressure") = "propulsion.1.oilPressure"
  /\ Numbered("propulsion.", 1, ".coolantTemperature") = "propulsion.1.coolantTemperature"
  /\ Numbered("propulsion.", 1, ".oilTemperature") = "propulsion.1.oilTemperature"
  /\ Numbered("propulsion.", 1, ".alternatorVoltage") = "propulsion.1.alternatorVoltage"
  /\ Numbered("electrical.batteries.", 1, ".voltage") = "electrical.batteries.1.voltage"
  /\ Numbered("electrical.batteries.", 1, ".current") = "electrical.batteries.1.current"
  /\ Numbered("electrical.batteries.", 1, ".temperature") = "electrical.batteries.1.temperature"

-----------------------------------------------------------------------------
(* One of every sentence and message, with any of its fields empty.        *)

With(kind, fields, always) ==
  { [f \in DOMAIN fields \cup DOMAIN always \cup {"kind"} |->
       CASE f = "kind" -> kind
         [] f \in empty -> Blank
         [] f \in DOMAIN fields \ empty -> fields[f]
         [] OTHER -> always[f]] : empty \in SUBSET DOMAIN fields }

Deg == Q(9000, "deg")      Kn == Q(1000, "kn")       Mps == Q(514, "m/s")
Celsius == Q(1200, "C")    Metre == Q(500, "m")      Foot == Q(1640, "ft")
Fathom == Q(273, "fathom") Mile == Q(150, "nmi")     Rad == Q(1571, "rad")
Kelvin == Q(28515, "K")
NoFields == [f \in {} |-> Blank]

RmcSentences ==
  With("RMC", [lat |-> 5450, lon |-> 1000, speed_over_ground |-> Kn, true_course |-> Deg,
               magnetic_variation |-> Q(-250, "deg")],
       [status_of_fix |-> "Autonomous", fix_date |-> "today", fix_time |-> "now"])
GgaSentences ==
  With("GGA", [latitude |-> 5450, longitude |-> 1000, altitude |-> 12, hdop |-> Plain(120),
               fix_satellites |-> Plain(8), fix_type |-> "DGps"], NoFields)
VtgSentences == With("VTG", [true_course |-> Deg, speed_over_ground |-> Kn], NoFields)
GllSentences == With("GLL", [latitude |-> 5450, longitude |-> 1000], [valid |-> TRUE])
GnsSentences ==
  With("GNS", [lat |-> 5450, lon |-> 1000, alt |-> 12, hdop |-> Plain(120),
               nsattelites |-> Plain(8), nav_status |-> "Caution"], NoFields)
HdtSentences == With("HDT", [heading |-> Deg], NoFields)
HdmSentences == With("HDM", [heading |-> Deg], NoFields)
HdgSentences ==
  With("HDG", [heading |-> Deg, deviation |-> Q(100, "deg"), variation |-> Q(-250, "deg")],
       NoFields)
VhwSentences ==
  With("VHW", [relative_speed_knots |-> Kn, heading_true |-> Deg, heading_magnetic |-> Deg],
       NoFields)
RotSentences == With("ROT", [rate |-> Q(3000, "deg/min")], [valid |-> TRUE])
VlwSentences ==
  With("VLW", [trip_water_distance |-> Mile, total_water_distance |-> Mile], NoFields)
VdrSentences == With("VDR", [direction_true |-> Deg, speed |-> Kn], NoFields)
RmbSentences ==
  With("RMB", [dest_latitude |-> 5450, dest_longitude |-> 1000, range_to_dest |-> Mile,
               bearing_to_dest |-> Deg, cross_track_error |-> Mile], [status |-> TRUE])
BwcSentences ==
  With("BWC", [latitude |-> 5450, longitude |-> 1000, true_bearing |-> Deg,
               magnetic_bearing |-> Deg, distance |-> Mile], NoFields)
BodSentences == With("BOD", [bearing_true |-> Deg, bearing_magnetic |-> Deg], NoFields)
XteSentences == With("XTE", [cross_track_error |-> Mile], [status_general |-> TRUE])

NavigationSentences ==
  UNION {RmcSentences, GgaSentences, VtgSentences, GllSentences, GnsSentences,
         HdtSentences, HdmSentences, HdgSentences, VhwSentences, RotSentences,
         VlwSentences, VdrSentences, RmbSentences, BwcSentences, BodSentences,
         XteSentences}

MwvSentences ==
  UNION {With("MWV", [wind_direction |-> Deg, wind_speed |-> Q(1000, u[2])],
              [data_valid |-> TRUE, reference |-> r, wind_speed_units |-> u[1]]) :
           r \in {"Relative", "Theoretical"},
           u \in {<<"Knots", "kn">>, <<"MetersPerSecond", "m/s">>,
                  <<"KilometersPerHour", "km/h">>, <<"MilesPerHour", "mph">>}}
MwdSentences ==
  With("MWD", [wind_direction_true |-> Deg, wind_direction_magnetic |-> Deg,
               wind_speed_mps |-> Mps, wind_speed_knots |-> Kn], NoFields)
RelativeWindSentences ==
  UNION {With(k, [wind_angle |-> Deg, speed_mps |-> Mps, speed_knots |-> Kn], NoFields) :
           k \in {"VWR", "VWT"}}
DptSentences ==
  UNION {With("DPT", [water_depth |-> Metre, offset |-> Q(o, "m")], NoFields) : o \in {50, -50}}
DepthSentences ==
  UNION {With(k, [depth_meters |-> Metre, depth_feet |-> Foot, depth_fathoms |-> Fathom],
              NoFields) : k \in {"DBT", "DBK"}}
DbsSentences ==
  With("DBS", [water_depth_meters |-> Metre, water_depth_feet |-> Foot,
               water_depth_fathoms |-> Fathom], NoFields)
MtwSentences == With("MTW", [temperature |-> Celsius], NoFields)
MdaSentences ==
  With("MDA", [pressure_bar |-> Q(10132, "bar"), air_temp_deg |-> Celsius,
               water_temp_deg |-> Celsius, rel_humidity |-> Q(5000, "%"),
               dew_point |-> Celsius, wind_direction_true |-> Deg, wind_speed_ms |-> Mps,
               wind_speed_knots |-> Kn], NoFields)
RsaSentences ==
  UNION {With("RSA", [starboard |-> Deg, port |-> Deg],
              [starboard_valid |-> s, port_valid |-> p]) : s \in BOOLEAN, p \in BOOLEAN}
RpmSentences ==
  UNION {With("RPM", [rpm |-> Q(180000, "rpm"), pitch |-> Q(5000, "%")],
              [valid |-> TRUE, source |-> s, source_number |-> 1]) : s \in {"Engine", "Shaft"}}
TransducerSentences ==
  {[kind |-> "XDR", measurements |-> <<m>>] : m \in
     {[type |-> "P", name |-> <<"BAR", "O">>, value |-> Q(10132, "bar")],
      [type |-> "C", name |-> <<"WTHI">>, value |-> Celsius],
      [type |-> "C", name |-> <<"AIR", "2">>, value |-> Celsius],
      [type |-> "H", name |-> <<"Humidity">>, value |-> Q(5000, "%")]}}

OtherSentences ==
  UNION {MwvSentences, MwdSentences, RelativeWindSentences, DptSentences,
         DepthSentences, DbsSentences, MtwSentences, MdaSentences, RsaSentences,
         RpmSentences, TransducerSentences}

VesselHeadingMessages ==
  UNION {With("VesselHeading", [heading |-> Rad, variation |-> Rad], [reference |-> r]) :
           r \in {"True", "Magnetic"}}
CogSogRapidUpdateMessages ==
  UNION {With("CogSogRapidUpdate", [cog |-> Rad, sog |-> Mps], [cog_reference |-> r]) :
           r \in {"True", "Magnetic"}}
SpeedMessages ==
  With("Speed", [speed_water_referenced |-> Mps, speed_ground_referenced |-> Mps], NoFields)
WaterDepthMessages ==
  UNION {With("WaterDepth", [depth |-> Metre, offset |-> Q(o, "m")], NoFields) : o \in {50, -50}}
DistanceLogMessages ==
  With("DistanceLog", [log |-> Metre, trip_log |-> Metre], NoFields)
GnssPositionDataMessages ==
  With("GnssPositionData", [latitude |-> 5450, longitude |-> 1000, altitude |-> 12], NoFields)
TimeDateMessages == With("TimeDate", [date |-> "today", time |-> "now"], NoFields)
CrossTrackErrorMessages == With("CrossTrackError", [xte |-> Metre], NoFields)
RateOfTurnMessages == With("RateOfTurn", [rate |-> Q(5, "rad/s")], NoFields)
AttitudeMessages ==
  With("Attitude", [yaw |-> Rad, pitch |-> Rad, roll |-> Rad], NoFields)
WindDataMessages ==
  UNION {With("WindData", [wind_speed |-> Mps, wind_angle |-> Rad], [reference |-> r]) :
           r \in {"Apparent", "TrueBoatReferenced", "TrueWaterReferenced",
                  "TrueGroundReferencedToNorth", "MagneticGroundReferencedToNorth"}}
TemperatureMessages ==
  UNION {With("Temperature", [actual_temperature |-> Kelvin], [source |-> s]) :
           s \in DOMAIN TemperaturePath \cup {"LiveWellTemperature"}}
RudderMessages == With("Rudder", [position |-> Rad], NoFields)
EngineParametersRapidUpdateMessages ==
  With("EngineParametersRapidUpdate", [speed |-> Q(180000, "rpm")], [instance |-> 1])
EngineParametersDynamicMessages ==
  With("EngineParametersDynamic",
       [oil_pressure |-> Q(300000, "Pa"), temperature |-> Kelvin,
        oil_temperature |-> Kelvin, alternator_potential |-> Q(1380, "V")], [instance |-> 1])
BatteryStatusMessages ==
  With("BatteryStatus", [voltage |-> Q(1250, "V"), current |-> Q(1000, "A"),
                         temperature |-> Kelvin], [instance |-> 1])

Messages ==
  UNION {VesselHeadingMessages, CogSogRapidUpdateMessages, SpeedMessages,
         WaterDepthMessages, DistanceLogMessages, GnssPositionDataMessages,
         TimeDateMessages, CrossTrackErrorMessages, RateOfTurnMessages,
         AttitudeMessages, WindDataMessages, TemperatureMessages, RudderMessages,
         EngineParametersRapidUpdateMessages, EngineParametersDynamicMessages,
         BatteryStatusMessages}

-----------------------------------------------------------------------------

UnitInit == heardValues = NoPaths /\ heardFrom = Blank

HearSentence ==
  \E s \in NavigationSentences \cup OtherSentences :
    heardValues' = sentence_to_delta(s) /\ heardFrom' = s
HearMessage ==
  \E m \in Messages :
    /\ heardValues' = IF decoded_to_delta(m) = Blank THEN NoPaths ELSE decoded_to_delta(m).values
    /\ heardFrom' = m
UnitNext == heardFrom = Blank /\ (HearSentence \/ HearMessage)

UnitSpec == UnitInit /\ [][UnitNext]_unitVars

(* Whatever sentence or message tells a path, with whatever other fields,  *)
(* tells it in the unit the server says it has.                            *)
UnitsAgree ==
  \A p \in DOMAIN heardValues \cap DOMAIN (default_metadata ++ categories) :
    heardValues[p].unit = (default_metadata ++ categories)[p]

(* The categories convert an engine's revolutions from hertz.              *)
RevolutionsInHertz == \A p \in DOMAIN heardValues \cap Revolutions : heardValues[p].unit = "Hz"
=============================================================================
