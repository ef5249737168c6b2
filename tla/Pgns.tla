-------------------------------- MODULE Pgns --------------------------------
(* What the NMEA 2000 receiver makes of a decoded message.  Its fields are *)
(* in SI units, but the engine's speed; `Blank' where none was sent.       *)
EXTENDS Contacts

-----------------------------------------------------------------------------
(* Navigation.                                                             *)

(* A reference that is neither true nor magnetic counts as true.           *)
from_vessel_heading(m) ==
  Opt(IF m.reference = "Magnetic" THEN "navigation.headingMagnetic"
                                  ELSE "navigation.headingTrue", m.heading)
    ++ Opt("navigation.magneticVariation", m.variation)

from_speed(m) ==
  Opt("navigation.speedThroughWater", m.speed_water_referenced)
    ++ Opt("navigation.speedOverGround", m.speed_ground_referenced)

from_water_depth(m) ==
  IF m.depth = Blank THEN NoPaths
  ELSE Opt("environment.depth.belowTransducer", m.depth) ++ OffsetDepth(m.depth, m.offset)

from_distance_log(m) ==
  Opt("navigation.log", m.log) ++ Opt("navigation.trip.log", m.trip_log)

from_position_rapid(m) == Position("navigation.position", m.latitude, m.longitude, Blank)

from_cog_sog_rapid(m) ==
  Opt(IF m.cog_reference = "Magnetic" THEN "navigation.courseOverGroundMagnetic"
                                      ELSE "navigation.courseOverGroundTrue", m.cog)
    ++ Opt("navigation.speedOverGround", m.sog)

from_gnss_position(m) == Position("navigation.position", m.latitude, m.longitude, m.altitude)

from_time_date(m) ==
  IF Blank \in {m.date, m.time} THEN NoPaths
  ELSE DateTime(m.date, m.time) ++ Clock(<<m.date, m.time>>)

from_cross_track_error(m) == Opt("navigation.courseGreatCircle.crossTrackError", m.xte)

from_rate_of_turn(m) == Opt("navigation.rateOfTurn", m.rate)

from_attitude(m) ==
  Opt("navigation.attitude.yaw", m.yaw)
    ++ Opt("navigation.attitude.pitch", m.pitch)
    ++ Opt("navigation.attitude.roll", m.roll)

-----------------------------------------------------------------------------
(* Environment, propulsion and batteries.                                  *)

WindPaths(reference) ==
  CASE reference = "Apparent" ->
         <<"environment.wind.speedApparent", "environment.wind.angleApparent">>
    [] reference \in {"TrueBoatReferenced", "TrueWaterReferenced"} ->
         <<"environment.wind.speedTrue", "environment.wind.angleTrueWater">>
    [] reference = "TrueGroundReferencedToNorth" ->
         <<"environment.wind.speedTrue", "environment.wind.angleTrueGround">>
    [] OTHER -> Blank

from_wind_data(m) ==
  IF WindPaths(m.reference) = Blank THEN NoPaths
  ELSE Opt(WindPaths(m.reference)[1], m.wind_speed)
         ++ Opt(WindPaths(m.reference)[2], m.wind_angle)

TemperaturePath ==
  [SeaTemperature       |-> "environment.water.temperature",
   OutsideTemperature   |-> "environment.outside.temperature",
   InsideTemperature    |-> "environment.inside.temperature",
   MainCabinTemperature |-> "environment.inside.mainCabinTemperature"]

from_temperature(m) ==
  IF m.source \notin DOMAIN TemperaturePath THEN NoPaths
  ELSE Opt(TemperaturePath[m.source], m.actual_temperature)

from_rudder(m) == Opt("steering.rudderAngle", m.position)

engine_path(instance, rest) == Numbered("propulsion.", OrElse(instance, 0), rest)

(* Revolutions a minute become radians a second.                           *)
from_engine_rapid(m) ==
  Opt(engine_path(m.instance, ".revolutions"),
      Scaled(m.speed, "rpm", "rad/s", 10472, 100000))

from_engine_dynamic(m) ==
  Opt(engine_path(m.instance, ".oilPressure"), m.oil_pressure)
    ++ Opt(engine_path(m.instance, ".coolantTemperature"), m.temperature)
    ++ Opt(engine_path(m.instance, ".oilTemperature"), m.oil_temperature)
    ++ Opt(engine_path(m.instance, ".alternatorVoltage"), m.alternator_potential)

from_battery_status(m) ==
  LET battery(rest) == Numbered("electrical.batteries.", OrElse(m.instance, 0), rest)
  IN  Opt(battery(".voltage"), m.voltage)
        ++ Opt(battery(".current"), m.current)
        ++ Opt(battery(".temperature"), m.temperature)

-----------------------------------------------------------------------------
(* Other vessels.  The number of the sender is needed, nothing else.       *)

Told(m, known) == IF m.user_id = Blank THEN Blank ELSE to_delta(AisContact(m.user_id, known))

Under(m, heading) ==
  [position |-> LatLon(m.latitude, m.longitude), sog_ms |-> m.sog, cog_rad |-> m.cog,
   heading_rad |-> heading]
Hull(m) == [length |-> Positive(m.length), beam |-> Positive(m.beam)]

from_ais_class_a_position(m) ==
  Told(m, Under(m, m.heading) ++ [rot_rads |-> m.rate_of_turn, nav_status |-> m.nav_status])

from_ais_class_b_position(m) == Told(m, Under(m, m.heading))

from_ais_class_b_extended(m) ==
  Told(m, Under(m, m.true_heading) ++ Hull(m) ++ [name |-> m.name, ship_type |-> m.type_of_ship])

from_ais_class_a_static(m) ==
  Told(m, Hull(m) ++ [name |-> m.name, callsign |-> m.callsign, imo |-> m.imo_number,
                      ship_type |-> m.type_of_ship, destination |-> m.destination,
                      draught |-> m.draft])

from_ais_static_24a(m) == Told(m, [name |-> m.name])

from_ais_static_24b(m) ==
  Told(m, Hull(m) ++ [callsign |-> m.callsign, ship_type |-> m.type_of_ship])

-----------------------------------------------------------------------------

self_delta(values) == IF values = NoPaths THEN Blank ELSE DeltaFor(OwnVessel, values)

decoded_to_delta(m) ==
  CASE m.kind = "VesselHeading"       -> self_delta(from_vessel_heading(m))
    [] m.kind = "Speed"               -> self_delta(from_speed(m))
    [] m.kind = "WaterDepth"          -> self_delta(from_water_depth(m))
    [] m.kind = "PositionRapidUpdate" -> self_delta(from_position_rapid(m))
    [] m.kind = "CogSogRapidUpdate"   -> self_delta(from_cog_sog_rapid(m))
    [] m.kind = "GnssPositionData"    -> self_delta(from_gnss_position(m))
    [] m.kind = "RateOfTurn"          -> self_delta(from_rate_of_turn(m))
    [] m.kind = "Attitude"            -> self_delta(from_attitude(m))
    [] m.kind = "DistanceLog"         -> self_delta(from_distance_log(m))
    [] m.kind = "TimeDate"            -> self_delta(from_time_date(m))
    [] m.kind = "CrossTrackError"     -> self_delta(from_cross_track_error(m))
    [] m.kind = "WindData"            -> self_delta(from_wind_data(m))
    [] m.kind = "Temperature"         -> self_delta(from_temperature(m))
    [] m.kind = "Rudder"              -> self_delta(from_rudder(m))
    [] m.kind = "EngineParametersRapidUpdate" -> self_delta(from_engine_rapid(m))
    [] m.kind = "EngineParametersDynamic"     -> self_delta(from_engine_dynamic(m))
    [] m.kind = "BatteryStatus"               -> self_delta(from_battery_status(m))
    [] m.kind = "AisClassAPositionReport"         -> from_ais_class_a_position(m)
    [] m.kind = "AisClassBPositionReport"         -> from_ais_class_b_position(m)
    [] m.kind = "AisClassBExtendedPositionReport" -> from_ais_class_b_extended(m)
    [] m.kind = "AisClassAStaticAndVoyageRelatedData" -> from_ais_class_a_static(m)
    [] m.kind = "AisClassBStaticDataMsg24PartA"       -> from_ais_static_24a(m)
    [] m.kind = "AisClassBStaticDataMsg24PartB"       -> from_ais_static_24b(m)
    [] OTHER -> Blank
=============================================================================
