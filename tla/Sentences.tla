------------------------------ MODULE Sentences -----------------------------
(* What the NMEA 0183 receivers make of a parsed sentence: a delta for the *)
(* own vessel, a function from paths to values.                            *)
(*                                                                         *)
(* A sentence is a record of its fields as the parser names them, `Blank'  *)
(* for an empty one.  A quantity carries its unit, and is converted by the *)
(* factor the code multiplies with; a factor applied to another unit than  *)
(* it is meant for gives a quantity of no unit at all.  Quantities are     *)
(* whole numbers: of hundredths, but thousandths of a radian, whole metres *)
(* on the log and for a waypoint, ten-thousandths of a bar, whole pascals. *)
EXTENDS PathValues

CONSTANT Blank

(* An empty field is no number, no position and no quantity.               *)
UnitNames == {"m/s", "kn", "km/h", "mph", "rad", "deg", "m", "ft", "fathom", "nmi", "K", "C",
              "Pa", "bar", "ratio", "%", "Hz", "rpm", "rad/s", "deg/min", "V", "A", "none"}
LatLons == [latitude : Int, longitude : Int, altitude : Int \cup {Blank}]
ASSUME BlankAssumption ==
  Blank \notin Int \cup [n : Int, unit : UnitNames] \cup [n : LatLons, unit : {"position"}]
                  \cup [n : [pitch : Int, roll : Int], unit : {"attitude"}]

Q(n, unit) == [n |-> n, unit |-> unit]
Plain(n)   == Q(n, "")
Opt(path, q) == IF q = Blank THEN NoPaths ELSE [p \in {path} |-> q]
OrElse(q, r) == IF q # Blank THEN q ELSE r
Mapped(f(_), x) == IF x = Blank THEN Blank ELSE f(x)

Scaled(q, from, to, num, den) ==
  IF q = Blank THEN Blank
  ELSE Q((q.n * num) \div den, IF q.unit = from THEN to ELSE "none")

Knots(q)    == Scaled(q, "kn", "m/s", 514444, 1000000)
Radians(q)  == Scaled(q, "deg", "rad", 17453, 100000)
Miles(q)    == Scaled(q, "nmi", "m", 1852, 100)
Feet(q)     == Scaled(q, "ft", "m", 3048, 10000)
Fathoms(q)  == Scaled(q, "fathom", "m", 18288, 10000)
Pascals(q)  == Scaled(q, "bar", "Pa", 10, 1)
Ratio(q)    == Scaled(q, "%", "ratio", 1, 100)
PerSecond(q) == Scaled(q, "rpm", "Hz", 1, 60)
Kelvins(q) ==
  IF q = Blank THEN Blank ELSE Q(q.n + 27315, IF q.unit = "C" THEN "K" ELSE "none")

Position(path, lat, lon, alt) ==
  IF lat = Blank \/ lon = Blank THEN NoPaths
  ELSE Opt(path, Q([latitude |-> lat, longitude |-> lon, altitude |-> alt], "position"))

(* A receiver always means UTC.                                            *)
Clock(millis) ==
  Opt("environment.time.millis", Q(millis, "ms"))
    ++ Opt("environment.time.timezoneOffset", Q(0, "s"))
    ++ Opt("environment.time.timezoneRegion", Q("UTC", "text"))
DateTime(date, time) == Opt("navigation.datetime", Q(<<date, time>>, "date"))

-----------------------------------------------------------------------------
(* Position.                                                               *)

(* The position is taken whatever the status says, the clock only from a   *)
(* valid fix.                                                              *)
from_rmc(s) ==
  Position("navigation.position", s.lat, s.lon, Blank)
    ++ Opt("navigation.speedOverGround", Knots(s.speed_over_ground))
    ++ Opt("navigation.courseOverGroundTrue", Radians(s.true_course))
    ++ Opt("navigation.magneticVariation", Radians(s.magnetic_variation))
    ++ IF s.status_of_fix # "Invalid" /\ s.fix_date # Blank /\ s.fix_time # Blank
       THEN DateTime(s.fix_date, s.fix_time) ++ Clock(<<s.fix_date, s.fix_time>>)
       ELSE NoPaths

FixMethod ==
  [Invalid |-> "no GPS", Gps |-> "GNSS", DGps |-> "DGNSS", Pps |-> "PPS",
   Rtk |-> "RTK fixed", FloatRtk |-> "RTK float", Estimated |-> "estimated",
   Manual |-> "manual", Sbas |-> "DGNSS", Simulation |-> "simulation"]

from_gga(s) ==
  Position("navigation.position", s.latitude, s.longitude, s.altitude)
    ++ Opt("navigation.gnss.horizontalDilution", s.hdop)
    ++ Opt("navigation.gnss.satellites", s.fix_satellites)
    ++ Opt("navigation.gnss.methodQuality",
           Mapped(LAMBDA fix : Q(FixMethod[fix], "text"), s.fix_type))

from_vtg(s) ==
  Opt("navigation.courseOverGroundTrue", Radians(s.true_course))
    ++ Opt("navigation.speedOverGround", Knots(s.speed_over_ground))

from_gll(s) ==
  IF ~s.valid THEN NoPaths
  ELSE Position("navigation.position", s.latitude, s.longitude, Blank)

-----------------------------------------------------------------------------
(* Wind.                                                                   *)

WindSpeed(s) ==
  CASE s.wind_speed_units = "Knots"             -> Knots(s.wind_speed)
    [] s.wind_speed_units = "MetersPerSecond"   -> s.wind_speed
    [] s.wind_speed_units = "KilometersPerHour" -> Scaled(s.wind_speed, "km/h", "m/s", 10, 36)
    [] s.wind_speed_units = "MilesPerHour"      -> Scaled(s.wind_speed, "mph", "m/s", 44704, 100000)
    [] OTHER -> Blank

from_mwv(s) ==
  CASE s.data_valid /\ s.reference = "Relative" ->
         Opt("environment.wind.angleApparent", Radians(s.wind_direction))
           ++ Opt("environment.wind.speedApparent", WindSpeed(s))
    [] s.data_valid /\ s.reference = "Theoretical" ->
         Opt("environment.wind.angleTrueWater", Radians(s.wind_direction))
           ++ Opt("environment.wind.speedTrue", WindSpeed(s))
    [] OTHER -> NoPaths

from_mwd(s) ==
  Opt("environment.wind.directionTrue", Radians(s.wind_direction_true))
    ++ Opt("environment.wind.directionMagnetic", Radians(s.wind_direction_magnetic))
    ++ Opt("environment.wind.speedTrue", OrElse(s.wind_speed_mps, Knots(s.wind_speed_knots)))

from_vwr(s) ==
  Opt("environment.wind.angleApparent", Radians(s.wind_angle))
    ++ Opt("environment.wind.speedApparent", OrElse(s.speed_mps, Knots(s.speed_knots)))

from_vwt(s) ==
  Opt("environment.wind.angleTrueWater", Radians(s.wind_angle))
    ++ Opt("environment.wind.speedTrue", OrElse(s.speed_mps, Knots(s.speed_knots)))

-----------------------------------------------------------------------------
(* Heading.                                                                *)

from_hdt(s) == Opt("navigation.headingTrue", Radians(s.heading))

from_hdg(s) ==
  Opt("navigation.headingMagnetic", Radians(s.heading))
    ++ Opt("navigation.magneticDeviation", Radians(s.deviation))
    ++ Opt("navigation.magneticVariation", Radians(s.variation))

from_hdm(s) == Opt("navigation.headingMagnetic", Radians(s.heading))

from_vhw(s) ==
  Opt("navigation.speedThroughWater", Knots(s.relative_speed_knots))
    ++ Opt("navigation.headingTrue", Radians(s.heading_true))
    ++ Opt("navigation.headingMagnetic", Radians(s.heading_magnetic))

(* Degrees a minute; a status that is missing counts as valid.             *)
TurnRate(q) == Scaled(q, "deg/min", "rad/s", 17453, 6000000)
from_rot(s) == IF s.valid = FALSE THEN NoPaths ELSE Opt("navigation.rateOfTurn", TurnRate(s.rate))

-----------------------------------------------------------------------------
(* Depth.                                                                  *)

(* The sign of the offset says what the depth is counted from.             *)
OffsetDepth(depth, offset) ==
  IF offset = Blank THEN NoPaths
  ELSE Opt(IF offset.n >= 0 THEN "environment.depth.belowSurface"
                            ELSE "environment.depth.belowKeel",
           Q(depth.n + offset.n, IF depth.unit = offset.unit THEN depth.unit ELSE "none"))

from_dpt(s) ==
  IF s.water_depth = Blank THEN NoPaths
  ELSE Opt("environment.depth.belowTransducer", s.water_depth)
         ++ OffsetDepth(s.water_depth, s.offset)

Depth(metres, feet, fathoms) == OrElse(metres, OrElse(Feet(feet), Fathoms(fathoms)))

from_dbt(s) ==
  Opt("environment.depth.belowTransducer", Depth(s.depth_meters, s.depth_feet, s.depth_fathoms))
from_dbs(s) ==
  Opt("environment.depth.belowSurface",
      Depth(s.water_depth_meters, s.water_depth_feet, s.water_depth_fathoms))
from_dbk(s) ==
  Opt("environment.depth.belowKeel", Depth(s.depth_meters, s.depth_feet, s.depth_fathoms))

-----------------------------------------------------------------------------
(* Course.                                                                 *)

from_rmb(s) ==
  IF ~s.status THEN NoPaths
  ELSE Position("navigation.courseGreatCircle.nextPoint.position",
                s.dest_latitude, s.dest_longitude, Blank)
         ++ Opt("navigation.courseGreatCircle.nextPoint.distance", Miles(s.range_to_dest))
         ++ Opt("navigation.courseGreatCircle.nextPoint.bearingTrue", Radians(s.bearing_to_dest))
         ++ Opt("navigation.courseGreatCircle.crossTrackError", Miles(s.cross_track_error))

from_bwc(s) ==
  Position("navigation.courseGreatCircle.nextPoint.position", s.latitude, s.longitude, Blank)
    ++ Opt("navigation.courseGreatCircle.nextPoint.bearingTrue", Radians(s.true_bearing))
    ++ Opt("navigation.courseGreatCircle.nextPoint.bearingMagnetic", Radians(s.magnetic_bearing))
    ++ Opt("navigation.courseGreatCircle.nextPoint.distance", Miles(s.distance))

from_bod(s) ==
  Opt("navigation.courseGreatCircle.bearingTrackTrue", Radians(s.bearing_true))
    ++ Opt("navigation.courseGreatCircle.bearingTrackMagnetic", Radians(s.bearing_magnetic))

from_xte(s) ==
  IF ~s.status_general THEN NoPaths
  ELSE Opt("navigation.courseGreatCircle.crossTrackError", Miles(s.cross_track_error))

-----------------------------------------------------------------------------
(* Environment.                                                            *)

from_mtw(s) == Opt("environment.water.temperature", Kelvins(s.temperature))

from_mda(s) ==
  Opt("environment.outside.pressure", Pascals(s.pressure_bar))
    ++ Opt("environment.outside.temperature", Kelvins(s.air_temp_deg))
    ++ Opt("environment.water.temperature", Kelvins(s.water_temp_deg))
    ++ Opt("environment.outside.humidity", Ratio(s.rel_humidity))
    ++ Opt("environment.outside.dewPointTemperature", Kelvins(s.dew_point))
    ++ Opt("environment.wind.directionTrue", Radians(s.wind_direction_true))
    ++ Opt("environment.wind.speedTrue", OrElse(s.wind_speed_ms, Knots(s.wind_speed_knots)))

from_vdr(s) ==
  Opt("environment.current.setTrue", Radians(s.direction_true))
    ++ Opt("environment.current.drift", Knots(s.speed))

from_vlw_miles(s) ==
  Opt("navigation.trip.log", s.trip_water_distance)
    ++ Opt("navigation.log", Miles(s.total_water_distance))

from_vlw(s) ==
  Opt("navigation.trip.log", Miles(s.trip_water_distance))
    ++ Opt("navigation.log", Miles(s.total_water_distance))

-----------------------------------------------------------------------------
(* Satellites and time.                                                    *)

DaysIn(month, year) ==
  CASE month \in {4, 6, 9, 11} -> 30
    [] month = 2 -> IF year % 4 = 0 /\ (year % 100 # 0 \/ year % 400 = 0) THEN 29 ELSE 28
    [] OTHER -> 31
from_ymd_opt(year, month, day) == month \in 1 .. 12 /\ day \in 1 .. DaysIn(month, year)

(* A day the month does not have is still written as the date.             *)
from_zda(s) ==
  IF Blank \in {s.utc_time, s.day, s.month, s.year} THEN NoPaths
  ELSE LET date == <<s.year, s.month, s.day>>
       IN  DateTime(date, s.utc_time)
             ++ IF from_ymd_opt(s.year, s.month, s.day) THEN Clock(<<date, s.utc_time>>)
                                                        ELSE NoPaths

from_gsa(s) ==
  Opt("navigation.gnss.horizontalDilution", s.hdop)
    ++ Opt("navigation.gnss.positionDilution", s.pdop)
    ++ IF s.fix_sats_prn = <<>> THEN NoPaths
       ELSE Opt("navigation.gnss.satellites", Plain(Len(s.fix_sats_prn)))

NavMethod ==
  [Safe |-> "GNSS", Caution |-> "GNSS", Unsafe |-> "estimated",
   NotValidForNavigation |-> "no GPS"]

from_gns(s) ==
  Position("navigation.position", s.lat, s.lon, s.alt)
    ++ Opt("navigation.gnss.horizontalDilution", s.hdop)
    ++ Opt("navigation.gnss.satellites", s.nsattelites)
    ++ Opt("navigation.gnss.methodQuality",
           Mapped(LAMBDA st : Q(NavMethod[st], "text"), s.nav_status))

-----------------------------------------------------------------------------
(* Rudder, engines and transducers.                                        *)

from_rsa(s) ==
  Opt("steering.rudderAngle", IF s.starboard_valid THEN Radians(s.starboard) ELSE Blank)
    ++ Opt("steering.rudderAnglePort", IF s.port_valid THEN Radians(s.port) ELSE Blank)

from_rpm(s) ==
  LET number == OrElse(s.source_number, 0)
      prefix == IF s.source = "Engine" THEN "propulsion.engine" ELSE "propulsion.shaft"
  IN  IF ~s.valid THEN NoPaths
      ELSE Opt(Numbered(prefix, number, ".revolutions"), PerSecond(s.rpm))
             ++ Opt(Numbered(prefix, number, ".pitch"), Ratio(s.pitch))

(* The names a transducer may have, in pieces: all of it, or how it starts. *)
Known(type, exact, starts, path, convert) ==
  [type |-> type, exact |-> exact, starts |-> starts, path |-> path, convert |-> convert]
MAPPINGS ==
  { Known("P", {<<"Barometer">>}, {<<"BAR">>}, "environment.outside.pressure", "bar"),
    Known("C", {<<"WTHI">>, <<"ENV_WATER_T">>}, {<<"WATER">>},
          "environment.water.temperature", "C"),
    Known("C", {<<"TempAir">>}, {<<"ENV_OUTAIR">>, <<"AIR">>},
          "environment.outside.temperature", "C"),
    Known("A", {<<"PTCH">>, <<"PITCH">>, <<"Pitch">>}, {}, "pitch", "deg"),
    Known("A", {<<"ROLL">>, <<"Roll">>}, {}, "roll", "deg"),
    Known("H", {<<"Humidity">>}, {<<"ENV_OUTSIDE_H">>, <<"HUM">>},
          "environment.outside.humidity", "%"),
    Known("U", {}, {<<"BATT">>}, "electrical.batteries.main.voltage", "V") }

name_matches(row, name) == name \in row.exact \/ \E p \in row.starts : IsPrefix(p, name)

Converted(convert, q) ==
  CASE convert = "bar" -> Pascals(q)
    [] convert = "C"   -> Kelvins(q)
    [] convert = "deg" -> Radians(q)
    [] convert = "%"   -> Ratio(q)
    [] convert = "V"   -> q

(* Pitch and roll become one value.                                        *)
from_xdr(s) ==
  LET rows(m) == {row \in MAPPINGS : row.type = m.type /\ name_matches(row, m.name)}
      one(m)  == IF m.value = Blank \/ rows(m) = {} THEN NoPaths
                 ELSE LET row == CHOOSE r \in rows(m) : TRUE
                      IN  Opt(row.path, Converted(row.convert, m.value))
      all     == Merged([i \in DOMAIN s.measurements |-> one(s.measurements[i])])
      part(p) == IF p \in DOMAIN all THEN all[p].n ELSE Blank
  IN  [p \in DOMAIN all \ {"pitch", "roll"} |-> all[p]]
        ++ IF {"pitch", "roll"} \cap DOMAIN all = {} THEN NoPaths
           ELSE Opt("navigation.attitude",
                    Q([pitch |-> part("pitch"), roll |-> part("roll")], "attitude"))

-----------------------------------------------------------------------------

(* Nothing comes of a sentence of another kind, or without a usable value. *)
sentence_to_delta(s) ==
  CASE s.kind = "RMC" -> from_rmc(s) [] s.kind = "GGA" -> from_gga(s)
    [] s.kind = "VTG" -> from_vtg(s) [] s.kind = "HDT" -> from_hdt(s)
    [] s.kind = "MWV" -> from_mwv(s) [] s.kind = "DPT" -> from_dpt(s)
    [] s.kind = "HDG" -> from_hdg(s) [] s.kind = "HDM" -> from_hdm(s)
    [] s.kind = "VHW" -> from_vhw(s) [] s.kind = "MTW" -> from_mtw(s)
    [] s.kind = "ROT" -> from_rot(s) [] s.kind = "MDA" -> from_mda(s)
    [] s.kind = "MWD" -> from_mwd(s) [] s.kind = "RSA" -> from_rsa(s)
    [] s.kind = "RPM" -> from_rpm(s) [] s.kind = "GLL" -> from_gll(s)
    [] s.kind = "DBT" -> from_dbt(s) [] s.kind = "DBS" -> from_dbs(s)
    [] s.kind = "DBK" -> from_dbk(s) [] s.kind = "VDR" -> from_vdr(s)
    [] s.kind = "VLW" -> from_vlw(s) [] s.kind = "VWR" -> from_vwr(s)
    [] s.kind = "VWT" -> from_vwt(s) [] s.kind = "RMB" -> from_rmb(s)
    [] s.kind = "BWC" -> from_bwc(s) [] s.kind = "BOD" -> from_bod(s)
    [] s.kind = "XTE" -> from_xte(s) [] s.kind = "GSA" -> from_gsa(s)
    [] s.kind = "GNS" -> from_gns(s) [] s.kind = "ZDA" -> from_zda(s)
    [] s.kind = "XDR" -> from_xdr(s) [] OTHER -> NoPaths
=============================================================================
