----------------------------- MODULE WireProofs -----------------------------
(* Theorems about what crosses the wires: the units of the sentences and   *)
(* messages that are received, and what receivers make of the ones that    *)
(* are sent.                                                               *)
EXTENDS Units, NmeaSend, Simulator, PathValuesProofs, TLAPS

-----------------------------------------------------------------------------
(* The units of the paths.                                                 *)

PathUnits == default_metadata ++ categories
InUnits(values) ==
  \A p \in DOMAIN values : p \in DOMAIN PathUnits => values[p].unit = PathUnits[p]

SpeedPaths ==
  {"navigation.speedOverGround", "navigation.speedThroughWater",
   "environment.wind.speedApparent", "environment.wind.speedTrue",
   "environment.current.drift"}

AnglePaths ==
  {"navigation.courseOverGroundTrue", "navigation.courseOverGroundMagnetic",
   "navigation.headingTrue", "navigation.headingMagnetic", "navigation.magneticVariation",
   "environment.wind.angleApparent", "environment.wind.angleTrueGround",
   "environment.wind.angleTrueWater", "environment.wind.directionTrue",
   "environment.wind.directionMagnetic", "environment.current.setTrue",
   "navigation.magneticDeviation", "navigation.attitude.roll", "navigation.attitude.pitch",
   "navigation.attitude.yaw", "navigation.courseGreatCircle.bearingTrackTrue",
   "navigation.courseGreatCircle.bearingTrackMagnetic",
   "navigation.courseGreatCircle.nextPoint.bearingTrue",
   "navigation.courseGreatCircle.nextPoint.bearingMagnetic", "steering.rudderAngle",
   "steering.rudderAnglePort"}

LengthPaths ==
  {"environment.depth.belowTransducer", "environment.depth.belowKeel",
   "environment.depth.belowSurface", "navigation.trip.log", "navigation.log",
   "navigation.courseGreatCircle.nextPoint.distance"}

TemperaturePaths ==
  {"environment.outside.temperature", "environment.outside.dewPointTemperature",
   "environment.water.temperature", "environment.inside.temperature",
   "propulsion.1.oilTemperature", "propulsion.1.coolantTemperature"}

PressurePaths ==
  {"environment.outside.pressure", "propulsion.1.oilPressure"}

(* The others have no unit of the server's.                                *)
UnitlessPaths ==
  {"navigation.position", "navigation.datetime", "environment.time.millis",
   "environment.time.timezoneOffset", "environment.time.timezoneRegion",
   "navigation.gnss.horizontalDilution", "navigation.gnss.satellites",
   "navigation.gnss.methodQuality", "navigation.gnss.positionDilution",
   "navigation.courseGreatCircle.nextPoint.position",
   "navigation.courseGreatCircle.crossTrackError", "navigation.attitude", "pitch", "roll",
   "electrical.batteries.main.voltage", "environment.inside.mainCabinTemperature",
   "propulsion.engine1.revolutions", "propulsion.engine1.pitch",
   "propulsion.shaft1.revolutions", "propulsion.shaft1.pitch", "propulsion.1.revolutions",
   "propulsion.1.alternatorVoltage", "electrical.batteries.1.temperature"}

LEMMA InValue ==
  ASSUME NEW unit, NEW paths
  PROVE  DOMAIN In(unit, paths) = paths /\ \A p \in paths : In(unit, paths)[p] = unit
  BY DEF In

(* The default metadata have these units, for the paths they know.         *)
LEMMA MetadataUnits ==
  /\ \A p \in SpeedPaths : p \in DOMAIN default_metadata => default_metadata[p] = "m/s"
  /\ \A p \in AnglePaths : p \in DOMAIN default_metadata => default_metadata[p] = "rad"
  /\ \A p \in LengthPaths : p \in DOMAIN default_metadata => default_metadata[p] = "m"
  /\ \A p \in TemperaturePaths : p \in DOMAIN default_metadata => default_metadata[p] = "K"
  /\ \A p \in PressurePaths : p \in DOMAIN default_metadata => default_metadata[p] = "Pa"
  /\ "environment.outside.humidity" \in DOMAIN default_metadata => default_metadata["environment.outside.humidity"] = "ratio"
  /\ "navigation.rateOfTurn" \in DOMAIN default_metadata => default_metadata["navigation.rateOfTurn"] = "rad/s"
  /\ "electrical.batteries.1.voltage" \in DOMAIN default_metadata => default_metadata["electrical.batteries.1.voltage"] = "V"
  /\ "electrical.batteries.1.current" \in DOMAIN default_metadata => default_metadata["electrical.batteries.1.current"] = "A"
  /\ \A p \in UnitlessPaths : p \notin DOMAIN default_metadata
<1>1. \A p \in SpeedPaths : p \in DOMAIN default_metadata => default_metadata[p] = "m/s"
  BY JoinValue, InValue DEF default_metadata, SpeedPaths
<1>2. \A p \in AnglePaths : p \in DOMAIN default_metadata => default_metadata[p] = "rad"
  BY JoinValue, InValue DEF default_metadata, AnglePaths
<1>3. \A p \in LengthPaths : p \in DOMAIN default_metadata => default_metadata[p] = "m"
  BY JoinValue, InValue DEF default_metadata, LengthPaths
<1>4. \A p \in TemperaturePaths : p \in DOMAIN default_metadata => default_metadata[p] = "K"
  BY JoinValue, InValue DEF default_metadata, TemperaturePaths
<1>5. \A p \in PressurePaths : p \in DOMAIN default_metadata => default_metadata[p] = "Pa"
  BY JoinValue, InValue DEF default_metadata, PressurePaths
<1>6. "environment.outside.humidity" \in DOMAIN default_metadata => default_metadata["environment.outside.humidity"] = "ratio"
  BY JoinValue, InValue DEF default_metadata
<1>7. "navigation.rateOfTurn" \in DOMAIN default_metadata => default_metadata["navigation.rateOfTurn"] = "rad/s"
  BY JoinValue, InValue DEF default_metadata
<1>8. "electrical.batteries.1.voltage" \in DOMAIN default_metadata => default_metadata["electrical.batteries.1.voltage"] = "V"
  BY JoinValue, InValue DEF default_metadata
<1>9. "electrical.batteries.1.current" \in DOMAIN default_metadata => default_metadata["electrical.batteries.1.current"] = "A"
  BY JoinValue, InValue DEF default_metadata
<1>10. \A p \in UnitlessPaths : p \notin DOMAIN default_metadata
  BY JoinValue, InValue DEF default_metadata, UnitlessPaths
<1>11. QED BY <1>1, <1>2, <1>3, <1>4, <1>5, <1>6, <1>7, <1>8, <1>9, <1>10

(* So have the categories.                                                 *)
LEMMA CategoryUnits ==
  /\ \A p \in SpeedPaths : p \in DOMAIN categories => categories[p] = "m/s"
  /\ \A p \in AnglePaths : p \in DOMAIN categories => categories[p] = "rad"
  /\ \A p \in LengthPaths : p \in DOMAIN categories => categories[p] = "m"
  /\ \A p \in TemperaturePaths : p \in DOMAIN categories => categories[p] = "K"
  /\ \A p \in PressurePaths : p \in DOMAIN categories => categories[p] = "Pa"
  /\ "environment.outside.humidity" \in DOMAIN categories => categories["environment.outside.humidity"] = "ratio"
  /\ "navigation.rateOfTurn" \in DOMAIN categories => categories["navigation.rateOfTurn"] = "rad/s"
  /\ "electrical.batteries.1.voltage" \in DOMAIN categories => categories["electrical.batteries.1.voltage"] = "V"
  /\ "electrical.batteries.1.current" \in DOMAIN categories => categories["electrical.batteries.1.current"] = "A"
  /\ \A p \in UnitlessPaths : p \notin DOMAIN categories
<1>1. \A p \in SpeedPaths : p \in DOMAIN categories => categories[p] = "m/s"
  BY JoinValue, InValue DEF categories, SpeedPaths
<1>2. \A p \in AnglePaths : p \in DOMAIN categories => categories[p] = "rad"
  BY JoinValue, InValue DEF categories, AnglePaths
<1>3. \A p \in LengthPaths : p \in DOMAIN categories => categories[p] = "m"
  BY JoinValue, InValue DEF categories, LengthPaths
<1>4. \A p \in TemperaturePaths : p \in DOMAIN categories => categories[p] = "K"
  BY JoinValue, InValue DEF categories, TemperaturePaths
<1>5. \A p \in PressurePaths : p \in DOMAIN categories => categories[p] = "Pa"
  BY JoinValue, InValue DEF categories, PressurePaths
<1>6. "environment.outside.humidity" \in DOMAIN categories => categories["environment.outside.humidity"] = "ratio"
  BY JoinValue, InValue DEF categories
<1>7. "navigation.rateOfTurn" \in DOMAIN categories => categories["navigation.rateOfTurn"] = "rad/s"
  BY JoinValue, InValue DEF categories
<1>8. "electrical.batteries.1.voltage" \in DOMAIN categories => categories["electrical.batteries.1.voltage"] = "V"
  BY JoinValue, InValue DEF categories
<1>9. "electrical.batteries.1.current" \in DOMAIN categories => categories["electrical.batteries.1.current"] = "A"
  BY JoinValue, InValue DEF categories
<1>10. \A p \in UnitlessPaths : p \notin DOMAIN categories
  BY JoinValue, InValue DEF categories, UnitlessPaths
<1>11. QED BY <1>1, <1>2, <1>3, <1>4, <1>5, <1>6, <1>7, <1>8, <1>9, <1>10

LEMMA UnitTable ==
  /\ \A p \in SpeedPaths : p \in DOMAIN PathUnits => PathUnits[p] = "m/s"
  /\ \A p \in AnglePaths : p \in DOMAIN PathUnits => PathUnits[p] = "rad"
  /\ \A p \in LengthPaths : p \in DOMAIN PathUnits => PathUnits[p] = "m"
  /\ \A p \in TemperaturePaths : p \in DOMAIN PathUnits => PathUnits[p] = "K"
  /\ \A p \in PressurePaths : p \in DOMAIN PathUnits => PathUnits[p] = "Pa"
  /\ "environment.outside.humidity" \in DOMAIN PathUnits => PathUnits["environment.outside.humidity"] = "ratio"
  /\ "navigation.rateOfTurn" \in DOMAIN PathUnits => PathUnits["navigation.rateOfTurn"] = "rad/s"
  /\ "electrical.batteries.1.voltage" \in DOMAIN PathUnits => PathUnits["electrical.batteries.1.voltage"] = "V"
  /\ "electrical.batteries.1.current" \in DOMAIN PathUnits => PathUnits["electrical.batteries.1.current"] = "A"
  /\ \A p \in UnitlessPaths : p \notin DOMAIN PathUnits
  BY MetadataUnits, CategoryUnits, JoinValue DEF PathUnits

-----------------------------------------------------------------------------
(* What keeps the units.                                                   *)

(* A field is empty, or a quantity of its unit.                            *)
FieldOf(unit) == {Blank} \cup [n : Int, unit : {unit}]

LEMMA JoinInUnits ==
  ASSUME NEW f, NEW g, InUnits(f), InUnits(g)
  PROVE  InUnits(f ++ g)
  BY JoinValue DEF InUnits

LEMMA NoPathsInUnits == InUnits(NoPaths)
  BY DEF InUnits, NoPaths

LEMMA OptIs ==
  ASSUME NEW path, NEW q, q = Blank \/ path \notin DOMAIN PathUnits \/ q.unit = PathUnits[path]
  PROVE  InUnits(Opt(path, q))
  BY DEF InUnits, Opt, NoPaths

(* A value under its path, if it is a quantity of the path's unit.         *)
LEMMA OptInUnits ==
  /\ \A p \in SpeedPaths : \A q \in FieldOf("m/s") : InUnits(Opt(p, q))
  /\ \A p \in AnglePaths : \A q \in FieldOf("rad") : InUnits(Opt(p, q))
  /\ \A p \in LengthPaths : \A q \in FieldOf("m") : InUnits(Opt(p, q))
  /\ \A p \in TemperaturePaths : \A q \in FieldOf("K") : InUnits(Opt(p, q))
  /\ \A p \in PressurePaths : \A q \in FieldOf("Pa") : InUnits(Opt(p, q))
  /\ \A q \in FieldOf("ratio") : InUnits(Opt("environment.outside.humidity", q))
  /\ \A q \in FieldOf("rad/s") : InUnits(Opt("navigation.rateOfTurn", q))
  /\ \A q \in FieldOf("V") : InUnits(Opt("electrical.batteries.1.voltage", q))
  /\ \A q \in FieldOf("A") : InUnits(Opt("electrical.batteries.1.current", q))
  /\ \A p \in UnitlessPaths : \A q : InUnits(Opt(p, q))
  BY UnitTable, OptIs DEF FieldOf

(* Every conversion is applied to the unit it is meant for.                *)
LEMMA Conversions ==
  /\ \A q \in FieldOf("kn") : Knots(q) \in FieldOf("m/s")
  /\ \A q \in FieldOf("deg") : Radians(q) \in FieldOf("rad")
  /\ \A q \in FieldOf("nmi") : Miles(q) \in FieldOf("m")
  /\ \A q \in FieldOf("ft") : Feet(q) \in FieldOf("m")
  /\ \A q \in FieldOf("fathom") : Fathoms(q) \in FieldOf("m")
  /\ \A q \in FieldOf("bar") : Pascals(q) \in FieldOf("Pa")
  /\ \A q \in FieldOf("%") : Ratio(q) \in FieldOf("ratio")
  /\ \A q \in FieldOf("C") : Kelvins(q) \in FieldOf("K")
  /\ \A q \in FieldOf("deg/min") : TurnRate(q) \in FieldOf("rad/s")
  BY DEF FieldOf, Knots, Radians, Miles, Feet, Fathoms, Pascals, Ratio, Kelvins, TurnRate,
         Scaled, Q

LEMMA OrElseField ==
  ASSUME NEW unit, NEW q \in FieldOf(unit), NEW r \in FieldOf(unit)
  PROVE  OrElse(q, r) \in FieldOf(unit)
  BY DEF OrElse

(* Positions and times have no unit of the server's.                       *)
LEMMA PositionInUnits ==
  ASSUME NEW path \in UnitlessPaths, NEW lat, NEW lon, NEW alt
  PROVE  InUnits(Position(path, lat, lon, alt))
  BY OptInUnits, NoPathsInUnits DEF Position

LEMMA TimesInUnits ==
  /\ \A millis : InUnits(Clock(millis))
  /\ \A date, time : InUnits(DateTime(date, time))
  BY OptInUnits, JoinInUnits DEF Clock, DateTime, UnitlessPaths

LEMMA OffsetInUnits ==
  ASSUME NEW depth \in FieldOf("m"), NEW offset \in FieldOf("m"), depth # Blank
  PROVE  InUnits(OffsetDepth(depth, offset))
<1>1. CASE offset = Blank BY <1>1, NoPathsInUnits DEF OffsetDepth
<1>2. CASE offset # Blank
  <2> DEFINE q == Q(depth.n + offset.n, IF depth.unit = offset.unit THEN depth.unit ELSE "none")
  <2>1. q \in FieldOf("m") BY <1>2 DEF FieldOf, Q
  <2> HIDE DEF q
  <2>2. \A p \in {"environment.depth.belowSurface", "environment.depth.belowKeel"} : InUnits(Opt(p, q))
    BY <2>1, OptInUnits DEF LengthPaths
  <2>3. OffsetDepth(depth, offset)
          = Opt(IF offset.n >= 0 THEN "environment.depth.belowSurface"
                                 ELSE "environment.depth.belowKeel", q)
    BY <1>2 DEF OffsetDepth, q
  <2>4. QED BY <2>2, <2>3
<1>3. QED BY <1>1, <1>2

-----------------------------------------------------------------------------
(* The sentences.                                                          *)

LEMMA RmcInUnits ==
  ASSUME NEW s, s.speed_over_ground \in FieldOf("kn"), s.true_course \in FieldOf("deg"),
         s.magnetic_variation \in FieldOf("deg")
  PROVE  InUnits(from_rmc(s))
  BY OptInUnits, JoinInUnits, Conversions, PositionInUnits, TimesInUnits, NoPathsInUnits
     DEF from_rmc, SpeedPaths, AnglePaths, UnitlessPaths

LEMMA GgaInUnits ==
  ASSUME NEW s
  PROVE  InUnits(from_gga(s))
  BY OptInUnits, JoinInUnits, PositionInUnits
     DEF from_gga, Mapped, UnitlessPaths

LEMMA GsaInUnits ==
  ASSUME NEW s
  PROVE  InUnits(from_gsa(s))
  BY OptInUnits, JoinInUnits, NoPathsInUnits
     DEF from_gsa, UnitlessPaths

LEMMA ZdaInUnits ==
  ASSUME NEW s
  PROVE  InUnits(from_zda(s))
  BY OptInUnits, JoinInUnits, TimesInUnits, NoPathsInUnits
     DEF from_zda

LEMMA VtgInUnits ==
  ASSUME NEW s, s.true_course \in FieldOf("deg"), s.speed_over_ground \in FieldOf("kn")
  PROVE  InUnits(from_vtg(s))
  BY OptInUnits, JoinInUnits, Conversions
     DEF from_vtg, SpeedPaths, AnglePaths

LEMMA GllInUnits ==
  ASSUME NEW s
  PROVE  InUnits(from_gll(s))
  BY OptInUnits, JoinInUnits, PositionInUnits, NoPathsInUnits
     DEF from_gll, UnitlessPaths

LEMMA GnsInUnits ==
  ASSUME NEW s
  PROVE  InUnits(from_gns(s))
  BY OptInUnits, JoinInUnits, PositionInUnits
     DEF from_gns, Mapped, UnitlessPaths

LEMMA HeadingInUnits ==
  ASSUME NEW s, s.heading \in FieldOf("deg")
  PROVE  InUnits(from_hdt(s))
  BY OptInUnits, JoinInUnits, Conversions
     DEF from_hdt, AnglePaths

LEMMA HdmInUnits ==
  ASSUME NEW s, s.heading \in FieldOf("deg")
  PROVE  InUnits(from_hdm(s))
  BY OptInUnits, JoinInUnits, Conversions
     DEF from_hdm, AnglePaths

LEMMA HdgInUnits ==
  ASSUME NEW s, s.heading \in FieldOf("deg"), s.deviation \in FieldOf("deg"),
         s.variation \in FieldOf("deg")
  PROVE  InUnits(from_hdg(s))
  BY OptInUnits, JoinInUnits, Conversions
     DEF from_hdg, AnglePaths

LEMMA VhwInUnits ==
  ASSUME NEW s, s.relative_speed_knots \in FieldOf("kn"), s.heading_true \in FieldOf("deg"),
         s.heading_magnetic \in FieldOf("deg")
  PROVE  InUnits(from_vhw(s))
  BY OptInUnits, JoinInUnits, Conversions
     DEF from_vhw, SpeedPaths, AnglePaths

LEMMA RotInUnits ==
  ASSUME NEW s, s.rate \in FieldOf("deg/min")
  PROVE  InUnits(from_rot(s))
  BY OptInUnits, JoinInUnits, Conversions, NoPathsInUnits
     DEF from_rot

LEMMA VlwInUnits ==
  ASSUME NEW s, s.trip_water_distance \in FieldOf("nmi"),
         s.total_water_distance \in FieldOf("nmi")
  PROVE  InUnits(from_vlw(s))
  BY OptInUnits, JoinInUnits, Conversions
     DEF from_vlw, LengthPaths

LEMMA VdrInUnits ==
  ASSUME NEW s, s.direction_true \in FieldOf("deg"), s.speed \in FieldOf("kn")
  PROVE  InUnits(from_vdr(s))
  BY OptInUnits, JoinInUnits, Conversions
     DEF from_vdr, SpeedPaths, AnglePaths

LEMMA RmbInUnits ==
  ASSUME NEW s, s.range_to_dest \in FieldOf("nmi"), s.bearing_to_dest \in FieldOf("deg")
  PROVE  InUnits(from_rmb(s))
  BY OptInUnits, JoinInUnits, Conversions, PositionInUnits, NoPathsInUnits
     DEF from_rmb, LengthPaths, AnglePaths, UnitlessPaths

LEMMA BwcInUnits ==
  ASSUME NEW s, s.true_bearing \in FieldOf("deg"), s.magnetic_bearing \in FieldOf("deg"),
         s.distance \in FieldOf("nmi")
  PROVE  InUnits(from_bwc(s))
  BY OptInUnits, JoinInUnits, Conversions, PositionInUnits
     DEF from_bwc, LengthPaths, AnglePaths, UnitlessPaths

LEMMA BodInUnits ==
  ASSUME NEW s, s.bearing_true \in FieldOf("deg"), s.bearing_magnetic \in FieldOf("deg")
  PROVE  InUnits(from_bod(s))
  BY OptInUnits, JoinInUnits, Conversions
     DEF from_bod, AnglePaths

LEMMA XteInUnits ==
  ASSUME NEW s
  PROVE  InUnits(from_xte(s))
  BY OptInUnits, JoinInUnits, NoPathsInUnits
     DEF from_xte, UnitlessPaths

LEMMA MwdInUnits ==
  ASSUME NEW s, s.wind_direction_true \in FieldOf("deg"),
         s.wind_direction_magnetic \in FieldOf("deg"), s.wind_speed_mps \in FieldOf("m/s"),
         s.wind_speed_knots \in FieldOf("kn")
  PROVE  InUnits(from_mwd(s))
  BY OptInUnits, JoinInUnits, Conversions, OrElseField
     DEF from_mwd, SpeedPaths, AnglePaths

LEMMA VwrInUnits ==
  ASSUME NEW s, s.wind_angle \in FieldOf("deg"), s.speed_mps \in FieldOf("m/s"),
         s.speed_knots \in FieldOf("kn")
  PROVE  InUnits(from_vwr(s))
  BY OptInUnits, JoinInUnits, Conversions, OrElseField
     DEF from_vwr, SpeedPaths, AnglePaths

LEMMA VwtInUnits ==
  ASSUME NEW s, s.wind_angle \in FieldOf("deg"), s.speed_mps \in FieldOf("m/s"),
         s.speed_knots \in FieldOf("kn")
  PROVE  InUnits(from_vwt(s))
  BY OptInUnits, JoinInUnits, Conversions, OrElseField
     DEF from_vwt, SpeedPaths, AnglePaths

LEMMA DptInUnits ==
  ASSUME NEW s, s.water_depth \in FieldOf("m"), s.offset \in FieldOf("m")
  PROVE  InUnits(from_dpt(s))
  BY OptInUnits, JoinInUnits, Conversions, OffsetInUnits, NoPathsInUnits
     DEF from_dpt, LengthPaths

LEMMA DepthField ==
  ASSUME NEW metres \in FieldOf("m"), NEW feet \in FieldOf("ft"), NEW fathoms \in FieldOf("fathom")
  PROVE  Depth(metres, feet, fathoms) \in FieldOf("m")
  BY Conversions, OrElseField DEF Depth

LEMMA DbtInUnits ==
  ASSUME NEW s, s.depth_meters \in FieldOf("m"), s.depth_feet \in FieldOf("ft"),
         s.depth_fathoms \in FieldOf("fathom")
  PROVE  InUnits(from_dbt(s))
  BY OptInUnits, JoinInUnits, Conversions, DepthField
     DEF from_dbt, LengthPaths

LEMMA DbkInUnits ==
  ASSUME NEW s, s.depth_meters \in FieldOf("m"), s.depth_feet \in FieldOf("ft"),
         s.depth_fathoms \in FieldOf("fathom")
  PROVE  InUnits(from_dbk(s))
  BY OptInUnits, JoinInUnits, Conversions, DepthField
     DEF from_dbk, LengthPaths

LEMMA DbsInUnits ==
  ASSUME NEW s, s.water_depth_meters \in FieldOf("m"), s.water_depth_feet \in FieldOf("ft"),
         s.water_depth_fathoms \in FieldOf("fathom")
  PROVE  InUnits(from_dbs(s))
  BY OptInUnits, JoinInUnits, Conversions, DepthField
     DEF from_dbs, LengthPaths

LEMMA MtwInUnits ==
  ASSUME NEW s, s.temperature \in FieldOf("C")
  PROVE  InUnits(from_mtw(s))
  BY OptInUnits, JoinInUnits, Conversions
     DEF from_mtw, TemperaturePaths

LEMMA MdaInUnits ==
  ASSUME NEW s, s.pressure_bar \in FieldOf("bar"), s.air_temp_deg \in FieldOf("C"),
         s.water_temp_deg \in FieldOf("C"), s.rel_humidity \in FieldOf("%"),
         s.dew_point \in FieldOf("C"), s.wind_direction_true \in FieldOf("deg"),
         s.wind_speed_ms \in FieldOf("m/s"), s.wind_speed_knots \in FieldOf("kn")
  PROVE  InUnits(from_mda(s))
  BY OptInUnits, JoinInUnits, Conversions, OrElseField
     DEF from_mda, SpeedPaths, AnglePaths, TemperaturePaths, PressurePaths

(* A wind speed is converted from the unit the sentence says it has.       *)
SpeedUnit(units) ==
  CASE units = "Knots" -> "kn" [] units = "MetersPerSecond" -> "m/s"
    [] units = "KilometersPerHour" -> "km/h" [] units = "MilesPerHour" -> "mph"
    [] OTHER -> "none"

LEMMA WindSpeedField ==
  ASSUME NEW s, s.wind_speed \in FieldOf(SpeedUnit(s.wind_speed_units))
  PROVE  WindSpeed(s) \in FieldOf("m/s")
<1> DEFINE u == s.wind_speed_units
<1>1. CASE u = "Knots" BY <1>1, Conversions DEF WindSpeed, SpeedUnit
<1>2. CASE u = "MetersPerSecond" BY <1>2 DEF WindSpeed, SpeedUnit
<1>3. CASE u = "KilometersPerHour" BY <1>3 DEF WindSpeed, SpeedUnit, FieldOf, Scaled, Q
<1>4. CASE u = "MilesPerHour" BY <1>4 DEF WindSpeed, SpeedUnit, FieldOf, Scaled, Q
<1>5. CASE u \notin {"Knots", "MetersPerSecond", "KilometersPerHour", "MilesPerHour"}
  BY <1>5 DEF WindSpeed, FieldOf
<1>6. QED BY <1>1, <1>2, <1>3, <1>4, <1>5

LEMMA MwvInUnits ==
  ASSUME NEW s, s.wind_direction \in FieldOf("deg"),
         s.wind_speed \in FieldOf(SpeedUnit(s.wind_speed_units))
  PROVE  InUnits(from_mwv(s))
  BY OptInUnits, JoinInUnits, Conversions, WindSpeedField, NoPathsInUnits
     DEF from_mwv, SpeedPaths, AnglePaths

LEMMA RsaInUnits ==
  ASSUME NEW s, s.starboard \in FieldOf("deg"), s.port \in FieldOf("deg")
  PROVE  InUnits(from_rsa(s))
<1>1. Blank \in FieldOf("rad") BY DEF FieldOf
<1>2. QED BY <1>1, OptInUnits, JoinInUnits, Conversions DEF from_rsa, AnglePaths

(* No engine's revolutions and pitch by its number have a unit of the      *)
(* server's.                                                               *)
LEMMA RpmInUnits ==
  ASSUME NEW s, s.source_number = 1
  PROVE  InUnits(from_rpm(s))
<1>1. OrElse(s.source_number, 0) = 1 BY BlankAssumption DEF OrElse
<1>2. \A rest \in {".revolutions", ".pitch"} : \A prefix \in {"propulsion.engine", "propulsion.shaft"} :
        Numbered(prefix, 1, rest) \in UnitlessPaths
  BY NumberedAssumption DEF UnitlessPaths
<1>3. QED BY <1>1, <1>2, OptInUnits, JoinInUnits, NoPathsInUnits DEF from_rpm

(* Lists of them.                                                          *)
LEMMA MergedInUnits ==
  ASSUME NEW deltas, NEW n \in Nat, DOMAIN deltas = 1 .. n,
         \A i \in 1 .. n : InUnits(deltas[i])
  PROVE  InUnits(Merged(deltas))
  BY MergedTells DEF InUnits

(* A transducer's row says which unit its type has.                        *)
TypeUnit(type) ==
  CASE type = "P" -> "bar" [] type = "C" -> "C" [] type = "A" -> "deg" [] type = "H" -> "%"
    [] type = "U" -> "V" [] OTHER -> "none"

LEMMA RowInUnits ==
  ASSUME NEW row \in MAPPINGS, NEW q \in FieldOf(TypeUnit(row.type))
  PROVE  InUnits(Opt(row.path, Converted(row.convert, q)))
<1>1. CASE row.type = "P"
  <2>1. row.path = "environment.outside.pressure" /\ row.convert = "bar"
    BY <1>1 DEF MAPPINGS, Known
  <2>2. q \in FieldOf("bar") BY <1>1 DEF TypeUnit
  <2>3. QED BY <2>1, <2>2, OptInUnits, Conversions DEF Converted, PressurePaths
<1>2. CASE row.type = "C"
  <2>1. row.path \in TemperaturePaths /\ row.convert = "C"
    BY <1>2 DEF MAPPINGS, Known, TemperaturePaths
  <2>2. q \in FieldOf("C") BY <1>2 DEF TypeUnit
  <2>3. QED BY <2>1, <2>2, OptInUnits, Conversions DEF Converted
<1>3. CASE row.type = "A"
  <2>1. row.path \in UnitlessPaths BY <1>3 DEF MAPPINGS, Known, UnitlessPaths
  <2>2. QED BY <2>1, OptInUnits
<1>4. CASE row.type = "H"
  <2>1. row.path = "environment.outside.humidity" /\ row.convert = "%"
    BY <1>4 DEF MAPPINGS, Known
  <2>2. q \in FieldOf("%") BY <1>4 DEF TypeUnit
  <2>3. QED BY <2>1, <2>2, OptInUnits, Conversions DEF Converted
<1>5. CASE row.type = "U"
  <2>1. row.path \in UnitlessPaths BY <1>5 DEF MAPPINGS, Known, UnitlessPaths
  <2>2. QED BY <2>1, OptInUnits
<1>6. row.type \in {"P", "C", "A", "H", "U"} BY DEF MAPPINGS, Known
<1>7. QED BY <1>1, <1>2, <1>3, <1>4, <1>5, <1>6

LEMMA XdrInUnits ==
  ASSUME NEW s, NEW n \in Nat, DOMAIN s.measurements = 1 .. n,
         \A i \in 1 .. n : s.measurements[i].value \in FieldOf(TypeUnit(s.measurements[i].type))
  PROVE  InUnits(from_xdr(s))
<1> DEFINE rows(m) == {row \in MAPPINGS : row.type = m.type /\ name_matches(row, m.name)}
           one(m) == IF m.value = Blank \/ rows(m) = {} THEN NoPaths
                     ELSE LET row == CHOOSE r \in rows(m) : TRUE
                          IN  Opt(row.path, Converted(row.convert, m.value))
           all == Merged([i \in DOMAIN s.measurements |-> one(s.measurements[i])])
           part(p) == IF p \in DOMAIN all THEN all[p].n ELSE Blank
           rest == [p \in DOMAIN all \ {"pitch", "roll"} |-> all[p]]
           both == Q([pitch |-> part("pitch"), roll |-> part("roll")], "attitude")
           attitude == IF {"pitch", "roll"} \cap DOMAIN all = {} THEN NoPaths
                       ELSE Opt("navigation.attitude", both)
<1>1. ASSUME NEW i \in 1 .. n PROVE InUnits(one(s.measurements[i]))
  <2> DEFINE m == s.measurements[i]
  <2>1. CASE m.value = Blank \/ rows(m) = {}
    <3> HIDE DEF rows
    <3>1. one(m) = NoPaths BY <2>1
    <3> HIDE DEF one, m
    <3>2. InUnits(one(m)) BY <3>1, NoPathsInUnits
    <3>3. QED BY <3>2 DEF m
  <2>2. CASE ~(m.value = Blank \/ rows(m) = {})
    <3>1. PICK row : row = (CHOOSE r \in rows(m) : TRUE) OBVIOUS
    <3>2. row \in rows(m) BY <2>2, <3>1
    <3>3. row \in MAPPINGS /\ row.type = m.type BY <3>2
    <3>4. one(m) = Opt(row.path, Converted(row.convert, m.value)) BY <2>2, <3>1
    <3> HIDE DEF one, rows
    <3>5. QED BY <3>3, <3>4, RowInUnits
  <2>3. QED BY <2>1, <2>2
<1> HIDE DEF one
<1>2. InUnits(all) BY <1>1, MergedInUnits
<1>3. from_xdr(s) = rest ++ attitude BY DEF from_xdr, one
<1> HIDE DEF all, part
<1>4. InUnits(rest) BY <1>2 DEF InUnits
<1>5. InUnits(attitude)
  <2> HIDE DEF both
  <2>1. QED BY OptInUnits, NoPathsInUnits DEF UnitlessPaths
<1> HIDE DEF rest, attitude
<1>6. QED BY <1>3, <1>4, <1>5, JoinInUnits


-----------------------------------------------------------------------------
(* The messages; their fields are in SI units.                             *)

LEMMA VesselHeadingInUnits ==
  ASSUME NEW m, m.heading \in FieldOf("rad"), m.variation \in FieldOf("rad")
  PROVE  InUnits(from_vessel_heading(m))
  BY OptInUnits, JoinInUnits
     DEF from_vessel_heading, AnglePaths

LEMMA SpeedInUnits ==
  ASSUME NEW m, m.speed_water_referenced \in FieldOf("m/s"),
         m.speed_ground_referenced \in FieldOf("m/s")
  PROVE  InUnits(from_speed(m))
  BY OptInUnits, JoinInUnits
     DEF from_speed, SpeedPaths

LEMMA WaterDepthInUnits ==
  ASSUME NEW m, m.depth \in FieldOf("m"), m.offset \in FieldOf("m")
  PROVE  InUnits(from_water_depth(m))
  BY OptInUnits, JoinInUnits, OffsetInUnits, NoPathsInUnits
     DEF from_water_depth, LengthPaths

LEMMA DistanceLogInUnits ==
  ASSUME NEW m, m.log \in FieldOf("m"), m.trip_log \in FieldOf("m")
  PROVE  InUnits(from_distance_log(m))
  BY OptInUnits, JoinInUnits
     DEF from_distance_log, LengthPaths

LEMMA CogSogInUnits ==
  ASSUME NEW m, m.cog \in FieldOf("rad"), m.sog \in FieldOf("m/s")
  PROVE  InUnits(from_cog_sog_rapid(m))
  BY OptInUnits, JoinInUnits
     DEF from_cog_sog_rapid, SpeedPaths, AnglePaths

LEMMA GnssInUnits ==
  ASSUME NEW m
  PROVE  InUnits(from_gnss_position(m))
  BY OptInUnits, JoinInUnits, PositionInUnits
     DEF from_gnss_position, UnitlessPaths

LEMMA PositionRapidInUnits ==
  ASSUME NEW m
  PROVE  InUnits(from_position_rapid(m))
  BY OptInUnits, JoinInUnits, PositionInUnits
     DEF from_position_rapid, UnitlessPaths

LEMMA TimeDateInUnits ==
  ASSUME NEW m
  PROVE  InUnits(from_time_date(m))
  BY OptInUnits, JoinInUnits, TimesInUnits, NoPathsInUnits
     DEF from_time_date

LEMMA CrossTrackInUnits ==
  ASSUME NEW m
  PROVE  InUnits(from_cross_track_error(m))
  BY OptInUnits, JoinInUnits
     DEF from_cross_track_error, UnitlessPaths

LEMMA RateOfTurnInUnits ==
  ASSUME NEW m, m.rate \in FieldOf("rad/s")
  PROVE  InUnits(from_rate_of_turn(m))
  BY OptInUnits, JoinInUnits
     DEF from_rate_of_turn

LEMMA AttitudeInUnits ==
  ASSUME NEW m, m.yaw \in FieldOf("rad"), m.pitch \in FieldOf("rad"),
         m.roll \in FieldOf("rad")
  PROVE  InUnits(from_attitude(m))
  BY OptInUnits, JoinInUnits
     DEF from_attitude, AnglePaths

LEMMA WindDataInUnits ==
  ASSUME NEW m, m.wind_speed \in FieldOf("m/s"), m.wind_angle \in FieldOf("rad")
  PROVE  InUnits(from_wind_data(m))
<1> DEFINE w == WindPaths(m.reference)
<1>1. w = Blank \/ (w[1] \in SpeedPaths /\ w[2] \in AnglePaths)
  BY DEF WindPaths, SpeedPaths, AnglePaths
<1> HIDE DEF w
<1>2. from_wind_data(m)
        = IF w = Blank THEN NoPaths ELSE Opt(w[1], m.wind_speed) ++ Opt(w[2], m.wind_angle)
  BY DEF from_wind_data, w
<1>3. QED BY <1>1, <1>2, OptInUnits, JoinInUnits, NoPathsInUnits

LEMMA TemperatureInUnits ==
  ASSUME NEW m, m.actual_temperature \in FieldOf("K")
  PROVE  InUnits(from_temperature(m))
<1>1. \A source \in DOMAIN TemperaturePath :
        TemperaturePath[source] \in TemperaturePaths \cup UnitlessPaths
  BY DEF TemperaturePath, TemperaturePaths, UnitlessPaths
<1>2. QED BY <1>1, OptInUnits, NoPathsInUnits DEF from_temperature

LEMMA RudderInUnits ==
  ASSUME NEW m, m.position \in FieldOf("rad")
  PROVE  InUnits(from_rudder(m))
  BY OptInUnits, JoinInUnits
     DEF from_rudder, AnglePaths

LEMMA NumberOne ==
  ASSUME NEW number, number = 1
  PROVE  OrElse(number, 0) = 1
  BY BlankAssumption DEF OrElse

LEMMA EngineRapidInUnits ==
  ASSUME NEW m, m.instance = 1
  PROVE  InUnits(from_engine_rapid(m))
<1>1. engine_path(m.instance, ".revolutions") \in UnitlessPaths
  BY NumberOne, NumberedAssumption DEF engine_path, UnitlessPaths
<1>2. QED BY <1>1, OptInUnits DEF from_engine_rapid

LEMMA EngineDynamicInUnits ==
  ASSUME NEW m, m.instance = 1, m.oil_pressure \in FieldOf("Pa"),
         m.temperature \in FieldOf("K"), m.oil_temperature \in FieldOf("K")
  PROVE  InUnits(from_engine_dynamic(m))
<1>1. /\ engine_path(m.instance, ".oilPressure") \in PressurePaths
      /\ engine_path(m.instance, ".coolantTemperature") \in TemperaturePaths
      /\ engine_path(m.instance, ".oilTemperature") \in TemperaturePaths
      /\ engine_path(m.instance, ".alternatorVoltage") \in UnitlessPaths
  BY NumberOne, NumberedAssumption
     DEF engine_path, PressurePaths, TemperaturePaths, UnitlessPaths
<1>2. QED BY <1>1, OptInUnits, JoinInUnits DEF from_engine_dynamic

LEMMA BatteryInUnits ==
  ASSUME NEW m, m.instance = 1, m.voltage \in FieldOf("V"), m.current \in FieldOf("A")
  PROVE  InUnits(from_battery_status(m))
<1> DEFINE battery(rest) == Numbered("electrical.batteries.", OrElse(m.instance, 0), rest)
<1>1. /\ battery(".voltage") = "electrical.batteries.1.voltage"
      /\ battery(".current") = "electrical.batteries.1.current"
      /\ battery(".temperature") \in UnitlessPaths
  BY NumberOne, NumberedAssumption DEF UnitlessPaths
<1>2. from_battery_status(m)
        = Opt(battery(".voltage"), m.voltage) ++ Opt(battery(".current"), m.current)
            ++ Opt(battery(".temperature"), m.temperature)
  BY DEF from_battery_status
<1> HIDE DEF battery
<1>3. QED BY <1>1, <1>2, OptInUnits, JoinInUnits

-----------------------------------------------------------------------------
(* All of them.                                                            *)

(* A sentence as the parser gives it: the fields a path of the server's is *)
(* made of are empty, or quantities in the unit the standard has for them. *)
ParsedSentence(s) ==
  /\ s.kind = "RMC" =>
       /\ s.speed_over_ground \in FieldOf("kn") /\ s.true_course \in FieldOf("deg")
       /\ s.magnetic_variation \in FieldOf("deg")
  /\ s.kind = "VTG" =>
       /\ s.true_course \in FieldOf("deg") /\ s.speed_over_ground \in FieldOf("kn")
  /\ s.kind = "HDT" =>
       /\ s.heading \in FieldOf("deg")
  /\ s.kind = "HDM" =>
       /\ s.heading \in FieldOf("deg")
  /\ s.kind = "HDG" =>
       /\ s.heading \in FieldOf("deg") /\ s.deviation \in FieldOf("deg")
       /\ s.variation \in FieldOf("deg")
  /\ s.kind = "VHW" =>
       /\ s.relative_speed_knots \in FieldOf("kn") /\ s.heading_true \in FieldOf("deg")
       /\ s.heading_magnetic \in FieldOf("deg")
  /\ s.kind = "ROT" =>
       /\ s.rate \in FieldOf("deg/min")
  /\ s.kind = "VLW" =>
       /\ s.trip_water_distance \in FieldOf("nmi")
       /\ s.total_water_distance \in FieldOf("nmi")
  /\ s.kind = "VDR" =>
       /\ s.direction_true \in FieldOf("deg") /\ s.speed \in FieldOf("kn")
  /\ s.kind = "RMB" =>
       /\ s.range_to_dest \in FieldOf("nmi") /\ s.bearing_to_dest \in FieldOf("deg")
  /\ s.kind = "BWC" =>
       /\ s.true_bearing \in FieldOf("deg") /\ s.magnetic_bearing \in FieldOf("deg")
       /\ s.distance \in FieldOf("nmi")
  /\ s.kind = "BOD" =>
       /\ s.bearing_true \in FieldOf("deg") /\ s.bearing_magnetic \in FieldOf("deg")
  /\ s.kind = "MWV" =>
       /\ s.wind_direction \in FieldOf("deg")
       /\ s.wind_speed \in FieldOf(SpeedUnit(s.wind_speed_units))
  /\ s.kind = "MWD" =>
       /\ s.wind_direction_true \in FieldOf("deg")
       /\ s.wind_direction_magnetic \in FieldOf("deg")
       /\ s.wind_speed_mps \in FieldOf("m/s") /\ s.wind_speed_knots \in FieldOf("kn")
  /\ s.kind = "VWR" =>
       /\ s.wind_angle \in FieldOf("deg") /\ s.speed_mps \in FieldOf("m/s")
       /\ s.speed_knots \in FieldOf("kn")
  /\ s.kind = "VWT" =>
       /\ s.wind_angle \in FieldOf("deg") /\ s.speed_mps \in FieldOf("m/s")
       /\ s.speed_knots \in FieldOf("kn")
  /\ s.kind = "DPT" =>
       /\ s.water_depth \in FieldOf("m") /\ s.offset \in FieldOf("m")
  /\ s.kind = "DBT" =>
       /\ s.depth_meters \in FieldOf("m") /\ s.depth_feet \in FieldOf("ft")
       /\ s.depth_fathoms \in FieldOf("fathom")
  /\ s.kind = "DBK" =>
       /\ s.depth_meters \in FieldOf("m") /\ s.depth_feet \in FieldOf("ft")
       /\ s.depth_fathoms \in FieldOf("fathom")
  /\ s.kind = "DBS" =>
       /\ s.water_depth_meters \in FieldOf("m") /\ s.water_depth_feet \in FieldOf("ft")
       /\ s.water_depth_fathoms \in FieldOf("fathom")
  /\ s.kind = "MTW" =>
       /\ s.temperature \in FieldOf("C")
  /\ s.kind = "MDA" =>
       /\ s.pressure_bar \in FieldOf("bar") /\ s.air_temp_deg \in FieldOf("C")
       /\ s.water_temp_deg \in FieldOf("C") /\ s.rel_humidity \in FieldOf("%")
       /\ s.dew_point \in FieldOf("C") /\ s.wind_direction_true \in FieldOf("deg")
       /\ s.wind_speed_ms \in FieldOf("m/s") /\ s.wind_speed_knots \in FieldOf("kn")
  /\ s.kind = "RSA" =>
       /\ s.starboard \in FieldOf("deg") /\ s.port \in FieldOf("deg")
  /\ s.kind = "RPM" =>
       /\ s.source_number = 1
  /\ s.kind = "XDR" =>
       \E n \in Nat :
         /\ DOMAIN s.measurements = 1 .. n
         /\ \A i \in 1 .. n :
              s.measurements[i].value \in FieldOf(TypeUnit(s.measurements[i].type))

SentenceKinds ==
  {"RMC", "GGA", "GSA", "ZDA", "VTG", "GLL", "GNS", "HDT", "HDM", "HDG", "VHW", "ROT",
  "VLW", "VDR", "RMB", "BWC", "BOD", "XTE", "MWV", "MWD", "VWR", "VWT", "DPT", "DBT",
  "DBK", "DBS", "MTW", "MDA", "RSA", "RPM", "XDR"}

(* Whatever the amounts: the delta of such a sentence has the units.       *)
THEOREM SentencesInUnits ==
  ASSUME NEW s, ParsedSentence(s), s.kind \in SentenceKinds
  PROVE  InUnits(sentence_to_delta(s))
<1>1. ASSUME s.kind = "RMC" PROVE InUnits(sentence_to_delta(s))
  BY <1>1, RmcInUnits DEF ParsedSentence, sentence_to_delta
<1>2. ASSUME s.kind = "GGA" PROVE InUnits(sentence_to_delta(s))
  BY <1>2, GgaInUnits DEF ParsedSentence, sentence_to_delta
<1>3. ASSUME s.kind = "GSA" PROVE InUnits(sentence_to_delta(s))
  BY <1>3, GsaInUnits DEF ParsedSentence, sentence_to_delta
<1>4. ASSUME s.kind = "ZDA" PROVE InUnits(sentence_to_delta(s))
  BY <1>4, ZdaInUnits DEF ParsedSentence, sentence_to_delta
<1>5. ASSUME s.kind = "VTG" PROVE InUnits(sentence_to_delta(s))
  BY <1>5, VtgInUnits DEF ParsedSentence, sentence_to_delta
<1>6. ASSUME s.kind = "GLL" PROVE InUnits(sentence_to_delta(s))
  BY <1>6, GllInUnits DEF ParsedSentence, sentence_to_delta
<1>7. ASSUME s.kind = "GNS" PROVE InUnits(sentence_to_delta(s))
  BY <1>7, GnsInUnits DEF ParsedSentence, sentence_to_delta
<1>8. ASSUME s.kind = "HDT" PROVE InUnits(sentence_to_delta(s))
  BY <1>8, HeadingInUnits DEF ParsedSentence, sentence_to_delta
<1>9. ASSUME s.kind = "HDM" PROVE InUnits(sentence_to_delta(s))
  BY <1>9, HdmInUnits DEF ParsedSentence, sentence_to_delta
<1>10. ASSUME s.kind = "HDG" PROVE InUnits(sentence_to_delta(s))
  BY <1>10, HdgInUnits DEF ParsedSentence, sentence_to_delta
<1>11. ASSUME s.kind = "VHW" PROVE InUnits(sentence_to_delta(s))
  BY <1>11, VhwInUnits DEF ParsedSentence, sentence_to_delta
<1>12. ASSUME s.kind = "ROT" PROVE InUnits(sentence_to_delta(s))
  BY <1>12, RotInUnits DEF ParsedSentence, sentence_to_delta
<1>13. ASSUME s.kind = "VLW" PROVE InUnits(sentence_to_delta(s))
  BY <1>13, VlwInUnits DEF ParsedSentence, sentence_to_delta
<1>14. ASSUME s.kind = "VDR" PROVE InUnits(sentence_to_delta(s))
  BY <1>14, VdrInUnits DEF ParsedSentence, sentence_to_delta
<1>15. ASSUME s.kind = "RMB" PROVE InUnits(sentence_to_delta(s))
  BY <1>15, RmbInUnits DEF ParsedSentence, sentence_to_delta
<1>16. ASSUME s.kind = "BWC" PROVE InUnits(sentence_to_delta(s))
  BY <1>16, BwcInUnits DEF ParsedSentence, sentence_to_delta
<1>17. ASSUME s.kind = "BOD" PROVE InUnits(sentence_to_delta(s))
  BY <1>17, BodInUnits DEF ParsedSentence, sentence_to_delta
<1>18. ASSUME s.kind = "XTE" PROVE InUnits(sentence_to_delta(s))
  BY <1>18, XteInUnits DEF ParsedSentence, sentence_to_delta
<1>19. ASSUME s.kind = "MWV" PROVE InUnits(sentence_to_delta(s))
  BY <1>19, MwvInUnits DEF ParsedSentence, sentence_to_delta
<1>20. ASSUME s.kind = "MWD" PROVE InUnits(sentence_to_delta(s))
  BY <1>20, MwdInUnits DEF ParsedSentence, sentence_to_delta
<1>21. ASSUME s.kind = "VWR" PROVE InUnits(sentence_to_delta(s))
  BY <1>21, VwrInUnits DEF ParsedSentence, sentence_to_delta
<1>22. ASSUME s.kind = "VWT" PROVE InUnits(sentence_to_delta(s))
  BY <1>22, VwtInUnits DEF ParsedSentence, sentence_to_delta
<1>23. ASSUME s.kind = "DPT" PROVE InUnits(sentence_to_delta(s))
  BY <1>23, DptInUnits DEF ParsedSentence, sentence_to_delta
<1>24. ASSUME s.kind = "DBT" PROVE InUnits(sentence_to_delta(s))
  BY <1>24, DbtInUnits DEF ParsedSentence, sentence_to_delta
<1>25. ASSUME s.kind = "DBK" PROVE InUnits(sentence_to_delta(s))
  BY <1>25, DbkInUnits DEF ParsedSentence, sentence_to_delta
<1>26. ASSUME s.kind = "DBS" PROVE InUnits(sentence_to_delta(s))
  BY <1>26, DbsInUnits DEF ParsedSentence, sentence_to_delta
<1>27. ASSUME s.kind = "MTW" PROVE InUnits(sentence_to_delta(s))
  BY <1>27, MtwInUnits DEF ParsedSentence, sentence_to_delta
<1>28. ASSUME s.kind = "MDA" PROVE InUnits(sentence_to_delta(s))
  BY <1>28, MdaInUnits DEF ParsedSentence, sentence_to_delta
<1>29. ASSUME s.kind = "RSA" PROVE InUnits(sentence_to_delta(s))
  BY <1>29, RsaInUnits DEF ParsedSentence, sentence_to_delta
<1>30. ASSUME s.kind = "RPM" PROVE InUnits(sentence_to_delta(s))
  BY <1>30, RpmInUnits DEF ParsedSentence, sentence_to_delta
<1>31. ASSUME s.kind = "XDR" PROVE InUnits(sentence_to_delta(s))
  BY <1>31, XdrInUnits DEF ParsedSentence, sentence_to_delta
<1>32. QED BY <1>1, <1>2, <1>3, <1>4, <1>5, <1>6, <1>7, <1>8, <1>9, <1>10, <1>11, <1>12, <1>13, <1>14, <1>15, <1>16, <1>17, <1>18, <1>19, <1>20, <1>21, <1>22, <1>23, <1>24, <1>25, <1>26, <1>27, <1>28, <1>29, <1>30, <1>31 DEF SentenceKinds

(* A message as it is decoded.                                             *)
DecodedMessage(m) ==
  /\ m.kind = "VesselHeading" =>
       /\ m.heading \in FieldOf("rad") /\ m.variation \in FieldOf("rad")
  /\ m.kind = "Speed" =>
       /\ m.speed_water_referenced \in FieldOf("m/s")
       /\ m.speed_ground_referenced \in FieldOf("m/s")
  /\ m.kind = "WaterDepth" =>
       /\ m.depth \in FieldOf("m") /\ m.offset \in FieldOf("m")
  /\ m.kind = "CogSogRapidUpdate" =>
       /\ m.cog \in FieldOf("rad") /\ m.sog \in FieldOf("m/s")
  /\ m.kind = "RateOfTurn" =>
       /\ m.rate \in FieldOf("rad/s")
  /\ m.kind = "Attitude" =>
       /\ m.yaw \in FieldOf("rad") /\ m.pitch \in FieldOf("rad")
       /\ m.roll \in FieldOf("rad")
  /\ m.kind = "DistanceLog" =>
       /\ m.log \in FieldOf("m") /\ m.trip_log \in FieldOf("m")
  /\ m.kind = "WindData" =>
       /\ m.wind_speed \in FieldOf("m/s") /\ m.wind_angle \in FieldOf("rad")
  /\ m.kind = "Temperature" =>
       /\ m.actual_temperature \in FieldOf("K")
  /\ m.kind = "Rudder" =>
       /\ m.position \in FieldOf("rad")
  /\ m.kind = "EngineParametersRapidUpdate" =>
       /\ m.instance = 1
  /\ m.kind = "EngineParametersDynamic" =>
       /\ m.instance = 1 /\ m.oil_pressure \in FieldOf("Pa")
       /\ m.temperature \in FieldOf("K") /\ m.oil_temperature \in FieldOf("K")
  /\ m.kind = "BatteryStatus" =>
       /\ m.instance = 1 /\ m.voltage \in FieldOf("V") /\ m.current \in FieldOf("A")

MessageKinds ==
  {"PositionRapidUpdate", "VesselHeading", "Speed", "WaterDepth", "CogSogRapidUpdate",
  "GnssPositionData", "RateOfTurn", "Attitude", "DistanceLog", "TimeDate",
  "CrossTrackError", "WindData", "Temperature", "Rudder", "EngineParametersRapidUpdate",
  "EngineParametersDynamic", "BatteryStatus"}

LEMMA SelfInUnits ==
  ASSUME NEW values, InUnits(values)
  PROVE  InUnits(values_of(self_delta(values)))
  BY NoPathsInUnits DEF values_of, self_delta, DeltaFor

(* And so has the delta of a message.                                      *)
THEOREM MessagesInUnits ==
  ASSUME NEW m, DecodedMessage(m), m.kind \in MessageKinds
  PROVE  InUnits(values_of(decoded_to_delta(m)))
<1>1. ASSUME m.kind = "PositionRapidUpdate" PROVE InUnits(values_of(decoded_to_delta(m)))
  <2>1. decoded_to_delta(m) = self_delta(from_position_rapid(m)) BY <1>1 DEF decoded_to_delta
  <2>2. InUnits(from_position_rapid(m)) BY <1>1, PositionRapidInUnits DEF DecodedMessage
  <2>3. QED BY <2>1, <2>2, SelfInUnits
<1>2. ASSUME m.kind = "VesselHeading" PROVE InUnits(values_of(decoded_to_delta(m)))
  <2>1. decoded_to_delta(m) = self_delta(from_vessel_heading(m)) BY <1>2 DEF decoded_to_delta
  <2>2. InUnits(from_vessel_heading(m)) BY <1>2, VesselHeadingInUnits DEF DecodedMessage
  <2>3. QED BY <2>1, <2>2, SelfInUnits
<1>3. ASSUME m.kind = "Speed" PROVE InUnits(values_of(decoded_to_delta(m)))
  <2>1. decoded_to_delta(m) = self_delta(from_speed(m)) BY <1>3 DEF decoded_to_delta
  <2>2. InUnits(from_speed(m)) BY <1>3, SpeedInUnits DEF DecodedMessage
  <2>3. QED BY <2>1, <2>2, SelfInUnits
<1>4. ASSUME m.kind = "WaterDepth" PROVE InUnits(values_of(decoded_to_delta(m)))
  <2>1. decoded_to_delta(m) = self_delta(from_water_depth(m)) BY <1>4 DEF decoded_to_delta
  <2>2. InUnits(from_water_depth(m)) BY <1>4, WaterDepthInUnits DEF DecodedMessage
  <2>3. QED BY <2>1, <2>2, SelfInUnits
<1>5. ASSUME m.kind = "CogSogRapidUpdate" PROVE InUnits(values_of(decoded_to_delta(m)))
  <2>1. decoded_to_delta(m) = self_delta(from_cog_sog_rapid(m)) BY <1>5 DEF decoded_to_delta
  <2>2. InUnits(from_cog_sog_rapid(m)) BY <1>5, CogSogInUnits DEF DecodedMessage
  <2>3. QED BY <2>1, <2>2, SelfInUnits
<1>6. ASSUME m.kind = "GnssPositionData" PROVE InUnits(values_of(decoded_to_delta(m)))
  <2>1. decoded_to_delta(m) = self_delta(from_gnss_position(m)) BY <1>6 DEF decoded_to_delta
  <2>2. InUnits(from_gnss_position(m)) BY <1>6, GnssInUnits DEF DecodedMessage
  <2>3. QED BY <2>1, <2>2, SelfInUnits
<1>7. ASSUME m.kind = "RateOfTurn" PROVE InUnits(values_of(decoded_to_delta(m)))
  <2>1. decoded_to_delta(m) = self_delta(from_rate_of_turn(m)) BY <1>7 DEF decoded_to_delta
  <2>2. InUnits(from_rate_of_turn(m)) BY <1>7, RateOfTurnInUnits DEF DecodedMessage
  <2>3. QED BY <2>1, <2>2, SelfInUnits
<1>8. ASSUME m.kind = "Attitude" PROVE InUnits(values_of(decoded_to_delta(m)))
  <2>1. decoded_to_delta(m) = self_delta(from_attitude(m)) BY <1>8 DEF decoded_to_delta
  <2>2. InUnits(from_attitude(m)) BY <1>8, AttitudeInUnits DEF DecodedMessage
  <2>3. QED BY <2>1, <2>2, SelfInUnits
<1>9. ASSUME m.kind = "DistanceLog" PROVE InUnits(values_of(decoded_to_delta(m)))
  <2>1. decoded_to_delta(m) = self_delta(from_distance_log(m)) BY <1>9 DEF decoded_to_delta
  <2>2. InUnits(from_distance_log(m)) BY <1>9, DistanceLogInUnits DEF DecodedMessage
  <2>3. QED BY <2>1, <2>2, SelfInUnits
<1>10. ASSUME m.kind = "TimeDate" PROVE InUnits(values_of(decoded_to_delta(m)))
  <2>1. decoded_to_delta(m) = self_delta(from_time_date(m)) BY <1>10 DEF decoded_to_delta
  <2>2. InUnits(from_time_date(m)) BY <1>10, TimeDateInUnits DEF DecodedMessage
  <2>3. QED BY <2>1, <2>2, SelfInUnits
<1>11. ASSUME m.kind = "CrossTrackError" PROVE InUnits(values_of(decoded_to_delta(m)))
  <2>1. decoded_to_delta(m) = self_delta(from_cross_track_error(m)) BY <1>11 DEF decoded_to_delta
  <2>2. InUnits(from_cross_track_error(m)) BY <1>11, CrossTrackInUnits DEF DecodedMessage
  <2>3. QED BY <2>1, <2>2, SelfInUnits
<1>12. ASSUME m.kind = "WindData" PROVE InUnits(values_of(decoded_to_delta(m)))
  <2>1. decoded_to_delta(m) = self_delta(from_wind_data(m)) BY <1>12 DEF decoded_to_delta
  <2>2. InUnits(from_wind_data(m)) BY <1>12, WindDataInUnits DEF DecodedMessage
  <2>3. QED BY <2>1, <2>2, SelfInUnits
<1>13. ASSUME m.kind = "Temperature" PROVE InUnits(values_of(decoded_to_delta(m)))
  <2>1. decoded_to_delta(m) = self_delta(from_temperature(m)) BY <1>13 DEF decoded_to_delta
  <2>2. InUnits(from_temperature(m)) BY <1>13, TemperatureInUnits DEF DecodedMessage
  <2>3. QED BY <2>1, <2>2, SelfInUnits
<1>14. ASSUME m.kind = "Rudder" PROVE InUnits(values_of(decoded_to_delta(m)))
  <2>1. decoded_to_delta(m) = self_delta(from_rudder(m)) BY <1>14 DEF decoded_to_delta
  <2>2. InUnits(from_rudder(m)) BY <1>14, RudderInUnits DEF DecodedMessage
  <2>3. QED BY <2>1, <2>2, SelfInUnits
<1>15. ASSUME m.kind = "EngineParametersRapidUpdate" PROVE InUnits(values_of(decoded_to_delta(m)))
  <2>1. decoded_to_delta(m) = self_delta(from_engine_rapid(m)) BY <1>15 DEF decoded_to_delta
  <2>2. InUnits(from_engine_rapid(m)) BY <1>15, EngineRapidInUnits DEF DecodedMessage
  <2>3. QED BY <2>1, <2>2, SelfInUnits
<1>16. ASSUME m.kind = "EngineParametersDynamic" PROVE InUnits(values_of(decoded_to_delta(m)))
  <2>1. decoded_to_delta(m) = self_delta(from_engine_dynamic(m)) BY <1>16 DEF decoded_to_delta
  <2>2. InUnits(from_engine_dynamic(m)) BY <1>16, EngineDynamicInUnits DEF DecodedMessage
  <2>3. QED BY <2>1, <2>2, SelfInUnits
<1>17. ASSUME m.kind = "BatteryStatus" PROVE InUnits(values_of(decoded_to_delta(m)))
  <2>1. decoded_to_delta(m) = self_delta(from_battery_status(m)) BY <1>17 DEF decoded_to_delta
  <2>2. InUnits(from_battery_status(m)) BY <1>17, BatteryInUnits DEF DecodedMessage
  <2>3. QED BY <2>1, <2>2, SelfInUnits
<1>18. QED BY <1>1, <1>2, <1>3, <1>4, <1>5, <1>6, <1>7, <1>8, <1>9, <1>10, <1>11, <1>12, <1>13, <1>14, <1>15, <1>16, <1>17 DEF MessageKinds

-----------------------------------------------------------------------------
(* The sentences and messages that are looked at.                          *)

(* What one of them is: of its kind, with each field empty or given.       *)
LEMMA WithFields ==
  ASSUME NEW kind, NEW fields, NEW always, NEW s \in With(kind, fields, always),
         "kind" \notin DOMAIN fields
  PROVE  /\ s.kind = kind
         /\ \A f \in DOMAIN fields : s[f] \in {Blank, fields[f]}
         /\ \A f \in DOMAIN always : f \in DOMAIN fields \/ f = "kind" \/ s[f] = always[f]
<1>1. PICK empty \in SUBSET DOMAIN fields :
        s = [f \in DOMAIN fields \cup DOMAIN always \cup {"kind"} |->
               CASE f = "kind" -> kind
                 [] f \in empty -> Blank
                 [] f \in DOMAIN fields \ empty -> fields[f]
                 [] OTHER -> always[f]]
  BY DEF With
<1>2. s.kind = kind BY <1>1
<1>3. ASSUME NEW f \in DOMAIN fields PROVE s[f] \in {Blank, fields[f]} BY <1>1
<1>4. ASSUME NEW f \in DOMAIN always, f \notin DOMAIN fields, f # "kind" PROVE s[f] = always[f]
  BY <1>1, <1>4
<1>5. QED BY <1>2, <1>3, <1>4

LEMMA WithKind ==
  ASSUME NEW kind, NEW fields, NEW always, NEW s \in With(kind, fields, always),
         "kind" \notin DOMAIN fields
  PROVE  s.kind = kind
<1>1. PICK empty \in SUBSET DOMAIN fields :
        s = [f \in DOMAIN fields \cup DOMAIN always \cup {"kind"} |->
               CASE f = "kind" -> kind
                 [] f \in empty -> Blank
                 [] f \in DOMAIN fields \ empty -> fields[f]
                 [] OTHER -> always[f]]
  BY DEF With
<1>2. QED BY <1>1

(* The amounts that are given, each in its unit.                           *)
LEMMA Amounts ==
  /\ \A unit : Blank \in FieldOf(unit) /\ \A n \in Int : Q(n, unit) \in FieldOf(unit)
  /\ Deg \in FieldOf("deg") /\ Kn \in FieldOf("kn") /\ Mps \in FieldOf("m/s")
  /\ Celsius \in FieldOf("C") /\ Metre \in FieldOf("m") /\ Foot \in FieldOf("ft")
  /\ Fathom \in FieldOf("fathom") /\ Mile \in FieldOf("nmi") /\ Rad \in FieldOf("rad")
  /\ Kelvin \in FieldOf("K")
  BY DEF FieldOf, Q, Deg, Kn, Mps, Celsius, Metre, Foot, Fathom, Mile, Rad, Kelvin

(* They are what a parser gives.                                           *)
LEMMA NavigationIsParsed ==
  ASSUME NEW s \in NavigationSentences
  PROVE  ParsedSentence(s) /\ s.kind \in SentenceKinds
<1>1. CASE s \in RmcSentences
  <2>1. /\ s.kind = "RMC" /\ s.speed_over_ground \in FieldOf("kn")
        /\ s.true_course \in FieldOf("deg") /\ s.magnetic_variation \in FieldOf("deg")
    BY <1>1, WithFields, Amounts DEF RmcSentences, NoFields
  <2>2. QED BY <2>1 DEF ParsedSentence, SentenceKinds
<1>2. CASE s \in GgaSentences
  <2>1. s.kind = "GGA"
    BY <1>2, WithKind DEF GgaSentences
  <2>2. QED BY <2>1 DEF ParsedSentence, SentenceKinds
<1>3. CASE s \in VtgSentences
  <2>1. /\ s.kind = "VTG" /\ s.true_course \in FieldOf("deg")
        /\ s.speed_over_ground \in FieldOf("kn")
    BY <1>3, WithFields, Amounts DEF VtgSentences, NoFields
  <2>2. QED BY <2>1 DEF ParsedSentence, SentenceKinds
<1>4. CASE s \in GllSentences
  <2>1. s.kind = "GLL"
    BY <1>4, WithKind DEF GllSentences
  <2>2. QED BY <2>1 DEF ParsedSentence, SentenceKinds
<1>5. CASE s \in GnsSentences
  <2>1. s.kind = "GNS"
    BY <1>5, WithKind DEF GnsSentences
  <2>2. QED BY <2>1 DEF ParsedSentence, SentenceKinds
<1>6. CASE s \in HdtSentences
  <2>1. s.kind = "HDT" /\ s.heading \in FieldOf("deg")
    BY <1>6, WithFields, Amounts DEF HdtSentences, NoFields
  <2>2. QED BY <2>1 DEF ParsedSentence, SentenceKinds
<1>7. CASE s \in HdmSentences
  <2>1. s.kind = "HDM" /\ s.heading \in FieldOf("deg")
    BY <1>7, WithFields, Amounts DEF HdmSentences, NoFields
  <2>2. QED BY <2>1 DEF ParsedSentence, SentenceKinds
<1>8. CASE s \in HdgSentences
  <2>1. /\ s.kind = "HDG" /\ s.heading \in FieldOf("deg") /\ s.deviation \in FieldOf("deg")
        /\ s.variation \in FieldOf("deg")
    BY <1>8, WithFields, Amounts DEF HdgSentences, NoFields
  <2>2. QED BY <2>1 DEF ParsedSentence, SentenceKinds
<1>9. CASE s \in VhwSentences
  <2>1. /\ s.kind = "VHW" /\ s.relative_speed_knots \in FieldOf("kn")
        /\ s.heading_true \in FieldOf("deg") /\ s.heading_magnetic \in FieldOf("deg")
    BY <1>9, WithFields, Amounts DEF VhwSentences, NoFields
  <2>2. QED BY <2>1 DEF ParsedSentence, SentenceKinds
<1>10. CASE s \in RotSentences
  <2>1. s.kind = "ROT" /\ s.rate \in FieldOf("deg/min")
    BY <1>10, WithFields, Amounts DEF RotSentences, NoFields
  <2>2. QED BY <2>1 DEF ParsedSentence, SentenceKinds
<1>11. CASE s \in VlwSentences
  <2>1. /\ s.kind = "VLW" /\ s.trip_water_distance \in FieldOf("nmi")
        /\ s.total_water_distance \in FieldOf("nmi")
    BY <1>11, WithFields, Amounts DEF VlwSentences, NoFields
  <2>2. QED BY <2>1 DEF ParsedSentence, SentenceKinds
<1>12. CASE s \in VdrSentences
  <2>1. s.kind = "VDR" /\ s.direction_true \in FieldOf("deg") /\ s.speed \in FieldOf("kn")
    BY <1>12, WithFields, Amounts DEF VdrSentences, NoFields
  <2>2. QED BY <2>1 DEF ParsedSentence, SentenceKinds
<1>13. CASE s \in RmbSentences
  <2>1. /\ s.kind = "RMB" /\ s.range_to_dest \in FieldOf("nmi")
        /\ s.bearing_to_dest \in FieldOf("deg")
    BY <1>13, WithFields, Amounts DEF RmbSentences, NoFields
  <2>2. QED BY <2>1 DEF ParsedSentence, SentenceKinds
<1>14. CASE s \in BwcSentences
  <2>1. /\ s.kind = "BWC" /\ s.true_bearing \in FieldOf("deg")
        /\ s.magnetic_bearing \in FieldOf("deg") /\ s.distance \in FieldOf("nmi")
    BY <1>14, WithFields, Amounts DEF BwcSentences, NoFields
  <2>2. QED BY <2>1 DEF ParsedSentence, SentenceKinds
<1>15. CASE s \in BodSentences
  <2>1. /\ s.kind = "BOD" /\ s.bearing_true \in FieldOf("deg")
        /\ s.bearing_magnetic \in FieldOf("deg")
    BY <1>15, WithFields, Amounts DEF BodSentences, NoFields
  <2>2. QED BY <2>1 DEF ParsedSentence, SentenceKinds
<1>16. CASE s \in XteSentences
  <2>1. s.kind = "XTE"
    BY <1>16, WithKind DEF XteSentences
  <2>2. QED BY <2>1 DEF ParsedSentence, SentenceKinds
<1>17. QED BY <1>1, <1>2, <1>3, <1>4, <1>5, <1>6, <1>7, <1>8, <1>9, <1>10, <1>11, <1>12,
<1>13, <1>14, <1>15, <1>16 DEF NavigationSentences

(* And these.                                                              *)
LEMMA OthersAreParsed ==
  ASSUME NEW s \in OtherSentences
  PROVE  ParsedSentence(s) /\ s.kind \in SentenceKinds
<1>1. CASE s \in MwvSentences
  <2> DEFINE units == {<<"Knots", "kn">>, <<"MetersPerSecond", "m/s">>,
                       <<"KilometersPerHour", "km/h">>, <<"MilesPerHour", "mph">>}
             one(r, u) == With("MWV", [wind_direction |-> Deg, wind_speed |-> Q(1000, u[2])],
                               [data_valid |-> TRUE, reference |-> r, wind_speed_units |-> u[1]])
  <2>1. MwvSentences = UNION {one(r, u) : r \in {"Relative", "Theoretical"}, u \in units}
    BY DEF MwvSentences
  <2> HIDE DEF one, units
  <2>2. PICK r, u : u \in units /\ s \in one(r, u) BY <1>1, <2>1
  <2>3. u[2] = SpeedUnit(u[1]) BY <2>2 DEF units, SpeedUnit
  <2>4. s \in With("MWV", [wind_direction |-> Deg, wind_speed |-> Q(1000, u[2])],
                   [data_valid |-> TRUE, reference |-> r, wind_speed_units |-> u[1]])
    BY <2>2 DEF one
  <2>5. /\ s.kind = "MWV" /\ s.wind_direction \in FieldOf("deg")
        /\ s.wind_speed \in FieldOf(SpeedUnit(s.wind_speed_units))
    BY <2>3, <2>4, WithFields, Amounts DEF NoFields
  <2>6. QED BY <2>5 DEF ParsedSentence, SentenceKinds
<1>2. CASE s \in MwdSentences
  <2>1. /\ s.kind = "MWD" /\ s.wind_direction_true \in FieldOf("deg")
        /\ s.wind_direction_magnetic \in FieldOf("deg")
        /\ s.wind_speed_mps \in FieldOf("m/s") /\ s.wind_speed_knots \in FieldOf("kn")
    BY <1>2, WithFields, Amounts DEF MwdSentences, NoFields
  <2>2. QED BY <2>1 DEF ParsedSentence, SentenceKinds
<1>3. CASE s \in RelativeWindSentences
  <2>1. PICK k \in {"VWR", "VWT"} : s \in With(k, [wind_angle |-> Deg, speed_mps |-> Mps,
  speed_knots |-> Kn], NoFields)
    BY <1>3 DEF RelativeWindSentences
  <2>2. /\ s.kind \in {"VWR", "VWT"} /\ s.wind_angle \in FieldOf("deg")
        /\ s.speed_mps \in FieldOf("m/s") /\ s.speed_knots \in FieldOf("kn")
    BY <2>1, WithFields, Amounts DEF NoFields
  <2>3. QED BY <2>2 DEF ParsedSentence, SentenceKinds
<1>4. CASE s \in DptSentences
  <2>1. PICK o \in {50, -50} : s \in With("DPT", [water_depth |-> Metre, offset |-> Q(o,
  "m")], NoFields)
    BY <1>4 DEF DptSentences
  <2>2. s.kind = "DPT" /\ s.water_depth \in FieldOf("m") /\ s.offset \in FieldOf("m")
    BY <2>1, WithFields, Amounts DEF NoFields
  <2>3. QED BY <2>2 DEF ParsedSentence, SentenceKinds
<1>5. CASE s \in DepthSentences
  <2>1. PICK k \in {"DBT", "DBK"} : s \in With(k, [depth_meters |-> Metre, depth_feet |->
  Foot, depth_fathoms |-> Fathom], NoFields)
    BY <1>5 DEF DepthSentences
  <2>2. /\ s.kind \in {"DBT", "DBK"} /\ s.depth_meters \in FieldOf("m")
        /\ s.depth_feet \in FieldOf("ft") /\ s.depth_fathoms \in FieldOf("fathom")
    BY <2>1, WithFields, Amounts DEF NoFields
  <2>3. QED BY <2>2 DEF ParsedSentence, SentenceKinds
<1>6. CASE s \in DbsSentences
  <2>1. /\ s.kind = "DBS" /\ s.water_depth_meters \in FieldOf("m")
        /\ s.water_depth_feet \in FieldOf("ft")
        /\ s.water_depth_fathoms \in FieldOf("fathom")
    BY <1>6, WithFields, Amounts DEF DbsSentences, NoFields
  <2>2. QED BY <2>1 DEF ParsedSentence, SentenceKinds
<1>7. CASE s \in MtwSentences
  <2>1. s.kind = "MTW" /\ s.temperature \in FieldOf("C")
    BY <1>7, WithFields, Amounts DEF MtwSentences, NoFields
  <2>2. QED BY <2>1 DEF ParsedSentence, SentenceKinds
<1>8. CASE s \in MdaSentences
  <2>1. /\ s.kind = "MDA" /\ s.pressure_bar \in FieldOf("bar")
        /\ s.air_temp_deg \in FieldOf("C") /\ s.water_temp_deg \in FieldOf("C")
        /\ s.rel_humidity \in FieldOf("%") /\ s.dew_point \in FieldOf("C")
        /\ s.wind_direction_true \in FieldOf("deg") /\ s.wind_speed_ms \in FieldOf("m/s")
        /\ s.wind_speed_knots \in FieldOf("kn")
    BY <1>8, WithFields, Amounts DEF MdaSentences, NoFields
  <2>2. QED BY <2>1 DEF ParsedSentence, SentenceKinds
<1>9. CASE s \in RsaSentences
  <2>1. PICK a \in BOOLEAN, p \in BOOLEAN : s \in With("RSA", [starboard |-> Deg, port |->
  Deg], [starboard_valid |-> a, port_valid |-> p])
    BY <1>9 DEF RsaSentences
  <2>2. s.kind = "RSA" /\ s.starboard \in FieldOf("deg") /\ s.port \in FieldOf("deg")
    BY <2>1, WithFields, Amounts DEF NoFields
  <2>3. QED BY <2>2 DEF ParsedSentence, SentenceKinds
<1>10. CASE s \in RpmSentences
  <2>1. PICK a \in {"Engine", "Shaft"} : s \in With("RPM", [rpm |-> Q(180000, "rpm"), pitch
  |-> Q(5000, "%")], [valid |-> TRUE, source |-> a, source_number |-> 1])
    BY <1>10 DEF RpmSentences
  <2>2. s.kind = "RPM" /\ s.source_number = 1
    BY <2>1, WithFields, Amounts DEF NoFields
  <2>3. QED BY <2>2 DEF ParsedSentence, SentenceKinds
<1>11. CASE s \in TransducerSentences
  <2>1. PICK m : s = [kind |-> "XDR", measurements |-> <<m>>] /\ m.value \in FieldOf(TypeUnit(m.type))
    BY <1>11, Amounts DEF TransducerSentences, TypeUnit
  <2>2. s.kind = "XDR" /\ DOMAIN s.measurements = 1 .. 1 /\ \A i \in 1 .. 1 : s.measurements[i] = m
    BY <2>1
  <2>3. QED BY <2>1, <2>2 DEF ParsedSentence, SentenceKinds
<1>12. QED BY <1>1, <1>2, <1>3, <1>4, <1>5, <1>6, <1>7, <1>8, <1>9, <1>10, <1>11 DEF
OtherSentences

(* The messages are what is decoded.                                       *)
LEMMA MessagesAreDecoded ==
  ASSUME NEW m \in Messages
  PROVE  DecodedMessage(m) /\ m.kind \in MessageKinds
<1>1. CASE m \in VesselHeadingMessages
  <2>1. PICK r \in {"True", "Magnetic"} : m \in With("VesselHeading", [heading |-> Rad,
  variation |-> Rad], [reference |-> r])
    BY <1>1 DEF VesselHeadingMessages
  <2>2. /\ m.kind = "VesselHeading" /\ m.heading \in FieldOf("rad")
        /\ m.variation \in FieldOf("rad")
    BY <2>1, WithFields, Amounts DEF NoFields
  <2>3. QED BY <2>2 DEF DecodedMessage, MessageKinds
<1>2. CASE m \in CogSogRapidUpdateMessages
  <2>1. PICK r \in {"True", "Magnetic"} : m \in With("CogSogRapidUpdate", [cog |-> Rad, sog
  |-> Mps], [cog_reference |-> r])
    BY <1>2 DEF CogSogRapidUpdateMessages
  <2>2. m.kind = "CogSogRapidUpdate" /\ m.cog \in FieldOf("rad") /\ m.sog \in FieldOf("m/s")
    BY <2>1, WithFields, Amounts DEF NoFields
  <2>3. QED BY <2>2 DEF DecodedMessage, MessageKinds
<1>3. CASE m \in SpeedMessages
  <2>1. /\ m.kind = "Speed" /\ m.speed_water_referenced \in FieldOf("m/s")
        /\ m.speed_ground_referenced \in FieldOf("m/s")
    BY <1>3, WithFields, Amounts DEF SpeedMessages, NoFields
  <2>2. QED BY <2>1 DEF DecodedMessage, MessageKinds
<1>4. CASE m \in WaterDepthMessages
  <2>1. PICK o \in {50, -50} : m \in With("WaterDepth", [depth |-> Metre, offset |-> Q(o,
  "m")], NoFields)
    BY <1>4 DEF WaterDepthMessages
  <2>2. m.kind = "WaterDepth" /\ m.depth \in FieldOf("m") /\ m.offset \in FieldOf("m")
    BY <2>1, WithFields, Amounts DEF NoFields
  <2>3. QED BY <2>2 DEF DecodedMessage, MessageKinds
<1>5. CASE m \in DistanceLogMessages
  <2>1. m.kind = "DistanceLog" /\ m.log \in FieldOf("m") /\ m.trip_log \in FieldOf("m")
    BY <1>5, WithFields, Amounts DEF DistanceLogMessages, NoFields
  <2>2. QED BY <2>1 DEF DecodedMessage, MessageKinds
<1>6. CASE m \in GnssPositionDataMessages
  <2>1. m.kind = "GnssPositionData"
    BY <1>6, WithKind DEF GnssPositionDataMessages
  <2>2. QED BY <2>1 DEF DecodedMessage, MessageKinds
<1>7. CASE m \in TimeDateMessages
  <2>1. m.kind = "TimeDate"
    BY <1>7, WithKind DEF TimeDateMessages
  <2>2. QED BY <2>1 DEF DecodedMessage, MessageKinds
<1>8. CASE m \in CrossTrackErrorMessages
  <2>1. m.kind = "CrossTrackError"
    BY <1>8, WithKind DEF CrossTrackErrorMessages
  <2>2. QED BY <2>1 DEF DecodedMessage, MessageKinds
<1>9. CASE m \in RateOfTurnMessages
  <2>1. m.kind = "RateOfTurn" /\ m.rate \in FieldOf("rad/s")
    BY <1>9, WithFields, Amounts DEF RateOfTurnMessages, NoFields
  <2>2. QED BY <2>1 DEF DecodedMessage, MessageKinds
<1>10. CASE m \in AttitudeMessages
  <2>1. /\ m.kind = "Attitude" /\ m.yaw \in FieldOf("rad") /\ m.pitch \in FieldOf("rad")
        /\ m.roll \in FieldOf("rad")
    BY <1>10, WithFields, Amounts DEF AttitudeMessages, NoFields
  <2>2. QED BY <2>1 DEF DecodedMessage, MessageKinds
<1>11. CASE m \in WindDataMessages
  <2>1. PICK r \in {"Apparent", "TrueBoatReferenced", "TrueWaterReferenced",
  "TrueGroundReferencedToNorth", "MagneticGroundReferencedToNorth"} : m \in
  With("WindData", [wind_speed |-> Mps, wind_angle |-> Rad], [reference |-> r])
    BY <1>11 DEF WindDataMessages
  <2>2. /\ m.kind = "WindData" /\ m.wind_speed \in FieldOf("m/s")
        /\ m.wind_angle \in FieldOf("rad")
    BY <2>1, WithFields, Amounts DEF NoFields
  <2>3. QED BY <2>2 DEF DecodedMessage, MessageKinds
<1>12. CASE m \in TemperatureMessages
  <2>1. PICK s \in DOMAIN TemperaturePath \cup {"LiveWellTemperature"} : m \in
  With("Temperature", [actual_temperature |-> Kelvin], [source |-> s])
    BY <1>12 DEF TemperatureMessages
  <2>2. m.kind = "Temperature" /\ m.actual_temperature \in FieldOf("K")
    BY <2>1, WithFields, Amounts DEF NoFields
  <2>3. QED BY <2>2 DEF DecodedMessage, MessageKinds
<1>13. CASE m \in RudderMessages
  <2>1. m.kind = "Rudder" /\ m.position \in FieldOf("rad")
    BY <1>13, WithFields, Amounts DEF RudderMessages, NoFields
  <2>2. QED BY <2>1 DEF DecodedMessage, MessageKinds
<1>14. CASE m \in EngineParametersRapidUpdateMessages
  <2>1. m.kind = "EngineParametersRapidUpdate" /\ m.instance = 1
    BY <1>14, WithFields, Amounts DEF EngineParametersRapidUpdateMessages, NoFields
  <2>2. QED BY <2>1 DEF DecodedMessage, MessageKinds
<1>15. CASE m \in EngineParametersDynamicMessages
  <2>1. /\ m.kind = "EngineParametersDynamic" /\ m.instance = 1
        /\ m.oil_pressure \in FieldOf("Pa") /\ m.temperature \in FieldOf("K")
        /\ m.oil_temperature \in FieldOf("K")
    BY <1>15, WithFields, Amounts DEF EngineParametersDynamicMessages, NoFields
  <2>2. QED BY <2>1 DEF DecodedMessage, MessageKinds
<1>16. CASE m \in BatteryStatusMessages
  <2>1. /\ m.kind = "BatteryStatus" /\ m.instance = 1 /\ m.voltage \in FieldOf("V")
        /\ m.current \in FieldOf("A")
    BY <1>16, WithFields, Amounts DEF BatteryStatusMessages, NoFields
  <2>2. QED BY <2>1 DEF DecodedMessage, MessageKinds
<1>17. QED BY <1>1, <1>2, <1>3, <1>4, <1>5, <1>6, <1>7, <1>8, <1>9, <1>10, <1>11, <1>12,
<1>13, <1>14, <1>15, <1>16 DEF Messages

(* A sentence or message, whichever of its fields are empty, tells every   *)
(* path in the unit the server's metadata and categories have for it.      *)
THEOREM UnitsAlwaysAgree == UnitSpec => []UnitsAgree
<1>1. UnitInit => UnitsAgree BY DEF UnitInit, UnitsAgree, NoPaths
<1>2. UnitsAgree /\ [UnitNext]_unitVars => UnitsAgree'
  <2> SUFFICES ASSUME UnitsAgree, [UnitNext]_unitVars PROVE UnitsAgree'
    OBVIOUS
  <2>0. ASSUME InUnits(heardValues') PROVE UnitsAgree'
    BY <2>0 DEF UnitsAgree, InUnits, PathUnits
  <2>1. CASE HearSentence
    <3>1. PICK s \in NavigationSentences \cup OtherSentences : heardValues' = sentence_to_delta(s)
      BY <2>1 DEF HearSentence
    <3>2. ParsedSentence(s) /\ s.kind \in SentenceKinds
      BY <3>1, NavigationIsParsed, OthersAreParsed
    <3>3. QED BY <2>0, <3>1, <3>2, SentencesInUnits
  <2>2. CASE HearMessage
    <3>1. PICK m \in Messages :
            heardValues' = IF decoded_to_delta(m) = Blank THEN NoPaths ELSE decoded_to_delta(m).values
      BY <2>2 DEF HearMessage
    <3>2. heardValues' = values_of(decoded_to_delta(m)) BY <3>1 DEF values_of
    <3>3. DecodedMessage(m) /\ m.kind \in MessageKinds BY <3>1, MessagesAreDecoded
    <3>4. QED BY <2>0, <3>2, <3>3, MessagesInUnits
  <2>3. CASE UNCHANGED unitVars BY <2>3 DEF unitVars, UnitsAgree
  <2>4. QED BY <2>1, <2>2, <2>3 DEF UnitNext
<1>3. QED BY <1>1, <1>2, PTL DEF UnitSpec

-----------------------------------------------------------------------------
(* Conversions, there and back.                                            *)

LEMMA Rounded ==
  ASSUME NEW n \in Int
  PROVE  ((n + 5) \div 10) * 10 \in n - 4 .. n + 5
<1> DEFINE tens == (n + 5) \div 10
<1>1. tens \in Int /\ 10 * tens <= n + 5 /\ n + 5 < 10 * tens + 10 OBVIOUS
<1> HIDE DEF tens
<1>2. tens * 10 \in n - 4 .. n + 5 BY <1>1
<1>3. QED BY <1>2 DEF tens

LEMMA QuantityIs ==
  ASSUME NEW n \in Int, NEW unit \in UnitNames
  PROVE  Q(n, unit) # Blank /\ Q(n, unit).n = n /\ Q(n, unit).unit = unit
  BY BlankAssumption DEF Q

LEMMA PrintedIs ==
  ASSUME NEW n \in Int, NEW unit \in UnitNames
  PROVE  \E shown \in Int : /\ n - 4 <= shown /\ shown <= n + 5
                            /\ Printed(Q(n, unit)) = Q(shown, unit)
<1> DEFINE shown == ((n + 5) \div 10) * 10
<1>1. Printed(Q(n, unit)) = Q(shown, unit) BY QuantityIs DEF Printed
<1>2. shown \in n - 4 .. n + 5 BY Rounded
<1> HIDE DEF shown
<1>3. shown \in Int /\ n - 4 <= shown /\ shown <= n + 5 BY <1>2
<1>4. QED BY <1>1, <1>3

(* Knots and metres a second: the factors, and what is lost.               *)
LEMMA KnotsOf ==
  ASSUME NEW n \in Int
  PROVE  LET k == (n * 194384) \div 100000
         IN  k \in Int /\ k * 100000 <= n * 194384 /\ n * 194384 < k * 100000 + 100000
  BY SMT
LEMMA MetresOf ==
  ASSUME NEW n \in Int
  PROVE  LET k == (n * 514444) \div 1000000
         IN  k \in Int /\ k * 1000000 <= n * 514444 /\ n * 514444 < k * 1000000 + 1000000
  BY SMT
LEMMA SpeedLost ==
  ASSUME NEW n \in Int, NEW k \in Int, NEW shown \in Int, NEW back \in Int,
         k * 100000 <= n * 194384, n * 194384 < k * 100000 + 100000,
         k - 4 <= shown, shown <= k + 5,
         back * 1000000 <= shown * 514444, shown * 514444 < back * 1000000 + 1000000,
         n <= TopSpeed, - TopSpeed <= n
  PROVE  back - n <= 10 /\ -10 <= back - n
  BY SMT DEF TopSpeed

LEMMA SpeedThereAndBack ==
  ASSUME NEW n \in Int, n <= TopSpeed, - TopSpeed <= n
  PROVE  \E back \in Int : /\ Knots(Printed(InKnots(Q(n, "m/s")))) = Q(back, "m/s")
                           /\ back - n <= 10 /\ -10 <= back - n
<1> DEFINE k == (n * 194384) \div 100000
<1>1. InKnots(Q(n, "m/s")) = Q(k, "kn")
  <2> DEFINE q == Q(n, "m/s")
  <2>1. q # Blank /\ q.n = n /\ q.unit = "m/s" BY QuantityIs DEF UnitNames
  <2> HIDE DEF q
  <2>2. InKnots(q) = Q(k, "kn") BY <2>1, SMT DEF InKnots, Scaled
  <2>3. QED BY <2>2 DEF q
<1>2. k \in Int BY KnotsOf, SMT
<1> HIDE DEF k
<1>3. PICK shown \in Int : /\ k - 4 <= shown /\ shown <= k + 5
                           /\ Printed(Q(k, "kn")) = Q(shown, "kn")
  BY <1>2, PrintedIs DEF UnitNames
<1> DEFINE back == (shown * 514444) \div 1000000
<1>4. Knots(Q(shown, "kn")) = Q(back, "m/s")
  <2> DEFINE q == Q(shown, "kn")
  <2>1. q # Blank /\ q.n = shown /\ q.unit = "kn" BY QuantityIs DEF UnitNames
  <2> HIDE DEF q
  <2>2. Knots(q) = Q(back, "m/s") BY <2>1, SMT DEF Knots, Scaled
  <2>3. QED BY <2>2 DEF q
<1>5. back \in Int BY MetresOf, SMT
<1>6. back - n <= 10 /\ -10 <= back - n
  BY <1>2, <1>3, <1>5, KnotsOf, MetresOf, SpeedLost, SMT DEF k
<1> HIDE DEF back
<1>7. QED BY <1>1, <1>3, <1>4, <1>5, <1>6

LEMMA DegreesOf ==
  ASSUME NEW n \in Int
  PROVE  LET k == (n * 57296) \div 10000
         IN  k \in Int /\ k * 10000 <= n * 57296 /\ n * 57296 < k * 10000 + 10000
  BY SMT
LEMMA RadiansOf ==
  ASSUME NEW n \in Int
  PROVE  LET k == (n * 17453) \div 100000
         IN  k \in Int /\ k * 100000 <= n * 17453 /\ n * 17453 < k * 100000 + 100000
  BY SMT
LEMMA AngleLost ==
  ASSUME NEW n \in Int, NEW k \in Int, NEW shown \in Int, NEW back \in Int,
         k * 10000 <= n * 57296, n * 57296 < k * 10000 + 10000,
         k - 4 <= shown, shown <= k + 5,
         back * 100000 <= shown * 17453, shown * 17453 < back * 100000 + 100000,
         n <= TopAngle, - TopAngle <= n
  PROVE  back - n <= 3 /\ -3 <= back - n
  BY SMT DEF TopAngle

LEMMA AngleThereAndBack ==
  ASSUME NEW n \in Int, n <= TopAngle, - TopAngle <= n
  PROVE  \E back \in Int : /\ Radians(Printed(InDegrees(Q(n, "rad")))) = Q(back, "rad")
                           /\ back - n <= 3 /\ -3 <= back - n
<1> DEFINE k == (n * 57296) \div 10000
<1>1. InDegrees(Q(n, "rad")) = Q(k, "deg")
  <2> DEFINE q == Q(n, "rad")
  <2>1. q # Blank /\ q.n = n /\ q.unit = "rad" BY QuantityIs DEF UnitNames
  <2> HIDE DEF q
  <2>2. InDegrees(q) = Q(k, "deg") BY <2>1, SMT DEF InDegrees, Scaled
  <2>3. QED BY <2>2 DEF q
<1>2. k \in Int BY DegreesOf, SMT
<1> HIDE DEF k
<1>3. PICK shown \in Int : /\ k - 4 <= shown /\ shown <= k + 5
                           /\ Printed(Q(k, "deg")) = Q(shown, "deg")
  BY <1>2, PrintedIs DEF UnitNames
<1> DEFINE back == (shown * 17453) \div 100000
<1>4. Radians(Q(shown, "deg")) = Q(back, "rad")
  <2> DEFINE q == Q(shown, "deg")
  <2>1. q # Blank /\ q.n = shown /\ q.unit = "deg" BY QuantityIs DEF UnitNames
  <2> HIDE DEF q
  <2>2. Radians(q) = Q(back, "rad") BY <2>1, SMT DEF Radians, Scaled
  <2>3. QED BY <2>2 DEF q
<1>5. back \in Int BY RadiansOf, SMT
<1>6. back - n <= 3 /\ -3 <= back - n
  BY <1>2, <1>3, <1>5, DegreesOf, RadiansOf, AngleLost, SMT DEF k
<1> HIDE DEF back
<1>7. QED BY <1>1, <1>3, <1>4, <1>5, <1>6

LEMMA DepthPrinted ==
  ASSUME NEW n \in Int
  PROVE  \E shown \in Int : /\ Printed(Q(n, "m")) = Q(shown, "m")
                            /\ shown - n <= 10 /\ -10 <= shown - n
  BY PrintedIs DEF UnitNames

(* As the receiver has them.                                               *)
LEMMA SpeedHeard ==
  ASSUME NEW q \in Speeds
  PROVE  /\ q # Blank /\ Knots(Printed(InKnots(q))) # Blank
         /\ Same(Knots(Printed(InKnots(q))), q)
<1>1. TopSpeed \in Int BY DEF TopSpeed
<1>2. PICK n \in Int : q = Q(n, "m/s") /\ n <= TopSpeed /\ - TopSpeed <= n
  BY <1>1 DEF Speeds, Q
<1>3. PICK back \in Int : /\ Knots(Printed(InKnots(Q(n, "m/s")))) = Q(back, "m/s")
                          /\ back - n <= 10 /\ -10 <= back - n
  BY <1>2, SpeedThereAndBack
<1>4. Same(Q(back, "m/s"), Q(n, "m/s")) BY <1>3 DEF Same, Near, Q
<1>5. Q(n, "m/s") # Blank /\ Q(back, "m/s") # Blank BY QuantityIs DEF UnitNames
<1>6. QED BY <1>2, <1>3, <1>4, <1>5

LEMMA AngleHeard ==
  ASSUME NEW q \in Angles
  PROVE  /\ q # Blank /\ Radians(Printed(InDegrees(q))) # Blank
         /\ Same(Radians(Printed(InDegrees(q))), q)
<1>1. TopAngle \in Int BY DEF TopAngle
<1>2. PICK n \in Int : q = Q(n, "rad") /\ n <= TopAngle /\ - TopAngle <= n
  BY <1>1 DEF Angles, Q
<1>3. PICK back \in Int : /\ Radians(Printed(InDegrees(Q(n, "rad")))) = Q(back, "rad")
                          /\ back - n <= 3 /\ -3 <= back - n
  BY <1>2, AngleThereAndBack
<1>4. Same(Q(back, "rad"), Q(n, "rad")) BY <1>3 DEF Same, Near, Q
<1>5. Q(n, "rad") # Blank /\ Q(back, "rad") # Blank BY QuantityIs DEF UnitNames
<1>6. QED BY <1>2, <1>3, <1>4, <1>5

LEMMA DepthHeard ==
  ASSUME NEW q \in Lengths
  PROVE  q # Blank /\ Printed(q) # Blank /\ Same(Printed(q), q)
<1>1. PICK n \in Int : q = Q(n, "m") BY DEF Lengths, Q
<1>2. PICK shown \in Int : /\ Printed(Q(n, "m")) = Q(shown, "m")
                           /\ shown - n <= 10 /\ -10 <= shown - n
  BY DepthPrinted
<1>3. Same(Q(shown, "m"), Q(n, "m")) BY <1>2 DEF Same, Near, Q
<1>4. Q(n, "m") # Blank /\ Q(shown, "m") # Blank BY QuantityIs DEF UnitNames
<1>5. QED BY <1>1, <1>2, <1>3, <1>4

-----------------------------------------------------------------------------
(* What is told of a snapshot.                                             *)

(* Each path is empty, or has what can be told of it.                      *)
Snapshot(snap) ==
  DOMAIN snap = SentPaths /\ \A p \in SentPaths : snap[p] = Blank \/ snap[p] \in Sendable(p)

(* Nothing a delta tells of a snapshot's paths is wrong.                   *)
Faithful(values, snap) ==
  \A p \in DOMAIN values \cap SentPaths : snap[p] # Blank /\ Same(values[p], snap[p])

LEMMA OptValue ==
  ASSUME NEW path, NEW q
  PROVE  /\ \A p : p \in DOMAIN Opt(path, q) <=> q # Blank /\ p = path
         /\ q # Blank => Opt(path, q)[path] = q
  BY DEF Opt, NoPaths

LEMMA FaithfulOpt ==
  ASSUME NEW snap, NEW path, NEW q,
         path \in SentPaths /\ q # Blank => snap[path] # Blank /\ Same(q, snap[path])
  PROVE  Faithful(Opt(path, q), snap)
  BY OptValue DEF Faithful

LEMMA FaithfulJoin ==
  ASSUME NEW snap, NEW f, NEW g, Faithful(f, snap), Faithful(g, snap)
  PROVE  Faithful(f ++ g, snap)
  BY JoinValue DEF Faithful

LEMMA FaithfulNoPaths == \A snap : Faithful(NoPaths, snap)
  BY DEF Faithful, NoPaths

(* The fields of the sentences, as they are heard.                         *)
LEMMA HeardFields ==
  ASSUME NEW snap, Snapshot(snap)
  PROVE  /\ \A p \in {"navigation.speedOverGround", "environment.wind.speedApparent"} :
              LET back == Knots(Printed(InKnots(snap[p])))
              IN  (back # Blank <=> snap[p] # Blank) /\ (snap[p] # Blank => Same(back, snap[p]))
         /\ \A p \in {"navigation.courseOverGroundTrue", "navigation.headingTrue",
                      "navigation.magneticVariation", "environment.wind.angleApparent"} :
              LET back == Radians(Printed(InDegrees(snap[p])))
              IN  (back # Blank <=> snap[p] # Blank) /\ (snap[p] # Blank => Same(back, snap[p]))
<1>1. \A q : q = Blank => /\ Knots(Printed(InKnots(q))) = Blank
                          /\ Radians(Printed(InDegrees(q))) = Blank
  BY DEF Knots, Radians, Printed, InKnots, InDegrees, Scaled
<1>2. ASSUME NEW p \in {"navigation.speedOverGround", "environment.wind.speedApparent"},
             snap[p] # Blank
      PROVE  /\ Knots(Printed(InKnots(snap[p]))) # Blank
             /\ Same(Knots(Printed(InKnots(snap[p]))), snap[p])
  <2>1. snap[p] \in Speeds BY <1>2 DEF Snapshot, SentPaths, Sendable
  <2>2. QED BY <2>1, SpeedHeard
<1>3. ASSUME NEW p \in {"navigation.courseOverGroundTrue", "navigation.headingTrue",
                        "navigation.magneticVariation", "environment.wind.angleApparent"},
             snap[p] # Blank
      PROVE  /\ Radians(Printed(InDegrees(snap[p]))) # Blank
             /\ Same(Radians(Printed(InDegrees(snap[p]))), snap[p])
  <2>1. snap[p] \in Angles BY <1>3 DEF Snapshot, SentPaths, Sendable
  <2>2. QED BY <2>1, AngleHeard
<1>4. QED BY <1>1, <1>2, <1>3

LEMMA HeardDepth ==
  ASSUME NEW snap, Snapshot(snap)
  PROVE  LET depth == snap["environment.depth.belowTransducer"]
         IN  /\ Printed(depth) # Blank <=> depth # Blank
             /\ depth # Blank => Same(Printed(depth), depth)
             /\ depth = Blank => Printed(InFeet(depth)) = Blank /\ Printed(InFathoms(depth)) = Blank
<1> DEFINE depth == snap["environment.depth.belowTransducer"]
<1>1. depth = Blank \/ depth \in Lengths BY DEF Snapshot, SentPaths, Sendable
<1> HIDE DEF depth
<1>2. ASSUME depth # Blank PROVE Printed(depth) # Blank /\ Same(Printed(depth), depth)
  BY <1>1, <1>2, DepthHeard
<1>3. depth = Blank => /\ Printed(depth) = Blank
                       /\ Printed(InFeet(depth)) = Blank /\ Printed(InFathoms(depth)) = Blank
  BY DEF Printed, InFeet, InFathoms, Scaled
<1>4. QED BY <1>2, <1>3 DEF depth

LEMMA HeardPosition ==
  ASSUME NEW snap, Snapshot(snap)
  PROVE  LET at   == snap["navigation.position"]
             back == Position("navigation.position", Mapped(LAMBDA p : p.n.latitude, at),
                              Mapped(LAMBDA p : p.n.longitude, at), Blank)
         IN  /\ Faithful(back, snap)
             /\ at # Blank => "navigation.position" \in DOMAIN back
<1> DEFINE at   == snap["navigation.position"]
           back == Position("navigation.position", Mapped(LAMBDA p : p.n.latitude, at),
                            Mapped(LAMBDA p : p.n.longitude, at), Blank)
<1>1. at = Blank \/ at \in [n : LatLons, unit : {"position"}]
  BY DEF Snapshot, SentPaths, Sendable
<1>2. CASE at = Blank
  <2>1. back = NoPaths BY <1>2 DEF Position, Mapped
  <2>2. QED BY <1>2, <2>1, FaithfulNoPaths
<1>3. CASE at \in [n : LatLons, unit : {"position"}]
  <2> DEFINE q == Q([latitude |-> at.n.latitude, longitude |-> at.n.longitude,
                     altitude |-> Blank], "position")
  <2>1. /\ at # Blank /\ at.unit = "position" /\ at.n \in LatLons
        /\ at.n.latitude \in Int /\ at.n.longitude \in Int
    BY <1>3, BlankAssumption DEF LatLons
  <2>2. at.n.latitude # Blank /\ at.n.longitude # Blank BY <2>1, BlankAssumption
  <2>3. back = Opt("navigation.position", q)
    BY <2>1, <2>2 DEF Position, Mapped
  <2>4. q # Blank
    <3>1. [latitude |-> at.n.latitude, longitude |-> at.n.longitude, altitude |-> Blank]
            \in LatLons
      BY <2>1 DEF LatLons
    <3>2. q \in [n : LatLons, unit : {"position"}] BY <3>1 DEF Q
    <3>3. QED BY <3>2, BlankAssumption
  <2>5. Same(q, at) BY <2>1 DEF Same, Q
  <2> HIDE DEF q
  <2>6. QED BY <2>1, <2>3, <2>4, <2>5, OptValue, FaithfulOpt
<1>4. QED BY <1>1, <1>2, <1>3

-----------------------------------------------------------------------------
(* The sentences: what each of them tells is right, and not missing.       *)

LEMMA TimesFaithful ==
  ASSUME NEW snap
  PROVE  /\ \A date, time : Faithful(DateTime(date, time), snap)
         /\ \A millis : Faithful(Clock(millis), snap)
<1>1. \A q : /\ Faithful(Opt("navigation.datetime", q), snap)
             /\ Faithful(Opt("environment.time.millis", q), snap)
             /\ Faithful(Opt("environment.time.timezoneOffset", q), snap)
             /\ Faithful(Opt("environment.time.timezoneRegion", q), snap)
  BY FaithfulOpt DEF SentPaths
<1>2. QED BY <1>1, FaithfulJoin DEF DateTime, Clock

LEMMA RmcHeard ==
  ASSUME NEW snap, Snapshot(snap)
  PROVE  LET values == sentence_to_delta(snapshot_to_rmc(snap))
         IN  /\ Faithful(values, snap)
             /\ \A p \in {"navigation.position", "navigation.speedOverGround",
                          "navigation.courseOverGroundTrue", "navigation.magneticVariation"} :
                  snap[p] # Blank => p \in DOMAIN values
<1> DEFINE s        == snapshot_to_rmc(snap)
           at       == snap["navigation.position"]
           position == Position("navigation.position", s.lat, s.lon, Blank)
           speed    == Opt("navigation.speedOverGround", Knots(s.speed_over_ground))
           course   == Opt("navigation.courseOverGroundTrue", Radians(s.true_course))
           magnetic == Opt("navigation.magneticVariation", Radians(s.magnetic_variation))
           clock    == IF s.status_of_fix # "Invalid" /\ s.fix_date # Blank /\ s.fix_time # Blank
                       THEN DateTime(s.fix_date, s.fix_time) ++ Clock(<<s.fix_date, s.fix_time>>)
                       ELSE NoPaths
<1>1. /\ s.kind = "RMC"
      /\ s.lat = Mapped(LAMBDA p : p.n.latitude, at)
      /\ s.lon = Mapped(LAMBDA p : p.n.longitude, at)
      /\ s.speed_over_ground = Printed(InKnots(snap["navigation.speedOverGround"]))
      /\ s.true_course = Printed(InDegrees(snap["navigation.courseOverGroundTrue"]))
      /\ s.magnetic_variation = Printed(InDegrees(snap["navigation.magneticVariation"]))
  BY DEF snapshot_to_rmc
<1> HIDE DEF s
<1>2. sentence_to_delta(s) = position ++ speed ++ course ++ magnetic ++ clock
  BY <1>1 DEF sentence_to_delta, from_rmc
<1>3. Faithful(position, snap) /\ (at # Blank => "navigation.position" \in DOMAIN position)
  BY <1>1, HeardPosition
<1>4. /\ Faithful(speed, snap)
      /\ snap["navigation.speedOverGround"] # Blank
           => "navigation.speedOverGround" \in DOMAIN speed
  BY <1>1, HeardFields, FaithfulOpt, OptValue
<1>5. /\ Faithful(course, snap)
      /\ snap["navigation.courseOverGroundTrue"] # Blank
           => "navigation.courseOverGroundTrue" \in DOMAIN course
  BY <1>1, HeardFields, FaithfulOpt, OptValue
<1>6. /\ Faithful(magnetic, snap)
      /\ snap["navigation.magneticVariation"] # Blank
           => "navigation.magneticVariation" \in DOMAIN magnetic
  BY <1>1, HeardFields, FaithfulOpt, OptValue
<1>7. Faithful(clock, snap) BY TimesFaithful, FaithfulJoin, FaithfulNoPaths
<1> HIDE DEF position, speed, course, magnetic, clock
<1>8. QED BY <1>2, <1>3, <1>4, <1>5, <1>6, <1>7, FaithfulJoin, JoinValue DEF s, at

LEMMA HdtHeard ==
  ASSUME NEW snap, Snapshot(snap)
  PROVE  LET values == sentence_to_delta(snapshot_to_hdt(snap))
         IN  /\ Faithful(values, snap)
             /\ snap["navigation.headingTrue"] # Blank => "navigation.headingTrue" \in DOMAIN values
<1> DEFINE s       == snapshot_to_hdt(snap)
           heading == Opt("navigation.headingTrue", Radians(s.heading))
<1>1. s.kind = "HDT" /\ s.heading = Printed(InDegrees(snap["navigation.headingTrue"]))
  BY DEF snapshot_to_hdt
<1> HIDE DEF s
<1>2. sentence_to_delta(s) = heading BY <1>1 DEF sentence_to_delta, from_hdt
<1>3. QED BY <1>1, <1>2, HeardFields, FaithfulOpt, OptValue DEF s

(* The wind is told when its angle is known.                               *)
LEMMA MwvHeard ==
  ASSUME NEW snap, Snapshot(snap)
  PROVE  LET values == sentence_to_delta(snapshot_to_mwv(snap))
         IN  /\ Faithful(values, snap)
             /\ snap["environment.wind.angleApparent"] # Blank =>
                  \A p \in {"environment.wind.angleApparent", "environment.wind.speedApparent"} :
                    snap[p] # Blank => p \in DOMAIN values
<1> DEFINE s     == snapshot_to_mwv(snap)
           angle == Opt("environment.wind.angleApparent", Radians(s.wind_direction))
           speed == Opt("environment.wind.speedApparent", Knots(s.wind_speed))
<1>1. /\ s.kind = "MWV" /\ s.reference = "Relative" /\ s.wind_speed_units = "Knots"
      /\ s.wind_direction = Printed(InDegrees(snap["environment.wind.angleApparent"]))
      /\ s.wind_speed = Printed(InKnots(snap["environment.wind.speedApparent"]))
      /\ s.data_valid <=> snap["environment.wind.angleApparent"] # Blank
  BY DEF snapshot_to_mwv
<1> HIDE DEF s
<1>2. CASE snap["environment.wind.angleApparent"] = Blank
  <2>1. sentence_to_delta(s) = NoPaths BY <1>1, <1>2 DEF sentence_to_delta, from_mwv
  <2>2. QED BY <1>2, <2>1, FaithfulNoPaths DEF s
<1>3. CASE snap["environment.wind.angleApparent"] # Blank
  <2>1. sentence_to_delta(s) = angle ++ speed
    BY <1>1, <1>3 DEF sentence_to_delta, from_mwv, WindSpeed
  <2>2. Faithful(angle, snap) /\ "environment.wind.angleApparent" \in DOMAIN angle
    BY <1>1, <1>3, HeardFields, FaithfulOpt, OptValue
  <2>3. /\ Faithful(speed, snap)
        /\ snap["environment.wind.speedApparent"] # Blank
             => "environment.wind.speedApparent" \in DOMAIN speed
    BY <1>1, HeardFields, FaithfulOpt, OptValue
  <2> HIDE DEF angle, speed
  <2>4. QED BY <2>1, <2>2, <2>3, FaithfulJoin, JoinValue DEF s
<1>4. QED BY <1>2, <1>3

LEMMA DbtHeard ==
  ASSUME NEW snap, Snapshot(snap)
  PROVE  LET values == sentence_to_delta(snapshot_to_dbt(snap))
         IN  /\ Faithful(values, snap)
             /\ snap["environment.depth.belowTransducer"] # Blank
                  => "environment.depth.belowTransducer" \in DOMAIN values
<1> DEFINE s     == snapshot_to_dbt(snap)
           depth == snap["environment.depth.belowTransducer"]
           told_depth == Depth(s.depth_meters, s.depth_feet, s.depth_fathoms)
<1>1. /\ s.kind = "DBT" /\ s.depth_meters = Printed(depth)
      /\ s.depth_feet = Printed(InFeet(depth)) /\ s.depth_fathoms = Printed(InFathoms(depth))
  BY DEF snapshot_to_dbt
<1> HIDE DEF s
<1>2. sentence_to_delta(s) = Opt("environment.depth.belowTransducer", told_depth)
  BY <1>1 DEF sentence_to_delta, from_dbt
<1>3. told_depth = Printed(depth)
  BY <1>1, HeardDepth DEF Depth, OrElse, Feet, Fathoms, Scaled
<1> HIDE DEF told_depth
<1>4. QED BY <1>2, <1>3, HeardDepth, FaithfulOpt, OptValue DEF s

LEMMA VtgHeard ==
  ASSUME NEW snap, Snapshot(snap)
  PROVE  Faithful(sentence_to_delta(snapshot_to_vtg(snap)), snap)
<1> DEFINE s      == snapshot_to_vtg(snap)
           speed  == Opt("navigation.speedOverGround", Knots(s.speed_over_ground))
           course == Opt("navigation.courseOverGroundTrue", Radians(s.true_course))
<1>1. /\ s.kind = "VTG"
      /\ s.speed_over_ground = Printed(InKnots(snap["navigation.speedOverGround"]))
      /\ s.true_course = Printed(InDegrees(snap["navigation.courseOverGroundTrue"]))
  BY DEF snapshot_to_vtg
<1> HIDE DEF s
<1>2. sentence_to_delta(s) = course ++ speed BY <1>1 DEF sentence_to_delta, from_vtg
<1>3. Faithful(speed, snap) /\ Faithful(course, snap) BY <1>1, HeardFields, FaithfulOpt
<1> HIDE DEF speed, course
<1>4. QED BY <1>2, <1>3, FaithfulJoin DEF s

-----------------------------------------------------------------------------
(* All of them.                                                            *)

(* Is it one of a list.                                                    *)
Listed(list, x) == \E i \in DOMAIN list : list[i] = x

LEMMA ListedInBoth ==
  ASSUME NEW A, NEW s \in Seq(A), NEW t \in Seq(A)
  PROVE  /\ s \o t \in Seq(A)
         /\ \A x : Listed(s \o t, x) <=> Listed(s, x) \/ Listed(t, x)
<1>1. /\ s \o t \in Seq(A) /\ DOMAIN (s \o t) = 1 .. Len(s) + Len(t)
      /\ DOMAIN s = 1 .. Len(s) /\ DOMAIN t = 1 .. Len(t) /\ Len(s) \in Nat /\ Len(t) \in Nat
      /\ \A i \in 1 .. Len(s) : (s \o t)[i] = s[i]
      /\ \A i \in 1 .. Len(t) : (s \o t)[i + Len(s)] = t[i]
  OBVIOUS
<1>2. ASSUME NEW i \in DOMAIN (s \o t)
      PROVE  i \in DOMAIN s \/ (i - Len(s) \in DOMAIN t /\ (s \o t)[i] = t[i - Len(s)])
  <2>1. CASE i <= Len(s) BY <1>1, <2>1
  <2>2. CASE i > Len(s)
    <3>1. i - Len(s) \in 1 .. Len(t) /\ (i - Len(s)) + Len(s) = i BY <1>1, <2>2
    <3>2. QED BY <1>1, <3>1
  <2>3. QED BY <1>1, <2>1, <2>2
<1>3. ASSUME NEW x, Listed(s \o t, x) PROVE Listed(s, x) \/ Listed(t, x)
  BY <1>1, <1>2, <1>3 DEF Listed
<1>4. ASSUME NEW x, Listed(s, x) PROVE Listed(s \o t, x)
  BY <1>1, <1>4 DEF Listed
<1>5. ASSUME NEW x, Listed(t, x) PROVE Listed(s \o t, x)
  <2>1. PICK i \in 1 .. Len(t) : t[i] = x BY <1>1, <1>5 DEF Listed
  <2>2. i + Len(s) \in DOMAIN (s \o t) BY <1>1
  <2>3. QED BY <1>1, <2>1, <2>2 DEF Listed
<1>6. QED BY <1>1, <1>3, <1>4, <1>5

(* What there is only sometimes.                                           *)
LEMMA ListedSometimes ==
  ASSUME NEW A, NEW y \in A, NEW c
  PROVE  LET list == IF c THEN <<y>> ELSE <<>>
         IN  list \in Seq(A) /\ \A x : Listed(list, x) <=> c /\ x = y
<1>1. CASE c
  <2>1. <<y>> \in Seq(A) /\ DOMAIN <<y>> = {1} /\ <<y>>[1] = y OBVIOUS
  <2>2. QED BY <1>1, <2>1 DEF Listed
<1>2. CASE ~c
  <2>1. <<>> \in Seq(A) /\ DOMAIN <<>> = {} OBVIOUS
  <2>2. QED BY <1>2, <2>1 DEF Listed
<1>3. QED BY <1>1, <1>2

(* What is heard of a list of sentences.                                   *)
LEMMA ReceivedIs ==
  ASSUME NEW deltas, NEW n \in Nat, DOMAIN deltas = 1 .. n, NEW snap, NEW p \in SentPaths,
         \A i \in 1 .. n : Faithful(deltas[i], snap),
         snap[p] # Blank => \E i \in 1 .. n : p \in DOMAIN deltas[i]
  PROVE  Received(p, snap, Merged(deltas))
  BY MergedTells DEF Received, Faithful

LEMMA SentencesReceived ==
  ASSUME NEW A, NEW sentences \in Seq(A), NEW snap, NEW p \in SentPaths,
         \A x : Listed(sentences, x) => Faithful(sentence_to_delta(x), snap),
         snap[p] # Blank => \E x : Listed(sentences, x) /\ p \in DOMAIN sentence_to_delta(x)
  PROVE  Received(p, snap, Heard183(sentences))
<1> DEFINE deltas == [i \in DOMAIN sentences |-> sentence_to_delta(sentences[i])]
<1>1. Len(sentences) \in Nat /\ DOMAIN sentences = 1 .. Len(sentences)
  OBVIOUS
<1>2. DOMAIN deltas = 1 .. Len(sentences) BY <1>1
<1>3. \A i \in 1 .. Len(sentences) : deltas[i] = sentence_to_delta(sentences[i]) BY <1>1
<1>4. Heard183(sentences) = Merged(deltas) BY DEF Heard183
<1> HIDE DEF deltas
<1>5. \A i \in 1 .. Len(sentences) : Faithful(deltas[i], snap) BY <1>1, <1>3 DEF Listed
<1>6. snap[p] # Blank => \E i \in 1 .. Len(sentences) : p \in DOMAIN deltas[i]
  BY <1>1, <1>3 DEF Listed
<1>7. QED BY <1>1, <1>2, <1>4, <1>5, <1>6, ReceivedIs

LEMMA MessagesReceived ==
  ASSUME NEW A, NEW messages \in Seq(A), NEW snap, NEW p \in SentPaths,
         \A x : Listed(messages, x) => Faithful(values_of(decoded_to_delta(x)), snap),
         snap[p] # Blank =>
           \E x : Listed(messages, x) /\ p \in DOMAIN values_of(decoded_to_delta(x))
  PROVE  Received(p, snap, Heard2000(messages))
<1> DEFINE deltas == [i \in DOMAIN messages |-> values_of(decoded_to_delta(messages[i]))]
<1>1. Len(messages) \in Nat /\ DOMAIN messages = 1 .. Len(messages)
  OBVIOUS
<1>2. DOMAIN deltas = 1 .. Len(messages) BY <1>1
<1>3. \A i \in 1 .. Len(messages) : deltas[i] = values_of(decoded_to_delta(messages[i])) BY <1>1
<1>4. Heard2000(messages) = Merged(deltas) BY DEF Heard2000
<1> HIDE DEF deltas
<1>5. \A i \in 1 .. Len(messages) : Faithful(deltas[i], snap) BY <1>1, <1>3 DEF Listed
<1>6. snap[p] # Blank => \E i \in 1 .. Len(messages) : p \in DOMAIN deltas[i]
  BY <1>1, <1>3 DEF Listed
<1>7. QED BY <1>1, <1>2, <1>4, <1>5, <1>6, ReceivedIs

(* Which sentences there are.                                              *)
LEMMA SentencesListed ==
  ASSUME NEW snap
  PROVE  /\ \E A : generate_all_sentences(snap) \in Seq(A)
         /\ \A x : Listed(generate_all_sentences(snap), x) <=>
              \/ x = snapshot_to_rmc(snap)
              \/ Known183(snap, {"navigation.headingTrue"}) /\ x = snapshot_to_hdt(snap)
              \/ /\ Known183(snap, {"environment.wind.angleApparent",
                                    "environment.wind.speedApparent"})
                 /\ x = snapshot_to_mwv(snap)
              \/ /\ Known183(snap, {"environment.depth.belowTransducer"})
                 /\ x = snapshot_to_dbt(snap)
              \/ /\ Known183(snap, {"navigation.courseOverGroundTrue",
                                    "navigation.speedOverGround"})
                 /\ x = snapshot_to_vtg(snap)
<1> DEFINE rmc == snapshot_to_rmc(snap)   hdt == snapshot_to_hdt(snap)
           mwv == snapshot_to_mwv(snap)   dbt == snapshot_to_dbt(snap)
           vtg == snapshot_to_vtg(snap)
           A   == {rmc, hdt, mwv, dbt, vtg}
           c1  == Known183(snap, {"navigation.headingTrue"})
           c2  == Known183(snap, {"environment.wind.angleApparent",
                                  "environment.wind.speedApparent"})
           c3  == Known183(snap, {"environment.depth.belowTransducer"})
           c4  == Known183(snap, {"navigation.courseOverGroundTrue", "navigation.speedOverGround"})
           l0  == <<rmc>>
           l1  == IF c1 THEN <<hdt>> ELSE <<>>
           l2  == IF c2 THEN <<mwv>> ELSE <<>>
           l3  == IF c3 THEN <<dbt>> ELSE <<>>
           l4  == IF c4 THEN <<vtg>> ELSE <<>>
<1>1. generate_all_sentences(snap) = l0 \o l1 \o l2 \o l3 \o l4
  BY DEF generate_all_sentences
<1>2. rmc \in A /\ hdt \in A /\ mwv \in A /\ dbt \in A /\ vtg \in A OBVIOUS
<1> HIDE DEF rmc, hdt, mwv, dbt, vtg, A, c1, c2, c3, c4
<1>3. l0 \in Seq(A) /\ \A x : Listed(l0, x) <=> x = rmc
  <2>1. l0 \in Seq(A) /\ DOMAIN l0 = {1} /\ l0[1] = rmc BY <1>2
  <2>2. QED BY <2>1 DEF Listed
<1>4. /\ l1 \in Seq(A) /\ \A x : Listed(l1, x) <=> c1 /\ x = hdt
      /\ l2 \in Seq(A) /\ \A x : Listed(l2, x) <=> c2 /\ x = mwv
      /\ l3 \in Seq(A) /\ \A x : Listed(l3, x) <=> c3 /\ x = dbt
      /\ l4 \in Seq(A) /\ \A x : Listed(l4, x) <=> c4 /\ x = vtg
  BY <1>2, ListedSometimes
<1> HIDE DEF l0, l1, l2, l3, l4
<1> DEFINE j1 == l0 \o l1
           j2 == j1 \o l2
           j3 == j2 \o l3
           j4 == j3 \o l4
<1>5. j1 \in Seq(A) /\ \A x : Listed(j1, x) <=> Listed(l0, x) \/ Listed(l1, x)
  BY <1>3, <1>4, ListedInBoth
<1>6. j2 \in Seq(A) /\ \A x : Listed(j2, x) <=> Listed(j1, x) \/ Listed(l2, x)
  <2> HIDE DEF j1
  <2>1. QED BY <1>4, <1>5, ListedInBoth
<1>7. j3 \in Seq(A) /\ \A x : Listed(j3, x) <=> Listed(j2, x) \/ Listed(l3, x)
  <2> HIDE DEF j2
  <2>1. QED BY <1>4, <1>6, ListedInBoth
<1>8. j4 \in Seq(A) /\ \A x : Listed(j4, x) <=> Listed(j3, x) \/ Listed(l4, x)
  <2> HIDE DEF j3
  <2>1. QED BY <1>4, <1>7, ListedInBoth
<1>9. generate_all_sentences(snap) = j4 BY <1>1
<1> HIDE DEF j1, j2, j3, j4
<1>10. \A x : Listed(j4, x) <=> \/ x = rmc \/ (c1 /\ x = hdt) \/ (c2 /\ x = mwv)
                               \/ (c3 /\ x = dbt) \/ (c4 /\ x = vtg)
  BY <1>3, <1>4, <1>5, <1>6, <1>7, <1>8
<1>11. QED BY <1>8, <1>9, <1>10 DEF rmc, hdt, mwv, dbt, vtg, c1, c2, c3, c4

(* Whoever reads the sentences of a snapshot has the snapshot.             *)
THEOREM SentencesTellSnapshot ==
  ASSUME NEW snap, Snapshot(snap), NEW p \in SentPaths,
         p = "environment.wind.speedApparent" => snap["environment.wind.angleApparent"] # Blank
  PROVE  Received(p, snap, Heard183(generate_all_sentences(snap)))
<1> DEFINE sentences == generate_all_sentences(snap)
           tells(x)  == DOMAIN sentence_to_delta(x)
<1>1. PICK A : sentences \in Seq(A) BY SentencesListed
<1>2. ASSUME NEW x, Listed(sentences, x) PROVE Faithful(sentence_to_delta(x), snap)
  BY <1>2, SentencesListed, RmcHeard, HdtHeard, MwvHeard, DbtHeard, VtgHeard
<1>3. ASSUME snap[p] # Blank PROVE \E x : Listed(sentences, x) /\ p \in tells(x)
  <2>1. CASE p \in {"navigation.position", "navigation.speedOverGround",
                    "navigation.courseOverGroundTrue", "navigation.magneticVariation"}
    <3>1. p \in tells(snapshot_to_rmc(snap)) BY <1>3, <2>1, RmcHeard
    <3>2. QED BY <3>1, SentencesListed
  <2>2. CASE p = "navigation.headingTrue"
    <3>1. p \in tells(snapshot_to_hdt(snap)) BY <1>3, <2>2, HdtHeard
    <3>2. Known183(snap, {"navigation.headingTrue"}) BY <1>3, <2>2 DEF Known183
    <3>3. QED BY <3>1, <3>2, SentencesListed
  <2>3. CASE p \in {"environment.wind.angleApparent", "environment.wind.speedApparent"}
    <3>1. p \in tells(snapshot_to_mwv(snap)) BY <1>3, <2>3, MwvHeard
    <3>2. Known183(snap, {"environment.wind.angleApparent", "environment.wind.speedApparent"})
      BY <1>3, <2>3 DEF Known183
    <3>3. QED BY <3>1, <3>2, SentencesListed
  <2>4. CASE p = "environment.depth.belowTransducer"
    <3>1. p \in tells(snapshot_to_dbt(snap)) BY <1>3, <2>4, DbtHeard
    <3>2. Known183(snap, {"environment.depth.belowTransducer"}) BY <1>3, <2>4 DEF Known183
    <3>3. QED BY <3>1, <3>2, SentencesListed
  <2>5. QED BY <2>1, <2>2, <2>3, <2>4 DEF SentPaths
<1> HIDE DEF sentences, tells
<1>4. QED BY <1>1, <1>2, <1>3, SentencesReceived DEF sentences, tells

-----------------------------------------------------------------------------
(* The messages.                                                           *)

LEMMA QuantityKinds ==
  /\ Blank \notin Quantities
  /\ Speeds \subseteq Quantities /\ Angles \subseteq Quantities /\ Lengths \subseteq Quantities
<1>1. TopSpeed \in Int /\ TopAngle \in Int BY DEF TopSpeed, TopAngle
<1>2. Blank \notin Quantities BY BlankAssumption DEF Quantities
<1>3. Speeds \subseteq Quantities BY <1>1 DEF Speeds, Quantities, UnitNames
<1>4. Angles \subseteq Quantities BY <1>1 DEF Angles, Quantities, UnitNames
<1>5. Lengths \subseteq Quantities BY DEF Lengths, Quantities, UnitNames
<1>6. QED BY <1>2, <1>3, <1>4, <1>5

(* What can be told on the bus.                                            *)
LEMMA TellingIs ==
  ASSUME NEW f, f = [p \in DOMAIN f |-> f[p]], DOMAIN f \subseteq WirePaths,
         \A p \in DOMAIN f : f[p] \in Quantities
  PROVE  f \in Tellings
<1>1. f \in [DOMAIN f -> Quantities] OBVIOUS
<1>2. QED BY <1>1 DEF Tellings

LEMMA TellingNoPaths == NoPaths \in Tellings
<1> DEFINE f == NoPaths
<1>1. f = [p \in DOMAIN f |-> f[p]] /\ DOMAIN f = {} BY DEF NoPaths
<1> HIDE DEF f
<1>2. f \in Tellings BY <1>1, TellingIs
<1>3. QED BY <1>2 DEF f

LEMMA TellingOpt ==
  ASSUME NEW path \in WirePaths, NEW q \in Quantities \cup {Blank}
  PROVE  Opt(path, q) \in Tellings
<1>1. CASE q = Blank BY <1>1, TellingNoPaths DEF Opt
<1>2. CASE q # Blank
  <2> DEFINE f == [p \in {path} |-> q]
  <2>1. f = [p \in DOMAIN f |-> f[p]] /\ DOMAIN f = {path} /\ f[path] = q OBVIOUS
  <2>2. Opt(path, q) = f BY <1>2 DEF Opt
  <2> HIDE DEF f
  <2>3. f \in Tellings BY <1>2, <2>1, TellingIs
  <2>4. QED BY <2>2, <2>3
<1>3. QED BY <1>1, <1>2

LEMMA TellingJoin ==
  ASSUME NEW f \in Tellings, NEW g \in Tellings
  PROVE  f ++ g \in Tellings
<1> DEFINE h == f ++ g
<1>1. /\ DOMAIN f \subseteq WirePaths /\ DOMAIN g \subseteq WirePaths
      /\ \A p \in DOMAIN f : f[p] \in Quantities
      /\ \A p \in DOMAIN g : g[p] \in Quantities
  BY DEF Tellings
<1>2. h = [p \in DOMAIN f \cup DOMAIN g |-> IF p \in DOMAIN f THEN f[p] ELSE g[p]]
  BY JoinIs
<1> HIDE DEF h
<1>3. h = [p \in DOMAIN h |-> h[p]] /\ DOMAIN h \subseteq WirePaths BY <1>1, <1>2
<1>4. \A p \in DOMAIN h : h[p] \in Quantities BY <1>1, <1>2
<1>5. h \in Tellings BY <1>3, <1>4, TellingIs
<1>6. QED BY <1>5 DEF h

LEMMA SelfValues ==
  ASSUME NEW values \in Tellings
  PROVE  values_of(self_delta(values)) = values
<1>1. CASE values = NoPaths BY <1>1 DEF values_of, self_delta
<1>2. CASE values # NoPaths
  <2> DEFINE delta == DeltaFor(OwnVessel, values)
  <2>1. delta \in [context : {OwnVessel}, values : Tellings] /\ delta.values = values
    BY DEF DeltaFor
  <2>2. self_delta(values) = delta BY <1>2 DEF self_delta
  <2> HIDE DEF delta
  <2>3. QED BY <2>1, <2>2, DeltaAssumption DEF values_of
<1>3. QED BY <1>1, <1>2

LEMMA SnapshotFields ==
  ASSUME NEW snap, Snapshot(snap), NEW p \in SentPaths \ {"navigation.position"}
  PROVE  snap[p] \in Quantities \cup {Blank}
  BY QuantityKinds DEF Snapshot, SentPaths, Sendable

(* As they are: nothing is converted.                                      *)
LEMMA SameAsItself ==
  ASSUME NEW snap, Snapshot(snap), NEW p \in SentPaths \ {"navigation.position"}, snap[p] # Blank
  PROVE  Same(snap[p], snap[p])
<1>1. snap[p] \in Speeds \cup Angles \cup Lengths BY DEF Snapshot, SentPaths, Sendable
<1>2. TopSpeed \in Int /\ TopAngle \in Int BY DEF TopSpeed, TopAngle
<1>3. snap[p].n \in Int /\ snap[p].unit \in {"m/s", "rad", "m"}
  BY <1>1, <1>2 DEF Speeds, Angles, Lengths
<1> DEFINE q == snap[p]
<1> HIDE DEF q
<1>4. q.n \in Int /\ q.unit \in {"m/s", "rad", "m"} => Same(q, q) BY DEF Same, Near
<1>5. QED BY <1>3, <1>4 DEF q

LEMMA FieldTold ==
  ASSUME NEW snap, Snapshot(snap), NEW p \in SentPaths \ {"navigation.position"}
  PROVE  /\ Faithful(Opt(p, snap[p]), snap)
         /\ snap[p] # Blank => p \in DOMAIN Opt(p, snap[p])
         /\ Opt(p, snap[p]) \in Tellings
<1>1. p \in WirePaths BY DEF SentPaths, WirePaths
<1>2. QED BY <1>1, SameAsItself, FaithfulOpt, OptValue, SnapshotFields, TellingOpt

LEMMA BothTold ==
  ASSUME NEW snap, Snapshot(snap), NEW p \in SentPaths \ {"navigation.position"},
         NEW q \in SentPaths \ {"navigation.position"}
  PROVE  LET values == Opt(p, snap[p]) ++ Opt(q, snap[q])
         IN  /\ Faithful(values, snap)
             /\ \A r \in {p, q} : snap[r] # Blank => r \in DOMAIN values
             /\ values \in Tellings
<1> DEFINE f == Opt(p, snap[p])  g == Opt(q, snap[q])
<1>1. /\ Faithful(f, snap) /\ (snap[p] # Blank => p \in DOMAIN f) /\ f \in Tellings
      /\ Faithful(g, snap) /\ (snap[q] # Blank => q \in DOMAIN g) /\ g \in Tellings
  BY FieldTold
<1> HIDE DEF f, g
<1>2. /\ Faithful(f ++ g, snap) /\ f ++ g \in Tellings
      /\ \A r \in {p, q} : snap[r] # Blank => r \in DOMAIN (f ++ g)
  BY <1>1, FaithfulJoin, TellingJoin, JoinValue
<1>3. QED BY <1>2 DEF f, g

HeadingMessage(snap) ==
  [kind |-> "VesselHeading", reference |-> "True", heading |-> snap["navigation.headingTrue"],
   variation |-> snap["navigation.magneticVariation"]]
CourseMessage(snap) ==
  [kind |-> "CogSogRapidUpdate", cog_reference |-> "True",
   cog |-> snap["navigation.courseOverGroundTrue"], sog |-> snap["navigation.speedOverGround"]]
WindMessage(snap) ==
  [kind |-> "WindData", reference |-> "Apparent",
   wind_speed |-> snap["environment.wind.speedApparent"],
   wind_angle |-> snap["environment.wind.angleApparent"]]

LEMMA HeadingHeard ==
  ASSUME NEW snap, Snapshot(snap)
  PROVE  LET values == values_of(decoded_to_delta(HeadingMessage(snap)))
         IN  /\ Faithful(values, snap)
             /\ \A p \in {"navigation.headingTrue", "navigation.magneticVariation"} :
                  snap[p] # Blank => p \in DOMAIN values
<1> DEFINE m == HeadingMessage(snap)
           values == Opt("navigation.headingTrue", snap["navigation.headingTrue"])
                       ++ Opt("navigation.magneticVariation", snap["navigation.magneticVariation"])
<1>1. /\ m.kind = "VesselHeading" /\ m.reference = "True"
      /\ m.heading = snap["navigation.headingTrue"]
      /\ m.variation = snap["navigation.magneticVariation"]
  BY DEF HeadingMessage
<1> HIDE DEF m
<1>2. decoded_to_delta(m) = self_delta(from_vessel_heading(m)) BY <1>1 DEF decoded_to_delta
<1>3. from_vessel_heading(m) = values BY <1>1 DEF from_vessel_heading
<1>4. /\ Faithful(values, snap) /\ values \in Tellings
      /\ \A p \in {"navigation.headingTrue", "navigation.magneticVariation"} :
           snap[p] # Blank => p \in DOMAIN values
  BY BothTold DEF SentPaths
<1> HIDE DEF values
<1>5. QED BY <1>2, <1>3, <1>4, SelfValues DEF m

LEMMA CourseHeard ==
  ASSUME NEW snap, Snapshot(snap)
  PROVE  LET values == values_of(decoded_to_delta(CourseMessage(snap)))
         IN  /\ Faithful(values, snap)
             /\ \A p \in {"navigation.courseOverGroundTrue", "navigation.speedOverGround"} :
                  snap[p] # Blank => p \in DOMAIN values
<1> DEFINE m == CourseMessage(snap)
           values == Opt("navigation.courseOverGroundTrue", snap["navigation.courseOverGroundTrue"])
                       ++ Opt("navigation.speedOverGround", snap["navigation.speedOverGround"])
<1>1. /\ m.kind = "CogSogRapidUpdate" /\ m.cog_reference = "True"
      /\ m.cog = snap["navigation.courseOverGroundTrue"]
      /\ m.sog = snap["navigation.speedOverGround"]
  BY DEF CourseMessage
<1> HIDE DEF m
<1>2. decoded_to_delta(m) = self_delta(from_cog_sog_rapid(m)) BY <1>1 DEF decoded_to_delta
<1>3. from_cog_sog_rapid(m) = values BY <1>1 DEF from_cog_sog_rapid
<1>4. /\ Faithful(values, snap) /\ values \in Tellings
      /\ \A p \in {"navigation.courseOverGroundTrue", "navigation.speedOverGround"} :
           snap[p] # Blank => p \in DOMAIN values
  BY BothTold DEF SentPaths
<1> HIDE DEF values
<1>5. QED BY <1>2, <1>3, <1>4, SelfValues DEF m

LEMMA WindHeard ==
  ASSUME NEW snap, Snapshot(snap)
  PROVE  LET values == values_of(decoded_to_delta(WindMessage(snap)))
         IN  /\ Faithful(values, snap)
             /\ \A p \in {"environment.wind.speedApparent", "environment.wind.angleApparent"} :
                  snap[p] # Blank => p \in DOMAIN values
<1> DEFINE m == WindMessage(snap)
           w == <<"environment.wind.speedApparent", "environment.wind.angleApparent">>
           values == Opt("environment.wind.speedApparent", snap["environment.wind.speedApparent"])
                       ++ Opt("environment.wind.angleApparent", snap["environment.wind.angleApparent"])
<1>1. /\ m.kind = "WindData" /\ m.reference = "Apparent"
      /\ m.wind_speed = snap["environment.wind.speedApparent"]
      /\ m.wind_angle = snap["environment.wind.angleApparent"]
  BY DEF WindMessage
<1> HIDE DEF m
<1>2. decoded_to_delta(m) = self_delta(from_wind_data(m)) BY <1>1 DEF decoded_to_delta
<1>3. WindPaths("Apparent") = w /\ w # Blank
      /\ w[1] = "environment.wind.speedApparent" /\ w[2] = "environment.wind.angleApparent"
  <2>1. w \in WirePaths \X WirePaths BY DEF WirePaths
  <2>2. QED BY <2>1, DeltaAssumption DEF WindPaths
<1> HIDE DEF w
<1>4. from_wind_data(m) = values BY <1>1, <1>3 DEF from_wind_data
<1>5. /\ Faithful(values, snap) /\ values \in Tellings
      /\ \A p \in {"environment.wind.speedApparent", "environment.wind.angleApparent"} :
           snap[p] # Blank => p \in DOMAIN values
  BY BothTold DEF SentPaths
<1> HIDE DEF values
<1>6. QED BY <1>2, <1>4, <1>5, SelfValues DEF m

(* Which messages there are.                                               *)
LEMMA MessagesListed ==
  ASSUME NEW snap
  PROVE  /\ \E A : build_pgns(snap) \in Seq(A)
         /\ \A x : Listed(build_pgns(snap), x) <=>
              \/ snap["navigation.headingTrue"] # Blank /\ x = HeadingMessage(snap)
              \/ /\ snap["navigation.courseOverGroundTrue"] # Blank
                      \/ snap["navigation.speedOverGround"] # Blank
                 /\ x = CourseMessage(snap)
              \/ /\ snap["environment.wind.speedApparent"] # Blank
                      \/ snap["environment.wind.angleApparent"] # Blank
                 /\ x = WindMessage(snap)
<1> DEFINE h  == HeadingMessage(snap)   c == CourseMessage(snap)   w == WindMessage(snap)
           A  == {h, c, w}
           c1 == snap["navigation.headingTrue"] # Blank
           c2 == snap["navigation.courseOverGroundTrue"] # Blank
                   \/ snap["navigation.speedOverGround"] # Blank
           c3 == snap["environment.wind.speedApparent"] # Blank
                   \/ snap["environment.wind.angleApparent"] # Blank
           l1 == IF c1 THEN <<h>> ELSE <<>>
           l2 == IF c2 THEN <<c>> ELSE <<>>
           l3 == IF c3 THEN <<w>> ELSE <<>>
<1>1. build_pgns(snap) = l1 \o l2 \o l3
  BY DEF build_pgns, HeadingMessage, CourseMessage, WindMessage
<1>2. h \in A /\ c \in A /\ w \in A OBVIOUS
<1> HIDE DEF h, c, w, A, c1, c2, c3
<1>3. /\ l1 \in Seq(A) /\ \A x : Listed(l1, x) <=> c1 /\ x = h
      /\ l2 \in Seq(A) /\ \A x : Listed(l2, x) <=> c2 /\ x = c
      /\ l3 \in Seq(A) /\ \A x : Listed(l3, x) <=> c3 /\ x = w
  BY <1>2, ListedSometimes
<1> HIDE DEF l1, l2, l3
<1> DEFINE j1 == l1 \o l2
           j2 == j1 \o l3
<1>4. j1 \in Seq(A) /\ \A x : Listed(j1, x) <=> Listed(l1, x) \/ Listed(l2, x)
  BY <1>3, ListedInBoth
<1>5. j2 \in Seq(A) /\ \A x : Listed(j2, x) <=> Listed(j1, x) \/ Listed(l3, x)
  <2> HIDE DEF j1
  <2>1. QED BY <1>3, <1>4, ListedInBoth
<1>6. build_pgns(snap) = j2 BY <1>1
<1> HIDE DEF j1, j2
<1>7. \A x : Listed(j2, x) <=> (c1 /\ x = h) \/ (c2 /\ x = c) \/ (c3 /\ x = w)
  BY <1>3, <1>4, <1>5
<1>8. QED BY <1>5, <1>6, <1>7 DEF h, c, w, c1, c2, c3

(* And whoever is on the bus has what the messages are of.                 *)
THEOREM MessagesTellSnapshot ==
  ASSUME NEW snap, Snapshot(snap),
         NEW p \in SentPaths \ {"navigation.position", "environment.depth.belowTransducer"},
         p = "navigation.magneticVariation" => snap["navigation.headingTrue"] # Blank
  PROVE  Received(p, snap, Heard2000(build_pgns(snap)))
<1> DEFINE messages == build_pgns(snap)
           tells(x) == DOMAIN values_of(decoded_to_delta(x))
<1>1. PICK A : messages \in Seq(A) BY MessagesListed
<1>2. ASSUME NEW x, Listed(messages, x) PROVE Faithful(values_of(decoded_to_delta(x)), snap)
  BY <1>2, MessagesListed, HeadingHeard, CourseHeard, WindHeard
<1>3. ASSUME snap[p] # Blank PROVE \E x : Listed(messages, x) /\ p \in tells(x)
  <2>1. CASE p \in {"navigation.headingTrue", "navigation.magneticVariation"}
    <3>1. p \in tells(HeadingMessage(snap)) BY <1>3, <2>1, HeadingHeard
    <3>2. snap["navigation.headingTrue"] # Blank BY <1>3, <2>1
    <3>3. QED BY <3>1, <3>2, MessagesListed
  <2>2. CASE p \in {"navigation.courseOverGroundTrue", "navigation.speedOverGround"}
    <3>1. p \in tells(CourseMessage(snap)) BY <1>3, <2>2, CourseHeard
    <3>2. QED BY <1>3, <2>2, <3>1, MessagesListed
  <2>3. CASE p \in {"environment.wind.speedApparent", "environment.wind.angleApparent"}
    <3>1. p \in tells(WindMessage(snap)) BY <1>3, <2>3, WindHeard
    <3>2. QED BY <1>3, <2>3, <3>1, MessagesListed
  <2>4. QED BY <2>1, <2>2, <2>3 DEF SentPaths
<1> HIDE DEF messages, tells
<1>4. QED BY <1>1, <1>2, <1>3, MessagesReceived DEF messages, tells

-----------------------------------------------------------------------------
(* What is printed and sent is always of such a snapshot.                  *)
SnapshotsKept ==
  /\ Snapshot(told) /\ Snapshot(toldBus)
  /\ printed.sentences # <<>> =>
       Snapshot(printed.of) /\ printed.sentences = generate_all_sentences(printed.of)

LEMMA UpdateKept ==
  ASSUME NEW snap, Snapshot(snap), NEW values \in ShownDeltas
  PROVE  Snapshot(update_from_delta(snap, values))
  BY ShownAssumption DEF Snapshot, update_from_delta

LEMMA NothingKept == Snapshot(Nothing183)
  BY DEF Snapshot, Nothing183

(* WireTellsSnapshot: a client of the NMEA 0183 output, and a device on    *)
(* the bus, have every value the senders were told last.                   *)
THEOREM WiresTellSnapshots == SendSpec => []WireTellsSnapshot
<1>1. SendInit /\ BusInit => SnapshotsKept
  BY NothingKept DEF SendInit, BusInit, SnapshotsKept
<1>2. SnapshotsKept /\ [SentencesNext \/ BusNext]_<<sendVars, busVars>> => SnapshotsKept'
  <2> SUFFICES ASSUME SnapshotsKept, [SentencesNext \/ BusNext]_<<sendVars, busVars>>
               PROVE  SnapshotsKept'
    OBVIOUS
  <2>1. ASSUME UNCHANGED printed, told' = told \/ told' = Nothing183
                                    \/ \E values \in ShownDeltas : told' = update_from_delta(told, values),
               toldBus' = toldBus \/ toldBus' = Nothing183
                 \/ \E values \in ShownDeltas : toldBus' = update_from_delta(toldBus, values)
        PROVE  SnapshotsKept'
    BY <2>1, UpdateKept, NothingKept DEF SnapshotsKept
  <2>2. CASE StartSend BY <2>1, <2>2 DEF StartSend
  <2>3. CASE StopSend BY <2>1, <2>3 DEF StopSend, busVars
  <2>4. CASE HearSend BY <2>1, <2>4 DEF HearSend, busVars
  <2>5. CASE TickSend
    <3>1. told' = told /\ toldBus' = toldBus BY <2>5 DEF TickSend, busVars
    <3>2. printed'.of = told /\ printed'.sentences = generate_all_sentences(told)
      BY <2>5 DEF TickSend
    <3>3. QED BY <3>1, <3>2 DEF SnapshotsKept
  <2>6. ASSUME NEW c \in NmeaClients, AcceptClient(c) \/ WriteClient(c) \/ EndClient(c)
        PROVE  SnapshotsKept'
    BY <2>1, <2>6 DEF AcceptClient, WriteClient, EndClient, busVars
  <2>7. CASE StartBus BY <2>1, <2>7 DEF StartBus, sendVars
  <2>8. CASE StopBus BY <2>1, <2>8 DEF StopBus, sendVars
  <2>9. CASE HearBus BY <2>1, <2>9 DEF HearBus
  <2>10. CASE TickBus BY <2>1, <2>10 DEF TickBus
  <2>11. CASE Claims BY <2>1, <2>11 DEF Claims, sendVars
  <2>12. CASE SendsPgn BY <2>1, <2>12 DEF SendsPgn, sendVars
  <2>13. CASE QueueEmpty BY <2>1, <2>13 DEF QueueEmpty, sendVars
  <2>14. CASE UNCHANGED <<sendVars, busVars>> BY <2>1, <2>14 DEF sendVars, busVars
  <2>15. QED BY <2>2, <2>3, <2>4, <2>5, <2>6, <2>7, <2>8, <2>9, <2>10, <2>11, <2>12, <2>13, <2>14
            DEF SentencesNext, BusNext
<1>3. SnapshotsKept => WireTellsSnapshot
  BY SentencesTellSnapshot, MessagesTellSnapshot DEF SnapshotsKept, WireTellsSnapshot
<1>4. QED BY <1>1, <1>2, <1>3, PTL DEF SendSpec
-----------------------------------------------------------------------------
(* The simulator: the values of a tick.                                    *)

TickValues ==
  {tick_at(quarter, wave, noise, hours, propelled) :
     quarter \in {0, 3}, wave \in {0, 100}, noise \in pseudo_normal, hours \in {21, 22},
     propelled \in BOOLEAN}

LEMMA SineIs ==
  ASSUME NEW min \in Int, NEW max \in Int, NEW wave \in {0, 100}
  PROVE  SineGenerator(min, max, wave) \in {min, max}
  BY SMT DEF SineGenerator

LEMMA NoiseIs ==
  ASSUME NEW amplitude \in Int, NEW noise \in pseudo_normal
  PROVE  NoiseGenerator(amplitude, noise) \in {2 * amplitude, -2 * amplitude}
  BY SMT DEF NoiseGenerator, pseudo_normal

LEMMA WrappedIs ==
  ASSUME NEW angle \in Int
  PROVE  Q(Wrapped(angle), "rad") \in Angles
<1>1. Wrapped(angle) \in Int /\ 0 <= Wrapped(angle) /\ Wrapped(angle) <= TopAngle
  BY SMT DEF Wrapped, TwoPi, TopAngle
<1>2. TopAngle \in Int BY DEF TopAngle
<1>3. QED BY <1>1, <1>2, SMT DEF Q, Angles

LEMMA CappedSpeed ==
  ASSUME NEW n \in Int, n <= TopSpeed
  PROVE  Q(AtLeast(0, n), "m/s") \in Speeds /\ AtLeast(0, n) \in Int
         /\ (n <= 2000 => AtLeast(0, n) <= 2000)
<1>1. TopSpeed \in Int /\ 0 <= TopSpeed BY DEF TopSpeed
<1>2. AtLeast(0, n) \in Int /\ 0 <= AtLeast(0, n) /\ AtLeast(0, n) <= TopSpeed
  BY <1>1, SMT DEF AtLeast
<1>3. QED BY <1>1, <1>2, SMT DEF Q, Speeds, AtLeast

LEMMA OrbitIs ==
  ASSUME NEW quarter \in {0, 3}, NEW wave \in {0, 100}, NEW noise \in pseudo_normal
  PROVE  LET orbit == PositionGenerator(quarter, wave, noise)
         IN  /\ orbit.latitude \in Int /\ orbit.longitude \in Int
             /\ orbit.cog \in Angles /\ orbit.cog.n \in Int
             /\ orbit.sog \in Speeds
             /\ orbit.sog.n \in Int /\ orbit.sog.n <= BaseSpeed + 110
<1> DEFINE orbit == PositionGenerator(quarter, wave, noise)
           sine  == SineGenerator(-80, 80, wave)
           sway  == NoiseGenerator(15, noise)
           turn  == ((quarter + 1) * TwoPi) \div 4
           n     == BaseSpeed + sine + sway
<1>1. sine \in {-80, 80} BY SineIs
<1>2. sway \in {30, -30} BY NoiseIs
<1>3. turn \in Int BY SMT DEF TwoPi
<1>4. TopSpeed \in Int /\ TopSpeed = 1000000 /\ TopAngle \in Int BY DEF TopSpeed, TopAngle
<1>5. orbit.cog = Q(Wrapped(turn), "rad") /\ orbit.sog = Q(AtLeast(0, n), "m/s")
  BY DEF PositionGenerator
<1>6. orbit.latitude \in Int /\ orbit.longitude \in Int
  BY SMT DEF PositionGenerator
<1> HIDE DEF orbit, sine, sway, turn
<1>7. n \in Int /\ n <= BaseSpeed + 110 /\ n <= TopSpeed
  BY <1>1, <1>2, <1>4, SimAssumption, SMT
<1> HIDE DEF n
<1>8. orbit.cog \in Angles /\ orbit.cog.n \in Int BY <1>3, <1>4, <1>5, WrappedIs DEF Angles
<1>9. orbit.sog \in Speeds /\ orbit.sog.n = AtLeast(0, n)
  BY <1>5, <1>7, CappedSpeed DEF Q
<1>10. AtLeast(0, n) \in Int /\ AtLeast(0, n) <= BaseSpeed + 110
  BY <1>7, SimAssumption, SMT DEF AtLeast
<1>11. QED BY <1>6, <1>8, <1>9, <1>10 DEF orbit

(* A value that goes up and down.                                          *)
LEMMA WavyIs ==
  ASSUME NEW min \in Int, NEW max \in Int, NEW wave \in {0, 100},
         NEW amplitude \in Int, NEW noise \in pseudo_normal
  PROVE  LET n == SineGenerator(min, max, wave) + NoiseGenerator(amplitude, noise)
         IN  n \in {min + 2 * amplitude, min - 2 * amplitude,
                    max + 2 * amplitude, max - 2 * amplitude}
<1> DEFINE sine == SineGenerator(min, max, wave)  sway == NoiseGenerator(amplitude, noise)
<1>1. sine \in {min, max} BY SineIs
<1>2. sway \in {2 * amplitude, -2 * amplitude} BY NoiseIs
<1> HIDE DEF sine, sway
<1>3. sine + sway \in {min + 2 * amplitude, min - 2 * amplitude,
                       max + 2 * amplitude, max - 2 * amplitude}
  BY <1>1, <1>2, SMT
<1>4. QED BY <1>3 DEF sine, sway

LEMMA AngleIs ==
  ASSUME NEW n \in Int
  PROVE  /\ - TopAngle <= n /\ n <= TopAngle => Q(n, "rad") \in Angles
         /\ -5000 <= n /\ n <= 5000 => Q(n, "rad") \in Angles
<1>1. TopAngle \in Int BY DEF TopAngle
<1>2. - TopAngle <= n /\ n <= TopAngle => Q(n, "rad") \in Angles
  BY <1>1, SMT DEF Q, Angles
<1>3. -5000 <= n /\ n <= 5000 => - TopAngle <= n /\ n <= TopAngle
  BY SMT DEF TopAngle
<1>4. QED BY <1>2, <1>3

LEMMA TickIs ==
  ASSUME NEW v \in TickValues
  PROVE  /\ v.latitude \in Int /\ v.longitude \in Int
         /\ v.sog \in Speeds /\ v.stw \in Speeds /\ v.wind_speed \in Speeds
         /\ v.cog \in Angles /\ v.heading_magnetic \in Angles /\ v.magnetic_variation \in Angles
         /\ v.wind_angle \in Angles /\ v.pitch \in Angles /\ v.roll \in Angles
         /\ v.depth \in Lengths /\ v.surface_to_transducer = Q(50, "m")
         /\ v.water_temperature \in [n : Int, unit : {"K"}]
         /\ v.air_temperature \in [n : Int, unit : {"K"}]
         /\ v.pressure \in [n : Int, unit : {"Pa"}]
         /\ v.humidity \in [n : Int, unit : {"ratio"}]
<1>1. PICK quarter \in {0, 3}, wave \in {0, 100}, noise \in pseudo_normal, hours \in {21, 22},
           propelled \in BOOLEAN : v = tick_at(quarter, wave, noise, hours, propelled)
  BY DEF TickValues
<1> DEFINE orbit == PositionGenerator(quarter, wave, noise)
           wavy(min, max, amplitude) ==
             SineGenerator(min, max, wave) + NoiseGenerator(amplitude, noise)
           steered == orbit.cog.n + Variation + NoiseGenerator(52, noise)
           through == orbit.sog.n + SineGenerator(-30, 30, wave) + NoiseGenerator(5, noise)
<1>2. /\ v.latitude = orbit.latitude /\ v.longitude = orbit.longitude
      /\ v.sog = orbit.sog /\ v.cog = orbit.cog
      /\ v.heading_magnetic = Q(Wrapped(steered), "rad")
      /\ v.magnetic_variation = Q(Variation, "rad")
      /\ v.stw = Q(AtLeast(0, through), "m/s")
      /\ v.roll = Q(wavy(-209, 209, 52), "rad") /\ v.pitch = Q(wavy(-70, 70, 26), "rad")
      /\ v.wind_angle = Q(SineGenerator(-3142, 3142, wave), "rad")
      /\ v.wind_speed = Q(AtLeast(0, wavy(200, 1500, 100)), "m/s")
      /\ v.depth = Q(AtLeast(50, wavy(500, 1800, 10)), "m")
      /\ v.surface_to_transducer = Q(50, "m")
      /\ v.water_temperature = Q(wavy(28300, 29300, 5), "K")
      /\ v.air_temperature = Q(wavy(28800, 29800, 10), "K")
      /\ v.pressure = Q(wavy(100800, 102000, 15), "Pa")
      /\ v.humidity = Q(AtMost(100, AtLeast(0, wavy(50, 85, 1))), "ratio")
  BY <1>1, SMT DEF tick_at, Q
<1>3. /\ orbit.latitude \in Int /\ orbit.longitude \in Int
      /\ orbit.cog \in Angles /\ orbit.cog.n \in Int
      /\ orbit.sog \in Speeds
      /\ orbit.sog.n \in Int /\ orbit.sog.n <= BaseSpeed + 110
  BY OrbitIs
<1>4. TopSpeed \in Int /\ TopSpeed = 1000000 
  BY DEF TopSpeed
<1>5. ASSUME NEW min \in Int, NEW max \in Int, NEW amplitude \in Int
      PROVE  wavy(min, max, amplitude) \in {min + 2 * amplitude, min - 2 * amplitude,
                                            max + 2 * amplitude, max - 2 * amplitude}
  BY WavyIs
<1>6. steered \in Int
  <2>1. NoiseGenerator(52, noise) \in {104, -104} BY NoiseIs
  <2>2. QED BY <1>3, <2>1, SimAssumption, SMT
<1>7. through \in Int /\ through <= TopSpeed
  <2>1. NoiseGenerator(5, noise) \in {10, -10} BY NoiseIs
  <2>2. SineGenerator(-30, 30, wave) \in {-30, 30} BY SineIs
  <2> HIDE DEF orbit
  <2>3. QED BY <1>3, <1>4, <2>1, <2>2, SimAssumption, SMT
<1> HIDE DEF orbit, wavy, steered, through
<1>8. v.sog \in Speeds /\ v.cog \in Angles /\ v.latitude \in Int /\ v.longitude \in Int
  BY <1>2, <1>3
<1>9. v.heading_magnetic \in Angles BY <1>2, <1>6, WrappedIs
<1>10. v.magnetic_variation \in Angles BY <1>2, SimAssumption, AngleIs
<1>11. v.stw \in Speeds BY <1>2, <1>7, CappedSpeed
<1>12. v.pitch \in Angles /\ v.roll \in Angles
  <2>1. wavy(-209, 209, 52) \in {-105, -313, 313, 105} BY <1>5, SMT
  <2>2. wavy(-70, 70, 26) \in {-18, -122, 122, 18} BY <1>5, SMT
  <2>3. QED BY <1>2, <2>1, <2>2, AngleIs, SMT
<1>13. v.wind_angle \in Angles
  <2>1. SineGenerator(-3142, 3142, wave) \in {-3142, 3142} BY SineIs
  <2>2. QED BY <1>2, <2>1, AngleIs, SMT
<1>14. v.wind_speed \in Speeds
  <2>1. wavy(200, 1500, 100) \in {400, 0, 1700, 1300} BY <1>5, SMT
  <2>2. QED BY <1>2, <1>4, <2>1, CappedSpeed, SMT
<1>15. v.depth \in Lengths
  <2>1. wavy(500, 1800, 10) \in Int BY <1>5, SMT
  <2>2. QED BY <1>2, <2>1, SMT DEF Lengths, Q, AtLeast
<1>16. /\ v.water_temperature \in [n : Int, unit : {"K"}]
       /\ v.air_temperature \in [n : Int, unit : {"K"}]
       /\ v.pressure \in [n : Int, unit : {"Pa"}]
  <2>1. /\ wavy(28300, 29300, 5) \in Int /\ wavy(28800, 29800, 10) \in Int
        /\ wavy(100800, 102000, 15) \in Int
    BY <1>5, SMT
  <2>2. QED BY <1>2, <2>1, SMT DEF Q
<1>17. v.humidity \in [n : Int, unit : {"ratio"}]
  <2>1. wavy(50, 85, 1) \in Int BY <1>5, SMT
  <2>2. QED BY <1>2, <2>1, SMT DEF Q, AtMost, AtLeast
<1>18. v.surface_to_transducer = Q(50, "m") BY <1>2
<1>19. QED BY <1>8, <1>9, <1>10, <1>11, <1>12, <1>13, <1>14, <1>15, <1>16, <1>17, <1>18

-----------------------------------------------------------------------------
(* What a tick's values are, and what is told of them.                     *)

Truth(v) ==
  [p \in OnSentences |->
     CASE p = "navigation.position" ->
            Q([latitude |-> v.latitude, longitude |-> v.longitude, altitude |-> Blank], "position")
       [] p = "navigation.speedOverGround"        -> v.sog
       [] p = "navigation.courseOverGroundTrue"   -> v.cog
       [] p = "navigation.headingMagnetic"        -> v.heading_magnetic
       [] p = "navigation.magneticVariation"      -> v.magnetic_variation
       [] p = "navigation.speedThroughWater"      -> v.stw
       [] p = "environment.wind.angleApparent"    -> v.wind_angle
       [] p = "environment.wind.speedApparent"    -> v.wind_speed
       [] p = "environment.depth.belowTransducer" -> v.depth
       [] p = "navigation.attitude" ->
            Q([pitch |-> v.pitch.n, roll |-> v.roll.n], "attitude")
       [] p = "environment.water.temperature"     -> v.water_temperature
       [] p = "environment.outside.temperature"   -> v.air_temperature
       [] p = "environment.outside.pressure"      -> v.pressure
       [] p = "environment.outside.humidity"      -> v.humidity]

(* The paths the simulator tells only with the environment, and the ones   *)
(* receivers tell and it does not.                                         *)
Surroundings ==
  {"environment.wind.angleApparent", "environment.wind.speedApparent",
   "environment.depth.belowTransducer", "environment.water.temperature",
   "environment.outside.temperature", "environment.outside.pressure",
   "environment.outside.humidity"}
Elsewhere ==
  {"navigation.headingTrue", "navigation.gnss.horizontalDilution", "navigation.gnss.satellites",
   "navigation.gnss.methodQuality", "environment.time.millis",
   "environment.time.timezoneOffset", "environment.time.timezoneRegion",
   "environment.depth.belowSurface"}

(* Values that are told directly, and as a receiver has them.              *)
TellsTruth(values, v, environment) ==
  \A p \in DOMAIN values : /\ p \notin Elsewhere
                           /\ p \in OnSentences => values[p] = Truth(v)[p]
                           /\ p \in Surroundings => environment
TellsTick(values, v) ==
  \A p \in DOMAIN values : \/ p \in Elsewhere \cup {"navigation.datetime"}
                           \/ p \in OnSentences /\ Close(values[p], Truth(v)[p])

LEMMA TruthIs ==
  ASSUME NEW v
  PROVE  /\ Truth(v)["navigation.position"]
              = Q([latitude |-> v.latitude, longitude |-> v.longitude, altitude |-> Blank],
                  "position")
         /\ Truth(v)["navigation.speedOverGround"] = v.sog
         /\ Truth(v)["navigation.courseOverGroundTrue"] = v.cog
         /\ Truth(v)["navigation.headingMagnetic"] = v.heading_magnetic
         /\ Truth(v)["navigation.magneticVariation"] = v.magnetic_variation
         /\ Truth(v)["navigation.speedThroughWater"] = v.stw
         /\ Truth(v)["environment.wind.angleApparent"] = v.wind_angle
         /\ Truth(v)["environment.wind.speedApparent"] = v.wind_speed
         /\ Truth(v)["environment.depth.belowTransducer"] = v.depth
         /\ Truth(v)["navigation.attitude"]
              = Q([pitch |-> v.pitch.n, roll |-> v.roll.n], "attitude")
         /\ Truth(v)["environment.water.temperature"] = v.water_temperature
         /\ Truth(v)["environment.outside.temperature"] = v.air_temperature
         /\ Truth(v)["environment.outside.pressure"] = v.pressure
         /\ Truth(v)["environment.outside.humidity"] = v.humidity
<1> DEFINE all == OnSentences
<1>1. {"navigation.position", "navigation.speedOverGround", "navigation.courseOverGroundTrue",
       "navigation.headingMagnetic", "navigation.magneticVariation",
       "navigation.speedThroughWater", "environment.wind.angleApparent",
       "environment.wind.speedApparent", "environment.depth.belowTransducer",
       "navigation.attitude", "environment.water.temperature",
       "environment.outside.temperature", "environment.outside.pressure",
       "environment.outside.humidity"} \subseteq all
  BY DEF OnSentences, OnBoth
<1> HIDE DEF all
<1>2. QED BY <1>1, SMT DEF Truth, all

LEMMA TruthOpt ==
  ASSUME NEW v, NEW environment, NEW path, NEW q,
         path \notin Elsewhere,
         path \in OnSentences => q = Truth(v)[path],
         path \in Surroundings => environment
  PROVE  TellsTruth(Opt(path, q), v, environment)
  BY OptValue DEF TellsTruth

LEMMA TruthJoin ==
  ASSUME NEW v, NEW environment, NEW f, NEW g,
         TellsTruth(f, v, environment), TellsTruth(g, v, environment)
  PROVE  TellsTruth(f ++ g, v, environment)
  BY JoinValue DEF TellsTruth

LEMMA TruthNoPaths == \A v, environment : TellsTruth(NoPaths, v, environment)
  BY DEF TellsTruth, NoPaths

(* The paths only it has are told anyhow.                                  *)
OnlyDirect ==
  {"propulsion.main.revolutions", "propulsion.main.oilTemperature",
   "propulsion.main.coolantTemperature", "propulsion.main.fuel.rate",
   "electrical.batteries.0.voltage", "electrical.batteries.0.current",
   "tanks.fuel.0.currentLevel", "tanks.fuel.0.capacity", "tanks.freshWater.0.currentLevel",
   "tanks.freshWater.0.capacity", "navigation.datetime",
   "environment.depth.surfaceToTransducer"}

LEMMA TruthOnlyDirect ==
  ASSUME NEW path \in OnlyDirect, NEW q
  PROVE  \A v, environment : TellsTruth(Opt(path, q), v, environment)
<1>1. path \notin Elsewhere BY DEF OnlyDirect, Elsewhere
<1>2. path \notin OnSentences BY DEF OnlyDirect, OnSentences, OnBoth
<1>3. path \notin Surroundings BY DEF OnlyDirect, Surroundings
<1>4. QED BY <1>1, <1>2, <1>3, TruthOpt

LEMMA DirectTellsTruth ==
  ASSUME NEW v \in TickValues, NEW environment \in BOOLEAN
  PROVE  TellsTruth(build_delta(v, environment), v, environment)
<1> DEFINE f1 == Position("navigation.position", v.latitude, v.longitude, Blank)
           f2 == Opt("navigation.speedOverGround", v.sog)
           f3 == Opt("navigation.courseOverGroundTrue", v.cog)
           f4 == Opt("navigation.headingMagnetic", v.heading_magnetic)
           f5 == Opt("navigation.magneticVariation", v.magnetic_variation)
           f6 == Opt("navigation.speedThroughWater", v.stw)
           f7 == Opt("navigation.attitude",
                     Q([pitch |-> v.pitch.n, roll |-> v.roll.n], "attitude"))
           f8 == DateTime("today", "now")
           e1 == Opt("environment.wind.angleApparent", v.wind_angle)
           e2 == Opt("environment.wind.speedApparent", v.wind_speed)
           e3 == Opt("environment.depth.belowTransducer", v.depth)
           e4 == Opt("environment.depth.surfaceToTransducer", v.surface_to_transducer)
           e5 == Opt("environment.water.temperature", v.water_temperature)
           e6 == Opt("environment.outside.temperature", v.air_temperature)
           e7 == Opt("environment.outside.pressure", v.pressure)
           e8 == Opt("environment.outside.humidity", v.humidity)
           f9 == IF ~environment THEN NoPaths
                 ELSE e1 ++ e2 ++ e3 ++ e4 ++ e5 ++ e6 ++ e7 ++ e8
           g1 == Opt("propulsion.main.revolutions", v.propulsion.revolutions)
           g2 == Opt("propulsion.main.oilTemperature", v.propulsion.oil_temperature)
           g3 == Opt("propulsion.main.coolantTemperature", v.propulsion.coolant_temperature)
           g4 == Opt("propulsion.main.fuel.rate", v.propulsion.fuel_rate)
           g5 == Opt("electrical.batteries.0.voltage", v.propulsion.battery_voltage)
           g6 == Opt("electrical.batteries.0.current", v.propulsion.battery_current)
           f10 == IF v.propulsion = Blank THEN NoPaths ELSE g1 ++ g2 ++ g3 ++ g4 ++ g5 ++ g6
           f11 == Opt("tanks.fuel.0.currentLevel", v.fuel_level)
           f12 == Opt("tanks.fuel.0.capacity", Q(20, "m3"))
           f13 == Opt("tanks.freshWater.0.currentLevel", v.water_level)
           f14 == Opt("tanks.freshWater.0.capacity", Q(15, "m3"))
           right(f) == TellsTruth(f, v, environment)
<1>1. build_delta(v, environment)
        = f1 ++ f2 ++ f3 ++ f4 ++ f5 ++ f6 ++ f7 ++ f8 ++ f9 ++ f10 ++ f11 ++ f12 ++ f13 ++ f14
  BY DEF build_delta
<1>2. /\ right(Opt("navigation.position", Truth(v)["navigation.position"]))
      /\ right(f2) /\ right(f3) /\ right(f4) /\ right(f5) /\ right(f6) /\ right(f7)
  BY TruthOpt, TruthIs DEF Elsewhere, Surroundings
<1>3. right(f1)
  <2>1. f1 = NoPaths \/ f1 = Opt("navigation.position", Truth(v)["navigation.position"])
    BY TruthIs DEF Position
  <2>2. QED BY <2>1, <1>2, TruthNoPaths
<1>4. /\ environment => /\ right(e1) /\ right(e2) /\ right(e3) /\ right(e5)
                        /\ right(e6) /\ right(e7) /\ right(e8)
  BY TruthOpt, TruthIs DEF Elsewhere
<1>5. right(e4) /\ right(f8) /\ right(f11) /\ right(f12) /\ right(f13) /\ right(f14)
  BY TruthOnlyDirect DEF OnlyDirect, DateTime
<1>6. right(g1) /\ right(g2) /\ right(g3) /\ right(g4) /\ right(g5) /\ right(g6)
  BY TruthOnlyDirect DEF OnlyDirect
<1>7. \A f, g : right(f) /\ right(g) => right(f ++ g) BY TruthJoin
<1>8. right(NoPaths) BY TruthNoPaths
<1> HIDE DEF right, f1, f2, f3, f4, f5, f6, f7, f8, f11, f12, f13, f14,
             e1, e2, e3, e4, e5, e6, e7, e8, g1, g2, g3, g4, g5, g6
<1>9. right(f9)
  <2>1. CASE environment
    <3>1. right(e1 ++ e2 ++ e3 ++ e4 ++ e5 ++ e6 ++ e7 ++ e8) BY <1>4, <1>5, <1>7, <2>1
    <3>2. QED BY <2>1, <3>1
  <2>2. CASE ~environment BY <2>2, <1>8
  <2>3. QED BY <2>1, <2>2
<1>10. right(f10)
  <2>1. right(g1 ++ g2 ++ g3 ++ g4 ++ g5 ++ g6) BY <1>6, <1>7
  <2>2. QED BY <2>1, <1>8
<1> HIDE DEF f9, f10
<1>11. right(f1 ++ f2 ++ f3 ++ f4 ++ f5 ++ f6 ++ f7)
  BY <1>2, <1>3, <1>7
<1>12. right(f1 ++ f2 ++ f3 ++ f4 ++ f5 ++ f6 ++ f7 ++ f8 ++ f9 ++ f10 ++ f11 ++ f12 ++ f13
               ++ f14)
  <2> DEFINE h == f1 ++ f2 ++ f3 ++ f4 ++ f5 ++ f6 ++ f7
  <2> HIDE DEF h
  <2>1. right(h) BY <1>11 DEF h
  <2>2. right(h ++ f8 ++ f9 ++ f10 ++ f11 ++ f12 ++ f13 ++ f14) BY <2>1, <1>5, <1>7, <1>9, <1>10
  <2>3. QED BY <2>2 DEF h
<1>13. QED BY <1>1, <1>12 DEF right

LEMMA TellsOpt ==
  ASSUME NEW v, NEW path, NEW q,
         \/ path \in Elsewhere \cup {"navigation.datetime"}
         \/ path \in OnSentences /\ (q # Blank => Close(q, Truth(v)[path]))
  PROVE  TellsTick(Opt(path, q), v)
  BY OptValue DEF TellsTick

LEMMA TellsJoin ==
  ASSUME NEW v, NEW f, NEW g, TellsTick(f, v), TellsTick(g, v)
  PROVE  TellsTick(f ++ g, v)
  BY JoinValue DEF TellsTick

LEMMA TellsNoPaths == \A v : TellsTick(NoPaths, v)
  BY DEF TellsTick, NoPaths

(* What else an RMC or a GGA tells.                                        *)
LEMMA TellsElsewhere ==
  ASSUME NEW v, NEW path \in Elsewhere \cup {"navigation.datetime"}, NEW q
  PROVE  TellsTick(Opt(path, q), v)
  BY TellsOpt

LEMMA SpeedClose ==
  ASSUME NEW q \in Speeds
  PROVE  /\ q # Blank /\ Knots(Speed(q)) # Blank /\ Close(Knots(Speed(q)), q) /\ Close(q, q)
<1>1. q.unit = "m/s" /\ q.n \in Int
  <2>1. TopSpeed \in Int BY DEF TopSpeed
  <2>2. QED BY <2>1 DEF Speeds
<1>2. Same(q, q) BY <1>1 DEF Same, Near
<1>3. QED BY <1>1, <1>2, SpeedHeard DEF Speed, Close

LEMMA AngleClose ==
  ASSUME NEW q \in Angles
  PROVE  /\ q # Blank /\ Radians(Angle(q)) # Blank /\ Close(Radians(Angle(q)), q) /\ Close(q, q)
         /\ Near(Radians(Angle(q)), q, 3) /\ q.n \in Int /\ Radians(Angle(q)).n \in Int
<1>0. TopAngle \in Int BY DEF TopAngle
<1>1. q.unit = "rad" /\ q.n \in Int /\ q = Q(q.n, "rad") /\ q.n <= TopAngle /\ - TopAngle <= q.n
  BY <1>0 DEF Angles, Q
<1>2. Same(q, q) BY <1>1 DEF Same, Near
<1>3. Same(Radians(Angle(q)), q) BY AngleHeard DEF Angle
<1>4. Near(Radians(Angle(q)), q, 3) BY <1>1, <1>3 DEF Same
<1>5. \E back \in Int : Radians(Angle(q)) = Q(back, "rad")
  BY <1>1, AngleThereAndBack DEF Angle
<1>6. Radians(Angle(q)).n \in Int BY <1>5 DEF Q
<1>7. QED BY <1>1, <1>2, <1>3, <1>4, <1>6, AngleHeard DEF Angle, Close

LEMMA DepthClose ==
  ASSUME NEW q \in Lengths
  PROVE  q # Blank /\ Printed(q) # Blank /\ Close(Printed(q), q) /\ Close(q, q)
<1>1. q.unit = "m" /\ q.n \in Int BY DEF Lengths
<1>2. Same(q, q) BY <1>1 DEF Same, Near
<1>3. QED BY <1>1, <1>2, DepthHeard DEF Close

LEMMA KelvinClose ==
  ASSUME NEW q \in [n : Int, unit : {"K"}]
  PROVE  LET back == Kelvins(Printed(InCelsius(q)))
         IN  back # Blank /\ Close(back, q)
<1>1. q.unit = "K" /\ q.n \in Int OBVIOUS
<1> DEFINE n == q.n - 27315
<1>2. InCelsius(q) = Q(n, "C") /\ n \in Int /\ n + 27315 = q.n BY <1>1 DEF InCelsius
<1> HIDE DEF n
<1>3. PICK shown \in Int : /\ n - 4 <= shown /\ shown <= n + 5
                           /\ Printed(InCelsius(q)) = Q(shown, "C")
  BY <1>2, PrintedIs DEF UnitNames
<1>4. Q(shown, "C") # Blank /\ Q(shown, "C").n = shown /\ Q(shown, "C").unit = "C"
  BY QuantityIs DEF UnitNames
<1>5. Kelvins(Q(shown, "C")) = Q(shown + 27315, "K") BY <1>4 DEF Kelvins
<1>6. Q(shown + 27315, "K") # Blank BY QuantityIs DEF UnitNames
<1>7. (shown + 27315) - q.n <= 10 /\ -10 <= (shown + 27315) - q.n
      /\ shown + 27315 \in Int
  BY <1>1, <1>2, <1>3, SMT
<1>8. Close(Q(shown + 27315, "K"), q) BY <1>1, <1>7 DEF Close, Same, Near, Q
<1>9. QED BY <1>3, <1>5, <1>6, <1>8

LEMMA PressureClose ==
  ASSUME NEW q \in [n : Int, unit : {"Pa"}]
  PROVE  Pascals(InBar(q)) # Blank /\ Close(Pascals(InBar(q)), q)
<1>1. q.unit = "Pa" /\ q.n \in Int OBVIOUS
<1> DEFINE bars == (q.n + 5) \div 10
<1>2. bars \in Int /\ bars * 10 \in q.n - 4 .. q.n + 5 BY <1>1, Rounded
<1>3. InBar(q) = Q(bars, "bar") BY <1>1 DEF InBar
<1> HIDE DEF bars
<1>4. Q(bars, "bar") # Blank /\ Q(bars, "bar").n = bars /\ Q(bars, "bar").unit = "bar"
  BY <1>2, QuantityIs DEF UnitNames
<1>5. (bars * 10) \div 1 = bars * 10 BY <1>2, SMT
<1>6. Pascals(Q(bars, "bar")) = Q(bars * 10, "Pa") BY <1>4, <1>5 DEF Pascals, Scaled
<1>7. Q(bars * 10, "Pa") # Blank BY <1>2, QuantityIs DEF UnitNames
<1>8. Close(Q(bars * 10, "Pa"), q) BY <1>1, <1>2 DEF Close, Same, Near, Q
<1>9. QED BY <1>3, <1>6, <1>7, <1>8

LEMMA HumidityClose ==
  ASSUME NEW q \in [n : Int, unit : {"ratio"}]
  PROVE  LET back == Ratio(Printed(InPercent(q)))
         IN  back # Blank /\ Close(back, q)
<1>1. q.unit = "ratio" /\ q.n \in Int OBVIOUS
<1> DEFINE n == 100 * q.n
<1>2. InPercent(q) = Q(n, "%") /\ n \in Int /\ n = 100 * q.n BY <1>1 DEF InPercent
<1> HIDE DEF n
<1>3. PICK shown \in Int : /\ n - 4 <= shown /\ shown <= n + 5
                           /\ Printed(InPercent(q)) = Q(shown, "%")
  <2>0. "%" \in UnitNames BY DEF UnitNames
  <2>1. \E shown \in Int : /\ n - 4 <= shown /\ shown <= n + 5
                           /\ Printed(Q(n, "%")) = Q(shown, "%")
    BY <1>2, <2>0, PrintedIs
  <2>2. QED BY <1>2, <2>1
<1>4. Q(shown, "%") # Blank /\ Q(shown, "%").n = shown /\ Q(shown, "%").unit = "%"
  BY QuantityIs DEF UnitNames
<1> DEFINE back == shown \div 100
<1>5. (shown * 1) \div 100 = back /\ back \in Int BY SMT
<1>6. Ratio(Q(shown, "%")) = Q(back, "ratio") BY <1>4, <1>5 DEF Ratio, Scaled
<1>7. back - q.n <= 10 /\ -10 <= back - q.n BY <1>1, <1>2, <1>3, SMT
<1> HIDE DEF back
<1>8. Q(back, "ratio") # Blank BY <1>5, QuantityIs DEF UnitNames
<1>9. Close(Q(back, "ratio"), q) BY <1>1, <1>5, <1>7 DEF Close, Same, Near, Q
<1>10. QED BY <1>3, <1>6, <1>8, <1>9

LEMMA PositionClose ==
  ASSUME NEW v \in TickValues
  PROVE  LET values == Position("navigation.position", v.latitude, v.longitude, Blank)
         IN  TellsTick(values, v) /\ DOMAIN values = {"navigation.position"} /\ values \in Tellings
<1> DEFINE p == "navigation.position"
           at == Truth(v)[p]
<1>1. v.latitude \in Int /\ v.longitude \in Int BY TickIs
<1>2. v.latitude # Blank /\ v.longitude # Blank BY <1>1, BlankAssumption
<1>3. at = Q([latitude |-> v.latitude, longitude |-> v.longitude, altitude |-> Blank], "position")
  BY TruthIs
<1>4. at \in [n : LatLons, unit : {"position"}]
  <2>1. [latitude |-> v.latitude, longitude |-> v.longitude, altitude |-> Blank] \in LatLons
    BY <1>1 DEF LatLons
  <2>2. QED BY <1>3, <2>1 DEF Q
<1>5. Position(p, v.latitude, v.longitude, Blank) = Opt(p, at) BY <1>2, <1>3 DEF Position
<1> HIDE DEF at
<1>6. at # Blank /\ at \in Quantities BY <1>4, BlankAssumption DEF Quantities
<1>7. Close(at, at)
  <2>1. at.unit = "position" BY <1>4
  <2>2. QED BY <2>1 DEF Close, Same
<1>8. p \in OnSentences /\ p \in WirePaths BY DEF OnSentences, OnBoth, WirePaths
<1>9. TellsTick(Opt(p, at), v) BY <1>7, <1>8, TellsOpt DEF at
<1>10. DOMAIN Opt(p, at) = {p} BY <1>6 DEF Opt
<1>11. Opt(p, at) \in Tellings BY <1>6, <1>8, TellingOpt
<1>12. QED BY <1>5, <1>9, <1>10, <1>11


-----------------------------------------------------------------------------
(* The sentences of a tick: what each of them tells is close to it, and    *)
(* none of its paths is missing.                                           *)

LEMMA TellsField ==
  ASSUME NEW v, NEW path \in OnSentences, NEW q, q # Blank, Close(q, Truth(v)[path])
  PROVE  TellsTick(Opt(path, q), v) /\ path \in DOMAIN Opt(path, q)
  BY TellsOpt, OptValue

LEMMA SpeedTold ==
  ASSUME NEW v, NEW path \in OnSentences, NEW q \in Speeds, Truth(v)[path] = q
  PROVE  LET values == Opt(path, Knots(Speed(q)))
         IN  TellsTick(values, v) /\ path \in DOMAIN values
  BY SpeedClose, TellsField

LEMMA AngleTold ==
  ASSUME NEW v, NEW path \in OnSentences, NEW q \in Angles, Truth(v)[path] = q
  PROVE  LET values == Opt(path, Radians(Angle(q)))
         IN  TellsTick(values, v) /\ path \in DOMAIN values
  BY AngleClose, TellsField

LEMMA KelvinTold ==
  ASSUME NEW v, NEW path \in OnSentences, NEW q \in [n : Int, unit : {"K"}], Truth(v)[path] = q
  PROVE  LET values == Opt(path, Kelvins(Printed(InCelsius(q))))
         IN  TellsTick(values, v) /\ path \in DOMAIN values
  BY KelvinClose, TellsField

LEMMA OnSentencesIs ==
  /\ "navigation.position" \in OnSentences
  /\ "navigation.speedOverGround" \in OnSentences
  /\ "navigation.courseOverGroundTrue" \in OnSentences
  /\ "navigation.headingMagnetic" \in OnSentences
  /\ "navigation.magneticVariation" \in OnSentences
  /\ "navigation.speedThroughWater" \in OnSentences
  /\ "environment.wind.angleApparent" \in OnSentences
  /\ "environment.wind.speedApparent" \in OnSentences
  /\ "environment.depth.belowTransducer" \in OnSentences
  /\ "navigation.attitude" \in OnSentences
  /\ "environment.water.temperature" \in OnSentences
  /\ "environment.outside.temperature" \in OnSentences
  /\ "environment.outside.pressure" \in OnSentences
  /\ "environment.outside.humidity" \in OnSentences
  BY DEF OnSentences, OnBoth

LEMMA TellsTimes ==
  ASSUME NEW v
  PROVE  /\ \A date, time : TellsTick(DateTime(date, time), v)
         /\ \A millis : TellsTick(Clock(millis), v)
<1>1. \A q : /\ TellsTick(Opt("navigation.datetime", q), v)
             /\ TellsTick(Opt("environment.time.millis", q), v)
             /\ TellsTick(Opt("environment.time.timezoneOffset", q), v)
             /\ TellsTick(Opt("environment.time.timezoneRegion", q), v)
  BY TellsElsewhere DEF Elsewhere
<1>2. QED BY <1>1, TellsJoin DEF DateTime, Clock

RmcOf(v, minuteFull) ==
  [kind |-> Timed("RMC", minuteFull), fix_time |-> "now", fix_date |-> "today",
   status_of_fix |-> "Autonomous", lat |-> v.latitude, lon |-> v.longitude,
   speed_over_ground |-> Speed(v.sog), true_course |-> Angle(v.cog),
   magnetic_variation |-> Angle(v.magnetic_variation)]
GgaOf(v, minuteFull) ==
  [kind |-> Timed("GGA", minuteFull), latitude |-> v.latitude, longitude |-> v.longitude,
   altitude |-> Blank, hdop |-> Plain(120), fix_satellites |-> Plain(8), fix_type |-> "Gps"]
HdgOf(v) ==
  [kind |-> "HDG", heading |-> Angle(v.heading_magnetic), deviation |-> Blank,
   variation |-> Blank]
VhwOf(v) ==
  [kind |-> "VHW", relative_speed_knots |-> Speed(v.stw),
   heading_true |-> Angle(Q(Wrapped(v.heading_magnetic.n + v.magnetic_variation.n), "rad")),
   heading_magnetic |-> Angle(v.heading_magnetic)]
MwvOf(v) ==
  [kind |-> "MWV", reference |-> "Relative", wind_speed_units |-> "Knots",
   wind_direction |-> Angle(v.wind_angle), wind_speed |-> Speed(v.wind_speed),
   data_valid |-> TRUE]
DbtOf(v) ==
  [kind |-> "DBT", depth_meters |-> Printed(v.depth),
   depth_feet |-> Printed(InFeet(v.depth)), depth_fathoms |-> Printed(InFathoms(v.depth))]
MtwOf(v) == [kind |-> "MTW", temperature |-> Printed(InCelsius(v.water_temperature))]
MdaOf(v) ==
  [kind |-> "MDA", pressure_bar |-> InBar(v.pressure),
   air_temp_deg |-> Printed(InCelsius(v.air_temperature)), water_temp_deg |-> Blank,
   rel_humidity |-> Printed(InPercent(v.humidity)), dew_point |-> Blank,
   wind_direction_true |-> Blank, wind_speed_ms |-> Blank, wind_speed_knots |-> Blank]
XdrOf(v) ==
  [kind |-> "XDR",
   measurements |-> <<[type |-> "A", name |-> <<"PITCH">>, value |-> Angle(v.pitch)],
                      [type |-> "A", name |-> <<"ROLL">>, value |-> Angle(v.roll)]>>]

LEMMA UnreadableTold ==
  ASSUME NEW v, NEW s, s.kind = "unreadable"
  PROVE  TellsTick(sentence_to_delta(s), v)
<1>1. sentence_to_delta(s) = NoPaths BY DEF sentence_to_delta
<1>2. QED BY <1>1, TellsNoPaths

LEMMA RmcTold ==
  ASSUME NEW v \in TickValues, NEW minuteFull \in BOOLEAN
  PROVE  LET values == sentence_to_delta(RmcOf(v, minuteFull))
         IN  /\ TellsTick(values, v)
             /\ ~minuteFull =>
                  {"navigation.position", "navigation.speedOverGround",
                   "navigation.courseOverGroundTrue", "navigation.magneticVariation"}
                    \subseteq DOMAIN values
<1> DEFINE s        == RmcOf(v, minuteFull)
           position == Position("navigation.position", s.lat, s.lon, Blank)
           speed    == Opt("navigation.speedOverGround", Knots(s.speed_over_ground))
           course   == Opt("navigation.courseOverGroundTrue", Radians(s.true_course))
           magnetic == Opt("navigation.magneticVariation", Radians(s.magnetic_variation))
           clock    == IF s.status_of_fix # "Invalid" /\ s.fix_date # Blank /\ s.fix_time # Blank
                       THEN DateTime(s.fix_date, s.fix_time) ++ Clock(<<s.fix_date, s.fix_time>>)
                       ELSE NoPaths
<1>1. /\ s.kind = Timed("RMC", minuteFull)
      /\ s.lat = v.latitude /\ s.lon = v.longitude
      /\ s.speed_over_ground = Speed(v.sog) /\ s.true_course = Angle(v.cog)
      /\ s.magnetic_variation = Angle(v.magnetic_variation)
  BY DEF RmcOf
<1> HIDE DEF s
<1>2. CASE minuteFull
  BY <1>1, <1>2, UnreadableTold DEF Timed, s
<1>3. CASE ~minuteFull
  <2>1. sentence_to_delta(s) = position ++ speed ++ course ++ magnetic ++ clock
    BY <1>1, <1>3 DEF sentence_to_delta, from_rmc, Timed
  <2>2. TellsTick(position, v) /\ "navigation.position" \in DOMAIN position
    BY <1>1, PositionClose
  <2>3. TellsTick(speed, v) /\ "navigation.speedOverGround" \in DOMAIN speed
    <3>1. v.sog \in Speeds BY TickIs
    <3>2. Truth(v)["navigation.speedOverGround"] = v.sog BY TruthIs
    <3>3. QED BY <1>1, <3>1, <3>2, OnSentencesIs, SpeedTold
  <2>4. TellsTick(course, v) /\ "navigation.courseOverGroundTrue" \in DOMAIN course
    <3>1. v.cog \in Angles BY TickIs
    <3>2. Truth(v)["navigation.courseOverGroundTrue"] = v.cog BY TruthIs
    <3>3. QED BY <1>1, <3>1, <3>2, OnSentencesIs, AngleTold
  <2>5. TellsTick(magnetic, v) /\ "navigation.magneticVariation" \in DOMAIN magnetic
    <3>1. v.magnetic_variation \in Angles BY TickIs
    <3>2. Truth(v)["navigation.magneticVariation"] = v.magnetic_variation BY TruthIs
    <3>3. QED BY <1>1, <3>1, <3>2, OnSentencesIs, AngleTold
  <2>6. TellsTick(clock, v) BY TellsTimes, TellsJoin, TellsNoPaths
  <2> HIDE DEF position, speed, course, magnetic, clock
  <2>7. QED BY <1>3, <2>1, <2>2, <2>3, <2>4, <2>5, <2>6, TellsJoin, JoinValue DEF s
<1>4. QED BY <1>2, <1>3

LEMMA GgaTold ==
  ASSUME NEW v \in TickValues, NEW minuteFull \in BOOLEAN
  PROVE  TellsTick(sentence_to_delta(GgaOf(v, minuteFull)), v)
<1> DEFINE s        == GgaOf(v, minuteFull)
           position == Position("navigation.position", s.latitude, s.longitude, s.altitude)
           hdop     == Opt("navigation.gnss.horizontalDilution", s.hdop)
           count    == Opt("navigation.gnss.satellites", s.fix_satellites)
           method   == Opt("navigation.gnss.methodQuality",
                           Mapped(LAMBDA fix : Q(FixMethod[fix], "text"), s.fix_type))
<1>1. /\ s.kind = Timed("GGA", minuteFull)
      /\ s.latitude = v.latitude /\ s.longitude = v.longitude /\ s.altitude = Blank
  BY DEF GgaOf
<1> HIDE DEF s
<1>2. CASE minuteFull
  BY <1>1, <1>2, UnreadableTold DEF Timed, s
<1>3. CASE ~minuteFull
  <2>1. sentence_to_delta(s) = position ++ hdop ++ count ++ method
    BY <1>1, <1>3 DEF sentence_to_delta, from_gga, Timed
  <2>2. TellsTick(position, v) BY <1>1, PositionClose
  <2>3. TellsTick(hdop, v) /\ TellsTick(count, v) /\ TellsTick(method, v)
    BY TellsElsewhere DEF Elsewhere
  <2> HIDE DEF position, hdop, count, method
  <2>4. QED BY <2>1, <2>2, <2>3, TellsJoin DEF s
<1>4. QED BY <1>2, <1>3

LEMMA HdgTold ==
  ASSUME NEW v \in TickValues
  PROVE  LET values == sentence_to_delta(HdgOf(v))
         IN  TellsTick(values, v) /\ "navigation.headingMagnetic" \in DOMAIN values
<1> DEFINE s         == HdgOf(v)
           heading   == Opt("navigation.headingMagnetic", Radians(s.heading))
           deviation == Opt("navigation.magneticDeviation", Radians(s.deviation))
           variation == Opt("navigation.magneticVariation", Radians(s.variation))
<1>1. /\ s.kind = "HDG" /\ s.heading = Angle(v.heading_magnetic)
      /\ s.deviation = Blank /\ s.variation = Blank
  BY DEF HdgOf
<1> HIDE DEF s
<1>2. sentence_to_delta(s) = heading ++ deviation ++ variation
  BY <1>1 DEF sentence_to_delta, from_hdg
<1>3. TellsTick(heading, v) /\ "navigation.headingMagnetic" \in DOMAIN heading
  <2>1. v.heading_magnetic \in Angles BY TickIs
  <2>2. Truth(v)["navigation.headingMagnetic"] = v.heading_magnetic BY TruthIs
  <2>3. QED BY <1>1, <2>1, <2>2, OnSentencesIs, AngleTold
<1>4. deviation = NoPaths /\ variation = NoPaths BY <1>1 DEF Radians, Scaled, Opt
<1> HIDE DEF heading, deviation, variation
<1>5. QED BY <1>2, <1>3, <1>4, TellsNoPaths, TellsJoin, JoinValue DEF s

LEMMA VhwTold ==
  ASSUME NEW v \in TickValues
  PROVE  LET values == sentence_to_delta(VhwOf(v))
         IN  TellsTick(values, v) /\ "navigation.speedThroughWater" \in DOMAIN values
<1> DEFINE s         == VhwOf(v)
           speed     == Opt("navigation.speedThroughWater", Knots(s.relative_speed_knots))
           northward == Opt("navigation.headingTrue", Radians(s.heading_true))
           heading   == Opt("navigation.headingMagnetic", Radians(s.heading_magnetic))
<1>1. /\ s.kind = "VHW" /\ s.relative_speed_knots = Speed(v.stw)
      /\ s.heading_magnetic = Angle(v.heading_magnetic)
  BY DEF VhwOf
<1> HIDE DEF s
<1>2. sentence_to_delta(s) = speed ++ northward ++ heading
  BY <1>1 DEF sentence_to_delta, from_vhw
<1>3. TellsTick(heading, v)
  <2>1. v.heading_magnetic \in Angles BY TickIs
  <2>2. Truth(v)["navigation.headingMagnetic"] = v.heading_magnetic BY TruthIs
  <2>3. QED BY <1>1, <2>1, <2>2, OnSentencesIs, AngleTold
<1>4. TellsTick(speed, v) /\ "navigation.speedThroughWater" \in DOMAIN speed
  <2>1. v.stw \in Speeds BY TickIs
  <2>2. Truth(v)["navigation.speedThroughWater"] = v.stw BY TruthIs
  <2>3. QED BY <1>1, <2>1, <2>2, OnSentencesIs, SpeedTold
<1>5. TellsTick(northward, v) BY TellsElsewhere DEF Elsewhere
<1> HIDE DEF speed, northward, heading
<1>6. QED BY <1>2, <1>3, <1>4, <1>5, TellsJoin, JoinValue DEF s

LEMMA MwvTold ==
  ASSUME NEW v \in TickValues
  PROVE  LET values == sentence_to_delta(MwvOf(v))
         IN  /\ TellsTick(values, v)
             /\ {"environment.wind.angleApparent", "environment.wind.speedApparent"}
                  \subseteq DOMAIN values
<1> DEFINE s     == MwvOf(v)
           angle == Opt("environment.wind.angleApparent", Radians(s.wind_direction))
           speed == Opt("environment.wind.speedApparent", Knots(s.wind_speed))
<1>1. /\ s.kind = "MWV" /\ s.data_valid /\ s.reference = "Relative"
      /\ s.wind_speed_units = "Knots"
      /\ s.wind_direction = Angle(v.wind_angle) /\ s.wind_speed = Speed(v.wind_speed)
  BY DEF MwvOf
<1> HIDE DEF s
<1>2. sentence_to_delta(s) = angle ++ speed
  BY <1>1 DEF sentence_to_delta, from_mwv, WindSpeed
<1>3. TellsTick(angle, v) /\ "environment.wind.angleApparent" \in DOMAIN angle
  <2>1. v.wind_angle \in Angles BY TickIs
  <2>2. Truth(v)["environment.wind.angleApparent"] = v.wind_angle BY TruthIs
  <2>3. QED BY <1>1, <2>1, <2>2, OnSentencesIs, AngleTold
<1>4. TellsTick(speed, v) /\ "environment.wind.speedApparent" \in DOMAIN speed
  <2>1. v.wind_speed \in Speeds BY TickIs
  <2>2. Truth(v)["environment.wind.speedApparent"] = v.wind_speed BY TruthIs
  <2>3. QED BY <1>1, <2>1, <2>2, OnSentencesIs, SpeedTold
<1> HIDE DEF angle, speed
<1>5. QED BY <1>2, <1>3, <1>4, TellsJoin, JoinValue DEF s

LEMMA DbtTold ==
  ASSUME NEW v \in TickValues
  PROVE  LET values == sentence_to_delta(DbtOf(v))
         IN  TellsTick(values, v) /\ "environment.depth.belowTransducer" \in DOMAIN values
<1> DEFINE s    == DbtOf(v)
           path == "environment.depth.belowTransducer"
<1>1. s.kind = "DBT" /\ s.depth_meters = Printed(v.depth) BY DEF DbtOf
<1> HIDE DEF s
<1>2. Printed(v.depth) # Blank /\ Close(Printed(v.depth), v.depth) BY TickIs, DepthClose
<1>3. sentence_to_delta(s) = Opt(path, Printed(v.depth))
  BY <1>1, <1>2 DEF sentence_to_delta, from_dbt, Depth, OrElse
<1>4. QED BY <1>2, <1>3, TruthIs, TellsField, OnSentencesIs DEF s

LEMMA MtwTold ==
  ASSUME NEW v \in TickValues
  PROVE  LET values == sentence_to_delta(MtwOf(v))
         IN  TellsTick(values, v) /\ "environment.water.temperature" \in DOMAIN values
<1> DEFINE s    == MtwOf(v)
           path == "environment.water.temperature"
<1>1. s.kind = "MTW" /\ s.temperature = Printed(InCelsius(v.water_temperature)) BY DEF MtwOf
<1> HIDE DEF s
<1>2. sentence_to_delta(s) = Opt(path, Kelvins(Printed(InCelsius(v.water_temperature))))
  BY <1>1 DEF sentence_to_delta, from_mtw
<1>3. v.water_temperature \in [n : Int, unit : {"K"}] BY TickIs
<1>4. Truth(v)[path] = v.water_temperature BY TruthIs
<1>5. QED BY <1>2, <1>3, <1>4, OnSentencesIs, KelvinTold DEF s

LEMMA MdaTold ==
  ASSUME NEW v \in TickValues
  PROVE  LET values == sentence_to_delta(MdaOf(v))
         IN  /\ TellsTick(values, v)
             /\ {"environment.outside.pressure", "environment.outside.temperature",
                 "environment.outside.humidity"} \subseteq DOMAIN values
<1> DEFINE s        == MdaOf(v)
           pressure == Opt("environment.outside.pressure", Pascals(s.pressure_bar))
           air      == Opt("environment.outside.temperature", Kelvins(s.air_temp_deg))
           water    == Opt("environment.water.temperature", Kelvins(s.water_temp_deg))
           humid    == Opt("environment.outside.humidity", Ratio(s.rel_humidity))
           dew      == Opt("environment.outside.dewPointTemperature", Kelvins(s.dew_point))
           from     == Opt("environment.wind.directionTrue", Radians(s.wind_direction_true))
           speed    == Opt("environment.wind.speedTrue",
                           OrElse(s.wind_speed_ms, Knots(s.wind_speed_knots)))
<1>1. /\ s.kind = "MDA" /\ s.pressure_bar = InBar(v.pressure)
      /\ s.air_temp_deg = Printed(InCelsius(v.air_temperature))
      /\ s.rel_humidity = Printed(InPercent(v.humidity))
      /\ s.water_temp_deg = Blank /\ s.dew_point = Blank /\ s.wind_direction_true = Blank
      /\ s.wind_speed_ms = Blank /\ s.wind_speed_knots = Blank
  BY DEF MdaOf
<1> HIDE DEF s
<1>2. sentence_to_delta(s) = pressure ++ air ++ water ++ humid ++ dew ++ from ++ speed
  BY <1>1 DEF sentence_to_delta, from_mda
<1>3. TellsTick(pressure, v) /\ "environment.outside.pressure" \in DOMAIN pressure
  <2>1. v.pressure \in [n : Int, unit : {"Pa"}] BY TickIs
  <2>2. Truth(v)["environment.outside.pressure"] = v.pressure BY TruthIs
  <2>3. QED BY <1>1, <2>1, <2>2, OnSentencesIs, PressureClose, TellsField
<1>4. TellsTick(air, v) /\ "environment.outside.temperature" \in DOMAIN air
  <2>1. v.air_temperature \in [n : Int, unit : {"K"}] BY TickIs
  <2>2. Truth(v)["environment.outside.temperature"] = v.air_temperature BY TruthIs
  <2>3. QED BY <1>1, <2>1, <2>2, OnSentencesIs, KelvinTold
<1>5. TellsTick(humid, v) /\ "environment.outside.humidity" \in DOMAIN humid
  <2>1. v.humidity \in [n : Int, unit : {"ratio"}] BY TickIs
  <2>2. Truth(v)["environment.outside.humidity"] = v.humidity BY TruthIs
  <2>3. QED BY <1>1, <2>1, <2>2, OnSentencesIs, HumidityClose, TellsField
<1>6. water = NoPaths /\ dew = NoPaths /\ from = NoPaths /\ speed = NoPaths
  BY <1>1 DEF Kelvins, Radians, Knots, Scaled, OrElse, Opt
<1> HIDE DEF pressure, air, water, humid, dew, from, speed
<1>7. QED BY <1>2, <1>3, <1>4, <1>5, <1>6, TellsNoPaths, TellsJoin, JoinValue DEF s

LEMMA InclineRows ==
  ASSUME NEW row \in MAPPINGS, row.type = "A"
  PROVE  /\ name_matches(row, <<"PITCH">>) => row.path = "pitch" /\ row.convert = "deg"
         /\ name_matches(row, <<"ROLL">>)  => row.path = "roll" /\ row.convert = "deg"
<1> DEFINE P == Known("A", {<<"PTCH">>, <<"PITCH">>, <<"Pitch">>}, {}, "pitch", "deg")
           R == Known("A", {<<"ROLL">>, <<"Roll">>}, {}, "roll", "deg")
<1>1. row = P \/ row = R BY DEF MAPPINGS, Known
<1>2. /\ P.exact = {<<"PTCH">>, <<"PITCH">>, <<"Pitch">>} /\ P.starts = {}
      /\ P.path = "pitch" /\ P.convert = "deg"
      /\ R.exact = {<<"ROLL">>, <<"Roll">>} /\ R.starts = {}
      /\ R.path = "roll" /\ R.convert = "deg"
  BY DEF Known
<1> HIDE DEF P, R
<1>3. /\ name_matches(P, <<"ROLL">>) = FALSE /\ name_matches(R, <<"PITCH">>) = FALSE
  <2>1. <<"ROLL">> \notin P.exact /\ <<"PITCH">> \notin R.exact BY <1>2, SMT
  <2>2. QED BY <1>2, <2>1 DEF name_matches
<1>4. QED BY <1>1, <1>2, <1>3

LEMMA InclineRowsExist ==
  /\ \E row \in MAPPINGS : row.type = "A" /\ name_matches(row, <<"PITCH">>)
  /\ \E row \in MAPPINGS : row.type = "A" /\ name_matches(row, <<"ROLL">>)
<1> DEFINE P == Known("A", {<<"PTCH">>, <<"PITCH">>, <<"Pitch">>}, {}, "pitch", "deg")
           R == Known("A", {<<"ROLL">>, <<"Roll">>}, {}, "roll", "deg")
<1>1. P \in MAPPINGS /\ R \in MAPPINGS BY DEF MAPPINGS
<1>2. /\ P.exact = {<<"PTCH">>, <<"PITCH">>, <<"Pitch">>} /\ P.type = "A"
      /\ R.exact = {<<"ROLL">>, <<"Roll">>} /\ R.type = "A"
  BY DEF Known
<1> HIDE DEF P, R
<1>3. QED BY <1>1, <1>2 DEF name_matches

LEMMA AttitudeClose ==
  ASSUME NEW v \in TickValues
  PROVE  LET q == Q([pitch |-> Radians(Angle(v.pitch)).n, roll |-> Radians(Angle(v.roll)).n],
                    "attitude")
         IN  q # Blank /\ Close(q, Truth(v)["navigation.attitude"])
<1> DEFINE a == Radians(Angle(v.pitch))  b == Radians(Angle(v.roll))
           q == Q([pitch |-> a.n, roll |-> b.n], "attitude")
           r == Truth(v)["navigation.attitude"]
<1>1. v.pitch \in Angles /\ v.roll \in Angles BY TickIs
<1>2. /\ Near(a, v.pitch, 3) /\ v.pitch.n \in Int /\ a.n \in Int
      /\ Near(b, v.roll, 3) /\ v.roll.n \in Int /\ b.n \in Int
  BY <1>1, AngleClose
<1>3. r = Q([pitch |-> v.pitch.n, roll |-> v.roll.n], "attitude") BY TruthIs
<1> HIDE DEF a, b, r
<1>4. r.unit = "attitude" /\ r.n.pitch = v.pitch.n /\ r.n.roll = v.roll.n BY <1>3 DEF Q
<1>5. q.n.pitch = a.n /\ q.n.roll = b.n BY DEF Q
<1>6. q # Blank
  <2>1. q \in [n : [pitch : Int, roll : Int], unit : {"attitude"}] BY <1>2 DEF Q
  <2> HIDE DEF q
  <2>2. QED BY <2>1, BlankAssumption
<1> HIDE DEF q
<1>7. Near(Q(q.n.pitch, "rad"), Q(r.n.pitch, "rad"), 3) BY <1>2, <1>4, <1>5 DEF Near, Q
<1>8. Near(Q(q.n.roll, "rad"), Q(r.n.roll, "rad"), 3) BY <1>2, <1>4, <1>5 DEF Near, Q
<1>9. Close(q, r) BY <1>4, <1>7, <1>8 DEF Close
<1>10. QED BY <1>6, <1>9 DEF q, a, b, r

LEMMA XdrTold ==
  ASSUME NEW v \in TickValues
  PROVE  LET values == sentence_to_delta(XdrOf(v))
         IN  TellsTick(values, v) /\ "navigation.attitude" \in DOMAIN values
<1> DEFINE s == XdrOf(v)
           rows(m) == {row \in MAPPINGS : row.type = m.type /\ name_matches(row, m.name)}
           one(m) == IF m.value = Blank \/ rows(m) = {} THEN NoPaths
                     ELSE LET row == CHOOSE r \in rows(m) : TRUE
                          IN  Opt(row.path, Converted(row.convert, m.value))
           deltas == [i \in DOMAIN s.measurements |-> one(s.measurements[i])]
           all == Merged(deltas)
           part(p) == IF p \in DOMAIN all THEN all[p].n ELSE Blank
           rest == [p \in DOMAIN all \ {"pitch", "roll"} |-> all[p]]
           both == Q([pitch |-> part("pitch"), roll |-> part("roll")], "attitude")
           attitude == IF {"pitch", "roll"} \cap DOMAIN all = {} THEN NoPaths
                       ELSE Opt("navigation.attitude", both)
           a == Radians(Angle(v.pitch))  b == Radians(Angle(v.roll))
<1>1. /\ s.kind = "XDR" /\ DOMAIN s.measurements = 1 .. 2
      /\ s.measurements[1] = [type |-> "A", name |-> <<"PITCH">>, value |-> Angle(v.pitch)]
      /\ s.measurements[2] = [type |-> "A", name |-> <<"ROLL">>, value |-> Angle(v.roll)]
  BY DEF XdrOf
<1>2. a # Blank /\ b # Blank BY TickIs, AngleClose
<1>3. Angle(v.pitch) # Blank /\ Angle(v.roll) # Blank
  BY <1>2 DEF Radians, Scaled
<1>4. ASSUME NEW m, NEW path, m.type = "A", m.value # Blank, rows(m) # {},
             \A row \in rows(m) : row.path = path /\ row.convert = "deg"
      PROVE  one(m) = Opt(path, Radians(m.value))
  <2>1. PICK row : row = (CHOOSE r \in rows(m) : TRUE) OBVIOUS
  <2>2. row \in rows(m) BY <1>4, <2>1
  <2>3. one(m) = Opt(row.path, Converted(row.convert, m.value)) BY <1>4, <2>1
  <2> HIDE DEF one, rows
  <2>4. QED BY <1>4, <2>2, <2>3 DEF Converted
<1>5. one(s.measurements[1]) = Opt("pitch", a)
  <2> DEFINE m == [type |-> "A", name |-> <<"PITCH">>, value |-> Angle(v.pitch)]
  <2>1. m.type = "A" /\ m.name = <<"PITCH">> /\ m.value = Angle(v.pitch) OBVIOUS
  <2> HIDE DEF m
  <2>2. \A row \in rows(m) : row.path = "pitch" /\ row.convert = "deg"
    BY <2>1, InclineRows
  <2>3. rows(m) # {} BY <2>1, InclineRowsExist
  <2> HIDE DEF one, rows
  <2>4. one(m) = Opt("pitch", a) BY <1>3, <1>4, <2>1, <2>2, <2>3
  <2>5. QED BY <1>1, <2>4 DEF m
<1>6. one(s.measurements[2]) = Opt("roll", b)
  <2> DEFINE m == [type |-> "A", name |-> <<"ROLL">>, value |-> Angle(v.roll)]
  <2>1. m.type = "A" /\ m.name = <<"ROLL">> /\ m.value = Angle(v.roll) OBVIOUS
  <2> HIDE DEF m
  <2>2. \A row \in rows(m) : row.path = "roll" /\ row.convert = "deg"
    BY <2>1, InclineRows
  <2>3. rows(m) # {} BY <2>1, InclineRowsExist
  <2> HIDE DEF one, rows
  <2>4. one(m) = Opt("roll", b) BY <1>3, <1>4, <2>1, <2>2, <2>3
  <2>5. QED BY <1>1, <2>4 DEF m
<1>7. from_xdr(s) = rest ++ attitude BY DEF from_xdr
<1>8. sentence_to_delta(s) = from_xdr(s) BY <1>1 DEF sentence_to_delta
<1> HIDE DEF one, s
<1>9. DOMAIN deltas = 1 .. 2 /\ deltas[1] = Opt("pitch", a) /\ deltas[2] = Opt("roll", b)
  BY <1>1, <1>5, <1>6
<1> HIDE DEF deltas, a, b
<1>10. /\ \A p : p \in DOMAIN deltas[1] <=> p = "pitch"
       /\ \A p : p \in DOMAIN deltas[2] <=> p = "roll"
       /\ deltas[1]["pitch"] = a /\ deltas[2]["roll"] = b
  BY <1>2, <1>9, OptValue
<1>11. \A p : p \in DOMAIN all <=> p \in {"pitch", "roll"}
  <2>1. \A p : p \in DOMAIN all <=> \E i \in 1 .. 2 : p \in DOMAIN deltas[i]
    BY <1>9, MergedTells
  <2>2. QED BY <2>1, <1>10
<1>12. all["pitch"] = a /\ all["roll"] = b
  <2>1. \A p \in DOMAIN all : \E i \in 1 .. 2 : p \in DOMAIN deltas[i] /\ all[p] = deltas[i][p]
    BY <1>9, MergedTells
  <2> HIDE DEF all
  <2>2. QED BY <2>1, <1>10, <1>11
<1> HIDE DEF all
<1>13. part("pitch") = a.n /\ part("roll") = b.n BY <1>11, <1>12
<1>14. DOMAIN rest = {} BY <1>11
<1>15. attitude = Opt("navigation.attitude", Q([pitch |-> a.n, roll |-> b.n], "attitude"))
  BY <1>11, <1>13
<1> HIDE DEF rest, attitude
<1>16. TellsTick(rest, v) BY <1>14 DEF TellsTick
<1>17. TellsTick(attitude, v) /\ "navigation.attitude" \in DOMAIN attitude
  BY <1>15, AttitudeClose, OnSentencesIs, TellsField DEF a, b
<1>18. QED BY <1>7, <1>8, <1>16, <1>17, TellsJoin, JoinValue DEF s

-----------------------------------------------------------------------------
(* The messages of a tick.                                                 *)

PositionOf(v) ==
  [kind |-> "PositionRapidUpdate", latitude |-> v.latitude, longitude |-> v.longitude]
CourseOf(v) ==
  [kind |-> "CogSogRapidUpdate", cog_reference |-> "True", cog |-> v.cog, sog |-> v.sog]
HeadingOf(v) ==
  [kind |-> "VesselHeading", reference |-> "Magnetic", heading |-> v.heading_magnetic,
   variation |-> v.magnetic_variation]
SpeedOf(v) ==
  [kind |-> "Speed", speed_water_referenced |-> v.stw, speed_ground_referenced |-> v.sog]
WindOf(v) ==
  [kind |-> "WindData", reference |-> "Apparent", wind_speed |-> v.wind_speed,
   wind_angle |-> v.wind_angle]
DepthOf(v) ==
  [kind |-> "WaterDepth", depth |-> v.depth, offset |-> v.surface_to_transducer]

(* A value as it is.                                                       *)
LEMMA ItselfTold ==
  ASSUME NEW v, NEW path \in OnBoth, NEW q \in Speeds \cup Angles \cup Lengths,
         Truth(v)[path] = q
  PROVE  LET values == Opt(path, q)
         IN  TellsTick(values, v) /\ path \in DOMAIN values /\ values \in Tellings
<1>1. q # Blank /\ Close(q, q) BY SpeedClose, AngleClose, DepthClose
<1>2. q \in Quantities BY QuantityKinds
<1>3. path \in WirePaths /\ path \in OnSentences BY DEF OnBoth, OnSentences, WirePaths
<1>4. QED BY <1>1, <1>2, <1>3, TellsField, TellingOpt

LEMMA PairTold ==
  ASSUME NEW v, NEW f \in Tellings, NEW g \in Tellings, TellsTick(f, v), TellsTick(g, v),
         NEW delta, delta = self_delta(f ++ g)
  PROVE  LET values == values_of(delta)
         IN  TellsTick(values, v) /\ DOMAIN f \cup DOMAIN g \subseteq DOMAIN values
<1> DEFINE h == f ++ g
<1>1. /\ h \in Tellings /\ TellsTick(h, v)
      /\ \A p : p \in DOMAIN h <=> p \in DOMAIN f \/ p \in DOMAIN g
  BY TellingJoin, TellsJoin, JoinValue
<1> HIDE DEF h
<1>2. values_of(self_delta(h)) = h BY <1>1, SelfValues
<1>3. delta = self_delta(h) BY DEF h
<1>4. QED BY <1>1, <1>2, <1>3

LEMMA OnBothIs ==
  /\ "navigation.position" \in OnBoth
  /\ "navigation.speedOverGround" \in OnBoth
  /\ "navigation.courseOverGroundTrue" \in OnBoth
  /\ "navigation.headingMagnetic" \in OnBoth
  /\ "navigation.magneticVariation" \in OnBoth
  /\ "navigation.speedThroughWater" \in OnBoth
  /\ "environment.wind.angleApparent" \in OnBoth
  /\ "environment.wind.speedApparent" \in OnBoth
  /\ "environment.depth.belowTransducer" \in OnBoth
  BY DEF OnBoth

LEMMA PositionTold ==
  ASSUME NEW v \in TickValues
  PROVE  LET values == values_of(decoded_to_delta(PositionOf(v)))
         IN  TellsTick(values, v) /\ "navigation.position" \in DOMAIN values
<1> DEFINE m == PositionOf(v)
           f == Position("navigation.position", v.latitude, v.longitude, Blank)
<1>1. m.kind = "PositionRapidUpdate" /\ m.latitude = v.latitude /\ m.longitude = v.longitude
  BY DEF PositionOf
<1> HIDE DEF m
<1>2. decoded_to_delta(m) = self_delta(f) BY <1>1 DEF decoded_to_delta, from_position_rapid
<1>3. TellsTick(f, v) /\ "navigation.position" \in DOMAIN f /\ f \in Tellings BY PositionClose
<1> HIDE DEF f
<1>4. QED BY <1>2, <1>3, SelfValues DEF m

LEMMA CourseTold ==
  ASSUME NEW v \in TickValues
  PROVE  LET values == values_of(decoded_to_delta(CourseOf(v)))
         IN  /\ TellsTick(values, v)
             /\ {"navigation.courseOverGroundTrue", "navigation.speedOverGround"}
                  \subseteq DOMAIN values
<1> DEFINE m == CourseOf(v)
           f == Opt("navigation.courseOverGroundTrue", v.cog)
           g == Opt("navigation.speedOverGround", v.sog)
<1>1. /\ m.kind = "CogSogRapidUpdate" /\ m.cog_reference = "True"
      /\ m.cog = v.cog /\ m.sog = v.sog
  BY DEF CourseOf
<1> HIDE DEF m
<1>2. decoded_to_delta(m) = self_delta(from_cog_sog_rapid(m)) BY <1>1 DEF decoded_to_delta
<1>3. from_cog_sog_rapid(m) = f ++ g BY <1>1 DEF from_cog_sog_rapid
<1>4. v.cog \in Angles /\ v.sog \in Speeds BY TickIs
<1>5. /\ Truth(v)["navigation.courseOverGroundTrue"] = v.cog
      /\ Truth(v)["navigation.speedOverGround"] = v.sog
  BY TruthIs
<1>6. TellsTick(f, v) /\ "navigation.courseOverGroundTrue" \in DOMAIN f /\ f \in Tellings
  BY <1>4, <1>5, OnBothIs, ItselfTold
<1>7. TellsTick(g, v) /\ "navigation.speedOverGround" \in DOMAIN g /\ g \in Tellings
  BY <1>4, <1>5, OnBothIs, ItselfTold
<1> HIDE DEF f, g
<1>8. QED BY <1>2, <1>3, <1>6, <1>7, PairTold DEF m

LEMMA HeadingTold ==
  ASSUME NEW v \in TickValues
  PROVE  LET values == values_of(decoded_to_delta(HeadingOf(v)))
         IN  /\ TellsTick(values, v)
             /\ {"navigation.headingMagnetic", "navigation.magneticVariation"}
                  \subseteq DOMAIN values
<1> DEFINE m == HeadingOf(v)
           f == Opt("navigation.headingMagnetic", v.heading_magnetic)
           g == Opt("navigation.magneticVariation", v.magnetic_variation)
<1>1. /\ m.kind = "VesselHeading" /\ m.reference = "Magnetic"
      /\ m.heading = v.heading_magnetic /\ m.variation = v.magnetic_variation
  BY DEF HeadingOf
<1> HIDE DEF m
<1>2. decoded_to_delta(m) = self_delta(from_vessel_heading(m)) BY <1>1 DEF decoded_to_delta
<1>3. from_vessel_heading(m) = f ++ g BY <1>1 DEF from_vessel_heading
<1>4. v.heading_magnetic \in Angles /\ v.magnetic_variation \in Angles BY TickIs
<1>5. /\ Truth(v)["navigation.headingMagnetic"] = v.heading_magnetic
      /\ Truth(v)["navigation.magneticVariation"] = v.magnetic_variation
  BY TruthIs
<1>6. TellsTick(f, v) /\ "navigation.headingMagnetic" \in DOMAIN f /\ f \in Tellings
  BY <1>4, <1>5, OnBothIs, ItselfTold
<1>7. TellsTick(g, v) /\ "navigation.magneticVariation" \in DOMAIN g /\ g \in Tellings
  BY <1>4, <1>5, OnBothIs, ItselfTold
<1> HIDE DEF f, g
<1>8. QED BY <1>2, <1>3, <1>6, <1>7, PairTold DEF m

LEMMA SpeedsTold ==
  ASSUME NEW v \in TickValues
  PROVE  LET values == values_of(decoded_to_delta(SpeedOf(v)))
         IN  TellsTick(values, v) /\ "navigation.speedThroughWater" \in DOMAIN values
<1> DEFINE m == SpeedOf(v)
           f == Opt("navigation.speedThroughWater", v.stw)
           g == Opt("navigation.speedOverGround", v.sog)
<1>1. /\ m.kind = "Speed" /\ m.speed_water_referenced = v.stw
      /\ m.speed_ground_referenced = v.sog
  BY DEF SpeedOf
<1> HIDE DEF m
<1>2. decoded_to_delta(m) = self_delta(from_speed(m)) BY <1>1 DEF decoded_to_delta
<1>3. from_speed(m) = f ++ g BY <1>1 DEF from_speed
<1>4. v.stw \in Speeds /\ v.sog \in Speeds BY TickIs
<1>5. /\ Truth(v)["navigation.speedThroughWater"] = v.stw
      /\ Truth(v)["navigation.speedOverGround"] = v.sog
  BY TruthIs
<1>6. TellsTick(f, v) /\ "navigation.speedThroughWater" \in DOMAIN f /\ f \in Tellings
  BY <1>4, <1>5, OnBothIs, ItselfTold
<1>7. TellsTick(g, v) /\ g \in Tellings BY <1>4, <1>5, OnBothIs, ItselfTold
<1> HIDE DEF f, g
<1>8. QED BY <1>2, <1>3, <1>6, <1>7, PairTold DEF m

LEMMA WindTold ==
  ASSUME NEW v \in TickValues
  PROVE  LET values == values_of(decoded_to_delta(WindOf(v)))
         IN  /\ TellsTick(values, v)
             /\ {"environment.wind.speedApparent", "environment.wind.angleApparent"}
                  \subseteq DOMAIN values
<1> DEFINE m == WindOf(v)
           w == <<"environment.wind.speedApparent", "environment.wind.angleApparent">>
           f == Opt("environment.wind.speedApparent", v.wind_speed)
           g == Opt("environment.wind.angleApparent", v.wind_angle)
<1>1. /\ m.kind = "WindData" /\ m.reference = "Apparent"
      /\ m.wind_speed = v.wind_speed /\ m.wind_angle = v.wind_angle
  BY DEF WindOf
<1> HIDE DEF m
<1>2. decoded_to_delta(m) = self_delta(from_wind_data(m)) BY <1>1 DEF decoded_to_delta
<1>3. WindPaths("Apparent") = w /\ w # Blank
      /\ w[1] = "environment.wind.speedApparent" /\ w[2] = "environment.wind.angleApparent"
  <2>1. w \in WirePaths \X WirePaths BY DEF WirePaths
  <2>2. QED BY <2>1, DeltaAssumption DEF WindPaths
<1> HIDE DEF w
<1>4. from_wind_data(m) = f ++ g BY <1>1, <1>3 DEF from_wind_data
<1>5. v.wind_speed \in Speeds /\ v.wind_angle \in Angles BY TickIs
<1>6. /\ Truth(v)["environment.wind.speedApparent"] = v.wind_speed
      /\ Truth(v)["environment.wind.angleApparent"] = v.wind_angle
  BY TruthIs
<1>7. TellsTick(f, v) /\ "environment.wind.speedApparent" \in DOMAIN f /\ f \in Tellings
  BY <1>5, <1>6, OnBothIs, ItselfTold
<1>8. TellsTick(g, v) /\ "environment.wind.angleApparent" \in DOMAIN g /\ g \in Tellings
  BY <1>5, <1>6, OnBothIs, ItselfTold
<1> HIDE DEF f, g
<1>9. QED BY <1>2, <1>4, <1>7, <1>8, PairTold DEF m

LEMMA DepthTold ==
  ASSUME NEW v \in TickValues
  PROVE  LET values == values_of(decoded_to_delta(DepthOf(v)))
         IN  TellsTick(values, v) /\ "environment.depth.belowTransducer" \in DOMAIN values
<1> DEFINE m == DepthOf(v)
           d == v.depth.n + 50
           f == Opt("environment.depth.belowTransducer", v.depth)
           g == Opt("environment.depth.belowSurface", Q(d, "m"))
<1>1. /\ m.kind = "WaterDepth" /\ m.depth = v.depth /\ m.offset = Q(50, "m")
  BY TickIs DEF DepthOf
<1> HIDE DEF m
<1>2. decoded_to_delta(m) = self_delta(from_water_depth(m)) BY <1>1 DEF decoded_to_delta
<1>3. v.depth \in Lengths BY TickIs
<1>4. v.depth.n \in Int /\ v.depth.unit = "m" BY <1>3 DEF Lengths
<1>5. v.depth # Blank BY <1>3, DepthClose
<1>6. Q(50, "m") # Blank /\ Q(50, "m").n = 50 /\ Q(50, "m").unit = "m"
  BY QuantityIs DEF UnitNames
<1>7. d \in Int /\ d = v.depth.n + 50 BY <1>4
<1> HIDE DEF d
<1>8. from_water_depth(m) = f ++ g
  <2> DEFINE o == Q(50, "m")
  <2>1. o # Blank /\ o.n = 50 /\ o.unit = "m" /\ m.offset = o BY <1>1, <1>6
  <2> HIDE DEF o
  <2>2. OffsetDepth(v.depth, o) = g BY <1>4, <1>7, <2>1 DEF OffsetDepth
  <2> HIDE DEF g
  <2>3. QED BY <1>1, <1>5, <2>1, <2>2 DEF from_water_depth
<1>9. Truth(v)["environment.depth.belowTransducer"] = v.depth BY TruthIs
<1>10. TellsTick(f, v) /\ "environment.depth.belowTransducer" \in DOMAIN f /\ f \in Tellings
  BY <1>3, <1>9, OnBothIs, ItselfTold
<1>11. TellsTick(g, v) BY TellsElsewhere DEF Elsewhere
<1>12. g \in Tellings
  <2>1. Q(d, "m") \in Quantities BY <1>7 DEF Quantities, UnitNames, Q
  <2>2. "environment.depth.belowSurface" \in WirePaths BY DEF WirePaths
  <2>3. QED BY <2>1, <2>2, TellingOpt
<1> HIDE DEF f, g
<1>13. QED BY <1>2, <1>8, <1>10, <1>11, <1>12, PairTold DEF m

-----------------------------------------------------------------------------
(* A whole output, and one that was cut short.                             *)

LEMMA ListedFour ==
  ASSUME NEW A, NEW a \in A, NEW b \in A, NEW c \in A, NEW d \in A
  PROVE  /\ <<a, b, c, d>> \in Seq(A)
         /\ \A x : Listed(<<a, b, c, d>>, x) <=> x \in {a, b, c, d}
<1> DEFINE list == <<a, b, c, d>>
<1>1. /\ list \in Seq(A) /\ DOMAIN list = {1, 2, 3, 4}
      /\ list[1] = a /\ list[2] = b /\ list[3] = c /\ list[4] = d
  OBVIOUS
<1> HIDE DEF list
<1>2. \A x : Listed(list, x) <=> x \in {a, b, c, d} BY <1>1 DEF Listed
<1>3. QED BY <1>1, <1>2 DEF list

LEMMA SentencesOfTick ==
  ASSUME NEW v, NEW minuteFull, NEW environment
  PROVE  /\ \E A : encode0183(v, minuteFull, environment) \in Seq(A)
         /\ \A x : Listed(encode0183(v, minuteFull, environment), x) <=>
              \/ x \in {RmcOf(v, minuteFull), GgaOf(v, minuteFull), HdgOf(v), VhwOf(v)}
              \/ environment /\ x \in {MwvOf(v), DbtOf(v), MtwOf(v), MdaOf(v)}
              \/ x = XdrOf(v)
<1> DEFINE rmc == RmcOf(v, minuteFull)  gga == GgaOf(v, minuteFull)
           hdg == HdgOf(v)  vhw == VhwOf(v)  mwv == MwvOf(v)  dbt == DbtOf(v)
           mtw == MtwOf(v)  mda == MdaOf(v)  xdr == XdrOf(v)
           A   == {rmc, gga, hdg, vhw, mwv, dbt, mtw, mda, xdr}
           l0  == <<rmc, gga, hdg, vhw>>
           l1  == IF ~environment THEN <<>> ELSE <<mwv, dbt, mtw, mda>>
           l2  == <<xdr>>
<1>1. encode0183(v, minuteFull, environment) = l0 \o l1 \o l2
  BY DEF encode0183, RmcOf, GgaOf, HdgOf, VhwOf, MwvOf, DbtOf, MtwOf, MdaOf, XdrOf
<1>2. /\ rmc \in A /\ gga \in A /\ hdg \in A /\ vhw \in A
      /\ mwv \in A /\ dbt \in A /\ mtw \in A /\ mda \in A /\ xdr \in A
  OBVIOUS
<1> HIDE DEF rmc, gga, hdg, vhw, mwv, dbt, mtw, mda, xdr, A
<1>3. l0 \in Seq(A) /\ \A x : Listed(l0, x) <=> x \in {rmc, gga, hdg, vhw}
  BY <1>2, ListedFour
<1>4. l1 \in Seq(A) /\ \A x : Listed(l1, x) <=> environment /\ x \in {mwv, dbt, mtw, mda}
  <2>1. CASE environment
    <3>1. l1 = <<mwv, dbt, mtw, mda>> BY <2>1
    <3>2. QED BY <1>2, <2>1, <3>1, ListedFour
  <2>2. CASE ~environment
    <3>1. l1 = <<>> BY <2>2
    <3>2. <<>> \in Seq(A) /\ DOMAIN <<>> = {} OBVIOUS
    <3>3. QED BY <2>2, <3>1, <3>2 DEF Listed
  <2>3. QED BY <2>1, <2>2
<1>5. l2 \in Seq(A) /\ \A x : Listed(l2, x) <=> x = xdr
  <2>1. l2 \in Seq(A) /\ DOMAIN l2 = {1} /\ l2[1] = xdr BY <1>2
  <2>2. QED BY <2>1 DEF Listed
<1> HIDE DEF l0, l1, l2
<1> DEFINE j1 == l0 \o l1
           j2 == j1 \o l2
<1>6. j1 \in Seq(A) /\ \A x : Listed(j1, x) <=> Listed(l0, x) \/ Listed(l1, x)
  BY <1>3, <1>4, ListedInBoth
<1>7. j2 \in Seq(A) /\ \A x : Listed(j2, x) <=> Listed(j1, x) \/ Listed(l2, x)
  <2> HIDE DEF j1
  <2>1. QED BY <1>5, <1>6, ListedInBoth
<1>8. encode0183(v, minuteFull, environment) = j2 BY <1>1
<1> HIDE DEF j1, j2
<1>9. \A x : Listed(j2, x) <=> \/ x \in {rmc, gga, hdg, vhw}
                               \/ environment /\ x \in {mwv, dbt, mtw, mda}
                               \/ x = xdr
  BY <1>3, <1>4, <1>5, <1>6, <1>7
<1>10. QED BY <1>7, <1>8, <1>9 DEF rmc, gga, hdg, vhw, mwv, dbt, mtw, mda, xdr

LEMMA MessagesOfTick ==
  ASSUME NEW v, NEW environment
  PROVE  /\ \E A : encode2000(v, environment) \in Seq(A)
         /\ \A x : Listed(encode2000(v, environment), x) <=>
              \/ x \in {PositionOf(v), CourseOf(v), HeadingOf(v), SpeedOf(v)}
              \/ environment /\ x \in {WindOf(v), DepthOf(v)}
<1> DEFINE p == PositionOf(v)  c == CourseOf(v)  h == HeadingOf(v)  s == SpeedOf(v)
           w == WindOf(v)  d == DepthOf(v)
           A  == {p, c, h, s, w, d}
           l0 == <<p, c, h, s>>
           l1 == IF ~environment THEN <<>> ELSE <<w, d>>
<1>1. encode2000(v, environment) = l0 \o l1
  BY DEF encode2000, PositionOf, CourseOf, HeadingOf, SpeedOf, WindOf, DepthOf
<1>2. p \in A /\ c \in A /\ h \in A /\ s \in A /\ w \in A /\ d \in A OBVIOUS
<1> HIDE DEF p, c, h, s, w, d, A
<1>3. l0 \in Seq(A) /\ \A x : Listed(l0, x) <=> x \in {p, c, h, s}
  BY <1>2, ListedFour
<1>4. l1 \in Seq(A) /\ \A x : Listed(l1, x) <=> environment /\ x \in {w, d}
  <2>1. CASE environment
    <3> DEFINE two == <<w, d>>
    <3>1. two \in Seq(A) /\ DOMAIN two = {1, 2} /\ two[1] = w /\ two[2] = d BY <1>2
    <3>2. l1 = two BY <2>1
    <3> HIDE DEF two
    <3>3. QED BY <2>1, <3>1, <3>2 DEF Listed
  <2>2. CASE ~environment
    <3>1. l1 = <<>> BY <2>2
    <3>2. <<>> \in Seq(A) /\ DOMAIN <<>> = {} OBVIOUS
    <3>3. QED BY <2>2, <3>1, <3>2 DEF Listed
  <2>3. QED BY <2>1, <2>2
<1> HIDE DEF l0, l1
<1> DEFINE j == l0 \o l1
<1>5. j \in Seq(A) /\ \A x : Listed(j, x) <=> Listed(l0, x) \/ Listed(l1, x)
  BY <1>3, <1>4, ListedInBoth
<1>6. encode2000(v, environment) = j BY <1>1
<1> HIDE DEF j
<1>7. \A x : Listed(j, x) <=> x \in {p, c, h, s} \/ (environment /\ x \in {w, d})
  BY <1>3, <1>4, <1>5
<1>8. QED BY <1>5, <1>6, <1>7 DEF p, c, h, s, w, d

LEMMA CutIs ==
  ASSUME NEW A, NEW list \in Seq(A), NEW sent \in Cuts(list)
  PROVE  /\ sent \in Nat /\ sent <= Len(list)
         /\ DOMAIN SubSeq(list, 1, sent) = 1 .. sent
         /\ \A i \in 1 .. sent : SubSeq(list, 1, sent)[i] = list[i] /\ i \in DOMAIN list
<1>1. Len(list) \in Nat /\ DOMAIN list = 1 .. Len(list) OBVIOUS
<1> DEFINE n == Len(list)
<1>2. sent \in {0, n \div 2, n} /\ n \in Nat BY <1>1 DEF Cuts
<1> HIDE DEF n
<1>3. sent \in Nat /\ sent <= n BY <1>2, SMT
<1>4. QED BY <1>1, <1>3 DEF n

LEMMA HeardOfTick ==
  ASSUME NEW deltas, NEW n \in Nat, DOMAIN deltas = 1 .. n, NEW v,
         \A i \in 1 .. n : TellsTick(deltas[i], v)
  PROVE  /\ TellsTick(Merged(deltas), v)
         /\ \A i \in 1 .. n : DOMAIN deltas[i] \subseteq DOMAIN Merged(deltas)
  BY MergedTells DEF TellsTick

LEMMA CutSentences ==
  ASSUME NEW A, NEW list \in Seq(A), NEW sent \in Cuts(list), NEW v,
         \A x : Listed(list, x) => TellsTick(sentence_to_delta(x), v)
  PROVE  LET heard == Heard183(SubSeq(list, 1, sent))
         IN  /\ TellsTick(heard, v)
             /\ sent = Len(list) =>
                  \A x : Listed(list, x) => DOMAIN sentence_to_delta(x) \subseteq DOMAIN heard
<1> DEFINE cut == SubSeq(list, 1, sent)
           deltas == [i \in DOMAIN cut |-> sentence_to_delta(cut[i])]
<1>1. /\ sent \in Nat /\ DOMAIN cut = 1 .. sent /\ DOMAIN list = 1 .. Len(list)
      /\ \A i \in 1 .. sent : cut[i] = list[i] /\ i \in DOMAIN list
  BY CutIs
<1> HIDE DEF cut
<1>2. /\ DOMAIN deltas = 1 .. sent
      /\ \A i \in 1 .. sent : deltas[i] = sentence_to_delta(list[i])
  BY <1>1
<1>3. Heard183(cut) = Merged(deltas) BY DEF Heard183
<1> HIDE DEF deltas
<1>4. \A i \in 1 .. sent : TellsTick(deltas[i], v) BY <1>1, <1>2 DEF Listed
<1>5. /\ TellsTick(Merged(deltas), v)
      /\ \A i \in 1 .. sent : DOMAIN deltas[i] \subseteq DOMAIN Merged(deltas)
  BY <1>1, <1>2, <1>4, HeardOfTick
<1>6. ASSUME sent = Len(list), NEW x, Listed(list, x)
      PROVE  DOMAIN sentence_to_delta(x) \subseteq DOMAIN Merged(deltas)
  <2>1. PICK i \in 1 .. sent : list[i] = x BY <1>1, <1>6 DEF Listed
  <2>2. QED BY <2>1, <1>2, <1>5
<1>7. QED BY <1>3, <1>5, <1>6 DEF cut

LEMMA CutMessages ==
  ASSUME NEW A, NEW list \in Seq(A), NEW sent \in Cuts(list), NEW v,
         \A x : Listed(list, x) => TellsTick(values_of(decoded_to_delta(x)), v)
  PROVE  LET heard == Heard2000(SubSeq(list, 1, sent))
         IN  /\ TellsTick(heard, v)
             /\ sent = Len(list) =>
                  \A x : Listed(list, x) =>
                    DOMAIN values_of(decoded_to_delta(x)) \subseteq DOMAIN heard
<1> DEFINE cut == SubSeq(list, 1, sent)
           deltas == [i \in DOMAIN cut |-> values_of(decoded_to_delta(cut[i]))]
<1>1. /\ sent \in Nat /\ DOMAIN cut = 1 .. sent /\ DOMAIN list = 1 .. Len(list)
      /\ \A i \in 1 .. sent : cut[i] = list[i] /\ i \in DOMAIN list
  BY CutIs
<1> HIDE DEF cut
<1>2. /\ DOMAIN deltas = 1 .. sent
      /\ \A i \in 1 .. sent : deltas[i] = values_of(decoded_to_delta(list[i]))
  BY <1>1
<1>3. Heard2000(cut) = Merged(deltas) BY DEF Heard2000
<1> HIDE DEF deltas
<1>4. \A i \in 1 .. sent : TellsTick(deltas[i], v) BY <1>1, <1>2 DEF Listed
<1>5. /\ TellsTick(Merged(deltas), v)
      /\ \A i \in 1 .. sent : DOMAIN deltas[i] \subseteq DOMAIN Merged(deltas)
  BY <1>1, <1>2, <1>4, HeardOfTick
<1>6. ASSUME sent = Len(list), NEW x, Listed(list, x)
      PROVE  DOMAIN values_of(decoded_to_delta(x)) \subseteq DOMAIN Merged(deltas)
  <2>1. PICK i \in 1 .. sent : list[i] = x BY <1>1, <1>6 DEF Listed
  <2>2. QED BY <2>1, <1>2, <1>5
<1>7. QED BY <1>3, <1>5, <1>6 DEF cut

(* What is heard of a tick's sentences, and of its messages.               *)
LEMMA TickHeard183 ==
  ASSUME NEW v \in TickValues, NEW minuteFull \in BOOLEAN, NEW environment \in BOOLEAN,
         NEW sent \in Cuts(encode0183(v, minuteFull, environment))
  PROVE  LET list  == encode0183(v, minuteFull, environment)
             heard == Heard183(SubSeq(list, 1, sent))
         IN  /\ TellsTick(heard, v)
             /\ sent = Len(list) /\ ~minuteFull =>
                  \A p \in OnSentences : (p \in Surroundings => environment) => p \in DOMAIN heard
<1> DEFINE list  == encode0183(v, minuteFull, environment)
           heard == Heard183(SubSeq(list, 1, sent))
           tells(x) == DOMAIN sentence_to_delta(x)
<1>1. PICK A : list \in Seq(A) BY SentencesOfTick
<1>2. \A x : Listed(list, x) <=>
        \/ x \in {RmcOf(v, minuteFull), GgaOf(v, minuteFull), HdgOf(v), VhwOf(v)}
        \/ environment /\ x \in {MwvOf(v), DbtOf(v), MtwOf(v), MdaOf(v)}
        \/ x = XdrOf(v)
  BY SentencesOfTick
<1> HIDE DEF list
<1>3. ASSUME NEW x, Listed(list, x) PROVE TellsTick(sentence_to_delta(x), v)
  BY <1>2, <1>3, RmcTold, GgaTold, HdgTold, VhwTold, MwvTold, DbtTold, MtwTold, MdaTold, XdrTold
<1>4. /\ TellsTick(heard, v)
      /\ sent = Len(list) => \A x : Listed(list, x) => tells(x) \subseteq DOMAIN heard
  BY <1>1, <1>3, CutSentences DEF list
<1> HIDE DEF heard
<1>5. ASSUME sent = Len(list), ~minuteFull, NEW p \in OnSentences, p \in Surroundings => environment
      PROVE  p \in DOMAIN heard
  <2>1. \A x : Listed(list, x) => tells(x) \subseteq DOMAIN heard BY <1>4, <1>5
  <2>2. CASE p \in {"navigation.position", "navigation.speedOverGround",
                    "navigation.courseOverGroundTrue", "navigation.magneticVariation"}
    <3>1. p \in tells(RmcOf(v, minuteFull)) BY <1>5, <2>2, RmcTold
    <3>2. Listed(list, RmcOf(v, minuteFull)) BY <1>2
    <3> HIDE DEF tells
    <3>3. QED BY <2>1, <3>1, <3>2
  <2>3. CASE p = "navigation.headingMagnetic"
    <3>1. p \in tells(HdgOf(v)) BY <2>3, HdgTold
    <3>2. Listed(list, HdgOf(v)) BY <1>2
    <3> HIDE DEF tells
    <3>3. QED BY <2>1, <3>1, <3>2
  <2>4. CASE p = "navigation.speedThroughWater"
    <3>1. p \in tells(VhwOf(v)) BY <2>4, VhwTold
    <3>2. Listed(list, VhwOf(v)) BY <1>2
    <3> HIDE DEF tells
    <3>3. QED BY <2>1, <3>1, <3>2
  <2>5. CASE p = "navigation.attitude"
    <3>1. p \in tells(XdrOf(v)) BY <2>5, XdrTold
    <3>2. Listed(list, XdrOf(v)) BY <1>2
    <3> HIDE DEF tells
    <3>3. QED BY <2>1, <3>1, <3>2
  <2>6. CASE p \in Surroundings
    <3>1. environment BY <1>5, <2>6
    <3>2. CASE p \in {"environment.wind.angleApparent", "environment.wind.speedApparent"}
      <4>1. p \in tells(MwvOf(v)) BY <3>2, MwvTold
      <4>2. Listed(list, MwvOf(v)) BY <1>2, <3>1
      <4> HIDE DEF tells
      <4>3. QED BY <2>1, <4>1, <4>2
    <3>3. CASE p = "environment.depth.belowTransducer"
      <4>1. p \in tells(DbtOf(v)) BY <3>3, DbtTold
      <4>2. Listed(list, DbtOf(v)) BY <1>2, <3>1
      <4> HIDE DEF tells
      <4>3. QED BY <2>1, <4>1, <4>2
    <3>4. CASE p = "environment.water.temperature"
      <4>1. p \in tells(MtwOf(v)) BY <3>4, MtwTold
      <4>2. Listed(list, MtwOf(v)) BY <1>2, <3>1
      <4> HIDE DEF tells
      <4>3. QED BY <2>1, <4>1, <4>2
    <3>5. CASE p \in {"environment.outside.temperature", "environment.outside.pressure",
                      "environment.outside.humidity"}
      <4>1. p \in tells(MdaOf(v)) BY <3>5, MdaTold
      <4>2. Listed(list, MdaOf(v)) BY <1>2, <3>1
      <4> HIDE DEF tells
      <4>3. QED BY <2>1, <4>1, <4>2
    <3>6. QED BY <2>6, <3>2, <3>3, <3>4, <3>5 DEF Surroundings
  <2>7. p \in {"navigation.position", "navigation.speedOverGround",
               "navigation.courseOverGroundTrue", "navigation.magneticVariation",
               "navigation.headingMagnetic", "navigation.speedThroughWater",
               "navigation.attitude"} \cup Surroundings
    BY DEF OnSentences, OnBoth, Surroundings
  <2>8. QED BY <2>2, <2>3, <2>4, <2>5, <2>6, <2>7
<1>6. QED BY <1>4, <1>5 DEF heard, list

LEMMA TickHeard2000 ==
  ASSUME NEW v \in TickValues, NEW environment \in BOOLEAN,
         NEW sent \in Cuts(encode2000(v, environment))
  PROVE  LET list  == encode2000(v, environment)
             heard == Heard2000(SubSeq(list, 1, sent))
         IN  /\ TellsTick(heard, v)
             /\ sent = Len(list) =>
                  \A p \in OnBoth : (p \in Surroundings => environment) => p \in DOMAIN heard
<1> DEFINE list  == encode2000(v, environment)
           heard == Heard2000(SubSeq(list, 1, sent))
           tells(x) == DOMAIN values_of(decoded_to_delta(x))
<1>1. PICK A : list \in Seq(A) BY MessagesOfTick
<1>2. \A x : Listed(list, x) <=>
        \/ x \in {PositionOf(v), CourseOf(v), HeadingOf(v), SpeedOf(v)}
        \/ environment /\ x \in {WindOf(v), DepthOf(v)}
  BY MessagesOfTick
<1> HIDE DEF list
<1>3. ASSUME NEW x, Listed(list, x) PROVE TellsTick(values_of(decoded_to_delta(x)), v)
  BY <1>2, <1>3, PositionTold, CourseTold, HeadingTold, SpeedsTold, WindTold, DepthTold
<1>4. /\ TellsTick(heard, v)
      /\ sent = Len(list) => \A x : Listed(list, x) => tells(x) \subseteq DOMAIN heard
  BY <1>1, <1>3, CutMessages DEF list
<1> HIDE DEF heard
<1>5. ASSUME sent = Len(list), NEW p \in OnBoth, p \in Surroundings => environment
      PROVE  p \in DOMAIN heard
  <2>1. \A x : Listed(list, x) => tells(x) \subseteq DOMAIN heard BY <1>4, <1>5
  <2>2. CASE p = "navigation.position"
    <3>1. p \in tells(PositionOf(v)) BY <2>2, PositionTold
    <3>2. Listed(list, PositionOf(v)) BY <1>2
    <3> HIDE DEF tells
    <3>3. QED BY <2>1, <3>1, <3>2
  <2>3. CASE p \in {"navigation.courseOverGroundTrue", "navigation.speedOverGround"}
    <3>1. p \in tells(CourseOf(v)) BY <2>3, CourseTold
    <3>2. Listed(list, CourseOf(v)) BY <1>2
    <3> HIDE DEF tells
    <3>3. QED BY <2>1, <3>1, <3>2
  <2>4. CASE p \in {"navigation.headingMagnetic", "navigation.magneticVariation"}
    <3>1. p \in tells(HeadingOf(v)) BY <2>4, HeadingTold
    <3>2. Listed(list, HeadingOf(v)) BY <1>2
    <3> HIDE DEF tells
    <3>3. QED BY <2>1, <3>1, <3>2
  <2>5. CASE p = "navigation.speedThroughWater"
    <3>1. p \in tells(SpeedOf(v)) BY <2>5, SpeedsTold
    <3>2. Listed(list, SpeedOf(v)) BY <1>2
    <3> HIDE DEF tells
    <3>3. QED BY <2>1, <3>1, <3>2
  <2>6. CASE p \in {"environment.wind.speedApparent", "environment.wind.angleApparent"}
    <3>1. p \in tells(WindOf(v)) BY <2>6, WindTold
    <3>2. environment BY <1>5, <2>6 DEF Surroundings
    <3>3. Listed(list, WindOf(v)) BY <1>2, <3>2
    <3> HIDE DEF tells
    <3>4. QED BY <2>1, <3>1, <3>3
  <2>7. CASE p = "environment.depth.belowTransducer"
    <3>1. p \in tells(DepthOf(v)) BY <2>7, DepthTold
    <3>2. environment BY <1>5, <2>7 DEF Surroundings
    <3>3. Listed(list, DepthOf(v)) BY <1>2, <3>2
    <3> HIDE DEF tells
    <3>4. QED BY <2>1, <3>1, <3>3
  <2>8. QED BY <2>2, <2>3, <2>4, <2>5, <2>6, <2>7 DEF OnBoth
<1>6. QED BY <1>4, <1>5 DEF heard, list

(* Whatever is close to the tick is close to what was told directly of it. *)
LEMMA HeardAgrees ==
  ASSUME NEW v, NEW environment, NEW direct, TellsTruth(direct, v, environment),
         NEW values, TellsTick(values, v), NEW paths \in SUBSET OnSentences, NEW whole,
         whole => \A p \in paths : (p \in Surroundings => environment) => p \in DOMAIN values
  PROVE  /\ whole => paths \cap DOMAIN direct \subseteq DOMAIN values
         /\ \A p \in DOMAIN values \cap DOMAIN direct :
              p = "navigation.datetime" \/ Close(values[p], direct[p])
  BY DEF TellsTruth, TellsTick

-----------------------------------------------------------------------------
(* Whichever way the ticks reach the store.                                *)

TickMessages == {encode2000(x[1], x[2]) : x \in TickValues \X BOOLEAN}
Entries == [tick : Nat, pgns : TickMessages]
BusWriters == [at : {"none", "opens", "writes"}, queue : Seq(Entries), open : BOOLEAN]

(* It was told, or heard, at a tick there was.                             *)
OfTick(tick) == tick \in Nat /\ tick <= simTicks /\ (sim = "direct" => tick < simTicks)

(* What waits to be sent at the tick that was told last is of its values.  *)
SameTick(entry) ==
  entry.tick = toldDirect.tick /\ entry.tick > 0 =>
    \E v \in TickValues, environment \in BOOLEAN :
      /\ entry.pgns = encode2000(v, environment)
      /\ toldDirect.values = build_delta(v, environment)

SimInv ==
  /\ simTicks \in Nat
  /\ OfTick(toldDirect.tick) /\ OfTick(heard0183.tick) /\ OfTick(heard2000.tick)
  /\ sim \in {"direct", "sentences", "pgns"} => simulated \in TickValues
  /\ sim \in {"sentences", "pgns"} /\ toldDirect.tick = simTicks /\ simTicks > 0 =>
       toldDirect.values = build_delta(simulated, Has("environment"))
  /\ writers \in [1 .. MaxSimStarts -> BusWriters]
  /\ \A g \in 1 .. MaxSimStarts : \A entry :
       Listed(writers[g].queue, entry) => OfTick(entry.tick) /\ SameTick(entry)

LEMMA QueueIs ==
  ASSUME NEW A, NEW queue \in Seq(A), NEW entry \in A
  PROVE  /\ Append(queue, entry) \in Seq(A)
         /\ \A x : Listed(Append(queue, entry), x) => Listed(queue, x) \/ x = entry
<1>1. /\ Append(queue, entry) \in Seq(A) /\ DOMAIN queue = 1 .. Len(queue)
      /\ Len(queue) \in Nat
      /\ DOMAIN Append(queue, entry) = 1 .. Len(queue) + 1
      /\ \A i \in 1 .. Len(queue) : Append(queue, entry)[i] = queue[i]
      /\ Append(queue, entry)[Len(queue) + 1] = entry
  OBVIOUS
<1>2. \A i \in 1 .. Len(queue) + 1 : i \in 1 .. Len(queue) \/ i = Len(queue) + 1
  BY <1>1
<1>3. QED BY <1>1, <1>2 DEF Listed

LEMMA QueueRest ==
  ASSUME NEW A, NEW queue \in Seq(A), queue # <<>>
  PROVE  /\ Head(queue) \in A /\ Listed(queue, Head(queue))
         /\ Tail(queue) \in Seq(A)
         /\ \A x : Listed(Tail(queue), x) => Listed(queue, x)
<1>1. /\ Tail(queue) \in Seq(A) /\ DOMAIN queue = 1 .. Len(queue)
      /\ Len(queue) \in Nat /\ Len(queue) > 0
      /\ DOMAIN Tail(queue) = 1 .. Len(queue) - 1
      /\ \A i \in 1 .. Len(queue) - 1 : Tail(queue)[i] = queue[i + 1]
      /\ Head(queue) = queue[1] /\ queue[1] \in A
  OBVIOUS
<1>2. \A i \in 1 .. Len(queue) - 1 : i + 1 \in 1 .. Len(queue) BY <1>1
<1>3. 1 \in DOMAIN queue BY <1>1
<1>4. QED BY <1>1, <1>2, <1>3 DEF Listed

LEMMA HasIs == Has("environment") \in BOOLEAN
  BY DEF Has

LEMMA OnBothSent == OnBoth \in SUBSET OnSentences /\ OnSentences \in SUBSET OnSentences
  BY DEF OnSentences

(* OutputsAgree: what the receivers make of the sentences and of the       *)
(* messages of a tick is what the store was told directly of it.           *)
THEOREM OutputsAlwaysAgree == SimSpec => []OutputsAgree
<1>1. SimInit => SimInv /\ OutputsAgree
  <2> SUFFICES ASSUME SimInit PROVE SimInv /\ OutputsAgree
    OBVIOUS
  <2>1. /\ simTicks = 0 /\ sim = "off" /\ toldDirect.tick = 0 /\ heard0183.tick = 0
        /\ heard2000.tick = 0 /\ writers = [g \in 1 .. MaxSimStarts |-> NoWriter]
    BY DEF SimInit, Untold
  <2>2. NoWriter \in BusWriters /\ NoWriter.queue = <<>> BY DEF NoWriter, BusWriters
  <2>3. \A entry : ~Listed(<<>>, entry) BY DEF Listed
  <2>4. SimInv BY <2>1, <2>2, <2>3 DEF SimInv, OfTick
  <2>5. OutputsAgree BY <2>1 DEF OutputsAgree, Agrees
  <2>6. QED BY <2>4, <2>5
<1>2. SimInv /\ OutputsAgree /\ [SimNext]_simVars => SimInv' /\ OutputsAgree'
  <2> SUFFICES ASSUME SimInv, OutputsAgree, [SimNext]_simVars PROVE SimInv' /\ OutputsAgree'
    OBVIOUS
  <2>1. CASE StartSim
    <3>1. /\ sim' = "waits"
          /\ UNCHANGED <<simulated, toldDirect, heard0183, heard2000, simTicks>>
      BY <2>1 DEF StartSim
    <3>2. /\ writers' \in [1 .. MaxSimStarts -> BusWriters]
          /\ \A g \in 1 .. MaxSimStarts : writers'[g].queue = writers[g].queue
      BY <2>1 DEF StartSim, SimInv, BusWriters
    <3>3. QED BY <3>1, <3>2 DEF SimInv, OfTick, SameTick, OutputsAgree, Agrees
  <2>2. CASE StopSim
    <3>1. /\ sim' = "off"
          /\ UNCHANGED <<simulated, toldDirect, heard0183, heard2000, simTicks>>
      BY <2>2 DEF StopSim
    <3>2. /\ writers' \in [1 .. MaxSimStarts -> BusWriters]
          /\ \A g \in 1 .. MaxSimStarts : writers'[g].queue = writers[g].queue
      BY <2>2 DEF StopSim, SimInv, BusWriters
    <3>3. QED BY <3>1, <3>2 DEF SimInv, OfTick, SameTick, OutputsAgree, Agrees
  <2>3. CASE SimTick
    <3>1. /\ sim' = "direct" /\ simTicks' = simTicks + 1
          /\ UNCHANGED <<outputs, writers, toldDirect, heard0183, heard2000>>
      BY <2>3 DEF SimTick
    <3>2. simulated' \in TickValues
      <4>1. Has("propulsion") \in BOOLEAN BY DEF Has
      <4>2. QED BY <2>3, <4>1 DEF SimTick, TickValues
    <3>3. \A tick : OfTick(tick) => OfTick(tick)'
      BY <3>1 DEF OfTick, SimInv
    <3>4. QED BY <3>1, <3>2, <3>3 DEF SimInv, OfTick, SameTick, OutputsAgree, Agrees
  <2>4. CASE EmitDirect
    <3>1. /\ sim = "direct" /\ sim' = "sentences"
          /\ UNCHANGED <<outputs, simulated, writers, heard0183, heard2000, simTicks>>
          /\ IF ~Has("direct") THEN toldDirect' = toldDirect
             ELSE /\ toldDirect'.tick = simTicks
                  /\ toldDirect'.values = build_delta(simulated, Has("environment"))
      BY <2>4 DEF EmitDirect
    <3>2. Has("environment")' = Has("environment") BY <3>1 DEF Has
    <3>3. \A tick : OfTick(tick) => OfTick(tick)' /\ tick # simTicks
      BY <3>1 DEF OfTick, SimInv
    <3>4. OfTick(toldDirect.tick)' BY <3>1, <3>3 DEF SimInv, OfTick
    <3>5. ASSUME NEW entry, OfTick(entry.tick), SameTick(entry) PROVE SameTick(entry)'
      BY <3>1, <3>3, <3>5 DEF SameTick
    <3>6. SimInv' BY <3>1, <3>2, <3>3, <3>4, <3>5 DEF SimInv
    <3>7. OutputsAgree'
      BY <3>1, <3>3 DEF SimInv, OutputsAgree, Agrees
    <3>8. QED BY <3>6, <3>7
  <2>5. CASE SendSentences
    <3> DEFINE e == Has("environment")
               list(full) == encode0183(simulated, full, e)
    <3>1. /\ sim = "sentences" /\ sim' = "pgns"
          /\ UNCHANGED <<outputs, simulated, writers, toldDirect, heard2000, simTicks>>
      BY <2>5 DEF SendSentences
    <3>2. \/ heard0183' = heard0183
          \/ \E full \in BOOLEAN : \E sent \in Cuts(list(full)) :
               heard0183' = [tick |-> simTicks, values |-> Heard183(SubSeq(list(full), 1, sent)),
                             whole |-> sent = Len(list(full)) /\ ~full]
      BY <2>5 DEF SendSentences
    <3>3. Has("environment")' = Has("environment") BY <3>1 DEF Has
    <3>4. \A tick : OfTick(tick) => OfTick(tick)' BY <3>1 DEF OfTick
    <3>5. OfTick(simTicks)' BY <3>1 DEF OfTick, SimInv
    <3>6. OfTick(heard0183.tick)' BY <3>1, <3>2, <3>4, <3>5 DEF SimInv
    <3>7. SimInv' BY <3>1, <3>3, <3>4, <3>6 DEF SimInv, SameTick
    <3>8. Agrees(heard0183, OnSentences)'
      <4>1. CASE heard0183' = heard0183
        BY <3>1, <4>1 DEF OutputsAgree, Agrees
      <4>2. ASSUME NEW full \in BOOLEAN, NEW sent \in Cuts(list(full)),
                   heard0183' = [tick |-> simTicks,
                                 values |-> Heard183(SubSeq(list(full), 1, sent)),
                                 whole |-> sent = Len(list(full)) /\ ~full]
            PROVE  Agrees(heard0183, OnSentences)'
        <5> DEFINE heard == Heard183(SubSeq(list(full), 1, sent))
        <5>1. /\ heard0183'.tick = simTicks /\ heard0183'.values = heard
              /\ heard0183'.whole = (sent = Len(list(full)) /\ ~full)
          BY <4>2
        <5>2. simulated \in TickValues /\ e \in BOOLEAN BY <3>1, HasIs DEF SimInv
        <5>3. /\ TellsTick(heard, simulated)
              /\ heard0183'.whole =>
                   \A p \in OnSentences : (p \in Surroundings => e) => p \in DOMAIN heard
          BY <4>2, <5>1, <5>2, TickHeard183
        <5> HIDE DEF heard, e, list
        <5>4. SUFFICES ASSUME simTicks = toldDirect.tick, simTicks > 0
                       PROVE  /\ heard0183'.whole =>
                                   OnSentences \cap DOMAIN toldDirect.values \subseteq DOMAIN heard
                              /\ \A p \in DOMAIN heard \cap DOMAIN toldDirect.values :
                                   \/ p = "navigation.datetime"
                                   \/ Close(heard[p], toldDirect.values[p])
          BY <3>1, <5>1 DEF Agrees
        <5>5. toldDirect.values = build_delta(simulated, e)
          BY <3>1, <5>4 DEF SimInv, e
        <5>6. TellsTruth(toldDirect.values, simulated, e) BY <5>2, <5>5, DirectTellsTruth
        <5>7. QED BY <5>3, <5>6, HeardAgrees, OnBothSent
      <4>3. QED BY <3>2, <4>1, <4>2
    <3>9. Agrees(heard2000, OnBoth)' BY <3>1 DEF OutputsAgree, Agrees
    <3>10. QED BY <3>7, <3>8, <3>9 DEF OutputsAgree
  <2>6. CASE QueuePgns
    <3> DEFINE e == Has("environment")
               entry == [tick |-> simTicks, pgns |-> encode2000(simulated, e)]
    <3>1. /\ sim = "pgns" /\ sim' = "waits"
          /\ UNCHANGED <<outputs, toldDirect, heard0183, heard2000, simTicks>>
          /\ \/ writers' = writers
             \/ writers' = [writers EXCEPT ![simStarts].queue = Append(@, entry)]
      BY <2>6 DEF QueuePgns
    <3>2. simulated \in TickValues /\ e \in BOOLEAN BY <3>1, HasIs DEF SimInv
    <3>3. entry \in Entries /\ entry.tick = simTicks /\ entry.pgns = encode2000(simulated, e)
      <4>1. <<simulated, e>> \in TickValues \X BOOLEAN BY <3>2
      <4>2. encode2000(simulated, e) \in TickMessages BY <4>1 DEF TickMessages
      <4>3. QED BY <4>2 DEF Entries, SimInv
    <3>4. \A tick : OfTick(tick) => OfTick(tick)' BY <3>1 DEF OfTick
    <3>5. OfTick(simTicks)' BY <3>1 DEF OfTick, SimInv
    <3>6. SameTick(entry)
      BY <3>1, <3>2, <3>3 DEF SimInv, SameTick
    <3> HIDE DEF entry, e
    <3>7. ASSUME NEW g \in 1 .. MaxSimStarts
          PROVE  /\ writers'[g] \in BusWriters
                 /\ \A x : Listed(writers'[g].queue, x) => Listed(writers[g].queue, x) \/ x = entry
      <4> DEFINE w == writers[g]  q == w.queue
      <4>1. w \in BusWriters /\ q \in Seq(Entries) BY DEF SimInv, BusWriters
      <4>2. CASE writers'[g] = w BY <4>1, <4>2
      <4>3. CASE writers'[g] = [w EXCEPT !.queue = Append(q, entry)]
        <5>1. /\ Append(q, entry) \in Seq(Entries)
              /\ \A x : Listed(Append(q, entry), x) => Listed(q, x) \/ x = entry
          BY <4>1, <3>3, QueueIs
        <5>2. writers'[g] \in BusWriters /\ writers'[g].queue = Append(q, entry)
          BY <4>1, <4>3, <5>1 DEF BusWriters
        <5>3. QED BY <5>1, <5>2
      <4>4. QED BY <3>1, <4>2, <4>3 DEF SimInv
    <3>8. writers' \in [1 .. MaxSimStarts -> BusWriters]
      <4>1. writers \in [1 .. MaxSimStarts -> BusWriters] BY DEF SimInv
      <4>2. DOMAIN writers' = 1 .. MaxSimStarts /\ writers' = [g \in DOMAIN writers' |-> writers'[g]]
        BY <3>1, <4>1
      <4>3. QED BY <3>7, <4>2
    <3>9. \A x : SameTick(x) => SameTick(x)' BY <3>1 DEF SameTick
    <3>10. SimInv' BY <3>1, <3>3, <3>4, <3>5, <3>6, <3>7, <3>8, <3>9 DEF SimInv
    <3>11. OutputsAgree' BY <3>1 DEF OutputsAgree, Agrees
    <3>12. QED BY <3>10, <3>11
  <2>7. ASSUME NEW g \in 1 .. MaxSimStarts, OpenBusWriter(g) PROVE SimInv' /\ OutputsAgree'
    <3>1. UNCHANGED <<sim, outputs, simulated, toldDirect, heard0183, heard2000, simTicks>>
      BY <2>7 DEF OpenBusWriter
    <3>2. /\ writers' \in [1 .. MaxSimStarts -> BusWriters]
          /\ \A i \in 1 .. MaxSimStarts : writers'[i].queue = writers[i].queue
      BY <2>7 DEF OpenBusWriter, SimInv, BusWriters
    <3>3. QED BY <3>1, <3>2 DEF SimInv, OfTick, SameTick, Has, OutputsAgree, Agrees
  <2>8. ASSUME NEW g \in 1 .. MaxSimStarts, WritePgns(g) PROVE SimInv' /\ OutputsAgree'
    <3> DEFINE q    == writers[g].queue
               next == Head(q)
    <3>1. /\ q # <<>> /\ writers' = [writers EXCEPT ![g].queue = Tail(@)]
          /\ UNCHANGED <<sim, outputs, simulated, toldDirect, heard0183, simTicks>>
      BY <2>8 DEF WritePgns
    <3>2. PICK sent \in Cuts(next.pgns) :
            heard2000' = [tick |-> next.tick, values |-> Heard2000(SubSeq(next.pgns, 1, sent)),
                          whole |-> sent = Len(next.pgns)]
      BY <2>8 DEF WritePgns
    <3>3. writers[g] \in BusWriters /\ q \in Seq(Entries) BY DEF SimInv, BusWriters
    <3>4. /\ next \in Entries /\ Listed(q, next) /\ Tail(q) \in Seq(Entries)
          /\ \A x : Listed(Tail(q), x) => Listed(q, x)
      BY <3>1, <3>3, QueueRest
    <3>5. /\ writers' \in [1 .. MaxSimStarts -> BusWriters]
          /\ \A i \in 1 .. MaxSimStarts : \A x :
               Listed(writers'[i].queue, x) => Listed(writers[i].queue, x)
      <4>1. /\ [writers[g] EXCEPT !.queue = Tail(q)] \in BusWriters
            /\ [writers[g] EXCEPT !.queue = Tail(q)].queue = Tail(q)
        BY <3>3, <3>4 DEF BusWriters
      <4>2. writers \in [1 .. MaxSimStarts -> BusWriters] BY DEF SimInv
      <4>3. /\ writers' \in [1 .. MaxSimStarts -> BusWriters]
            /\ writers'[g].queue = Tail(q)
            /\ \A i \in 1 .. MaxSimStarts : i # g => writers'[i] = writers[i]
        BY <3>1, <4>1, <4>2
      <4>4. QED BY <3>4, <4>3
    <3>6. OfTick(next.tick) /\ SameTick(next) BY <3>4 DEF SimInv
    <3>7. \A tick : OfTick(tick) => OfTick(tick)' BY <3>1 DEF OfTick
    <3> HIDE DEF q, next
    <3>8. OfTick(heard2000.tick)' BY <3>2, <3>6, <3>7
    <3>9. SimInv' BY <3>1, <3>5, <3>7, <3>8 DEF SimInv, SameTick, Has
    <3>10. Agrees(heard2000, OnBoth)'
      <4> DEFINE heard == Heard2000(SubSeq(next.pgns, 1, sent))
      <4>1. /\ heard2000'.tick = next.tick /\ heard2000'.values = heard
            /\ heard2000'.whole = (sent = Len(next.pgns))
        BY <3>2
      <4>2. SUFFICES ASSUME next.tick = toldDirect.tick, next.tick > 0
                     PROVE  /\ heard2000'.whole =>
                                 OnBoth \cap DOMAIN toldDirect.values \subseteq DOMAIN heard
                            /\ \A p \in DOMAIN heard \cap DOMAIN toldDirect.values :
                                 \/ p = "navigation.datetime"
                                 \/ Close(heard[p], toldDirect.values[p])
        <5> HIDE DEF heard
        <5>1. QED BY <3>1, <4>1 DEF Agrees
      <4>3. PICK v \in TickValues, e \in BOOLEAN :
              next.pgns = encode2000(v, e) /\ toldDirect.values = build_delta(v, e)
        BY <3>6, <4>2 DEF SameTick
      <4>4. sent \in Cuts(encode2000(v, e)) BY <3>2, <4>3
      <4>5. /\ TellsTick(heard, v)
            /\ heard2000'.whole =>
                 \A p \in OnBoth : (p \in Surroundings => e) => p \in DOMAIN heard
        <5> DEFINE list == encode2000(v, e)
        <5>1. heard = Heard2000(SubSeq(list, 1, sent)) /\ heard2000'.whole = (sent = Len(list))
          BY <4>1, <4>3
        <5>2. /\ TellsTick(Heard2000(SubSeq(list, 1, sent)), v)
              /\ sent = Len(list) =>
                   \A p \in OnBoth :
                     (p \in Surroundings => e) => p \in DOMAIN Heard2000(SubSeq(list, 1, sent))
          BY <4>4, TickHeard2000
        <5> HIDE DEF heard, list
        <5>3. QED BY <5>1, <5>2
      <4>6. TellsTruth(toldDirect.values, v, e) BY <4>3, DirectTellsTruth
      <4> HIDE DEF heard
      <4>7. QED BY <4>5, <4>6, HeardAgrees, OnBothSent
    <3>11. Agrees(heard0183, OnSentences)' BY <3>1 DEF OutputsAgree, Agrees
    <3>12. QED BY <3>9, <3>10, <3>11 DEF OutputsAgree
  <2>9. ASSUME NEW g \in 1 .. MaxSimStarts, EndWriter(g) PROVE SimInv' /\ OutputsAgree'
    <3>1. UNCHANGED <<sim, outputs, simulated, toldDirect, heard0183, heard2000, simTicks>>
      BY <2>9 DEF EndWriter
    <3>2. NoWriter \in BusWriters /\ NoWriter.queue = <<>> BY DEF NoWriter, BusWriters
    <3>3. /\ writers' \in [1 .. MaxSimStarts -> BusWriters]
          /\ \A i \in 1 .. MaxSimStarts : writers'[i].queue = writers[i].queue
      BY <2>9, <3>2 DEF EndWriter, SimInv
    <3>4. QED BY <3>1, <3>3 DEF SimInv, OfTick, SameTick, Has, OutputsAgree, Agrees
  <2>10. CASE UNCHANGED simVars
    BY <2>10 DEF simVars, SimInv, OfTick, SameTick, Has, OutputsAgree, Agrees
  <2>11. QED BY <2>1, <2>2, <2>3, <2>4, <2>5, <2>6, <2>7, <2>8, <2>9, <2>10 DEF SimNext
<1>3. QED BY <1>1, <1>2, PTL DEF SimSpec
=============================================================================
