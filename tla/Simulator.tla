------------------------------ MODULE Simulator ------------------------------
(* The sensor simulator: at every tick one set of values, told directly to *)
(* the store, as NMEA 0183 sentences to a receiver and as NMEA 2000        *)
(* messages to a thread that writes them to the bus.                       *)
(*                                                                         *)
(* A wave is anywhere between its ends, a noise anywhere within twice its  *)
(* amplitude: `wave' and `noise' say where, in hundredths, and the vessel  *)
(* is at a quarter of its orbit.                                           *)
EXTENDS Wire

CONSTANTS BaseSpeed,      \* the speed on the orbit
          Variation,      \* the magnetic variation, in thousandths of a radian
          MaxSimTicks, MaxSimStarts
ASSUME SimAssumption ==
  /\ BaseSpeed \in Nat /\ BaseSpeed + BaseSpeed <= TopSpeed
  /\ Variation \in Int /\ - TopAngle <= Variation /\ Variation <= TopAngle

VARIABLES sim,            \* the tick task: "off", "waits", "direct", "sentences", "pgns"
          outputs,        \* the outputs the start was configured with
          simulated,      \* the values of the tick that runs
          stream0183,     \* is the receiver connected
          writers,        \* start -> its bus thread: where it is, and what is queued for it
          toldDirect, heard0183, heard2000,  \* the last the store was told each way, and when
          simTicks, simStarts

simVars == <<sim, outputs, simulated, stream0183, writers, toldDirect, heard0183, heard2000,
             simTicks, simStarts>>

TwoPi == 6283
Wrapped(angle) == angle % TwoPi
AtLeast(low, n) == IF n < low THEN low ELSE n
AtMost(high, n) == IF n > high THEN high ELSE n

-----------------------------------------------------------------------------
(* The values.                                                             *)

SineGenerator(min, max, wave) == min + (wave * (max - min)) \div 100
pseudo_normal == {-200, 200}
NoiseGenerator(amplitude, noise) == (noise * amplitude) \div 100
CorrelatedGenerator(base, range, max_input, amplitude, input, noise) ==
  base + (AtMost(max_input, AtLeast(0, input)) * range) \div max_input
       + NoiseGenerator(amplitude, noise)

PositionGenerator(quarter, wave, noise) ==
  [latitude  |-> 5450 + <<18, 0, -18, 0>>[quarter + 1],
   longitude |-> 1000 + <<0, 31, 0, -31>>[quarter + 1],
   cog |-> Q(Wrapped(((quarter + 1) * TwoPi) \div 4), "rad"),
   sog |-> Q(AtLeast(0, BaseSpeed + SineGenerator(-80, 80, wave) + NoiseGenerator(15, noise)),
             "m/s")]

(* A tank is drained by the hour, in parts of its capacity, and filled up  *)
(* again from the bottom.                                                  *)
TankLevel(full, bottom, drain, hours) ==
  LET level == IF full - drain * hours > bottom THEN full - drain * hours
               ELSE full - ((drain * hours) % (full - bottom))
  IN  AtMost(full, AtLeast(bottom, level))

tick_at(quarter, wave, noise, hours, propelled) ==
  LET orbit == PositionGenerator(quarter, wave, noise)
      wavy(min, max, amplitude, unit) ==
        Q(SineGenerator(min, max, wave) + NoiseGenerator(amplitude, noise), unit)
      revs == AtLeast(0, CorrelatedGenerator(500, 4500, 500, 50, orbit.sog.n, noise))
  IN  [latitude |-> orbit.latitude, longitude |-> orbit.longitude, sog |-> orbit.sog, cog |-> orbit.cog,
       heading_magnetic |-> Q(Wrapped(orbit.cog.n + Variation + NoiseGenerator(52, noise)), "rad"),
       magnetic_variation |-> Q(Variation, "rad"),
       stw   |-> Q(AtLeast(0, orbit.sog.n + SineGenerator(-30, 30, wave)
                                + NoiseGenerator(5, noise)), "m/s"),
       roll  |-> wavy(-209, 209, 52, "rad"), pitch |-> wavy(-70, 70, 26, "rad"),
       wind_angle |-> Q(SineGenerator(-3142, 3142, wave), "rad"),
       wind_speed |-> Q(AtLeast(0, wavy(200, 1500, 100, "m/s").n), "m/s"),
       depth |-> Q(AtLeast(50, wavy(500, 1800, 10, "m").n), "m"),
       surface_to_transducer |-> Q(50, "m"),
       water_temperature |-> wavy(28300, 29300, 5, "K"),
       air_temperature   |-> wavy(28800, 29800, 10, "K"),
       pressure |-> wavy(100800, 102000, 15, "Pa"),
       humidity |-> Q(AtMost(100, AtLeast(0, wavy(50, 85, 1, "ratio").n)), "ratio"),
       propulsion |-> IF ~propelled THEN Blank
                      ELSE [revolutions |-> Q(revs, "Hz"),
                            oil_temperature     |-> wavy(34000, 37000, 150, "K"),
                            coolant_temperature |-> wavy(34000, 36500, 100, "K"),
                            fuel_rate |->       \* in hundreds of microlitres
                              Q(AtLeast(0, CorrelatedGenerator(14, 210, 5000, 10, revs, noise)),
                                "m3/s"),
                            battery_voltage     |-> wavy(1220, 1380, 5, "V"),
                            battery_current |->
                              Q(AtLeast(0, CorrelatedGenerator(0, 2500, 5000, 50, revs, noise)),
                                "A")],
       fuel_level  |-> Q(TankLevel(95, 10, 4, hours), "ratio"),
       water_level |-> Q(TankLevel(270, 45, 10, hours) \div 3, "ratio")]

-----------------------------------------------------------------------------
(* Told directly.                                                          *)

Has(output) == output \in outputs

build_delta(v, environment) ==
  Position("navigation.position", v.latitude, v.longitude, Blank)
    ++ Opt("navigation.speedOverGround", v.sog)
    ++ Opt("navigation.courseOverGroundTrue", v.cog)
    ++ Opt("navigation.headingMagnetic", v.heading_magnetic)
    ++ Opt("navigation.magneticVariation", v.magnetic_variation)
    ++ Opt("navigation.speedThroughWater", v.stw)
    ++ Opt("navigation.attitude", Q([pitch |-> v.pitch.n, roll |-> v.roll.n], "attitude"))
    ++ DateTime("today", "now")
    ++ (IF ~environment THEN NoPaths ELSE
        Opt("environment.wind.angleApparent", v.wind_angle)
          ++ Opt("environment.wind.speedApparent", v.wind_speed)
          ++ Opt("environment.depth.belowTransducer", v.depth)
          ++ Opt("environment.depth.surfaceToTransducer", v.surface_to_transducer)
          ++ Opt("environment.water.temperature", v.water_temperature)
          ++ Opt("environment.outside.temperature", v.air_temperature)
          ++ Opt("environment.outside.pressure", v.pressure)
          ++ Opt("environment.outside.humidity", v.humidity))
    ++ (IF v.propulsion = Blank THEN NoPaths ELSE
        Opt("propulsion.main.revolutions", v.propulsion.revolutions)
          ++ Opt("propulsion.main.oilTemperature", v.propulsion.oil_temperature)
          ++ Opt("propulsion.main.coolantTemperature", v.propulsion.coolant_temperature)
          ++ Opt("propulsion.main.fuel.rate", v.propulsion.fuel_rate)
          ++ Opt("electrical.batteries.0.voltage", v.propulsion.battery_voltage)
          ++ Opt("electrical.batteries.0.current", v.propulsion.battery_current))
    ++ Opt("tanks.fuel.0.currentLevel", v.fuel_level)
    ++ Opt("tanks.fuel.0.capacity", Q(20, "m3"))
    ++ Opt("tanks.freshWater.0.currentLevel", v.water_level)
    ++ Opt("tanks.freshWater.0.capacity", Q(15, "m3"))

-----------------------------------------------------------------------------
(* As sentences.                                                           *)

InCelsius(q) == Q(q.n - 27315, IF q.unit = "K" THEN "C" ELSE "none")
InBar_raw(q) == Q(q.n, "bar")
InBar(q)     == Q((q.n + 5) \div 10, IF q.unit = "Pa" THEN "bar" ELSE "none")
InPercent(q) == Q(100 * q.n, IF q.unit = "ratio" THEN "%" ELSE "none")

Angle(q) == Printed(InDegrees(q))
Speed(q) == Printed(InKnots(q))

(* The fraction of the second is rounded to hundredths: what is written    *)
(* just before the minute is full says 60 seconds, which no receiver reads. *)
Timed(kind, minuteFull) == IF minuteFull THEN "unreadable" ELSE kind

(* The variation of HDG stands where its direction is looked for.          *)
encode0183(v, minuteFull, environment) ==
  << [kind |-> Timed("RMC", minuteFull), fix_time |-> "now", fix_date |-> "today",
      status_of_fix |-> "Autonomous", lat |-> v.latitude, lon |-> v.longitude,
      speed_over_ground |-> Speed(v.sog), true_course |-> Angle(v.cog),
      magnetic_variation |-> Angle(v.magnetic_variation)],
     [kind |-> Timed("GGA", minuteFull), latitude |-> v.latitude, longitude |-> v.longitude,
      altitude |-> Blank, hdop |-> Plain(120), fix_satellites |-> Plain(8), fix_type |-> "Gps"],
     [kind |-> "HDG", heading |-> Angle(v.heading_magnetic), deviation |-> Blank,
      variation |-> Blank],
     [kind |-> "VHW", relative_speed_knots |-> Speed(v.stw),
      heading_true |-> Angle(Q(Wrapped(v.heading_magnetic.n + v.magnetic_variation.n), "rad")),
      heading_magnetic |-> Angle(v.heading_magnetic)] >>
  \o (IF ~environment THEN <<>> ELSE
      << [kind |-> "MWV", reference |-> "Relative", wind_speed_units |-> "Knots",
          wind_direction |-> Angle(v.wind_angle), wind_speed |-> Speed(v.wind_speed),
          data_valid |-> TRUE],
         [kind |-> "DBT", depth_meters |-> Printed(v.depth),
          depth_feet |-> Printed(InFeet(v.depth)), depth_fathoms |-> Printed(InFathoms(v.depth))],
         [kind |-> "MTW", temperature |-> Printed(InCelsius(v.water_temperature))],
         [kind |-> "MDA", pressure_bar |-> InBar(v.pressure),
          air_temp_deg |-> Printed(InCelsius(v.air_temperature)), water_temp_deg |-> Blank,
          rel_humidity |-> Printed(InPercent(v.humidity)), dew_point |-> Blank,
          wind_direction_true |-> Blank, wind_speed_ms |-> Blank, wind_speed_knots |-> Blank] >>)
  \o << [kind |-> "XDR",
         measurements |-> <<[type |-> "A", name |-> <<"PITCH">>, value |-> Angle(v.pitch)],
                            [type |-> "A", name |-> <<"ROLL">>, value |-> Angle(v.roll)]>>] >>

-----------------------------------------------------------------------------
(* As messages.                                                            *)

encode2000(v, environment) ==
  << [kind |-> "PositionRapidUpdate", latitude |-> v.latitude, longitude |-> v.longitude],
     [kind |-> "CogSogRapidUpdate", cog_reference |-> "True", cog |-> v.cog, sog |-> v.sog],
     [kind |-> "VesselHeading", reference |-> "Magnetic", heading |-> v.heading_magnetic,
      variation |-> v.magnetic_variation],
     [kind |-> "Speed", speed_water_referenced |-> v.stw, speed_ground_referenced |-> v.sog] >>
  \o (IF ~environment THEN <<>> ELSE
      << [kind |-> "WindData", reference |-> "Apparent", wind_speed |-> v.wind_speed,
          wind_angle |-> v.wind_angle],
         [kind |-> "WaterDepth", depth |-> v.depth, offset |-> v.surface_to_transducer] >>)

-----------------------------------------------------------------------------
(* The tick task, and the bus threads.                                     *)

Untold == [tick |-> 0, values |-> NoPaths, whole |-> FALSE]
NoWriter == [at |-> "none", queue |-> <<>>, open |-> FALSE]

SimInit ==
  /\ sim = "off" /\ outputs = {} /\ simulated = Blank /\ stream0183 = FALSE
  /\ writers = [g \in 1 .. MaxSimStarts |-> NoWriter]
  /\ toldDirect = Untold /\ heard0183 = Untold /\ heard2000 = Untold
  /\ simTicks = 0 /\ simStarts = 0

StartSim ==
  /\ sim = "off" /\ simStarts < MaxSimStarts /\ simStarts' = simStarts + 1
  /\ sim' = "waits" /\ stream0183' = FALSE
  /\ outputs' \in {o \cup more : o \in SUBSET {"direct", "nmea0183", "nmea2000"},
                                more \in {{}, {"environment", "propulsion"}}}
  /\ writers' = [writers EXCEPT ![simStarts'] =
                   IF "nmea2000" \in outputs' THEN [@ EXCEPT !.at = "opens", !.open = TRUE] ELSE @]
  /\ UNCHANGED <<simulated, toldDirect, heard0183, heard2000, simTicks>>

(* Wherever the task is: it is aborted where it waits, and its end of the  *)
(* queue goes with it.                                                     *)
StopSim ==
  /\ sim # "off" /\ sim' = "off" /\ stream0183' = FALSE
  /\ writers' = [writers EXCEPT ![simStarts].open = FALSE]
  /\ UNCHANGED <<outputs, simulated, toldDirect, heard0183, heard2000, simTicks, simStarts>>

SimTick ==
  /\ sim = "waits" /\ simTicks < MaxSimTicks /\ simTicks' = simTicks + 1 /\ sim' = "direct"
  /\ \E quarter \in {0, 3}, wave \in {0, 100}, noise \in pseudo_normal, hours \in {21, 22} :
       simulated' = tick_at(quarter, wave, noise, hours, Has("propulsion"))
  /\ UNCHANGED <<outputs, stream0183, writers, toldDirect, heard0183, heard2000, simStarts>>

EmitDirect ==
  /\ sim = "direct" /\ sim' = "sentences"
  /\ toldDirect' = IF ~Has("direct") THEN toldDirect
                   ELSE [tick |-> simTicks, values |-> build_delta(simulated, Has("environment")),
                         whole |-> TRUE]
  /\ UNCHANGED <<outputs, simulated, stream0183, writers, heard0183, heard2000, simTicks,
                 simStarts>>

(* An output is cut short at its start, in its middle, or not at all.      *)
Cuts(list) == {0, Len(list) \div 2, Len(list)}

(* No connection, no sentences; a write that fails gives up the rest of    *)
(* them, and the connection.                                               *)
SendSentences ==
  /\ sim = "sentences" /\ sim' = "pgns"
  /\ IF ~Has("nmea0183") THEN UNCHANGED <<stream0183, heard0183>>
     ELSE \/ ~stream0183 /\ UNCHANGED <<stream0183, heard0183>>
          \/ \E minuteFull \in BOOLEAN :
               LET sentences == encode0183(simulated, minuteFull, Has("environment"))
               IN  \E sent \in Cuts(sentences) :
                     /\ stream0183' = (sent = Len(sentences))
                     /\ heard0183' = [tick |-> simTicks,
                                      values |-> Heard183(SubSeq(sentences, 1, sent)),
                                      whole |-> stream0183' /\ ~minuteFull]
  /\ UNCHANGED <<outputs, simulated, writers, toldDirect, heard2000, simTicks, simStarts>>

(* The queue has no bound, and takes what it gets whoever reads it.        *)
QueuePgns ==
  /\ sim = "pgns" /\ sim' = "waits"
  /\ writers' = IF ~Has("nmea2000") THEN writers
                ELSE [writers EXCEPT ![simStarts].queue =
                        Append(@, [tick |-> simTicks,
                                   pgns |-> encode2000(simulated, Has("environment"))])]
  /\ simulated' = Blank
  /\ UNCHANGED <<outputs, stream0183, toldDirect, heard0183, heard2000, simTicks,
                 simStarts>>

(* An interface that does not open is tried again, stopped or not.         *)
OpenBusWriter(g) ==
  /\ writers[g].at = "opens" /\ writers' = [writers EXCEPT ![g].at = "writes"]
  /\ UNCHANGED <<sim, outputs, simulated, stream0183, toldDirect, heard0183, heard2000, simTicks,
                 simStarts>>

(* A message that cannot be sent takes the rest of its tick with it.       *)
WritePgns(g) ==
  /\ writers[g].at = "writes" /\ writers[g].queue # <<>>
  /\ LET next == Head(writers[g].queue)
     IN  \E sent \in Cuts(next.pgns) :
           heard2000' = [tick |-> next.tick, values |-> Heard2000(SubSeq(next.pgns, 1, sent)),
                         whole |-> sent = Len(next.pgns)]
  /\ writers' = [writers EXCEPT ![g].queue = Tail(@)]
  /\ UNCHANGED <<sim, outputs, simulated, stream0183, toldDirect, heard0183, simTicks, simStarts>>

EndWriter(g) ==
  /\ writers[g].at = "writes" /\ writers[g].queue = <<>> /\ ~writers[g].open
  /\ writers' = [writers EXCEPT ![g] = NoWriter]
  /\ UNCHANGED <<sim, outputs, simulated, stream0183, toldDirect, heard0183, heard2000, simTicks,
                 simStarts>>

SimNext ==
  \/ StartSim \/ StopSim \/ SimTick \/ EmitDirect \/ SendSentences \/ QueuePgns
  \/ \E g \in 1 .. MaxSimStarts : OpenBusWriter(g) \/ WritePgns(g) \/ EndWriter(g)

SimSpec == SimInit /\ [][SimNext]_simVars

-----------------------------------------------------------------------------
(* Whichever way a tick reaches the store, it is the same tick: what the   *)
(* receivers make of the sentences and of the messages are the values told *)
(* directly, up to the decimals on the wire.  And none of the paths an     *)
(* output has is lost on its way, unless the output was cut short.         *)
OnBoth ==
  {"navigation.position", "navigation.speedOverGround", "navigation.courseOverGroundTrue",
   "navigation.headingMagnetic", "navigation.magneticVariation", "navigation.speedThroughWater",
   "environment.wind.angleApparent", "environment.wind.speedApparent",
   "environment.depth.belowTransducer"}
OnSentences ==
  OnBoth \cup {"navigation.attitude", "environment.water.temperature",
               "environment.outside.temperature", "environment.outside.pressure",
               "environment.outside.humidity"}
Close(q, r) ==
  IF r.unit = "attitude"
  THEN /\ Near(Q(q.n.pitch, "rad"), Q(r.n.pitch, "rad"), 3)
       /\ Near(Q(q.n.roll, "rad"), Q(r.n.roll, "rad"), 3)
  ELSE Same(q, r)
Agrees(heard, paths) ==
  (heard.tick = toldDirect.tick /\ heard.tick > 0) =>
    /\ heard.whole => paths \cap DOMAIN toldDirect.values \subseteq DOMAIN heard.values
    /\ \A p \in DOMAIN heard.values \cap DOMAIN toldDirect.values :
         p = "navigation.datetime" \/ Close(heard.values[p], toldDirect.values[p])
OutputsAgree == Agrees(heard0183, OnSentences) /\ Agrees(heard2000, OnBoth)
=============================================================================
