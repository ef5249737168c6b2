------------------------------- MODULE MCLinks -----------------------------
(* Small instances of what is linked to the server from outside or by its  *)
(* own deltas: the bridge's traffic over the internal API and its data     *)
(* stream, the NMEA receivers and senders, and the derived data.  They     *)
(* share no state: a behaviour is about one of them, `part' says which.    *)
EXTENDS Bridge, StreamBundle, NmeaReceive, NmeaSend, DerivedData, TLC

CONSTANTS p1, put_path, m1, m2, m3

VARIABLE part

MCPathOf == [p \in JsPlugins |-> put_path]

(* Two ships whose static data takes two sentences, and a call.            *)
Fragment(id, k, m) == [kind |-> "VDM", id |-> id, part |-> k, of |-> 2, message |-> m]
Static(mmsi) ==
  [kind |-> "StaticDataReport", mmsi |-> mmsi, message_part |-> "PartA", vessel_name |-> mmsi]
MCLines == {Fragment(1, 1, Blank), Fragment(1, 2, Static(m1)),
            Fragment(2, 1, Blank), Fragment(2, 2, Static(m2)),
            [kind |-> "DSC", sender_mmsi |-> m3, position |-> Blank, category |-> 12,
             first_telecommand |-> 10]}
MCFrames == {[kind |-> "RateOfTurn", rate |-> Q(5, "rad/s")], [kind |-> "Heartbeat"]}

(* What the senders see of the store: every path, and two that are no      *)
(* number.                                                                 *)
MCShown == {
  Opt("navigation.position",
      Q([latitude |-> -12345, longitude |-> 1034, altitude |-> Blank], "position"))
    @@ Opt("navigation.speedOverGround", Q(514, "m/s")),
  Opt("navigation.courseOverGroundTrue", Q(6100, "rad"))
    @@ Opt("navigation.headingTrue", Q(5987, "rad")),
  Opt("navigation.magneticVariation", Q(-44, "rad"))
    @@ Opt("environment.depth.belowTransducer", Q(1250, "m")),
  Opt("environment.wind.angleApparent", Q(-786, "rad")),
  Opt("environment.wind.speedApparent", Q(803, "m/s")),
  Opt("navigation.headingTrue", Q(Blank, "text")) @@ Opt("navigation.position", Q(Blank, "text"))}

(* The calculators' formulas, told apart by their numbers; all of them,    *)
(* without the one that closes the circle of the two courses, with depths  *)
(* only, and none.                                                         *)
MCFormula(name, args) == FoldLeft(LAMBDA a, x : (3 * a + x) % 5, 1, args)
MCSensorDeltas == {
  Out("magneticVariation", 1), "magneticVariation" :> 2 @@ "draft" :> 4,
  "headingMagnetic" :> 1 @@ "angleApparent" :> 2 @@ "speedApparent" :> 1,
  "headingMagnetic" :> 5 @@ "speedThroughWater" :> 1 @@ "speedOverGround" :> 2,
  "courseOverGroundTrue" :> 3 @@ "position" :> 4,
  "nextPoint" :> 3 @@ "previousPoint" :> 2 @@ "speedOverGround" :> 1,
  "nextPoint" :> 1 @@ "datetime" :> 2 @@ "temperature" :> 3 @@ "humidity" :> 50
    @@ "belowTransducer" :> 9,
  "draft" :> 3 @@ "surfaceToTransducer" :> 1,
  "batteries.voltage" :> 12 @@ "batteries.current" :> 2 @@ "speedOverGround" :> 1,
  Out("batteries.voltage", 13) }
MCDisabled == {{}, {"courseOverGroundTrue"},
               Calculators \ {"depthBelowKeel", "transducerToKeel", "depthBelowSurface"},
               Calculators}

nmeaVars == <<receiveVars, sendVars, busVars>>
allVars  == <<part, linkVars, bundleVars, nmeaVars, derivedVars>>

(* While another part is looked at, the stream waits for a server.         *)
MCInit ==
  /\ part \in {"link", "stream", "tcp", "serial", "n2k", "sentences", "pgns", "derived"}
  /\ BridgeInit /\ BundleInit /\ ReceiveInit /\ SendInit /\ BusInit /\ DerivedInit
  /\ part # "stream" => ~serving

LinkPart == part = "link" /\ BridgeNext /\ UNCHANGED <<part, bundleVars, nmeaVars, derivedVars>>
StreamPart == part = "stream" /\ BundleNext /\ UNCHANGED <<part, linkVars, nmeaVars, derivedVars>>
ReceivePart ==
  /\ \/ part = "tcp" /\ TcpNext
     \/ part = "serial" /\ ReceiveSerialNext
     \/ part = "n2k" /\ ReceiveN2kNext
  /\ UNCHANGED <<part, linkVars, bundleVars, sendVars, busVars, derivedVars>>
SendPart ==
  /\ \/ part = "sentences" /\ SentencesNext
     \/ part = "pgns" /\ BusNext
  /\ UNCHANGED <<part, linkVars, bundleVars, receiveVars, derivedVars>>
DerivedPart == part = "derived" /\ DerivedNext /\ UNCHANGED <<part, linkVars, bundleVars, nmeaVars>>

(* The fairness of each module holds of itself until something is started  *)
(* or sent; the stream's is asked for where the stream is looked at.       *)
MCFairness ==
  /\ BridgeFairness /\ ReceiveFairness /\ SendFairness /\ DerivedFairness
  /\ WF_bundleVars(part = "stream" /\ Open) /\ WF_bundleVars(part = "stream" /\ Subscribed)
  /\ WF_bundleVars(part = "stream" /\ ProcessDelta)
  /\ WF_bundleVars(part = "stream" /\ Lost) /\ WF_bundleVars(part = "stream" /\ Reconnect)

MCSpec ==
  MCInit /\ [][LinkPart \/ StreamPart \/ ReceivePart \/ SendPart \/ DerivedPart]_allVars
         /\ MCFairness

(* The bridge with a standalone plugin that calls the server.              *)
MCRemoteSpec ==
  (MCInit /\ part = "link")
    /\ [][LinkPart \/ (RemoteCall /\ UNCHANGED <<part, bundleVars, nmeaVars, derivedVars>>)]_allVars
=============================================================================
