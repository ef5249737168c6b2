------------------------------ MODULE NmeaSend ------------------------------
(* The two senders: they keep a snapshot of what their subscription hears  *)
(* and at every tick put it on a wire, as NMEA 0183 sentences for whoever  *)
(* is connected, or as NMEA 2000 messages under an address that has to be  *)
(* claimed first.                                                          *)
EXTENDS Wire

CONSTANTS NmeaClients,    \* who may connect to the NMEA 0183 output
          ShownDeltas,    \* what the store may tell: functions from paths to values
          Lagging,        \* how many sentences the channel keeps for a client
          Address,        \* the address the NMEA 2000 output asks for
          MaxHeard, MaxTicks, MaxSendStarts

VARIABLES sending,        \* is the NMEA 0183 output started
          told,           \* the value of every path, as its snapshot has it
          clients,        \* client -> "away", "connected"
          unread,         \* client -> the ticks whose sentences it has not read
          printed,        \* the sentences of the last tick, and the snapshot they are of
          bus,            \* the bus thread: "none", "claims", "sends"
          ticking,        \* does the tick task of the NMEA 2000 output run
          owned,          \* the address the address manager holds, 254 for none
          claimed,        \* the one the thread and the tick task share
          toldBus,        \* the snapshot of the NMEA 2000 output
          pgns,           \* what the tick task has queued for the thread
          frame,          \* the last message the thread sent: its source, and who held it
          hearings, ticks, opens

sendVars == <<sending, told, clients, unread, printed, hearings, ticks>>
busVars  == <<bus, ticking, owned, claimed, toldBus, pgns, frame, opens>>

SentPaths == {"navigation.position", "navigation.speedOverGround",
              "navigation.courseOverGroundTrue", "navigation.headingTrue",
              "navigation.magneticVariation", "environment.wind.angleApparent",
              "environment.wind.speedApparent", "environment.depth.belowTransducer"}
Nothing183 == [p \in SentPaths |-> Blank]

(* What can be told of a path besides a text.                              *)
Sendable(p) ==
  CASE p \in {"navigation.speedOverGround", "environment.wind.speedApparent"} -> Speeds
    [] p \in {"navigation.courseOverGroundTrue", "navigation.headingTrue",
              "navigation.magneticVariation", "environment.wind.angleApparent"} -> Angles
    [] p = "navigation.position" -> [n : LatLons, unit : {"position"}]
    [] p = "environment.depth.belowTransducer" -> Lengths
ASSUME ShownAssumption ==
  \A values \in ShownDeltas : \A p \in SentPaths \cap DOMAIN values :
    values[p].unit = "text" \/ values[p] \in Sendable(p)

(* What is no number, or no position, empties its field.                   *)
update_from_delta(snap, values) ==
  [p \in SentPaths |->
     IF p \notin DOMAIN values THEN snap[p]
     ELSE IF values[p].unit = "text" THEN Blank ELSE values[p]]

-----------------------------------------------------------------------------
(* Sentences.                                                              *)

(* The moment of writing is `now'.                                         *)
snapshot_to_rmc(snap) ==
  LET at == snap["navigation.position"]
  IN  [kind |-> "RMC", fix_time |-> "now", fix_date |-> "today",
       status_of_fix |-> IF at = Blank THEN "Invalid" ELSE "Autonomous",
       lat |-> Mapped(LAMBDA p : p.n.latitude, at),
       lon |-> Mapped(LAMBDA p : p.n.longitude, at),
       speed_over_ground  |-> Printed(InKnots(snap["navigation.speedOverGround"])),
       true_course        |-> Printed(InDegrees(snap["navigation.courseOverGroundTrue"])),
       magnetic_variation |-> Printed(InDegrees(snap["navigation.magneticVariation"]))]

snapshot_to_hdt(snap) ==
  [kind |-> "HDT", heading |-> Printed(InDegrees(snap["navigation.headingTrue"]))]

snapshot_to_mwv(snap) ==
  [kind |-> "MWV", reference |-> "Relative", wind_speed_units |-> "Knots",
   wind_direction |-> Printed(InDegrees(snap["environment.wind.angleApparent"])),
   wind_speed     |-> Printed(InKnots(snap["environment.wind.speedApparent"])),
   data_valid     |-> snap["environment.wind.angleApparent"] # Blank]

snapshot_to_dbt(snap) ==
  LET depth == snap["environment.depth.belowTransducer"]
  IN  [kind |-> "DBT", depth_meters |-> Printed(depth), depth_feet |-> Printed(InFeet(depth)),
       depth_fathoms |-> Printed(InFathoms(depth))]

snapshot_to_vtg(snap) ==
  [kind |-> "VTG",
   true_course       |-> Printed(InDegrees(snap["navigation.courseOverGroundTrue"])),
   speed_over_ground |-> Printed(InKnots(snap["navigation.speedOverGround"]))]

Known183(snap, paths) == \E p \in paths : snap[p] # Blank

generate_all_sentences(snap) ==
  <<snapshot_to_rmc(snap)>>
    \o (IF Known183(snap, {"navigation.headingTrue"}) THEN <<snapshot_to_hdt(snap)>> ELSE <<>>)
    \o (IF Known183(snap, {"environment.wind.angleApparent", "environment.wind.speedApparent"})
        THEN <<snapshot_to_mwv(snap)>> ELSE <<>>)
    \o (IF Known183(snap, {"environment.depth.belowTransducer"})
        THEN <<snapshot_to_dbt(snap)>> ELSE <<>>)
    \o (IF Known183(snap, {"navigation.courseOverGroundTrue", "navigation.speedOverGround"})
        THEN <<snapshot_to_vtg(snap)>> ELSE <<>>)

-----------------------------------------------------------------------------
(* Messages.                                                               *)

build_pgns(snap) ==
  LET heading == snap["navigation.headingTrue"]
      cog     == snap["navigation.courseOverGroundTrue"]
      sog     == snap["navigation.speedOverGround"]
      speed   == snap["environment.wind.speedApparent"]
      angle   == snap["environment.wind.angleApparent"]
  IN  (IF heading = Blank THEN <<>>
       ELSE <<[kind |-> "VesselHeading", reference |-> "True", heading |-> heading,
               variation |-> snap["navigation.magneticVariation"]]>>)
      \o (IF cog = Blank /\ sog = Blank THEN <<>>
          ELSE <<[kind |-> "CogSogRapidUpdate", cog_reference |-> "True",
                  cog |-> cog, sog |-> sog]>>)
      \o (IF speed = Blank /\ angle = Blank THEN <<>>
          ELSE <<[kind |-> "WindData", reference |-> "Apparent",
                  wind_speed |-> speed, wind_angle |-> angle]>>)

-----------------------------------------------------------------------------
(* The NMEA 0183 output.                                                   *)

SendInit ==
  /\ sending = FALSE /\ told = Nothing183 /\ hearings = 0 /\ ticks = 0
  /\ clients = [c \in NmeaClients |-> "away"] /\ unread = [c \in NmeaClients |-> <<>>]
  /\ printed = [of |-> Nothing183, sentences |-> <<>>]

(* Every start has a snapshot of its own.                                  *)
StartSend ==
  /\ ~sending /\ opens < MaxSendStarts /\ opens' = opens + 1
  /\ sending' = TRUE /\ told' = Nothing183
  /\ UNCHANGED <<clients, unread, printed, hearings, ticks, bus, ticking, owned, claimed,
                 toldBus, pgns, frame>>

(* The channel goes with the tick task, and the clients see it closed.     *)
StopSend ==
  /\ sending /\ sending' = FALSE
  /\ UNCHANGED <<told, clients, unread, printed, hearings, ticks, busVars>>

(* A sender that is started hears what the store shows.                    *)
HearSend ==
  /\ sending /\ hearings < MaxHeard /\ hearings' = hearings + 1
  /\ \E values \in ShownDeltas : told' = update_from_delta(told, values)
  /\ UNCHANGED <<sending, clients, unread, printed, ticks, busVars>>
HearBus ==
  /\ ticking /\ hearings < MaxHeard /\ hearings' = hearings + 1
  /\ \E values \in ShownDeltas : toldBus' = update_from_delta(toldBus, values)
  /\ UNCHANGED <<sending, told, clients, unread, printed, ticks, bus, ticking, owned,
                 claimed, pgns, frame, opens>>

AcceptClient(c) ==
  /\ sending /\ clients[c] = "away"
  /\ clients' = [clients EXCEPT ![c] = "connected"] /\ unread' = [unread EXCEPT ![c] = <<>>]
  /\ UNCHANGED <<sending, told, printed, hearings, ticks, busVars>>

(* A client that lags behind loses the oldest.                             *)
Kept(queue) == IF Len(queue) > Lagging THEN Tail(queue) ELSE queue
TickSend ==
  /\ sending /\ ticks < MaxTicks /\ ticks' = ticks + 1
  /\ printed' = [of |-> told, sentences |-> generate_all_sentences(told)]
  /\ unread' = [c \in NmeaClients |-> IF clients[c] = "connected"
                                      THEN Kept(Append(unread[c], ticks')) ELSE unread[c]]
  /\ UNCHANGED <<sending, told, clients, hearings, busVars>>

(* A write that fails ends the client's task.                              *)
WriteClient(c) ==
  /\ clients[c] = "connected" /\ unread[c] # <<>>
  /\ unread' = [unread EXCEPT ![c] = Tail(@)]
  /\ clients' \in {clients, [clients EXCEPT ![c] = "away"]}
  /\ UNCHANGED <<sending, told, printed, hearings, ticks, busVars>>

EndClient(c) ==
  /\ ~sending /\ clients[c] = "connected" /\ unread[c] = <<>>
  /\ clients' = [clients EXCEPT ![c] = "away"]
  /\ UNCHANGED <<sending, told, unread, printed, hearings, ticks, busVars>>

-----------------------------------------------------------------------------
(* The NMEA 2000 output.                                                   *)

ADDR_NOT_CLAIMED == 254

BusInit ==
  /\ bus = "none" /\ ticking = FALSE /\ owned = ADDR_NOT_CLAIMED
  /\ claimed = ADDR_NOT_CLAIMED /\ pgns = <<>> /\ opens = 0 /\ toldBus = Nothing183
  /\ frame = [source |-> ADDR_NOT_CLAIMED, owned |-> ADDR_NOT_CLAIMED]

(* An interface that does not open ends the thread, the plugin runs on.    *)
(* The thread of an earlier start shares nothing with the new one.         *)
StartBus ==
  /\ ~ticking /\ opens < MaxSendStarts /\ opens' = opens + 1
  /\ ticking' = TRUE /\ bus' \in {"claims", "none"} /\ toldBus' = Nothing183
  /\ owned' = ADDR_NOT_CLAIMED /\ claimed' = ADDR_NOT_CLAIMED /\ pgns' = <<>>
  /\ UNCHANGED <<frame, sendVars>>

StopBus ==
  /\ ticking /\ ticking' = FALSE
  /\ UNCHANGED <<bus, owned, claimed, toldBus, pgns, frame, opens, sendVars>>

handle_claim_action_kept(action) == IF action = "AddressClaimed" THEN Address ELSE claimed
(* What the address manager decides of the messages and timeouts it sees,  *)
(* and what the thread makes of it.                                        *)
handle_claim_action(action) ==
  CASE action = "AddressClaimed" -> Address
    [] action \in {"AddressLost", "SendCannotClaim"} -> ADDR_NOT_CLAIMED
    [] action = "SendClaim" -> claimed
Claims ==
  /\ bus = "claims" /\ bus' = "sends"
  /\ \/ UNCHANGED <<owned, claimed>>
     \/ \E action \in {"AddressClaimed", "AddressLost", "SendCannotClaim", "SendClaim"} :
          /\ owned' = CASE action = "AddressClaimed" -> Address
                        [] action = "SendClaim"      -> owned
                        [] OTHER                     -> ADDR_NOT_CLAIMED
          /\ claimed' = handle_claim_action(action)
  /\ UNCHANGED <<ticking, toldBus, pgns, frame, opens, sendVars>>

(* The queue is emptied in one go; nothing is kept for later.              *)
SendsPgn ==
  /\ bus = "sends" /\ pgns # <<>> /\ pgns' = Tail(pgns)
  /\ frame' = IF claimed < ADDR_NOT_CLAIMED THEN [source |-> claimed, owned |-> owned] ELSE frame
  /\ UNCHANGED <<bus, ticking, owned, claimed, toldBus, opens, sendVars>>
QueueEmpty_restless ==
  /\ bus = "sends" /\ pgns = <<>> /\ bus' = "claims"
  /\ UNCHANGED <<ticking, owned, claimed, toldBus, pgns, frame, opens, sendVars>>
QueueEmpty ==
  /\ bus = "sends" /\ pgns = <<>>
  /\ bus' = IF ticking THEN "claims" ELSE "none"
  /\ UNCHANGED <<ticking, owned, claimed, toldBus, pgns, frame, opens, sendVars>>

TickBus ==
  /\ ticking /\ ticks < MaxTicks /\ ticks' = ticks + 1
  /\ pgns' = IF claimed >= ADDR_NOT_CLAIMED \/ bus = "none" THEN pgns
             ELSE pgns \o build_pgns(toldBus)
  /\ UNCHANGED <<bus, ticking, owned, claimed, toldBus, frame, opens, sending, told, clients,
                 unread, printed, hearings>>

SentencesNext ==
  \/ StartSend \/ StopSend \/ HearSend \/ TickSend
  \/ \E c \in NmeaClients : AcceptClient(c) \/ WriteClient(c) \/ EndClient(c)
BusNext ==
  StartBus \/ StopBus \/ HearBus \/ TickBus \/ Claims \/ SendsPgn \/ QueueEmpty

SendSpec ==
  SendInit /\ BusInit /\ [][SentencesNext \/ BusNext]_<<sendVars, busVars>>

(* The clients' tasks and the bus thread run; nothing else has to happen.  *)
SendFairness ==
  /\ \A c \in NmeaClients : WF_<<sendVars, busVars>>(WriteClient(c) \/ EndClient(c))
  /\ WF_<<sendVars, busVars>>(Claims \/ SendsPgn \/ QueueEmpty)

-----------------------------------------------------------------------------
(* What is heard on the wires.                                             *)

(* Whoever receives what is sent has the values the sender was told, in the *)
(* units it was told them, up to the decimals on the wire.  One is lost: a  *)
(* wind speed whose angle is not known, for the sentence says it is void.   *)
Received(p, of, values) ==
  IF of[p] = Blank THEN p \notin DOMAIN values
  ELSE p \in DOMAIN values /\ Same(values[p], of[p])
WireTellsSnapshot ==
  /\ printed.sentences # <<>> =>
       \A p \in SentPaths :
         (p = "environment.wind.speedApparent" =>
            printed.of["environment.wind.angleApparent"] # Blank)
           => Received(p, printed.of, Heard183(printed.sentences))
  /\ \A p \in SentPaths \ {"navigation.position", "environment.depth.belowTransducer"} :
       (p = "navigation.magneticVariation" => toldBus["navigation.headingTrue"] # Blank)
         => Received(p, toldBus, Heard2000(build_pgns(toldBus)))

(* No message leaves under an address the manager does not hold.           *)
SentAsOwned == frame.source = frame.owned

(* A stopped sender lets go of its clients and of the bus.                 *)
SendersLetGo ==
  /\ ~sending ~> (sending \/ \A c \in NmeaClients : clients[c] = "away")
  /\ ~ticking ~> (ticking \/ bus = "none")
=============================================================================
