------------------------------ MODULE Contacts ------------------------------
(* What the receivers make of other vessels: AIS messages of NMEA 0183 and *)
(* of NMEA 2000 fill the same contact, which becomes a delta for the       *)
(* vessel its number names; a DSC call becomes one with a notification.    *)
(*                                                                         *)
(* A delta is the context it is for and the function from its paths to     *)
(* values.  A name is Blank when missing and "" when only padding is left. *)
EXTENDS Sentences

DeltaFor(context, values) == [context |-> context, values |-> values]
OwnVessel == "self"

-----------------------------------------------------------------------------
(* Contacts.                                                               *)

ContactFields ==
  {"position", "sog_ms", "cog_rad", "heading_rad", "rot_rads", "nav_status", "name",
   "callsign", "imo", "ship_type", "destination", "draught", "length", "beam"}
AisContact(mmsi, known) ==
  [f \in ContactFields \cup {"mmsi"} |->
     IF f = "mmsi" THEN mmsi ELSE IF f \in DOMAIN known THEN known[f] ELSE Blank]

(* The navigational status by its number; those not listed have no name.   *)
nav_status_to_str(code) ==
  LET named == <<"motoring", "anchored", "not under command",
                 "restricted maneuverability", "constrained by draft", "moored",
                 "aground", "fishing", "sailing">>
  IN  CASE code \in 0 .. 8 -> named[code + 1]
        [] code = 14       -> "ais-sart"
        [] OTHER           -> Blank

(* The ship type by its number: a table for the thirties and the fifties,  *)
(* a name for the rest of each ten.                                        *)
ship_type_name(code) ==
  LET thirties == <<"Fishing", "Towing", "Towing (large)", "Dredging", "Diving ops",
                    "Military ops", "Sailing", "Pleasure craft", "Reserved", "Reserved">>
      fifties  == <<"Pilot vessel", "Search and rescue", "Tug", "Port tender",
                    "Anti-pollution", "Law enforcement", "Spare", "Spare",
                    "Medical transport", "Non-combatant ship">>
      tens     == <<"Reserved", "Wing in ground", "", "High speed craft", "",
                    "Passenger", "Cargo", "Tanker", "Other">>
      ten      == code \div 10
  IN  CASE code = 0         -> "Not available"
        [] code \in 1 .. 9  -> "Reserved"
        [] ten = 3          -> thirties[(code % 10) + 1]
        [] ten = 5          -> fifties[(code % 10) + 1]
        [] ten \in 1 .. 9 \ {3, 5} -> tens[ten]
        [] OTHER            -> "Unknown"

Positive(q)     == IF q # Blank /\ q.n > 0 THEN q ELSE Blank
Written(name)   == IF name \in {Blank, ""} THEN Blank ELSE Q(name, "text")
LatLon(lat, lon) == IF Blank \in {lat, lon} THEN Blank ELSE <<lat, lon>>

to_delta(c) ==
  DeltaFor(c.mmsi,
    Mapped(LAMBDA at : Position("navigation.position", at[1], at[2], Blank),
           IF c.position = Blank THEN <<Blank, Blank>> ELSE c.position)
      ++ Opt("navigation.speedOverGround", c.sog_ms)
      ++ Opt("navigation.courseOverGroundTrue", c.cog_rad)
      ++ Opt("navigation.headingTrue", c.heading_rad)
      ++ Opt("navigation.rateOfTurn", c.rot_rads)
      ++ Opt("navigation.state",
             Mapped(LAMBDA code : Mapped(LAMBDA name : Q(name, "text"), nav_status_to_str(code)),
                    c.nav_status))
      ++ Opt("name", Written(c.name))
      ++ Opt("communication.callsignVhf", Written(c.callsign))
      ++ Opt("registrations.imo", Positive(Mapped(LAMBDA n : Q(n, "IMO"), c.imo)))
      ++ Opt("design.aisShipType",
             Mapped(LAMBDA code : Q([id |-> code, name |-> ship_type_name(code)], "type"),
                    c.ship_type))
      ++ Opt("design.length.overall.value", Positive(c.length))
      ++ Opt("design.beam.value", Positive(c.beam))
      ++ Opt("design.draft.value.maximum", Positive(c.draught))
      ++ Opt("navigation.destination.commonName", Written(c.destination)))

-----------------------------------------------------------------------------
(* AIS in NMEA 0183, assembled from its fragments.                         *)

Extent(a, b) == LET total == a + b IN IF total > 0 THEN Q(100 * total, "m") ELSE Blank

Moving(m) ==
  [position    |-> LatLon(m.latitude, m.longitude),
   sog_ms      |-> Knots(m.speed_over_ground),
   cog_rad     |-> Radians(m.course_over_ground),
   heading_rad |-> Radians(m.true_heading)]
Sized(m) ==
  [length |-> Extent(m.dimension_to_bow, m.dimension_to_stern),
   beam   |-> Extent(m.dimension_to_port, m.dimension_to_starboard)]

nav_status_to_code(status) ==
  LET order == <<"UnderWayUsingEngine", "AtAnchor", "NotUnderCommand",
                 "RestrictedManouverability", "ConstrainedByDraught", "Moored",
                 "Aground", "EngagedInFishing", "UnderWaySailing", "ReservedForHSC",
                 "ReservedForWIG", "Reserved01", "Reserved02", "Reserved03",
                 "AisSartIsActive">>
  IN  IF status \in ToSet(order) THEN (CHOOSE i \in DOMAIN order : order[i] = status) - 1
                                 ELSE 15

(* The rate of turn comes without a sign, and the side next to it.         *)
from_position_report(m) ==
  AisContact(m.mmsi, Moving(m) ++
    [nav_status |-> Mapped(nav_status_to_code, m.navigation_status),
     rot_rads   |-> TurnRate(Mapped(LAMBDA r : Q(IF m.direction = "Port" THEN - r.n ELSE r.n,
                                                 r.unit), m.rate))])

from_static_voyage(m) ==
  AisContact(m.mmsi, Sized(m) ++
    [name |-> m.vessel_name, callsign |-> m.callsign, imo |-> m.imo_number,
     ship_type |-> m.ship_type, destination |-> m.destination, draught |-> m.draught])

from_class_b(m) == AisContact(m.mmsi, Moving(m))

from_class_b_extended(m) ==
  AisContact(m.mmsi, Moving(m) ++ Sized(m) ++
    [name |-> m.name, ship_type |-> m.type_of_ship_and_cargo])

from_aton(m) ==
  AisContact(m.mmsi, [position |-> LatLon(m.latitude, m.longitude), name |-> m.name])

from_static_data_report(m) ==
  AisContact(m.mmsi,
    CASE m.message_part = "PartA" -> [name |-> m.vessel_name]
      [] m.message_part = "PartB" ->
           Sized(m) ++ [callsign |-> m.callsign, ship_type |-> m.ship_type]
      [] OTHER -> NoPaths)

(* A contact is told even when nothing is known but its number.            *)
message_to_contact(m) ==
  CASE m.kind = "PositionReport"               -> from_position_report(m)
    [] m.kind = "StaticAndVoyageRelatedData"   -> from_static_voyage(m)
    [] m.kind = "StandardClassBPositionReport" -> from_class_b(m)
    [] m.kind = "ExtendedClassBPositionReport" -> from_class_b_extended(m)
    [] m.kind = "AidToNavigationReport"        -> from_aton(m)
    [] m.kind = "StaticDataReport"             -> from_static_data_report(m)
    [] OTHER -> Blank

-----------------------------------------------------------------------------
(* DSC calls.                                                              *)

distress_notification_path(nature) ==
  LET known == <<"notifications.fire", "notifications.flooding", "notifications.collision",
                 "notifications.grounding", "notifications.listing",
                 "notifications.sinking", "notifications.adrift",
                 "notifications.distress", "notifications.abandon",
                 "notifications.piracy", "notifications.mob">>
  IN  IF nature \in 0 .. 10 THEN known[nature + 1] ELSE "notifications.distress"

(* A call that says neither where nor that it is distress tells nothing.   *)
try_decode_dsc(s) ==
  LET values == (IF s.position = Blank THEN NoPaths
                 ELSE Position("navigation.position", s.position[1], s.position[2], Blank))
                ++ (IF s.category # 12 THEN NoPaths
                    ELSE Opt(distress_notification_path(s.first_telecommand),
                             Q("emergency", "state")))
  IN  IF s.sender_mmsi = Blank \/ values = NoPaths THEN Blank
      ELSE DeltaFor(s.sender_mmsi, values)
=============================================================================
