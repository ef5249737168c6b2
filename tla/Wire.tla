-------------------------------- MODULE Wire --------------------------------
(* What the senders and the simulator share: the units and the decimals of *)
(* their sentences, and what a receiver hears of sentences and messages.   *)
EXTENDS Pgns

InKnots_inverse(q) == Scaled(q, "m/s", "kn", 514444, 1000000)
InKnots(q)   == Scaled(q, "m/s", "kn", 194384, 100000)
InDegrees(q) == Scaled(q, "rad", "deg", 57296, 10000)
InFeet(q)    == Scaled(q, "m", "ft", 328084, 100000)
InFathoms(q) == Scaled(q, "m", "fathom", 54681, 100000)

(* A number on the wire has one decimal.                                   *)
Printed(q) == IF q = Blank THEN Blank ELSE Q(((q.n + 5) \div 10) * 10, q.unit)

Heard183(sentences) ==
  Merged([i \in DOMAIN sentences |-> sentence_to_delta(sentences[i])])

(* The paths the server's own messages tell, and what of them: neither a   *)
(* delta of theirs nor a pair of them is taken for nothing.                *)
WirePaths ==
  {"navigation.position", "navigation.speedOverGround", "navigation.courseOverGroundTrue",
   "navigation.headingTrue", "navigation.headingMagnetic", "navigation.magneticVariation",
   "navigation.speedThroughWater", "environment.wind.angleApparent",
   "environment.wind.speedApparent", "environment.depth.belowTransducer",
   "environment.depth.belowSurface", "environment.depth.belowKeel"}
Quantities == [n : Int, unit : UnitNames] \cup [n : LatLons, unit : {"position"}]
Tellings == UNION {[paths -> Quantities] : paths \in SUBSET WirePaths}
ASSUME DeltaAssumption ==
  Blank \notin (WirePaths \X WirePaths) \cup [context : {OwnVessel}, values : Tellings]

(* What can be told of a speed, an angle and a depth: up to ten kilometres *)
(* a second, eight turns, and any depth.  Beyond that the factors of the   *)
(* conversions, which do not quite cancel, cost more than the decimals on  *)
(* the wire do.                                                            *)
TopSpeed == 1000000
TopAngle == 50000
Speeds  == [n : - TopSpeed .. TopSpeed, unit : {"m/s"}]
Angles  == [n : - TopAngle .. TopAngle, unit : {"rad"}]
Lengths == [n : Int, unit : {"m"}]

values_of(delta) == IF delta = Blank THEN NoPaths ELSE delta.values
Heard2000(messages) ==
  Merged([i \in DOMAIN messages |-> values_of(decoded_to_delta(messages[i]))])

Near(q, r, within) == q.unit = r.unit /\ q.n - r.n \in - within .. within
Same(q, r) ==
  CASE r.unit = "position" ->
         q.n.latitude = r.n.latitude /\ q.n.longitude = r.n.longitude
    [] r.unit = "rad" -> Near(q, r, 3)
    [] OTHER          -> Near(q, r, 10)
=============================================================================
