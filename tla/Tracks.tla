-------------------------------- MODULE Tracks -------------------------------
(* The tracks plugin: it records where the vessels were, thins out what it *)
(* records, forgets what is too old, and answers queries with segments     *)
(* split at gaps and simplified to a tolerance.                            *)
(*                                                                         *)
(* Time is in minutes and positions are points of a plane.  The callback,  *)
(* the tick and every request hold the connection's lock for their one     *)
(* statement, so each is one step.                                         *)
EXTENDS Integers, FiniteSets, SequencesExt, Order

CONSTANTS TrackDeltas,   \* [context, position, sog, ahead]: the source's clock may be ahead
          TrackConfigs,  \* [track_self, track_others, min_interval, max_age]
          TrackRequests, \* requests to read: functions from parameters to values
          OwnContexts,   \* "vessels.self" and the vessel's own URI
          NoSuch,        \* no position, speed or context; not running
          Malformed,     \* a parameter that does not parse
          MaxSightings, MaxTrackStarts, MaxMinutes

VARIABLES tracking,       \* the configuration of the running plugin, or NoSuch
          last_recorded,  \* when a point of each context was last recorded, in this run
          aux_cache,      \* the last speed heard of each context, in this run
          track_points,   \* the rows of the table, in the order they were inserted
          minute, heardDeltas, trackStarts

trackVars == <<tracking, last_recorded, aux_cache, track_points, minute, heardDeltas, trackStarts>>

Boats == {d.context : d \in TrackDeltas} \ {NoSuch}
SEGMENT_GAP == 5

TracksInit ==
  /\ tracking = NoSuch /\ track_points = <<>> /\ minute = 0
  /\ last_recorded = [v \in Boats |-> NoSuch] /\ aux_cache = [v \in Boats |-> NoSuch]
  /\ heardDeltas = 0 /\ trackStarts = 0

StartTracks ==
  /\ tracking = NoSuch /\ trackStarts < MaxTrackStarts /\ trackStarts' = trackStarts + 1
  /\ tracking' \in TrackConfigs
  /\ last_recorded' = [v \in Boats |-> NoSuch] /\ aux_cache' = [v \in Boats |-> NoSuch]
  /\ UNCHANGED <<track_points, minute, heardDeltas>>
StopTracks ==
  /\ tracking # NoSuch /\ tracking' = NoSuch
  /\ UNCHANGED <<last_recorded, aux_cache, track_points, minute, heardDeltas, trackStarts>>

Wanted(context) ==
  /\ context # NoSuch
  /\ IF context \in OwnContexts THEN tracking.track_self ELSE tracking.track_others

(* A point is due min_interval after the last one; a point from a clock    *)
(* that is ahead puts off the next until that time is reached.             *)
Due(context, timestamp) ==
  \/ last_recorded[context] = NoSuch
  \/ timestamp - last_recorded[context] >= tracking.min_interval

(* A speed is remembered whether or not a point is recorded with it.       *)
HearVessel ==
  /\ tracking # NoSuch /\ heardDeltas < MaxSightings /\ heardDeltas' = heardDeltas + 1
  /\ \E d \in TrackDeltas :
       /\ Wanted(d.context)
       /\ aux_cache' = IF d.sog = NoSuch THEN aux_cache
                       ELSE [aux_cache EXCEPT ![d.context] = d.sog]
       /\ IF d.position # NoSuch /\ Due(d.context, minute + d.ahead)
          THEN /\ last_recorded' = [last_recorded EXCEPT ![d.context] = minute + d.ahead]
               /\ track_points' = Append(track_points,
                    [context |-> d.context, at |-> d.position, timestamp |-> minute + d.ahead,
                     sog |-> aux_cache'[d.context]])
          ELSE UNCHANGED <<last_recorded, track_points>>
  /\ UNCHANGED <<tracking, minute, trackStarts>>

Keep(places) == track_points' = Among(track_points, places)

Prune ==
  /\ tracking # NoSuch
  /\ Keep({i \in DOMAIN track_points : track_points[i].timestamp >= minute - tracking.max_age})
  /\ UNCHANGED <<tracking, last_recorded, aux_cache, minute, heardDeltas, trackStarts>>

(* DELETE of a vessel's track, or of all of them; what the callback        *)
(* remembers is not touched.                                               *)
DeleteTracks ==
  /\ tracking # NoSuch
  /\ \/ \E v \in Boats : Keep({i \in DOMAIN track_points : track_points[i].context # v})
     \/ track_points' = <<>>
  /\ UNCHANGED <<tracking, last_recorded, aux_cache, minute, heardDeltas, trackStarts>>

MinutesPass ==
  /\ \E m \in {1, SEGMENT_GAP + 1} : minute + m <= MaxMinutes /\ minute' = minute + m
  /\ UNCHANGED <<tracking, last_recorded, aux_cache, track_points, heardDeltas, trackStarts>>

TracksNext ==
  StartTracks \/ StopTracks \/ HearVessel \/ Prune \/ DeleteTracks \/ MinutesPass
TracksSpec == TracksInit /\ [][TracksNext]_trackVars

-----------------------------------------------------------------------------
(* Answering a request: a function from the parameters given to values.    *)

Asked(q, param) == param \in DOMAIN q
parses(q) ==
  /\ \A param \in DOMAIN q : q[param] # Malformed
  /\ Asked(q, "center") => Asked(q, "radius")

(* Positions and times are numbers; so are a limit and a tolerance that    *)
(* parse; every vessel's name does.                                        *)
ASSUME TracksAssumption ==
  /\ NoSuch \notin Int /\ Malformed \notin Boats
  /\ \A d \in TrackDeltas : /\ d.position # NoSuch => d.position \in Int \X Int
                            /\ d.ahead \in Int
  /\ \A c \in TrackConfigs : c.min_interval \in Nat
  /\ \A q \in TrackRequests : parses(q) => /\ Asked(q, "limit") => q.limit \in Nat
                                           /\ Asked(q, "simplify") => q.simplify \in Int

Squared(a, b) == (a[1] - b[1]) * (a[1] - b[1]) + (a[2] - b[2]) * (a[2] - b[2])
Matches(q, r) ==
  /\ Asked(q, "context") => r.context = q.context
  /\ Asked(q, "after") => r.timestamp >= q.after
  /\ Asked(q, "before") => r.timestamp <= q.before
  /\ Asked(q, "bbox") => /\ q.bbox.south <= r.at[1] /\ r.at[1] <= q.bbox.north
                         /\ q.bbox.west <= r.at[2] /\ r.at[2] <= q.bbox.east
  /\ Asked(q, "center") => Squared(q.center, r.at) <= q.radius * q.radius

(* ORDER BY timestamp; rows of one moment stay as they were inserted.      *)
Ordered(rows) == SortedBy([i \in DOMAIN rows |-> rows[i].timestamp], rows)

limited(q, points) ==
  IF Asked(q, "limit") /\ Len(points) > q.limit
  THEN SubSeq(points, Len(points) - q.limit + 1, Len(points)) ELSE points

Splits_late(gap) == gap > SEGMENT_GAP + 1
Splits(gap) == gap > SEGMENT_GAP
segment_by_gap(points) ==
  LET starts == {i \in DOMAIN points :
                   i = 1 \/ Splits(points[i].timestamp - points[i - 1].timestamp)}
      first == Ascending(starts)
  IN  [k \in DOMAIN first |->
         SubSeq(points, first[k],
                IF k = Len(first) THEN Len(points) ELSE first[k + 1] - 1)]

(* Ramer-Douglas-Peucker.  How far p is off the line from a to b is        *)
(* sqrt(Off) / sqrt(Length); both are compared squared.                    *)
Off(p, a, b) ==
  LET cross == (p[1] - a[1]) * (b[2] - a[2]) - (p[2] - a[2]) * (b[1] - a[1])
  IN  IF a = b THEN Squared(p, a) ELSE cross * cross
Length(a, b) == IF a = b THEN 1 ELSE Squared(a, b)
Beyond(epsilon, p, a, b) == Off(p, a, b) > epsilon * epsilon * Length(a, b)

Furthest(points, s, e) ==
  LET off(i) == Off(points[i].at, points[s].at, points[e].at)
  IN  CHOOSE i \in s + 1 .. e - 1 : \A j \in s + 1 .. e - 1 :
        off(j) < off(i) \/ (off(j) = off(i) /\ i <= j)
simplify_track_points(points, epsilon) ==
  LET kept[span \in (DOMAIN points) \X (DOMAIN points)] ==
        LET s == span[1]  e == span[2]  m == Furthest(points, s, e)
        IN  IF e > s + 1 /\ Beyond(epsilon, points[m].at, points[s].at, points[e].at)
            THEN {m} \cup kept[<<s, m>>] \cup kept[<<m, e>>] ELSE {}
  IN  IF Len(points) <= 2 \/ epsilon <= 0 THEN points
      ELSE Among(points, {1, Len(points)} \cup kept[<<1, Len(points)>>])

(* The tracks that match, by vessel; vessels without a matching point are  *)
(* not in the answer.                                                      *)
query(q) ==
  LET rows == Ordered(track_points)
      found(v) == Among(rows, {i \in DOMAIN rows : rows[i].context = v /\ Matches(q, rows[i])})
  IN  [v \in {u \in Boats : found(u) # <<>>} |-> segment_by_gap(limited(q, found(v)))]
simplified(q, segments) ==
  IF Asked(q, "simplify")
  THEN [k \in DOMAIN segments |-> simplify_track_points(segments[k], q.simplify)] ELSE segments

(* GeoJSON: longitude first, and what the properties say of the track.     *)
track_to_feature(segments) ==
  LET points == FlattenSeq(segments)
  IN  [pointCount |-> Len(points),
       oldest |-> IF points = <<>> THEN NoSuch ELSE Head(points).timestamp,
       newest |-> IF points = <<>> THEN NoSuch ELSE Last(points).timestamp,
       coordinates |-> [k \in DOMAIN segments |-> [i \in DOMAIN segments[k] |->
                          <<segments[k][i].at[2], segments[k][i].at[1]>>]]]
(* GPX keeps each point's time and speed.                                  *)
tracks_to_gpx(segments) ==
  [k \in DOMAIN segments |-> [i \in DOMAIN segments[k] |->
     [lat |-> segments[k][i].at[1], lon |-> segments[k][i].at[2],
      time |-> segments[k][i].timestamp, sog |-> segments[k][i].sog]]]

handle_get_tracks(q) ==
  IF tracking = NoSuch THEN [status |-> 503]
  ELSE IF ~parses(q) THEN [status |-> 400]
  ELSE LET tracks == query(q)
           answer(v) == simplified(q, tracks[v])
       IN  [status |-> 200,
            body |-> [v \in DOMAIN tracks |-> IF Asked(q, "format") /\ q.format = "gpx"
                                              THEN tracks_to_gpx(answer(v))
                                              ELSE track_to_feature(answer(v))]]

(* GET vessels/<id>/track: the vessel's context goes in front, so one the  *)
(* request gives itself still counts.                                      *)
get_vessel_track(v, q) ==
  handle_get_tracks([p \in DOMAIN q \cup {"context"} |-> IF p \in DOMAIN q THEN q[p] ELSE v])

summary ==
  LET of(v) == {i \in DOMAIN track_points : track_points[i].context = v}
      times(v) == {track_points[i].timestamp : i \in of(v)}
  IN  [v \in {u \in Boats : of(u) # {}} |->
         [point_count |-> Cardinality(of(v)), oldest |-> Min(times(v)), newest |-> Max(times(v))]]

-----------------------------------------------------------------------------
(* What an answer owes the table: each track is the matching points, or    *)
(* the most recent of them, in order; a segment never spans a gap, and two *)
(* segments are never nearer than one.                                     *)
AnswersFit ==
  \A q \in TrackRequests : parses(q) => LET tracks == query(q) IN \A v \in DOMAIN tracks :
    LET segments == tracks[v]
        points == FlattenSeq(segments)
        matching == {i \in DOMAIN track_points :
                       track_points[i].context = v /\ Matches(q, track_points[i])}
    IN  /\ Len(points) = IF Asked(q, "limit") THEN Min({q.limit, Cardinality(matching)})
                         ELSE Cardinality(matching)
        /\ \A i \in DOMAIN points : \E j \in matching : track_points[j] = points[i]
        /\ \A i \in DOMAIN points \ {1} : points[i - 1].timestamp <= points[i].timestamp
        /\ \A j \in matching : points # <<>> =>
             track_points[j] \in ToSet(points) \/ track_points[j].timestamp <= points[1].timestamp
        /\ \A k \in DOMAIN segments : \A i \in DOMAIN segments[k] \ {1} :
             segments[k][i].timestamp <= segments[k][i - 1].timestamp + 5
        /\ \A k \in DOMAIN segments \ {1} :
             Head(segments[k]).timestamp > Last(segments[k - 1]).timestamp + 5

(* A simplified segment keeps its ends, and every point it drops lies      *)
(* within the tolerance of the line between the kept points around it.     *)
SimplifiedClose ==
  \A q \in {r \in TrackRequests : parses(r) /\ Asked(r, "simplify")} :
    LET tracks == query(q) IN \A v \in DOMAIN tracks : \A k \in DOMAIN tracks[v] :
      LET before == tracks[v][k]
          after == simplify_track_points(before, q.simplify)
      IN  /\ Head(after) = Head(before) /\ Last(after) = Last(before)
          /\ \A i \in DOMAIN before :
               \/ before[i] \in ToSet(after)
               \/ \E n \in DOMAIN after \ {1} :
                    /\ after[n - 1].timestamp <= before[i].timestamp
                    /\ before[i].timestamp <= after[n].timestamp
                    /\ ~Beyond(q.simplify, before[i].at, after[n - 1].at, after[n].at)

(* The points one run records of a vessel are min_interval apart.          *)
PointsSpaced ==
  trackStarts = 1 /\ tracking # NoSuch =>
    \A i, j \in DOMAIN track_points :
      i < j /\ track_points[i].context = track_points[j].context =>
        track_points[j].timestamp >= track_points[i].timestamp + tracking.min_interval

(* The summary and an unrestricted answer tell the same of every vessel.   *)
SummaryAgrees ==
  tracking # NoSuch =>
    LET all == handle_get_tracks([p \in {} |-> NoSuch]).body
        of(v) == get_vessel_track(v, [p \in {} |-> NoSuch]).body[v]
    IN  /\ DOMAIN summary = DOMAIN all
        /\ \A v \in DOMAIN all : /\ summary[v].point_count = of(v).pointCount
                                 /\ summary[v].oldest = all[v].oldest
                                 /\ summary[v].newest = all[v].newest

(* The plugin promises a track that is the vessel's, thinned out as        *)
(* configured, whatever was recorded, pruned or deleted before.            *)
TracksCorrect ==
  track_points # <<>> => AnswersFit /\ SimplifiedClose /\ PointsSpaced /\ SummaryAgrees
=============================================================================
