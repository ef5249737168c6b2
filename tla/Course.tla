------------------------------- MODULE Course ------------------------------
(***************************************************************************)
(* The course manager: crates/signalk-server/src/course/manager.rs behind  *)
(* the handlers of api/v2/course.rs, the listener for NMEA destinations    *)
(* and the five-second arrival timer (main.rs).                            *)
(*                                                                         *)
(* The manager keeps the course in three places - its own state, the state *)
(* file and the navigation.course.* paths of the store - plus the flag     *)
(* `source`.  Each sits behind a lock of its own and every operation       *)
(* visits them one after the other with an await in between, so an         *)
(* operation is a first step, which reads and perhaps writes the state,    *)
(* and a list of the steps still to do.  API requests, the listener and    *)
(* the timer run concurrently.                                             *)
(*                                                                         *)
(* Positions are numbers, routes are sequences of positions that do not    *)
(* change; the previous point, the start time and the remaining distance   *)
(* follow the same path as the next point and are left out.  A request     *)
(* that fails before it changes anything is no step.  Two writes of the    *)
(* state file do not overlap here.                                         *)
(***************************************************************************)
EXTENDS Integers, Sequences, FiniteSets

CONSTANTS
  Navigators,       \* concurrent API requests
  Destinations,     \* positions API clients navigate to
  NmeaDestinations, \* positions NMEA sentences navigate to
  Hrefs,            \* routes
  Routes,           \* Routes[h]: the points of route h
  Radius,           \* the arrival circle in use; 0 switches it off
  Times,            \* target arrival times
  ResolveFails,     \* may the resource provider fail?
  DiskFails,        \* may writing the state file fail?
  ArrivalCheck,     \* is the distance to the next point being calculated?
  NoCourse,
  Torn,             \* a state file that does not parse
  MaxOps,           \* bound on operations
  MaxRestarts       \* bound on restarts

Positions == Destinations \cup NmeaDestinations
               \cup UNION {{Routes[h][i] : i \in 1..Len(Routes[h])} : h \in Hrefs}

Route == [href : Hrefs, reverse : BOOLEAN, index : Nat, total : Nat]
CourseState == [next : Positions, route : Route \cup {NoCourse},
                circle : {0, Radius}, target : Times \cup {NoCourse}]
Actors == Navigators \cup {"nmea", "timer"}
StepNames == {"persist", "emit", "emit clear", "state", "source",
              "circle off", "circle on", "check source", "advance", "notify"}

ASSUME CourseAssumption ==
  /\ Routes \in [Hrefs -> Seq(Nat)]
  /\ \A h \in Hrefs : Len(Routes[h]) > 0
  /\ Destinations \subseteq Nat
  /\ NmeaDestinations \subseteq Nat
  /\ Radius \in Nat \ {0}
  /\ {"nmea", "timer"} \cap Navigators = {}
  /\ NoCourse \notin Nat \cup Route \cup CourseState \cup Times \cup Hrefs
  /\ Torn \notin CourseState \cup {NoCourse}
  /\ MaxOps \in Nat
  /\ MaxRestarts \in Nat

VARIABLES
  state,     \* the course, or NoCourse
  config,    \* arrival circle and api_only; in memory only
  source,    \* who set the course
  file,      \* the state file: a course, NoCourse or Torn
  shown,     \* navigation.course.* in the store
  distance,  \* the calculated distance: for which point, and inside or not
  op,        \* per actor: the course it carries and the steps left to do
  ops,
  restarts,
  unresolved \* has a reversal failed to resolve its route?

courseVars == <<state, config, source, file, shown, distance, op, ops, restarts,
          unresolved>>

-----------------------------------------------------------------------------
(* The route point an ActiveRoute is heading for (index counts from 0 in   *)
(* the direction of travel).                                               *)
PointAt(r) == IF r.reverse THEN Routes[r.href][Len(Routes[r.href]) - r.index]
              ELSE Routes[r.href][r.index + 1]

NothingShown == [next |-> NoCourse, href |-> NoCourse, circle |-> NoCourse, target |-> NoCourse]

(* emit_deltas: fields without a value are not sent and keep what they had.*)
Emitted(sh, c) ==
  [next   |-> c.next,
   href   |-> IF c.route # NoCourse THEN c.route.href ELSE sh.href,
   circle |-> IF c.circle > 0 THEN c.circle ELSE sh.circle,
   target |-> IF c.target # NoCourse THEN c.target ELSE sh.target]

DefaultConfig == [arrival_circle |-> 0, api_only |-> FALSE]
Resting == [course |-> NoCourse, steps |-> <<>>]
Busy(a) == op[a].steps # <<>>
At(a, step) == Busy(a) /\ Head(op[a].steps) = step

(* What load makes of the state file.                                      *)
Restored(f) == IF f = Torn THEN NoCourse ELSE f

CourseInit ==
  /\ state = NoCourse
  /\ config = DefaultConfig
  /\ source = "api"
  /\ file = NoCourse
  /\ shown = NothingShown
  /\ distance = NoCourse
  /\ op = [a \in Actors |-> Resting]
  /\ ops = 0
  /\ restarts = 0
  /\ unresolved = FALSE

(* Actor a starts an operation that carries course c.                      *)
Start(a, c, steps) ==
  /\ ~Busy(a)
  /\ ops < MaxOps
  /\ ops' = ops + 1
  /\ op' = [op EXCEPT ![a] = [course |-> c, steps |-> steps]]
  /\ UNCHANGED <<restarts, unresolved>>

(* Actor a is done with its current step.                                  *)
Done(a) ==
  /\ op' = [op EXCEPT ![a].steps = Tail(@)]
  /\ UNCHANGED <<ops, restarts, unresolved>>

(* The operation of actor a returns early.                                 *)
Abort(a) ==
  /\ op' = [op EXCEPT ![a] = Resting]
  /\ UNCHANGED <<ops, restarts, unresolved>>

-----------------------------------------------------------------------------
(* Operations that replace the course: apply_state persists, emits, sets   *)
(* the state, sets the source.  The arrival circle comes from the course   *)
(* being replaced.                                                         *)
Apply == <<"persist", "emit", "state", "source">>
InheritedCircle == IF state = NoCourse THEN 0 ELSE state.circle

SetDestination(a, pos) ==
  /\ Start(a, [next |-> pos, route |-> NoCourse, circle |-> InheritedCircle,
               target |-> NoCourse], Apply)
  /\ UNCHANGED <<state, config, source, file, shown, distance>>

(* Mutant: a reversed route starts at the first point of the route.        *)
SetActiveRoute_forward(a, h, reverse) ==
  LET r == [href |-> h, reverse |-> reverse, index |-> 0,
            total |-> Len(Routes[h])]
  IN  /\ Start(a, [next |-> Routes[h][1], route |-> r,
                   circle |-> InheritedCircle, target |-> NoCourse], Apply)
      /\ UNCHANGED <<state, config, source, file, shown, distance>>

SetActiveRoute(a, h, reverse) ==
  LET r == [href |-> h, reverse |-> reverse, index |-> 0,
            total |-> Len(Routes[h])]
  IN  /\ Start(a, [next |-> PointAt(r), route |-> r,
                   circle |-> InheritedCircle, target |-> NoCourse], Apply)
      /\ UNCHANGED <<state, config, source, file, shown, distance>>

(* apply_nmea_position, called by the listener: the api_only check and the *)
(* arrival circle of the config, then the same four steps.                 *)
NmeaPosition(pos) ==
  /\ ~config.api_only
  /\ Start("nmea", [next |-> pos, route |-> NoCourse,
                    circle |-> config.arrival_circle, target |-> NoCourse], Apply)
  /\ UNCHANGED <<state, config, source, file, shown, distance>>

Clear(a) ==
  /\ Start(a, NoCourse, <<"persist", "emit clear">>)
  /\ state' = NoCourse
  /\ UNCHANGED <<config, source, file, shown, distance>>

-----------------------------------------------------------------------------
(* Operations that change the course in place, under the write lock of the *)
(* state, and then persist and emit the copy they took.                    *)
Update(a, c) ==
  /\ state' = c
  /\ Start(a, c, <<"persist", "emit">>)
  /\ UNCHANGED <<config, source, file, shown, distance>>

OnRoute == state # NoCourse /\ state.route # NoCourse

(* The active route moves to point i.                                      *)
Heading(i) ==
  /\ OnRoute
  /\ i \in 0..(Len(Routes[state.route.href]) - 1)
  /\ LET r == [state.route EXCEPT !.index = i]
     IN  state' = [state EXCEPT !.route = r, !.next = PointAt(r)]

AdvanceNextPoint(a, d) ==
  /\ OnRoute
  /\ Heading(state.route.index + d)
  /\ Start(a, state', <<"persist", "emit">>)
  /\ UNCHANGED <<config, source, file, shown, distance>>

SetPointIndex(a, i) ==
  /\ Heading(i)
  /\ Start(a, state', <<"persist", "emit">>)
  /\ UNCHANGED <<config, source, file, shown, distance>>

ReverseRoute(a) ==
  /\ OnRoute
  /\ LET r == [state.route EXCEPT !.reverse = ~@, !.index = 0,
                 !.total = Len(Routes[state.route.href])]
     IN  Update(a, [state EXCEPT !.route = r, !.next = PointAt(r)])

(* The route cannot be resolved: the flag has been flipped already.        *)
ReverseRouteFails ==
  /\ ResolveFails
  /\ OnRoute
  /\ ops < MaxOps
  /\ ops' = ops + 1
  /\ state' = [state EXCEPT !.route.reverse = ~@]
  /\ unresolved' = TRUE
  /\ UNCHANGED <<config, source, file, shown, distance, op, restarts>>

SetTargetArrivalTime(a, t) ==
  /\ state # NoCourse
  /\ Update(a, [state EXCEPT !.target = t])

(* set_arrival_circle: the config first, then the course if there is one.  *)
CircleStep(r) == IF r = 0 THEN "circle off" ELSE "circle on"

SetArrivalCircle(a, r) ==
  /\ config' = [config EXCEPT !.arrival_circle = r]
  /\ Start(a, NoCourse, <<CircleStep(r)>>)
  /\ UNCHANGED <<state, source, file, shown, distance>>

ApplyCircle(a, r) ==
  /\ At(a, CircleStep(r))
  /\ IF state = NoCourse
     THEN Done(a) /\ UNCHANGED state
     ELSE /\ state' = [state EXCEPT !.circle = r]
          /\ op' = [op EXCEPT ![a] = [course |-> state',
                                      steps |-> <<"persist", "emit">>]]
          /\ UNCHANGED <<ops, restarts, unresolved>>
  /\ UNCHANGED <<config, source, file, shown, distance>>

(* enable_api_only: config, a look at the source, then an NMEA course goes.*)
EnableApiOnly(a) ==
  /\ config' = [config EXCEPT !.api_only = TRUE]
  /\ Start(a, NoCourse, <<"check source">>)
  /\ UNCHANGED <<state, source, file, shown, distance>>

CheckSource(a) ==
  /\ At(a, "check source")
  /\ op' = [op EXCEPT ![a].steps =
              IF source = "nmea"
              THEN <<"state", "source", "emit clear", "persist">>
              ELSE <<>>]
  /\ UNCHANGED <<state, config, source, file, shown, distance, ops, restarts, unresolved>>

DisableApiOnly(a) ==
  /\ config' = [config EXCEPT !.api_only = FALSE]
  /\ Start(a, NoCourse, <<>>)
  /\ UNCHANGED <<state, source, file, shown, distance>>

-----------------------------------------------------------------------------
(* The steps an operation goes through.                                    *)
Persist(a) ==
  /\ At(a, "persist")
  /\ file' = op[a].course
  /\ Done(a)
  /\ UNCHANGED <<state, config, source, shown, distance>>

(* Writing fails and the operation returns the error; removing the file    *)
(* fails and nobody notices.                                               *)
PersistFails(a) ==
  /\ DiskFails
  /\ At(a, "persist")
  /\ IF op[a].course = NoCourse THEN Done(a) ELSE Abort(a)
  /\ UNCHANGED <<state, config, source, file, shown, distance>>

EmitDeltas(a) ==
  /\ At(a, "emit")
  /\ shown' = Emitted(shown, op[a].course)
  /\ Done(a)
  /\ UNCHANGED <<state, config, source, file, distance>>

EmitClearDeltas(a) ==
  /\ At(a, "emit clear")
  /\ shown' = NothingShown
  /\ Done(a)
  /\ UNCHANGED <<state, config, source, file, distance>>

WriteState(a) ==
  /\ At(a, "state")
  /\ state' = op[a].course
  /\ Done(a)
  /\ UNCHANGED <<config, source, file, shown, distance>>

WriteSource(a) ==
  /\ At(a, "source")
  /\ source' = IF a = "nmea" THEN "nmea" ELSE "api"
  /\ Done(a)
  /\ UNCHANGED <<state, config, file, shown, distance>>

-----------------------------------------------------------------------------
(* The distance to the next point in the store is calculated by the        *)
(* derived-data plugin, some time after the point or the vessel moved.     *)
CourseDistance ==
  /\ ArrivalCheck
  /\ shown.next # NoCourse
  /\ \E inside \in BOOLEAN : distance' = [point |-> shown.next, inside |-> inside]
  /\ UNCHANGED <<state, config, source, file, shown, op, ops, restarts, unresolved>>

(* check_arrival, up to the release of the state lock.                     *)
CheckArrival ==
  /\ state # NoCourse
  /\ state.circle > 0
  /\ distance # NoCourse
  /\ distance.inside
  /\ Start("timer", NoCourse,
           IF state.route # NoCourse /\ state.route.index + 1 < state.route.total
           THEN <<"advance">> ELSE <<"notify">>)
  /\ UNCHANGED <<state, config, source, file, shown, distance>>

(* The automatic advance_next_point(1); its failure is logged.             *)
AutoAdvance ==
  /\ At("timer", "advance")
  /\ \/ /\ OnRoute
        /\ Heading(state.route.index + 1)
        /\ op' = [op EXCEPT !["timer"] = [course |-> state',
                                          steps |-> <<"persist", "emit">>]]
        /\ UNCHANGED <<ops, restarts, unresolved>>
     \/ /\ OnRoute => \/ ResolveFails
                      \/ state.route.index + 1 >= Len(Routes[state.route.href])
        /\ Abort("timer")
        /\ UNCHANGED state
  /\ UNCHANGED <<config, source, file, shown, distance>>

(* emit_arrival_notification; what becomes of it is in Notifications.      *)
NotifyArrival ==
  /\ At("timer", "notify")
  /\ Done("timer")
  /\ UNCHANGED <<state, config, source, file, shown, distance>>

(* The server stops, perhaps in the middle of a write, and comes up again: *)
(* load reads the file, everything else starts afresh.                     *)
Restart ==
  /\ restarts < MaxRestarts
  /\ restarts' = restarts + 1
  /\ file' \in {file} \cup
       {Torn : a \in {b \in Actors : At(b, "persist") /\ op[b].course # NoCourse}}
  /\ state' = Restored(file')
  /\ shown' = IF state' = NoCourse THEN NothingShown
              ELSE Emitted(NothingShown, state')
  /\ source' = "api"
  /\ config' = DefaultConfig
  /\ distance' = NoCourse
  /\ op' = [a \in Actors |-> Resting]
  /\ UNCHANGED <<ops, unresolved>>

CourseNext ==
  \/ \E a \in Navigators :
       \/ \E pos \in Destinations : SetDestination(a, pos)
       \/ \E h \in Hrefs, reverse \in BOOLEAN : SetActiveRoute(a, h, reverse)
       \/ Clear(a)
       \/ \E d \in {-1, 1} : AdvanceNextPoint(a, d)
       \/ \E h \in Hrefs : \E i \in 0..(Len(Routes[h]) - 1) : SetPointIndex(a, i)
       \/ ReverseRoute(a)
       \/ \E t \in Times \cup {NoCourse} : SetTargetArrivalTime(a, t)
       \/ \E r \in {0, Radius} : SetArrivalCircle(a, r)
       \/ EnableApiOnly(a)
       \/ DisableApiOnly(a)
  \/ ReverseRouteFails
  \/ \E pos \in NmeaDestinations : NmeaPosition(pos)
  \/ CheckArrival
  \/ AutoAdvance
  \/ NotifyArrival
  \/ \E a \in Actors :
       \/ \E r \in {0, Radius} : ApplyCircle(a, r)
       \/ CheckSource(a)
       \/ Persist(a)
       \/ PersistFails(a)
       \/ EmitDeltas(a)
       \/ EmitClearDeltas(a)
       \/ WriteState(a)
       \/ WriteSource(a)
  \/ CourseDistance
  \/ Restart

CourseSpec == CourseInit /\ [][CourseNext]_courseVars

-----------------------------------------------------------------------------
(* The three copies of the course, the flags and the operations.           *)
CourseTypeOK ==
  /\ state \in CourseState \cup {NoCourse}
  /\ config \in [arrival_circle : {0, Radius}, api_only : BOOLEAN]
  /\ source \in {"api", "nmea"}
  /\ file \in CourseState \cup {NoCourse, Torn}
  /\ shown \in [next : Positions \cup {NoCourse}, href : Hrefs \cup {NoCourse},
                circle : {NoCourse, Radius}, target : Times \cup {NoCourse}]
  /\ op \in [Actors -> [course : CourseState \cup {NoCourse},
                        steps : Seq(StepNames)]]
  /\ ops \in 0..MaxOps
  /\ restarts \in 0..MaxRestarts
  /\ unresolved \in BOOLEAN

CourseQuiet == \A a \in Actors : ~Busy(a)

(* Every copy of the course: current, on disk and on its way.              *)
Copies == ({state, file} \cup {op[a].course : a \in Actors}) \ {NoCourse, Torn}

(* Whatever requests, listener, timer and restarts interleave, and         *)
(* whatever fails, a course on a route has its index inside the route and  *)
(* heads for the point at that index, counted from one end or the other.   *)
HeadsForRoutePoint ==
  \A c \in Copies :
    c.route # NoCourse =>
      /\ c.route.total = Len(Routes[c.route.href])
      /\ c.route.index < c.route.total
      /\ c.next \in {PointAt([c.route EXCEPT !.reverse = b]) : b \in BOOLEAN}

(* Until a reversal fails half way it is the right end: no copy of the     *)
(* course mixes the points of two operations (advance, jump, reverse, set).*)
RouteConsistent ==
  ~unresolved => \A c \in Copies : c.route # NoCourse => c.next = PointAt(c.route)

(* What clients and the next start of the server rely on in a course.      *)
CourseCorrect == CourseTypeOK /\ HeadsForRoutePoint /\ RouteConsistent

(* "On every state change, persists to disk and emits deltas": when no     *)
(* operation is under way a restart would restore the current course, and  *)
(* the store shows its next point.                                         *)
MirrorsAgree ==
  CourseQuiet => /\ Restored(file) = state
           /\ shown.next = IF state = NoCourse THEN NoCourse ELSE state.next

=============================================================================
