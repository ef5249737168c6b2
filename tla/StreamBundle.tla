---------------------------- MODULE StreamBundle ----------------------------
(***************************************************************************)
(* The bridge's view of the data stream, bridge/src/streambundle.js: one   *)
(* WebSocket that is opened again two seconds after it closed, a cache of  *)
(* the latest value of every path and one bus per path somebody asked for. *)
(*                                                                         *)
(* A socket that stop() closed still emits its "close" event later, and    *)
(* the handler of that event is the one that arms the reconnect timer.     *)
(* Values of one path are numbered by the server; connections without a    *)
(* subscription receive nothing and a subscription brings no old value.    *)
(***************************************************************************)
EXTENDS Integers, Sequences, FiniteSets

CONSTANTS
  MaxValues,        \* bound on values
  MaxWire,          \* bound on messages on the wire
  MaxOutages        \* bound on server outages

ASSUME BundleAssumption ==
  MaxValues \in Nat /\ MaxWire \in Nat \ {0} /\ MaxOutages \in Nat

VARIABLES
  serving, outages,
  current,          \* the path's value in the store
  ws,               \* the socket the bundle refers to
  closing,          \* sockets whose "close" event is still to come
  timers,           \* reconnect timers that will fire
  subscribed,       \* the server has got the subscription
  wire,             \* values on their way
  latest,           \* _latest, 0 without a value
  path_bus,         \* somebody asked for the path's stream
  pushed,           \* the values the bus has emitted
  bundle            \* "running" or "stopped"

bundleVars == <<serving, outages, current, ws, closing, timers, subscribed, wire,
                latest, path_bus, pushed, bundle>>

BundleInit ==
  /\ serving \in BOOLEAN /\ outages = 0 /\ current = 0
  /\ ws = "connecting"                \* start()
  /\ closing = 0 /\ timers = 0
  /\ subscribed = FALSE /\ wire = <<>>
  /\ latest = 0 /\ path_bus = FALSE /\ pushed = <<>>
  /\ bundle = "running"

Connection == <<ws, closing, timers, subscribed, wire>>
Data == <<latest, path_bus, pushed>>

(* The server (external): values change, it goes away and comes back.      *)
ValueChanges ==
  /\ serving /\ current < MaxValues /\ Len(wire) < MaxWire
  /\ current' = current + 1
  /\ wire' = IF subscribed THEN Append(wire, current') ELSE wire
  /\ UNCHANGED <<serving, outages, ws, closing, timers, subscribed, Data, bundle>>

Outage ==
  /\ serving /\ outages < MaxOutages /\ outages' = outages + 1
  /\ serving' = FALSE /\ subscribed' = FALSE
  /\ ws' = IF ws = "open" THEN "broken" ELSE ws
  /\ UNCHANGED <<current, closing, timers, wire, Data, bundle>>

ServerReturns ==
  /\ ~serving /\ serving' = TRUE
  /\ UNCHANGED <<outages, current, Connection, Data, bundle>>

(* "open": subscribe to ** of the self vessel.                             *)
Open ==
  /\ ws = "connecting" /\ serving
  /\ ws' = "open"
  /\ UNCHANGED <<serving, outages, current, closing, timers, subscribed, wire, Data, bundle>>

Subscribed ==
  /\ ws = "open" /\ serving /\ ~subscribed
  /\ subscribed' = TRUE
  /\ UNCHANGED <<serving, outages, current, ws, closing, timers, wire, Data, bundle>>

ProcessDelta_uncached ==
  /\ ws \in {"open", "broken"} /\ wire # <<>>
  /\ wire' = Tail(wire)
  /\ latest' = IF path_bus THEN latest ELSE Head(wire)
  /\ pushed' = IF path_bus THEN Append(pushed, Head(wire)) ELSE pushed
  /\ UNCHANGED <<serving, outages, current, ws, closing, timers, subscribed, path_bus, bundle>>

(* "message": every value goes to the cache, and to the bus if there is    *)
(* one.                                                                    *)
ProcessDelta ==
  /\ ws \in {"open", "broken"} /\ wire # <<>>
  /\ wire' = Tail(wire) /\ latest' = Head(wire)
  /\ pushed' = IF path_bus THEN Append(pushed, Head(wire)) ELSE pushed
  /\ UNCHANGED <<serving, outages, current, ws, closing, timers, subscribed, path_bus, bundle>>

(* getSelfStream of a late subscriber: the cached value comes first.       *)
GetSelfStream ==
  /\ ~path_bus /\ bundle = "running"
  /\ path_bus' = TRUE
  /\ pushed' = IF latest # 0 THEN <<latest>> ELSE <<>>
  /\ UNCHANGED <<serving, outages, current, Connection, latest, bundle>>

Lost_unarmed ==
  /\ ws = "broken" \/ (ws = "connecting" /\ ~serving)
  /\ ws' = "closed" /\ wire' = <<>>
  /\ UNCHANGED <<serving, outages, current, closing, timers, subscribed, Data, bundle>>

(* The connection breaks or is refused: "error" is logged, "close" arms    *)
(* the timer.                                                              *)
Lost ==
  /\ ws = "broken" \/ (ws = "connecting" /\ ~serving)
  /\ ws' = "closed" /\ wire' = <<>>
  /\ timers' = timers + 1
  /\ UNCHANGED <<serving, outages, current, closing, subscribed, Data, bundle>>

Reconnect ==
  /\ timers > 0
  /\ timers' = timers - 1
  /\ ws' = "connecting"
  /\ UNCHANGED <<serving, outages, current, closing, subscribed, wire, Data, bundle>>

Live == ws \in {"connecting", "open", "broken"}

(* stop() clears the timer, closes the socket and ends the buses.          *)
StopBundle ==
  /\ bundle = "running" /\ bundle' = "stopped"
  /\ timers' = 0
  /\ closing' = closing + (IF Live THEN 1 ELSE 0)
  /\ ws' = "none" /\ subscribed' = FALSE /\ wire' = <<>>
  /\ latest' = 0 /\ path_bus' = FALSE /\ pushed' = <<>>
  /\ UNCHANGED <<serving, outages, current>>

(* The "close" event of a socket that stop() closed.                       *)
ClosedAtLast ==
  /\ closing > 0 /\ closing' = closing - 1
  /\ timers' = timers + 1
  /\ UNCHANGED <<serving, outages, current, ws, subscribed, wire, Data, bundle>>

BundleNext ==
  \/ ValueChanges \/ Outage \/ ServerReturns
  \/ Open \/ Subscribed \/ ProcessDelta \/ GetSelfStream
  \/ Lost \/ Reconnect \/ StopBundle \/ ClosedAtLast

(* The event loop handles what happens, and timers fire.                   *)
BundleFairness ==
  /\ WF_bundleVars(Open) /\ WF_bundleVars(Subscribed) /\ WF_bundleVars(ProcessDelta)
  /\ WF_bundleVars(Lost) /\ WF_bundleVars(Reconnect)

BundleSpec == BundleInit /\ [][BundleNext]_bundleVars /\ BundleFairness

-----------------------------------------------------------------------------
(* Shapes; there is one live socket, timer or close event to come while    *)
(* the bundle runs and never more, or every value would arrive twice.      *)
BundleTypeOK ==
  /\ ws \in {"none", "connecting", "open", "broken", "closed"}
  /\ LET ways == (IF Live THEN 1 ELSE 0) + timers + closing
     IN  ways <= 1 /\ (bundle = "running" => ways = 1)
  /\ subscribed => ws = "open"
  /\ latest \in 0..current

(* A stream emits the values in the server's order and none twice, also    *)
(* across a reconnection and for a subscriber that came late; what it has  *)
(* emitted last is the cached value.                                       *)
StreamInOrder ==
  /\ \A i, j \in DOMAIN pushed : i < j => pushed[i] < pushed[j]
  /\ path_bus /\ latest # 0 => pushed # <<>> /\ pushed[Len(pushed)] = latest

(* What getSelfStream's subscribers rely on: one connection, and its values *)
(* in order.                                                               *)
BundleCorrect == BundleTypeOK /\ StreamInOrder

(* However often the server goes away, a running bundle is subscribed      *)
(* again once it stays.                                                    *)
StreamResumes == <>[]serving => []<>(subscribed \/ bundle = "stopped")
=============================================================================
