----------------------------- MODULE LinksProofs -----------------------------
(* Theorems about what is linked to the server from outside: the Node.js   *)
(* bridge (Bridge), its data stream (StreamBundle), the NMEA receivers     *)
(* (NmeaReceive) and senders (NmeaSend), for any number of plugins,        *)
(* requests, connections and restarts; and about the values derived from   *)
(* what they bring (DerivedData).                                          *)
EXTENDS Bridge, StreamBundle, NmeaReceive, NmeaSend, DerivedData, PathValuesProofs,
        SequenceTheorems, TLAPS

-----------------------------------------------------------------------------
(* The bridge.                                                             *)

Kinds == {"handler", "routes", "answer"}

(* What the current bridge has sent is of plugins it has a handler for.    *)
MessagesInv ==
  /\ bridge_starts \in Nat
  /\ \A m \in outbox :
       /\ m.kind \in Kinds /\ m.plugin \in JsPlugins /\ m.from \in 0..bridge_starts
       /\ m.from = bridge_starts /\ phase # "down" => m.plugin \in local_handlers

BridgeInv ==
  /\ BridgeTypeOK /\ ForwardsFindHandler /\ MessagesInv
  /\ tasks \subseteq SUBSET JsPlugins
  /\ routers \in [JsPlugins -> Nat]
  /\ DOMAIN forward = HttpClients

(* What these actions leave alone is all the invariant looks at.           *)
LEMMA ServerStep ==
  ASSUME BridgeInv, ServerDies \/ ServerStarts \/ \E plugins \in tasks : ListPlugins(plugins)
  PROVE  BridgeInv'
<1> USE BridgeAssumption DEF serverVars, bridgeVars, trafficVars
<1>1. CASE ServerDies
  <2>1. /\ joined' = 0 /\ tier2_handlers' = [x \in PutPaths |-> Unset]
        /\ tier2_routes' = {} /\ listed' = {} /\ tasks' = {}
        /\ forward' = [c \in HttpClients |-> NoForward]
        /\ outbox' \subseteq outbox
        /\ UNCHANGED <<phase, bridge_starts, local_handlers, routers>>
    BY <1>1 DEF ServerDies
  <2>2. ToBridge' = {}
    BY <2>1 DEF ToBridge, NoForward
  <2>3. BridgeTypeOK'
    BY <2>1, <2>2 DEF BridgeInv, BridgeTypeOK, MessagesInv
  <2>4. ForwardsFindHandler'
    BY <2>1 DEF ForwardsFindHandler
  <2>5. MessagesInv'
    BY <2>1 DEF BridgeInv, MessagesInv
  <2> QED
    BY <2>1, <2>3, <2>4, <2>5 DEF BridgeInv
<1>2. CASE ServerStarts
  BY <1>2 DEF ServerStarts, BridgeInv, BridgeTypeOK, ForwardsFindHandler, MessagesInv, ToBridge
<1>3. ASSUME NEW plugins \in tasks, ListPlugins(plugins) PROVE BridgeInv'
  BY <1>3 DEF ListPlugins, BridgeInv, BridgeTypeOK, ForwardsFindHandler, MessagesInv, ToBridge
<1> QED
  BY <1>1, <1>2, <1>3

(* A bridge that goes takes its handlers with it, and what the server      *)
(* still has of them is stale.                                             *)
LEMMA GoneStep ==
  ASSUME BridgeInv, BridgeGone, UNCHANGED serverVars, ToBridge' = {},
         DOMAIN forward' = HttpClients
  PROVE  BridgeInv'
<1>1. /\ phase' = "down" /\ local_handlers' = {}
      /\ routers' = [p \in JsPlugins |-> 0]
      /\ stale' = stale \cup {x \in PutPaths : tier2_handlers[x] # Unset}
      /\ outbox' \subseteq outbox
      /\ UNCHANGED <<bridge_starts, joined, tier2_handlers, tier2_routes, listed, tasks>>
  BY DEF BridgeGone, serverVars
<1>2. BridgeTypeOK'
  BY <1>1 DEF BridgeInv, BridgeTypeOK
<1>3. ForwardsFindHandler' /\ MessagesInv'
  BY <1>1 DEF BridgeInv, ForwardsFindHandler, MessagesInv
<1> QED
  BY <1>1, <1>2, <1>3 DEF BridgeInv

LEMMA BrokenForgets ==
  ASSUME DOMAIN forward = HttpClients
  PROVE  /\ DOMAIN Broken = HttpClients
         /\ forward' = Broken => ToBridge' = {} /\ DOMAIN forward' = HttpClients
         /\ \A c \in HttpClients :
              forward' = [Broken EXCEPT ![c] = Answered(200)]
                => ToBridge' = {} /\ DOMAIN forward' = HttpClients
<1> DEFINE shut == [c \in HttpClients |-> IF c \in ToBridge THEN [at |-> "none"]
                                            ELSE forward[c]]
<1>1. Broken = shut /\ DOMAIN shut = HttpClients
  BY DEF Broken, Answered, NoForward
<1>2. \A c \in HttpClients : shut[c].at \notin {"bridge", "handler", "hung"}
  BY DEF ToBridge
<1> HIDE DEF shut
<1>3. forward' = shut => ToBridge' = {}
  BY <1>2 DEF ToBridge
<1>4. ASSUME NEW c \in HttpClients, forward' = [shut EXCEPT ![c] = [at |-> "none"]]
      PROVE  ToBridge' = {} /\ DOMAIN forward' = HttpClients
  <2>1. \A d \in HttpClients : forward'[d] = IF d = c THEN [at |-> "none"] ELSE shut[d]
    BY <1>1, <1>4
  <2> QED
    BY <1>1, <1>2, <1>4, <2>1 DEF ToBridge
<1> QED
  BY <1>1, <1>3, <1>4 DEF Answered, NoForward

(* A plugin keeps its handler before anything about it is sent.            *)
LEMMA PluginStep ==
  ASSUME BridgeInv, NEW p \in JsPlugins, NEW n,
         phase # "down", UNCHANGED <<serverVars, phase, bridge_starts, routers, forward, stale>>,
         \/ StartPlugin(p, n)
         \/ UNCHANGED <<local_handlers, outbox>>
  PROVE  BridgeInv'
<1>1. CASE UNCHANGED <<local_handlers, outbox>>
  BY <1>1 DEF serverVars, BridgeInv, BridgeTypeOK, ForwardsFindHandler, MessagesInv, ToBridge
<1>2. CASE StartPlugin(p, n)
  <2>1. /\ local_handlers' = local_handlers \cup {p}
        /\ outbox' = outbox \cup {Message("handler", p, 0), Message("routes", p, n)}
        /\ UNCHANGED <<joined, tier2_handlers, tier2_routes, listed, tasks>>
    BY <1>2 DEF StartPlugin, Registrations, serverVars
  <2>2. \A k, i : /\ Message(k, p, i).plugin = p /\ Message(k, p, i).kind = k
                  /\ Message(k, p, i).from = bridge_starts
    BY DEF Message
  <2>3. MessagesInv'
    BY <2>1, <2>2 DEF Kinds, BridgeInv, MessagesInv
  <2>4. BridgeTypeOK' /\ ForwardsFindHandler'
    BY <2>1 DEF BridgeInv, BridgeTypeOK, ForwardsFindHandler, ToBridge
  <2> QED
    BY <2>1, <2>3, <2>4 DEF BridgeInv
<1> QED
  BY <1>1, <1>2

LEMMA BridgeProcessStep ==
  ASSUME BridgeInv,
         \/ BridgeDies \/ BridgeStarts \/ RegisterBridge \/ RegisterFails \/ ReportPlugins
         \/ \E p \in JsPlugins :
              \/ \E o \in {"started", "failed", "none"} : LoadPlugin(p, o)
              \/ \E o \in {"started", "failed"} : RestartPlugin(p, o)
  PROVE  BridgeInv'
<1> USE DEF serverVars, bridgeVars, trafficVars
<1>1. CASE BridgeDies
  BY <1>1, GoneStep, BrokenForgets DEF BridgeDies, BridgeInv
<1>2. CASE BridgeStarts
  <2>1. /\ phase = "down" /\ phase' = "register" /\ bridge_starts' = bridge_starts + 1
        /\ UNCHANGED <<joined, tier2_handlers, tier2_routes, listed, tasks, local_handlers,
                       routers, outbox, forward, stale>>
    BY <1>2 DEF BridgeStarts
  <2> QED
    BY <2>1 DEF BridgeInv, BridgeTypeOK, ForwardsFindHandler, MessagesInv, ToBridge
<1>3. CASE RegisterBridge
  BY <1>3 DEF RegisterBridge, BridgeInv, BridgeTypeOK, ForwardsFindHandler, MessagesInv, ToBridge
<1>4. CASE RegisterFails
  <2>1. CASE phase = "register" /\ phase' = "retry"
             /\ UNCHANGED <<bridge_starts, token, to_load, plugin_status, local_handlers,
                            routers, outbox, forward, stale>>
    BY <1>4, <2>1
       DEF RegisterFails, BridgeInv, BridgeTypeOK, ForwardsFindHandler, MessagesInv, ToBridge
  <2>2. CASE BridgeGone /\ forward' = Broken
    BY <1>4, <2>2, GoneStep, BrokenForgets DEF RegisterFails, BridgeInv
  <2> QED
    BY <1>4, <2>1, <2>2 DEF RegisterFails
<1>5. CASE ReportPlugins
  <2>1. /\ phase = "load" /\ phase' = "run"
        /\ tasks' \subseteq SUBSET JsPlugins
        /\ UNCHANGED <<joined, tier2_handlers, tier2_routes, listed, bridge_starts,
                       local_handlers, routers, outbox, forward, stale>>
    BY <1>5 DEF ReportPlugins, BridgeInv
  <2> QED
    BY <2>1 DEF BridgeInv, BridgeTypeOK, ForwardsFindHandler, MessagesInv, ToBridge
<1>6. ASSUME NEW p \in JsPlugins, NEW o, LoadPlugin(p, o) PROVE BridgeInv'
  BY <1>6, PluginStep DEF LoadPlugin
<1>7. ASSUME NEW p \in JsPlugins, NEW o, RestartPlugin(p, o) PROVE BridgeInv'
  BY <1>7, PluginStep DEF RestartPlugin
<1> QED
  BY <1>1, <1>2, <1>3, <1>4, <1>5, <1>6, <1>7

LEMMA MessageStep ==
  ASSUME BridgeInv, NEW m \in outbox, Deliver(m) \/ Listen(m) \/ Lose(m)
  PROVE  BridgeInv'
<1> USE DEF serverVars, bridgeVars
<1>1. /\ m.plugin \in JsPlugins /\ m.from \in 0..bridge_starts
      /\ m.from = bridge_starts /\ phase # "down" => m.plugin \in local_handlers
  BY DEF BridgeInv, MessagesInv
<1>2. CASE Deliver(m)
  <2>1. UNCHANGED <<joined, listed, tasks, phase, bridge_starts, local_handlers,
                    routers, forward>>
    BY <1>2 DEF Deliver
  <2>2. MessagesInv'
    <3> DEFINE answer == [m EXCEPT !.kind = "answer"]
    <3>1. outbox' \subseteq outbox \cup {answer} /\ UNCHANGED <<phase, bridge_starts, local_handlers>>
      BY <1>2 DEF Deliver
    <3>2. /\ answer.plugin = m.plugin /\ answer.from = m.from
          /\ answer.kind \in Kinds
      BY DEF Kinds
    <3> HIDE DEF answer
    <3> QED
      BY <1>1, <3>1, <3>2 DEF BridgeInv, MessagesInv
  <2>3. CASE m.kind = "handler"
    <3> DEFINE x == PathOf[m.plugin]
    <3>1. /\ tier2_handlers' = [tier2_handlers EXCEPT ![x] = m.plugin]
          /\ stale' = IF m.from = bridge_starts /\ phase # "down"
                      THEN stale \ {x} ELSE stale \cup {x}
          /\ UNCHANGED tier2_routes
      BY <1>2, <2>3 DEF Deliver
    <3>2. BridgeTypeOK'
      BY <1>1, <2>1, <3>1 DEF BridgeInv, BridgeTypeOK, ToBridge
    <3>3. \A y \in PutPaths \ {x} : tier2_handlers'[y] = tier2_handlers[y]
      BY <3>1 DEF BridgeInv, BridgeTypeOK
    <3>4. x \in PutPaths => tier2_handlers'[x] = m.plugin
      BY <3>1 DEF BridgeInv, BridgeTypeOK
    <3>5. ForwardsFindHandler'
      BY <1>1, <2>1, <3>1, <3>3, <3>4 DEF BridgeInv, ForwardsFindHandler
    <3> QED
      BY <2>1, <2>2, <3>2, <3>5 DEF BridgeInv
  <2>4. CASE m.kind # "handler"
    <3>1. /\ UNCHANGED <<tier2_handlers, stale>>
          /\ tier2_routes' = tier2_routes \cup {m.plugin}
      BY <1>2, <2>4 DEF Deliver, BridgeInv, MessagesInv, Kinds
    <3>2. BridgeTypeOK' /\ ForwardsFindHandler'
      BY <1>1, <2>1, <3>1 DEF BridgeInv, BridgeTypeOK, ForwardsFindHandler, ToBridge
    <3> QED
      BY <2>1, <2>2, <3>2 DEF BridgeInv
  <2> QED
    BY <2>3, <2>4
<1>3. CASE Listen(m)
  <2>1. /\ outbox' \subseteq outbox /\ m.from = bridge_starts /\ phase # "down"
        /\ routers' = [routers EXCEPT ![m.plugin] = @ + 1]
        /\ UNCHANGED <<joined, tier2_handlers, tier2_routes, listed, tasks, phase,
                       bridge_starts, local_handlers, forward, stale>>
    BY <1>3 DEF Listen
  <2>2. routers' \in [JsPlugins -> Nat]
    BY <1>1, <2>1 DEF BridgeInv
  <2>3. \A p \in JsPlugins : routers'[p] > 0 => p \in local_handlers
    BY <1>1, <2>1 DEF BridgeInv, BridgeTypeOK
  <2>4. BridgeTypeOK' /\ ForwardsFindHandler' /\ MessagesInv'
    BY <2>1, <2>3 DEF BridgeInv, BridgeTypeOK, ForwardsFindHandler, MessagesInv, ToBridge
  <2> QED
    BY <2>1, <2>2, <2>4 DEF BridgeInv
<1>4. CASE Lose(m)
  <2>1. /\ outbox' \subseteq outbox
        /\ UNCHANGED <<joined, tier2_handlers, tier2_routes, listed, tasks, phase,
                       bridge_starts, local_handlers, routers, forward, stale>>
    BY <1>4 DEF Lose
  <2> QED
    BY <2>1 DEF BridgeInv, BridgeTypeOK, ForwardsFindHandler, MessagesInv, ToBridge
<1> QED
  BY <1>2, <1>3, <1>4

(* A request is with the bridge only while there is one.                   *)
LEMMA RequestStep ==
  ASSUME BridgeInv, NEW c \in HttpClients,
         \/ ClientStep(c)
         \/ \E x \in PutPaths : Forward(c, "put", x)
         \/ \E p \in JsPlugins : Forward(c, "proxy", p)
  PROVE  BridgeInv'
<1> USE DEF serverVars, bridgeVars, trafficVars
<1>1. ASSUME NEW next,
             UNCHANGED <<serverVars, bridgeVars, outbox, stale>>,
             forward' = [forward EXCEPT ![c] = next],
             phase = "down" => next.at \notin {"bridge", "handler", "hung"}
      PROVE  BridgeInv'
  <2>1. /\ DOMAIN forward' = HttpClients
        /\ \A d \in HttpClients : forward'[d] = IF d = c THEN next ELSE forward[d]
    BY <1>1 DEF BridgeInv
  <2>2. phase' = "down" => ToBridge' = {}
    BY <1>1, <2>1 DEF BridgeInv, BridgeTypeOK, ToBridge
  <2>3. BridgeTypeOK'
    BY <1>1, <2>2 DEF BridgeInv, BridgeTypeOK
  <2>4. ForwardsFindHandler' /\ MessagesInv'
    BY <1>1 DEF BridgeInv, ForwardsFindHandler, MessagesInv
  <2> QED
    BY <1>1, <2>1, <2>3, <2>4 DEF BridgeInv
<1>2. ASSUME NEW next, Moves(c, next),
             phase = "down" => next.at \notin {"bridge", "handler", "hung"}
      PROVE  BridgeInv'
  BY <1>1, <1>2 DEF Moves
<1>3. \A code : Answered(code).at = "none"
  BY DEF Answered, NoForward
<1>4. ASSUME NEW kind, NEW x, Forward(c, kind, x) PROVE BridgeInv'
  <2>1. [at |-> "find", kind |-> kind, target |-> x].at = "find"
    OBVIOUS
  <2> QED
    BY <1>1, <1>4, <2>1 DEF Forward
<1>5. CASE FindTarget(c)
  <2> DEFINE f == forward[c]
             p == IF f.kind = "put" THEN tier2_handlers[f.target]
                  ELSE IF f.target \in tier2_routes THEN f.target ELSE Unset
             next == IF p = Unset THEN Answered(404)
                     ELSE [at |-> "send", kind |-> f.kind, plugin |-> p]
  <2>1. Moves(c, next)
    BY <1>5 DEF FindTarget
  <2>2. next.at \in {"none", "send"}
    BY <1>3
  <2> HIDE DEF next
  <2> QED
    BY <1>2, <2>1, <2>2
<1>6. CASE Send(c)
  BY <1>2, <1>3, <1>6 DEF Send
<1>7. CASE HandlePut(c)
  BY <1>2, <1>7 DEF HandlePut
<1>8. CASE HandleProxy(c)
  BY <1>2, <1>8 DEF HandleProxy
<1>9. CASE RespondTwice(c)
  BY <1>9, GoneStep, BrokenForgets DEF RespondTwice, BridgeInv
<1>10. ASSUME NEW b \in BOOLEAN, HandlerReturns(c, b) PROVE BridgeInv'
  BY <1>2, <1>10 DEF HandlerReturns
<1> QED
  BY <1>4, <1>5, <1>6, <1>7, <1>8, <1>9, <1>10 DEF ClientStep

LEMMA BridgeStep ==
  ASSUME BridgeInv, [BridgeNext]_linkVars
  PROVE  BridgeInv'
<1>1. CASE UNCHANGED linkVars
  BY <1>1 DEF linkVars, serverVars, bridgeVars, trafficVars, BridgeInv, BridgeTypeOK,
       ForwardsFindHandler, MessagesInv, ToBridge
<1>2. CASE BridgeNext
  BY <1>2, ServerStep, BridgeProcessStep, MessageStep, RequestStep DEF BridgeNext
<1> QED
  BY <1>1, <1>2

(* However registrations, requests, crashes and restarts of the two        *)
(* processes overtake each other, a PUT the server forwards finds the      *)
(* handler it was registered for, unless a dead bridge registered it.      *)
THEOREM BridgeStaysConsistent == BridgeSpec => []BridgeConsistent
<1>1. BridgeInit => BridgeInv
  <2>1. ASSUME BridgeInit PROVE BridgeTypeOK
    BY <2>1 DEF BridgeInit, BridgeTypeOK, ToBridge, NoForward
  <2>2. ASSUME BridgeInit PROVE ForwardsFindHandler /\ MessagesInv
    BY <2>2 DEF BridgeInit, ForwardsFindHandler, MessagesInv
  <2> QED
    BY <2>1, <2>2 DEF BridgeInit, BridgeInv
<1>2. BridgeInv /\ [BridgeNext]_linkVars => BridgeInv'
  BY BridgeStep
<1>3. BridgeInv => BridgeConsistent
  BY DEF BridgeInv, BridgeConsistent
<1> QED
  BY <1>1, <1>2, <1>3, PTL DEF BridgeSpec

-----------------------------------------------------------------------------
(* The bridge's data stream.                                               *)

Increasing(s) == \A i, j \in 1..Len(s) : i < j => s[i] < s[j]

(* All values on the wire are newer than the cached one and in order, so   *)
(* the bus gets them in order.                                             *)
WireInv ==
  /\ wire \in Seq(Nat) /\ Increasing(wire)
  /\ \A i \in 1..Len(wire) : latest < wire[i] /\ wire[i] <= current

PushedInv ==
  /\ pushed \in Seq(Nat) /\ Increasing(pushed)
  /\ \A i \in 1..Len(pushed) : pushed[i] <= latest
  /\ path_bus /\ latest # 0 => pushed # <<>> /\ pushed[Len(pushed)] = latest

BundleInv ==
  /\ BundleTypeOK
  /\ current \in Nat /\ timers \in Nat /\ closing \in Nat
  /\ bundle \in {"running", "stopped"} /\ path_bus \in BOOLEAN
  /\ WireInv /\ PushedInv

LEMMA LastOrBefore ==
  ASSUME NEW n \in Nat, NEW m \in Nat, m = n + 1
  PROVE  \A j \in 1..m : j = m \/ j \in 1..n
OBVIOUS

LEMMA AppendIncreasing ==
  ASSUME NEW s \in Seq(Nat), NEW v \in Nat, Increasing(s),
         \A i \in 1..Len(s) : s[i] < v
  PROVE  /\ Append(s, v) \in Seq(Nat) /\ Increasing(Append(s, v))
         /\ Append(s, v) # <<>> /\ Append(s, v)[Len(Append(s, v))] = v
         /\ Len(Append(s, v)) = Len(s) + 1
         /\ \A i \in 1..Len(s) : Append(s, v)[i] = s[i]
<1> DEFINE t == Append(s, v)
<1>1. /\ t \in Seq(Nat) /\ Len(t) = Len(s) + 1 /\ t[Len(s) + 1] = v
      /\ \A i \in 1..Len(s) : t[i] = s[i]
  BY AppendProperties
<1>2. Len(s) \in Nat /\ \A i \in 1..Len(s) : s[i] \in Nat
  OBVIOUS
<1> HIDE DEF t
<1>3. t # <<>>
  BY <1>1, <1>2
<1>4. Increasing(t)
  <2> SUFFICES ASSUME NEW i \in 1..Len(t), NEW j \in 1..Len(t), i < j
               PROVE  t[i] < t[j]
    BY DEF Increasing
  <2>1. i \in 1..Len(s) /\ t[i] = s[i]
    BY <1>1, <1>2
  <2>2. CASE j = Len(s) + 1
    BY <1>1, <2>1, <2>2
  <2>3. CASE j # Len(s) + 1
    <3>1. j \in 1..Len(s)
      <4>1. Len(t) = Len(s) + 1 /\ Len(s) \in Nat /\ Len(t) \in Nat
        BY <1>1, <1>2
      <4> QED
        BY <2>3, <4>1, LastOrBefore, Zenon
    <3>2. t[j] = s[j]
      BY <1>1, <3>1
    <3> QED
      BY <2>1, <3>1, <3>2 DEF Increasing
  <2> QED
    BY <2>2, <2>3
<1> QED
  BY <1>1, <1>2, <1>3, <1>4 DEF t

LEMMA TailIncreasing ==
  ASSUME NEW s \in Seq(Nat), s # <<>>, Increasing(s)
  PROVE  /\ Head(s) \in Nat /\ Head(s) = s[1] /\ Len(s) >= 1
         /\ Tail(s) \in Seq(Nat) /\ Increasing(Tail(s)) /\ Len(Tail(s)) = Len(s) - 1
         /\ \A i \in 1..Len(Tail(s)) : Tail(s)[i] = s[i + 1] /\ Head(s) < Tail(s)[i]
<1> DEFINE t == Tail(s)
<1>1. /\ Head(s) = s[1] /\ Head(s) \in Nat
      /\ t \in Seq(Nat) /\ Len(t) = Len(s) - 1
      /\ \A i \in 1..Len(t) : t[i] = s[i + 1]
  BY HeadTailProperties
<1>2. Len(s) \in Nat /\ Len(s) >= 1
  OBVIOUS
<1> HIDE DEF t
<1>3. Increasing(t)
  <2> SUFFICES ASSUME NEW i \in 1..Len(t), NEW j \in 1..Len(t), i < j
               PROVE  t[i] < t[j]
    BY DEF Increasing
  <2>1. i + 1 \in 1..Len(s) /\ j + 1 \in 1..Len(s) /\ i + 1 < j + 1
    BY <1>1, <1>2
  <2>2. s[i + 1] < s[j + 1]
    BY <2>1 DEF Increasing
  <2> QED
    BY <1>1, <2>2
<1>4. ASSUME NEW i \in 1..Len(t) PROVE s[1] < t[i]
  <2>1. 1 \in 1..Len(s) /\ i + 1 \in 1..Len(s) /\ 1 < i + 1
    BY <1>1, <1>2
  <2>2. s[1] < s[i + 1]
    BY <2>1 DEF Increasing
  <2> QED
    BY <1>1, <2>2
<1> QED
  BY <1>1, <1>2, <1>3, <1>4 DEF t

LEMMA NothingIncreasing ==
  <<>> \in Seq(Nat) /\ Increasing(<<>>) /\ Len(<<>>) = 0
BY DEF Increasing

(* The socket, the timer and the close event make way for each other.      *)
LEMMA ConnectionStep ==
  ASSUME BundleInv,
         \/ Outage \/ ServerReturns \/ Open \/ Subscribed \/ Lost \/ Reconnect
         \/ ClosedAtLast
  PROVE  BundleInv'
<1> USE DEF Connection, Data
<1>1. UNCHANGED <<current, latest, path_bus, pushed, bundle>>
  BY DEF Outage, ServerReturns, Open, Subscribed, Lost, Reconnect, ClosedAtLast
<1>2. wire' \in {wire, <<>>}
  BY DEF Outage, ServerReturns, Open, Subscribed, Lost, Reconnect, ClosedAtLast
<1>3. timers' \in Nat /\ closing' \in Nat
  BY DEF BundleInv, Outage, ServerReturns, Open, Subscribed, Lost, Reconnect, ClosedAtLast
<1>4. BundleTypeOK'
  <2>1. CASE Outage
    BY <2>1 DEF Outage, BundleInv, BundleTypeOK, Live
  <2>2. CASE ServerReturns
    BY <2>2 DEF ServerReturns, BundleInv, BundleTypeOK, Live
  <2>3. CASE Open
    BY <2>3 DEF Open, BundleInv, BundleTypeOK, Live
  <2>4. CASE Subscribed
    BY <2>4 DEF Subscribed, BundleInv, BundleTypeOK, Live
  <2>5. CASE Lost
    BY <2>5 DEF Lost, BundleInv, BundleTypeOK, Live
  <2>6. CASE Reconnect
    BY <2>6 DEF Reconnect, BundleInv, BundleTypeOK, Live
  <2>7. CASE ClosedAtLast
    BY <2>7 DEF ClosedAtLast, BundleInv, BundleTypeOK, Live
  <2> QED
    BY <2>1, <2>2, <2>3, <2>4, <2>5, <2>6, <2>7
<1>5. WireInv'
  <2>1. CASE wire' = wire
    BY <1>1, <2>1 DEF BundleInv, WireInv
  <2>2. CASE wire' = <<>>
    BY <2>2, NothingIncreasing DEF WireInv
  <2> QED
    BY <1>2, <2>1, <2>2
<1>6. PushedInv'
  BY <1>1 DEF BundleInv, PushedInv
<1> QED
  BY <1>1, <1>3, <1>4, <1>5, <1>6 DEF BundleInv

LEMMA DataStep ==
  ASSUME BundleInv, ValueChanges \/ ProcessDelta \/ GetSelfStream \/ StopBundle
  PROVE  BundleInv'
<1> USE DEF Connection, Data
<1>1. /\ current \in Nat /\ latest \in 0..current /\ latest \in Nat
      /\ wire \in Seq(Nat) /\ Increasing(wire)
      /\ pushed \in Seq(Nat) /\ Increasing(pushed)
  BY DEF BundleInv, BundleTypeOK, WireInv, PushedInv
<1>2. CASE ValueChanges
  <2>1. /\ current' = current + 1
        /\ wire' = IF subscribed THEN Append(wire, current + 1) ELSE wire
        /\ UNCHANGED <<ws, closing, timers, subscribed, latest, path_bus, pushed, bundle>>
    BY <1>2 DEF ValueChanges
  <2>2. \A i \in 1..Len(wire) : wire[i] < current + 1 /\ latest < wire[i] /\ wire[i] \in Nat
    BY <1>1 DEF BundleInv, WireInv
  <2> DEFINE v == current + 1
             t == Append(wire, v)
  <2>3. v \in Nat /\ v = current + 1 /\ \A i \in 1..Len(wire) : wire[i] < v
    BY <1>1, <2>2
  <2> HIDE DEF v
  <2>4. /\ t \in Seq(Nat) /\ Increasing(t)
        /\ Len(t) = Len(wire) + 1 /\ t[Len(t)] = v
        /\ \A i \in 1..Len(wire) : t[i] = wire[i]
    BY <1>1, <2>3, AppendIncreasing
  <2>5. WireInv'
    <3>1. Len(wire) \in Nat
      BY <1>1
    <3>2. wire' = IF subscribed THEN t ELSE wire
      BY <2>1 DEF v
    <3> HIDE DEF t
    <3>3. \A i \in 1..Len(t) : latest < t[i] /\ t[i] <= v
      <4>1. \A i \in 1..Len(wire) : latest < t[i] /\ t[i] <= v
        <5>1. \A i \in 1..Len(wire) : latest < wire[i] /\ wire[i] <= v
          BY <1>1, <2>2, <2>3
        <5>2. \A i \in 1..Len(wire) : t[i] = wire[i]
          BY <2>4
        <5> QED
          BY <5>1, <5>2, Zenon
      <4>2. latest < t[Len(t)] /\ t[Len(t)] <= v
        BY <1>1, <2>3, <2>4
      <4>3. Len(t) \in Nat /\ Len(t) = Len(wire) + 1
        BY <2>4, <3>1
      <4>4. \A i \in 1..Len(t) : i = Len(t) \/ i \in 1..Len(wire)
        BY <3>1, <4>3, LastOrBefore
      <4> QED
        BY <4>1, <4>2, <4>4, Zenon
    <3>4. \A i \in 1..Len(wire) : latest < wire[i] /\ wire[i] <= v
      BY <1>1, <2>2, <2>3
    <3>5. CASE subscribed
      BY <2>1, <2>3, <2>4, <3>2, <3>3, <3>5 DEF WireInv
    <3>6. CASE ~subscribed
      BY <1>1, <2>1, <2>3, <3>2, <3>4, <3>6 DEF WireInv
    <3> QED
      BY <3>5, <3>6
  <2>6. BundleTypeOK' /\ PushedInv'
    BY <2>1 DEF BundleInv, BundleTypeOK, PushedInv, Live
  <2> QED
    BY <1>1, <2>1, <2>5, <2>6 DEF BundleInv
<1>3. CASE ProcessDelta
  <2>1. /\ ws \in {"open", "broken"} /\ wire # <<>>
        /\ wire' = Tail(wire) /\ latest' = Head(wire)
        /\ pushed' = IF path_bus THEN Append(pushed, Head(wire)) ELSE pushed
        /\ UNCHANGED <<current, ws, closing, timers, subscribed, path_bus, bundle>>
    BY <1>3 DEF ProcessDelta
  <2>2. /\ Head(wire) \in Nat /\ Head(wire) = wire[1] /\ Len(wire) >= 1
        /\ Tail(wire) \in Seq(Nat) /\ Increasing(Tail(wire)) /\ Len(Tail(wire)) = Len(wire) - 1
        /\ \A i \in 1..Len(Tail(wire)) :
             Tail(wire)[i] = wire[i + 1] /\ Head(wire) < Tail(wire)[i]
    BY <1>1, <2>1, TailIncreasing
  <2>3. Len(wire) \in Nat
    BY <1>1
  <2>4. latest < Head(wire) /\ Head(wire) <= current
    BY <2>2, <2>3 DEF BundleInv, WireInv
  <2>5. WireInv'
    <3> DEFINE t == Tail(wire)
    <3> HIDE DEF t
    <3>1. \A i \in 1..Len(t) : t[i] <= current
      BY <2>2, <2>3 DEF BundleInv, WireInv, t
    <3> QED
      BY <2>1, <2>2, <3>1 DEF WireInv, t
  <2>6. BundleTypeOK'
    BY <1>1, <2>1, <2>2, <2>4 DEF BundleInv, BundleTypeOK, Live
  <2>7. \A i \in 1..Len(pushed) : pushed[i] < Head(wire) /\ pushed[i] <= latest
    BY <1>1, <2>2, <2>4 DEF BundleInv, PushedInv
  <2>8. PushedInv'
    <3> DEFINE t == Append(pushed, Head(wire))
    <3>1. /\ t \in Seq(Nat) /\ Increasing(t) /\ t # <<>> /\ t[Len(t)] = Head(wire)
          /\ Len(t) = Len(pushed) + 1 /\ \A i \in 1..Len(pushed) : t[i] = pushed[i]
      BY <1>1, <2>2, <2>7, AppendIncreasing
    <3> DEFINE v == Head(wire)
    <3>2. Len(pushed) \in Nat
      BY <1>1
    <3> HIDE DEF t, v
    <3>3. \A i \in 1..Len(t) : t[i] <= v
      BY <2>2, <2>7, <3>1, <3>2 DEF v
    <3>4. \A i \in 1..Len(pushed) : pushed[i] <= v
      BY <1>1, <2>2, <2>7 DEF v
    <3>5. CASE path_bus
      BY <2>1, <3>1, <3>3, <3>5 DEF PushedInv, t, v
    <3>6. CASE ~path_bus
      BY <1>1, <2>1, <3>4, <3>6 DEF PushedInv, v
    <3> QED
      BY <3>5, <3>6
  <2> QED
    BY <2>1, <2>5, <2>6, <2>8 DEF BundleInv
<1>4. CASE GetSelfStream
  <2>1. /\ path_bus' = TRUE
        /\ pushed' = IF latest # 0 THEN <<latest>> ELSE <<>>
        /\ UNCHANGED <<current, ws, closing, timers, subscribed, wire, latest, bundle>>
    BY <1>4 DEF GetSelfStream
  <2>2. /\ <<latest>> \in Seq(Nat) /\ Increasing(<<latest>>)
        /\ Len(<<latest>>) = 1 /\ <<latest>>[1] = latest /\ <<latest>> # <<>>
    BY <1>1 DEF Increasing
  <2>3. PushedInv'
    BY <1>1, <2>1, <2>2, NothingIncreasing DEF PushedInv
  <2>4. BundleTypeOK' /\ WireInv'
    BY <2>1 DEF BundleInv, BundleTypeOK, WireInv, Live
  <2> QED
    BY <2>1, <2>3, <2>4 DEF BundleInv
<1>5. CASE StopBundle
  <2>1. /\ bundle' = "stopped" /\ timers' = 0
        /\ closing' = closing + (IF Live THEN 1 ELSE 0)
        /\ ws' = "none" /\ subscribed' = FALSE /\ wire' = <<>>
        /\ latest' = 0 /\ path_bus' = FALSE /\ pushed' = <<>> /\ current' = current
    BY <1>5 DEF StopBundle
  <2>2. BundleTypeOK' /\ closing' \in Nat
    BY <1>1, <2>1 DEF BundleInv, BundleTypeOK, Live
  <2>3. WireInv' /\ PushedInv'
    BY <2>1, NothingIncreasing DEF WireInv, PushedInv
  <2> QED
    BY <1>1, <2>1, <2>2, <2>3 DEF BundleInv
<1> QED
  BY <1>2, <1>3, <1>4, <1>5

(* However the connection breaks and comes back, and whoever subscribes    *)
(* when: one way to the next connection at a time, and a stream emits      *)
(* every value after its elders and none twice.                            *)
THEOREM StreamKeepsOrder == BundleSpec => []BundleCorrect
<1>1. BundleInit => BundleInv
  <2>1. ASSUME BundleInit PROVE BundleTypeOK
    BY <2>1 DEF BundleInit, BundleTypeOK, Live
  <2>2. ASSUME BundleInit PROVE WireInv
    BY <2>2, NothingIncreasing DEF BundleInit, WireInv
  <2>3. ASSUME BundleInit PROVE PushedInv
    BY <2>3, NothingIncreasing DEF BundleInit, PushedInv
  <2>4. ASSUME BundleInit
        PROVE  /\ current \in Nat /\ timers \in Nat /\ closing \in Nat
               /\ bundle \in {"running", "stopped"} /\ path_bus \in BOOLEAN
    BY <2>4 DEF BundleInit
  <2> QED
    BY <2>1, <2>2, <2>3, <2>4 DEF BundleInv
<1>2. BundleInv /\ [BundleNext]_bundleVars => BundleInv'
  <2>1. BundleInv /\ UNCHANGED bundleVars => BundleInv'
    BY DEF bundleVars, BundleInv, BundleTypeOK, WireInv, PushedInv, Live
  <2> QED
    BY <2>1, ConnectionStep, DataStep DEF BundleNext
<1>3. BundleInv => BundleCorrect
  <2>1. BundleInv => StreamInOrder
    <3>1. ASSUME BundleInv PROVE DOMAIN pushed = 1..Len(pushed)
      BY <3>1 DEF BundleInv, PushedInv
    <3> QED
      BY <3>1 DEF BundleInv, PushedInv, Increasing, StreamInOrder
  <2> QED
    BY <2>1 DEF BundleInv, BundleCorrect
<1> QED
  BY <1>1, <1>2, <1>3, PTL DEF BundleSpec

-----------------------------------------------------------------------------
(* The NMEA receivers.                                                     *)

IsPart(line, id, k) == line.kind = "VDM" /\ line.id = id /\ line.part = k
Found(lines, id, k) == \E i \in 1..Len(lines) : IsPart(lines[i], id, k)

(* What a parser waits for the rest of, its own connection has sent.       *)
FragmentsInv ==
  \A r \in Readers :
    /\ fragments[r].next \in Nat \ {0}
    /\ \A k \in 1..(fragments[r].next - 1) : Found(spoken[r], fragments[r].id, k)

ReceiveInv ==
  /\ DOMAIN fragments = Readers
  /\ \A r \in Readers :
       fragments[r] = [id |-> fragments[r].id, next |-> fragments[r].next]
  /\ spoken \in [Readers -> Seq(Lines)]
  /\ FragmentsInv
  /\ OneTalkerPerMessage

LEMMA AppendFinds ==
  ASSUME NEW lines \in Seq(Lines), NEW s \in Lines
  PROVE  /\ Append(lines, s) \in Seq(Lines)
         /\ Len(Append(lines, s)) = Len(lines) + 1
         /\ Append(lines, s)[Len(Append(lines, s))] = s
         /\ \A i \in 1..Len(lines) : Append(lines, s)[i] = lines[i]
         /\ \A id, k : Found(lines, id, k) \/ IsPart(s, id, k) => Found(Append(lines, s), id, k)
<1> DEFINE t == Append(lines, s)
<1>1. /\ t \in Seq(Lines) /\ Len(t) = Len(lines) + 1 /\ t[Len(t)] = s
      /\ \A i \in 1..Len(lines) : t[i] = lines[i]
  BY AppendProperties
<1>2. Len(lines) \in Nat
  OBVIOUS
<1> HIDE DEF t
<1>3. Len(t) \in 1..Len(t) /\ \A i \in 1..Len(lines) : i \in 1..Len(t)
  BY <1>1, <1>2
<1>4. \A id, k : Found(lines, id, k) \/ IsPart(s, id, k) => Found(t, id, k)
  BY <1>1, <1>3 DEF Found
<1> QED
  BY <1>1, <1>4 DEF t

(* A parser goes on waiting only for what follows parts it has seen, and   *)
(* completes a message only when all its parts were there before.          *)
LEMMA ParseFinds ==
  ASSUME NEW waiting, NEW lines \in Seq(Lines), NEW s \in Lines, s.kind = "VDM",
         waiting = [id |-> waiting.id, next |-> waiting.next],
         waiting.next \in Nat \ {0},
         \A k \in 1..(waiting.next - 1) : Found(lines, waiting.id, k)
  PROVE  LET after == parse(waiting, s).waiting
         IN  /\ after = [id |-> after.id, next |-> after.next]
             /\ after.next \in Nat \ {0}
             /\ \A k \in 1..(after.next - 1) : Found(Append(lines, s), after.id, k)
             /\ parse(waiting, s).complete =>
                  \A k \in 1..(s.of - 1) : Found(lines, s.id, k)
<1> DEFINE after == parse(waiting, s).waiting
           t == Append(lines, s)
<1>1. s.part \in Nat \ {0} /\ s.of \in Nat \ {0}
  BY ReceiveAssumption
<1>2. /\ \A id, k : Found(lines, id, k) => Found(t, id, k)
      /\ Found(t, s.id, s.part)
  BY AppendFinds DEF IsPart
<1> HIDE DEF t
<1>3. CASE s.part = 1 /\ s.of > 1
  <2>1. parse(waiting, s) = [waiting |-> [id |-> s.id, next |-> 2], complete |-> FALSE]
    BY <1>1, <1>3 DEF parse
  <2> QED
    BY <1>2, <1>3, <2>1 DEF t
<1>4. CASE s.part = 1 /\ s.of <= 1
  <2>1. parse(waiting, s) = [waiting |-> waiting, complete |-> TRUE]
    BY <1>1, <1>4 DEF parse
  <2>2. \A k : k \notin 1..(s.of - 1)
    BY <1>1, <1>4
  <2> QED
    BY <1>2, <2>1, <2>2 DEF t
<1>5. CASE s.part # 1 /\ waiting # [id |-> s.id, next |-> s.part]
  <2>1. parse(waiting, s) = [waiting |-> waiting, complete |-> FALSE]
    BY <1>5 DEF parse
  <2> QED
    BY <1>2, <2>1 DEF t
<1>6. CASE s.part # 1 /\ waiting = [id |-> s.id, next |-> s.part]
  <2>1. waiting.id = s.id /\ waiting.next = s.part
    BY <1>6
  <2>2. CASE s.part = s.of
    <3>1. parse(waiting, s) = [waiting |-> NoFragments, complete |-> TRUE]
      BY <1>6, <2>2 DEF parse
    <3> QED
      BY <1>2, <2>1, <2>2, <3>1 DEF NoFragments, t
  <2>3. CASE s.part # s.of
    <3>1. parse(waiting, s) = [waiting |-> [waiting EXCEPT !.next = @ + 1], complete |-> FALSE]
      BY <1>6, <2>3 DEF parse
    <3>2. [waiting EXCEPT !.next = @ + 1] = [id |-> s.id, next |-> s.part + 1]
      BY <1>6
    <3>3. \A k \in 1..s.part : k = s.part \/ k \in 1..(s.part - 1)
      BY <1>1
    <3>4. \A k \in 1..s.part : Found(t, s.id, k)
      BY <1>2, <2>1, <3>3
    <3>5. s.part + 1 - 1 = s.part /\ s.part + 1 \in Nat \ {0}
      BY <1>1
    <3>6. /\ parse(waiting, s).complete = FALSE
          /\ parse(waiting, s).waiting = [id |-> s.id, next |-> s.part + 1]
      BY <3>1, <3>2
    <3> DEFINE found(k) == Found(t, s.id, k)
               n == s.part + 1
    <3>7. \A k \in 1..(n - 1) : found(k)
      <4>1. 1..(n - 1) = 1..s.part
        BY <1>1
      <4> HIDE DEF n
      <4> QED
        BY <3>4, <4>1
    <3>8. n \in Nat \ {0} /\ parse(waiting, s).waiting = [id |-> s.id, next |-> n]
      BY <3>5, <3>6
    <3> HIDE DEF n, found
    <3>9. /\ after = [id |-> after.id, next |-> after.next] /\ after.id = s.id
          /\ after.next \in Nat \ {0}
          /\ \A k \in 1..(after.next - 1) : found(k)
      BY <3>7, <3>8
    <3> QED
      BY <3>6, <3>9, Zenon DEF t, found
  <2> QED
    BY <2>2, <2>3
<1>7. \/ s.part = 1 /\ s.of > 1
      \/ s.part = 1 /\ s.of <= 1
      \/ s.part # 1 /\ waiting # [id |-> s.id, next |-> s.part]
      \/ s.part # 1 /\ waiting = [id |-> s.id, next |-> s.part]
  BY <1>1
<1> QED
  BY <1>3, <1>4, <1>5, <1>6, <1>7, Zenon

(* A reader that opens anew waits for nothing.                             *)
LEMMA FreshStep ==
  ASSUME ReceiveInv, NEW r \in Readers, Fresh(r), UNCHANGED fed
  PROVE  ReceiveInv'
<1>1. /\ fragments' = [fragments EXCEPT ![r] = NoFragments]
      /\ spoken' = [spoken EXCEPT ![r] = <<>>]
  BY DEF Fresh
<1>2. DOMAIN fragments' = Readers /\ spoken' \in [Readers -> Seq(Lines)]
  BY <1>1 DEF ReceiveInv
<1>3. \A q \in Readers : /\ q = r => fragments'[q] = [id |-> Blank, next |-> 1]
                         /\ q # r => fragments'[q] = fragments[q] /\ spoken'[q] = spoken[q]
  BY <1>1 DEF ReceiveInv, NoFragments
<1>4. \A q \in Readers : fragments'[q] = [id |-> fragments'[q].id, next |-> fragments'[q].next]
  BY <1>3 DEF ReceiveInv
<1>5. FragmentsInv'
  <2> SUFFICES ASSUME NEW q \in Readers
               PROVE  /\ fragments'[q].next \in Nat \ {0}
                      /\ \A k \in 1..(fragments'[q].next - 1) :
                           Found(spoken'[q], fragments'[q].id, k)
    BY DEF FragmentsInv, Found
  <2>1. CASE q = r
    BY <1>3, <2>1
  <2>2. CASE q # r
    BY <1>3, <2>2 DEF ReceiveInv, FragmentsInv
  <2> QED
    BY <2>1, <2>2
<1>6. OneTalkerPerMessage'
  BY DEF ReceiveInv, OneTalkerPerMessage, Whole
<1> QED
  BY <1>2, <1>4, <1>5, <1>6 DEF ReceiveInv

LEMMA LineStep ==
  ASSUME ReceiveInv, NEW r \in Readers, ReadLine(r)
  PROVE  ReceiveInv'
<1>1. PICK s \in Lines :
        /\ Feeds(r, line_to_delta(fragments[r], s), Append(spoken[r], s))
        /\ fragments' = [fragments EXCEPT ![r] = IF s.kind = "VDM" THEN parse(@, s).waiting ELSE @]
        /\ spoken' = [spoken EXCEPT ![r] = Append(@, s)]
  BY DEF ReadLine
<1> DEFINE lines == spoken[r]
           longer == Append(lines, s)
           after == parse(fragments[r], s).waiting
<1>2. lines \in Seq(Lines) /\ Len(lines) \in Nat
  BY DEF ReceiveInv
<1>3. /\ longer \in Seq(Lines) /\ Len(longer) = Len(lines) + 1 /\ longer[Len(longer)] = s
      /\ \A i \in 1..Len(lines) : longer[i] = lines[i]
      /\ \A id, k : Found(lines, id, k) => Found(longer, id, k)
  BY <1>2, AppendFinds
<1>4. /\ fragments[r] = [id |-> fragments[r].id, next |-> fragments[r].next]
      /\ fragments[r].next \in Nat \ {0}
      /\ \A k \in 1..(fragments[r].next - 1) : Found(lines, fragments[r].id, k)
  BY DEF ReceiveInv, FragmentsInv
<1>5. ASSUME s.kind = "VDM"
      PROVE  /\ after = [id |-> after.id, next |-> after.next]
             /\ after.next \in Nat \ {0}
             /\ \A k \in 1..(after.next - 1) : Found(longer, after.id, k)
             /\ parse(fragments[r], s).complete => \A k \in 1..(s.of - 1) : Found(lines, s.id, k)
  BY <1>2, <1>4, <1>5, ParseFinds
<1> DEFINE now == IF s.kind = "VDM" THEN after ELSE fragments[r]
<1>6. /\ now = [id |-> now.id, next |-> now.next]
      /\ now.next \in Nat \ {0}
      /\ \A k \in 1..(now.next - 1) : Found(longer, now.id, k)
  BY <1>3, <1>4, <1>5
<1>7. /\ DOMAIN fragments' = Readers /\ spoken' \in [Readers -> Seq(Lines)]
      /\ fragments'[r] = now /\ spoken'[r] = longer
      /\ \A q \in Readers \ {r} : fragments'[q] = fragments[q] /\ spoken'[q] = spoken[q]
  BY <1>1, <1>3 DEF ReceiveInv
<1> HIDE DEF now, longer, lines, after
<1>8. \A q \in Readers : fragments'[q] = [id |-> fragments'[q].id, next |-> fragments'[q].next]
  BY <1>6, <1>7 DEF ReceiveInv
<1>9. FragmentsInv'
  <2> SUFFICES ASSUME NEW q \in Readers
               PROVE  /\ fragments'[q].next \in Nat \ {0}
                      /\ \A k \in 1..(fragments'[q].next - 1) :
                           Found(spoken'[q], fragments'[q].id, k)
    BY DEF FragmentsInv, Found
  <2>1. CASE q = r
    BY <1>6, <1>7, <2>1
  <2>2. CASE q # r
    BY <1>7, <2>2 DEF ReceiveInv, FragmentsInv
  <2> QED
    BY <2>1, <2>2
<1>10. OneTalkerPerMessage'
  <2> DEFINE delta == line_to_delta(fragments[r], s)
  <2>1. CASE delta = Blank
    <3>1. fed' = fed
      BY <1>1, <2>1 DEF Feeds
    <3> QED
      BY <3>1 DEF ReceiveInv, OneTalkerPerMessage, Whole
  <2>2. CASE delta # Blank
    <3>1. fed' = [reader |-> r, delta |-> delta, lines |-> longer]
      BY <1>1, <2>2 DEF Feeds, longer, lines
    <3>2. fed'.lines = longer
      BY <3>1
    <3>3. ASSUME s.kind = "VDM" PROVE Whole(longer)
      <4>1. parse(fragments[r], s).complete
        BY <2>2, <3>3 DEF line_to_delta, try_decode, Mapped
      <4>2. \A k \in 1..(s.of - 1) : Found(lines, s.id, k)
        BY <1>5, <3>3, <4>1
      <4>3. Len(longer) - 1 = Len(lines)
        BY <1>2, <1>3
      <4> QED
        BY <1>3, <4>2, <4>3 DEF Whole, Found, IsPart
    <3>4. OneTalkerPerMessage' <=>
            ((fed' # Blank /\ fed'.reader \in Readers /\ longer[Len(longer)].kind = "VDM")
               => Whole(longer))
      BY <3>2 DEF OneTalkerPerMessage, Whole
    <3> QED
      BY <1>3, <3>3, <3>4
  <2> QED
    BY <2>1, <2>2
<1> QED
  BY <1>7, <1>8, <1>9, <1>10 DEF ReceiveInv

LEMMA ReceiveStep ==
  ASSUME ReceiveInv, [TcpNext \/ ReceiveSerialNext \/ ReceiveN2kNext]_receiveVars
  PROVE  ReceiveInv'
<1>1. ASSUME UNCHANGED <<lineVars, fed>> PROVE ReceiveInv'
  BY <1>1 DEF lineVars, ReceiveInv, FragmentsInv, OneTalkerPerMessage, Found, IsPart, Whole
<1>2. CASE UNCHANGED receiveVars
  BY <1>1, <1>2 DEF receiveVars
<1>3. CASE TcpNext
  <2>1. ASSUME NEW l \in Links, Accept(l) PROVE ReceiveInv'
    BY <2>1, FreshStep DEF Accept, Readers
  <2>2. ASSUME NEW l \in Links, ReadTcp(l) PROVE ReceiveInv'
    BY <2>2, LineStep DEF ReadTcp, Readers
  <2>3. ASSUME NEW l \in Links, Disconnect(l) PROVE ReceiveInv'
    BY <1>1, <2>3 DEF Disconnect
  <2>4. CASE StartTcp \/ StopTcp
    BY <1>1, <2>4 DEF StartTcp, StopTcp
  <2> QED
    BY <1>3, <2>1, <2>2, <2>3, <2>4 DEF TcpNext
<1>4. CASE ReceiveSerialNext
  <2>1. CASE OpenSerial
    BY <1>1, <2>1, FreshStep DEF OpenSerial, Readers
  <2>2. CASE ReadSerial
    BY <2>2, LineStep DEF ReadSerial, Readers
  <2>3. CASE StartSerial \/ StopSerial \/ SerialFails \/ RetrySerial \/ Unplug("port")
    BY <1>1, <2>3 DEF StartSerial, StopSerial, SerialFails, RetrySerial, Unplug
  <2> QED
    BY <1>4, <2>1, <2>2, <2>3 DEF ReceiveSerialNext, SerialNext
<1>5. CASE ReceiveN2kNext
  <2>1. CASE ReadN2k
    <3>1. UNCHANGED lineVars /\ Feeds("n2k", decoded_to_delta(Head(channel)), <<>>)
      BY <2>1 DEF ReadN2k
    <3>2. CASE fed' = fed
      BY <1>1, <3>1, <3>2
    <3>3. CASE fed' # fed
      <4>1. fed'.reader = "n2k"
        BY <3>1, <3>3 DEF Feeds
      <4>2. fed'.reader \notin Readers
        BY <4>1, ReceiveAssumption DEF Readers
      <4> QED
        BY <3>1, <4>2
           DEF lineVars, ReceiveInv, FragmentsInv, OneTalkerPerMessage, Found, IsPart
    <3> QED
      BY <3>2, <3>3
  <2>2. CASE StartN2k \/ StopN2k \/ OpenN2k \/ ReaderLost \/ RetryN2k \/ Unplug("bus")
    BY <1>1, <2>2 DEF StartN2k, StopN2k, OpenN2k, ReaderLost, RetryN2k, Unplug
  <2>3. ASSUME NEW g \in holders, ThreadReads(g) \/ ThreadFails(g) PROVE ReceiveInv'
    BY <1>1, <2>3 DEF ThreadReads, ThreadFails
  <2> QED
    BY <1>5, <2>1, <2>2, <2>3 DEF ReceiveN2kNext, N2kNext
<1> QED
  BY <1>2, <1>3, <1>4, <1>5

(* Whatever connections open, close and interleave: an AIS message that    *)
(* reaches the store was sent whole by one talker since it connected.      *)
THEOREM OneTalkerAlways == ReceiveSpec => []OneTalkerPerMessage
<1>1. ASSUME ReceiveInit PROVE ReceiveInv
  <2>1. /\ fragments = [r \in Readers |-> [id |-> Blank, next |-> 1]]
        /\ spoken = [r \in Readers |-> <<>>] /\ fed = Blank
    BY <1>1 DEF ReceiveInit, NoFragments
  <2>2. <<>> \in Seq(Lines)
    OBVIOUS
  <2>3. spoken \in [Readers -> Seq(Lines)]
    BY <2>1, <2>2
  <2>4. DOMAIN fragments = Readers
    BY <2>1
  <2>5. \A r \in Readers : fragments[r].next = 1 /\ fragments[r].id = Blank
    BY <2>1
  <2>6. fragments \in [Readers -> [id : {Blank}, next : {1}]]
    BY <2>1
  <2>7. OneTalkerPerMessage
    BY <2>1 DEF OneTalkerPerMessage
  <2> QED
    BY <2>1, <2>3, <2>4, <2>5, <2>6, <2>7 DEF ReceiveInv, FragmentsInv
<1>2. ReceiveInv /\ [TcpNext \/ ReceiveSerialNext \/ ReceiveN2kNext]_receiveVars => ReceiveInv'
  BY ReceiveStep
<1>3. ReceiveInv => OneTalkerPerMessage
  BY DEF ReceiveInv
<1> QED
  BY <1>1, <1>2, <1>3, PTL DEF ReceiveSpec

-----------------------------------------------------------------------------
(* The address the NMEA 2000 output sends under: the copy the thread and    *)
(* the tick task share is the one the address manager holds, at all times,  *)
(* for every decision of the manager changes both; and a start that makes   *)
(* a new manager makes a new copy.                                          *)
AddressInv == claimed = owned /\ SentAsOwned

LEMMA ClaimStep == ASSUME AddressInv, Claims PROVE AddressInv'
<1>1. UNCHANGED frame
  BY DEF Claims
<1>2. CASE UNCHANGED <<owned, claimed>>
  BY <1>1, <1>2 DEF AddressInv, SentAsOwned
<1>3. ASSUME NEW action \in {"AddressClaimed", "AddressLost", "SendCannotClaim", "SendClaim"},
             owned' = CASE action = "AddressClaimed" -> Address
                        [] action = "SendClaim"      -> owned
                        [] OTHER                     -> ADDR_NOT_CLAIMED,
             claimed' = handle_claim_action(action)
      PROVE  AddressInv'
  <2>1. claimed' = owned'
    BY <1>3 DEF AddressInv, handle_claim_action
  <2> QED
    BY <1>1, <2>1 DEF AddressInv, SentAsOwned
<1> QED
  BY <1>2, <1>3 DEF Claims

LEMMA AddressStep ==
  ASSUME AddressInv, [SentencesNext \/ BusNext]_<<sendVars, busVars>> PROVE AddressInv'
<1>1. ASSUME UNCHANGED <<claimed, owned, frame>> PROVE AddressInv'
  BY <1>1 DEF AddressInv, SentAsOwned
<1>2. CASE UNCHANGED <<sendVars, busVars>>
  BY <1>1, <1>2 DEF busVars
<1>3. CASE SentencesNext
  <2>1. CASE StartSend \/ StopSend \/ HearSend \/ TickSend
    BY <1>1, <2>1 DEF StartSend, StopSend, HearSend, TickSend, busVars
  <2>2. ASSUME NEW c \in NmeaClients, AcceptClient(c) \/ WriteClient(c) \/ EndClient(c)
        PROVE  AddressInv'
    BY <1>1, <2>2 DEF AcceptClient, WriteClient, EndClient, busVars
  <2> QED
    BY <1>3, <2>1, <2>2 DEF SentencesNext
<1>4. CASE BusNext
  <2>1. CASE StopBus \/ HearBus \/ TickBus \/ QueueEmpty
    BY <1>1, <2>1 DEF StopBus, HearBus, TickBus, QueueEmpty
  <2>2. CASE StartBus
    BY <2>2 DEF StartBus, AddressInv, SentAsOwned
  <2>3. CASE SendsPgn
    BY <2>3 DEF SendsPgn, AddressInv, SentAsOwned
  <2> QED
    BY <1>4, <2>1, <2>2, <2>3, ClaimStep DEF BusNext
<1> QED
  BY <1>2, <1>3, <1>4

(* Whatever is claimed, lost, stopped and started while messages queue: no *)
(* message leaves under an address the address manager does not hold.      *)
THEOREM OnlyOwnedAddresses == SendSpec => []SentAsOwned
<1>1. SendInit /\ BusInit => AddressInv
  BY DEF BusInit, AddressInv, SentAsOwned
<1>2. AddressInv /\ [SentencesNext \/ BusNext]_<<sendVars, busVars>> => AddressInv'
  BY AddressStep
<1>3. AddressInv => SentAsOwned
  BY DEF AddressInv
<1> QED
  BY <1>1, <1>2, <1>3, PTL DEF SendSpec

-----------------------------------------------------------------------------
(* The calculators of the derived data.                                    *)

(* What a calculator looks at, of the paths that make it run.              *)
Reads(name) ==
  CASE name = "batteryPower"    -> {"batteries.voltage", "batteries.current"}
    [] name = "propState"       -> {"propulsion.revolutions"}
    [] name = "fuelConsumption" -> {"speedOverGround", "propulsion.fuel.rate"}
    [] name = "propSlip"        -> {"speedThroughWater", "propulsion.revolutions"}
    [] name = "tankVolume"      -> {"tanks.capacity", "tanks.currentLevel"}
    [] OTHER                    -> inputs[name]

LEMMA NamesOfCalculators ==
  /\ DOMAIN all_calculators = 1 .. 37
  /\ \A i \in 1 .. 37 : all_calculators[i] \in {"windShift",
       "headingTrue", "courseOverGroundMagnetic", "courseOverGroundTrue",
       "leewayAngle", "leeway", "setDrift", "trueWind", "vmgWind", "vmgStw",
       "windDirectionMagnetic", "windDirectionMagnetic2", "windGround",
       "windGroundDirection", "courseBearing", "bearingMagnetic",
       "courseDistance", "previousPointDistance", "courseXte", "vmgWaypoint",
       "eta", "steerError", "airDensity", "dewPoint", "heatIndex",
       "windChill", "depthBelowKeel", "depthBelowSurface",
       "transducerToKeel", "suncalc", "suntime", "moon", "batteryPower",
       "propState", "fuelConsumption", "propSlip", "tankVolume"}
  /\ Calculators = {all_calculators[i] : i \in 1 .. 37}
<1>1. DOMAIN all_calculators = 1 .. 37 BY DEF all_calculators
<1>2. Calculators = {all_calculators[i] : i \in 1 .. 37}
  BY <1>1 DEF Calculators, ToSet
<1>3. ASSUME NEW i \in 1 .. 37
      PROVE  all_calculators[i] \in {"windShift",
       "headingTrue", "courseOverGroundMagnetic", "courseOverGroundTrue",
       "leewayAngle", "leeway", "setDrift", "trueWind", "vmgWind", "vmgStw",
       "windDirectionMagnetic", "windDirectionMagnetic2", "windGround",
       "windGroundDirection", "courseBearing", "bearingMagnetic",
       "courseDistance", "previousPointDistance", "courseXte", "vmgWaypoint",
       "eta", "steerError", "airDensity", "dewPoint", "heatIndex",
       "windChill", "depthBelowKeel", "depthBelowSurface",
       "transducerToKeel", "suncalc", "suntime", "moon", "batteryPower",
       "propState", "fuelConsumption", "propSlip", "tankVolume"}
  BY DEF all_calculators
<1>4. QED BY <1>1, <1>2, <1>3

(* The same where it looks, the same comes out.                            *)
LEMMA LooksAtReads ==
  ASSUME NEW name \in Calculators \ {"windShift"}, NEW v, NEW w, NEW x, NEW y,
         \A p \in Reads(name) : v[p] = w[p]
  PROVE  calculate(name, v, x) = calculate(name, w, y)
<1>1. CASE name = "headingTrue"
  BY <1>1 DEF Reads, inputs, calculate, HeadingTrue, Given, Out,
     normalize_angle, Nothing
<1>2. CASE name = "courseOverGroundMagnetic"
  BY <1>2 DEF Reads, inputs, calculate, CourseOverGroundMagnetic, Given, Out,
     normalize_angle, Nothing
<1>3. CASE name = "courseOverGroundTrue"
  BY <1>3 DEF Reads, inputs, calculate, CourseOverGroundTrue, Given, Out,
     normalize_angle, Nothing
<1>4. CASE name = "leewayAngle"
  BY <1>4 DEF Reads, inputs, calculate, LeewayAngle, Given, Out,
     SignedDifference, Nothing
<1>5. CASE name = "leeway"
  BY <1>5 DEF Reads, inputs, calculate, Leeway, Given, Formulas, Nothing
<1>6. CASE name = "setDrift"
  BY <1>6 DEF Reads, inputs, calculate, SetDrift, Given, Out, Formulas,
     Current, normalize_angle, Nothing
<1>7. CASE name = "trueWind"
  BY <1>7 DEF Reads, inputs, calculate, TrueWind, Given, Out, Formulas,
     normalize_angle, Nothing
<1>8. CASE name = "vmgWind"
  BY <1>8 DEF Reads, inputs, calculate, VmgWind, Given, Formulas, Nothing
<1>9. CASE name = "vmgStw"
  BY <1>9 DEF Reads, inputs, calculate, VmgStw, Given, Formulas, Nothing
<1>10. CASE name = "windDirectionMagnetic"
  BY <1>10 DEF Reads, inputs, calculate, WindDirectionMagnetic, Given, Out,
     normalize_angle, Nothing
<1>11. CASE name = "windDirectionMagnetic2"
  BY <1>11 DEF Reads, inputs, calculate, WindDirectionMagnetic2, Given, Out,
     normalize_angle, Nothing
<1>12. CASE name = "windGround"
  BY <1>12 DEF Reads, inputs, calculate, WindGround, Given, Formulas, Nothing
<1>13. CASE name = "windGroundDirection"
  BY <1>13 DEF Reads, inputs, calculate, WindGroundDirection, Given, Out,
     normalize_angle, Nothing
<1>14. CASE name = "courseBearing"
  BY <1>14 DEF Reads, inputs, calculate, CourseBearing, Given, Formulas, Nothing
<1>15. CASE name = "bearingMagnetic"
  BY <1>15 DEF Reads, inputs, calculate, BearingMagnetic, Given, Out,
     normalize_angle, Nothing
<1>16. CASE name = "courseDistance"
  BY <1>16 DEF Reads, inputs, calculate, CourseDistance, Given, Formulas,
     Nothing
<1>17. CASE name = "previousPointDistance"
  BY <1>17 DEF Reads, inputs, calculate, PreviousPointDistance, Given,
     Formulas, Nothing
<1>18. CASE name = "courseXte"
  BY <1>18 DEF Reads, inputs, calculate, CourseXte, Given, Formulas, Nothing
<1>19. CASE name = "vmgWaypoint"
  BY <1>19 DEF Reads, inputs, calculate, VmgWaypoint, Given, Formulas, Nothing
<1>20. CASE name = "eta"
  BY <1>20 DEF Reads, inputs, calculate, Eta, Given, Formulas, Nothing
<1>21. CASE name = "steerError"
  BY <1>21 DEF Reads, inputs, calculate, SteerError, Given, Out,
     SignedDifference, Nothing
<1>22. CASE name = "airDensity"
  BY <1>22 DEF Reads, inputs, calculate, AirDensity, Given, Formulas, Humid,
     Nothing
<1>23. CASE name = "dewPoint"
  BY <1>23 DEF Reads, inputs, calculate, DewPoint, Given, Formulas, Humid,
     Nothing
<1>24. CASE name = "heatIndex"
  BY <1>24 DEF Reads, inputs, calculate, HeatIndex, Given, Formulas, Nothing
<1>25. CASE name = "windChill"
  BY <1>25 DEF Reads, inputs, calculate, WindChill, Given, Formulas, Nothing
<1>26. CASE name = "depthBelowKeel"
  BY <1>26 DEF Reads, inputs, calculate, DepthBelowKeel, Given, Out, Nothing
<1>27. CASE name = "depthBelowSurface"
  BY <1>27 DEF Reads, inputs, calculate, DepthBelowSurface, Given, Out, Nothing
<1>28. CASE name = "transducerToKeel"
  BY <1>28 DEF Reads, inputs, calculate, TransducerToKeel, Given, Out, Nothing
<1>29. CASE name = "suncalc"
  BY <1>29 DEF Reads, inputs, calculate, SunCalc, Given, Formulas, Nothing
<1>30. CASE name = "suntime"
  BY <1>30 DEF Reads, inputs, calculate, SunTime, Given, Formulas, Nothing
<1>31. CASE name = "moon"
  BY <1>31 DEF Reads, inputs, calculate, Moon, Given, Formulas, Nothing
<1>32. CASE name = "batteryPower"
  BY <1>32 DEF Reads, inputs, calculate, BatteryPower, Given, Out, Nothing
<1>33. CASE name = "propState"
  BY <1>33 DEF Reads, inputs, calculate, PropState, Given, Out, Nothing
<1>34. CASE name = "fuelConsumption"
  BY <1>34 DEF Reads, inputs, calculate, FuelConsumption, Given, Formulas,
     Nothing
<1>35. CASE name = "propSlip"
  BY <1>35 DEF Reads, inputs, calculate, PropSlip, Given, Formulas, Nothing
<1>36. CASE name = "tankVolume"
  BY <1>36 DEF Reads, inputs, calculate, TankVolume, Given, Out, Nothing
<1>37. QED BY NamesOfCalculators, <1>1, <1>2, <1>3, <1>4, <1>5, <1>6, <1>7,
       <1>8, <1>9, <1>10, <1>11, <1>12, <1>13, <1>14, <1>15, <1>16, <1>17,
       <1>18, <1>19, <1>20, <1>21, <1>22, <1>23, <1>24, <1>25, <1>26, <1>27,
       <1>28, <1>29, <1>30, <1>31, <1>32, <1>33, <1>34, <1>35, <1>36

(* Where nothing is known nothing is derived.                              *)
LEMMA SilentAtFirst ==
  ASSUME NEW name \in Calculators \ {"windShift"}, NEW v, NEW x,
         \A p \in Reads(name) : v[p] = NoValue
  PROVE  calculate(name, v, x) = Nothing
<1>1. CASE name = "headingTrue"
  BY <1>1 DEF Reads, inputs, calculate, HeadingTrue, Given
<1>2. CASE name = "courseOverGroundMagnetic"
  BY <1>2 DEF Reads, inputs, calculate, CourseOverGroundMagnetic, Given
<1>3. CASE name = "courseOverGroundTrue"
  BY <1>3 DEF Reads, inputs, calculate, CourseOverGroundTrue, Given
<1>4. CASE name = "leewayAngle"
  BY <1>4 DEF Reads, inputs, calculate, LeewayAngle, Given
<1>5. CASE name = "leeway" BY <1>5 DEF Reads, inputs, calculate, Leeway, Given
<1>6. CASE name = "setDrift"
  BY <1>6 DEF Reads, inputs, calculate, SetDrift, Given
<1>7. CASE name = "trueWind"
  BY <1>7 DEF Reads, inputs, calculate, TrueWind, Given
<1>8. CASE name = "vmgWind" BY <1>8 DEF Reads, inputs, calculate, VmgWind, Given
<1>9. CASE name = "vmgStw" BY <1>9 DEF Reads, inputs, calculate, VmgStw, Given
<1>10. CASE name = "windDirectionMagnetic"
  BY <1>10 DEF Reads, inputs, calculate, WindDirectionMagnetic, Given
<1>11. CASE name = "windDirectionMagnetic2"
  BY <1>11 DEF Reads, inputs, calculate, WindDirectionMagnetic2, Given
<1>12. CASE name = "windGround"
  BY <1>12 DEF Reads, inputs, calculate, WindGround, Given
<1>13. CASE name = "windGroundDirection"
  BY <1>13 DEF Reads, inputs, calculate, WindGroundDirection, Given
<1>14. CASE name = "courseBearing"
  BY <1>14 DEF Reads, inputs, calculate, CourseBearing, Given
<1>15. CASE name = "bearingMagnetic"
  BY <1>15 DEF Reads, inputs, calculate, BearingMagnetic, Given
<1>16. CASE name = "courseDistance"
  BY <1>16 DEF Reads, inputs, calculate, CourseDistance, Given
<1>17. CASE name = "previousPointDistance"
  BY <1>17 DEF Reads, inputs, calculate, PreviousPointDistance, Given
<1>18. CASE name = "courseXte"
  BY <1>18 DEF Reads, inputs, calculate, CourseXte, Given
<1>19. CASE name = "vmgWaypoint"
  BY <1>19 DEF Reads, inputs, calculate, VmgWaypoint, Given
<1>20. CASE name = "eta" BY <1>20 DEF Reads, inputs, calculate, Eta, Given
<1>21. CASE name = "steerError"
  BY <1>21 DEF Reads, inputs, calculate, SteerError, Given
<1>22. CASE name = "airDensity"
  BY <1>22 DEF Reads, inputs, calculate, AirDensity, Given
<1>23. CASE name = "dewPoint"
  BY <1>23 DEF Reads, inputs, calculate, DewPoint, Given
<1>24. CASE name = "heatIndex"
  BY <1>24 DEF Reads, inputs, calculate, HeatIndex, Given
<1>25. CASE name = "windChill"
  BY <1>25 DEF Reads, inputs, calculate, WindChill, Given
<1>26. CASE name = "depthBelowKeel"
  BY <1>26 DEF Reads, inputs, calculate, DepthBelowKeel, Given
<1>27. CASE name = "depthBelowSurface"
  BY <1>27 DEF Reads, inputs, calculate, DepthBelowSurface, Given
<1>28. CASE name = "transducerToKeel"
  BY <1>28 DEF Reads, inputs, calculate, TransducerToKeel, Given
<1>29. CASE name = "suncalc"
  BY <1>29 DEF Reads, inputs, calculate, SunCalc, Given
<1>30. CASE name = "suntime"
  BY <1>30 DEF Reads, inputs, calculate, SunTime, Given
<1>31. CASE name = "moon" BY <1>31 DEF Reads, inputs, calculate, Moon, Given
<1>32. CASE name = "batteryPower"
  BY <1>32 DEF Reads, inputs, calculate, BatteryPower, Given
<1>33. CASE name = "propState"
  BY <1>33 DEF Reads, inputs, calculate, PropState, Given
<1>34. CASE name = "fuelConsumption"
  BY <1>34 DEF Reads, inputs, calculate, FuelConsumption, Given
<1>35. CASE name = "propSlip"
  BY <1>35 DEF Reads, inputs, calculate, PropSlip, Given
<1>36. CASE name = "tankVolume"
  BY <1>36 DEF Reads, inputs, calculate, TankVolume, Given
<1>37. QED BY NamesOfCalculators, <1>1, <1>2, <1>3, <1>4, <1>5, <1>6, <1>7,
       <1>8, <1>9, <1>10, <1>11, <1>12, <1>13, <1>14, <1>15, <1>16, <1>17,
       <1>18, <1>19, <1>20, <1>21, <1>22, <1>23, <1>24, <1>25, <1>26, <1>27,
       <1>28, <1>29, <1>30, <1>31, <1>32, <1>33, <1>34, <1>35, <1>36

(* It derives no path but its own.                                         *)
LEMMA DerivesItsOwn ==
  ASSUME NEW name \in Calculators, NEW v, NEW x, NEW p \in DOMAIN calculate(name, v, x)
  PROVE  name \in DerivedBy(p)
<1>1. CASE name = "headingTrue"
  <2>1. p \in {"headingTrue"}
    BY <1>1, JoinValue DEF calculate, NoPaths, HeadingTrue, Given, Out, Nothing
  <2>2. QED BY <1>1, <2>1 DEF DerivedBy, Current
<1>2. CASE name = "courseOverGroundMagnetic"
  <2>1. p \in {"courseOverGroundMagnetic"}
    BY <1>2, JoinValue DEF calculate, NoPaths, CourseOverGroundMagnetic,
       Given, Out, Nothing
  <2>2. QED BY <1>2, <2>1 DEF DerivedBy, Current
<1>3. CASE name = "courseOverGroundTrue"
  <2>1. p \in {"courseOverGroundTrue"}
    BY <1>3, JoinValue DEF calculate, NoPaths, CourseOverGroundTrue, Given,
       Out, Nothing
  <2>2. QED BY <1>3, <2>1 DEF DerivedBy, Current
<1>4. CASE name = "leewayAngle"
  <2>1. p \in {"leewayAngle"}
    BY <1>4, JoinValue DEF calculate, NoPaths, LeewayAngle, Given, Out, Nothing
  <2>2. QED BY <1>4, <2>1 DEF DerivedBy, Current
<1>5. CASE name = "leeway"
  <2>1. p \in {"leewayAngleHeel"}
    BY <1>5, JoinValue DEF calculate, NoPaths, Leeway, Given, Formulas, Nothing
  <2>2. QED BY <1>5, <2>1 DEF DerivedBy, Current
<1>6. CASE name = "setDrift"
  BY <1>6, JoinValue DEF DerivedBy, calculate, NoPaths, SetDrift, Given, Out,
     Formulas, Current, Nothing
<1>7. CASE name = "trueWind"
  BY <1>7, JoinValue DEF DerivedBy, calculate, NoPaths, TrueWind, Given, Out,
     Formulas, Nothing
<1>8. CASE name = "vmgWind"
  BY <1>8, JoinValue DEF DerivedBy, calculate, NoPaths, VmgWind, Given,
     Formulas, Nothing
<1>9. CASE name = "vmgStw"
  BY <1>9, JoinValue DEF DerivedBy, calculate, NoPaths, VmgStw, Given,
     Formulas, Nothing
<1>10. CASE name = "windDirectionMagnetic"
  BY <1>10, JoinValue DEF DerivedBy, calculate, NoPaths,
     WindDirectionMagnetic, Given, Out, Nothing
<1>11. CASE name = "windDirectionMagnetic2"
  BY <1>11, JoinValue DEF DerivedBy, calculate, NoPaths,
     WindDirectionMagnetic2, Given, Out, Nothing
<1>12. CASE name = "windGround"
  BY <1>12, JoinValue DEF DerivedBy, calculate, NoPaths, WindGround, Given,
     Formulas, Nothing
<1>13. CASE name = "windGroundDirection"
  BY <1>13, JoinValue DEF DerivedBy, calculate, NoPaths, WindGroundDirection,
     Given, Out, Nothing
<1>14. CASE name = "courseBearing"
  BY <1>14, JoinValue DEF DerivedBy, calculate, NoPaths, CourseBearing, Given,
     Formulas, Nothing
<1>15. CASE name = "bearingMagnetic"
  BY <1>15, JoinValue DEF DerivedBy, calculate, NoPaths, BearingMagnetic,
     Given, Out, Nothing
<1>16. CASE name = "courseDistance"
  BY <1>16, JoinValue DEF DerivedBy, calculate, NoPaths, CourseDistance,
     Given, Formulas, Nothing
<1>17. CASE name = "previousPointDistance"
  <2>1. p \in {"previousPointDistance"}
    BY <1>17, JoinValue DEF calculate, NoPaths, PreviousPointDistance, Given,
       Formulas, Nothing
  <2>2. QED BY <1>17, <2>1 DEF DerivedBy, Current
<1>18. CASE name = "courseXte"
  BY <1>18, JoinValue DEF DerivedBy, calculate, NoPaths, CourseXte, Given,
     Formulas, Nothing
<1>19. CASE name = "vmgWaypoint"
  BY <1>19, JoinValue DEF DerivedBy, calculate, NoPaths, VmgWaypoint, Given,
     Formulas, Nothing
<1>20. CASE name = "eta"
  BY <1>20, JoinValue DEF DerivedBy, calculate, NoPaths, Eta, Given, Formulas,
     Nothing
<1>21. CASE name = "steerError"
  <2>1. p \in {"steerError"}
    BY <1>21, JoinValue DEF calculate, NoPaths, SteerError, Given, Out, Nothing
  <2>2. QED BY <1>21, <2>1 DEF DerivedBy, Current
<1>22. CASE name = "airDensity"
  <2>1. p \in {"airDensity"}
    BY <1>22, JoinValue DEF calculate, NoPaths, AirDensity, Given, Formulas,
       Nothing
  <2>2. QED BY <1>22, <2>1 DEF DerivedBy, Current
<1>23. CASE name = "dewPoint"
  BY <1>23, JoinValue DEF DerivedBy, calculate, NoPaths, DewPoint, Given,
     Formulas, Nothing
<1>24. CASE name = "heatIndex"
  BY <1>24, JoinValue DEF DerivedBy, calculate, NoPaths, HeatIndex, Given,
     Formulas, Nothing
<1>25. CASE name = "windChill"
  BY <1>25, JoinValue DEF DerivedBy, calculate, NoPaths, WindChill, Given,
     Formulas, Nothing
<1>26. CASE name = "depthBelowKeel"
  <2>1. p \in {"belowKeel"}
    BY <1>26, JoinValue DEF calculate, NoPaths, DepthBelowKeel, Given, Out,
       Nothing
  <2>2. QED BY <1>26, <2>1 DEF DerivedBy, Current
<1>27. CASE name = "depthBelowSurface"
  BY <1>27, JoinValue DEF DerivedBy, calculate, NoPaths, DepthBelowSurface,
     Given, Out, Nothing
<1>28. CASE name = "transducerToKeel"
  <2>1. p \in {"transducerToKeel", "belowKeel"}
    BY <1>28, JoinValue DEF calculate, NoPaths, TransducerToKeel, Given, Out,
       Nothing
  <2>2. QED BY <1>28, <2>1 DEF DerivedBy, Current
<1>29. CASE name = "suncalc"
  BY <1>29, JoinValue DEF DerivedBy, calculate, NoPaths, SunCalc, Given,
     Formulas, Nothing
<1>30. CASE name = "suntime"
  BY <1>30, JoinValue DEF DerivedBy, calculate, NoPaths, SunTime, Given,
     Formulas, Nothing
<1>31. CASE name = "moon"
  BY <1>31, JoinValue DEF DerivedBy, calculate, NoPaths, Moon, Given,
     Formulas, Nothing
<1>32. CASE name = "batteryPower"
  BY <1>32, JoinValue DEF DerivedBy, calculate, NoPaths, BatteryPower, Given,
     Out, Nothing
<1>33. CASE name = "propState"
  BY <1>33, JoinValue DEF DerivedBy, calculate, NoPaths, PropState, Given,
     Out, Nothing
<1>34. CASE name = "fuelConsumption"
  BY <1>34, JoinValue DEF DerivedBy, calculate, NoPaths, FuelConsumption,
     Given, Formulas, Nothing
<1>35. CASE name = "propSlip"
  BY <1>35, JoinValue DEF DerivedBy, calculate, NoPaths, PropSlip, Given,
     Formulas, Nothing
<1>36. CASE name = "tankVolume"
  BY <1>36, JoinValue DEF DerivedBy, calculate, NoPaths, TankVolume, Given,
     Out, Nothing
<1>37. CASE name = "windShift"
  BY <1>37, JoinValue DEF DerivedBy, calculate, NoPaths, WindShift, Given,
     Out, Nothing
<1>38. QED BY NamesOfCalculators, <1>1, <1>2, <1>3, <1>4, <1>5, <1>6, <1>7,
       <1>8, <1>9, <1>10, <1>11, <1>12, <1>13, <1>14, <1>15, <1>16, <1>17,
       <1>18, <1>19, <1>20, <1>21, <1>22, <1>23, <1>24, <1>25, <1>26, <1>27,
       <1>28, <1>29, <1>30, <1>31, <1>32, <1>33, <1>34, <1>35, <1>36, <1>37

-----------------------------------------------------------------------------
(* The rounds come to an end: a calculator is one of the second round when *)
(* it looks at what another derives, of the third when it looks at what    *)
(* one of the second derives; none looks at what one of the third derives. *)
(* Those of instances run again and again, for they match their own paths, *)
(* and so does what depends on the courses where both are derived.         *)

Third ==
  {"vmgWind", "vmgStw", "windDirectionMagnetic", "windShift", "eta", "depthBelowSurface"}
Second ==
  Third \cup {"leewayAngle", "setDrift", "trueWind", "windGroundDirection", "bearingMagnetic",
             "vmgWaypoint", "steerError", "depthBelowKeel"}
Instances == {"batteryPower", "propState", "fuelConsumption", "propSlip", "tankVolume"}
Again(on) == Instances \cup IF Circular(on) THEN OfCourses ELSE {}

LEMMA OneDeriver ==
  ASSUME NEW p, NEW c \in DerivedBy(p), NEW d \in DerivedBy(p), c # d
  PROVE  p = "belowKeel" /\ {c, d} = {"depthBelowKeel", "transducerToKeel"}
  BY DEF DerivedBy

LEMMA InputsAreExact ==
  ASSUME NEW name \in Calculators \ Instances, NEW i \in inputs[name], NEW p
  PROVE  path_matches_input(p, i) => p = i
<1> SUFFICES i \notin {"electrical.batteries", "propulsion", "tanks"}
  BY DEF path_matches_input, Below
<1>1. CASE name = "headingTrue" BY <1>1 DEF inputs
<1>2. CASE name = "courseOverGroundMagnetic" BY <1>2 DEF inputs
<1>3. CASE name = "courseOverGroundTrue" BY <1>3 DEF inputs
<1>4. CASE name = "leewayAngle" BY <1>4 DEF inputs
<1>5. CASE name = "leeway" BY <1>5 DEF inputs
<1>6. CASE name = "setDrift" BY <1>6 DEF inputs
<1>7. CASE name = "trueWind" BY <1>7 DEF inputs
<1>8. CASE name = "vmgWind" BY <1>8 DEF inputs
<1>9. CASE name = "vmgStw" BY <1>9 DEF inputs
<1>10. CASE name = "windDirectionMagnetic" BY <1>10 DEF inputs
<1>11. CASE name = "windDirectionMagnetic2" BY <1>11 DEF inputs
<1>12. CASE name = "windGround" BY <1>12 DEF inputs
<1>13. CASE name = "windGroundDirection" BY <1>13 DEF inputs
<1>14. CASE name = "windShift" BY <1>14 DEF inputs
<1>15. CASE name = "courseBearing" BY <1>15 DEF inputs
<1>16. CASE name = "bearingMagnetic" BY <1>16 DEF inputs
<1>17. CASE name = "courseDistance" BY <1>17 DEF inputs
<1>18. CASE name = "previousPointDistance" BY <1>18 DEF inputs
<1>19. CASE name = "courseXte" BY <1>19 DEF inputs
<1>20. CASE name = "vmgWaypoint" BY <1>20 DEF inputs
<1>21. CASE name = "eta" BY <1>21 DEF inputs
<1>22. CASE name = "steerError" BY <1>22 DEF inputs
<1>23. CASE name = "airDensity" BY <1>23 DEF inputs
<1>24. CASE name = "dewPoint" BY <1>24 DEF inputs
<1>25. CASE name = "heatIndex" BY <1>25 DEF inputs
<1>26. CASE name = "windChill" BY <1>26 DEF inputs
<1>27. CASE name = "depthBelowKeel" BY <1>27 DEF inputs
<1>28. CASE name = "depthBelowSurface" BY <1>28 DEF inputs
<1>29. CASE name = "transducerToKeel" BY <1>29 DEF inputs
<1>30. CASE name = "suncalc" BY <1>30 DEF inputs
<1>31. CASE name = "suntime" BY <1>31 DEF inputs
<1>32. CASE name = "moon" BY <1>32 DEF inputs
<1>33. QED BY NamesOfCalculators, <1>1, <1>2, <1>3, <1>4, <1>5, <1>6, <1>7,
       <1>8, <1>9, <1>10, <1>11, <1>12, <1>13, <1>14, <1>15, <1>16, <1>17,
       <1>18, <1>19, <1>20, <1>21, <1>22, <1>23, <1>24, <1>25, <1>26, <1>27,
       <1>28, <1>29, <1>30, <1>31, <1>32
     DEF Instances

(* Whoever looks at what another derives is of a later round than that.    *)
LEMMA RanksRise ==
  ASSUME NEW on \in SUBSET Calculators, NEW c \in on \ Again(on), NEW d \in on,
         NEW i \in inputs[c], d \in DerivedBy(i)
  PROVE  /\ c \in Second /\ d \notin Third \cup Again(on)
         /\ d \in Second => c \in Third
<1> USE DEF Again, Second, Third, Instances, OfCourses, Circular
<1>0. d \in {"headingTrue", "courseOverGroundMagnetic", "courseOverGroundTrue",
       "leewayAngle", "leeway", "setDrift", "trueWind", "vmgWind", "vmgStw",
       "windDirectionMagnetic", "windDirectionMagnetic2", "windGround",
       "windGroundDirection", "windShift", "courseBearing",
       "bearingMagnetic", "courseDistance", "previousPointDistance",
       "courseXte", "vmgWaypoint", "eta", "steerError", "airDensity",
       "dewPoint", "heatIndex", "windChill", "depthBelowKeel",
       "depthBelowSurface", "transducerToKeel", "suncalc", "suntime", "moon",
       "batteryPower", "propState", "fuelConsumption", "propSlip",
       "tankVolume"}
  BY NamesOfCalculators
<1>1. CASE c = "headingTrue"
  <2>1. i \in {"headingMagnetic", "magneticVariation"} BY <1>1 DEF inputs
  <2>2. QED BY <1>0, <1>1, <2>1 DEF DerivedBy, Current
<1>2. CASE c = "courseOverGroundMagnetic"
  <2>1. i \in {"courseOverGroundTrue", "magneticVariation"} BY <1>2 DEF inputs
  <2>2. QED BY <1>0, <1>2, <2>1 DEF DerivedBy, Current
<1>3. CASE c = "courseOverGroundTrue"
  <2>1. i \in {"courseOverGroundMagnetic", "magneticVariation"}
    BY <1>3 DEF inputs
  <2>2. QED BY <1>0, <1>3, <2>1 DEF DerivedBy, Current
<1>4. CASE c = "leewayAngle"
  <2>1. i \in {"headingTrue", "courseOverGroundTrue"} BY <1>4 DEF inputs
  <2>2. QED BY <1>0, <1>4, <2>1 DEF DerivedBy, Current
<1>5. CASE c = "leeway"
  <2>1. i \in {"attitude", "speedThroughWater"} BY <1>5 DEF inputs
  <2>2. QED BY <1>0, <1>5, <2>1 DEF DerivedBy, Current
<1>6. CASE c = "setDrift"
  <2>1. i \in {"headingMagnetic", "courseOverGroundTrue", "speedThroughWater", "speedOverGround", "magneticVariation"}
    BY <1>6 DEF inputs
  <2>2. QED BY <1>0, <1>6, <2>1 DEF DerivedBy, Current
<1>7. CASE c = "trueWind"
  <2>1. i \in {"headingTrue", "speedThroughWater", "speedApparent", "angleApparent"}
    BY <1>7 DEF inputs
  <2>2. QED BY <1>0, <1>7, <2>1 DEF DerivedBy, Current
<1>8. CASE c = "vmgWind"
  <2>1. i \in {"angleTrueWater", "speedOverGround"} BY <1>8 DEF inputs
  <2>2. QED BY <1>0, <1>8, <2>1 DEF DerivedBy, Current
<1>9. CASE c = "vmgStw"
  <2>1. i \in {"angleTrueWater", "speedThroughWater"} BY <1>9 DEF inputs
  <2>2. QED BY <1>0, <1>9, <2>1 DEF DerivedBy, Current
<1>10. CASE c = "windDirectionMagnetic"
  <2>1. i \in {"directionTrue", "magneticVariation"} BY <1>10 DEF inputs
  <2>2. QED BY <1>0, <1>10, <2>1 DEF DerivedBy, Current
<1>11. CASE c = "windDirectionMagnetic2"
  <2>1. i \in {"headingMagnetic", "angleApparent"} BY <1>11 DEF inputs
  <2>2. QED BY <1>0, <1>11, <2>1 DEF DerivedBy, Current
<1>12. CASE c = "windGround"
  <2>1. i \in {"speedApparent", "angleApparent", "speedOverGround"}
    BY <1>12 DEF inputs
  <2>2. QED BY <1>0, <1>12, <2>1 DEF DerivedBy, Current
<1>13. CASE c = "windGroundDirection"
  <2>1. i \in {"headingTrue", "angleTrueGround"} BY <1>13 DEF inputs
  <2>2. QED BY <1>0, <1>13, <2>1 DEF DerivedBy, Current
<1>14. CASE c = "windShift"
  <2>1. i \in {"directionTrue"} BY <1>14 DEF inputs
  <2>2. QED BY <1>0, <1>14, <2>1 DEF DerivedBy, Current
<1>15. CASE c = "courseBearing"
  <2>1. i \in {"position", "nextPoint"} BY <1>15 DEF inputs
  <2>2. QED BY <1>0, <1>15, <2>1 DEF DerivedBy, Current
<1>16. CASE c = "bearingMagnetic"
  <2>1. i \in {"bearingTrackTrue", "magneticVariation"} BY <1>16 DEF inputs
  <2>2. QED BY <1>0, <1>16, <2>1 DEF DerivedBy, Current
<1>17. CASE c = "courseDistance"
  <2>1. i \in {"position", "nextPoint"} BY <1>17 DEF inputs
  <2>2. QED BY <1>0, <1>17, <2>1 DEF DerivedBy, Current
<1>18. CASE c = "previousPointDistance"
  <2>1. i \in {"position", "previousPoint"} BY <1>18 DEF inputs
  <2>2. QED BY <1>0, <1>18, <2>1 DEF DerivedBy, Current
<1>19. CASE c = "courseXte"
  <2>1. i \in {"position", "nextPoint", "previousPoint"} BY <1>19 DEF inputs
  <2>2. QED BY <1>0, <1>19, <2>1 DEF DerivedBy, Current
<1>20. CASE c = "vmgWaypoint"
  <2>1. i \in {"speedOverGround", "courseOverGroundTrue", "bearingTrackTrue"}
    BY <1>20 DEF inputs
  <2>2. QED BY <1>0, <1>20, <2>1 DEF DerivedBy, Current
<1>21. CASE c = "eta"
  <2>1. i \in {"nextPointDistance", "waypointVelocity"} BY <1>21 DEF inputs
  <2>2. QED BY <1>0, <1>21, <2>1 DEF DerivedBy, Current
<1>22. CASE c = "steerError"
  <2>1. i \in {"courseOverGroundTrue", "bearingTrackTrue"} BY <1>22 DEF inputs
  <2>2. QED BY <1>0, <1>22, <2>1 DEF DerivedBy, Current
<1>23. CASE c = "airDensity"
  <2>1. i \in {"temperature", "pressure", "humidity"} BY <1>23 DEF inputs
  <2>2. QED BY <1>0, <1>23, <2>1 DEF DerivedBy, Current
<1>24. CASE c = "dewPoint"
  <2>1. i \in {"temperature", "humidity"} BY <1>24 DEF inputs
  <2>2. QED BY <1>0, <1>24, <2>1 DEF DerivedBy, Current
<1>25. CASE c = "heatIndex"
  <2>1. i \in {"temperature", "humidity"} BY <1>25 DEF inputs
  <2>2. QED BY <1>0, <1>25, <2>1 DEF DerivedBy, Current
<1>26. CASE c = "windChill"
  <2>1. i \in {"temperature", "speedApparent"} BY <1>26 DEF inputs
  <2>2. QED BY <1>0, <1>26, <2>1 DEF DerivedBy, Current
<1>27. CASE c = "depthBelowKeel"
  <2>1. i \in {"belowTransducer", "transducerToKeel"} BY <1>27 DEF inputs
  <2>2. QED BY <1>0, <1>27, <2>1 DEF DerivedBy, Current
<1>28. CASE c = "depthBelowSurface"
  <2>1. i \in {"belowKeel", "draft"} BY <1>28 DEF inputs
  <2>2. QED BY <1>0, <1>28, <2>1 DEF DerivedBy, Current
<1>29. CASE c = "transducerToKeel"
  <2>1. i \in {"belowTransducer", "surfaceToTransducer", "draft"}
    BY <1>29 DEF inputs
  <2>2. QED BY <1>0, <1>29, <2>1 DEF DerivedBy, Current
<1>30. CASE c = "suncalc"
  <2>1. i \in {"position", "datetime"} BY <1>30 DEF inputs
  <2>2. QED BY <1>0, <1>30, <2>1 DEF DerivedBy, Current
<1>31. CASE c = "suntime"
  <2>1. i \in {"position", "datetime"} BY <1>31 DEF inputs
  <2>2. QED BY <1>0, <1>31, <2>1 DEF DerivedBy, Current
<1>32. CASE c = "moon"
  <2>1. i \in {"datetime"} BY <1>32 DEF inputs
  <2>2. QED BY <1>0, <1>32, <2>1 DEF DerivedBy, Current
<1>33. QED BY NamesOfCalculators, <1>1, <1>2, <1>3, <1>4, <1>5, <1>6, <1>7,
       <1>8, <1>9, <1>10, <1>11, <1>12, <1>13, <1>14, <1>15, <1>16, <1>17,
       <1>18, <1>19, <1>20, <1>21, <1>22, <1>23, <1>24, <1>25, <1>26, <1>27,
       <1>28, <1>29, <1>30, <1>31, <1>32

LEMMA AsDeclared ==
  ASSUME NEW name \in Calculators, NEW p \in Reads(name)
  PROVE  /\ p \in EveryPath
         /\ \E i \in inputs[name] : path_matches_input(p, i)
<1>1. CASE name \notin Instances
  <2>1. p \in inputs[name] BY <1>1 DEF Reads, Instances
  <2>2. QED BY <2>1 DEF EveryPath, path_matches_input
<1>2. CASE name \in Instances
  <2>1. \E prefix \in {"electrical.batteries", "propulsion", "tanks"} :
          (prefix \in inputs[name] /\ p \in Below[prefix]) \/ p \in inputs[name]
    <3>1. CASE name = "batteryPower" BY <3>1 DEF Reads, inputs, Below
    <3>2. CASE name = "propState" BY <3>2 DEF Reads, inputs, Below
    <3>3. CASE name = "fuelConsumption" BY <3>3 DEF Reads, inputs, Below
    <3>4. CASE name = "propSlip" BY <3>4 DEF Reads, inputs, Below
    <3>5. CASE name = "tankVolume" BY <3>5 DEF Reads, inputs, Below
    <3>6. QED BY <1>2, <3>1, <3>2, <3>3, <3>4, <3>5 DEF Instances
  <2>2. DOMAIN Below = {"electrical.batteries", "propulsion", "tanks"}
    BY DEF Below
  <2>3. \E i \in inputs[name] : path_matches_input(p, i)
    <3>1. PICK prefix \in DOMAIN Below :
            (prefix \in inputs[name] /\ p \in Below[prefix]) \/ p \in inputs[name]
      BY <2>1, <2>2
    <3>2. QED BY <3>1 DEF path_matches_input
  <2>4. p \in EveryPath
    <3>1. PICK prefix \in DOMAIN Below : p \in Below[prefix] \/ p \in inputs[name]
      BY <2>1, <2>2
    <3>2. p \in UNION {inputs[c] : c \in Calculators} \/ p \in UNION {Below[q] : q \in DOMAIN Below}
      BY <3>1
    <3>3. QED BY <3>2 DEF EveryPath
  <2>5. QED BY <2>3, <2>4
<1>3. QED BY <1>1, <1>2

-----------------------------------------------------------------------------
(* One round.                                                              *)

Due(on, r) == {c \in on : Affected(c, r.changed)}
InRound(on, r) ==
  [i \in DOMAIN all_calculators |->
     IF all_calculators[i] \notin Due(on, r) THEN Nothing
     ELSE calculate(all_calculators[i], r.snap, r.prev)]

LEMMA RoundIs ==
  ASSUME NEW on, NEW r
  PROVE  /\ Round(on, r).snap = Merged(InRound(on, r)) ++ r.snap
         /\ Round(on, r).changed = DOMAIN Merged(InRound(on, r))
  BY DEF Round, InRound, Due

LEMMA InRoundIs ==
  ASSUME NEW on \in SUBSET Calculators, NEW r
  PROVE  /\ \A p : p \in DOMAIN Merged(InRound(on, r)) <=>
                     \E c \in Due(on, r) : p \in DOMAIN calculate(c, r.snap, r.prev)
         /\ \A p \in DOMAIN Merged(InRound(on, r)) :
              \E c \in Due(on, r) : /\ p \in DOMAIN calculate(c, r.snap, r.prev)
                                    /\ Merged(InRound(on, r))[p] = calculate(c, r.snap, r.prev)[p]
<1> DEFINE t == InRound(on, r)
           out(c) == calculate(c, r.snap, r.prev)
<1>1. DOMAIN t = 1 .. 37 BY NamesOfCalculators DEF InRound
<1>2. /\ \A p : p \in DOMAIN Merged(t) <=> \E i \in 1 .. 37 : p \in DOMAIN t[i]
      /\ \A p \in DOMAIN Merged(t) :
           \E i \in 1 .. 37 : p \in DOMAIN t[i] /\ Merged(t)[p] = t[i][p]
  <2> HIDE DEF t
  <2>1. 37 \in Nat OBVIOUS
  <2>2. QED BY <1>1, <2>1, MergedTells
<1>3. \A i \in 1 .. 37 : t[i] = IF all_calculators[i] \in Due(on, r) THEN out(all_calculators[i])
                                ELSE Nothing
  BY NamesOfCalculators DEF InRound
<1>4. \A p : p \notin DOMAIN Nothing BY DEF Nothing, NoPaths
<1>5. \A c \in Due(on, r) : \E i \in 1 .. 37 : c = all_calculators[i]
  BY NamesOfCalculators DEF Due
<1> HIDE DEF t, out
<1>6. QED
  <2>1. ASSUME NEW p \in DOMAIN Merged(t)
        PROVE  \E c \in Due(on, r) : p \in DOMAIN out(c) /\ Merged(t)[p] = out(c)[p]
    BY <1>2, <1>3, <1>4
  <2>2. ASSUME NEW p, NEW c \in Due(on, r), p \in DOMAIN out(c)
        PROVE  p \in DOMAIN Merged(t)
    BY <1>2, <1>3, <1>5, <2>2
  <2>3. QED BY <2>1, <2>2 DEF t, out

(* Of the two that derive the depth below the keel, the later counts.      *)
LEMMA LaterCounts ==
  ASSUME NEW on \in SUBSET Calculators, NEW r, "transducerToKeel" \in Due(on, r),
         "belowKeel" \in DOMAIN calculate("transducerToKeel", r.snap, r.prev)
  PROVE  Merged(InRound(on, r))["belowKeel"]
           = calculate("transducerToKeel", r.snap, r.prev)["belowKeel"]
<1> DEFINE t == InRound(on, r)
           out(c) == calculate(c, r.snap, r.prev)
           S == {i \in 1 .. 37 : "belowKeel" \in DOMAIN t[i]}
<1>1. DOMAIN t = 1 .. 37 BY NamesOfCalculators DEF InRound
<1>2. \A i \in 1 .. 37 : t[i] = IF all_calculators[i] \in Due(on, r) THEN out(all_calculators[i])
                                ELSE Nothing
  BY NamesOfCalculators DEF InRound
<1>3. all_calculators[29] = "transducerToKeel" BY DEF all_calculators
<1>4. 29 \in S BY <1>2, <1>3
<1>5. Max(S) \in S /\ 29 <= Max(S)
  <2> HIDE DEF S
  <2>1. S \in SUBSET (1 .. 37) BY DEF S
  <2>2. QED BY <1>4, <2>1, LastOf
<1>6. PICK m \in 29 .. 37 : m = Max(S) BY <1>5
<1>7. all_calculators[m] = "transducerToKeel"
  <2>1. all_calculators[m] \in DerivedBy("belowKeel")
    <3>1. all_calculators[m] \in Due(on, r) /\ "belowKeel" \in DOMAIN out(all_calculators[m])
      BY <1>2, <1>5, <1>6 DEF Nothing, NoPaths
    <3>2. all_calculators[m] \in Calculators BY <3>1 DEF Due
    <3>3. QED BY <3>1, <3>2, DerivesItsOwn
  <2>2. all_calculators[m] \in {"depthBelowKeel", "transducerToKeel"}
    <3>1. DerivedBy("belowKeel") = {"depthBelowKeel", "transducerToKeel"}
      BY DEF DerivedBy, Current
    <3>2. QED BY <2>1, <3>1
  <2>3. all_calculators[m] # "depthBelowKeel" BY DEF all_calculators
  <2>4. QED BY <2>2, <2>3
<1>8. Merged(t)["belowKeel"] = t[m]["belowKeel"]
  <2>1. Merged(t) = TellsLast(t, 1 .. 37)
    <3> HIDE DEF t
    <3>1. 37 \in Nat OBVIOUS
    <3>2. QED BY <1>1, <3>1, MergedTellsLast
  <2>2. "belowKeel" \in UNION {DOMAIN t[i] : i \in 1 .. 37} BY <1>4
  <2>3. QED BY <1>6, <2>1, <2>2 DEF TellsLast
<1>9. QED BY <1>2, <1>7, <1>8
(* What it derives now is in the snapshot.                                 *)
Settled(name, snap) ==
  LET out == calculate(name, snap, NoValue)
  IN  \A p \in DOMAIN out : p \in DOMAIN snap /\ snap[p] = out[p]

WellFormed(snap) ==
  /\ EveryPath \subseteq DOMAIN snap
  /\ \A p \in {"draft", "surfaceToTransducer"} : snap[p] \in Int \cup {NoValue}

(* Between two rounds: whoever is not settled looks at what has changed.   *)
RoundInv(on, r) ==
  /\ WellFormed(r.snap)
  /\ \A c \in Steady(on) : Reads(c) \cap r.changed = {} => Settled(c, r.snap)

LEMMA SameReads ==
  ASSUME NEW c \in Calculators \ {"windShift"}, NEW f, NEW g, NEW x, NEW y,
         EveryPath \subseteq DOMAIN g, Reads(c) \cap DOMAIN f = {}
  PROVE  calculate(c, f ++ g, x) = calculate(c, g, y)
<1>1. \A p \in Reads(c) : p \in DOMAIN g \ DOMAIN f BY AsDeclared
<1>2. \A p \in Reads(c) : (f ++ g)[p] = g[p] BY <1>1, JoinValue
<1>3. QED BY <1>2, LooksAtReads

LEMMA DepthsAreThere == "draft" \in EveryPath /\ "surfaceToTransducer" \in EveryPath
<1>1. "transducerToKeel" \in Calculators
  <2>1. all_calculators[29] = "transducerToKeel" BY DEF all_calculators
  <2>2. QED BY <2>1, NamesOfCalculators
<1>2. Reads("transducerToKeel") = {"belowTransducer", "surfaceToTransducer", "draft"}
  BY DEF Reads, inputs
<1>3. QED BY <1>1, <1>2, AsDeclared

LEMMA StaysWellFormed ==
  ASSUME NEW f, NEW g, WellFormed(g),
         \A p \in {"draft", "surfaceToTransducer"} : p \in DOMAIN f => f[p] \in Int
  PROVE  WellFormed(f ++ g)
<1>1. EveryPath \subseteq DOMAIN (f ++ g) BY JoinValue DEF WellFormed
<1>2. "draft" \in EveryPath /\ "surfaceToTransducer" \in EveryPath
  BY DepthsAreThere
<1>3. ASSUME NEW p \in {"draft", "surfaceToTransducer"} PROVE (f ++ g)[p] \in Int \cup {NoValue}
  <2>1. p \in DOMAIN g /\ g[p] \in Int \cup {NoValue} BY <1>2 DEF WellFormed
  <2>2. CASE p \in DOMAIN f BY <2>2, JoinValue
  <2>3. CASE p \notin DOMAIN f BY <2>1, <2>3, JoinValue
  <2>4. QED BY <2>2, <2>3
<1>4. QED BY <1>1, <1>3 DEF WellFormed

(* The two that derive the depth below the keel agree once the offset is   *)
(* the one that is derived, and the one derives the offset as well.        *)
LEMMA KeelsAgree ==
  ASSUME NEW v, NEW x, WellFormed(v), Settled("transducerToKeel", v),
         "belowKeel" \in DOMAIN calculate("transducerToKeel", v, x),
         "belowKeel" \in DOMAIN calculate("depthBelowKeel", v, x)
  PROVE  calculate("depthBelowKeel", v, x)["belowKeel"]
           = calculate("transducerToKeel", v, x)["belowKeel"]
<1> DEFINE offset == v["draft"] - v["surfaceToTransducer"]
           both == Out("transducerToKeel", offset)
                     ++ Out("belowKeel", v["belowTransducer"] - offset)
<1>1. /\ calculate("transducerToKeel", v, x) = TransducerToKeel(v)
      /\ calculate("transducerToKeel", v, NoValue) = TransducerToKeel(v)
      /\ calculate("depthBelowKeel", v, x) = DepthBelowKeel(v)
  BY DEF calculate
<1>2. /\ TransducerToKeel(v) = both
      /\ v["draft"] \in Int /\ v["surfaceToTransducer"] \in Int
  BY <1>1 DEF TransducerToKeel, Given, Nothing, NoPaths, WellFormed
<1>3. /\ "transducerToKeel" \in DOMAIN both /\ both["transducerToKeel"] = offset
      /\ both["belowKeel"] = v["belowTransducer"] - offset
  BY JoinValue DEF Out
<1>4. v["transducerToKeel"] = offset BY <1>1, <1>2, <1>3 DEF Settled
<1>5. offset \in Int /\ offset # NoValue BY <1>2, SensorsAssumption
<1>6. DepthBelowKeel(v)["belowKeel"] = v["belowTransducer"] - offset
  <2>1. DepthBelowKeel(v) = Out("belowKeel", v["belowTransducer"] - offset)
    <3> HIDE DEF offset
    <3>1. QED BY <1>1, <1>4, <1>5 DEF DepthBelowKeel, Given, Nothing, NoPaths
  <2>2. QED BY <2>1 DEF Out
<1>7. QED BY <1>1, <1>2, <1>3, <1>6

LEMMA OffsetToo ==
  ASSUME NEW v, NEW x, "belowKeel" \in DOMAIN calculate("transducerToKeel", v, x)
  PROVE  "transducerToKeel" \in DOMAIN calculate("transducerToKeel", v, x)
<1>1. calculate("transducerToKeel", v, x) = TransducerToKeel(v) BY DEF calculate
<1>2. "belowKeel" \in DOMAIN TransducerToKeel(v) BY <1>1
<1>3. "transducerToKeel" \in DOMAIN TransducerToKeel(v)
  BY <1>2, JoinValue DEF TransducerToKeel, Given, Nothing, NoPaths, Out
<1>4. QED BY <1>1, <1>3

LEMMA RoundKeeps ==
  ASSUME NEW on \in SUBSET Calculators, NEW r, RoundInv(on, r)
  PROVE  RoundInv(on, Round(on, r))
<1> DEFINE new  == Merged(InRound(on, r))
           out(c) == calculate(c, r.snap, r.prev)
<1>1. Round(on, r).snap = new ++ r.snap /\ Round(on, r).changed = DOMAIN new
  BY RoundIs
<1>2. ASSUME NEW p \in DOMAIN new
      PROVE  \E c \in Due(on, r) : c \in DerivedBy(p) /\ p \in DOMAIN out(c) /\ new[p] = out(c)[p]
  <2>1. PICK c \in Due(on, r) : p \in DOMAIN out(c) /\ new[p] = out(c)[p]
    BY InRoundIs
  <2>2. c \in Calculators BY DEF Due
  <2>3. QED BY <2>1, <2>2, DerivesItsOwn
<1>3. WellFormed(new ++ r.snap)
  <2>1. ASSUME NEW p \in {"draft", "surfaceToTransducer"} PROVE p \notin DOMAIN new
    <3>1. DerivedBy(p) = {p} BY DEF DerivedBy, Current
    <3>2. p \notin Calculators BY NamesOfCalculators
    <3>3. QED BY <1>2, <3>1, <3>2 DEF Due
  <2>2. QED BY <2>1, StaysWellFormed DEF RoundInv
<1>4. ASSUME NEW c \in Steady(on), Reads(c) \cap DOMAIN new = {},
             NEW p \in DOMAIN calculate(c, new ++ r.snap, NoValue)
      PROVE  /\ p \in DOMAIN (new ++ r.snap)
             /\ (new ++ r.snap)[p] = calculate(c, new ++ r.snap, NoValue)[p]
  <2>1. c \in on /\ c \in Calculators \ {"windShift"} BY DEF Steady
  <2>2. EveryPath \subseteq DOMAIN r.snap BY DEF RoundInv, WellFormed
  <2>3. /\ calculate(c, new ++ r.snap, NoValue) = out(c)
        /\ calculate(c, r.snap, NoValue) = out(c)
    <3>1. calculate(c, new ++ r.snap, NoValue) = out(c)
      BY <1>4, <2>1, <2>2, SameReads
    <3>2. calculate(c, r.snap, NoValue) = out(c) BY <2>1, LooksAtReads
    <3>3. QED BY <3>1, <3>2
  <2>4. p \in DOMAIN out(c) /\ c \in DerivedBy(p)
    <3>1. p \in DOMAIN out(c) BY <2>3
    <3>2. QED BY <2>1, <3>1, DerivesItsOwn
  <2> HIDE DEF new
  <2>5. ASSUME NEW d \in Due(on, r), d \in DerivedBy(p), p \in DOMAIN out(d), d # c
        PROVE  p = "belowKeel" /\ c = "transducerToKeel" /\ d = "depthBelowKeel"
    <3>1. p = "belowKeel" /\ {c, d} = {"depthBelowKeel", "transducerToKeel"}
      BY <2>4, <2>5, OneDeriver
    <3>2. d # "transducerToKeel"
      <4> SUFFICES ASSUME d = "transducerToKeel" PROVE FALSE OBVIOUS
      <4>1. "transducerToKeel" \in DOMAIN out(d) BY <2>5, <3>1, OffsetToo
      <4>2. "transducerToKeel" \in DOMAIN new BY <4>1, InRoundIs DEF new
      <4>3. c = "depthBelowKeel" BY <3>1, <2>5
      <4>4. "transducerToKeel" \in Reads(c) BY <4>3 DEF Reads, inputs
      <4>5. QED BY <1>4, <4>2, <4>4
    <3>3. QED BY <3>1, <3>2, <2>5
  <2>6. CASE c \in Due(on, r)
    <3>1. p \in DOMAIN new BY <2>4, <2>6, InRoundIs DEF new
    <3>2. (new ++ r.snap)[p] = new[p] /\ p \in DOMAIN (new ++ r.snap)
      BY <3>1, JoinValue
    <3>3. PICK d \in Due(on, r) : d \in DerivedBy(p) /\ p \in DOMAIN out(d) /\ new[p] = out(d)[p]
      BY <1>2, <3>1 DEF new
    <3>4. new[p] = out(c)[p]
      <4>1. CASE d = c BY <3>3, <4>1
      <4>2. CASE d # c
        <5>1. p = "belowKeel" /\ c = "transducerToKeel" BY <2>5, <3>3, <4>2
        <5>2. QED BY <2>4, <2>6, <5>1, LaterCounts DEF new
      <4>3. QED BY <4>1, <4>2
    <3>5. QED BY <2>3, <3>2, <3>4
  <2>7. CASE c \notin Due(on, r)
    <3>1. Settled(c, r.snap)
      <4>1. Reads(c) \cap r.changed = {}
        BY <2>1, <2>7, AsDeclared DEF Due, Affected
      <4>2. QED BY <4>1 DEF RoundInv
    <3>2. p \in DOMAIN r.snap /\ r.snap[p] = out(c)[p]
      BY <2>3, <2>4, <3>1 DEF Settled
    <3>3. CASE p \notin DOMAIN new BY <2>3, <3>2, <3>3, JoinValue
    <3>4. CASE p \in DOMAIN new
      <4>1. (new ++ r.snap)[p] = new[p] /\ p \in DOMAIN (new ++ r.snap)
        BY <3>4, JoinValue
      <4>2. PICK d \in Due(on, r) : d \in DerivedBy(p) /\ p \in DOMAIN out(d) /\ new[p] = out(d)[p]
        BY <1>2, <3>4 DEF new
      <4>3. p = "belowKeel" /\ c = "transducerToKeel" /\ d = "depthBelowKeel"
        BY <2>5, <2>7, <4>2
      <4>4. out(d)[p] = out(c)[p]
        <5>1. WellFormed(r.snap) BY DEF RoundInv
        <5>2. QED BY <2>4, <3>1, <4>2, <4>3, <5>1, KeelsAgree
      <4>5. QED BY <2>3, <4>1, <4>2, <4>4
    <3>5. QED BY <3>3, <3>4
  <2>8. QED BY <2>6, <2>7
<1>5. \A c \in Steady(on) : Reads(c) \cap DOMAIN new = {} => Settled(c, new ++ r.snap)
  BY <1>4 DEF Settled
<1>6. QED BY <1>1, <1>3, <1>5 DEF RoundInv

-----------------------------------------------------------------------------
(* All of them.                                                            *)

(* What has changed was derived by one of these.                           *)
ChangedBy(r, names) == \A p \in r.changed : \E d \in names : d \in DerivedBy(p)
NextRound(on, r) == IF r.changed = {} THEN r ELSE Round(on, r)

LEMMA DueNext ==
  ASSUME NEW on \in SUBSET Calculators, NEW r, NEW names \in SUBSET on, ChangedBy(r, names)
  PROVE  \A c \in Due(on, r) \ Again(on) :
           /\ c \in on /\ c \in Second
           /\ \E d \in names : d \notin Third \cup Again(on) /\ (d \in Second => c \in Third)
<1> SUFFICES ASSUME NEW c \in Due(on, r) \ Again(on)
             PROVE  /\ c \in on /\ c \in Second
                    /\ \E d \in names : d \notin Third \cup Again(on) /\ (d \in Second => c \in Third)
  OBVIOUS
<1>1. c \in on /\ c \in Calculators \ Instances BY DEF Due, Again
<1>2. PICK i \in inputs[c], p \in r.changed : path_matches_input(p, i)
  BY DEF Due, Affected
<1>3. p = i BY <1>1, <1>2, InputsAreExact
<1>4. PICK d \in names : d \in DerivedBy(i) BY <1>3 DEF ChangedBy
<1>5. c \in Second /\ d \notin Third \cup Again(on) /\ (d \in Second => c \in Third)
  BY <1>1, <1>4, RanksRise
<1>6. QED BY <1>1, <1>5

LEMMA ChangedNext ==
  ASSUME NEW on \in SUBSET Calculators, NEW r, NEW names, Due(on, r) \subseteq names
  PROVE  ChangedBy(NextRound(on, r), names)
<1>1. CASE r.changed = {} BY <1>1 DEF NextRound, ChangedBy
<1>2. CASE r.changed # {}
  <2>1. Round(on, r).changed = DOMAIN Merged(InRound(on, r)) BY RoundIs
  <2>2. ASSUME NEW p \in DOMAIN Merged(InRound(on, r)) PROVE \E d \in names : d \in DerivedBy(p)
    <3>1. PICK c \in Due(on, r) : p \in DOMAIN calculate(c, r.snap, r.prev)
      BY InRoundIs
    <3>2. c \in Calculators BY DEF Due
    <3>3. QED BY <3>1, <3>2, DerivesItsOwn
  <2>3. QED BY <1>2, <2>1, <2>2 DEF NextRound, ChangedBy
<1>3. QED BY <1>1, <1>2

LEMMA NextRoundKeeps ==
  ASSUME NEW on \in SUBSET Calculators, NEW r, RoundInv(on, r)
  PROVE  RoundInv(on, NextRound(on, r))
  BY RoundKeeps DEF NextRound

(* Rounds is the last of a list of them.                                   *)
RoundsEquation(on, first, after) ==
  after = [n \in 0 .. MaxIterations |->
             IF n = 0 THEN first
             ELSE LET r == after[n - 1] IN IF r.changed = {} THEN r ELSE Round(on, r)]

LEMMA RoundsAre ==
  ASSUME NEW on, NEW first
  PROVE  \E after : /\ Rounds(on, first) = after[5] /\ after[0] = first
                    /\ \A n \in 1 .. 5 : after[n] = NextRound(on, after[n - 1])
<1> DEFINE r1 == NextRound(on, first)
           r2 == NextRound(on, r1)
           r3 == NextRound(on, r2)
           r4 == NextRound(on, r3)
           r5 == NextRound(on, r4)
           list == <<first, r1, r2, r3, r4, r5>>
           some == [n \in 0 .. 5 |-> list[n + 1]]
           chosen == CHOOSE after : RoundsEquation(on, first, after)
<1>1. RoundsEquation(on, first, some)
  <2>1. ASSUME NEW n \in 0 .. 5
        PROVE  some[n] = IF n = 0 THEN first ELSE NextRound(on, some[n - 1])
    <3>1. /\ some[0] = first /\ some[1] = r1 /\ some[2] = r2
          /\ some[3] = r3 /\ some[4] = r4 /\ some[5] = r5
      <4> HIDE DEF r1, r2, r3, r4, r5
      <4>1. QED OBVIOUS
    <3> HIDE DEF some
    <3>2. n = 0 \/ n = 1 \/ n = 2 \/ n = 3 \/ n = 4 \/ n = 5 OBVIOUS
    <3>3. QED BY <3>1, <3>2
  <2>2. some = [n \in 0 .. 5 |-> some[n]] OBVIOUS
  <2> HIDE DEF some
  <2>3. some = [n \in 0 .. 5 |-> IF n = 0 THEN first ELSE NextRound(on, some[n - 1])]
    BY <2>1, <2>2
  <2>4. QED BY <2>3 DEF RoundsEquation, MaxIterations, NextRound
<1> HIDE DEF some
<1>2. RoundsEquation(on, first, chosen) BY <1>1
<1>3. Rounds(on, first) = chosen[5] BY DEF Rounds, RoundsEquation, MaxIterations
<1> HIDE DEF chosen
<1>4. chosen = [n \in 0 .. 5 |-> IF n = 0 THEN first ELSE NextRound(on, chosen[n - 1])]
  BY <1>2 DEF RoundsEquation, MaxIterations, NextRound
<1>5. chosen[0] = first /\ \A n \in 1 .. 5 : chosen[n] = NextRound(on, chosen[n - 1])
  BY <1>4
<1>6. QED BY <1>3, <1>5

(* After the last round nobody looks at what it changed.                   *)
LEMMA AllSettled ==
  ASSUME NEW on \in SUBSET Calculators, NEW first, RoundInv(on, first)
  PROVE  /\ WellFormed(Rounds(on, first).snap)
         /\ \A c \in Steady(on) : Settled(c, Rounds(on, first).snap)
<1>1. PICK after : /\ Rounds(on, first) = after[5] /\ after[0] = first
                   /\ \A n \in 1 .. 5 : after[n] = NextRound(on, after[n - 1])
  BY RoundsAre
<1>2. /\ after[1] = NextRound(on, after[0]) /\ after[2] = NextRound(on, after[1])
      /\ after[3] = NextRound(on, after[2]) /\ after[4] = NextRound(on, after[3])
      /\ after[5] = NextRound(on, after[4])
  <2>1. /\ after[1] = NextRound(on, after[1 - 1]) /\ after[2] = NextRound(on, after[2 - 1])
        /\ after[3] = NextRound(on, after[3 - 1]) /\ after[4] = NextRound(on, after[4 - 1])
        /\ after[5] = NextRound(on, after[5 - 1])
    BY <1>1
  <2>2. QED BY <2>1
<1>3. RoundInv(on, after[5]) BY <1>1, <1>2, NextRoundKeeps
<1>4. Due(on, after[0]) \subseteq on BY DEF Due
<1>5. ChangedBy(after[1], on) BY <1>2, <1>4, ChangedNext
<1>6. Due(on, after[1]) \subseteq (Second \cup Again(on)) \cap on
  BY <1>5, DueNext DEF Due
<1>7. ChangedBy(after[2], (Second \cup Again(on)) \cap on)
  BY <1>2, <1>6, ChangedNext
<1>8. Due(on, after[2]) \subseteq (Third \cup Again(on)) \cap on
  BY <1>7, DueNext DEF Due
<1>9. ChangedBy(after[3], (Third \cup Again(on)) \cap on)
  BY <1>2, <1>8, ChangedNext
<1>10. Due(on, after[3]) \subseteq Again(on) \cap on BY <1>9, DueNext DEF Due
<1>11. ChangedBy(after[4], Again(on) \cap on) BY <1>2, <1>10, ChangedNext
<1>12. Due(on, after[4]) \subseteq Again(on) \cap on BY <1>11, DueNext DEF Due
<1>13. ChangedBy(after[5], Again(on) \cap on) BY <1>2, <1>12, ChangedNext
<1>14. ASSUME NEW c \in Steady(on), NEW p \in Reads(c), p \in after[5].changed PROVE FALSE
  <2>1. c \in on /\ c \in Calculators BY DEF Steady
  <2>2. PICK d \in Again(on) \cap on : d \in DerivedBy(p)
    BY <1>13, <1>14 DEF ChangedBy
  <2>3. CASE c \in Instances
    <3>1. p \in {"batteries.voltage", "batteries.current", "propulsion.revolutions",
                 "speedOverGround", "propulsion.fuel.rate", "speedThroughWater",
                 "tanks.capacity", "tanks.currentLevel"}
      BY <2>3 DEF Instances, Reads
    <3>2. DerivedBy(p) = {p} BY <3>1 DEF DerivedBy, Current
    <3>3. p \notin Calculators
      <4>1. CASE p \in {"batteries.voltage", "batteries.current", "propulsion.revolutions",
                        "speedOverGround"}
        BY <4>1, NamesOfCalculators
      <4>2. CASE p \in {"propulsion.fuel.rate", "speedThroughWater", "tanks.capacity",
                        "tanks.currentLevel"}
        BY <4>2, NamesOfCalculators
      <4>3. QED BY <3>1, <4>1, <4>2
    <3>4. QED BY <2>2, <3>2, <3>3
  <2>4. CASE c \notin Instances
    <3>1. c \notin Again(on) BY <2>4 DEF Steady, Again
    <3>2. p \in inputs[c] BY <2>4 DEF Reads, Instances
    <3>3. QED BY <2>1, <2>2, <3>1, <3>2, RanksRise
  <2>5. QED BY <2>3, <2>4
<1>15. QED BY <1>1, <1>3, <1>14 DEF RoundInv

(* The round that starts with what a sensor sent.                          *)
LEMMA FirstRound ==
  ASSUME NEW on, on = {} \/ \E off \in Disabled : on = Calculators \ off,
         NEW values \in SensorDeltas, NEW snap, WellFormed(snap),
         \A c \in Steady(on) : Settled(c, snap), NEW r,
         r.snap = values ++ snap, r.changed = DOMAIN values
  PROVE  on \in SUBSET Calculators /\ RoundInv(on, r)
<1>1. on \in SUBSET Calculators OBVIOUS
<1>2. \A p \in DOMAIN values : values[p] \in Int /\ DerivedBy(p) \cap Steady(on) = {}
  <2>1. Steady({}) = {} BY DEF Steady
  <2>2. QED BY <2>1, SensorsAssumption
<1>3. WellFormed(values ++ snap) BY <1>2, StaysWellFormed
<1>4. ASSUME NEW c \in Steady(on), Reads(c) \cap DOMAIN values = {},
             NEW p \in DOMAIN calculate(c, values ++ snap, NoValue)
      PROVE  /\ p \in DOMAIN (values ++ snap)
             /\ (values ++ snap)[p] = calculate(c, values ++ snap, NoValue)[p]
  <2>1. c \in Calculators \ {"windShift"} BY <1>1 DEF Steady
  <2>2. calculate(c, values ++ snap, NoValue) = calculate(c, snap, NoValue)
    BY <1>4, <2>1, SameReads DEF WellFormed
  <2>3. c \in DerivedBy(p) BY <2>1, DerivesItsOwn
  <2>4. p \in DOMAIN snap \ DOMAIN values /\ snap[p] = calculate(c, snap, NoValue)[p]
    BY <1>2, <2>2, <2>3 DEF Settled
  <2>5. QED BY <2>2, <2>4, JoinValue
<1>5. \A c \in Steady(on) : Reads(c) \cap DOMAIN values = {} => Settled(c, values ++ snap)
  BY <1>4 DEF Settled
<1>6. QED BY <1>1, <1>3, <1>5 DEF RoundInv

-----------------------------------------------------------------------------

IsQueue(queue) == \E S : queue \in Seq(S)

LEMMA QueueGrows ==
  ASSUME NEW queue, IsQueue(queue), NEW last
  PROVE  /\ IsQueue(Append(queue, last))
         /\ \A i \in 1 .. Len(Append(queue, last)) :
              Append(queue, last)[i] = last
                \/ (i \in 1 .. Len(queue) /\ Append(queue, last)[i] = queue[i])
<1>1. PICK S : queue \in Seq(S) BY DEF IsQueue
<1>2. queue \in Seq(S \cup {last}) BY <1>1
<1>3. Append(queue, last) \in Seq(S \cup {last}) BY <1>2
<1>4. \A i \in 1 .. Len(Append(queue, last)) :
        Append(queue, last)[i] = last
          \/ (i \in 1 .. Len(queue) /\ Append(queue, last)[i] = queue[i])
  <2>1. /\ Len(queue) \in Nat /\ Len(Append(queue, last)) = Len(queue) + 1
        /\ \A i \in 1 .. Len(queue) : Append(queue, last)[i] = queue[i]
        /\ Append(queue, last)[Len(queue) + 1] = last
    BY <1>2
  <2>2. \A i \in 1 .. Len(queue) + 1 : i \in 1 .. Len(queue) \/ i = Len(queue) + 1
    BY <2>1
  <2>3. QED BY <2>1, <2>2
<1>5. QED BY <1>3, <1>4 DEF IsQueue

LEMMA QueueShrinks ==
  ASSUME NEW queue, IsQueue(queue), queue # <<>>
  PROVE  /\ IsQueue(Tail(queue))
         /\ 1 \in 1 .. Len(queue) /\ Head(queue) = queue[1]
         /\ \A i \in 1 .. Len(Tail(queue)) :
              i + 1 \in 1 .. Len(queue) /\ Tail(queue)[i] = queue[i + 1]
<1>1. PICK S : queue \in Seq(S) BY DEF IsQueue
<1>2. Tail(queue) \in Seq(S) BY <1>1
<1>3. QED BY <1>1, <1>2 DEF IsQueue

FromSensors(delta) == Own(delta) \/ delta.values \in SensorDeltas
DerivedInv ==
  /\ calculating = {} \/ \E off \in Disabled : calculating = Calculators \ off
  /\ WellFormed(snapshot)
  /\ \A c \in Steady(calculating) : Settled(c, snapshot)
  /\ IsQueue(heardDerived)
  /\ \A i \in 1 .. Len(heardDerived) : FromSensors(heardDerived[i])

LEMMA PublishKeeps ==
  ASSUME DerivedInv, NEW label, NEW values, Publish(label, values),
         label = "derived-data" \/ values \in SensorDeltas,
         UNCHANGED <<calculating, snapshot>>
  PROVE  DerivedInv'
<1> DEFINE delta == [label |-> label, values |-> values]
<1>1. heardDerived' = heardDerived \/ heardDerived' = Append(heardDerived, delta)
  BY DEF Publish
<1>2. FromSensors(delta) BY DEF FromSensors, Own
<1>3. IsQueue(heardDerived') /\ \A i \in 1 .. Len(heardDerived') : FromSensors(heardDerived'[i])
  <2>1. CASE heardDerived' = heardDerived BY <2>1 DEF DerivedInv
  <2>2. CASE heardDerived' = Append(heardDerived, delta)
    <3> HIDE DEF delta
    <3>1. IsQueue(heardDerived) BY DEF DerivedInv
    <3>2. QED BY <1>2, <2>2, <3>1, QueueGrows DEF DerivedInv
  <2>3. QED BY <1>1, <2>1, <2>2
<1>4. QED BY <1>3 DEF DerivedInv

LEMMA UnknownIsSettled ==
  /\ WellFormed(Unknown)
  /\ \A c \in Calculators \ {"windShift"} : Settled(c, Unknown)
<1>1. WellFormed(Unknown) BY DepthsAreThere DEF WellFormed, Unknown
<1>2. ASSUME NEW c \in Calculators \ {"windShift"} PROVE Settled(c, Unknown)
  <2>1. \A p \in Reads(c) : Unknown[p] = NoValue BY AsDeclared DEF Unknown
  <2>2. calculate(c, Unknown, NoValue) = Nothing BY <2>1, SilentAtFirst
  <2>3. QED BY <2>2 DEF Settled, Nothing, NoPaths
<1>3. QED BY <1>1, <1>2

(* FixpointReached: after every delta of a sensor the rounds of the        *)
(* derived-data plugin have come to their end, and every value derived is  *)
(* the one its inputs give.                                                *)
THEOREM FixpointAlwaysReached == DerivedSpec => []FixpointReached
<1>1. DerivedInit => DerivedInv
  <2> SUFFICES ASSUME DerivedInit PROVE DerivedInv OBVIOUS
  <2>1. Steady(calculating) = {} BY DEF DerivedInit, Steady
  <2>2. heardDerived = <<>> /\ IsQueue(heardDerived) /\ Len(heardDerived) = 0
    <3>1. heardDerived = <<>> BY DEF DerivedInit
    <3>2. <<>> \in Seq({}) OBVIOUS
    <3>3. QED BY <3>1, <3>2 DEF IsQueue
  <2>3. QED BY <2>1, <2>2, UnknownIsSettled DEF DerivedInit, DerivedInv
<1>2. DerivedInv /\ [DerivedNext]_derivedVars => DerivedInv'
  <2> SUFFICES ASSUME DerivedInv, [DerivedNext]_derivedVars PROVE DerivedInv' OBVIOUS
  <2>1. CASE StartDerived
    <3>1. PICK off \in Disabled : calculating' = Calculators \ off
      BY <2>1 DEF StartDerived
    <3>2. snapshot' = Unknown /\ heardDerived' = heardDerived
      BY <2>1 DEF StartDerived
    <3>3. \A c \in Steady(calculating') : Settled(c, Unknown)
      BY <3>1, UnknownIsSettled DEF Steady
    <3>4. QED BY <3>1, <3>2, <3>3, UnknownIsSettled DEF DerivedInv
  <2>2. CASE StopDerived
    <3>1. calculating' = {} /\ snapshot' = snapshot /\ heardDerived' = <<>>
      BY <2>2 DEF StopDerived
    <3>2. Steady(calculating') = {} BY <3>1 DEF Steady
    <3>3. IsQueue(heardDerived') /\ Len(heardDerived') = 0
      <4>1. <<>> \in Seq({}) OBVIOUS
      <4>2. QED BY <3>1, <4>1 DEF IsQueue
    <3>4. QED BY <3>1, <3>2, <3>3 DEF DerivedInv
  <2>3. CASE SensorSends
    <3>1. PICK values \in SensorDeltas : Publish("sensor", values)
      BY <2>3 DEF SensorSends
    <3>2. UNCHANGED <<calculating, snapshot>> BY <2>3 DEF SensorSends
    <3>3. QED BY <3>1, <3>2, PublishKeeps
  <2>4. CASE HearOwn
    <3>1. heardDerived # <<>> /\ heardDerived' = Tail(heardDerived)
          /\ UNCHANGED <<calculating, snapshot>>
      BY <2>4 DEF HearOwn
    <3>2. IsQueue(heardDerived) BY DEF DerivedInv
    <3>3. QED BY <3>1, <3>2, QueueShrinks DEF DerivedInv
  <2>5. CASE Derive
    <3> DEFINE values == Head(heardDerived).values
               first == [snap |-> values ++ snapshot, changed |-> DOMAIN values,
                         derived |-> Nothing, prev |-> prev_direction]
    <3>1. /\ heardDerived # <<>> /\ ~Own(Head(heardDerived))
          /\ heardDerived' = Tail(heardDerived) /\ calculating' = calculating
          /\ snapshot' = Rounds(calculating, first).snap
      BY <2>5 DEF Derive
    <3>2. IsQueue(heardDerived) BY DEF DerivedInv
    <3>3. values \in SensorDeltas
      BY <3>1, <3>2, QueueShrinks DEF DerivedInv, FromSensors
    <3>4. calculating \in SUBSET Calculators /\ RoundInv(calculating, first)
      <4>1. first.snap = values ++ snapshot /\ first.changed = DOMAIN values OBVIOUS
      <4> HIDE DEF first, values
      <4>2. QED BY <3>3, <4>1, FirstRound DEF DerivedInv
    <3> HIDE DEF first
    <3>5. WellFormed(snapshot') /\ \A c \in Steady(calculating') : Settled(c, snapshot')
      BY <3>1, <3>4, AllSettled
    <3>6. IsQueue(heardDerived') /\ \A i \in 1 .. Len(heardDerived') : FromSensors(heardDerived'[i])
      BY <3>1, <3>2, QueueShrinks DEF DerivedInv
    <3>7. QED BY <3>1, <3>5, <3>6 DEF DerivedInv
  <2>6. CASE EmitDerived
    <3>1. PICK values : Publish("derived-data", values) BY <2>6 DEF EmitDerived
    <3>2. UNCHANGED <<calculating, snapshot>> BY <2>6 DEF EmitDerived
    <3>3. QED BY <3>1, <3>2, PublishKeeps
  <2>7. CASE UNCHANGED derivedVars BY <2>7 DEF DerivedInv, derivedVars
  <2>8. QED BY <2>1, <2>2, <2>3, <2>4, <2>5, <2>6, <2>7 DEF DerivedNext
<1>3. DerivedInv => FixpointReached
  <2> SUFFICES ASSUME DerivedInv, NEW c \in Steady(calculating),
                      NEW p \in DOMAIN calculate(c, snapshot, prev_direction)
               PROVE  snapshot[p] = calculate(c, snapshot, prev_direction)[p]
    BY DEF FixpointReached
  <2>1. c \in Calculators \ {"windShift"} BY DEF DerivedInv, Steady
  <2>2. calculate(c, snapshot, prev_direction) = calculate(c, snapshot, NoValue)
    BY <2>1, LooksAtReads
  <2>3. QED BY <2>2 DEF DerivedInv, Settled
<1>4. QED BY <1>1, <1>2, <1>3, PTL DEF DerivedSpec
=============================================================================
