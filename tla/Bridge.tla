------------------------------- MODULE Bridge -------------------------------
(***************************************************************************)
(* The server and the Node.js bridge as two processes that may each die:   *)
(* the internal API (signalk-internal/src/server.rs), the bridge's start   *)
(* and its plugins (bridge/src/index.js, plugins/loader.js, app.js), the   *)
(* requests between them (bridge/src/transport/uds.js, signalk-internal/   *)
(* src/uds.rs, api/mod.rs) and a standalone plugin's client                *)
(* (signalk-plugin-client).                                                *)
(*                                                                         *)
(* Every request has a connection of its own, so requests overtake each    *)
(* other.  The deltas the bridge sends are deltas of Store.  What a plugin *)
(* does with its requests' errors is its own affair.                       *)
(***************************************************************************)
EXTENDS Integers, FiniteSets

CONSTANTS
  JsPlugins,
  PutPaths,
  PathOf,           \* the path a plugin registers its PUT handler for
  Unset,            \* no handler
  FixedToken,       \* bridge_token is configured, not drawn at every start
  HttpClients,          \* HTTP requests in flight at the server
  MaxForwards,      \* bound on client requests
  MaxServerStarts,
  MaxBridgeStarts,
  MaxReloads        \* bound on plugin restarts

ASSUME BridgeAssumption ==
  /\ PathOf \in [JsPlugins -> PutPaths] /\ Unset \notin JsPlugins
  /\ FixedToken \in BOOLEAN
  /\ {MaxForwards, MaxReloads} \subseteq Nat
  /\ {MaxServerStarts, MaxBridgeStarts} \subseteq Nat \ {0}

VARIABLES
  server_up, server_starts,
  joined,           \* bridge_version: the start of the bridge that registered
  tier2_handlers,   \* put_handlers: path -> plugin
  tier2_routes,     \* plugin_routes
  listed,           \* bridge plugins in the plugin registry
  tasks,            \* reports on_bridge_plugins has spawned a task for
  phase, bridge_starts,
  token,            \* SIGNALK_BRIDGE_TOKEN of the bridge: a server start
  to_load,          \* packages still to load
  plugin_status,
  local_handlers,   \* _putHandlers
  routers,          \* how often the plugin's router listens for "proxy"
  outbox,           \* requests of the bridge on their way to the server
  reloads,
  forward,          \* the clients' requests
  forwards,
  remote,           \* what the standalone plugin's last call got
  stale             \* paths registered by a bridge that is gone (history)

serverVars == <<server_up, server_starts, joined, tier2_handlers, tier2_routes,
                listed, tasks>>
bridgeVars == <<phase, bridge_starts, token, to_load, plugin_status,
                local_handlers, routers>>
trafficVars == <<outbox, reloads, forward, forwards, remote>>
linkVars == <<serverVars, bridgeVars, trafficVars, stale>>

NoForward == [at |-> "none"]
(* The client has its answer; nothing depends on the status code.          *)
Answered(code) == NoForward
ToBridge == {c \in HttpClients : forward[c].at \in {"bridge", "handler", "hung"}}

(* The token the server was started with; a drawn one changes every time.  *)
ServerToken == IF FixedToken THEN 0 ELSE server_starts

BridgeInit ==
  /\ server_up = TRUE /\ server_starts = 1
  /\ joined = 0
  /\ tier2_handlers = [x \in PutPaths |-> Unset]
  /\ tier2_routes = {} /\ listed = {} /\ tasks = {}
  /\ phase = "down" /\ bridge_starts = 0 /\ token = 0
  /\ to_load = {}
  /\ plugin_status = [p \in JsPlugins |-> "none"]
  /\ local_handlers = {} /\ routers = [p \in JsPlugins |-> 0]
  /\ outbox = {} /\ reloads = 0
  /\ forward = [c \in HttpClients |-> NoForward] /\ forwards = 0
  /\ remote = "idle"
  /\ stale = {}

-----------------------------------------------------------------------------
(* The server process.  Everything the internal API keeps is in memory.    *)
ServerDies ==
  /\ server_up /\ server_starts < MaxServerStarts
  /\ server_up' = FALSE
  /\ joined' = 0
  /\ tier2_handlers' = [x \in PutPaths |-> Unset]
  /\ tier2_routes' = {} /\ listed' = {} /\ tasks' = {}
  /\ forward' = [c \in HttpClients |-> NoForward]
  /\ outbox' = {m \in outbox : m.kind # "answer"}
  /\ stale' = {}
  /\ UNCHANGED <<server_starts, bridgeVars, reloads, forwards, remote>>

(* bind_unix_socket removes the socket the dead server left behind.        *)
ServerStarts ==
  /\ ~server_up /\ server_up' = TRUE
  /\ server_starts' = server_starts + 1
  /\ UNCHANGED <<joined, tier2_handlers, tier2_routes, listed, tasks,
                 bridgeVars, trafficVars, stale>>

(* check_token compares the header X-Bridge-Token and looks at no other.   *)
CheckToken(header, value) ==
  header = "X-Bridge-Token" /\ value = ServerToken

BridgeToken == IF FixedToken THEN 0 ELSE token
Accepted == server_up /\ CheckToken("X-Bridge-Token", BridgeToken)

(* A task on_bridge_plugins spawned lists the plugins of a report.         *)
ListPlugins(plugins) ==
  /\ plugins \in tasks /\ tasks' = tasks \ {plugins}
  /\ listed' = listed \cup plugins
  /\ UNCHANGED <<server_up, server_starts, joined, tier2_handlers, tier2_routes,
                 bridgeVars, trafficVars, stale>>

-----------------------------------------------------------------------------
(* The bridge process.                                                     *)
BridgeGone ==
  /\ phase' = "down" /\ to_load' = {}
  /\ plugin_status' = [p \in JsPlugins |-> "none"]
  /\ local_handlers' = {} /\ routers' = [p \in JsPlugins |-> 0]
  /\ stale' = stale \cup {x \in PutPaths : tier2_handlers[x] # Unset}
  /\ outbox' = {m \in outbox : m.kind # "answer"}
  /\ UNCHANGED <<bridge_starts, token>>

(* Connections break: uds_post finds no status in what it has read (0) and *)
(* uds_proxy no end of the header; both are errors.                        *)
Broken_unnoticed == forward
Broken == [c \in HttpClients |-> IF c \in ToBridge THEN Answered(503) ELSE forward[c]]

BridgeDies ==
  /\ phase # "down" /\ bridge_starts < MaxBridgeStarts
  /\ BridgeGone
  /\ forward' = Broken
  /\ UNCHANGED <<serverVars, reloads, forwards, remote>>

(* main: the callback server listens before anything else.  Whoever starts *)
(* the bridge has the token of the last server that ran.                   *)
BridgeStarts ==
  /\ phase = "down" /\ bridge_starts < MaxBridgeStarts
  /\ bridge_starts' = bridge_starts + 1
  /\ phase' = "register" /\ token' = server_starts
  /\ UNCHANGED <<to_load, plugin_status, local_handlers, routers, serverVars,
                 trafficVars, stale>>

(* One retry after five seconds, then the process exits.                   *)
RegisterBridge ==
  /\ phase \in {"register", "retry"} /\ Accepted
  /\ joined' = bridge_starts
  /\ phase' = "load" /\ to_load' = JsPlugins
  /\ UNCHANGED <<server_up, server_starts, tier2_handlers, tier2_routes, listed,
                 tasks, bridge_starts, token, plugin_status,
                 local_handlers, routers, trafficVars, stale>>

RegisterFails ==
  /\ ~Accepted
  /\ \/ /\ phase = "register" /\ phase' = "retry"
        /\ UNCHANGED <<bridge_starts, token, to_load, plugin_status,
                       local_handlers, routers, outbox, forward, stale>>
     \/ /\ phase = "retry" /\ BridgeGone /\ forward' = Broken
  /\ UNCHANGED <<serverVars, reloads, forwards, remote>>

Message(kind, p, n) ==
  [kind |-> kind, plugin |-> p, n |-> n, from |-> bridge_starts, token |-> BridgeToken]
Registrations(p, n) == {Message("handler", p, 0), Message("routes", p, n)}

StartPlugin_unkept(p, n) ==
  /\ plugin_status' = [plugin_status EXCEPT ![p] = "started"]
  /\ local_handlers' = local_handlers
  /\ outbox' = outbox \cup Registrations(p, n)

(* plugin.start calls registerPutHandler, which keeps the handler before   *)
(* it tells the server, and registerWithRouter, which tells the server     *)
(* first.  n tells the starts of a plugin apart.                           *)
StartPlugin(p, n) ==
  /\ plugin_status' = [plugin_status EXCEPT ![p] = "started"]
  /\ local_handlers' = local_handlers \cup {p}
  /\ outbox' = outbox \cup Registrations(p, n)

(* registerWithRouter once the server has answered: the router listens for *)
(* proxied requests, next to one of an earlier start of the plugin.        *)
Listen(m) ==
  /\ m \in outbox /\ m.kind = "answer" /\ outbox' = outbox \ {m}
  /\ m.from = bridge_starts /\ phase # "down"
  /\ routers' = [routers EXCEPT ![m.plugin] = @ + 1]
  /\ UNCHANGED <<serverVars, phase, bridge_starts, token, to_load, plugin_status,
                 local_handlers, reloads, forward, forwards, remote, stale>>

(* load: a package that cannot be loaded is not kept, one whose start      *)
(* throws stays loaded; loadAll goes on either way.                        *)
LoadPlugin(p, outcome) ==
  /\ phase = "load" /\ p \in to_load /\ to_load' = to_load \ {p}
  /\ IF outcome = "started"
     THEN StartPlugin(p, 0)
     ELSE /\ plugin_status' = [plugin_status EXCEPT ![p] = outcome]
          /\ UNCHANGED <<local_handlers, outbox>>
  /\ UNCHANGED <<phase, bridge_starts, token, routers, serverVars, reloads,
                 forward, forwards, remote, stale>>

(* reportPlugins(loader.list()); a failure is only logged.                 *)
ReportPlugins ==
  /\ phase = "load" /\ to_load = {} /\ phase' = "run"
  /\ tasks' = IF Accepted
              THEN tasks \cup {{p \in JsPlugins : plugin_status[p] # "none"}}
              ELSE tasks
  /\ UNCHANGED <<server_up, server_starts, joined, tier2_handlers, tier2_routes,
                 listed, bridge_starts, token, to_load, plugin_status,
                 local_handlers, routers, trafficVars, stale>>

(* _restartPlugin, when the plugin calls its restart function: stop takes  *)
(* back neither the handler nor the listener.                              *)
RestartPlugin(p, outcome) ==
  /\ phase = "run" /\ plugin_status[p] = "started" /\ reloads < MaxReloads
  /\ reloads' = reloads + 1
  /\ IF outcome = "started"
     THEN StartPlugin(p, reloads + 1)
     ELSE /\ plugin_status' = [plugin_status EXCEPT ![p] = outcome]
          /\ UNCHANGED <<local_handlers, outbox>>
  /\ UNCHANGED <<phase, bridge_starts, token, to_load, routers, serverVars, forward,
                 forwards, remote, stale>>

(* A request reaches the server, perhaps after the bridge has gone.        *)
Deliver(m) ==
  /\ m \in outbox /\ m.kind # "answer"
  /\ outbox' = (outbox \ {m}) \cup
       IF m.kind = "routes" THEN {[m EXCEPT !.kind = "answer"]} ELSE {}
  /\ server_up /\ CheckToken("X-Bridge-Token", m.token)
  /\ CASE m.kind = "handler" ->       \* register_handler
            LET x == PathOf[m.plugin]
            IN  /\ tier2_handlers' = [tier2_handlers EXCEPT ![x] = m.plugin]
                /\ stale' = IF m.from = bridge_starts /\ phase # "down"
                            THEN stale \ {x} ELSE stale \cup {x}
                /\ UNCHANGED tier2_routes
       [] m.kind = "routes" ->        \* register_plugin_routes
            /\ tier2_routes' = tier2_routes \cup {m.plugin}
            /\ UNCHANGED <<tier2_handlers, stale>>
  /\ UNCHANGED <<server_up, server_starts, joined, listed, tasks, bridgeVars,
                 reloads, forward, forwards, remote>>

(* No server, a wrong token (401), or a bridge that died while writing.    *)
Lose(m) ==
  /\ m \in outbox /\ outbox' = outbox \ {m}
  /\ \/ ~(server_up /\ CheckToken("X-Bridge-Token", m.token))
     \/ m.from # bridge_starts \/ phase = "down"
  /\ UNCHANGED <<serverVars, bridgeVars, reloads, forward, forwards, remote, stale>>

-----------------------------------------------------------------------------
(* Requests of HTTP clients that end at the bridge: PUT on a path, and any *)
(* method under /plugins/{id}.                                             *)
Forward(c, kind, target) ==
  /\ server_up /\ forward[c] = NoForward /\ forwards < MaxForwards
  /\ forwards' = forwards + 1
  /\ forward' = [forward EXCEPT ![c] = [at |-> "find", kind |-> kind, target |-> target]]
  /\ UNCHANGED <<serverVars, bridgeVars, outbox, reloads, remote, stale>>

Moves(c, next) ==
  /\ forward' = [forward EXCEPT ![c] = next]
  /\ UNCHANGED <<serverVars, bridgeVars, outbox, reloads, forwards, remote, stale>>

(* put_path and proxy_plugin_route look the plugin up under a read lock    *)
(* and drop it.                                                            *)
FindTarget(c) ==
  LET f == forward[c]
      p == IF f.kind = "put" THEN tier2_handlers[f.target]
           ELSE IF f.target \in tier2_routes THEN f.target ELSE Unset
  IN  /\ f.at = "find"
      /\ Moves(c, IF p = Unset THEN Answered(404)
                  ELSE [at |-> "send", kind |-> f.kind, plugin |-> p])

(* uds_post, uds_proxy: connect and write, or the bridge is unreachable.   *)
Send(c) ==
  /\ forward[c].at = "send"
  /\ Moves(c, IF phase = "down" THEN Answered(503) ELSE [forward[c] EXCEPT !.at = "bridge"])

(* _handleCallback and the app's "put" listener.                           *)
HandlePut(c) ==
  /\ phase # "down" /\ forward[c].at = "bridge" /\ forward[c].kind = "put"
  /\ Moves(c, IF forward[c].plugin \in local_handlers
              THEN [forward[c] EXCEPT !.at = "handler"]
              ELSE Answered(500))     \* state FAILED, statusCode 404

(* "proxy" without a listener is answered by nobody and uds_proxy waits:   *)
(* the server may know the routes before the router listens.               *)
HandleProxy(c) ==
  LET n == routers[forward[c].plugin]
  IN  /\ phase # "down" /\ forward[c].at = "bridge" /\ forward[c].kind = "proxy"
      /\ n <= 1
      /\ Moves(c, [forward[c] EXCEPT !.at = IF n = 1 THEN "handler" ELSE "hung"])

(* With two listeners both respond: writing a second head throws, in the   *)
(* router and then in its error handler, and nobody catches that.          *)
RespondTwice(c) ==
  /\ phase # "down" /\ forward[c].at = "bridge" /\ forward[c].kind = "proxy"
  /\ routers[forward[c].plugin] > 1
  /\ BridgeGone
  /\ forward' = [Broken EXCEPT ![c] = Answered(200)]
  /\ UNCHANGED <<serverVars, reloads, forwards, remote>>

(* The plugin's code comes to an end (external).                           *)
HandlerReturns(c, succeeds) ==
  /\ phase # "down" /\ forward[c].at = "handler"
  /\ Moves(c, Answered(IF succeeds THEN 200 ELSE 500))

-----------------------------------------------------------------------------
(* RemotePluginContext::request: the token travels in an Authorization     *)
(* header.  A standalone plugin has the server's current token here.       *)
RemoteCall ==
  /\ server_up
  /\ remote' = IF CheckToken("Authorization", ServerToken) THEN "accepted" ELSE "refused"
  /\ UNCHANGED <<serverVars, bridgeVars, outbox, reloads, forward, forwards, stale>>

ClientStep(c) ==
  \/ FindTarget(c) \/ Send(c) \/ HandlePut(c) \/ HandleProxy(c) \/ RespondTwice(c)
  \/ \E b \in BOOLEAN : HandlerReturns(c, b)

BridgeNext ==
  \/ ServerDies \/ ServerStarts \/ BridgeDies \/ BridgeStarts
  \/ RegisterBridge \/ RegisterFails \/ ReportPlugins
  \/ \E plugins \in tasks : ListPlugins(plugins)
  \/ \E p \in JsPlugins :
       \/ \E o \in {"started", "failed", "none"} : LoadPlugin(p, o)
       \/ \E o \in {"started", "failed"} : RestartPlugin(p, o)
  \/ \E m \in outbox : Deliver(m) \/ Listen(m) \/ Lose(m)
  \/ \E c \in HttpClients :
       \/ \E x \in PutPaths : Forward(c, "put", x)
       \/ \E p \in JsPlugins : Forward(c, "proxy", p)
       \/ ClientStep(c)

(* tokio and node run what is ready; a plugin's handler comes to an end.   *)
BridgeFairness ==
  /\ WF_linkVars(\E m \in outbox : Deliver(m) \/ Listen(m) \/ Lose(m))
  /\ \A c \in HttpClients : WF_linkVars(ClientStep(c))

BridgeSpec == BridgeInit /\ [][BridgeNext]_linkVars /\ BridgeFairness

-----------------------------------------------------------------------------
(* Shapes, and what belongs together in them: only a running bridge has    *)
(* handlers, and only the current one can have joined last.                *)
BridgeTypeOK ==
  /\ joined \in 0..bridge_starts
  /\ tier2_handlers \in [PutPaths -> JsPlugins \cup {Unset}]
  /\ tier2_routes \subseteq JsPlugins /\ listed \subseteq JsPlugins
  /\ phase \in {"down", "register", "retry", "load", "run"}
  /\ phase = "down" => local_handlers = {} /\ ToBridge = {}
  /\ \A p \in JsPlugins : routers[p] > 0 => p \in local_handlers

(* The bridge knows a handler for every PUT the server would forward to    *)
(* it, however registrations and requests overtake each other; only what a *)
(* dead bridge had registered is the exception.                            *)
ForwardsFindHandler ==
  \A x \in PutPaths \ stale :
    tier2_handlers[x] # Unset => tier2_handlers[x] \in local_handlers

(* What server and bridge know of each other fits together, whichever of   *)
(* the two has been restarted.                                             *)
BridgeConsistent == BridgeTypeOK /\ ForwardsFindHandler

(* Every PUT is answered, also when the bridge dies with it.               *)
PutsAreAnswered ==
  \A c \in HttpClients :
    (forward[c].at # "none" /\ forward[c].kind = "put") ~> (forward[c].at = "none")

(* A plugin that runs in a bridge the server has accepted becomes known to *)
(* the server, unless one of the three goes away first.                    *)
RoutesBecomeKnown ==
  \A p \in JsPlugins :
    (plugin_status[p] = "started" /\ joined = bridge_starts)
      ~> (p \in tier2_routes \/ plugin_status[p] # "started" \/ joined # bridge_starts)

(* Neither side waits for the other for ever.                              *)
BridgeProgress == PutsAreAnswered /\ RoutesBecomeKnown

(* "All requests require `Authorization: Bearer <token>` header": a        *)
(* standalone plugin that sends it with the right token is let in.         *)
BearerAccepted == remote # "refused"
=============================================================================
