------------------------------ MODULE Plugins ------------------------------
(***************************************************************************)
(* The plugin host: crates/signalk-server/src/plugins (manager, context,   *)
(* delta filter chain, route table, registry), the admin endpoints that    *)
(* start and stop plugins (api/admin.rs), and the registrations the bridge *)
(* makes over the internal API (signalk-internal/src/server.rs).           *)
(*                                                                         *)
(* A lifecycle request runs under the mutex of the plugin manager (`job`)  *)
(* and goes through the shared tables one lock at a time; other requests   *)
(* wait for the mutex, the bridge does not need it.  Requests that are     *)
(* refused before they change anything are no step.                        *)
(*                                                                         *)
(* A plugin registers each kind of thing at most once and under its own    *)
(* id, except for the PUT handler, whose path two plugins may share.       *)
(* Webapps are registered and kept like autopilot providers; the order of  *)
(* the filters in their chain is left aside.                               *)
(***************************************************************************)
EXTENDS Naturals, Sequences, FiniteSets

CONSTANTS
  Plugins,        \* compiled-in Rust plugins
  BridgePlugins,  \* Node.js plugins behind the bridge
  Wants,          \* Wants[p]: the context calls p makes in start, in order
  HandledPaths,          \* paths with PUT handlers
  PutPath,        \* PutPath[p]: the path p handles
  Clients,        \* concurrent admin requests
  Nobody,
  MaxRequests     \* bound on admin requests

Calls == {"subscribe", "put", "put_map", "routes", "route_map", "filter",
          "provider", "pilot"}
Kinds == {"enable", "disable", "restart", "config"}
Statuses == {"stopped", "starting", "running", "stopping", "error"}
StopSteps == {"stop", "cleanup", "routes", "handlers", "filters", "providers",
              "put_map", "route_map"}
Steps == StopSteps \cup {"start", "calls", "sync"}
Job == [kind : Kinds \cup {"boot"}, plugin : Plugins, at : Steps,
        real : BOOLEAN, calls : Seq(Calls)]

ASSUME PluginsAssumption ==
  /\ Wants \in [Plugins -> Seq(Calls \ {"put_map", "route_map"})]
  /\ \A p \in Plugins : \A i, j \in 1..Len(Wants[p]) :
       Wants[p][i] = "filter" /\ Wants[p][j] = "filter" => i = j
  /\ PutPath \in [Plugins -> HandledPaths]
  /\ Plugins \cap BridgePlugins = {}
  /\ Nobody \notin Plugins \cup BridgePlugins \cup Nat \cup Job \cup BOOLEAN
  /\ MaxRequests \in Nat

VARIABLES
  status,         \* PluginEntry.status
  loaded,         \* is PluginEntry.plugin the plugin, not its placeholder?
  context,        \* PluginEntry.context: its number, or Nobody
  contexts,       \* contexts created so far
  job,            \* the request that holds the manager, or Nobody
  booting,        \* start_all: plugins still to be started
  up,             \* the registry has been filled, requests are served
  subs,           \* subscription tasks that are running: <<plugin, context>>
  handlers,       \* PutHandlerRegistry: path -> plugin
  put_handlers,   \* the map shared with the bridge: path -> plugin
  route_table,    \* plugins with routes of their own
  plugin_routes,  \* the map shared with the bridge: plugins with routes
  filters,        \* the delta filter chain: how many filters a plugin has in it
  providers,      \* plugins registered as resource provider
  default_create, \* the default resource provider, or Nobody
  pilots,         \* plugins registered as autopilot provider
  registry,       \* PluginRegistry: the status shown to the admin
  enabled,        \* the flag of its configuration, or Nobody without one
  waiting,        \* admin requests waiting for the manager
  requests

tables == <<subs, handlers, put_handlers, route_table, plugin_routes, filters,
            providers, default_create, pilots>>
admin == <<registry, enabled, waiting, requests, booting, up>>
entries == <<status, loaded, context, contexts>>
vars == <<entries, job, tables, admin>>

-----------------------------------------------------------------------------
(* Mutant: the whole map is emptied.                                       *)
Without_all(f, p) == [x \in DOMAIN f |-> Nobody]

(* Entries of f that belong to p are removed.                              *)
Without(f, p) == [x \in DOMAIN f |-> IF f[x] = p THEN Nobody ELSE f[x]]

At(step) == job # Nobody /\ job.at = step
Goto(step) == job' = [job EXCEPT !.at = step]

(* What a request does once its plugin is stopped, started, or could not   *)
(* be started; update_plugin_config returns without updating the registry. *)
AfterStop == IF job.kind \in {"restart", "config"} THEN Goto("start")
             ELSE Goto("sync")
AfterStart == IF job.kind = "boot" THEN job' = Nobody ELSE Goto("sync")
AfterFailure == IF job.kind \in {"boot", "config"} THEN job' = Nobody
                ELSE Goto("sync")

Init ==
  /\ status = [p \in Plugins |-> "stopped"]
  /\ loaded = [p \in Plugins |-> TRUE]
  /\ context = [p \in Plugins |-> Nobody]
  /\ contexts = 0
  /\ job = Nobody
  /\ up = FALSE
  /\ subs = {}
  /\ handlers = [x \in HandledPaths |-> Nobody]
  /\ put_handlers = [x \in HandledPaths |-> Nobody]
  /\ route_table = {}
  /\ plugin_routes = {}
  /\ filters = [p \in Plugins |-> 0]
  /\ providers = {}
  /\ default_create = Nobody
  /\ pilots = {}
  /\ registry = [p \in Plugins \cup BridgePlugins |-> Nobody]
  /\ enabled \in [Plugins -> {TRUE, FALSE, Nobody}]
  /\ booting = {p \in Plugins : enabled[p] = TRUE}
  /\ waiting = [c \in Clients |-> Nobody]
  /\ requests = 0

(* start_all takes the enabled plugins in any order.                       *)
StartNext(p) ==
  /\ job = Nobody
  /\ p \in booting
  /\ booting' = booting \ {p}
  /\ job' = [kind |-> "boot", plugin |-> p, at |-> "start", real |-> FALSE,
             calls |-> <<>>]
  /\ UNCHANGED <<entries, tables, registry, enabled, waiting, requests, up>>

(* sync_tier1_status: the manager's view of every Rust plugin.             *)
Synced == [p \in Plugins \cup BridgePlugins |->
             IF p \in Plugins THEN status[p] ELSE registry[p]]

(* populate_registry_from_manager, then the server starts to listen.       *)
Populate ==
  /\ ~up
  /\ job = Nobody
  /\ booting = {}
  /\ registry' = Synced
  /\ up' = TRUE
  /\ UNCHANGED <<entries, job, tables, enabled, waiting, requests, booting>>

(* An admin request: enable and disable write their flag before they wait  *)
(* for the manager.                                                        *)
Request(c, kind, p) ==
  /\ up
  /\ waiting[c] = Nobody
  /\ requests < MaxRequests
  /\ requests' = requests + 1
  /\ waiting' = [waiting EXCEPT ![c] = [kind |-> kind, plugin |-> p]]
  /\ enabled' = IF kind = "enable" THEN [enabled EXCEPT ![p] = TRUE]
                ELSE IF kind = "disable" THEN [enabled EXCEPT ![p] = FALSE]
                ELSE enabled
  /\ UNCHANGED <<entries, job, tables, registry, booting, up>>

(* The request gets the manager.  A new configuration, enabled if it is    *)
(* the first one, is saved and restarts a running plugin only.             *)
FirstStep(r) ==
  CASE r.kind = "enable" -> "start"
    [] r.kind = "config" -> IF status[r.plugin] = "running" THEN "stop"
                            ELSE "sync"
    [] OTHER -> "stop"

Lock(c) ==
  /\ job = Nobody
  /\ waiting[c] # Nobody
  /\ job' = [kind |-> waiting[c].kind, plugin |-> waiting[c].plugin,
             at |-> FirstStep(waiting[c]), real |-> FALSE, calls |-> <<>>]
  /\ waiting' = [waiting EXCEPT ![c] = Nobody]
  /\ enabled' = IF waiting[c].kind = "config" /\ enabled[waiting[c].plugin] = Nobody
                THEN [enabled EXCEPT ![waiting[c].plugin] = TRUE]
                ELSE enabled
  /\ UNCHANGED <<entries, tables, registry, requests, booting, up>>

-----------------------------------------------------------------------------
(* stop_plugin; an error of plugin.stop is only logged.                    *)
StopBegin ==
  /\ At("stop")
  /\ \/ /\ status[job.plugin] = "stopped"
        /\ AfterStop
        /\ UNCHANGED status
     \/ /\ status[job.plugin] # "stopped"
        /\ status' = [status EXCEPT ![job.plugin] = "stopping"]
        /\ Goto("cleanup")
  /\ UNCHANGED <<loaded, context, contexts, tables, admin>>

(* cleanup_plugin aborts the subscription tasks of the context, if there   *)
(* still is one.                                                           *)
Cleanup ==
  /\ At("cleanup")
  /\ subs' = subs \ {<<job.plugin, context[job.plugin]>>}
  /\ context' = [context EXCEPT ![job.plugin] = Nobody]
  /\ Goto("routes")
  /\ UNCHANGED <<status, loaded, contexts, handlers, put_handlers, route_table,
                 plugin_routes, filters, providers, default_create, pilots,
                 admin>>

RemoveRoutes ==
  /\ At("routes")
  /\ route_table' = route_table \ {job.plugin}
  /\ Goto("handlers")
  /\ UNCHANGED <<entries, subs, handlers, put_handlers, plugin_routes, filters,
                 providers, default_create, pilots, admin>>

RemoveHandlers ==
  /\ At("handlers")
  /\ handlers' = Without(handlers, job.plugin)
  /\ Goto("filters")
  /\ UNCHANGED <<entries, subs, put_handlers, route_table, plugin_routes,
                 filters, providers, default_create, pilots, admin>>

RemoveFilters ==
  /\ At("filters")
  /\ filters' = [filters EXCEPT ![job.plugin] = 0]
  /\ Goto("providers")
  /\ UNCHANGED <<entries, subs, handlers, put_handlers, route_table,
                 plugin_routes, providers, default_create, pilots, admin>>

(* Mutant: the default provider is left as it is.                          *)
RemoveProviders_default ==
  /\ At("providers")
  /\ providers' = providers \ {job.plugin}
  /\ Goto("put_map")
  /\ UNCHANGED <<entries, subs, handlers, put_handlers, route_table,
                 plugin_routes, filters, default_create, pilots, admin>>

(* Providers and defaults change under one pair of locks.                  *)
RemoveProviders ==
  /\ At("providers")
  /\ providers' = providers \ {job.plugin}
  /\ default_create' = IF default_create = job.plugin THEN Nobody
                       ELSE default_create
  /\ Goto("put_map")
  /\ UNCHANGED <<entries, subs, handlers, put_handlers, route_table,
                 plugin_routes, filters, pilots, admin>>

RemoveFromPutMap ==
  /\ At("put_map")
  /\ put_handlers' = Without(put_handlers, job.plugin)
  /\ Goto("route_map")
  /\ UNCHANGED <<entries, subs, handlers, route_table, plugin_routes, filters,
                 providers, default_create, pilots, admin>>

StopEnd ==
  /\ At("route_map")
  /\ plugin_routes' = plugin_routes \ {job.plugin}
  /\ status' = [status EXCEPT ![job.plugin] = "stopped"]
  /\ AfterStop
  /\ UNCHANGED <<loaded, context, contexts, subs, handlers, put_handlers,
                 route_table, filters, providers, default_create, pilots,
                 admin>>

-----------------------------------------------------------------------------
(* Mutant: a running plugin is started again.                              *)
StartBegin_again ==
  /\ At("start")
  /\ status' = [status EXCEPT ![job.plugin] = "starting"]
  /\ contexts' = contexts + 1
  /\ context' = [context EXCEPT ![job.plugin] = contexts + 1]
  /\ loaded' = [loaded EXCEPT ![job.plugin] = FALSE]
  /\ job' = [job EXCEPT !.at = "calls", !.real = loaded[job.plugin],
               !.calls = IF loaded[job.plugin] THEN Wants[job.plugin]
                         ELSE <<>>]
  /\ UNCHANGED <<tables, admin>>

(* start_plugin: the plugin moves into a task of its own and leaves a      *)
(* placeholder behind, whose own start does nothing but fail.              *)
StartBegin ==
  /\ At("start")
  /\ \/ /\ status[job.plugin] = "running"
        /\ AfterStart
        /\ UNCHANGED entries
     \/ /\ status[job.plugin] # "running"
        /\ status' = [status EXCEPT ![job.plugin] = "starting"]
        /\ contexts' = contexts + 1
        /\ context' = [context EXCEPT ![job.plugin] = contexts + 1]
        /\ loaded' = [loaded EXCEPT ![job.plugin] = FALSE]
        /\ job' = [job EXCEPT !.at = "calls", !.real = loaded[job.plugin],
                     !.calls = IF loaded[job.plugin] THEN Wants[job.plugin]
                               ELSE <<>>]
  /\ UNCHANGED <<tables, admin>>

(* The context call the plugin makes next; put and routes visit two maps.  *)
SecondHalf(call) == CASE call = "put"    -> <<"put_map">>
                      [] call = "routes" -> <<"route_map">>
                      [] OTHER           -> <<>>

NextCall(call) ==
  /\ At("calls")
  /\ job.calls # <<>>
  /\ Head(job.calls) = call
  /\ job' = [job EXCEPT !.calls = SecondHalf(call) \o Tail(@)]
  /\ UNCHANGED <<entries, admin>>

Subscribe ==
  /\ NextCall("subscribe")
  /\ subs' = subs \cup {<<job.plugin, context[job.plugin]>>}
  /\ UNCHANGED <<handlers, put_handlers, route_table, plugin_routes, filters,
                 providers, default_create, pilots>>

RegisterPutHandler ==
  /\ \/ /\ NextCall("put")
        /\ handlers' = [handlers EXCEPT ![PutPath[job.plugin]] = job.plugin]
        /\ UNCHANGED put_handlers
     \/ /\ NextCall("put_map")
        /\ put_handlers' = [put_handlers EXCEPT
                              ![PutPath[job.plugin]] = job.plugin]
        /\ UNCHANGED handlers
  /\ UNCHANGED <<subs, route_table, plugin_routes, filters, providers,
                 default_create, pilots>>

(* Mutant: the map shared with the bridge is written first.                *)
RegisterRoutes_swapped ==
  /\ \/ /\ NextCall("routes")
        /\ plugin_routes' = plugin_routes \cup {job.plugin}
        /\ UNCHANGED route_table
     \/ /\ NextCall("route_map")
        /\ route_table' = route_table \cup {job.plugin}
        /\ UNCHANGED plugin_routes
  /\ UNCHANGED <<subs, handlers, put_handlers, filters, providers,
                 default_create, pilots>>

RegisterRoutes ==
  /\ \/ /\ NextCall("routes")
        /\ route_table' = route_table \cup {job.plugin}
        /\ UNCHANGED plugin_routes
     \/ /\ NextCall("route_map")
        /\ plugin_routes' = plugin_routes \cup {job.plugin}
        /\ UNCHANGED route_table
  /\ UNCHANGED <<subs, handlers, put_handlers, filters, providers,
                 default_create, pilots>>

RegisterDeltaInputHandler ==
  /\ NextCall("filter")
  /\ filters' = [filters EXCEPT ![job.plugin] = @ + 1]
  /\ UNCHANGED <<subs, handlers, put_handlers, route_table, plugin_routes,
                 providers, default_create, pilots>>

RegisterResourceProvider ==
  /\ NextCall("provider")
  /\ providers' = providers \cup {job.plugin}
  /\ UNCHANGED <<subs, handlers, put_handlers, route_table, plugin_routes,
                 filters, default_create, pilots>>

RegisterAutopilotProvider ==
  /\ NextCall("pilot")
  /\ pilots' = pilots \cup {job.plugin}
  /\ UNCHANGED <<subs, handlers, put_handlers, route_table, plugin_routes,
                 filters, providers, default_create>>

(* Every call went through: the plugin is back in its entry.               *)
StartSucceeds ==
  /\ At("calls")
  /\ job.real
  /\ job.calls = <<>>
  /\ loaded' = [loaded EXCEPT ![job.plugin] = TRUE]
  /\ status' = [status EXCEPT ![job.plugin] = "running"]
  /\ AfterStart
  /\ UNCHANGED <<context, contexts, tables, admin>>

(* start returned an error or panicked, after any number of its calls: the *)
(* plugin is dropped with its task, the context forgotten.                 *)
StartFails ==
  /\ At("calls")
  /\ status' = [status EXCEPT ![job.plugin] = "error"]
  /\ context' = [context EXCEPT ![job.plugin] = Nobody]
  /\ AfterFailure
  /\ UNCHANGED <<loaded, contexts, tables, admin>>

Sync ==
  /\ At("sync")
  /\ registry' = Synced
  /\ job' = Nobody
  /\ UNCHANGED <<entries, tables, enabled, waiting, requests, booting, up>>

-----------------------------------------------------------------------------
(* The bridge registers a PUT handler, its routes and its plugins.         *)
BridgeHandler(x, b) ==
  /\ put_handlers' = [put_handlers EXCEPT ![x] = b]
  /\ UNCHANGED <<entries, job, subs, handlers, route_table, plugin_routes,
                 filters, providers, default_create, pilots, admin>>

BridgeRoutes(b) ==
  /\ plugin_routes' = plugin_routes \cup {b}
  /\ UNCHANGED <<entries, job, subs, handlers, put_handlers, route_table,
                 filters, providers, default_create, pilots, admin>>

BridgeReport(b) ==
  /\ registry' = [registry EXCEPT ![b] = "running"]
  /\ UNCHANGED <<entries, job, tables, enabled, waiting, requests, booting, up>>

(* enable or disable for a bridge plugin the bridge has taken note of.     *)
BridgeLifecycle(b, s) ==
  /\ up
  /\ registry[b] # Nobody
  /\ registry' = [registry EXCEPT ![b] = s]
  /\ UNCHANGED <<entries, job, tables, enabled, waiting, requests, booting, up>>

(* The resources API picks a registered provider, or the file provider.    *)
SetDefaultProvider(p) ==
  /\ up
  /\ p = Nobody \/ p \in providers
  /\ default_create' = p
  /\ UNCHANGED <<entries, job, subs, handlers, put_handlers, route_table,
                 plugin_routes, filters, providers, pilots, admin>>

Next ==
  \/ \E p \in Plugins : StartNext(p)
  \/ Populate
  \/ \E c \in Clients, kind \in Kinds, p \in Plugins : Request(c, kind, p)
  \/ \E c \in Clients : Lock(c)
  \/ StopBegin \/ Cleanup \/ RemoveRoutes \/ RemoveHandlers \/ RemoveFilters
  \/ RemoveProviders \/ RemoveFromPutMap \/ StopEnd
  \/ StartBegin \/ Subscribe \/ RegisterPutHandler \/ RegisterRoutes
  \/ RegisterDeltaInputHandler \/ RegisterResourceProvider
  \/ RegisterAutopilotProvider \/ StartSucceeds \/ StartFails
  \/ Sync
  \/ \E x \in HandledPaths, b \in BridgePlugins : BridgeHandler(x, b)
  \/ \E b \in BridgePlugins : BridgeRoutes(b)
  \/ \E b \in BridgePlugins : BridgeReport(b)
  \/ \E b \in BridgePlugins, s \in {"running", "stopped"} : BridgeLifecycle(b, s)
  \/ \E p \in Plugins \cup {Nobody} : SetDefaultProvider(p)

Spec == Init /\ [][Next]_vars

-----------------------------------------------------------------------------
(* Entries, tables and requests keep their shapes.                         *)
TypeOK ==
  /\ status \in [Plugins -> Statuses]
  /\ loaded \in [Plugins -> BOOLEAN]
  /\ contexts \in Nat
  /\ context \in [Plugins -> Nat \cup {Nobody}]
  /\ job \in Job \cup {Nobody}
  /\ booting \in SUBSET Plugins
  /\ up \in BOOLEAN
  /\ subs \in SUBSET (Plugins \X Nat)
  /\ handlers \in [HandledPaths -> Plugins \cup {Nobody}]
  /\ put_handlers \in [HandledPaths -> Plugins \cup BridgePlugins \cup {Nobody}]
  /\ route_table \in SUBSET Plugins
  /\ plugin_routes \in SUBSET (Plugins \cup BridgePlugins)
  /\ filters \in [Plugins -> Nat]
  /\ providers \in SUBSET Plugins
  /\ default_create \in Plugins \cup {Nobody}
  /\ pilots \in SUBSET Plugins
  /\ registry \in [Plugins \cup BridgePlugins -> Statuses \cup {Nobody}]
  /\ enabled \in [Plugins -> {TRUE, FALSE, Nobody}]
  /\ waiting \in [Clients -> [kind : Kinds, plugin : Plugins] \cup {Nobody}]
  /\ requests \in 0..MaxRequests

Filtering(p) == filters[p] > 0

(* A stopped plugin is out of every table stop_plugin cleans, whether it   *)
(* ran, failed half way through its start or was stopped twice: no request,*)
(* delta or resource call reaches it any more.                             *)
StoppedLeavesNothing ==
  \A p \in Plugins :
    status[p] = "stopped" =>
      /\ \A x \in HandledPaths : handlers[x] # p /\ put_handlers[x] # p
      /\ p \notin route_table \cup plugin_routes \cup providers
      /\ default_create # p
      /\ ~Filtering(p)

(* However often a plugin is restarted, it leaves no two generations       *)
(* behind: a delta passes its input handler once, and the subscription     *)
(* tasks of a plugin that could be started again belong to its current     *)
(* context.                                                                *)
OneGeneration ==
  /\ \A p \in Plugins : filters[p] <= 1
  /\ \A t \in subs : loaded[t[1]] => context[t[1]] = t[2]

HandlesPut(p, x) ==
  PutPath[p] = x /\ \E i \in 1..Len(Wants[p]) : Wants[p][i] = "put"

(* When no lifecycle request is under way, a PUT or a plugin request that  *)
(* falls through to the bridge is not meant for a Rust plugin: the shared  *)
(* maps name one only where its own table has it.  (Not so for a path two  *)
(* Rust plugins handle: a start that fails between the two maps takes the  *)
(* first one's handler away and leaves its name.)                          *)
SharedMapsAgree ==
  job = Nobody =>
    /\ \A x \in HandledPaths :
         (\A p, q \in Plugins : HandlesPut(p, x) /\ HandlesPut(q, x) => p = q)
         /\ put_handlers[x] \in Plugins => handlers[x] = put_handlers[x]
    /\ plugin_routes \cap Plugins \subseteq route_table

(* The admin never sees a plugin as stopped or failed that is running.     *)
RunningIsShown ==
  up /\ job = Nobody =>
    \A p \in Plugins : status[p] = "running" => registry[p] = "running"

(* The host's tables agree with each other, and with what the admin sees.  *)
TablesAgree == TypeOK /\ SharedMapsAgree /\ RunningIsShown

(* A bridge plugin loses its PUT handler only to a later registration,     *)
(* never because some Rust plugin is stopped.                              *)
BridgeHandlersKept ==
  [][\A x \in HandledPaths :
       put_handlers[x] \in BridgePlugins => put_handlers'[x] # Nobody]_vars

=============================================================================
