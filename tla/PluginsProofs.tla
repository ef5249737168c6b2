---------------------------- MODULE PluginsProofs ----------------------------
(* Theorems about Plugins, for every set of plugins, their calls, bridge   *)
(* plugins and admin requests.                                             *)
EXTENDS Plugins, Integers, SequenceTheorems, TLAPS

Cleaning == {"cleanup", "routes", "handlers", "filters", "providers", "put_map", "route_map"}

(* A plugin is stopping or starting exactly while a request is at it, and  *)
(* one that could not be started has lost its plugin.                      *)
PhaseInv ==
  /\ job # Nobody =>
       /\ job.at \in Cleaning => status[job.plugin] = "stopping"
       /\ job.at = "calls" =>
            /\ status[job.plugin] = "starting" /\ ~loaded[job.plugin]
            /\ context[job.plugin] \in Nat
       /\ ~job.real => job.calls = <<>>
  /\ \A p \in Plugins :
       /\ status[p] \in {"starting", "stopping"} =>
            job # Nobody /\ job.plugin = p /\ job.at \in Cleaning \cup {"calls"}
       /\ status[p] = "error" => ~loaded[p]

(* stop_plugin cleans table after table.                                   *)
NoHandler(p)  == \A x \in HandledPaths : handlers[x] # p
NoPutMap(p)   == \A x \in HandledPaths : put_handlers[x] # p
NoProvider(p) == p \notin providers /\ default_create # p

CleanInv ==
  /\ job # Nobody =>
       /\ job.at \in {"handlers", "filters", "providers", "put_map", "route_map"}
            => job.plugin \notin route_table
       /\ job.at \in {"filters", "providers", "put_map", "route_map"}
            => NoHandler(job.plugin)
       /\ job.at \in {"providers", "put_map", "route_map"} => ~Filtering(job.plugin)
       /\ job.at \in {"put_map", "route_map"} => NoProvider(job.plugin)
       /\ job.at = "route_map" => NoPutMap(job.plugin)
  /\ StoppedLeavesNothing

(* The calls that are still to be made: the filter once and only if it is  *)
(* not in the chain; the second half of a call right after the first.      *)
OnlyOnce(calls) ==
  \A i, j \in 1..Len(calls) : calls[i] = "filter" /\ calls[j] = "filter" => i = j
Makes(c, calls) == \E i \in 1..Len(calls) : calls[i] = c
PutDone(p)   == handlers[PutPath[p]] = p /\ HandlesPut(p, PutPath[p])

CallsInv ==
  job # Nobody /\ job.at = "calls" =>
    /\ OnlyOnce(job.calls)
    /\ Makes("filter", job.calls) => ~Filtering(job.plugin)
    /\ Makes("put", job.calls) => HandlesPut(job.plugin, PutPath[job.plugin])
    /\ \A i \in 1..Len(job.calls) :
         /\ job.calls[i] = "put_map" => i = 1 /\ PutDone(job.plugin)
         /\ job.calls[i] = "route_map" => i = 1 /\ job.plugin \in route_table

(* Subscription tasks of a plugin that can be started again belong to its  *)
(* context, and are gone when it has none.                                 *)
NoSubs(p) == \A t \in subs : t[1] # p

GenInv ==
  /\ OneGeneration
  /\ \A p \in Plugins : loaded[p] /\ status[p] = "stopped" => NoSubs(p)
  /\ job # Nobody =>
       /\ job.at \in Cleaning \ {"cleanup"} /\ loaded[job.plugin] => NoSubs(job.plugin)
       /\ job.at = "calls" /\ job.real =>
            \A t \in subs : t[1] = job.plugin => t[2] = context[job.plugin]

(* The shared maps may name a plugin its own table has dropped while it is *)
(* being stopped, between the two.                                         *)
Dropping(p, steps) == job # Nobody /\ job.plugin = p /\ job.at \in steps

SharedInv ==
  /\ \A x \in HandledPaths :
       (\A p, q \in Plugins : HandlesPut(p, x) /\ HandlesPut(q, x) => p = q)
       /\ put_handlers[x] \in Plugins =>
            /\ HandlesPut(put_handlers[x], x)
            /\ handlers[x] = put_handlers[x]
               \/ Dropping(put_handlers[x], {"filters", "providers", "put_map"})
  /\ \A x \in HandledPaths : handlers[x] \in Plugins => HandlesPut(handlers[x], x)
  /\ \A p \in plugin_routes \cap Plugins :
       p \in route_table
         \/ Dropping(p, {"handlers", "filters", "providers", "put_map", "route_map"})

(* What the admin sees is behind only until the request is through.        *)
ShownInv ==
  /\ up => booting = {}
  /\ job # Nobody /\ job.kind = "boot" => ~up
  /\ up => \A p \in Plugins :
       status[p] = "running" => registry[p] = "running" \/ Dropping(p, {"sync"})

HostInv ==
  TypeOK /\ PhaseInv /\ CleanInv /\ CallsInv /\ GenInv /\ SharedInv /\ ShownInv

-----------------------------------------------------------------------------
(* What becomes of the request under way when it moves on to another step. *)
LEMMA GotoJob ==
  ASSUME TypeOK, job # Nobody, NEW step \in Steps, Goto(step)
  PROVE  /\ job' \in Job /\ job' # Nobody /\ job'.at = step
         /\ job'.plugin = job.plugin /\ job'.kind = job.kind
         /\ job'.real = job.real /\ job'.calls = job.calls
BY PluginsAssumption DEF TypeOK, Goto, Job

(* A request that has stopped or started its plugin, or could not start it.*)
LEMMA AfterJob ==
  ASSUME TypeOK, job # Nobody, AfterStop \/ AfterStart \/ AfterFailure
  PROVE  \/ job' = Nobody
         \/ /\ job' \in Job /\ job' # Nobody /\ job'.at \in {"start", "sync"}
            /\ job'.plugin = job.plugin /\ job'.kind = job.kind
            /\ job'.real = job.real /\ job'.calls = job.calls
<1>1. job' = Nobody \/ Goto("start") \/ Goto("sync")
  BY DEF AfterStop, AfterStart, AfterFailure
<1>2. {"start", "sync"} \subseteq Steps
  BY DEF Steps
<1> QED
  BY <1>1, <1>2, GotoJob

(* The next call: what is left of the list.                                *)
LEMMA CallsLeft ==
  ASSUME TypeOK, NEW call, NextCall(call)
  PROVE  /\ job \in Job /\ job.at = "calls" /\ job.calls # <<>>
         /\ Head(job.calls) = call /\ call \in Calls
         /\ job' \in Job /\ job'.at = "calls" /\ job'.plugin = job.plugin
         /\ job'.kind = job.kind /\ job'.real = job.real
         /\ job'.calls = SecondHalf(call) \o Tail(job.calls)
         /\ SecondHalf(call) \in Seq(Calls) /\ Tail(job.calls) \in Seq(Calls)
<1> DEFINE rest == SecondHalf(call) \o Tail(job.calls)
<1>1. job \in Job /\ job.at = "calls" /\ job.calls # <<>> /\ Head(job.calls) = call
  BY DEF NextCall, At, TypeOK
<1>2. job.calls \in Seq(Calls)
  BY <1>1 DEF Job
<1>3. Tail(job.calls) \in Seq(Calls) /\ call \in Calls
  BY <1>1, <1>2, HeadTailProperties
<1>4. SecondHalf(call) \in Seq(Calls)
  <2>1. \A c \in Calls : <<c>> \in Seq(Calls)
    OBVIOUS
  <2>3. "put_map" \in Calls /\ "route_map" \in Calls
    BY DEF Calls
  <2>2. <<>> \in Seq(Calls)
    BY EmptySeq
  <2> QED
    BY <2>1, <2>2, <2>3 DEF SecondHalf
<1>5. rest \in Seq(Calls)
  BY <1>3, <1>4, ConcatProperties
<1>6. job' = [job EXCEPT !.calls = rest]
  BY DEF NextCall
<1> HIDE DEF rest
<1>7. /\ job' \in Job /\ job'.at = "calls" /\ job'.plugin = job.plugin
      /\ job'.kind = job.kind /\ job'.real = job.real /\ job'.calls = rest
  BY <1>1, <1>5, <1>6 DEF Job
<1> QED
  BY <1>1, <1>3, <1>4, <1>7 DEF rest

(* A request that has just got the manager.                                *)
Fresh(j) ==
  /\ j \in Job /\ j # Nobody /\ j.at \in {"start", "stop", "sync"}
  /\ j.calls = <<>> /\ j.real = FALSE

LEMMA StartNextJob ==
  ASSUME TypeOK, NEW p \in Plugins, StartNext(p)
  PROVE  Fresh(job') /\ job'.plugin = p /\ job'.kind = "boot" /\ job'.at = "start"
<1>1. <<>> \in Seq(Calls)
  BY EmptySeq
<1>2. /\ job' \in Job /\ job'.at = "start" /\ job'.calls = <<>> /\ job'.real = FALSE
      /\ job'.plugin = p /\ job'.kind = "boot"
  BY <1>1 DEF StartNext, Job, Steps
<1> QED
  BY <1>2, PluginsAssumption DEF Fresh

LEMMA LockJob ==
  ASSUME TypeOK, NEW c \in Clients, Lock(c)
  PROVE  Fresh(job') /\ job'.plugin = waiting[c].plugin /\ job'.kind \in Kinds
<1>1. <<>> \in Seq(Calls)
  BY EmptySeq
<1>2. waiting[c] \in [kind : Kinds, plugin : Plugins]
  BY DEF TypeOK, Lock
<1>3. FirstStep(waiting[c]) \in {"start", "stop", "sync"}
  BY DEF FirstStep
<1> DEFINE j == [kind |-> waiting[c].kind, plugin |-> waiting[c].plugin,
                 at |-> FirstStep(waiting[c]), real |-> FALSE, calls |-> <<>>]
<1>4. Fresh(j) /\ j.plugin = waiting[c].plugin /\ j.kind \in Kinds
  <2>1. /\ j \in Job /\ j.at \in {"start", "stop", "sync"} /\ j.calls = <<>>
        /\ j.real = FALSE /\ j.plugin = waiting[c].plugin /\ j.kind \in Kinds
    BY <1>1, <1>2, <1>3 DEF Job, Steps, StopSteps
  <2> QED
    BY <2>1, PluginsAssumption DEF Fresh
<1> QED
  BY <1>4 DEF Lock

(* The job while the plugin starts.                                        *)
LEMMA StartBeginJob ==
  ASSUME TypeOK, At("start"), status[job.plugin] # "running", StartBegin
  PROVE  /\ job' \in Job /\ job' # Nobody /\ job'.at = "calls"
         /\ job'.plugin = job.plugin /\ job'.kind = job.kind
         /\ job'.real = loaded[job.plugin]
         /\ job'.calls = IF loaded[job.plugin] THEN Wants[job.plugin] ELSE <<>>
<1>1. job \in Job /\ job.plugin \in Plugins
  BY DEF TypeOK, At, Job
<1>2. loaded[job.plugin] \in BOOLEAN
  BY <1>1 DEF TypeOK
<1> DEFINE S == Calls \ {"put_map", "route_map"}
           calls == IF loaded[job.plugin] THEN Wants[job.plugin] ELSE <<>>
<1>3. Wants[job.plugin] \in Seq(S)
  BY <1>1, PluginsAssumption
<1>4. Seq(S) \subseteq Seq(Calls)
  BY SeqMonotonic
<1>5. calls \in Seq(Calls)
  BY <1>3, <1>4, EmptySeq
<1>6. job' = [job EXCEPT !.at = "calls", !.real = loaded[job.plugin], !.calls = calls]
  BY DEF StartBegin
<1> HIDE DEF calls
<1>7. /\ job' \in Job /\ job'.at = "calls" /\ job'.plugin = job.plugin
      /\ job'.kind = job.kind /\ job'.real = loaded[job.plugin] /\ job'.calls = calls
  BY <1>1, <1>2, <1>5, <1>6 DEF Job, Steps
<1> QED
  BY <1>7, PluginsAssumption DEF calls

-----------------------------------------------------------------------------
(* Every step keeps the shapes.                                            *)
LEMMA TypeStep ==
  ASSUME TypeOK, PhaseInv, Next
  PROVE  TypeOK'
<1>0. /\ job \in Job => job # Nobody /\ job.plugin \in Plugins
      /\ job # Nobody => job \in Job
  BY PluginsAssumption DEF TypeOK, Job
<1> DEFINE JobOK == job' \in Job \cup {Nobody}
<1>1. CASE \E p \in Plugins : StartNext(p)
  BY <1>1, StartNextJob DEF StartNext, Fresh, TypeOK, entries, tables, admin, Statuses
<1>2. CASE Populate
  BY <1>2 DEF Populate, Synced, TypeOK, entries, tables, admin, Statuses
<1>3. CASE \E c \in Clients, kind \in Kinds, p \in Plugins : Request(c, kind, p)
  <2> PICK c \in Clients, kind \in Kinds, p \in Plugins : Request(c, kind, p)
    BY <1>3
  <2>1. waiting' \in [Clients -> [kind : Kinds, plugin : Plugins] \cup {Nobody}]
    BY DEF Request, TypeOK
  <2>2. enabled' \in [Plugins -> {TRUE, FALSE, Nobody}]
    <3>1. CASE kind = "enable"
      BY <3>1 DEF Request, TypeOK
    <3>2. CASE kind = "disable"
      BY <3>2 DEF Request, TypeOK
    <3>3. CASE kind \notin {"enable", "disable"}
      BY <3>3 DEF Request, TypeOK
    <3> QED
      BY <3>1, <3>2, <3>3
  <2>3. requests' \in 0..MaxRequests
    <3>1. MaxRequests \in Nat
      BY PluginsAssumption
    <3>2. requests \in 0..MaxRequests /\ requests < MaxRequests /\ requests' = requests + 1
      BY DEF Request, TypeOK
    <3> QED
      BY <3>1, <3>2
  <2> QED
    BY <2>1, <2>2, <2>3 DEF Request, TypeOK, entries, tables
<1>4. CASE \E c \in Clients : Lock(c)
  <2> PICK c \in Clients : Lock(c)
    BY <1>4
  <2>1. waiting[c] \in [kind : Kinds, plugin : Plugins]
    BY DEF Lock, TypeOK
  <2>2. waiting' \in [Clients -> [kind : Kinds, plugin : Plugins] \cup {Nobody}]
    BY DEF Lock, TypeOK
  <2>3. enabled' \in [Plugins -> {TRUE, FALSE, Nobody}]
    <3>1. waiting[c].plugin \in Plugins
      BY <2>1
    <3>2. CASE waiting[c].kind = "config" /\ enabled[waiting[c].plugin] = Nobody
      BY <3>1, <3>2 DEF Lock, TypeOK
    <3>3. CASE ~(waiting[c].kind = "config" /\ enabled[waiting[c].plugin] = Nobody)
      BY <3>3 DEF Lock, TypeOK
    <3> QED
      BY <3>2, <3>3
  <2>4. job' \in Job
    BY LockJob DEF Fresh
  <2> QED
    BY <2>2, <2>3, <2>4 DEF Lock, TypeOK, entries, tables
<1>5. CASE StopBegin
  <2>1. JobOK
    BY <1>5, GotoJob, AfterJob DEF Steps, StopSteps, At, StopBegin
  <2> QED
    BY <1>5, <2>1, <1>0, PluginsAssumption
       DEF StopBegin, At, PhaseInv, Without, TypeOK, entries, tables, admin, Statuses
<1>6. CASE Cleanup
  <2>1. JobOK
    BY <1>6, GotoJob DEF Steps, StopSteps, At, Cleanup
  <2> QED
    BY <1>6, <2>1, <1>0, PluginsAssumption
       DEF Cleanup, At, PhaseInv, Without, TypeOK, entries, tables, admin, Statuses
<1>7. CASE RemoveRoutes
  <2>1. JobOK
    BY <1>7, GotoJob DEF Steps, StopSteps, At, RemoveRoutes
  <2> QED
    BY <1>7, <2>1, <1>0, PluginsAssumption
       DEF RemoveRoutes, At, PhaseInv, Without, TypeOK, entries, tables, admin, Statuses
<1>8. CASE RemoveHandlers
  <2>1. JobOK
    BY <1>8, GotoJob DEF Steps, StopSteps, At, RemoveHandlers
  <2> QED
    BY <1>8, <2>1, <1>0, PluginsAssumption
       DEF RemoveHandlers, At, PhaseInv, Without, TypeOK, entries, tables, admin, Statuses
<1>9. CASE RemoveFilters
  <2>1. JobOK
    BY <1>9, GotoJob DEF Steps, StopSteps, At, RemoveFilters
  <2> QED
    BY <1>9, <2>1, <1>0, PluginsAssumption
       DEF RemoveFilters, At, PhaseInv, Without, TypeOK, entries, tables, admin, Statuses
<1>10. CASE RemoveProviders
  <2>1. JobOK
    BY <1>10, GotoJob DEF Steps, StopSteps, At, RemoveProviders
  <2> QED
    BY <1>10, <2>1, <1>0, PluginsAssumption
       DEF RemoveProviders, At, PhaseInv, Without, TypeOK, entries, tables, admin,
           Statuses
<1>11. CASE RemoveFromPutMap
  <2>1. JobOK
    BY <1>11, GotoJob DEF Steps, StopSteps, At, RemoveFromPutMap
  <2> QED
    BY <1>11, <2>1, <1>0, PluginsAssumption
       DEF RemoveFromPutMap, At, PhaseInv, Without, TypeOK, entries, tables, admin,
           Statuses
<1>12. CASE StopEnd
  <2>1. JobOK
    BY <1>12, AfterJob DEF At, StopEnd
  <2> QED
    BY <1>12, <2>1, <1>0, PluginsAssumption
       DEF StopEnd, At, PhaseInv, Without, TypeOK, entries, tables, admin, Statuses
<1>13. CASE StartBegin
  <2>1. JobOK
    BY <1>13, StartBeginJob, AfterJob DEF At, StartBegin
  <2>2. job.plugin \in Plugins
    BY <1>0, <1>13 DEF StartBegin, At
  <2>3. CASE UNCHANGED entries
    BY <1>13, <2>1, <2>3 DEF StartBegin, TypeOK, entries, tables, admin
  <2>4. CASE ~UNCHANGED entries
    <3>1. /\ status' = [status EXCEPT ![job.plugin] = "starting"]
          /\ contexts' = contexts + 1
          /\ context' = [context EXCEPT ![job.plugin] = contexts + 1]
          /\ loaded' = [loaded EXCEPT ![job.plugin] = FALSE]
      BY <1>13, <2>4 DEF StartBegin
    <3>2. /\ status' \in [Plugins -> Statuses]
          /\ loaded' \in [Plugins -> BOOLEAN]
          /\ contexts' \in Nat
          /\ context' \in [Plugins -> Nat \cup {Nobody}]
      BY <2>2, <3>1 DEF TypeOK, Statuses
    <3>3. UNCHANGED <<tables, admin>>
      BY <1>13 DEF StartBegin
    <3> QED
      BY <2>1, <3>2, <3>3 DEF TypeOK, tables, admin
  <2> QED
    BY <2>3, <2>4
<1>14. CASE Subscribe
  <2>1. JobOK
    BY <1>14, CallsLeft DEF Subscribe
  <2>2. At("calls") /\ UNCHANGED <<entries, admin>>
    BY <1>14 DEF NextCall, Subscribe
  <2>3. job.plugin \in Plugins /\ context[job.plugin] \in Nat
    BY <1>0, <2>2 DEF At, PhaseInv
  <2>4. subs' \in SUBSET (Plugins \X Nat)
    BY <1>14, <2>3 DEF Subscribe, TypeOK
  <2> QED
    BY <1>14, <2>1, <2>2, <2>4 DEF Subscribe, TypeOK, entries, admin
<1>15. CASE RegisterPutHandler
  <2>1. JobOK
    BY <1>15, CallsLeft DEF RegisterPutHandler
  <2>2. At("calls") /\ UNCHANGED <<entries, admin>>
    BY <1>15 DEF NextCall, RegisterPutHandler
  <2> QED
    BY <1>15, <2>1, <2>2, <1>0, PluginsAssumption
       DEF RegisterPutHandler, At, PhaseInv, Without, TypeOK, entries, tables, admin,
           Statuses
<1>16. CASE RegisterRoutes
  <2>1. JobOK
    BY <1>16, CallsLeft DEF RegisterRoutes
  <2>2. At("calls") /\ UNCHANGED <<entries, admin>>
    BY <1>16 DEF NextCall, RegisterRoutes
  <2> QED
    BY <1>16, <2>1, <2>2, <1>0, PluginsAssumption
       DEF RegisterRoutes, At, PhaseInv, Without, TypeOK, entries, tables, admin, Statuses
<1>17. CASE RegisterDeltaInputHandler
  <2>1. JobOK
    BY <1>17, CallsLeft DEF RegisterDeltaInputHandler
  <2>2. At("calls") /\ UNCHANGED <<entries, admin>>
    BY <1>17 DEF NextCall, RegisterDeltaInputHandler
  <2>3. filters' \in [Plugins -> Nat]
    BY <1>0, <1>17, <2>2 DEF RegisterDeltaInputHandler, At, TypeOK
  <2> QED
    BY <1>17, <2>1, <2>2, <2>3 DEF RegisterDeltaInputHandler, TypeOK, entries, admin
<1>18. CASE RegisterResourceProvider
  <2>1. JobOK
    BY <1>18, CallsLeft DEF RegisterResourceProvider
  <2>2. At("calls") /\ UNCHANGED <<entries, admin>>
    BY <1>18 DEF NextCall, RegisterResourceProvider
  <2> QED
    BY <1>18, <2>1, <2>2, <1>0, PluginsAssumption
       DEF RegisterResourceProvider, At, PhaseInv, Without, TypeOK, entries, tables,
           admin, Statuses
<1>19. CASE RegisterAutopilotProvider
  <2>1. JobOK
    BY <1>19, CallsLeft DEF RegisterAutopilotProvider
  <2>2. At("calls") /\ UNCHANGED <<entries, admin>>
    BY <1>19 DEF NextCall, RegisterAutopilotProvider
  <2> QED
    BY <1>19, <2>1, <2>2, <1>0, PluginsAssumption
       DEF RegisterAutopilotProvider, At, PhaseInv, Without, TypeOK, entries, tables,
           admin, Statuses
<1>20. CASE StartSucceeds
  <2>1. JobOK
    BY <1>20, AfterJob DEF At, StartSucceeds
  <2> QED
    BY <1>20, <2>1, <1>0, PluginsAssumption
       DEF StartSucceeds, At, PhaseInv, Without, TypeOK, entries, tables, admin, Statuses
<1>21. CASE StartFails
  <2>1. JobOK
    BY <1>21, AfterJob DEF At, StartFails
  <2> QED
    BY <1>21, <2>1, <1>0, PluginsAssumption
       DEF StartFails, At, PhaseInv, Without, TypeOK, entries, tables, admin, Statuses
<1>22. CASE Sync
  BY <1>22 DEF Sync, Synced, TypeOK, entries, tables, admin, Statuses
<1>23. CASE \E x \in HandledPaths, b \in BridgePlugins : BridgeHandler(x, b)
  BY <1>23 DEF BridgeHandler, TypeOK, entries, tables, admin, Statuses
<1>24. CASE \E b \in BridgePlugins : BridgeRoutes(b)
  BY <1>24 DEF BridgeRoutes, TypeOK, entries, tables, admin, Statuses
<1>25. CASE \E b \in BridgePlugins : BridgeReport(b)
  BY <1>25 DEF BridgeReport, TypeOK, entries, tables, admin, Statuses
<1>26. CASE \E b \in BridgePlugins, s \in {"running", "stopped"} : BridgeLifecycle(b, s)
  <2> PICK b \in BridgePlugins, s \in {"running", "stopped"} : BridgeLifecycle(b, s)
    BY <1>26
  <2>1. registry' \in [Plugins \cup BridgePlugins -> Statuses \cup {Nobody}]
    BY DEF BridgeLifecycle, TypeOK, Statuses
  <2> QED
    BY <2>1 DEF BridgeLifecycle, TypeOK, entries, tables
<1>27. CASE \E p \in Plugins \cup {Nobody} : SetDefaultProvider(p)
  BY <1>27 DEF SetDefaultProvider, TypeOK, entries, tables, admin, Statuses
<1> QED
  BY <1>1, <1>2, <1>3, <1>4, <1>5, <1>6, <1>7, <1>8, <1>9, <1>10, <1>11, <1>12, <1>13,
     <1>14, <1>15, <1>16, <1>17, <1>18, <1>19, <1>20, <1>21, <1>22, <1>23, <1>24, <1>25,
     <1>26, <1>27 DEF Next

(* Starting and stopping go with the request.                              *)
LEMMA PhaseStep ==
  ASSUME TypeOK, PhaseInv, Next
  PROVE  PhaseInv'
<1>0. /\ job \in Job => job # Nobody /\ job.plugin \in Plugins
      /\ job # Nobody => job \in Job
      /\ Nobody \notin Plugins \cup BridgePlugins \cup Nat
      /\ Plugins \cap BridgePlugins = {}
  BY PluginsAssumption DEF TypeOK, Job
<1>t. /\ status \in [Plugins -> Statuses]
      /\ loaded \in [Plugins -> BOOLEAN]
      /\ context \in [Plugins -> Nat \cup {Nobody}]
      /\ contexts \in Nat
  BY DEF TypeOK
<1>1. CASE \E p \in Plugins : StartNext(p)
  <2>1. job = Nobody /\ Fresh(job') /\ UNCHANGED <<status, loaded, context>>
    BY <1>1, StartNextJob DEF StartNext, entries, tables, admin
  <2> QED
    BY <1>0, <2>1 DEF Fresh, PhaseInv, Cleaning
<1>2. CASE Populate
  <2>1. UNCHANGED <<job, status, loaded, context>>
    BY <1>2 DEF Populate, entries, tables, admin
  <2> QED
    BY <2>1 DEF PhaseInv, Cleaning
<1>3. CASE \E c \in Clients, kind \in Kinds, p \in Plugins : Request(c, kind, p)
  <2>1. UNCHANGED <<job, status, loaded, context>>
    BY <1>3 DEF Request, entries, tables, admin
  <2> QED
    BY <2>1 DEF PhaseInv, Cleaning
<1>4. CASE \E c \in Clients : Lock(c)
  <2>1. job = Nobody /\ Fresh(job') /\ UNCHANGED <<status, loaded, context>>
    BY <1>4, LockJob DEF Lock, entries, tables, admin
  <2> QED
    BY <1>0, <2>1 DEF Fresh, PhaseInv, Cleaning
<1>5. CASE StopBegin
  <2>1. At("stop") /\ job \in Job /\ job.plugin \in Plugins
    BY <1>5, <1>0 DEF StopBegin, At
  <2>2. CASE status[job.plugin] = "stopped"
    <3>1. \/ job' = Nobody
          \/ /\ job' \in Job /\ job' # Nobody /\ job'.at \in {"start", "sync"}
             /\ job'.plugin = job.plugin /\ job'.kind = job.kind
             /\ job'.real = job.real /\ job'.calls = job.calls
      BY <1>5, <2>1, <2>2, AfterJob DEF StopBegin, At
    <3> QED
      BY <1>5, <1>0, <2>1, <2>2, <3>1, <1>t
         DEF StopBegin, At, entries, tables, admin, PhaseInv, Cleaning
  <2>3. CASE status[job.plugin] # "stopped"
    <3>1. /\ job' \in Job /\ job' # Nobody /\ job'.at = "cleanup"
          /\ job'.plugin = job.plugin /\ job'.kind = job.kind
          /\ job'.real = job.real /\ job'.calls = job.calls
      BY <1>5, <2>1, <2>3, GotoJob DEF StopBegin, At, Steps, StopSteps
    <3> QED
      BY <1>5, <1>0, <2>1, <2>3, <3>1, <1>t
         DEF StopBegin, At, entries, tables, admin, PhaseInv, Cleaning
  <2> QED
    BY <2>2, <2>3
<1>6. CASE Cleanup
  <2>1. At("cleanup") /\ Goto("routes") /\ job \in Job
    BY <1>6, <1>0 DEF Cleanup, At
  <2>2. /\ job' \in Job /\ job' # Nobody /\ job'.at = "routes"
        /\ job'.plugin = job.plugin /\ job'.kind = job.kind
        /\ job'.real = job.real /\ job'.calls = job.calls
    BY <2>1, GotoJob DEF At, Steps, StopSteps
  <2> QED
    BY <1>6, <1>0, <2>1, <2>2, <1>t
       DEF Cleanup, At, entries, tables, admin, PhaseInv, Cleaning
<1>7. CASE RemoveRoutes
  <2>1. At("routes") /\ Goto("handlers") /\ job \in Job
    BY <1>7, <1>0 DEF RemoveRoutes, At
  <2>2. /\ job' \in Job /\ job' # Nobody /\ job'.at = "handlers"
        /\ job'.plugin = job.plugin /\ job'.kind = job.kind
        /\ job'.real = job.real /\ job'.calls = job.calls
    BY <2>1, GotoJob DEF At, Steps, StopSteps
  <2> QED
    BY <1>7, <1>0, <2>1, <2>2
       DEF RemoveRoutes, At, entries, tables, admin, PhaseInv, Cleaning
<1>8. CASE RemoveHandlers
  <2>1. At("handlers") /\ Goto("filters") /\ job \in Job
    BY <1>8, <1>0 DEF RemoveHandlers, At
  <2>2. /\ job' \in Job /\ job' # Nobody /\ job'.at = "filters"
        /\ job'.plugin = job.plugin /\ job'.kind = job.kind
        /\ job'.real = job.real /\ job'.calls = job.calls
    BY <2>1, GotoJob DEF At, Steps, StopSteps
  <2> QED
    BY <1>8, <1>0, <2>1, <2>2
       DEF RemoveHandlers, At, entries, tables, admin, PhaseInv, Cleaning
<1>9. CASE RemoveFilters
  <2>1. At("filters") /\ Goto("providers") /\ job \in Job
    BY <1>9, <1>0 DEF RemoveFilters, At
  <2>2. /\ job' \in Job /\ job' # Nobody /\ job'.at = "providers"
        /\ job'.plugin = job.plugin /\ job'.kind = job.kind
        /\ job'.real = job.real /\ job'.calls = job.calls
    BY <2>1, GotoJob DEF At, Steps, StopSteps
  <2> QED
    BY <1>9, <1>0, <2>1, <2>2
       DEF RemoveFilters, At, entries, tables, admin, PhaseInv, Cleaning
<1>10. CASE RemoveProviders
  <2>1. At("providers") /\ Goto("put_map") /\ job \in Job
    BY <1>10, <1>0 DEF RemoveProviders, At
  <2>2. /\ job' \in Job /\ job' # Nobody /\ job'.at = "put_map"
        /\ job'.plugin = job.plugin /\ job'.kind = job.kind
        /\ job'.real = job.real /\ job'.calls = job.calls
    BY <2>1, GotoJob DEF At, Steps, StopSteps
  <2> QED
    BY <1>10, <1>0, <2>1, <2>2
       DEF RemoveProviders, At, entries, tables, admin, PhaseInv, Cleaning
<1>11. CASE RemoveFromPutMap
  <2>1. At("put_map") /\ Goto("route_map") /\ job \in Job
    BY <1>11, <1>0 DEF RemoveFromPutMap, At
  <2>2. /\ job' \in Job /\ job' # Nobody /\ job'.at = "route_map"
        /\ job'.plugin = job.plugin /\ job'.kind = job.kind
        /\ job'.real = job.real /\ job'.calls = job.calls
    BY <2>1, GotoJob DEF At, Steps, StopSteps
  <2> QED
    BY <1>11, <1>0, <2>1, <2>2
       DEF RemoveFromPutMap, At, entries, tables, admin, PhaseInv, Cleaning
<1>12. CASE StopEnd
  <2>1. /\ job \in Job /\ job # Nobody
        /\ \/ job' = Nobody
           \/ /\ job' \in Job /\ job' # Nobody /\ job'.at \in {"start", "sync"}
              /\ job'.plugin = job.plugin /\ job'.kind = job.kind
              /\ job'.real = job.real /\ job'.calls = job.calls
    BY <1>12, <1>0, AfterJob DEF StopEnd, At
  <2> QED
    BY <1>12, <1>0, <2>1, <1>t DEF StopEnd, At, entries, tables, admin, PhaseInv, Cleaning
<1>13. CASE StartBegin
  <2>1. At("start") /\ job \in Job /\ job.plugin \in Plugins
    BY <1>13, <1>0 DEF StartBegin, At
  <2>2. CASE status[job.plugin] = "running"
    <3>1. \/ job' = Nobody
          \/ /\ job' \in Job /\ job' # Nobody /\ job'.at \in {"start", "sync"}
             /\ job'.plugin = job.plugin /\ job'.kind = job.kind
             /\ job'.real = job.real /\ job'.calls = job.calls
      BY <1>13, <2>1, <2>2, AfterJob DEF StartBegin, At
    <3> QED
      BY <1>13, <1>0, <2>1, <2>2, <3>1, <1>t
         DEF StartBegin, At, entries, tables, admin, PhaseInv, Cleaning
  <2>3. CASE status[job.plugin] # "running"
    <3>1. /\ job' \in Job /\ job' # Nobody /\ job'.at = "calls"
          /\ job'.plugin = job.plugin /\ job'.kind = job.kind
          /\ job'.real = loaded[job.plugin]
          /\ job'.calls = IF loaded[job.plugin] THEN Wants[job.plugin] ELSE <<>>
      BY <1>13, <2>1, <2>3, StartBeginJob
    <3>2. /\ status' = [status EXCEPT ![job.plugin] = "starting"]
          /\ contexts' = contexts + 1
          /\ context' = [context EXCEPT ![job.plugin] = contexts + 1]
          /\ loaded' = [loaded EXCEPT ![job.plugin] = FALSE]
          /\ UNCHANGED <<tables, admin>>
      BY <1>13, <2>3 DEF StartBegin
    <3> QED
      BY <1>0, <2>1, <2>3, <3>1, <3>2, <1>t
         DEF At, entries, tables, admin, PhaseInv, Cleaning
  <2> QED
    BY <2>2, <2>3
<1>14. CASE Subscribe
  <2>1. /\ job \in Job /\ job.at = "calls" /\ job.calls # <<>> /\ UNCHANGED <<entries, admin>>
        /\ job' \in Job /\ job'.at = "calls" /\ job'.plugin = job.plugin
        /\ job'.kind = job.kind /\ job'.real = job.real
    BY <1>14, CallsLeft DEF Subscribe, NextCall
  <2>2. job # Nobody /\ job' # Nobody
    BY <2>1, PluginsAssumption
  <2> QED
    BY <1>14, <1>0, <2>1, <2>2 DEF Subscribe, entries, tables, admin, PhaseInv, Cleaning
<1>15. CASE RegisterPutHandler
  <2>1. /\ job \in Job /\ job.at = "calls" /\ job.calls # <<>> /\ UNCHANGED <<entries, admin>>
        /\ job' \in Job /\ job'.at = "calls" /\ job'.plugin = job.plugin
        /\ job'.kind = job.kind /\ job'.real = job.real
    BY <1>15, CallsLeft DEF RegisterPutHandler, NextCall
  <2>2. job # Nobody /\ job' # Nobody
    BY <2>1, PluginsAssumption
  <2> QED
    BY <1>15, <1>0, <2>1, <2>2
       DEF RegisterPutHandler, entries, tables, admin, PhaseInv, Cleaning
<1>16. CASE RegisterRoutes
  <2>1. /\ job \in Job /\ job.at = "calls" /\ job.calls # <<>> /\ UNCHANGED <<entries, admin>>
        /\ job' \in Job /\ job'.at = "calls" /\ job'.plugin = job.plugin
        /\ job'.kind = job.kind /\ job'.real = job.real
    BY <1>16, CallsLeft DEF RegisterRoutes, NextCall
  <2>2. job # Nobody /\ job' # Nobody
    BY <2>1, PluginsAssumption
  <2> QED
    BY <1>16, <1>0, <2>1, <2>2
       DEF RegisterRoutes, entries, tables, admin, PhaseInv, Cleaning
<1>17. CASE RegisterDeltaInputHandler
  <2>1. /\ job \in Job /\ job.at = "calls" /\ job.calls # <<>> /\ UNCHANGED <<entries, admin>>
        /\ job' \in Job /\ job'.at = "calls" /\ job'.plugin = job.plugin
        /\ job'.kind = job.kind /\ job'.real = job.real
    BY <1>17, CallsLeft DEF RegisterDeltaInputHandler, NextCall
  <2>2. job # Nobody /\ job' # Nobody
    BY <2>1, PluginsAssumption
  <2> QED
    BY <1>17, <1>0, <2>1, <2>2
       DEF RegisterDeltaInputHandler, entries, tables, admin, PhaseInv, Cleaning
<1>18. CASE RegisterResourceProvider
  <2>1. /\ job \in Job /\ job.at = "calls" /\ job.calls # <<>> /\ UNCHANGED <<entries, admin>>
        /\ job' \in Job /\ job'.at = "calls" /\ job'.plugin = job.plugin
        /\ job'.kind = job.kind /\ job'.real = job.real
    BY <1>18, CallsLeft DEF RegisterResourceProvider, NextCall
  <2>2. job # Nobody /\ job' # Nobody
    BY <2>1, PluginsAssumption
  <2> QED
    BY <1>18, <1>0, <2>1, <2>2
       DEF RegisterResourceProvider, entries, tables, admin, PhaseInv, Cleaning
<1>19. CASE RegisterAutopilotProvider
  <2>1. /\ job \in Job /\ job.at = "calls" /\ job.calls # <<>> /\ UNCHANGED <<entries, admin>>
        /\ job' \in Job /\ job'.at = "calls" /\ job'.plugin = job.plugin
        /\ job'.kind = job.kind /\ job'.real = job.real
    BY <1>19, CallsLeft DEF RegisterAutopilotProvider, NextCall
  <2>2. job # Nobody /\ job' # Nobody
    BY <2>1, PluginsAssumption
  <2> QED
    BY <1>19, <1>0, <2>1, <2>2
       DEF RegisterAutopilotProvider, entries, tables, admin, PhaseInv, Cleaning
<1>20. CASE StartSucceeds
  <2>1. /\ job \in Job /\ job # Nobody
        /\ \/ job' = Nobody
           \/ /\ job' \in Job /\ job' # Nobody /\ job'.at \in {"start", "sync"}
              /\ job'.plugin = job.plugin /\ job'.kind = job.kind
              /\ job'.real = job.real /\ job'.calls = job.calls
    BY <1>20, <1>0, AfterJob DEF StartSucceeds, At
  <2> QED
    BY <1>20, <1>0, <2>1, <1>t
       DEF StartSucceeds, At, entries, tables, admin, PhaseInv, Cleaning
<1>21. CASE StartFails
  <2>1. /\ job \in Job /\ job # Nobody
        /\ \/ job' = Nobody
           \/ /\ job' \in Job /\ job' # Nobody /\ job'.at \in {"start", "sync"}
              /\ job'.plugin = job.plugin /\ job'.kind = job.kind
              /\ job'.real = job.real /\ job'.calls = job.calls
    BY <1>21, <1>0, AfterJob DEF StartFails, At
  <2> QED
    BY <1>21, <1>0, <2>1, <1>t
       DEF StartFails, At, entries, tables, admin, PhaseInv, Cleaning
<1>22. CASE Sync
  BY <1>22, <1>0 DEF Sync, At, entries, tables, admin, PhaseInv, Cleaning
<1>23. CASE \E x \in HandledPaths, b \in BridgePlugins : BridgeHandler(x, b)
  <2>1. UNCHANGED <<job, status, loaded, context>>
    BY <1>23 DEF BridgeHandler, entries, tables, admin
  <2> QED
    BY <2>1 DEF PhaseInv, Cleaning
<1>24. CASE \E b \in BridgePlugins : BridgeRoutes(b)
  <2>1. UNCHANGED <<job, status, loaded, context>>
    BY <1>24 DEF BridgeRoutes, entries, tables, admin
  <2> QED
    BY <2>1 DEF PhaseInv, Cleaning
<1>25. CASE \E b \in BridgePlugins : BridgeReport(b)
  <2>1. UNCHANGED <<job, status, loaded, context>>
    BY <1>25 DEF BridgeReport, entries, tables, admin
  <2> QED
    BY <2>1 DEF PhaseInv, Cleaning
<1>26. CASE \E b \in BridgePlugins, s \in {"running", "stopped"} : BridgeLifecycle(b, s)
  <2>1. UNCHANGED <<job, status, loaded, context>>
    BY <1>26 DEF BridgeLifecycle, entries, tables, admin
  <2> QED
    BY <2>1 DEF PhaseInv, Cleaning
<1>27. CASE \E p \in Plugins \cup {Nobody} : SetDefaultProvider(p)
  <2>1. UNCHANGED <<job, status, loaded, context>>
    BY <1>27 DEF SetDefaultProvider, entries, tables, admin
  <2> QED
    BY <2>1 DEF PhaseInv, Cleaning
<1> QED
  BY <1>1, <1>2, <1>3, <1>4, <1>5, <1>6, <1>7, <1>8, <1>9, <1>10, <1>11, <1>12, <1>13,
     <1>14, <1>15, <1>16, <1>17, <1>18, <1>19, <1>20, <1>21, <1>22, <1>23, <1>24, <1>25,
     <1>26, <1>27 DEF Next

(* A plugin that is stopped has been taken out of the tables one by one.   *)
LEMMA CleanStep ==
  ASSUME TypeOK, PhaseInv, CleanInv, Next
  PROVE  CleanInv'
<1>0. /\ job \in Job => job # Nobody /\ job.plugin \in Plugins
      /\ job # Nobody => job \in Job
      /\ Nobody \notin Plugins \cup BridgePlugins \cup Nat
      /\ Plugins \cap BridgePlugins = {}
  BY PluginsAssumption DEF TypeOK, Job
<1>t. /\ status \in [Plugins -> Statuses]
      /\ handlers \in [HandledPaths -> Plugins \cup {Nobody}]
      /\ put_handlers \in [HandledPaths -> Plugins \cup BridgePlugins \cup {Nobody}]
      /\ filters \in [Plugins -> Nat]
      /\ default_create \in Plugins \cup {Nobody}
  BY DEF TypeOK
<1>1. CASE \E p \in Plugins : StartNext(p)
  <2>1. /\ job = Nobody /\ Fresh(job')
        /\ UNCHANGED <<status, route_table, handlers, put_handlers, filters, providers,
                       default_create, plugin_routes>>
    BY <1>1, StartNextJob DEF StartNext, entries, tables, admin
  <2> QED
    BY <1>0, <2>1
       DEF Fresh, CleanInv, StoppedLeavesNothing, NoHandler, NoPutMap, NoProvider,
           Filtering
<1>2. CASE Populate
  <2>1. UNCHANGED <<job, status, route_table, handlers, put_handlers, filters, providers,
                    default_create, plugin_routes>>
    BY <1>2 DEF Populate, entries, tables, admin
  <2> QED
    BY <2>1 DEF CleanInv, StoppedLeavesNothing, NoHandler, NoPutMap, NoProvider, Filtering
<1>3. CASE \E c \in Clients, kind \in Kinds, p \in Plugins : Request(c, kind, p)
  <2>1. UNCHANGED <<job, status, route_table, handlers, put_handlers, filters, providers,
                    default_create, plugin_routes>>
    BY <1>3 DEF Request, entries, tables, admin
  <2> QED
    BY <2>1 DEF CleanInv, StoppedLeavesNothing, NoHandler, NoPutMap, NoProvider, Filtering
<1>4. CASE \E c \in Clients : Lock(c)
  <2>1. /\ job = Nobody /\ Fresh(job')
        /\ UNCHANGED <<status, route_table, handlers, put_handlers, filters, providers,
                       default_create, plugin_routes>>
    BY <1>4, LockJob DEF Lock, entries, tables, admin
  <2> QED
    BY <1>0, <2>1
       DEF Fresh, CleanInv, StoppedLeavesNothing, NoHandler, NoPutMap, NoProvider,
           Filtering
<1>5. CASE StopBegin
  <2>1. At("stop") /\ job \in Job /\ job.plugin \in Plugins
    BY <1>5, <1>0 DEF StopBegin, At
  <2>2. CASE status[job.plugin] = "stopped"
    <3>1. \/ job' = Nobody
          \/ /\ job' \in Job /\ job' # Nobody /\ job'.at \in {"start", "sync"}
             /\ job'.plugin = job.plugin /\ job'.kind = job.kind
             /\ job'.real = job.real /\ job'.calls = job.calls
      BY <1>5, <2>1, <2>2, AfterJob DEF StopBegin, At
    <3> QED
      BY <1>5, <1>0, <2>1, <2>2, <3>1, <1>t
         DEF StopBegin, At, entries, tables, admin, CleanInv, StoppedLeavesNothing,
             NoHandler, NoPutMap, NoProvider, Filtering
  <2>3. CASE status[job.plugin] # "stopped"
    <3>1. /\ job' \in Job /\ job' # Nobody /\ job'.at = "cleanup"
          /\ job'.plugin = job.plugin /\ job'.kind = job.kind
          /\ job'.real = job.real /\ job'.calls = job.calls
      BY <1>5, <2>1, <2>3, GotoJob DEF StopBegin, At, Steps, StopSteps
    <3> QED
      BY <1>5, <1>0, <2>1, <2>3, <3>1, <1>t
         DEF StopBegin, At, entries, tables, admin, CleanInv, StoppedLeavesNothing,
             NoHandler, NoPutMap, NoProvider, Filtering
  <2> QED
    BY <2>2, <2>3
<1>6. CASE Cleanup
  <2>1. At("cleanup") /\ Goto("routes") /\ job \in Job
    BY <1>6, <1>0 DEF Cleanup, At
  <2>2. /\ job' \in Job /\ job' # Nobody /\ job'.at = "routes"
        /\ job'.plugin = job.plugin /\ job'.kind = job.kind
        /\ job'.real = job.real /\ job'.calls = job.calls
    BY <2>1, GotoJob DEF At, Steps, StopSteps
  <2> QED
    BY <1>6, <1>0, <2>1, <2>2
       DEF Cleanup, At, entries, tables, admin, CleanInv, StoppedLeavesNothing, NoHandler,
           NoPutMap, NoProvider, Filtering
<1>7. CASE RemoveRoutes
  <2>1. At("routes") /\ Goto("handlers") /\ job \in Job
    BY <1>7, <1>0 DEF RemoveRoutes, At
  <2>2. /\ job' \in Job /\ job' # Nobody /\ job'.at = "handlers"
        /\ job'.plugin = job.plugin /\ job'.kind = job.kind
        /\ job'.real = job.real /\ job'.calls = job.calls
    BY <2>1, GotoJob DEF At, Steps, StopSteps
  <2> QED
    BY <1>7, <1>0, <2>1, <2>2
       DEF RemoveRoutes, At, entries, tables, admin, CleanInv, StoppedLeavesNothing,
           NoHandler, NoPutMap, NoProvider, Filtering
<1>8. CASE RemoveHandlers
  <2>1. At("handlers") /\ Goto("filters") /\ job \in Job
    BY <1>8, <1>0 DEF RemoveHandlers, At
  <2>2. /\ job' \in Job /\ job' # Nobody /\ job'.at = "filters"
        /\ job'.plugin = job.plugin /\ job'.kind = job.kind
        /\ job'.real = job.real /\ job'.calls = job.calls
    BY <2>1, GotoJob DEF At, Steps, StopSteps
  <2> QED
    BY <1>8, <1>0, <2>1, <2>2, <1>t
       DEF RemoveHandlers, At, entries, tables, admin, CleanInv, StoppedLeavesNothing,
           NoHandler, NoPutMap, NoProvider, Filtering, Without
<1>9. CASE RemoveFilters
  <2>1. At("filters") /\ Goto("providers") /\ job \in Job
    BY <1>9, <1>0 DEF RemoveFilters, At
  <2>2. /\ job' \in Job /\ job' # Nobody /\ job'.at = "providers"
        /\ job'.plugin = job.plugin /\ job'.kind = job.kind
        /\ job'.real = job.real /\ job'.calls = job.calls
    BY <2>1, GotoJob DEF At, Steps, StopSteps
  <2> QED
    BY <1>9, <1>0, <2>1, <2>2, <1>t
       DEF RemoveFilters, At, entries, tables, admin, CleanInv, StoppedLeavesNothing,
           NoHandler, NoPutMap, NoProvider, Filtering
<1>10. CASE RemoveProviders
  <2>1. At("providers") /\ Goto("put_map") /\ job \in Job
    BY <1>10, <1>0 DEF RemoveProviders, At
  <2>2. /\ job' \in Job /\ job' # Nobody /\ job'.at = "put_map"
        /\ job'.plugin = job.plugin /\ job'.kind = job.kind
        /\ job'.real = job.real /\ job'.calls = job.calls
    BY <2>1, GotoJob DEF At, Steps, StopSteps
  <2> QED
    BY <1>10, <1>0, <2>1, <2>2, <1>t
       DEF RemoveProviders, At, entries, tables, admin, CleanInv, StoppedLeavesNothing,
           NoHandler, NoPutMap, NoProvider, Filtering
<1>11. CASE RemoveFromPutMap
  <2>1. At("put_map") /\ Goto("route_map") /\ job \in Job
    BY <1>11, <1>0 DEF RemoveFromPutMap, At
  <2>2. /\ job' \in Job /\ job' # Nobody /\ job'.at = "route_map"
        /\ job'.plugin = job.plugin /\ job'.kind = job.kind
        /\ job'.real = job.real /\ job'.calls = job.calls
    BY <2>1, GotoJob DEF At, Steps, StopSteps
  <2> QED
    BY <1>11, <1>0, <2>1, <2>2, <1>t
       DEF RemoveFromPutMap, At, entries, tables, admin, CleanInv, StoppedLeavesNothing,
           NoHandler, NoPutMap, NoProvider, Filtering, Without
<1>12. CASE StopEnd
  <2>1. /\ job \in Job /\ job # Nobody
        /\ \/ job' = Nobody
           \/ /\ job' \in Job /\ job' # Nobody /\ job'.at \in {"start", "sync"}
              /\ job'.plugin = job.plugin /\ job'.kind = job.kind
              /\ job'.real = job.real /\ job'.calls = job.calls
    BY <1>12, <1>0, AfterJob DEF StopEnd, At
  <2> QED
    BY <1>12, <1>0, <2>1, <1>t
       DEF StopEnd, At, entries, tables, admin, CleanInv, StoppedLeavesNothing, NoHandler,
           NoPutMap, NoProvider, Filtering, PhaseInv, Cleaning
<1>13. CASE StartBegin
  <2>1. At("start") /\ job \in Job /\ job.plugin \in Plugins
    BY <1>13, <1>0 DEF StartBegin, At
  <2>2. CASE status[job.plugin] = "running"
    <3>1. \/ job' = Nobody
          \/ /\ job' \in Job /\ job' # Nobody /\ job'.at \in {"start", "sync"}
             /\ job'.plugin = job.plugin /\ job'.kind = job.kind
             /\ job'.real = job.real /\ job'.calls = job.calls
      BY <1>13, <2>1, <2>2, AfterJob DEF StartBegin, At
    <3> QED
      BY <1>13, <1>0, <2>1, <2>2, <3>1, <1>t
         DEF StartBegin, At, entries, tables, admin, CleanInv, StoppedLeavesNothing,
             NoHandler, NoPutMap, NoProvider, Filtering
  <2>3. CASE status[job.plugin] # "running"
    <3>1. /\ job' \in Job /\ job' # Nobody /\ job'.at = "calls"
          /\ job'.plugin = job.plugin /\ job'.kind = job.kind
          /\ job'.real = loaded[job.plugin]
          /\ job'.calls = IF loaded[job.plugin] THEN Wants[job.plugin] ELSE <<>>
      BY <1>13, <2>1, <2>3, StartBeginJob
    <3>2. /\ status' = [status EXCEPT ![job.plugin] = "starting"]
          /\ contexts' = contexts + 1
          /\ context' = [context EXCEPT ![job.plugin] = contexts + 1]
          /\ loaded' = [loaded EXCEPT ![job.plugin] = FALSE]
          /\ UNCHANGED <<tables, admin>>
      BY <1>13, <2>3 DEF StartBegin
    <3> QED
      BY <1>0, <2>1, <2>3, <3>1, <3>2, <1>t
         DEF At, entries, tables, admin, CleanInv, StoppedLeavesNothing, NoHandler,
             NoPutMap, NoProvider, Filtering
  <2> QED
    BY <2>2, <2>3
<1>14. CASE Subscribe
  <2>1. /\ job \in Job /\ job.at = "calls" /\ job.calls # <<>> /\ UNCHANGED <<entries, admin>>
        /\ job' \in Job /\ job'.at = "calls" /\ job'.plugin = job.plugin
        /\ job'.kind = job.kind /\ job'.real = job.real
    BY <1>14, CallsLeft DEF Subscribe, NextCall
  <2>2. job # Nobody /\ job' # Nobody
    BY <2>1, PluginsAssumption
  <2> QED
    BY <1>14, <1>0, <2>1, <2>2
       DEF Subscribe, entries, tables, admin, CleanInv, StoppedLeavesNothing, NoHandler,
           NoPutMap, NoProvider, Filtering
<1>15. CASE RegisterPutHandler
  <2>1. /\ job \in Job /\ job.at = "calls" /\ job.calls # <<>> /\ UNCHANGED <<entries, admin>>
        /\ job' \in Job /\ job'.at = "calls" /\ job'.plugin = job.plugin
        /\ job'.kind = job.kind /\ job'.real = job.real
    BY <1>15, CallsLeft DEF RegisterPutHandler, NextCall
  <2>2. job # Nobody /\ job' # Nobody /\ job.plugin \in Plugins
    BY <1>0, <2>1, PluginsAssumption
  <2>3. status[job.plugin] = "starting"
    BY <2>1, <2>2 DEF PhaseInv
  <2>4. \A q \in Plugins \ {job.plugin}, x \in HandledPaths :
          (handlers'[x] = q => handlers[x] = q) /\ (put_handlers'[x] = q => put_handlers[x] = q)
    BY <1>15, <1>t DEF RegisterPutHandler
  <2>5. UNCHANGED <<status, route_table, filters, providers, default_create, plugin_routes>>
    BY <1>15, <2>1 DEF RegisterPutHandler, entries
  <2> QED
    BY <2>1, <2>2, <2>3, <2>4, <2>5 DEF CleanInv, StoppedLeavesNothing, Filtering
<1>16. CASE RegisterRoutes
  <2>1. /\ job \in Job /\ job.at = "calls" /\ job.calls # <<>> /\ UNCHANGED <<entries, admin>>
        /\ job' \in Job /\ job'.at = "calls" /\ job'.plugin = job.plugin
        /\ job'.kind = job.kind /\ job'.real = job.real
    BY <1>16, CallsLeft DEF RegisterRoutes, NextCall
  <2>2. job # Nobody /\ job' # Nobody
    BY <2>1, PluginsAssumption
  <2> QED
    BY <1>16, <1>0, <2>1, <2>2, <1>t
       DEF RegisterRoutes, entries, tables, admin, CleanInv, StoppedLeavesNothing,
           NoHandler, NoPutMap, NoProvider, Filtering, PhaseInv, Cleaning
<1>17. CASE RegisterDeltaInputHandler
  <2>1. /\ job \in Job /\ job.at = "calls" /\ job.calls # <<>> /\ UNCHANGED <<entries, admin>>
        /\ job' \in Job /\ job'.at = "calls" /\ job'.plugin = job.plugin
        /\ job'.kind = job.kind /\ job'.real = job.real
    BY <1>17, CallsLeft DEF RegisterDeltaInputHandler, NextCall
  <2>2. job # Nobody /\ job' # Nobody
    BY <2>1, PluginsAssumption
  <2> QED
    BY <1>17, <1>0, <2>1, <2>2, <1>t
       DEF RegisterDeltaInputHandler, entries, tables, admin, CleanInv,
           StoppedLeavesNothing, NoHandler, NoPutMap, NoProvider, Filtering, PhaseInv,
           Cleaning
<1>18. CASE RegisterResourceProvider
  <2>1. /\ job \in Job /\ job.at = "calls" /\ job.calls # <<>> /\ UNCHANGED <<entries, admin>>
        /\ job' \in Job /\ job'.at = "calls" /\ job'.plugin = job.plugin
        /\ job'.kind = job.kind /\ job'.real = job.real
    BY <1>18, CallsLeft DEF RegisterResourceProvider, NextCall
  <2>2. job # Nobody /\ job' # Nobody
    BY <2>1, PluginsAssumption
  <2> QED
    BY <1>18, <1>0, <2>1, <2>2, <1>t
       DEF RegisterResourceProvider, entries, tables, admin, CleanInv,
           StoppedLeavesNothing, NoHandler, NoPutMap, NoProvider, Filtering, PhaseInv,
           Cleaning
<1>19. CASE RegisterAutopilotProvider
  <2>1. /\ job \in Job /\ job.at = "calls" /\ job.calls # <<>> /\ UNCHANGED <<entries, admin>>
        /\ job' \in Job /\ job'.at = "calls" /\ job'.plugin = job.plugin
        /\ job'.kind = job.kind /\ job'.real = job.real
    BY <1>19, CallsLeft DEF RegisterAutopilotProvider, NextCall
  <2>2. job # Nobody /\ job' # Nobody
    BY <2>1, PluginsAssumption
  <2> QED
    BY <1>19, <1>0, <2>1, <2>2
       DEF RegisterAutopilotProvider, entries, tables, admin, CleanInv,
           StoppedLeavesNothing, NoHandler, NoPutMap, NoProvider, Filtering
<1>20. CASE StartSucceeds
  <2>1. /\ job \in Job /\ job # Nobody
        /\ \/ job' = Nobody
           \/ /\ job' \in Job /\ job' # Nobody /\ job'.at \in {"start", "sync"}
              /\ job'.plugin = job.plugin /\ job'.kind = job.kind
              /\ job'.real = job.real /\ job'.calls = job.calls
    BY <1>20, <1>0, AfterJob DEF StartSucceeds, At
  <2> QED
    BY <1>20, <1>0, <2>1, <1>t
       DEF StartSucceeds, At, entries, tables, admin, CleanInv, StoppedLeavesNothing,
           NoHandler, NoPutMap, NoProvider, Filtering
<1>21. CASE StartFails
  <2>1. /\ job \in Job /\ job # Nobody
        /\ \/ job' = Nobody
           \/ /\ job' \in Job /\ job' # Nobody /\ job'.at \in {"start", "sync"}
              /\ job'.plugin = job.plugin /\ job'.kind = job.kind
              /\ job'.real = job.real /\ job'.calls = job.calls
    BY <1>21, <1>0, AfterJob DEF StartFails, At
  <2> QED
    BY <1>21, <1>0, <2>1, <1>t
       DEF StartFails, At, entries, tables, admin, CleanInv, StoppedLeavesNothing,
           NoHandler, NoPutMap, NoProvider, Filtering
<1>22. CASE Sync
  BY <1>22, <1>0
     DEF Sync, At, entries, tables, admin, CleanInv, StoppedLeavesNothing, NoHandler,
         NoPutMap, NoProvider, Filtering
<1>23. CASE \E x \in HandledPaths, b \in BridgePlugins : BridgeHandler(x, b)
  <2>1. UNCHANGED <<job, status, route_table, handlers, filters, providers, default_create,
                    plugin_routes>>
    BY <1>23 DEF BridgeHandler, entries
  <2>2. \A q \in Plugins, x \in HandledPaths : put_handlers'[x] = q => put_handlers[x] = q
    BY <1>23, <1>0, <1>t DEF BridgeHandler
  <2> QED
    BY <1>0, <2>1, <2>2 DEF CleanInv, StoppedLeavesNothing, NoHandler, NoPutMap, NoProvider,
                            Filtering
<1>24. CASE \E b \in BridgePlugins : BridgeRoutes(b)
  <2>1. UNCHANGED <<job, status, route_table, handlers, put_handlers, filters, providers,
                    default_create>>
    BY <1>24 DEF BridgeRoutes, entries
  <2>2. \A q \in Plugins : q \in plugin_routes' => q \in plugin_routes
    BY <1>24, <1>0 DEF BridgeRoutes
  <2> QED
    BY <1>0, <2>1, <2>2 DEF CleanInv, StoppedLeavesNothing, NoHandler, NoPutMap, NoProvider,
                            Filtering
<1>25. CASE \E b \in BridgePlugins : BridgeReport(b)
  <2>1. UNCHANGED <<job, status, route_table, handlers, put_handlers, filters, providers,
                    default_create, plugin_routes>>
    BY <1>25 DEF BridgeReport, entries, tables, admin
  <2> QED
    BY <2>1 DEF CleanInv, StoppedLeavesNothing, NoHandler, NoPutMap, NoProvider, Filtering
<1>26. CASE \E b \in BridgePlugins, s \in {"running", "stopped"} : BridgeLifecycle(b, s)
  <2>1. UNCHANGED <<job, status, route_table, handlers, put_handlers, filters, providers,
                    default_create, plugin_routes>>
    BY <1>26 DEF BridgeLifecycle, entries, tables, admin
  <2> QED
    BY <2>1 DEF CleanInv, StoppedLeavesNothing, NoHandler, NoPutMap, NoProvider, Filtering
<1>27. CASE \E p \in Plugins \cup {Nobody} : SetDefaultProvider(p)
  BY <1>27, <1>0, <1>t
     DEF SetDefaultProvider, At, entries, tables, admin, CleanInv, StoppedLeavesNothing,
         NoHandler, NoPutMap, NoProvider, Filtering
<1> QED
  BY <1>1, <1>2, <1>3, <1>4, <1>5, <1>6, <1>7, <1>8, <1>9, <1>10, <1>11, <1>12, <1>13,
     <1>14, <1>15, <1>16, <1>17, <1>18, <1>19, <1>20, <1>21, <1>22, <1>23, <1>24, <1>25,
     <1>26, <1>27 DEF Next

(* Subscription tasks of two generations never live together.              *)
LEMMA GenStep ==
  ASSUME TypeOK, PhaseInv, CallsInv, GenInv, Next
  PROVE  GenInv'
<1>0. /\ job \in Job => job # Nobody /\ job.plugin \in Plugins
      /\ job # Nobody => job \in Job
      /\ Nobody \notin Plugins \cup BridgePlugins \cup Nat
      /\ Plugins \cap BridgePlugins = {}
  BY PluginsAssumption DEF TypeOK, Job
<1>t. /\ status \in [Plugins -> Statuses]
      /\ loaded \in [Plugins -> BOOLEAN]
      /\ context \in [Plugins -> Nat \cup {Nobody}]
      /\ contexts \in Nat
      /\ filters \in [Plugins -> Nat]
      /\ subs \in SUBSET (Plugins \X Nat)
  BY DEF TypeOK
<1>1. CASE \E p \in Plugins : StartNext(p)
  <2>1. job = Nobody /\ Fresh(job') /\ UNCHANGED <<filters, subs, loaded, context, status>>
    BY <1>1, StartNextJob DEF StartNext, entries, tables, admin
  <2> QED
    BY <1>0, <2>1 DEF Fresh, GenInv, OneGeneration, NoSubs, Cleaning
<1>2. CASE Populate
  <2>1. UNCHANGED <<job, filters, subs, loaded, context, status>>
    BY <1>2 DEF Populate, entries, tables, admin
  <2> QED
    BY <2>1 DEF GenInv, OneGeneration, NoSubs, Cleaning
<1>3. CASE \E c \in Clients, kind \in Kinds, p \in Plugins : Request(c, kind, p)
  <2>1. UNCHANGED <<job, filters, subs, loaded, context, status>>
    BY <1>3 DEF Request, entries, tables, admin
  <2> QED
    BY <2>1 DEF GenInv, OneGeneration, NoSubs, Cleaning
<1>4. CASE \E c \in Clients : Lock(c)
  <2>1. job = Nobody /\ Fresh(job') /\ UNCHANGED <<filters, subs, loaded, context, status>>
    BY <1>4, LockJob DEF Lock, entries, tables, admin
  <2> QED
    BY <1>0, <2>1 DEF Fresh, GenInv, OneGeneration, NoSubs, Cleaning
<1>5. CASE StopBegin
  <2>1. At("stop") /\ job \in Job /\ job.plugin \in Plugins
    BY <1>5, <1>0 DEF StopBegin, At
  <2>2. CASE status[job.plugin] = "stopped"
    <3>1. \/ job' = Nobody
          \/ /\ job' \in Job /\ job' # Nobody /\ job'.at \in {"start", "sync"}
             /\ job'.plugin = job.plugin /\ job'.kind = job.kind
             /\ job'.real = job.real /\ job'.calls = job.calls
      BY <1>5, <2>1, <2>2, AfterJob DEF StopBegin, At
    <3> QED
      BY <1>5, <1>0, <2>1, <2>2, <3>1, <1>t
         DEF StopBegin, At, entries, tables, admin, GenInv, OneGeneration, NoSubs,
             Cleaning
  <2>3. CASE status[job.plugin] # "stopped"
    <3>1. /\ job' \in Job /\ job' # Nobody /\ job'.at = "cleanup"
          /\ job'.plugin = job.plugin /\ job'.kind = job.kind
          /\ job'.real = job.real /\ job'.calls = job.calls
      BY <1>5, <2>1, <2>3, GotoJob DEF StopBegin, At, Steps, StopSteps
    <3> QED
      BY <1>5, <1>0, <2>1, <2>3, <3>1, <1>t
         DEF StopBegin, At, entries, tables, admin, GenInv, OneGeneration, NoSubs,
             Cleaning
  <2> QED
    BY <2>2, <2>3
<1>6. CASE Cleanup
  <2>1. At("cleanup") /\ Goto("routes") /\ job \in Job
    BY <1>6, <1>0 DEF Cleanup, At
  <2>2. /\ job' \in Job /\ job' # Nobody /\ job'.at = "routes"
        /\ job'.plugin = job.plugin /\ job'.kind = job.kind
        /\ job'.real = job.real /\ job'.calls = job.calls
    BY <2>1, GotoJob DEF At, Steps, StopSteps
  <2> QED
    BY <1>6, <1>0, <2>1, <2>2, <1>t
       DEF Cleanup, At, entries, tables, admin, GenInv, OneGeneration, NoSubs, Cleaning
<1>7. CASE RemoveRoutes
  <2>1. At("routes") /\ Goto("handlers") /\ job \in Job
    BY <1>7, <1>0 DEF RemoveRoutes, At
  <2>2. /\ job' \in Job /\ job' # Nobody /\ job'.at = "handlers"
        /\ job'.plugin = job.plugin /\ job'.kind = job.kind
        /\ job'.real = job.real /\ job'.calls = job.calls
    BY <2>1, GotoJob DEF At, Steps, StopSteps
  <2> QED
    BY <1>7, <1>0, <2>1, <2>2
       DEF RemoveRoutes, At, entries, tables, admin, GenInv, OneGeneration, NoSubs,
           Cleaning
<1>8. CASE RemoveHandlers
  <2>1. At("handlers") /\ Goto("filters") /\ job \in Job
    BY <1>8, <1>0 DEF RemoveHandlers, At
  <2>2. /\ job' \in Job /\ job' # Nobody /\ job'.at = "filters"
        /\ job'.plugin = job.plugin /\ job'.kind = job.kind
        /\ job'.real = job.real /\ job'.calls = job.calls
    BY <2>1, GotoJob DEF At, Steps, StopSteps
  <2> QED
    BY <1>8, <1>0, <2>1, <2>2
       DEF RemoveHandlers, At, entries, tables, admin, GenInv, OneGeneration, NoSubs,
           Cleaning
<1>9. CASE RemoveFilters
  <2>1. At("filters") /\ Goto("providers") /\ job \in Job
    BY <1>9, <1>0 DEF RemoveFilters, At
  <2>2. /\ job' \in Job /\ job' # Nobody /\ job'.at = "providers"
        /\ job'.plugin = job.plugin /\ job'.kind = job.kind
        /\ job'.real = job.real /\ job'.calls = job.calls
    BY <2>1, GotoJob DEF At, Steps, StopSteps
  <2> QED
    BY <1>9, <1>0, <2>1, <2>2, <1>t
       DEF RemoveFilters, At, entries, tables, admin, GenInv, OneGeneration, NoSubs,
           Cleaning
<1>10. CASE RemoveProviders
  <2>1. At("providers") /\ Goto("put_map") /\ job \in Job
    BY <1>10, <1>0 DEF RemoveProviders, At
  <2>2. /\ job' \in Job /\ job' # Nobody /\ job'.at = "put_map"
        /\ job'.plugin = job.plugin /\ job'.kind = job.kind
        /\ job'.real = job.real /\ job'.calls = job.calls
    BY <2>1, GotoJob DEF At, Steps, StopSteps
  <2> QED
    BY <1>10, <1>0, <2>1, <2>2
       DEF RemoveProviders, At, entries, tables, admin, GenInv, OneGeneration, NoSubs,
           Cleaning
<1>11. CASE RemoveFromPutMap
  <2>1. At("put_map") /\ Goto("route_map") /\ job \in Job
    BY <1>11, <1>0 DEF RemoveFromPutMap, At
  <2>2. /\ job' \in Job /\ job' # Nobody /\ job'.at = "route_map"
        /\ job'.plugin = job.plugin /\ job'.kind = job.kind
        /\ job'.real = job.real /\ job'.calls = job.calls
    BY <2>1, GotoJob DEF At, Steps, StopSteps
  <2> QED
    BY <1>11, <1>0, <2>1, <2>2
       DEF RemoveFromPutMap, At, entries, tables, admin, GenInv, OneGeneration, NoSubs,
           Cleaning
<1>12. CASE StopEnd
  <2>1. /\ job \in Job /\ job # Nobody
        /\ \/ job' = Nobody
           \/ /\ job' \in Job /\ job' # Nobody /\ job'.at \in {"start", "sync"}
              /\ job'.plugin = job.plugin /\ job'.kind = job.kind
              /\ job'.real = job.real /\ job'.calls = job.calls
    BY <1>12, <1>0, AfterJob DEF StopEnd, At
  <2> QED
    BY <1>12, <1>0, <2>1, <1>t
       DEF StopEnd, At, entries, tables, admin, GenInv, OneGeneration, NoSubs, Cleaning,
           PhaseInv
<1>13. CASE StartBegin
  <2>1. At("start") /\ job \in Job /\ job.plugin \in Plugins
    BY <1>13, <1>0 DEF StartBegin, At
  <2>2. CASE status[job.plugin] = "running"
    <3>1. \/ job' = Nobody
          \/ /\ job' \in Job /\ job' # Nobody /\ job'.at \in {"start", "sync"}
             /\ job'.plugin = job.plugin /\ job'.kind = job.kind
             /\ job'.real = job.real /\ job'.calls = job.calls
      BY <1>13, <2>1, <2>2, AfterJob DEF StartBegin, At
    <3>2. UNCHANGED <<filters, subs, loaded, context, status>>
      BY <1>13, <2>2 DEF StartBegin, entries, tables
    <3> QED
      BY <3>1, <3>2 DEF GenInv, OneGeneration, NoSubs, Cleaning
  <2>3. CASE status[job.plugin] # "running"
    <3>1. /\ job' \in Job /\ job' # Nobody /\ job'.at = "calls"
          /\ job'.plugin = job.plugin /\ job'.real = loaded[job.plugin]
      BY <1>13, <2>1, <2>3, StartBeginJob
    <3>2. /\ status' = [status EXCEPT ![job.plugin] = "starting"]
          /\ context' = [context EXCEPT ![job.plugin] = contexts + 1]
          /\ loaded' = [loaded EXCEPT ![job.plugin] = FALSE]
          /\ UNCHANGED <<subs, filters>>
      BY <1>13, <2>3 DEF StartBegin, tables
    <3>3. loaded[job.plugin] => NoSubs(job.plugin)
      <4>1. status[job.plugin] \in Statuses
        BY <1>t, <2>1
      <4>2. loaded[job.plugin] => status[job.plugin] = "stopped"
        BY <2>1, <2>3, <4>1 DEF Statuses, PhaseInv, At, Cleaning
      <4> QED
        BY <2>1, <4>2 DEF GenInv
    <3>4. \A p \in Plugins \ {job.plugin} :
            status'[p] = status[p] /\ context'[p] = context[p] /\ loaded'[p] = loaded[p]
      BY <1>t, <3>2
    <3>5. status'[job.plugin] = "starting" /\ loaded'[job.plugin] = FALSE
      BY <1>t, <2>1, <3>2
    <3>6. \A t \in subs : t[1] \in Plugins
      BY <1>t
    <3>7. (\A p \in Plugins : loaded[p] /\ status[p] = "stopped" => NoSubs(p))'
      BY <3>2, <3>4, <3>5 DEF GenInv, NoSubs
    <3>8. OneGeneration'
      BY <3>2, <3>4, <3>5, <3>6 DEF GenInv, OneGeneration
    <3>9. job'.real => \A t \in subs' : t[1] # job'.plugin
      BY <3>1, <3>2, <3>3 DEF NoSubs
    <3> QED
      BY <3>1, <3>7, <3>8, <3>9 DEF GenInv, Cleaning
  <2> QED
    BY <2>2, <2>3
<1>14. CASE Subscribe
  <2>1. /\ job \in Job /\ job.at = "calls" /\ job.calls # <<>> /\ UNCHANGED <<entries, admin>>
        /\ job' \in Job /\ job'.at = "calls" /\ job'.plugin = job.plugin
        /\ job'.kind = job.kind /\ job'.real = job.real
    BY <1>14, CallsLeft DEF Subscribe, NextCall
  <2>2. job # Nobody /\ job' # Nobody
    BY <2>1, PluginsAssumption
  <2> QED
    BY <1>14, <1>0, <2>1, <2>2, <1>t
       DEF Subscribe, entries, tables, admin, GenInv, OneGeneration, NoSubs, Cleaning,
           PhaseInv
<1>15. CASE RegisterPutHandler
  <2>1. /\ job \in Job /\ job.at = "calls" /\ job.calls # <<>> /\ UNCHANGED <<entries, admin>>
        /\ job' \in Job /\ job'.at = "calls" /\ job'.plugin = job.plugin
        /\ job'.kind = job.kind /\ job'.real = job.real
    BY <1>15, CallsLeft DEF RegisterPutHandler, NextCall
  <2>2. job # Nobody /\ job' # Nobody
    BY <2>1, PluginsAssumption
  <2> QED
    BY <1>15, <1>0, <2>1, <2>2
       DEF RegisterPutHandler, entries, tables, admin, GenInv, OneGeneration, NoSubs,
           Cleaning
<1>16. CASE RegisterRoutes
  <2>1. /\ job \in Job /\ job.at = "calls" /\ job.calls # <<>> /\ UNCHANGED <<entries, admin>>
        /\ job' \in Job /\ job'.at = "calls" /\ job'.plugin = job.plugin
        /\ job'.kind = job.kind /\ job'.real = job.real
    BY <1>16, CallsLeft DEF RegisterRoutes, NextCall
  <2>2. job # Nobody /\ job' # Nobody
    BY <2>1, PluginsAssumption
  <2> QED
    BY <1>16, <1>0, <2>1, <2>2
       DEF RegisterRoutes, entries, tables, admin, GenInv, OneGeneration, NoSubs, Cleaning
<1>17. CASE RegisterDeltaInputHandler
  <2>1. /\ job \in Job /\ job.at = "calls" /\ job.calls # <<>> /\ UNCHANGED <<entries, admin>>
        /\ job' \in Job /\ job'.at = "calls" /\ job'.plugin = job.plugin
        /\ job'.kind = job.kind /\ job'.real = job.real
    BY <1>17, CallsLeft DEF RegisterDeltaInputHandler, NextCall
  <2>2. job # Nobody /\ job' # Nobody /\ job.plugin \in Plugins
    BY <1>0, <2>1, PluginsAssumption
  <2>3. filters[job.plugin] = 0
    <3>1. job.calls \in Seq(Calls) /\ Head(job.calls) = "filter"
      BY <1>17, <2>1, CallsLeft DEF RegisterDeltaInputHandler, NextCall, Job
    <3>2. Len(job.calls) \in Nat /\ Len(job.calls) >= 1 /\ job.calls[1] = "filter"
      BY <2>1, <3>1, HeadTailProperties, EmptySeq, LenProperties
    <3>3. Makes("filter", job.calls)
      BY <3>2 DEF Makes
    <3>4. filters[job.plugin] \in Nat /\ ~(filters[job.plugin] > 0)
      BY <2>1, <2>2, <3>3, <1>t DEF CallsInv, Filtering
    <3> QED
      BY <3>4
  <2>4. UNCHANGED <<subs, loaded, context, status>>
    BY <1>17, <2>1 DEF RegisterDeltaInputHandler, entries
  <2>5. \A p \in Plugins : filters'[p] <= 1
    BY <1>17, <1>t, <2>2, <2>3 DEF RegisterDeltaInputHandler, GenInv, OneGeneration
  <2> QED
    BY <2>1, <2>2, <2>4, <2>5 DEF GenInv, OneGeneration, NoSubs, Cleaning
<1>18. CASE RegisterResourceProvider
  <2>1. /\ job \in Job /\ job.at = "calls" /\ job.calls # <<>> /\ UNCHANGED <<entries, admin>>
        /\ job' \in Job /\ job'.at = "calls" /\ job'.plugin = job.plugin
        /\ job'.kind = job.kind /\ job'.real = job.real
    BY <1>18, CallsLeft DEF RegisterResourceProvider, NextCall
  <2>2. job # Nobody /\ job' # Nobody
    BY <2>1, PluginsAssumption
  <2> QED
    BY <1>18, <1>0, <2>1, <2>2
       DEF RegisterResourceProvider, entries, tables, admin, GenInv, OneGeneration,
           NoSubs, Cleaning
<1>19. CASE RegisterAutopilotProvider
  <2>1. /\ job \in Job /\ job.at = "calls" /\ job.calls # <<>> /\ UNCHANGED <<entries, admin>>
        /\ job' \in Job /\ job'.at = "calls" /\ job'.plugin = job.plugin
        /\ job'.kind = job.kind /\ job'.real = job.real
    BY <1>19, CallsLeft DEF RegisterAutopilotProvider, NextCall
  <2>2. job # Nobody /\ job' # Nobody
    BY <2>1, PluginsAssumption
  <2> QED
    BY <1>19, <1>0, <2>1, <2>2
       DEF RegisterAutopilotProvider, entries, tables, admin, GenInv, OneGeneration,
           NoSubs, Cleaning
<1>20. CASE StartSucceeds
  <2>1. /\ job \in Job /\ job # Nobody
        /\ \/ job' = Nobody
           \/ /\ job' \in Job /\ job' # Nobody /\ job'.at \in {"start", "sync"}
              /\ job'.plugin = job.plugin /\ job'.kind = job.kind
              /\ job'.real = job.real /\ job'.calls = job.calls
    BY <1>20, <1>0, AfterJob DEF StartSucceeds, At
  <2> QED
    BY <1>20, <1>0, <2>1, <1>t
       DEF StartSucceeds, At, entries, tables, admin, GenInv, OneGeneration, NoSubs,
           Cleaning, PhaseInv
<1>21. CASE StartFails
  <2>1. /\ job \in Job /\ job # Nobody
        /\ \/ job' = Nobody
           \/ /\ job' \in Job /\ job' # Nobody /\ job'.at \in {"start", "sync"}
              /\ job'.plugin = job.plugin /\ job'.kind = job.kind
              /\ job'.real = job.real /\ job'.calls = job.calls
    BY <1>21, <1>0, AfterJob DEF StartFails, At
  <2> QED
    BY <1>21, <1>0, <2>1, <1>t
       DEF StartFails, At, entries, tables, admin, GenInv, OneGeneration, NoSubs,
           Cleaning, PhaseInv
<1>22. CASE Sync
  BY <1>22, <1>0
     DEF Sync, At, entries, tables, admin, GenInv, OneGeneration, NoSubs, Cleaning
<1>23. CASE \E x \in HandledPaths, b \in BridgePlugins : BridgeHandler(x, b)
  <2>1. UNCHANGED <<job, filters, subs, loaded, context, status>>
    BY <1>23 DEF BridgeHandler, entries, tables, admin
  <2> QED
    BY <2>1 DEF GenInv, OneGeneration, NoSubs, Cleaning
<1>24. CASE \E b \in BridgePlugins : BridgeRoutes(b)
  <2>1. UNCHANGED <<job, filters, subs, loaded, context, status>>
    BY <1>24 DEF BridgeRoutes, entries, tables, admin
  <2> QED
    BY <2>1 DEF GenInv, OneGeneration, NoSubs, Cleaning
<1>25. CASE \E b \in BridgePlugins : BridgeReport(b)
  <2>1. UNCHANGED <<job, filters, subs, loaded, context, status>>
    BY <1>25 DEF BridgeReport, entries, tables, admin
  <2> QED
    BY <2>1 DEF GenInv, OneGeneration, NoSubs, Cleaning
<1>26. CASE \E b \in BridgePlugins, s \in {"running", "stopped"} : BridgeLifecycle(b, s)
  <2>1. UNCHANGED <<job, filters, subs, loaded, context, status>>
    BY <1>26 DEF BridgeLifecycle, entries, tables, admin
  <2> QED
    BY <2>1 DEF GenInv, OneGeneration, NoSubs, Cleaning
<1>27. CASE \E p \in Plugins \cup {Nobody} : SetDefaultProvider(p)
  <2>1. UNCHANGED <<job, filters, subs, loaded, context, status>>
    BY <1>27 DEF SetDefaultProvider, entries, tables, admin
  <2> QED
    BY <2>1 DEF GenInv, OneGeneration, NoSubs, Cleaning
<1> QED
  BY <1>1, <1>2, <1>3, <1>4, <1>5, <1>6, <1>7, <1>8, <1>9, <1>10, <1>11, <1>12, <1>13,
     <1>14, <1>15, <1>16, <1>17, <1>18, <1>19, <1>20, <1>21, <1>22, <1>23, <1>24, <1>25,
     <1>26, <1>27 DEF Next

(* A list without its first element.                                       *)
LEMMA DropOne ==
  ASSUME NEW old, NEW tail, NEW new, Len(old) \in Nat, Len(old) >= 1,
         Len(tail) = Len(old) - 1, \A i \in 1..Len(tail) : tail[i] = old[i + 1],
         Len(new) = Len(tail), \A i \in 1..Len(new) : new[i] = tail[i - 0]
  PROVE  \A i \in 1..Len(new) : i + 1 \in 2..Len(old) /\ new[i] = old[i + 1]
<1> SUFFICES ASSUME NEW i \in 1..Len(new)
             PROVE  i + 1 \in 2..Len(old) /\ new[i] = old[i + 1]
  OBVIOUS
<1>1. i \in 1..Len(tail) /\ i + 1 \in 2..Len(old) /\ i - 0 = i
  OBVIOUS
<1> QED
  BY <1>1

(* What is still to be called after a call: the rest, or the second half   *)
(* of the call and the rest.                                               *)
Replaces(call, old, tail, half, new) ==
  /\ half = SecondHalf(call)
  /\ Len(old) \in Nat /\ Len(old) >= 1 /\ old[1] = call /\ Len(tail) = Len(old) - 1
  /\ \A i \in 1..Len(tail) : tail[i] = old[i + 1]
  /\ Len(half) \in Nat /\ Len(new) \in Nat /\ Len(new) = Len(half) + Len(tail)
  /\ \A i \in 1..Len(new) :
       new[i] = IF i <= Len(half) THEN half[i] ELSE tail[i - Len(half)]
  /\ OnlyOnce(old)
  /\ \A i \in 1..Len(old) :
       (old[i] = "put_map" => i = 1) /\ (old[i] = "route_map" => i = 1)

LEMMA CallsNext ==
  ASSUME NEW call, NEW old, NEW tail, NEW half, NEW new, Replaces(call, old, tail, half, new)
  PROVE  /\ Makes(call, old) /\ OnlyOnce(new)
         /\ Makes("filter", new) => Makes("filter", old) /\ call # "filter"
         /\ Makes("put", new) => Makes("put", old)
         /\ call # "put" => ~Makes("put_map", new)
         /\ call # "routes" => ~Makes("route_map", new)
         /\ \A i \in 1..Len(new) :
              (new[i] = "put_map" => i = 1) /\ (new[i] = "route_map" => i = 1)
<1> USE DEF Replaces
<1> DEFINE d == IF call \in {"put", "routes"} THEN 0 ELSE 1
<1>0. \A i \in 1..Len(new) :
        \/ i = 1 /\ call = "put" /\ new[i] = "put_map"
        \/ i = 1 /\ call = "routes" /\ new[i] = "route_map"
        \/ call \in {"put", "routes"} /\ i \in 2..Len(old) /\ new[i] = old[i]
        \/ call \notin {"put", "routes"} /\ i + 1 \in 2..Len(old) /\ new[i] = old[i + 1]
  <2>1. CASE call \in {"put", "routes"}
    <3>a. call = "put" => half = <<"put_map">>
      BY DEF SecondHalf
    <3>b. call = "routes" => half = <<"route_map">>
      BY DEF SecondHalf
    <3>1. /\ Len(half) = 1
          /\ call = "put" => half[1] = "put_map"
          /\ call = "routes" => half[1] = "route_map"
      BY <2>1, <3>a, <3>b
    <3>2. \A i \in 1..Len(new) : i # 1 => i \in 2..Len(old) /\ new[i] = old[i]
      <4> SUFFICES ASSUME NEW i \in 1..Len(new), i # 1
                   PROVE  i \in 2..Len(old) /\ new[i] = old[i]
        OBVIOUS
      <4>1. i \in 2..Len(old) /\ i - 1 \in 1..Len(tail) /\ (i - 1) + 1 = i
        BY <3>1
      <4>2. new[i] = tail[i - 1]
        <5>1. ~(i <= Len(half)) /\ i - Len(half) = i - 1
          BY <4>1, <3>1
        <5>2. new[i] = tail[i - Len(half)]
          BY <5>1
        <5> QED
          BY <5>1, <5>2
      <4>3. tail[i - 1] = old[(i - 1) + 1]
        BY <4>1
      <4> QED
        BY <4>1, <4>2, <4>3
    <3>3. 1 \in 1..Len(new) => new[1] = half[1]
      BY <3>1
    <3>4. \A i \in 1..Len(new) : i = 1 \/ i # 1
      OBVIOUS
    <3> QED
      BY <2>1, <3>1, <3>2, <3>3, <3>4
  <2>2. CASE call \notin {"put", "routes"}
    <3>1. Len(half) = 0
      BY <2>2 DEF SecondHalf
    <3>2. \A i \in 1..Len(new) : i + 1 \in 2..Len(old) /\ new[i] = old[i + 1]
      <4>1. Len(new) = Len(tail) /\ \A i \in 1..Len(new) : new[i] = tail[i - 0]
        BY <3>1
      <4> QED
        BY <4>1, DropOne
    <3> QED
      BY <2>2, <3>2
  <2> QED
    BY <2>1, <2>2
<1>1. \A i \in 1..Len(new) :
        \/ i = 1 /\ call = "put" /\ new[i] = "put_map"
        \/ i = 1 /\ call = "routes" /\ new[i] = "route_map"
        \/ i + d \in 2..Len(old) /\ new[i] = old[i + d]
  <2>1. CASE call \in {"put", "routes"}
    <3>1. d = 0 /\ \A i \in 1..Len(new) : i + d = i
      BY <2>1, <1>0
    <3> HIDE DEF d
    <3> QED
      BY <2>1, <3>1, <1>0
  <2>2. CASE call \notin {"put", "routes"}
    <3>1. d = 1 /\ call # "put" /\ call # "routes"
      BY <2>2
    <3> HIDE DEF d
    <3> QED
      BY <2>2, <3>1, <1>0
  <2> QED
    BY <2>1, <2>2
<1>2. d \in {0, 1} /\ 1 \in 1..Len(old)
  BY <1>0
<1> HIDE DEF d
<1>3. \A k \in 2..Len(old) : k \in 1..Len(old) /\ k # 1
  BY <1>0
<1>4. \A i \in 1..Len(new) :
        new[i] \notin {"put_map", "route_map"} =>
          i + d \in 1..Len(old) /\ i + d # 1 /\ new[i] = old[i + d]
  BY <1>1, <1>3
<1>5. \A i, j \in 1..Len(new) : i + d = j + d => i = j
  BY <1>0, <1>2
<1>6. OnlyOnce(new)
  <2> SUFFICES ASSUME NEW i \in 1..Len(new), NEW j \in 1..Len(new),
                      new[i] = "filter", new[j] = "filter"
               PROVE  i = j
    BY DEF OnlyOnce
  <2>1. /\ i + d \in 1..Len(old) /\ old[i + d] = "filter"
        /\ j + d \in 1..Len(old) /\ old[j + d] = "filter"
    BY <1>4
  <2>2. i + d = j + d
    BY <2>1 DEF OnlyOnce
  <2> QED
    BY <2>2, <1>5
<1>7. Makes("filter", new) => Makes("filter", old) /\ call # "filter"
  BY <1>0, <1>2, <1>4 DEF Makes, OnlyOnce
<1>8. Makes("put", new) => Makes("put", old)
  BY <1>4 DEF Makes
<1>9. \A i \in 1..Len(new) :
        /\ new[i] = "put_map" => i = 1 /\ call = "put"
        /\ new[i] = "route_map" => i = 1 /\ call = "routes"
  BY <1>1, <1>3
<1>10. Makes(call, old)
  BY <1>0, <1>2 DEF Makes
<1> QED
  BY <1>6, <1>7, <1>8, <1>9, <1>10 DEF Makes

(* The same of the request under way.                                      *)
LEMMA NextCallMakes ==
  ASSUME TypeOK, CallsInv, NEW call, NextCall(call)
  PROVE  /\ Makes(call, job.calls) /\ OnlyOnce(job'.calls)
         /\ Makes("filter", job'.calls) => Makes("filter", job.calls) /\ call # "filter"
         /\ Makes("put", job'.calls) => Makes("put", job.calls)
         /\ call # "put" => ~Makes("put_map", job'.calls)
         /\ call # "routes" => ~Makes("route_map", job'.calls)
         /\ \A i \in 1..Len(job'.calls) :
              (job'.calls[i] = "put_map" => i = 1) /\ (job'.calls[i] = "route_map" => i = 1)
<1>1. /\ job \in Job /\ job # Nobody /\ job.at = "calls"
      /\ job.calls # <<>> /\ Head(job.calls) = call
      /\ job'.calls = SecondHalf(call) \o Tail(job.calls) /\ SecondHalf(call) \in Seq(Calls)
  BY CallsLeft, PluginsAssumption
<1>2. job.calls \in Seq(Calls)
  BY <1>1 DEF Job
<1>3. OnlyOnce(job.calls)
  BY <1>1 DEF CallsInv
<1>4. \A i \in 1..Len(job.calls) :
        (job.calls[i] = "put_map" => i = 1) /\ (job.calls[i] = "route_map" => i = 1)
  BY <1>1 DEF CallsInv
<1> DEFINE old == job.calls
           new == job'.calls
           half == SecondHalf(call)
           tail == Tail(job.calls)
<1>5. /\ Len(old) \in Nat /\ Len(old) >= 1 /\ old[1] = call /\ tail \in Seq(Calls)
      /\ Len(tail) = Len(old) - 1 /\ \A i \in 1..Len(tail) : tail[i] = old[i + 1]
  BY <1>1, <1>2, HeadTailProperties, EmptySeq, LenProperties
<1>6. /\ Len(new) = Len(half) + Len(tail) /\ Len(half) \in Nat /\ Len(new) \in Nat
      /\ \A i \in 1..Len(new) :
           new[i] = IF i <= Len(half) THEN half[i] ELSE tail[i - Len(half)]
  BY <1>1, <1>5, ConcatProperties, LenProperties
<1>7. half = SecondHalf(call) /\ old = job.calls /\ new = job'.calls
  OBVIOUS
<1>9. /\ OnlyOnce(old)
      /\ \A i \in 1..Len(old) :
           (old[i] = "put_map" => i = 1) /\ (old[i] = "route_map" => i = 1)
  BY <1>3, <1>4
<1> HIDE DEF old, new, half, tail
<1>10. Replaces(call, old, tail, half, new)
  BY <1>5, <1>6, <1>7, <1>9 DEF Replaces
<1>8. /\ Makes(call, old) /\ OnlyOnce(new)
      /\ Makes("filter", new) => Makes("filter", old) /\ call # "filter"
      /\ Makes("put", new) => Makes("put", old)
      /\ call # "put" => ~Makes("put_map", new)
      /\ call # "routes" => ~Makes("route_map", new)
      /\ \A i \in 1..Len(new) :
           (new[i] = "put_map" => i = 1) /\ (new[i] = "route_map" => i = 1)
  BY <1>10, CallsNext
<1> QED
  BY <1>7, <1>8

(* The calls still to be made fit what has been registered.                *)
LEMMA CallsStep ==
  ASSUME TypeOK, PhaseInv, CleanInv, CallsInv, Next
  PROVE  CallsInv'
<1>0. /\ job \in Job => job # Nobody /\ job.plugin \in Plugins
      /\ job # Nobody => job \in Job
      /\ Nobody \notin Plugins \cup BridgePlugins \cup Nat
      /\ Plugins \cap BridgePlugins = {}
  BY PluginsAssumption DEF TypeOK, Job
<1>t. /\ status \in [Plugins -> Statuses]
      /\ handlers \in [HandledPaths -> Plugins \cup {Nobody}]
      /\ filters \in [Plugins -> Nat]
  BY DEF TypeOK
<1>1. CASE \E p \in Plugins : StartNext(p)
  <2>1. job = Nobody /\ Fresh(job') /\ UNCHANGED <<filters, handlers, route_table>>
    BY <1>1, StartNextJob DEF StartNext, entries, tables, admin
  <2> QED
    BY <1>0, <2>1 DEF Fresh, CallsInv, Filtering, PutDone
<1>2. CASE Populate
  <2>1. UNCHANGED <<job, filters, handlers, route_table>>
    BY <1>2 DEF Populate, entries, tables, admin
  <2> QED
    BY <2>1 DEF CallsInv, Filtering, PutDone
<1>3. CASE \E c \in Clients, kind \in Kinds, p \in Plugins : Request(c, kind, p)
  <2>1. UNCHANGED <<job, filters, handlers, route_table>>
    BY <1>3 DEF Request, entries, tables, admin
  <2> QED
    BY <2>1 DEF CallsInv, Filtering, PutDone
<1>4. CASE \E c \in Clients : Lock(c)
  <2>1. job = Nobody /\ Fresh(job') /\ UNCHANGED <<filters, handlers, route_table>>
    BY <1>4, LockJob DEF Lock, entries, tables, admin
  <2> QED
    BY <1>0, <2>1 DEF Fresh, CallsInv, Filtering, PutDone
<1>5. CASE StopBegin
  <2>1. At("stop") /\ job \in Job /\ job.plugin \in Plugins
    BY <1>5, <1>0 DEF StopBegin, At
  <2>2. CASE status[job.plugin] = "stopped"
    <3>1. \/ job' = Nobody
          \/ /\ job' \in Job /\ job' # Nobody /\ job'.at \in {"start", "sync"}
             /\ job'.plugin = job.plugin /\ job'.kind = job.kind
             /\ job'.real = job.real /\ job'.calls = job.calls
      BY <1>5, <2>1, <2>2, AfterJob DEF StopBegin, At
    <3> QED
      BY <1>5, <1>0, <2>1, <2>2, <3>1
         DEF StopBegin, At, entries, tables, admin, CallsInv, Filtering, PutDone
  <2>3. CASE status[job.plugin] # "stopped"
    <3>1. /\ job' \in Job /\ job' # Nobody /\ job'.at = "cleanup"
          /\ job'.plugin = job.plugin /\ job'.kind = job.kind
          /\ job'.real = job.real /\ job'.calls = job.calls
      BY <1>5, <2>1, <2>3, GotoJob DEF StopBegin, At, Steps, StopSteps
    <3> QED
      BY <1>5, <1>0, <2>1, <2>3, <3>1
         DEF StopBegin, At, entries, tables, admin, CallsInv, Filtering, PutDone
  <2> QED
    BY <2>2, <2>3
<1>6. CASE Cleanup
  <2>1. At("cleanup") /\ Goto("routes") /\ job \in Job
    BY <1>6, <1>0 DEF Cleanup, At
  <2>2. /\ job' \in Job /\ job' # Nobody /\ job'.at = "routes"
        /\ job'.plugin = job.plugin /\ job'.kind = job.kind
        /\ job'.real = job.real /\ job'.calls = job.calls
    BY <2>1, GotoJob DEF At, Steps, StopSteps
  <2> QED
    BY <1>6, <1>0, <2>1, <2>2
       DEF Cleanup, At, entries, tables, admin, CallsInv, Filtering, PutDone
<1>7. CASE RemoveRoutes
  <2>1. At("routes") /\ Goto("handlers") /\ job \in Job
    BY <1>7, <1>0 DEF RemoveRoutes, At
  <2>2. /\ job' \in Job /\ job' # Nobody /\ job'.at = "handlers"
        /\ job'.plugin = job.plugin /\ job'.kind = job.kind
        /\ job'.real = job.real /\ job'.calls = job.calls
    BY <2>1, GotoJob DEF At, Steps, StopSteps
  <2> QED
    BY <1>7, <1>0, <2>1, <2>2
       DEF RemoveRoutes, At, entries, tables, admin, CallsInv, Filtering, PutDone
<1>8. CASE RemoveHandlers
  <2>1. At("handlers") /\ Goto("filters") /\ job \in Job
    BY <1>8, <1>0 DEF RemoveHandlers, At
  <2>2. /\ job' \in Job /\ job' # Nobody /\ job'.at = "filters"
        /\ job'.plugin = job.plugin /\ job'.kind = job.kind
        /\ job'.real = job.real /\ job'.calls = job.calls
    BY <2>1, GotoJob DEF At, Steps, StopSteps
  <2> QED
    BY <1>8, <1>0, <2>1, <2>2
       DEF RemoveHandlers, At, entries, tables, admin, CallsInv, Filtering, PutDone
<1>9. CASE RemoveFilters
  <2>1. At("filters") /\ Goto("providers") /\ job \in Job
    BY <1>9, <1>0 DEF RemoveFilters, At
  <2>2. /\ job' \in Job /\ job' # Nobody /\ job'.at = "providers"
        /\ job'.plugin = job.plugin /\ job'.kind = job.kind
        /\ job'.real = job.real /\ job'.calls = job.calls
    BY <2>1, GotoJob DEF At, Steps, StopSteps
  <2> QED
    BY <1>9, <1>0, <2>1, <2>2
       DEF RemoveFilters, At, entries, tables, admin, CallsInv, Filtering, PutDone
<1>10. CASE RemoveProviders
  <2>1. At("providers") /\ Goto("put_map") /\ job \in Job
    BY <1>10, <1>0 DEF RemoveProviders, At
  <2>2. /\ job' \in Job /\ job' # Nobody /\ job'.at = "put_map"
        /\ job'.plugin = job.plugin /\ job'.kind = job.kind
        /\ job'.real = job.real /\ job'.calls = job.calls
    BY <2>1, GotoJob DEF At, Steps, StopSteps
  <2> QED
    BY <1>10, <1>0, <2>1, <2>2
       DEF RemoveProviders, At, entries, tables, admin, CallsInv, Filtering, PutDone
<1>11. CASE RemoveFromPutMap
  <2>1. At("put_map") /\ Goto("route_map") /\ job \in Job
    BY <1>11, <1>0 DEF RemoveFromPutMap, At
  <2>2. /\ job' \in Job /\ job' # Nobody /\ job'.at = "route_map"
        /\ job'.plugin = job.plugin /\ job'.kind = job.kind
        /\ job'.real = job.real /\ job'.calls = job.calls
    BY <2>1, GotoJob DEF At, Steps, StopSteps
  <2> QED
    BY <1>11, <1>0, <2>1, <2>2
       DEF RemoveFromPutMap, At, entries, tables, admin, CallsInv, Filtering, PutDone
<1>12. CASE StopEnd
  <2>1. job' = Nobody \/ job'.at \in {"start", "sync"}
    BY <1>12, AfterJob DEF StopEnd, At
  <2> QED
    BY <2>1 DEF CallsInv
<1>13. CASE StartBegin
  <2>1. At("start") /\ job \in Job /\ job.plugin \in Plugins
    BY <1>13, <1>0 DEF StartBegin, At
  <2>2. CASE status[job.plugin] = "running"
    <3>1. \/ job' = Nobody
          \/ job'.at \in {"start", "sync"}
      BY <1>13, <2>1, <2>2, AfterJob DEF StartBegin, At
    <3> QED
      BY <3>1 DEF CallsInv
  <2>3. CASE status[job.plugin] # "running"
    <3> DEFINE wants == Wants[job.plugin]
    <3>1. /\ job'.plugin = job.plugin /\ UNCHANGED <<filters, handlers, route_table>>
          /\ job'.calls = IF loaded[job.plugin] THEN wants ELSE <<>>
      BY <1>13, <2>1, <2>3, StartBeginJob DEF StartBegin, tables
    <3>2. CASE loaded[job.plugin]
      <4>1. status[job.plugin] \in Statuses
        BY <1>t, <2>1
      <4>2. status[job.plugin] = "stopped"
        BY <2>1, <2>3, <3>2, <4>1 DEF Statuses, PhaseInv, At, Cleaning
      <4>3. ~Filtering(job.plugin)
        BY <2>1, <4>2 DEF CleanInv, StoppedLeavesNothing
      <4>4. /\ wants \in Seq(Calls \ {"put_map", "route_map"})
            /\ \A i, j \in 1..Len(wants) : wants[i] = "filter" /\ wants[j] = "filter" => i = j
        BY <2>1, PluginsAssumption
      <4>5. \A i \in 1..Len(wants) : wants[i] \in Calls \ {"put_map", "route_map"}
        BY <4>4, ElementOfSeq
      <4>6. Makes("put", wants) => HandlesPut(job.plugin, PutPath[job.plugin])
        BY DEF Makes, HandlesPut
      <4> HIDE DEF wants
      <4>7. /\ OnlyOnce(job'.calls)
            /\ \A i \in 1..Len(job'.calls) :
                 job'.calls[i] # "put_map" /\ job'.calls[i] # "route_map"
            /\ Makes("put", job'.calls) => HandlesPut(job'.plugin, PutPath[job'.plugin])
        BY <3>1, <3>2, <4>4, <4>5, <4>6 DEF OnlyOnce
      <4> QED
        BY <3>1, <4>3, <4>7 DEF CallsInv, Filtering
    <3>3. CASE ~loaded[job.plugin]
      <4>1. job'.calls = <<>> /\ 1..Len(job'.calls) = {}
        BY <3>1, <3>3, EmptySeq
      <4>2. OnlyOnce(job'.calls)
        BY <4>1 DEF OnlyOnce
      <4>3. ~Makes("filter", job'.calls) /\ ~Makes("put", job'.calls)
        BY <4>1 DEF Makes
      <4> QED
        BY <4>1, <4>2, <4>3 DEF CallsInv
    <3> QED
      BY <3>2, <3>3
  <2> QED
    BY <2>2, <2>3
<1>14. CASE Subscribe
  <2>1. /\ job \in Job /\ job.at = "calls" /\ job.calls # <<>> /\ UNCHANGED <<entries, admin>>
        /\ job' \in Job /\ job'.at = "calls" /\ job'.plugin = job.plugin
        /\ job'.kind = job.kind /\ job'.real = job.real
    BY <1>14, CallsLeft DEF Subscribe, NextCall
  <2>2. job # Nobody /\ job' # Nobody /\ job.plugin \in Plugins
    BY <1>0, <2>1, PluginsAssumption
  <2>3. NextCall("subscribe") /\ UNCHANGED <<filters, handlers, route_table>>
    BY <1>14 DEF Subscribe
  <2>4. /\ OnlyOnce(job'.calls)
        /\ Makes("filter", job'.calls) => ~Filtering(job.plugin)
        /\ Makes("put", job'.calls) => HandlesPut(job.plugin, PutPath[job.plugin])
    BY <2>1, <2>2, <2>3, NextCallMakes DEF CallsInv
  <2>5. \A i \in 1..Len(job'.calls) :
          job'.calls[i] # "put_map" /\ job'.calls[i] # "route_map"
    BY <2>3, NextCallMakes DEF Makes
  <2> QED
    BY <2>1, <2>2, <2>3, <2>4, <2>5 DEF CallsInv, Filtering
<1>15. CASE RegisterPutHandler
  <2>1. /\ job \in Job /\ job.at = "calls" /\ job.calls # <<>> /\ UNCHANGED <<entries, admin>>
        /\ job' \in Job /\ job'.at = "calls" /\ job'.plugin = job.plugin
        /\ job'.kind = job.kind /\ job'.real = job.real
    BY <1>15, CallsLeft DEF RegisterPutHandler, NextCall
  <2>2. job # Nobody /\ job' # Nobody /\ job.plugin \in Plugins
    BY <1>0, <2>1, PluginsAssumption
  <2>3. UNCHANGED <<filters, route_table>> /\ PutPath[job.plugin] \in HandledPaths
    BY <1>15, <2>2, PluginsAssumption DEF RegisterPutHandler
  <2>4. CASE NextCall("put")
    <3>1. /\ OnlyOnce(job'.calls)
          /\ Makes("filter", job'.calls) => ~Filtering(job.plugin)
          /\ HandlesPut(job.plugin, PutPath[job.plugin])
          /\ \A i \in 1..Len(job'.calls) : job'.calls[i] = "put_map" => i = 1
      BY <2>1, <2>2, <2>4, NextCallMakes DEF CallsInv
    <3>2. \A i \in 1..Len(job'.calls) : job'.calls[i] # "route_map"
      BY <2>4, NextCallMakes DEF Makes
    <3>3. handlers'[PutPath[job.plugin]] = job.plugin
      <4>1. ~NextCall("put_map")
        BY <2>4 DEF NextCall
      <4> QED
        BY <1>15, <4>1, <1>t, <2>3 DEF RegisterPutHandler
    <3> QED
      BY <2>1, <2>2, <2>3, <3>1, <3>2, <3>3 DEF CallsInv, Filtering, PutDone
  <2>5. CASE NextCall("put_map")
    <3>1. /\ OnlyOnce(job'.calls)
          /\ Makes("filter", job'.calls) => ~Filtering(job.plugin)
          /\ Makes("put", job'.calls) => HandlesPut(job.plugin, PutPath[job.plugin])
      BY <2>1, <2>2, <2>5, NextCallMakes DEF CallsInv
    <3>2. \A i \in 1..Len(job'.calls) :
            job'.calls[i] # "put_map" /\ job'.calls[i] # "route_map"
      BY <2>5, NextCallMakes DEF Makes
    <3> QED
      BY <2>1, <2>2, <2>3, <3>1, <3>2 DEF CallsInv, Filtering
  <2> QED
    BY <1>15, <2>4, <2>5 DEF RegisterPutHandler
<1>16. CASE RegisterRoutes
  <2>1. /\ job \in Job /\ job.at = "calls" /\ job.calls # <<>> /\ UNCHANGED <<entries, admin>>
        /\ job' \in Job /\ job'.at = "calls" /\ job'.plugin = job.plugin
        /\ job'.kind = job.kind /\ job'.real = job.real
    BY <1>16, CallsLeft DEF RegisterRoutes, NextCall
  <2>2. job # Nobody /\ job' # Nobody /\ job.plugin \in Plugins
    BY <1>0, <2>1, PluginsAssumption
  <2>3. UNCHANGED <<filters, handlers>> /\ route_table \subseteq route_table'
    BY <1>16 DEF RegisterRoutes
  <2>4. CASE NextCall("routes")
    <3>1. /\ OnlyOnce(job'.calls)
          /\ Makes("filter", job'.calls) => ~Filtering(job.plugin)
          /\ Makes("put", job'.calls) => HandlesPut(job.plugin, PutPath[job.plugin])
          /\ \A i \in 1..Len(job'.calls) : job'.calls[i] = "route_map" => i = 1
      BY <2>1, <2>2, <2>4, NextCallMakes DEF CallsInv
    <3>2. \A i \in 1..Len(job'.calls) : job'.calls[i] # "put_map"
      BY <2>4, NextCallMakes DEF Makes
    <3>3. job.plugin \in route_table'
      <4>1. ~NextCall("route_map")
        BY <2>4 DEF NextCall
      <4> QED
        BY <1>16, <4>1 DEF RegisterRoutes
    <3> QED
      BY <2>1, <2>2, <2>3, <3>1, <3>2, <3>3 DEF CallsInv, Filtering
  <2>5. CASE NextCall("route_map")
    <3>1. /\ OnlyOnce(job'.calls)
          /\ Makes("filter", job'.calls) => ~Filtering(job.plugin)
          /\ Makes("put", job'.calls) => HandlesPut(job.plugin, PutPath[job.plugin])
      BY <2>1, <2>2, <2>5, NextCallMakes DEF CallsInv
    <3>2. \A i \in 1..Len(job'.calls) :
            job'.calls[i] # "put_map" /\ job'.calls[i] # "route_map"
      BY <2>5, NextCallMakes DEF Makes
    <3> QED
      BY <2>1, <2>2, <2>3, <3>1, <3>2 DEF CallsInv, Filtering
  <2> QED
    BY <1>16, <2>4, <2>5 DEF RegisterRoutes
<1>17. CASE RegisterDeltaInputHandler
  <2>1. /\ job \in Job /\ job.at = "calls" /\ job.calls # <<>> /\ UNCHANGED <<entries, admin>>
        /\ job' \in Job /\ job'.at = "calls" /\ job'.plugin = job.plugin
        /\ job'.kind = job.kind /\ job'.real = job.real
    BY <1>17, CallsLeft DEF RegisterDeltaInputHandler, NextCall
  <2>2. job # Nobody /\ job' # Nobody /\ job.plugin \in Plugins
    BY <1>0, <2>1, PluginsAssumption
  <2>3. NextCall("filter") /\ UNCHANGED <<handlers, route_table>>
    BY <1>17 DEF RegisterDeltaInputHandler
  <2>4. /\ OnlyOnce(job'.calls) /\ ~Makes("filter", job'.calls)
        /\ Makes("put", job'.calls) => HandlesPut(job.plugin, PutPath[job.plugin])
    BY <2>1, <2>2, <2>3, NextCallMakes DEF CallsInv
  <2>5. \A i \in 1..Len(job'.calls) :
          job'.calls[i] # "put_map" /\ job'.calls[i] # "route_map"
    BY <2>3, NextCallMakes DEF Makes
  <2> QED
    BY <2>1, <2>2, <2>3, <2>4, <2>5 DEF CallsInv
<1>18. CASE RegisterResourceProvider
  <2>1. /\ job \in Job /\ job.at = "calls" /\ job.calls # <<>> /\ UNCHANGED <<entries, admin>>
        /\ job' \in Job /\ job'.at = "calls" /\ job'.plugin = job.plugin
        /\ job'.kind = job.kind /\ job'.real = job.real
    BY <1>18, CallsLeft DEF RegisterResourceProvider, NextCall
  <2>2. job # Nobody /\ job' # Nobody /\ job.plugin \in Plugins
    BY <1>0, <2>1, PluginsAssumption
  <2>3. NextCall("provider") /\ UNCHANGED <<filters, handlers, route_table>>
    BY <1>18 DEF RegisterResourceProvider
  <2>4. /\ OnlyOnce(job'.calls)
        /\ Makes("filter", job'.calls) => ~Filtering(job.plugin)
        /\ Makes("put", job'.calls) => HandlesPut(job.plugin, PutPath[job.plugin])
    BY <2>1, <2>2, <2>3, NextCallMakes DEF CallsInv
  <2>5. \A i \in 1..Len(job'.calls) :
          job'.calls[i] # "put_map" /\ job'.calls[i] # "route_map"
    BY <2>3, NextCallMakes DEF Makes
  <2> QED
    BY <2>1, <2>2, <2>3, <2>4, <2>5 DEF CallsInv, Filtering
<1>19. CASE RegisterAutopilotProvider
  <2>1. /\ job \in Job /\ job.at = "calls" /\ job.calls # <<>> /\ UNCHANGED <<entries, admin>>
        /\ job' \in Job /\ job'.at = "calls" /\ job'.plugin = job.plugin
        /\ job'.kind = job.kind /\ job'.real = job.real
    BY <1>19, CallsLeft DEF RegisterAutopilotProvider, NextCall
  <2>2. job # Nobody /\ job' # Nobody /\ job.plugin \in Plugins
    BY <1>0, <2>1, PluginsAssumption
  <2>3. NextCall("pilot") /\ UNCHANGED <<filters, handlers, route_table>>
    BY <1>19 DEF RegisterAutopilotProvider
  <2>4. /\ OnlyOnce(job'.calls)
        /\ Makes("filter", job'.calls) => ~Filtering(job.plugin)
        /\ Makes("put", job'.calls) => HandlesPut(job.plugin, PutPath[job.plugin])
    BY <2>1, <2>2, <2>3, NextCallMakes DEF CallsInv
  <2>5. \A i \in 1..Len(job'.calls) :
          job'.calls[i] # "put_map" /\ job'.calls[i] # "route_map"
    BY <2>3, NextCallMakes DEF Makes
  <2> QED
    BY <2>1, <2>2, <2>3, <2>4, <2>5 DEF CallsInv, Filtering
<1>20. CASE StartSucceeds
  <2>1. job' = Nobody \/ job'.at \in {"start", "sync"}
    BY <1>20, AfterJob DEF StartSucceeds, At
  <2> QED
    BY <2>1 DEF CallsInv
<1>21. CASE StartFails
  <2>1. job' = Nobody \/ job'.at \in {"start", "sync"}
    BY <1>21, AfterJob DEF StartFails, At
  <2> QED
    BY <2>1 DEF CallsInv
<1>22. CASE Sync
  BY <1>22, <1>0 DEF Sync, At, entries, tables, admin, CallsInv, Filtering, PutDone
<1>23. CASE \E x \in HandledPaths, b \in BridgePlugins : BridgeHandler(x, b)
  <2>1. UNCHANGED <<job, filters, handlers, route_table>>
    BY <1>23 DEF BridgeHandler, entries, tables, admin
  <2> QED
    BY <2>1 DEF CallsInv, Filtering, PutDone
<1>24. CASE \E b \in BridgePlugins : BridgeRoutes(b)
  <2>1. UNCHANGED <<job, filters, handlers, route_table>>
    BY <1>24 DEF BridgeRoutes, entries, tables, admin
  <2> QED
    BY <2>1 DEF CallsInv, Filtering, PutDone
<1>25. CASE \E b \in BridgePlugins : BridgeReport(b)
  <2>1. UNCHANGED <<job, filters, handlers, route_table>>
    BY <1>25 DEF BridgeReport, entries, tables, admin
  <2> QED
    BY <2>1 DEF CallsInv, Filtering, PutDone
<1>26. CASE \E b \in BridgePlugins, s \in {"running", "stopped"} : BridgeLifecycle(b, s)
  <2>1. UNCHANGED <<job, filters, handlers, route_table>>
    BY <1>26 DEF BridgeLifecycle, entries, tables, admin
  <2> QED
    BY <2>1 DEF CallsInv, Filtering, PutDone
<1>27. CASE \E p \in Plugins \cup {Nobody} : SetDefaultProvider(p)
  <2>1. UNCHANGED <<job, filters, handlers, route_table>>
    BY <1>27 DEF SetDefaultProvider, entries, tables, admin
  <2> QED
    BY <2>1 DEF CallsInv, Filtering, PutDone
<1> QED
  BY <1>1, <1>2, <1>3, <1>4, <1>5, <1>6, <1>7, <1>8, <1>9, <1>10, <1>11, <1>12, <1>13,
     <1>14, <1>15, <1>16, <1>17, <1>18, <1>19, <1>20, <1>21, <1>22, <1>23, <1>24, <1>25,
     <1>26, <1>27 DEF Next

(* A shared map names a plugin its own table has dropped only on the way.  *)
LEMMA SharedStep ==
  ASSUME TypeOK, CallsInv, SharedInv, Next
  PROVE  SharedInv'
<1>0. /\ job \in Job => job # Nobody /\ job.plugin \in Plugins
      /\ job # Nobody => job \in Job
      /\ Nobody \notin Plugins \cup BridgePlugins \cup Nat
      /\ Plugins \cap BridgePlugins = {}
  BY PluginsAssumption DEF TypeOK, Job
<1>t. /\ handlers \in [HandledPaths -> Plugins \cup {Nobody}]
      /\ put_handlers \in [HandledPaths -> Plugins \cup BridgePlugins \cup {Nobody}]
  BY DEF TypeOK
<1>1. CASE \E p \in Plugins : StartNext(p)
  <2>1. job = Nobody /\ UNCHANGED <<handlers, put_handlers, route_table, plugin_routes>>
    BY <1>1 DEF StartNext, tables
  <2> QED
    BY <2>1 DEF SharedInv, Dropping
<1>2. CASE Populate
  <2>1. UNCHANGED <<job, handlers, put_handlers, plugin_routes, route_table>>
    BY <1>2 DEF Populate, entries, tables, admin
  <2> QED
    BY <2>1 DEF SharedInv, Dropping
<1>3. CASE \E c \in Clients, kind \in Kinds, p \in Plugins : Request(c, kind, p)
  <2>1. UNCHANGED <<job, handlers, put_handlers, plugin_routes, route_table>>
    BY <1>3 DEF Request, entries, tables, admin
  <2> QED
    BY <2>1 DEF SharedInv, Dropping
<1>4. CASE \E c \in Clients : Lock(c)
  <2>1. job = Nobody /\ UNCHANGED <<handlers, put_handlers, route_table, plugin_routes>>
    BY <1>4 DEF Lock, tables
  <2> QED
    BY <2>1 DEF SharedInv, Dropping
<1>5. CASE StopBegin
  <2>1. At("stop") /\ UNCHANGED <<handlers, put_handlers, route_table, plugin_routes>>
    BY <1>5 DEF StopBegin, tables
  <2> QED
    BY <2>1 DEF At, SharedInv, Dropping
<1>6. CASE Cleanup
  <2>1. At("cleanup") /\ UNCHANGED <<handlers, put_handlers, route_table, plugin_routes>>
    BY <1>6 DEF Cleanup, tables
  <2> QED
    BY <2>1 DEF At, SharedInv, Dropping
<1>7. CASE RemoveRoutes
  <2>1. At("routes") /\ Goto("handlers") /\ job \in Job
    BY <1>7, <1>0 DEF RemoveRoutes, At
  <2>2. job' # Nobody /\ job'.at = "handlers" /\ job'.plugin = job.plugin
    BY <2>1, GotoJob DEF At, Steps, StopSteps
  <2>3. /\ UNCHANGED <<handlers, put_handlers, plugin_routes>>
        /\ route_table' = route_table \ {job.plugin}
    BY <1>7 DEF RemoveRoutes
  <2> QED
    BY <2>1, <2>2, <2>3 DEF At, SharedInv, Dropping
<1>8. CASE RemoveHandlers
  <2>1. At("handlers") /\ Goto("filters") /\ job \in Job
    BY <1>8, <1>0 DEF RemoveHandlers, At
  <2>2. job' # Nobody /\ job'.at = "filters" /\ job'.plugin = job.plugin
    BY <2>1, GotoJob DEF At, Steps, StopSteps
  <2>3. UNCHANGED <<put_handlers, route_table, plugin_routes>>
    BY <1>8 DEF RemoveHandlers
  <2>4. \A x \in HandledPaths :
          handlers'[x] = IF handlers[x] = job.plugin THEN Nobody ELSE handlers[x]
    BY <1>8, <1>t DEF RemoveHandlers, Without
  <2> QED
    BY <1>0, <2>1, <2>2, <2>3, <2>4 DEF At, SharedInv, Dropping
<1>9. CASE RemoveFilters
  <2>1. At("filters") /\ Goto("providers") /\ job \in Job
    BY <1>9, <1>0 DEF RemoveFilters, At
  <2>2. job' # Nobody /\ job'.at = "providers" /\ job'.plugin = job.plugin
    BY <2>1, GotoJob DEF At, Steps, StopSteps
  <2>3. UNCHANGED <<handlers, put_handlers, route_table, plugin_routes>>
    BY <1>9 DEF RemoveFilters
  <2> QED
    BY <2>1, <2>2, <2>3 DEF At, SharedInv, Dropping
<1>10. CASE RemoveProviders
  <2>1. At("providers") /\ Goto("put_map") /\ job \in Job
    BY <1>10, <1>0 DEF RemoveProviders, At
  <2>2. job' # Nobody /\ job'.at = "put_map" /\ job'.plugin = job.plugin
    BY <2>1, GotoJob DEF At, Steps, StopSteps
  <2>3. UNCHANGED <<handlers, put_handlers, route_table, plugin_routes>>
    BY <1>10 DEF RemoveProviders
  <2> QED
    BY <2>1, <2>2, <2>3 DEF At, SharedInv, Dropping
<1>11. CASE RemoveFromPutMap
  <2>1. At("put_map") /\ Goto("route_map") /\ job \in Job
    BY <1>11, <1>0 DEF RemoveFromPutMap, At
  <2>2. job' # Nobody /\ job'.at = "route_map" /\ job'.plugin = job.plugin
    BY <2>1, GotoJob DEF At, Steps, StopSteps
  <2>3. UNCHANGED <<handlers, route_table, plugin_routes>>
    BY <1>11 DEF RemoveFromPutMap
  <2>4. \A x \in HandledPaths :
          put_handlers'[x] = IF put_handlers[x] = job.plugin THEN Nobody ELSE put_handlers[x]
    BY <1>11, <1>t DEF RemoveFromPutMap, Without
  <2> QED
    BY <1>0, <2>1, <2>2, <2>3, <2>4 DEF At, SharedInv, Dropping
<1>12. CASE StopEnd
  <2>1. At("route_map") /\ UNCHANGED <<handlers, put_handlers, route_table>> /\ job \in Job
    BY <1>12, <1>0 DEF StopEnd, At
  <2>2. plugin_routes' = plugin_routes \ {job.plugin}
    BY <1>12 DEF StopEnd
  <2> QED
    BY <2>1, <2>2 DEF At, SharedInv, Dropping
<1>13. CASE StartBegin
  <2>1. At("start") /\ UNCHANGED <<handlers, put_handlers, route_table, plugin_routes>>
    BY <1>13 DEF StartBegin, tables
  <2> QED
    BY <2>1 DEF At, SharedInv, Dropping
<1>14. CASE Subscribe
  <2>1. At("calls") /\ UNCHANGED <<handlers, put_handlers, route_table, plugin_routes>>
    BY <1>14 DEF Subscribe, NextCall
  <2> QED
    BY <2>1 DEF At, SharedInv, Dropping
<1>15. CASE RegisterPutHandler
  <2> DEFINE p == job.plugin
             path == PutPath[job.plugin]
  <2>1. At("calls") /\ UNCHANGED <<route_table, plugin_routes>> /\ job \in Job
    BY <1>15, <1>0 DEF RegisterPutHandler, NextCall, At
  <2>2. p \in Plugins /\ path \in HandledPaths
    BY <2>1, <1>0, PluginsAssumption
  <2>3. CASE NextCall("put")
    <3>1. ~NextCall("put_map")
      BY <2>3 DEF NextCall
    <3>2. UNCHANGED put_handlers /\ handlers' = [handlers EXCEPT ![path] = p]
      BY <1>15, <3>1 DEF RegisterPutHandler
    <3>3. HandlesPut(p, path)
      <4>1. Makes("put", job.calls)
        BY <2>3, NextCallMakes
      <4> QED
        BY <2>1, <4>1 DEF At, CallsInv
    <3> HIDE DEF p, path
    <3>4. handlers'[path] = p /\ \A x \in HandledPaths : x # path => handlers'[x] = handlers[x]
      BY <1>t, <2>2, <3>2
    <3>5. UNCHANGED put_handlers
      BY <3>2
    <3> QED
      BY <2>1, <2>2, <3>3, <3>4, <3>5 DEF At, SharedInv, Dropping
  <2>4. CASE NextCall("put_map")
    <3>1. ~NextCall("put")
      BY <2>4 DEF NextCall
    <3>2. UNCHANGED handlers /\ put_handlers' = [put_handlers EXCEPT ![path] = p]
      BY <1>15, <3>1 DEF RegisterPutHandler
    <3>3. PutDone(p)
      <4>1. Makes("put_map", job.calls)
        BY <2>4, NextCallMakes
      <4> QED
        BY <2>1, <4>1 DEF At, CallsInv, Makes
    <3>4. handlers[path] = p /\ HandlesPut(p, path)
      BY <3>3 DEF PutDone
    <3> HIDE DEF p, path
    <3>5. /\ put_handlers'[path] = p
          /\ \A x \in HandledPaths : x # path => put_handlers'[x] = put_handlers[x]
      BY <1>t, <2>2, <3>2
    <3>6. UNCHANGED handlers
      BY <3>2
    <3> QED
      BY <2>1, <2>2, <3>4, <3>5, <3>6 DEF At, SharedInv, Dropping
  <2> QED
    BY <1>15, <2>3, <2>4 DEF RegisterPutHandler
<1>16. CASE RegisterRoutes
  <2>1. At("calls") /\ UNCHANGED <<handlers, put_handlers>> /\ job \in Job
    BY <1>16, <1>0 DEF RegisterRoutes, NextCall, At
  <2>2. CASE NextCall("routes")
    <3>1. ~NextCall("route_map")
      BY <2>2 DEF NextCall
    <3>2. UNCHANGED plugin_routes /\ route_table' = route_table \cup {job.plugin}
      BY <1>16, <3>1 DEF RegisterRoutes
    <3> QED
      BY <2>1, <3>2 DEF At, SharedInv, Dropping
  <2>3. CASE NextCall("route_map")
    <3>1. ~NextCall("routes")
      BY <2>3 DEF NextCall
    <3>2. UNCHANGED route_table /\ plugin_routes' = plugin_routes \cup {job.plugin}
      BY <1>16, <3>1 DEF RegisterRoutes
    <3>3. Makes("route_map", job.calls)
      BY <2>3, NextCallMakes
    <3>4. job.plugin \in route_table
      BY <2>1, <3>3 DEF At, CallsInv, Makes
    <3> QED
      BY <2>1, <3>2, <3>4 DEF At, SharedInv, Dropping
  <2> QED
    BY <1>16, <2>2, <2>3 DEF RegisterRoutes
<1>17. CASE RegisterDeltaInputHandler
  <2>1. At("calls") /\ UNCHANGED <<handlers, put_handlers, route_table, plugin_routes>>
    BY <1>17 DEF RegisterDeltaInputHandler, NextCall
  <2> QED
    BY <2>1 DEF At, SharedInv, Dropping
<1>18. CASE RegisterResourceProvider
  <2>1. At("calls") /\ UNCHANGED <<handlers, put_handlers, route_table, plugin_routes>>
    BY <1>18 DEF RegisterResourceProvider, NextCall
  <2> QED
    BY <2>1 DEF At, SharedInv, Dropping
<1>19. CASE RegisterAutopilotProvider
  <2>1. At("calls") /\ UNCHANGED <<handlers, put_handlers, route_table, plugin_routes>>
    BY <1>19 DEF RegisterAutopilotProvider, NextCall
  <2> QED
    BY <2>1 DEF At, SharedInv, Dropping
<1>20. CASE StartSucceeds
  <2>1. At("calls") /\ UNCHANGED <<handlers, put_handlers, route_table, plugin_routes>>
    BY <1>20 DEF StartSucceeds, tables
  <2> QED
    BY <2>1 DEF At, SharedInv, Dropping
<1>21. CASE StartFails
  <2>1. At("calls") /\ UNCHANGED <<handlers, put_handlers, route_table, plugin_routes>>
    BY <1>21 DEF StartFails, tables
  <2> QED
    BY <2>1 DEF At, SharedInv, Dropping
<1>22. CASE Sync
  <2>1. At("sync") /\ UNCHANGED <<handlers, put_handlers, route_table, plugin_routes>>
    BY <1>22 DEF Sync, tables
  <2> QED
    BY <2>1 DEF At, SharedInv, Dropping
<1>23. CASE \E x \in HandledPaths, b \in BridgePlugins : BridgeHandler(x, b)
  <2>1. UNCHANGED <<job, handlers, route_table, plugin_routes>>
    BY <1>23 DEF BridgeHandler
  <2>2. \A x \in HandledPaths : put_handlers'[x] \in Plugins => put_handlers'[x] = put_handlers[x]
    BY <1>23, <1>0, <1>t DEF BridgeHandler
  <2> QED
    BY <2>1, <2>2 DEF SharedInv, Dropping
<1>24. CASE \E b \in BridgePlugins : BridgeRoutes(b)
  <2>1. UNCHANGED <<job, handlers, put_handlers, route_table>>
    BY <1>24 DEF BridgeRoutes
  <2>2. plugin_routes' \cap Plugins \subseteq plugin_routes
    BY <1>24, <1>0 DEF BridgeRoutes
  <2> QED
    BY <2>1, <2>2 DEF SharedInv, Dropping
<1>25. CASE \E b \in BridgePlugins : BridgeReport(b)
  <2>1. UNCHANGED <<job, handlers, put_handlers, plugin_routes, route_table>>
    BY <1>25 DEF BridgeReport, entries, tables, admin
  <2> QED
    BY <2>1 DEF SharedInv, Dropping
<1>26. CASE \E b \in BridgePlugins, s \in {"running", "stopped"} : BridgeLifecycle(b, s)
  <2>1. UNCHANGED <<job, handlers, put_handlers, plugin_routes, route_table>>
    BY <1>26 DEF BridgeLifecycle, entries, tables, admin
  <2> QED
    BY <2>1 DEF SharedInv, Dropping
<1>27. CASE \E p \in Plugins \cup {Nobody} : SetDefaultProvider(p)
  <2>1. UNCHANGED <<job, handlers, put_handlers, plugin_routes, route_table>>
    BY <1>27 DEF SetDefaultProvider, entries, tables, admin
  <2> QED
    BY <2>1 DEF SharedInv, Dropping
<1> QED
  BY <1>1, <1>2, <1>3, <1>4, <1>5, <1>6, <1>7, <1>8, <1>9, <1>10, <1>11, <1>12, <1>13,
     <1>14, <1>15, <1>16, <1>17, <1>18, <1>19, <1>20, <1>21, <1>22, <1>23, <1>24, <1>25,
     <1>26, <1>27 DEF Next

(* The registry is behind only until the request is through.               *)
LEMMA ShownStep ==
  ASSUME TypeOK, ShownInv, Next
  PROVE  ShownInv'
<1>0. /\ job \in Job => job # Nobody /\ job.plugin \in Plugins
      /\ job # Nobody => job \in Job
      /\ Nobody \notin Plugins \cup BridgePlugins \cup Nat
      /\ Plugins \cap BridgePlugins = {}
  BY PluginsAssumption DEF TypeOK, Job
<1>t. /\ status \in [Plugins -> Statuses]
      /\ registry \in [Plugins \cup BridgePlugins -> Statuses \cup {Nobody}]
  BY DEF TypeOK
<1>1. CASE \E p \in Plugins : StartNext(p)
  <2>1. /\ job = Nobody /\ ~up /\ UNCHANGED up
        /\ booting # {}
    BY <1>1 DEF StartNext, ShownInv
  <2> QED
    BY <2>1 DEF ShownInv
<1>2. CASE Populate
  <2>1. job = Nobody /\ UNCHANGED <<job, status, booting>> /\ booting = {}
    BY <1>2 DEF Populate, entries
  <2>2. \A p \in Plugins : registry'[p] = status[p]
    BY <1>2 DEF Populate, Synced
  <2> QED
    BY <2>1, <2>2 DEF ShownInv
<1>3. CASE \E c \in Clients, kind \in Kinds, p \in Plugins : Request(c, kind, p)
  <2>1. UNCHANGED <<job, up, booting, status, registry>>
    BY <1>3 DEF Request, entries, tables, admin
  <2> QED
    BY <2>1 DEF ShownInv, Dropping
<1>4. CASE \E c \in Clients : Lock(c)
  <2>1. job = Nobody /\ Fresh(job') /\ job'.kind \in Kinds
    BY <1>4, LockJob DEF Lock
  <2>2. UNCHANGED <<up, booting, status, registry>>
    BY <1>4 DEF Lock, entries
  <2> QED
    BY <2>1, <2>2 DEF ShownInv, Dropping, Kinds
<1>5. CASE StopBegin
  <2>1. At("stop") /\ job \in Job /\ UNCHANGED <<up, booting, registry>>
    BY <1>5, <1>0 DEF StopBegin, At, admin
  <2>2. \A p \in Plugins : status'[p] = "running" => status[p] = "running"
    BY <1>5, <1>t DEF StopBegin
  <2>3. job' = Nobody \/ job'.kind = job.kind
    BY <1>5, <2>1, AfterJob, GotoJob DEF StopBegin, At, Steps, StopSteps
  <2> QED
    BY <2>1, <2>2, <2>3 DEF At, ShownInv, Dropping
<1>6. CASE Cleanup
  <2>1. At("cleanup") /\ Goto("routes") /\ job \in Job
    BY <1>6, <1>0 DEF Cleanup, At
  <2>2. job' # Nobody /\ job'.at = "routes" /\ job'.kind = job.kind
    BY <2>1, GotoJob DEF At, Steps, StopSteps
  <2>3. UNCHANGED <<up, booting, status, registry>>
    BY <1>6 DEF Cleanup, entries, admin
  <2> QED
    BY <2>1, <2>2, <2>3 DEF At, ShownInv, Dropping
<1>7. CASE RemoveRoutes
  <2>1. At("routes") /\ Goto("handlers") /\ job \in Job
    BY <1>7, <1>0 DEF RemoveRoutes, At
  <2>2. job' # Nobody /\ job'.at = "handlers" /\ job'.kind = job.kind
    BY <2>1, GotoJob DEF At, Steps, StopSteps
  <2>3. UNCHANGED <<up, booting, status, registry>>
    BY <1>7 DEF RemoveRoutes, entries, admin
  <2> QED
    BY <2>1, <2>2, <2>3 DEF At, ShownInv, Dropping
<1>8. CASE RemoveHandlers
  <2>1. At("handlers") /\ Goto("filters") /\ job \in Job
    BY <1>8, <1>0 DEF RemoveHandlers, At
  <2>2. job' # Nobody /\ job'.at = "filters" /\ job'.kind = job.kind
    BY <2>1, GotoJob DEF At, Steps, StopSteps
  <2>3. UNCHANGED <<up, booting, status, registry>>
    BY <1>8 DEF RemoveHandlers, entries, admin
  <2> QED
    BY <2>1, <2>2, <2>3 DEF At, ShownInv, Dropping
<1>9. CASE RemoveFilters
  <2>1. At("filters") /\ Goto("providers") /\ job \in Job
    BY <1>9, <1>0 DEF RemoveFilters, At
  <2>2. job' # Nobody /\ job'.at = "providers" /\ job'.kind = job.kind
    BY <2>1, GotoJob DEF At, Steps, StopSteps
  <2>3. UNCHANGED <<up, booting, status, registry>>
    BY <1>9 DEF RemoveFilters, entries, admin
  <2> QED
    BY <2>1, <2>2, <2>3 DEF At, ShownInv, Dropping
<1>10. CASE RemoveProviders
  <2>1. At("providers") /\ Goto("put_map") /\ job \in Job
    BY <1>10, <1>0 DEF RemoveProviders, At
  <2>2. job' # Nobody /\ job'.at = "put_map" /\ job'.kind = job.kind
    BY <2>1, GotoJob DEF At, Steps, StopSteps
  <2>3. UNCHANGED <<up, booting, status, registry>>
    BY <1>10 DEF RemoveProviders, entries, admin
  <2> QED
    BY <2>1, <2>2, <2>3 DEF At, ShownInv, Dropping
<1>11. CASE RemoveFromPutMap
  <2>1. At("put_map") /\ Goto("route_map") /\ job \in Job
    BY <1>11, <1>0 DEF RemoveFromPutMap, At
  <2>2. job' # Nobody /\ job'.at = "route_map" /\ job'.kind = job.kind
    BY <2>1, GotoJob DEF At, Steps, StopSteps
  <2>3. UNCHANGED <<up, booting, status, registry>>
    BY <1>11 DEF RemoveFromPutMap, entries, admin
  <2> QED
    BY <2>1, <2>2, <2>3 DEF At, ShownInv, Dropping
<1>12. CASE StopEnd
  <2>1. At("route_map") /\ job \in Job /\ UNCHANGED <<up, booting, registry>>
    BY <1>12, <1>0 DEF StopEnd, At, admin
  <2>2. \A p \in Plugins : status'[p] = "running" => status[p] = "running"
    BY <1>12, <1>t DEF StopEnd
  <2>3. job' = Nobody \/ job'.kind = job.kind
    BY <1>12, <2>1, AfterJob DEF StopEnd, At
  <2> QED
    BY <2>1, <2>2, <2>3 DEF At, ShownInv, Dropping
<1>13. CASE StartBegin
  <2>1. At("start") /\ job \in Job /\ UNCHANGED <<up, booting, registry>>
    BY <1>13, <1>0 DEF StartBegin, At, admin
  <2>2. \A p \in Plugins : status'[p] = "running" => status[p] = "running"
    BY <1>13, <1>t DEF StartBegin, entries
  <2>3. job' = Nobody \/ job'.kind = job.kind
    BY <1>13, <2>1, AfterJob, StartBeginJob DEF StartBegin, At
  <2> QED
    BY <2>1, <2>2, <2>3 DEF At, ShownInv, Dropping
<1>14. CASE Subscribe
  <2>1. /\ At("calls") /\ UNCHANGED <<up, booting, status, registry>> /\ job'.kind = job.kind
    BY <1>14, CallsLeft DEF Subscribe, NextCall, entries, admin
  <2> QED
    BY <2>1 DEF At, ShownInv, Dropping
<1>15. CASE RegisterPutHandler
  <2>1. /\ At("calls") /\ UNCHANGED <<up, booting, status, registry>> /\ job'.kind = job.kind
    BY <1>15, CallsLeft DEF RegisterPutHandler, NextCall, entries, admin
  <2> QED
    BY <2>1 DEF At, ShownInv, Dropping
<1>16. CASE RegisterRoutes
  <2>1. /\ At("calls") /\ UNCHANGED <<up, booting, status, registry>> /\ job'.kind = job.kind
    BY <1>16, CallsLeft DEF RegisterRoutes, NextCall, entries, admin
  <2> QED
    BY <2>1 DEF At, ShownInv, Dropping
<1>17. CASE RegisterDeltaInputHandler
  <2>1. /\ At("calls") /\ UNCHANGED <<up, booting, status, registry>> /\ job'.kind = job.kind
    BY <1>17, CallsLeft DEF RegisterDeltaInputHandler, NextCall, entries, admin
  <2> QED
    BY <2>1 DEF At, ShownInv, Dropping
<1>18. CASE RegisterResourceProvider
  <2>1. /\ At("calls") /\ UNCHANGED <<up, booting, status, registry>> /\ job'.kind = job.kind
    BY <1>18, CallsLeft DEF RegisterResourceProvider, NextCall, entries, admin
  <2> QED
    BY <2>1 DEF At, ShownInv, Dropping
<1>19. CASE RegisterAutopilotProvider
  <2>1. /\ At("calls") /\ UNCHANGED <<up, booting, status, registry>> /\ job'.kind = job.kind
    BY <1>19, CallsLeft DEF RegisterAutopilotProvider, NextCall, entries, admin
  <2> QED
    BY <2>1 DEF At, ShownInv, Dropping
<1>20. CASE StartSucceeds
  <2>1. At("calls") /\ job \in Job /\ job.plugin \in Plugins /\ UNCHANGED <<up, booting, registry>>
    BY <1>20, <1>0 DEF StartSucceeds, At, admin
  <2>2. \A p \in Plugins : p # job.plugin => status'[p] = status[p]
    BY <1>20, <1>t DEF StartSucceeds
  <2>3. CASE job.kind = "boot"
    <3>1. ~up /\ job' = Nobody
      BY <1>20, <2>1, <2>3 DEF StartSucceeds, At, AfterStart, ShownInv
    <3> QED
      BY <2>1, <3>1 DEF ShownInv
  <2>4. CASE job.kind # "boot"
    <3>1. Goto("sync")
      BY <1>20, <2>4 DEF StartSucceeds, AfterStart
    <3>2. /\ job' # Nobody /\ job'.at = "sync" /\ job'.plugin = job.plugin
          /\ job'.kind = job.kind
      BY <2>1, <3>1, GotoJob DEF At, Steps
    <3> QED
      BY <2>1, <2>2, <2>4, <3>2 DEF At, ShownInv, Dropping
  <2> QED
    BY <2>3, <2>4
<1>21. CASE StartFails
  <2>1. At("calls") /\ job \in Job /\ UNCHANGED <<up, booting, registry>>
    BY <1>21, <1>0 DEF StartFails, At, admin
  <2>2. \A p \in Plugins : status'[p] = "running" => status[p] = "running"
    BY <1>21, <1>t DEF StartFails
  <2>3. job' = Nobody \/ job'.kind = job.kind
    BY <1>21, <2>1, AfterJob DEF StartFails, At
  <2> QED
    BY <2>1, <2>2, <2>3 DEF At, ShownInv, Dropping
<1>22. CASE Sync
  <2>1. job' = Nobody /\ UNCHANGED <<up, booting, status>>
    BY <1>22 DEF Sync, entries
  <2>2. \A p \in Plugins : registry'[p] = status[p]
    BY <1>22 DEF Sync, Synced
  <2> QED
    BY <2>1, <2>2 DEF ShownInv
<1>23. CASE \E x \in HandledPaths, b \in BridgePlugins : BridgeHandler(x, b)
  <2>1. UNCHANGED <<job, up, booting, status, registry>>
    BY <1>23 DEF BridgeHandler, entries, tables, admin
  <2> QED
    BY <2>1 DEF ShownInv, Dropping
<1>24. CASE \E b \in BridgePlugins : BridgeRoutes(b)
  <2>1. UNCHANGED <<job, up, booting, status, registry>>
    BY <1>24 DEF BridgeRoutes, entries, tables, admin
  <2> QED
    BY <2>1 DEF ShownInv, Dropping
<1>25. CASE \E b \in BridgePlugins : BridgeReport(b)
  <2>1. UNCHANGED <<job, up, booting, status>>
    BY <1>25 DEF BridgeReport, entries
  <2>2. \A p \in Plugins : registry'[p] = registry[p]
    BY <1>25, <1>0, <1>t DEF BridgeReport
  <2> QED
    BY <2>1, <2>2 DEF ShownInv, Dropping
<1>26. CASE \E b \in BridgePlugins, s \in {"running", "stopped"} : BridgeLifecycle(b, s)
  <2>1. UNCHANGED <<job, up, booting, status>>
    BY <1>26 DEF BridgeLifecycle, entries
  <2>2. \A p \in Plugins : registry'[p] = registry[p]
    BY <1>26, <1>0, <1>t DEF BridgeLifecycle
  <2> QED
    BY <2>1, <2>2 DEF ShownInv, Dropping
<1>27. CASE \E p \in Plugins \cup {Nobody} : SetDefaultProvider(p)
  <2>1. UNCHANGED <<job, up, booting, status, registry>>
    BY <1>27 DEF SetDefaultProvider, entries, tables, admin
  <2> QED
    BY <2>1 DEF ShownInv, Dropping
<1> QED
  BY <1>1, <1>2, <1>3, <1>4, <1>5, <1>6, <1>7, <1>8, <1>9, <1>10, <1>11, <1>12, <1>13,
     <1>14, <1>15, <1>16, <1>17, <1>18, <1>19, <1>20, <1>21, <1>22, <1>23, <1>24, <1>25,
     <1>26, <1>27 DEF Next

-----------------------------------------------------------------------------
LEMMA HostInit ==
  ASSUME Init
  PROVE  HostInv
<1>0. Nobody \notin Plugins \cup BridgePlugins /\ MaxRequests \in Nat
  BY PluginsAssumption
<1>1. TypeOK
  <2>1. /\ status \in [Plugins -> Statuses] /\ loaded \in [Plugins -> BOOLEAN]
        /\ contexts \in Nat /\ context \in [Plugins -> Nat \cup {Nobody}]
        /\ job \in Job \cup {Nobody} /\ up \in BOOLEAN
    BY DEF Init, Statuses
  <2>5. enabled \in [Plugins -> {TRUE, FALSE, Nobody}] /\ booting \in SUBSET Plugins
    BY DEF Init
  <2>6. requests = 0 /\ filters \in [Plugins -> Nat]
    BY DEF Init
  <2>2. requests \in 0..MaxRequests
    BY <1>0, <2>6
  <2>3. /\ registry \in [Plugins \cup BridgePlugins -> Statuses \cup {Nobody}]
        /\ waiting \in [Clients -> [kind : Kinds, plugin : Plugins] \cup {Nobody}]
        /\ handlers \in [HandledPaths -> Plugins \cup {Nobody}]
        /\ put_handlers \in [HandledPaths -> Plugins \cup BridgePlugins \cup {Nobody}]
    BY DEF Init
  <2>4. /\ subs \in SUBSET (Plugins \X Nat) /\ route_table \in SUBSET Plugins
        /\ plugin_routes \in SUBSET (Plugins \cup BridgePlugins)
        /\ providers \in SUBSET Plugins /\ pilots \in SUBSET Plugins
        /\ default_create \in Plugins \cup {Nobody}
    BY DEF Init
  <2> QED
    BY <2>1, <2>2, <2>3, <2>4, <2>5, <2>6 DEF TypeOK
<1>2. PhaseInv /\ CallsInv /\ ShownInv
  BY <1>0 DEF Init, PhaseInv, CallsInv, ShownInv
<1>3. CleanInv
  BY <1>0 DEF Init, CleanInv, StoppedLeavesNothing, Filtering
<1>4. GenInv
  BY DEF Init, GenInv, OneGeneration, NoSubs
<1>5. SharedInv
  BY <1>0 DEF Init, SharedInv
<1> QED
  BY <1>1, <1>2, <1>3, <1>4, <1>5 DEF HostInv

LEMMA HostStep ==
  ASSUME HostInv, [Next]_vars
  PROVE  HostInv'
<1>1. CASE Next
  BY <1>1, TypeStep, PhaseStep, CleanStep, CallsStep, GenStep, SharedStep, ShownStep
     DEF HostInv
<1>2. CASE UNCHANGED vars
  <2>1. TypeOK'
    BY <1>2 DEF HostInv, TypeOK, vars, entries, tables, admin
  <2>2. PhaseInv' /\ ShownInv'
    BY <1>2 DEF HostInv, PhaseInv, ShownInv, Dropping, vars, entries, tables, admin
  <2>3. CleanInv'
    BY <1>2 DEF HostInv, CleanInv, StoppedLeavesNothing, NoHandler, NoPutMap, NoProvider,
                Filtering, vars, entries, tables, admin
  <2>4. CallsInv'
    BY <1>2 DEF HostInv, CallsInv, PutDone, Filtering, vars, entries, tables, admin
  <2>5. GenInv'
    BY <1>2 DEF HostInv, GenInv, OneGeneration, NoSubs, vars, entries, tables, admin
  <2>6. SharedInv'
    BY <1>2 DEF HostInv, SharedInv, Dropping, vars, entries, tables, admin
  <2> QED
    BY <2>1, <2>2, <2>3, <2>4, <2>5, <2>6 DEF HostInv
<1> QED
  BY <1>1, <1>2

LEMMA HostAlways == Spec => []HostInv
BY HostInit, HostStep, PTL DEF Spec

(* Whatever a plugin registered, and however often it was started, stopped *)
(* or failed to start: once it is stopped, no table names it               *)
(* (PluginManager::stop_plugin).                                           *)
THEOREM StoppedIsOut == Spec => []StoppedLeavesNothing
<1>1. HostInv => StoppedLeavesNothing
  BY DEF HostInv, CleanInv
<1> QED
  BY <1>1, HostAlways, PTL

(* No restart, reconfiguration or failed start leaves a filter twice in    *)
(* the chain or a subscription task of an earlier context beside a plugin  *)
(* that may run again (start_plugin, cleanup_plugin).                      *)
THEOREM NeverTwoGenerations == Spec => []OneGeneration
<1>1. HostInv => OneGeneration
  BY DEF HostInv, GenInv
<1> QED
  BY <1>1, HostAlways, PTL

(* Between two lifecycle requests the maps shared with the bridge name a   *)
(* Rust plugin only where it has a handler or routes of its own, and the   *)
(* registry shows every running plugin as running.                         *)
THEOREM TablesAlwaysAgree == Spec => []TablesAgree
<1>1. HostInv => TypeOK
  BY DEF HostInv
<1>2. HostInv => SharedMapsAgree
  BY DEF HostInv, SharedInv, Dropping, SharedMapsAgree
<1>3. HostInv => RunningIsShown
  BY DEF HostInv, ShownInv, Dropping, RunningIsShown
<1> QED
  BY <1>1, <1>2, <1>3, HostAlways, PTL DEF TablesAgree

(* Stopping a Rust plugin takes its own name out of the shared map, never  *)
(* a bridge plugin's (PluginManager::stop_plugin, step 5).                 *)
THEOREM BridgeKeepsItsHandlers == Spec => BridgeHandlersKept
<1> DEFINE Kept == \A x \in HandledPaths :
                     put_handlers[x] \in BridgePlugins => put_handlers'[x] # Nobody
<1>1. HostInv /\ [Next]_vars => Kept
  <2> SUFFICES ASSUME HostInv, [Next]_vars, NEW x \in HandledPaths,
                      put_handlers[x] \in BridgePlugins
               PROVE  put_handlers'[x] # Nobody
    OBVIOUS
  <2>0. /\ Nobody \notin Plugins \cup BridgePlugins /\ Plugins \cap BridgePlugins = {}
        /\ put_handlers \in [HandledPaths -> Plugins \cup BridgePlugins \cup {Nobody}]
        /\ job # Nobody => job.plugin \in Plugins
    BY PluginsAssumption DEF HostInv, TypeOK, Job
  <2>1. CASE UNCHANGED put_handlers
    BY <2>0, <2>1
  <2>2. CASE RemoveFromPutMap
    BY <2>0, <2>2 DEF RemoveFromPutMap, At, Without
  <2>3. CASE RegisterPutHandler
    <3>1. job # Nobody
      BY <2>3 DEF RegisterPutHandler, NextCall, At
    <3> QED
      BY <2>0, <2>3, <3>1 DEF RegisterPutHandler
  <2>4. CASE \E y \in HandledPaths, b \in BridgePlugins : BridgeHandler(y, b)
    BY <2>0, <2>4 DEF BridgeHandler
  <2>5. CASE \/ \E p \in Plugins : StartNext(p)
             \/ Populate
             \/ \E c \in Clients, kind \in Kinds, p \in Plugins : Request(c, kind, p)
             \/ \E c \in Clients : Lock(c)
    <3>1. UNCHANGED put_handlers
      BY <2>5 DEF StartNext, Populate, Request, Lock, tables
    <3> QED
      BY <2>1, <3>1
  <2>6. CASE \/ StopBegin \/ Cleanup \/ RemoveRoutes \/ RemoveHandlers \/ RemoveFilters
             \/ RemoveProviders \/ StopEnd \/ StartBegin
    <3>1. UNCHANGED put_handlers
      BY <2>6 DEF StopBegin, Cleanup, RemoveRoutes, RemoveHandlers, RemoveFilters,
                  RemoveProviders, StopEnd, StartBegin, tables
    <3> QED
      BY <2>1, <3>1
  <2>7. CASE \/ Subscribe \/ RegisterRoutes \/ RegisterDeltaInputHandler
             \/ RegisterResourceProvider \/ RegisterAutopilotProvider
             \/ StartSucceeds \/ StartFails \/ Sync
    <3>1. UNCHANGED put_handlers
      BY <2>7 DEF Subscribe, RegisterRoutes, RegisterDeltaInputHandler,
                  RegisterResourceProvider, RegisterAutopilotProvider, StartSucceeds,
                  StartFails, Sync, tables
    <3> QED
      BY <2>1, <3>1
  <2>8. CASE \/ \E b \in BridgePlugins : BridgeRoutes(b)
             \/ \E b \in BridgePlugins : BridgeReport(b)
             \/ \E b \in BridgePlugins, s \in {"running", "stopped"} : BridgeLifecycle(b, s)
             \/ \E p \in Plugins \cup {Nobody} : SetDefaultProvider(p)
    <3>1. UNCHANGED put_handlers
      BY <2>8 DEF BridgeRoutes, BridgeReport, BridgeLifecycle, SetDefaultProvider, tables
    <3> QED
      BY <2>1, <3>1
  <2>9. CASE UNCHANGED vars
    BY <2>1, <2>9 DEF vars, tables
  <2> QED
    BY <2>2, <2>3, <2>4, <2>5, <2>6, <2>7, <2>8, <2>9 DEF Next
<1>2. Spec => [][HostInv /\ [Next]_vars]_vars
  BY HostAlways, PTL DEF Spec
<1> QED
  BY <1>1, HostAlways, PTL DEF Spec, BridgeHandlersKept
=============================================================================
