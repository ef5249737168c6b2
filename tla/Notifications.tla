--------------------------- MODULE Notifications ---------------------------
(***************************************************************************)
(* Alarms: the NotificationManager in the delta filter chain               *)
(* (notifications/manager.rs, plugins/delta_filter.rs), the silence and    *)
(* acknowledge endpoints (api/v2/notifications.rs) and the ways a          *)
(* notification delta reaches the store.                                   *)
(*                                                                         *)
(* A delta is filtered (enrich_delta, under the manager's own lock) and    *)
(* THEN waits for the store's write lock, so the two tables change in two  *)
(* steps.  A source in SpawnedSources has every delta handled by a task of *)
(* its own (main.rs on_delta, the plugins that tokio::spawn their          *)
(* emission): its deltas may overtake each other.  Any other source awaits *)
(* handle_message and has one delta in flight.  A source in DirectSources  *)
(* writes to the store without passing the filter chain, as the course     *)
(* manager does.  The endpoints read the store, release the lock, mutate,  *)
(* write back past the filter, and then update the manager.                *)
(*                                                                         *)
(* The severities nominal, alert, warn and alarm behave alike and are one  *)
(* state here; messages are left out.                                      *)
(***************************************************************************)
EXTENDS Naturals, FiniteSets

CONSTANTS
  Paths,            \* notification paths
  Sources,          \* the producers of notification deltas
  SpawnedSources,
  DirectSources,
  PluginSources,    \* the producers whose source type is "Plugin"
  Prio,             \* Prio[s]: the source priority of a producer
  ApiClients,       \* concurrent API requests
  States,           \* subset of {"normal", "alarm", "emergency"}
  None,
  MaxEmits,         \* bound on notification deltas
  MaxCalls          \* bound on API calls

ApiSource == "signalk-rs"
ApiPrio == 100     \* the server's own source is never configured

Methods  == {"visual", "sound"}
Status   == [silenced : BOOLEAN, acknowledged : BOOLEAN,
             can_silence : BOOLEAN, can_acknowledge : BOOLEAN,
             can_clear : BOOLEAN]
Notification == [id : Nat \cup {None}, state : States,
                 method : SUBSET Methods, status : Status \cup {None}]
Entry    == [id : Nat, plugin_originated : BOOLEAN, silenced : BOOLEAN,
             acknowledged : BOOLEAN]
Stored   == [n : Notification, source : Sources \cup {ApiSource}]
Task     == [seq : Nat, path : Paths, source : Sources, n : Notification,
             stage : {"spawned", "filtered"}]
Call     == [kind : {"silence", "acknowledge"}, path : Paths,
             n : Notification, stage : {"read", "written"}]

ASSUME NotificationsAssumption ==
  /\ States \subseteq {"normal", "alarm", "emergency"}
  /\ SpawnedSources \subseteq Sources
  /\ DirectSources \subseteq Sources
  /\ ApiSource \notin Sources
  /\ Prio \in [Sources -> Nat]
  /\ None \notin Nat \cup Status \cup Entry \cup Stored \cup Call
  /\ MaxEmits \in Nat
  /\ MaxCalls \in Nat

VARIABLES
  entries,   \* the manager's map: path -> entry, or None
  store,     \* the active value of each notification path, or None
  tasks,     \* notification deltas on their way to the store
  calls,     \* the API request each client has in progress, or None
  emits,
  ncalls,
  nextId     \* uuids handed out so far

vars == <<entries, store, tasks, calls, emits, ncalls, nextId>>

-----------------------------------------------------------------------------
Cleared == [silenced |-> FALSE, acknowledged |-> FALSE, can_silence |-> FALSE,
            can_acknowledge |-> FALSE, can_clear |-> FALSE]

(* The capability flags of an active notification in state st.             *)
StatusOf(e, st) ==
  [silenced |-> e.silenced, acknowledged |-> e.acknowledged,
   can_silence |-> st # "emergency" /\ ~e.silenced,
   can_acknowledge |-> ~e.acknowledged,
   can_clear |-> ~e.plugin_originated]

(* entries.entry(path).or_insert_with(...)                                 *)
EntryFor(p, s) ==
  IF entries[p] # None THEN entries[p]
  ELSE [id |-> nextId, plugin_originated |-> s \in PluginSources,
        silenced |-> FALSE, acknowledged |-> FALSE]

(* The store's priority rule for the value of a source with priority pri.  *)
PrioOf(s) == IF s = ApiSource THEN ApiPrio ELSE Prio[s]
Accepts(p, s) == store[p] # None => PrioOf(s) <= PrioOf(store[p].source)

StoreWrite(p, n, s) ==
  store' = IF Accepts(p, s) THEN [store EXCEPT ![p] = [n |-> n, source |-> s]]
           ELSE store

-----------------------------------------------------------------------------
Init ==
  /\ entries = [p \in Paths |-> None]
  /\ store = [p \in Paths |-> None]
  /\ tasks = {}
  /\ calls = [c \in ApiClients |-> None]
  /\ emits = 0
  /\ ncalls = 0
  /\ nextId = 0

(* A producer raises a notification with picture and sound, or clears it.  *)
Raised(st) == [id |-> None, state |-> st,
               method |-> IF st = "normal" THEN {} ELSE Methods,
               status |-> None]

Emit(p, st, s) ==
  /\ emits < MaxEmits
  /\ s \notin SpawnedSources => \A t \in tasks : t.source # s
  /\ tasks' = tasks \cup {[seq |-> emits, path |-> p, source |-> s,
                           n |-> Raised(st),
                           stage |-> IF s \in DirectSources THEN "filtered"
                                     ELSE "spawned"]}
  /\ emits' = emits + 1
  /\ UNCHANGED <<entries, store, calls, ncalls, nextId>>

(* enrich_delta on a clear: the entry goes, its id stays on the message.   *)
FilterClear(t) ==
  /\ t.stage = "spawned"
  /\ t.n.state = "normal"
  /\ entries' = [entries EXCEPT ![t.path] = None]
  /\ tasks' = (tasks \ {t}) \cup
       {[t EXCEPT !.stage = "filtered",
                  !.n = [t.n EXCEPT !.status = Cleared,
                           !.id = IF entries[t.path] = None THEN @
                                  ELSE entries[t.path].id]]}
  /\ UNCHANGED <<store, calls, emits, ncalls, nextId>>

(* enrich_delta on an active notification: tracked under a new uuid on the *)
(* first raise, flags from the entry.                                      *)
FilterRaise(t) ==
  /\ t.stage = "spawned"
  /\ t.n.state # "normal"
  /\ LET e == EntryFor(t.path, t.source)
     IN  /\ entries' = [entries EXCEPT ![t.path] = e]
         /\ nextId' = IF entries[t.path] = None THEN nextId + 1 ELSE nextId
         /\ tasks' = (tasks \ {t}) \cup
              {[t EXCEPT !.stage = "filtered",
                         !.n = [t.n EXCEPT !.id = e.id,
                                  !.status = StatusOf(e, t.n.state)]]}
  /\ UNCHANGED <<store, calls, emits, ncalls>>

(* The task gets the store's write lock.                                   *)
Write(t) ==
  /\ t.stage = "filtered"
  /\ StoreWrite(t.path, t.n, t.source)
  /\ tasks' = tasks \ {t}
  /\ UNCHANGED <<entries, calls, emits, ncalls, nextId>>

-----------------------------------------------------------------------------
(* mutate_notification up to the write-back: the stored notification, with *)
(* the manager's id when it has none.                                      *)
ReadForUpdate(p) ==
  [store[p].n EXCEPT !.id = IF @ = None /\ entries[p] # None
                            THEN entries[p].id ELSE @]

StatusOrDefault(n) == IF n.status = None THEN Cleared ELSE n.status

Begin(c, kind, p, n) ==
  /\ calls[c] = None
  /\ ncalls < MaxCalls
  /\ ncalls' = ncalls + 1
  /\ calls' = [calls EXCEPT ![c] =
                 [kind |-> kind, path |-> p, n |-> n, stage |-> "read"]]
  /\ UNCHANGED <<entries, store, tasks, emits, nextId>>

(* Mutants: emergencies are silenced like everything else; acknowledging   *)
(* one hides it as well.                                                   *)
Silence_any(c, p) ==
  /\ store[p] # None
  /\ LET n == ReadForUpdate(p)
     IN  Begin(c, "silence", p,
               [n EXCEPT !.method = @ \ {"sound"},
                         !.status = [StatusOrDefault(n) EXCEPT
                                       !.silenced = TRUE,
                                       !.can_silence = FALSE]])

Acknowledge_all(c, p) ==
  /\ store[p] # None
  /\ LET n == ReadForUpdate(p)
     IN  Begin(c, "acknowledge", p,
               [n EXCEPT !.method = {},
                         !.status = [StatusOrDefault(n) EXCEPT
                                       !.acknowledged = TRUE,
                                       !.can_acknowledge = FALSE]])

(* POST .../silence: refused for an emergency, 404 without a notification. *)
Silence(c, p) ==
  /\ store[p] # None
  /\ store[p].n.state # "emergency"
  /\ LET n == ReadForUpdate(p)
     IN  Begin(c, "silence", p,
               [n EXCEPT !.method = @ \ {"sound"},
                         !.status = [StatusOrDefault(n) EXCEPT
                                       !.silenced = TRUE,
                                       !.can_silence = FALSE]])

(* POST .../acknowledge: an emergency stays visible.                       *)
Acknowledge(c, p) ==
  /\ store[p] # None
  /\ LET n == ReadForUpdate(p)
     IN  Begin(c, "acknowledge", p,
               [n EXCEPT !.method = IF n.state = "emergency" THEN @ \ {"sound"}
                                    ELSE @ \ {"sound", "visual"},
                         !.status = [StatusOrDefault(n) EXCEPT
                                       !.acknowledged = TRUE,
                                       !.can_acknowledge = FALSE]])

(* The write-back bypasses the filter chain; the answer is "ok" whether or *)
(* not the store's priorities let the value through.                       *)
WriteBack(c) ==
  /\ calls[c] # None
  /\ calls[c].stage = "read"
  /\ StoreWrite(calls[c].path, calls[c].n, ApiSource)
  /\ calls' = [calls EXCEPT ![c].stage = "written"]
  /\ UNCHANGED <<entries, tasks, emits, ncalls, nextId>>

(* NotificationManager::silence and ::acknowledge.                         *)
SyncManager(c) ==
  /\ calls[c] # None
  /\ calls[c].stage = "written"
  /\ LET p == calls[c].path
     IN  entries' = IF entries[p] = None THEN entries
                    ELSE [entries EXCEPT ![p] =
                            IF calls[c].kind = "silence"
                            THEN [@ EXCEPT !.silenced = TRUE]
                            ELSE [@ EXCEPT !.acknowledged = TRUE]]
  /\ calls' = [calls EXCEPT ![c] = None]
  /\ UNCHANGED <<store, tasks, emits, ncalls, nextId>>

Next ==
  \/ \E p \in Paths, st \in States, s \in Sources : Emit(p, st, s)
  \/ \E t \in tasks : FilterClear(t)
  \/ \E t \in tasks : FilterRaise(t)
  \/ \E t \in tasks : Write(t)
  \/ \E c \in ApiClients, p \in Paths : Silence(c, p)
  \/ \E c \in ApiClients, p \in Paths : Acknowledge(c, p)
  \/ \E c \in ApiClients : WriteBack(c)
  \/ \E c \in ApiClients : SyncManager(c)

Spec == Init /\ [][Next]_vars

-----------------------------------------------------------------------------
(* Shapes of the two tables, the deltas in flight and the requests.        *)
TypeOK ==
  /\ entries \in [Paths -> Entry \cup {None}]
  /\ store \in [Paths -> Stored \cup {None}]
  /\ tasks \subseteq Task
  /\ calls \in [ApiClients -> Call \cup {None}]
  /\ emits \in 0..MaxEmits
  /\ ncalls \in 0..MaxCalls
  /\ nextId \in Nat

Quiet == tasks = {} /\ \A c \in ApiClients : calls[c] = None

Active(p) == store[p] # None /\ store[p].n.state # "normal"

(* When nothing is in flight the manager and the store agree: exactly the  *)
(* active notifications are tracked, under the id the store shows and with *)
(* the same silenced and acknowledged flags.                               *)
ManagerMatchesStore ==
  Quiet => \A p \in Paths :
    /\ Active(p) <=> entries[p] # None
    /\ Active(p) =>
         /\ store[p].n.id = entries[p].id
         /\ store[p].n.status # None
         /\ store[p].n.status.silenced = entries[p].silenced
         /\ store[p].n.status.acknowledged = entries[p].acknowledged

(* Whatever races with it, acknowledging never hides an emergency.         *)
EmergencyStaysVisible ==
  \A p \in Paths :
    store[p] # None /\ store[p].n.state = "emergency"
      => "visual" \in store[p].n.method

(* Whatever races with it, silencing never mutes an emergency: one without *)
(* sound has been acknowledged.                                            *)
EmergencySounds ==
  \A p \in Paths :
    store[p] # None /\ store[p].n.state = "emergency"
      => \/ "sound" \in store[p].n.method
         \/ store[p].n.status # None /\ store[p].n.status.acknowledged

=============================================================================
