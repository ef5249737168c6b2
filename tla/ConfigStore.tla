---------------------------- MODULE ConfigStore -----------------------------
(***************************************************************************)
(* The configuration store, crates/signalk-server/src/config_store.rs, the *)
(* two PUT handlers that write it (api/server_routes.rs) and the start of  *)
(* the server that reads it back (main.rs).                                *)
(*                                                                         *)
(* A value lives in the table config, in the cache and, for priorities and *)
(* vessel data, in the live store, under three locks that are never held   *)
(* together.  Priorities and vessel data are written table first, plugin   *)
(* entries cache first.  Rows are written one statement at a time without  *)
(* a transaction, so a crash may fall between any two.                     *)
(***************************************************************************)
EXTENDS FiniteSets, Integers

CONSTANTS
  Keys,             \* keys of a section: source labels, or name and mmsi
  Vals,
  Puts,             \* the maps clients send: functions of subsets of Keys
  SeedMap,          \* the section in the TOML file
  Configs,          \* options of the plugin
  FirstEntry,       \* the plugin's entry in the TOML file
  Absent,           \* no row
  Slots,            \* requests in flight
  MaxRequests,      \* bound on requests
  MaxConfigCrashes  \* bound on restarts

Sections == {"priorities", "vessel"}
Entries  == [enabled : BOOLEAN, config : Configs]
Rows     == [Keys -> Vals \cup {Absent}]

ASSUME ConfigAssumption ==
  /\ Puts \subseteq Rows /\ SeedMap \in Rows
  /\ Absent \notin Vals \cup Entries \cup Slots
  /\ FirstEntry \in Entries
  /\ {MaxRequests, MaxConfigCrashes} \subseteq Nat

VARIABLES
  table,            \* rows of the sections
  table_entry,      \* row of the plugin
  cache, cache_entry,
  live,             \* SignalKStore: source_priorities, vessel identity
  db_lock,          \* the request that holds the connection, or Absent
  to_seed,          \* rows the first start has still to write
  up,               \* the caches are loaded, requests are served
  request,          \* the requests in flight
  requests, crashes,
  agreed,           \* section: its last request was alone (history)
  past              \* entries that were current so far (history)

configVars == <<table, table_entry, cache, cache_entry, live, db_lock, to_seed,
                up, request, requests, crashes, agreed, past>>
tableVars == <<table, table_entry>>
cacheVars == <<cache, cache_entry, past>>

Empty == [k \in Keys |-> Absent]
Free  == [op |-> "free"]
InFlight == {s \in Slots : request[s] # Free}
SeedRows == (Sections \X {k \in Keys : SeedMap[k] # Absent}) \cup {<<"plugins", Absent>>}

ConfigInit ==
  /\ table = [sec \in Sections |-> Empty] /\ table_entry = Absent
  /\ cache = [sec \in Sections |-> Empty] /\ cache_entry = FirstEntry
  /\ live = [sec \in Sections |-> Empty]
  /\ db_lock = Absent
  /\ to_seed = SeedRows
  /\ up = FALSE
  /\ request = [s \in Slots |-> Free]
  /\ requests = 0 /\ crashes = 0
  /\ agreed = [sec \in Sections |-> TRUE]
  /\ past = {FirstEntry}

-----------------------------------------------------------------------------
(* seed_from_config, while the table is empty: one upsert per row.         *)
SeedRow(row) ==
  /\ ~up /\ row \in to_seed
  /\ to_seed' = to_seed \ {row}
  /\ IF row[1] = "plugins"
     THEN table_entry' = FirstEntry /\ UNCHANGED table
     ELSE table' = [table EXCEPT ![row[1]][row[2]] = SeedMap[row[2]]] /\ UNCHANGED table_entry
  /\ UNCHANGED <<cacheVars, live, db_lock, up, request, requests, crashes, agreed>>

(* load_cache, then main hands priorities and vessel to the live store.  A *)
(* plugin without a row is configured by nobody: the entry it would get is *)
(* the one of the TOML file.                                               *)
Load ==
  /\ ~up /\ to_seed = {}
  /\ up' = TRUE
  /\ cache' = table /\ live' = table
  /\ cache_entry' = IF table_entry = Absent THEN FirstEntry ELSE table_entry
  /\ agreed' = [sec \in Sections |-> TRUE]
  /\ UNCHANGED <<tableVars, past, db_lock, to_seed, request, requests, crashes>>

(* A request arrives; alone says that no other one of its kind overlaps.   *)
Arrive(s, r) ==
  LET mates == {x \in InFlight : request[x].sec = r.sec}
  IN  /\ up /\ request[s] = Free /\ requests < MaxRequests
      /\ requests' = requests + 1
      /\ request' = [x \in Slots |->
           IF x = s THEN [r EXCEPT !.alone = (mates = {})]
           ELSE IF x \in mates THEN [request[x] EXCEPT !.alone = FALSE]
           ELSE request[x]]
      /\ UNCHANGED <<tableVars, cacheVars, live, db_lock, to_seed, up, crashes, agreed>>

(* PUT sourcePriorities, PUT vessel.                                       *)
Put(s, sec, rows) ==
  Arrive(s, [op |-> "put", sec |-> sec, rows |-> rows, at |-> "lock",
             left |-> Keys, alone |-> TRUE])

Same == UNCHANGED <<to_seed, up, requests, crashes>>
AtStep(s, at) == s \in InFlight /\ request[s].at = at

(* set_source_priorities clears the section first; set_vessel does not.    *)
LockConnection(s) ==
  LET sec == request[s].sec
  IN  /\ AtStep(s, "lock") /\ db_lock = Absent
      /\ db_lock' = s
      /\ table' = IF sec = "priorities" THEN [table EXCEPT ![sec] = Empty] ELSE table
      /\ request' = [request EXCEPT ![s].at = "rows",
                       ![s].left = IF sec = "priorities"
                                   THEN {k \in Keys : request[s].rows[k] # Absent} ELSE Keys]
      /\ UNCHANGED <<table_entry, cacheVars, live, agreed>> /\ Same

(* One upsert, or the deletion of a vessel row without a value.            *)
WriteRow(s, k) ==
  /\ AtStep(s, "rows") /\ k \in request[s].left
  /\ table' = [table EXCEPT ![request[s].sec][k] = request[s].rows[k]]
  /\ request' = [request EXCEPT ![s].left = @ \ {k}]
  /\ UNCHANGED <<table_entry, cacheVars, live, db_lock, agreed>> /\ Same

Unlock(s) ==
  /\ AtStep(s, "rows") /\ request[s].left = {}
  /\ db_lock' = Absent
  /\ request' = [request EXCEPT ![s].at = "cache"]
  /\ UNCHANGED <<tableVars, cacheVars, live, agreed>> /\ Same

UpdateCache_merges(s) ==
  /\ AtStep(s, "cache")
  /\ cache' = [cache EXCEPT ![request[s].sec] = [k \in Keys |->
       IF request[s].rows[k] = Absent THEN @[k] ELSE request[s].rows[k]]]
  /\ request' = [request EXCEPT ![s].at = "live"]
  /\ UNCHANGED <<tableVars, cache_entry, past, live, db_lock, agreed>> /\ Same

UpdateCache(s) ==
  /\ AtStep(s, "cache")
  /\ cache' = [cache EXCEPT ![request[s].sec] = request[s].rows]
  /\ request' = [request EXCEPT ![s].at = "live"]
  /\ UNCHANGED <<tableVars, cache_entry, past, live, db_lock, agreed>> /\ Same

Finish(s) ==
  /\ request' = [request EXCEPT ![s] = Free]

(* The handler waits for the lock of the live store and answers.           *)
UpdateLive(s) ==
  LET sec == request[s].sec
  IN  /\ AtStep(s, "live")
      /\ live' = [live EXCEPT ![sec] = request[s].rows]
      /\ agreed' = [agreed EXCEPT ![sec] = request[s].alone]
      /\ Finish(s)
      /\ UNCHANGED <<tableVars, cacheVars, db_lock>> /\ Same

(* set_plugin_config and set_plugin_enabled change a field under the write *)
(* lock of the cache and keep the whole entry to write it out later.       *)
SetPlugin(s, field, value) ==
  Arrive(s, [op |-> "entry", sec |-> "plugins", field |-> field, value |-> value,
             at |-> "entry", alone |-> TRUE])

Changed_fresh(e, field, value) ==
  IF field = "config" THEN [enabled |-> TRUE, config |-> value]
  ELSE [e EXCEPT !.enabled = value]

Changed(e, field, value) ==
  IF field = "config" THEN [e EXCEPT !.config = value] ELSE [e EXCEPT !.enabled = value]

UpdateEntry(s) ==
  LET changed == Changed(cache_entry, request[s].field, request[s].value)
  IN  /\ AtStep(s, "entry")
      /\ cache_entry' = changed /\ past' = past \cup {changed}
      /\ request' = [request EXCEPT ![s].at = "row", ![s].value = changed]
      /\ UNCHANGED <<tableVars, cache, live, db_lock, agreed>> /\ Same

(* Two entries wait for the connection in any order.                       *)
WriteEntry(s) ==
  /\ AtStep(s, "row") /\ db_lock = Absent
  /\ table_entry' = request[s].value
  /\ Finish(s)
  /\ UNCHANGED <<table, cacheVars, live, db_lock, agreed>> /\ Same

(* The process dies; the rows that were written stay.  The next start      *)
(* seeds only if there are none.                                           *)
Crash ==
  /\ crashes < MaxConfigCrashes /\ crashes' = crashes + 1
  /\ up' = FALSE /\ db_lock' = Absent
  /\ request' = [s \in Slots |-> Free]
  /\ to_seed' = IF to_seed = SeedRows THEN SeedRows ELSE {}
  /\ UNCHANGED <<tableVars, cacheVars, live, requests, agreed>>

Serve(s) ==
  \/ \E sec \in Sections, rows \in Puts : Put(s, sec, rows)
  \/ \E c \in Configs : SetPlugin(s, "config", c)
  \/ \E b \in BOOLEAN : SetPlugin(s, "enabled", b)
  \/ LockConnection(s) \/ Unlock(s) \/ UpdateCache(s) \/ UpdateLive(s)
  \/ \E k \in Keys : WriteRow(s, k)
  \/ UpdateEntry(s) \/ WriteEntry(s)

ConfigNext ==
  \/ \E row \in SeedRows : SeedRow(row)
  \/ Load \/ Crash
  \/ \E s \in Slots : Serve(s)

ConfigSpec == ConfigInit /\ [][ConfigNext]_configVars

-----------------------------------------------------------------------------
(* Shapes; whoever holds the connection is writing rows, nobody else is.   *)
ConfigTypeOK ==
  /\ table \in [Sections -> Rows] /\ cache \in [Sections -> Rows]
  /\ live \in [Sections -> Rows]
  /\ table_entry \in Entries \cup {Absent} /\ cache_entry \in Entries
  /\ \A s \in Slots : (db_lock = s) = AtStep(s, "rows")
  /\ past \subseteq Entries

(* After a request that no other one of its kind overlapped, and after any *)
(* restart, the table, the cache and the live store hold the same          *)
(* priorities and vessel data.                                             *)
SettledAgree ==
  \A sec \in Sections :
    (up /\ agreed[sec] /\ ~(\E s \in InFlight : request[s].sec = sec))
      => table[sec] = cache[sec] /\ cache[sec] = live[sec]

(* A restart brings back only priorities of one map that was asked for,    *)
(* never a mixture of two, even when the server died while rows were       *)
(* written: the section is cleared first.                                  *)
RestoredWithinOnePut ==
  \E rows \in Puts \cup {SeedMap} :
    \A k \in Keys : table["priorities"][k] \in {rows[k], Absent}

(* What the configuration owes its readers: one map in table, cache and    *)
(* live store, and after a crash never a mixture of two.                   *)
ConfigCorrect == ConfigTypeOK /\ SettledAgree /\ RestoredWithinOnePut

(* The cache's entry of a plugin behaves as Settings says.                 *)
Promise == INSTANCE Settings WITH entry <- cache_entry
EntryIsRegister == Promise!SettingsSpec
=============================================================================
