------------------------------- MODULE Store -------------------------------
(***************************************************************************)
(* The in-memory data store, crates/signalk-store/src/store.rs.            *)
(*                                                                         *)
(* The store sits behind one tokio RwLock.  apply_delta runs under the     *)
(* write lock and loops over the updates of a delta and over the values of *)
(* an update; every iteration reads the wall clock again, so the model     *)
(* gives each iteration a step of its own and lets the clock tick between  *)
(* them.  `writer' is the frame of the running apply_delta: while it is    *)
(* not None the write lock is held and nobody else touches the store.      *)
(*                                                                         *)
(* A value is an opaque member of Vals.  A stored SignalKValue is a record *)
(* of the value, the reference of the source that sent it and the          *)
(* timestamp the SENDER put on it.                                         *)
(***************************************************************************)
EXTENDS Integers, Sequences, FiniteSets

CONSTANTS
  Vessels,          \* vessel URIs that occur in delta contexts
  Self,             \* self_uri, one of them
  SelfContext,      \* the context "vessels.self", or no context at all
  ForeignContext,   \* a context outside "vessels." (aton, shore, aircraft)
  Paths,            \* dot paths
  Sources,          \* source references, as make_source_ref builds them
  Label,            \* Label[s]: the part of a reference before its first dot
  Vals,             \* payloads
  Bodies,           \* the update lists senders submit, see Body below
  PriorityConfigs,  \* the source_priorities maps the operator may install
  TtlConfigs,       \* the source_ttls maps the server may start with
  None,
  MaxTime,          \* bound on the wall clock
  MaxDeltas         \* bound on the deltas handed to apply_delta

DEFAULT_SOURCE_PRIORITY == 100

Labels == {Label[s] : s \in Sources}
Contexts == Vessels \cup {SelfContext, ForeignContext}
Entry    == [value : Vals, source : Sources, timestamp : Int]
PathValue == [path : Paths, value : Vals]
(* An update as a sender composes it: `age' is how far its timestamp lies  *)
(* behind the wall clock when it reaches the store.                        *)
Body     == [source : Sources, age : Int, values : Seq(PathValue)]
Update   == [source : Sources, timestamp : Int, values : Seq(PathValue)]
Delta    == [context : Contexts, updates : Seq(Update)]
(* The locals of apply_delta: the updates left to process (the head is     *)
(* being processed when open, `values' is what is left of it),             *)
(* applied_values and applied_updates.                                     *)
Frame    == [context : Contexts, uri : Vessels, updates : Seq(Update),
             open : BOOLEAN, values : Seq(PathValue),
             applied_values : Seq(PathValue), applied_updates : Seq(Update)]
IsConfigMap(m) == DOMAIN m \subseteq Sources /\ m \in [DOMAIN m -> Nat]

ASSUME StoreAssumption ==
  /\ Self \in Vessels
  /\ SelfContext \notin Vessels
  /\ ForeignContext \notin Vessels \cup {SelfContext}
  /\ None \notin Entry \cup Frame
  /\ \A m \in PriorityConfigs \cup TtlConfigs : IsConfigMap(m)
  /\ DOMAIN Label = Sources
  /\ MaxTime \in Nat
  /\ MaxDeltas \in Nat

ASSUME BodiesAssumption == Bodies \subseteq Seq(Body)

VARIABLES
  known,              \* the keys of `vessels'
  vessels,            \* vessels[v][p]: the active value, or None
  sources,            \* the registered source references
  multi_source,       \* multi_source[p][s]: what s last said of self path p
  source_priorities,
  source_ttls,
  tx,                 \* everything sent on the broadcast channel so far
  delta_count,
  source_delta_counts, \* updates seen per source label
  received,           \* deltas handed to apply_delta (the bound's counter)
  now,                \* Utc::now() in seconds
  writer              \* the running apply_delta, or None

storeVars == <<known, vessels, sources, multi_source, source_priorities,
               source_ttls, tx, delta_count, source_delta_counts,
               received, now, writer>>

-----------------------------------------------------------------------------
Priority(s) == IF s \in DOMAIN source_priorities THEN source_priorities[s]
               ELSE DEFAULT_SOURCE_PRIORITY

(* The TTL test apply_delta makes on the active value e.                   *)
Stale(e) == /\ e.source \in DOMAIN source_ttls
            /\ now - e.timestamp > source_ttls[e.source]

(* The alias "vessels.self" is the self vessel.                            *)
ResolveContext(c) == IF c = SelfContext THEN Self ELSE c

EntryOf(u, pv) == [value |-> pv.value, source |-> u.source,
                   timestamp |-> u.timestamp]

(* The update list a sender hands over, stamped with its own timestamps.   *)
Stamp(body) == [i \in 1..Len(body) |->
                  [source |-> body[i].source, timestamp |-> now - body[i].age,
                   values |-> body[i].values]]

-----------------------------------------------------------------------------
StoreInit ==
  /\ known = {Self}
  /\ vessels = [v \in Vessels |-> [p \in Paths |-> None]]
  /\ sources = {}
  /\ multi_source = [p \in Paths |-> [s \in Sources |-> None]]
  /\ source_priorities \in PriorityConfigs
  /\ source_ttls \in TtlConfigs
  /\ tx = <<>>
  /\ delta_count = 0
  /\ source_delta_counts = [l \in Labels |-> 0]
  /\ received = 0
  /\ now = 0
  /\ writer = None

(* A delta for a context that is no vessel is not stored: it is sent on    *)
(* unchanged and the call returns.                                         *)
ForwardForeign(body) ==
  /\ writer = None
  /\ received < MaxDeltas
  /\ received' = received + 1
  /\ tx' = Append(tx, [context |-> ForeignContext, updates |-> Stamp(body)])
  /\ UNCHANGED <<known, vessels, sources, multi_source, source_priorities,
                 source_ttls, delta_count, source_delta_counts, now, writer>>

(* apply_delta takes the write lock, resolves the context and creates the  *)
(* vessel when this is its first delta.                                    *)
BeginDelta(context, body) ==
  /\ writer = None
  /\ received < MaxDeltas
  /\ context # ForeignContext
  /\ received' = received + 1
  /\ known' = known \cup {ResolveContext(context)}
  /\ writer' = [context |-> context, uri |-> ResolveContext(context),
                updates |-> Stamp(body), open |-> FALSE, values |-> <<>>,
                applied_values |-> <<>>, applied_updates |-> <<>>]
  /\ UNCHANGED <<vessels, sources, multi_source, source_priorities,
                 source_ttls, tx, delta_count, source_delta_counts, now>>

(* The head of the outer loop: the update's source is registered and       *)
(* counted.                                                                *)
RegisterSource ==
  /\ writer # None
  /\ writer.updates # <<>>
  /\ ~writer.open
  /\ LET s == Head(writer.updates).source
     IN  /\ sources' = sources \cup {s}
         /\ source_delta_counts' =
              [source_delta_counts EXCEPT ![Label[s]] = @ + 1]
  /\ writer' = [writer EXCEPT !.open = TRUE,
                              !.values = Head(writer.updates).values]
  /\ UNCHANGED <<known, vessels, multi_source, source_priorities,
                 source_ttls, tx, delta_count, received, now>>

(* Mutants: equal priority no longer lets the later write win; priorities  *)
(* are not consulted.                                                      *)
ShouldUpdate_strict(cur, s) ==
  cur # None => Stale(cur) \/ Priority(s) < Priority(cur.source)
ShouldUpdate_lww(cur, s) == TRUE

(* May a value from source s replace the active value cur?                 *)
ShouldUpdate(cur, s) ==
  cur # None => Stale(cur) \/ Priority(s) <= Priority(cur.source)

(* multi_source[p] after the value e: its sender's entry is refreshed      *)
(* first (self vessel only), then the source of a stale active value is    *)
(* removed (whichever vessel the value is for).                            *)
Retained(p, cur, e, isSelf) ==
  [s \in Sources |->
     IF cur # None /\ Stale(cur) /\ s = cur.source THEN None
     ELSE IF isSelf /\ s = e.source THEN e
     ELSE multi_source[p][s]]

(* One iteration of the inner loop.                                        *)
ApplyValue ==
  /\ writer # None
  /\ writer.updates # <<>>
  /\ writer.open
  /\ writer.values # <<>>
  /\ LET u    == Head(writer.updates)
         pv   == Head(writer.values)
         e    == EntryOf(u, pv)
         cur  == vessels[writer.uri][pv.path]
         rest == [writer EXCEPT !.values = Tail(@)]
     IN  /\ multi_source' = [multi_source EXCEPT
              ![pv.path] = Retained(pv.path, cur, e, writer.uri = Self)]
         /\ \/ /\ ShouldUpdate(cur, u.source)
               /\ vessels' = [vessels EXCEPT ![writer.uri][pv.path] = e]
               /\ writer' = [rest EXCEPT !.applied_values = Append(@, pv)]
            \/ /\ ~ShouldUpdate(cur, u.source)
               /\ vessels' = vessels
               /\ writer' = rest
  /\ UNCHANGED <<known, sources, source_priorities, source_ttls, tx,
                 delta_count, source_delta_counts, received, now>>

(* applied_updates once the current update is done: an update of which     *)
(* nothing was applied is dropped.                                         *)
PushApplied(w) ==
  IF w.applied_values = <<>> THEN w.applied_updates
  ELSE Append(w.applied_updates,
              [source |-> Head(w.updates).source,
               timestamp |-> Head(w.updates).timestamp,
               values |-> w.applied_values])

(* Mutant: applied_values survives into the next update.                   *)
NextUpdate_noreset ==
  /\ writer # None
  /\ writer.updates # <<>>
  /\ writer.open
  /\ writer.values = <<>>
  /\ writer' = [writer EXCEPT !.updates = Tail(@), !.open = FALSE,
                              !.applied_updates = PushApplied(writer)]
  /\ UNCHANGED <<known, vessels, sources, multi_source, source_priorities,
                 source_ttls, tx, delta_count, source_delta_counts, received,
                 now>>

(* The tail of the outer loop.                                             *)
NextUpdate ==
  /\ writer # None
  /\ writer.updates # <<>>
  /\ writer.open
  /\ writer.values = <<>>
  /\ writer' = [writer EXCEPT !.updates = Tail(@), !.open = FALSE,
                              !.applied_values = <<>>,
                              !.applied_updates = PushApplied(writer)]
  /\ UNCHANGED <<known, vessels, sources, multi_source, source_priorities,
                 source_ttls, tx, delta_count, source_delta_counts, received,
                 now>>

(* Only what was applied is fanned out, under the context the sender used; *)
(* then the write lock is released.                                        *)
FinishDelta ==
  /\ writer # None
  /\ writer.updates = <<>>
  /\ \/ /\ writer.applied_updates # <<>>
        /\ tx' = Append(tx, [context |-> writer.context,
                             updates |-> writer.applied_updates])
        /\ delta_count' = delta_count + 1
     \/ /\ writer.applied_updates = <<>>
        /\ UNCHANGED <<tx, delta_count>>
  /\ writer' = None
  /\ UNCHANGED <<known, vessels, sources, multi_source, source_priorities,
                 source_ttls, source_delta_counts, received, now>>

(* PUT /skServer/sourcePriorities replaces the whole map.                  *)
SetSourcePriorities(m) ==
  /\ writer = None
  /\ source_priorities' = m
  /\ UNCHANGED <<known, vessels, sources, multi_source, source_ttls, tx,
                 delta_count, source_delta_counts, received, now, writer>>

Tick ==
  /\ now < MaxTime
  /\ now' = now + 1
  /\ UNCHANGED <<known, vessels, sources, multi_source, source_priorities,
                 source_ttls, tx, delta_count, source_delta_counts, received,
                 writer>>

StoreNext ==
  \/ \E body \in Bodies : ForwardForeign(body)
  \/ \E context \in Contexts, body \in Bodies : BeginDelta(context, body)
  \/ RegisterSource
  \/ ApplyValue
  \/ NextUpdate
  \/ FinishDelta
  \/ \E m \in PriorityConfigs : SetSourcePriorities(m)
  \/ Tick

StoreSpec == StoreInit /\ [][StoreNext]_storeVars

-----------------------------------------------------------------------------
(* Every stored value, broadcast delta and apply_delta frame has its shape; *)
(* the store of apply_delta's callers is never left half written.          *)
StoreTypeOK ==
  /\ known \in SUBSET Vessels
  /\ vessels \in [Vessels -> [Paths -> Entry \cup {None}]]
  /\ sources \in SUBSET Sources
  /\ multi_source \in [Paths -> [Sources -> Entry \cup {None}]]
  /\ source_priorities \in PriorityConfigs
  /\ source_ttls \in TtlConfigs
  /\ tx \in Seq(Delta)
  /\ delta_count \in Nat
  /\ source_delta_counts \in [Labels -> Nat]
  /\ received \in 0..MaxDeltas
  /\ now \in 0..MaxTime
  /\ writer \in Frame \cup {None}

(* The per-source table never contradicts the active value: when it holds  *)
(* an entry for the source whose value is active on a self path, that      *)
(* entry is the active value (GET .../values never shows two answers of    *)
(* one source).                                                            *)
ActiveMatchesRetained ==
  \A p \in Paths :
    LET cur == vessels[Self][p]
    IN  cur # None => multi_source[p][cur.source] \in {None, cur}

(* The places at which a broadcast delta carries a value for path p of     *)
(* vessel v, and their order on the channel.                               *)
Places(v, p) ==
  UNION {UNION {{<<i, j, k>> : k \in {n \in 1..Len(tx[i].updates[j].values) :
                                  tx[i].updates[j].values[n].path = p}}
                : j \in 1..Len(tx[i].updates)}
         : i \in {n \in 1..Len(tx) : ResolveContext(tx[n].context) = v}}

Before(a, b) == \/ a[1] < b[1]
                \/ a[1] = b[1] /\ a[2] < b[2]
                \/ a[1] = b[1] /\ a[2] = b[2] /\ a[3] < b[3]

EntryAt(a) ==
  LET u == tx[a[1]].updates[a[2]] IN EntryOf(u, u.values[a[3]])

(* Whenever the lock is free, a subscriber that saw every broadcast holds  *)
(* exactly the store's values: the last broadcast value of a path is the   *)
(* active one, and a path that was never broadcast is empty.  Rejected     *)
(* values never reach the channel after the value they lost against.       *)
BroadcastAgreesWithStore ==
  writer = None =>
    \A v \in Vessels, p \in Paths :
      IF vessels[v][p] = None THEN Places(v, p) = {}
      ELSE \E a \in Places(v, p) :
             /\ EntryAt(a) = vessels[v][p]
             /\ \A b \in Places(v, p) \ {a} : Before(b, a)


(* vessel.values always holds the highest-priority source: no source that  *)
(* is still retained for a self path outranks the source of the active     *)
(* value.                                                                  *)
HighestPriorityActive ==
  \A p \in Paths, s \in Sources :
    multi_source[p][s] # None =>
      /\ vessels[Self][p] # None
      /\ Priority(vessels[Self][p].source) <= Priority(s)

(* Without TTLs nothing takes the best-ranked source's place but a change  *)
(* of the ranks: whatever the senders do, it is preserved, and once lost   *)
(* to new ranks and regained it is preserved again.                        *)
PriorityKept ==
  [][(DOMAIN source_ttls = {} /\ UNCHANGED source_priorities /\ HighestPriorityActive)
       => HighestPriorityActive']_storeVars

(* A deployment without TTLs whose priorities are never changed.           *)
StaticConfig ==
  /\ \A m, n \in PriorityConfigs : m = n
  /\ \A m \in TtlConfigs : DOMAIN m = {}
=============================================================================
