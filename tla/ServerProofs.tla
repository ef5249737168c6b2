---------------------------- MODULE ServerProofs ---------------------------
(* Theorems about what the server itself keeps, for every value of their   *)
(* constants: the notifications, the configuration store, the resource     *)
(* files, the history, the unit preferences and the course.                *)
EXTENDS ConfigStore, Resources, History, Preferences, Course, Notifications,
        FiniteSetTheorems, SequenceTheorems, TLAPS

-----------------------------------------------------------------------------
(* Notifications: the type invariant, and that no interleaving of          *)
(* producers and API requests hides or mutes an emergency.                 *)

(* What a notification looks like once the API may have changed it.        *)
Shown(n) ==
  n.state = "emergency" =>
    /\ "visual" \in n.method
    /\ \/ "sound" \in n.method
       \/ n.status # None /\ n.status.acknowledged

(* What a producer's notification looks like on its way to the store.      *)
Loud(n) == n.state = "emergency" => Methods \subseteq n.method

StoreShown == \A p \in Paths : store[p] # None => Shown(store[p].n)
CallsShown == \A c \in ApiClients : calls[c] # None => Shown(calls[c].n)
TasksLoud  == \A t \in tasks : Loud(t.n)

(* The inductive invariant: what the store shows now, what a request is    *)
(* about to write back, and what is still on its way.                      *)
EmergencyInv == StoreShown /\ CallsShown /\ TasksLoud

-----------------------------------------------------------------------------
(* The values notifications are put together from are of their types.      *)
LEMMA PartTypes ==
  /\ Cleared \in Status
  /\ \A e \in Entry, st \in States : StatusOf(e, st) \in Status
  /\ \A st \in States : Raised(st) \in Notification
  /\ \A n \in Notification : StatusOrDefault(n) \in Status
<1>1. Cleared \in Status
  BY DEF Cleared, Status
<1>2. \A e \in Entry, st \in States : StatusOf(e, st) \in Status
  BY DEF StatusOf, Status, Entry
<1>3. \A st \in States : Raised(st) \in Notification
  BY DEF Raised, Notification, Methods
<1>4. \A n \in Notification : StatusOrDefault(n) \in Status
  BY <1>1 DEF StatusOrDefault, Notification
<1> QED
  BY <1>1, <1>2, <1>3, <1>4

(* ReadForUpdate returns the stored notification but for its id.           *)
LEMMA ReadForUpdateType ==
  ASSUME TypeOK, NEW p \in Paths, store[p] # None
  PROVE  LET n == ReadForUpdate(p)
         IN  /\ n \in Notification
             /\ n.state = store[p].n.state
             /\ n.method = store[p].n.method
             /\ n.status = store[p].n.status
<1>1. store[p] \in Stored /\ store[p].n \in Notification
  BY DEF TypeOK, Stored
<1>2. entries[p] # None => entries[p].id \in Nat
  BY DEF TypeOK, Entry
<1> QED
  BY <1>1, <1>2 DEF ReadForUpdate, Notification

LEMMA EntryForType ==
  ASSUME TypeOK, NEW p \in Paths, NEW s
  PROVE  EntryFor(p, s) \in Entry
BY DEF TypeOK, EntryFor, Entry

LEMMA StoreWriteType ==
  ASSUME TypeOK, NEW p \in Paths, NEW n \in Notification,
         NEW s \in Sources \cup {ApiSource}, StoreWrite(p, n, s)
  PROVE  store' \in [Paths -> Stored \cup {None}]
<1>1. [n |-> n, source |-> s] \in Stored
  BY DEF Stored
<1> QED
  BY <1>1 DEF TypeOK, StoreWrite

LEMMA TypeInit == Init => TypeOK
BY NotificationsAssumption DEF Init, TypeOK

LEMMA BeginType ==
  ASSUME TypeOK, NEW c \in ApiClients, NEW kind \in {"silence", "acknowledge"},
         NEW p \in Paths, NEW n \in Notification, Begin(c, kind, p, n)
  PROVE  TypeOK'
<1>1. [kind |-> kind, path |-> p, n |-> n, stage |-> "read"] \in Call
  BY DEF Call
<1>2. calls' \in [ApiClients -> Call \cup {None}]
  BY <1>1 DEF Begin, TypeOK
<1>3. ncalls' \in 0..MaxCalls
  BY NotificationsAssumption DEF Begin, TypeOK
<1> QED
  BY <1>2, <1>3 DEF Begin, TypeOK

(* The mutated copies the two endpoints make.                              *)
LEMMA MutatedType ==
  ASSUME NEW n \in Notification, NEW m \in SUBSET Methods,
         NEW st \in Status
  PROVE  [n EXCEPT !.method = m, !.status = st] \in Notification
BY DEF Notification

LEMMA TypeStep == TypeOK /\ [Next]_vars => TypeOK'
<1> SUFFICES ASSUME TypeOK, [Next]_vars
             PROVE  TypeOK'
  OBVIOUS
<1>1. ASSUME NEW p \in Paths, NEW st \in States, NEW s \in Sources,
             Emit(p, st, s)
      PROVE  TypeOK'
  <2>1. tasks' \subseteq Task
    BY <1>1, PartTypes DEF Emit, Task, TypeOK
  <2>2. emits' \in 0..MaxEmits
    BY <1>1, NotificationsAssumption DEF Emit, TypeOK
  <2> QED
    BY <1>1, <2>1, <2>2 DEF Emit, TypeOK
<1>2. ASSUME NEW t \in tasks, FilterClear(t)
      PROVE  TypeOK'
  <2>1. t \in Task /\ t.path \in Paths /\ t.n \in Notification
    BY DEF TypeOK, Task
  <2>2. entries' \in [Paths -> Entry \cup {None}]
    BY <1>2, <2>1 DEF FilterClear, TypeOK
  <2>3. entries[t.path] # None => entries[t.path].id \in Nat
    BY <2>1 DEF TypeOK, Entry
  <2>4. [t.n EXCEPT !.status = Cleared,
                    !.id = IF entries[t.path] = None THEN @
                           ELSE entries[t.path].id] \in Notification
    BY <2>1, <2>3, PartTypes DEF Notification
  <2>5. tasks' \subseteq Task
    BY <1>2, <2>1, <2>4 DEF FilterClear, TypeOK, Task
  <2> QED
    BY <1>2, <2>2, <2>5 DEF FilterClear, TypeOK
<1>3. ASSUME NEW t \in tasks, FilterRaise(t)
      PROVE  TypeOK'
  <2> DEFINE e == EntryFor(t.path, t.source)
  <2>1. t \in Task /\ t.path \in Paths /\ t.n \in Notification
                   /\ t.n.state \in States
    BY DEF TypeOK, Task, Notification
  <2>2. e \in Entry /\ e.id \in Nat
    BY <2>1, EntryForType DEF Entry
  <2>3. StatusOf(e, t.n.state) \in Status
    BY <2>1, <2>2, PartTypes
  <2>4. [t.n EXCEPT !.id = e.id, !.status = StatusOf(e, t.n.state)]
          \in Notification
    BY <2>1, <2>2, <2>3 DEF Notification
  <2>5. tasks' \subseteq Task
    BY <1>3, <2>1, <2>4 DEF FilterRaise, TypeOK, Task
  <2>6. entries' \in [Paths -> Entry \cup {None}]
    BY <1>3, <2>1, <2>2 DEF FilterRaise, TypeOK
  <2>7. nextId' \in Nat
    BY <1>3 DEF FilterRaise, TypeOK
  <2> QED
    BY <1>3, <2>5, <2>6, <2>7 DEF FilterRaise, TypeOK
<1>4. ASSUME NEW t \in tasks, Write(t)
      PROVE  TypeOK'
  <2>1. t.path \in Paths /\ t.n \in Notification /\ t.source \in Sources
    BY DEF TypeOK, Task
  <2>2. store' \in [Paths -> Stored \cup {None}]
    BY <1>4, <2>1, StoreWriteType DEF Write
  <2> QED
    BY <1>4, <2>2 DEF Write, TypeOK
<1>5. ASSUME NEW c \in ApiClients, NEW p \in Paths, Silence(c, p)
      PROVE  TypeOK'
  <2> DEFINE n == ReadForUpdate(p)
             st == [StatusOrDefault(n) EXCEPT !.silenced = TRUE,
                                              !.can_silence = FALSE]
  <2>1. n \in Notification
    BY <1>5, ReadForUpdateType DEF Silence
  <2>2. st \in Status
    BY <2>1, PartTypes DEF Status
  <2>3. n.method \ {"sound"} \in SUBSET Methods
    BY <2>1 DEF Notification
  <2>4. [n EXCEPT !.method = @ \ {"sound"}, !.status = st] \in Notification
    BY <2>1, <2>2, <2>3, MutatedType
  <2> QED
    BY <1>5, <2>4, BeginType DEF Silence
<1>6. ASSUME NEW c \in ApiClients, NEW p \in Paths, Acknowledge(c, p)
      PROVE  TypeOK'
  <2> DEFINE n == ReadForUpdate(p)
             st == [StatusOrDefault(n) EXCEPT !.acknowledged = TRUE,
                                              !.can_acknowledge = FALSE]
             m == IF n.state = "emergency" THEN n.method \ {"sound"}
                  ELSE n.method \ {"sound", "visual"}
  <2>1. n \in Notification
    BY <1>6, ReadForUpdateType DEF Acknowledge
  <2>2. st \in Status
    BY <2>1, PartTypes DEF Status
  <2>3. m \in SUBSET Methods
    BY <2>1 DEF Notification
  <2>4. [n EXCEPT !.method = m, !.status = st] \in Notification
    BY <2>1, <2>2, <2>3, MutatedType
  <2> QED
    BY <1>6, <2>4, BeginType DEF Acknowledge
<1>7. ASSUME NEW c \in ApiClients, WriteBack(c)
      PROVE  TypeOK'
  <2>1. calls[c] \in Call
    BY <1>7 DEF WriteBack, TypeOK
  <2>2. store' \in [Paths -> Stored \cup {None}]
    BY <1>7, <2>1, StoreWriteType DEF WriteBack, Call
  <2>3. calls' \in [ApiClients -> Call \cup {None}]
    BY <1>7, <2>1 DEF WriteBack, TypeOK, Call
  <2> QED
    BY <1>7, <2>2, <2>3 DEF WriteBack, TypeOK
<1>8. ASSUME NEW c \in ApiClients, SyncManager(c)
      PROVE  TypeOK'
  <2>1. calls[c] \in Call /\ calls[c].path \in Paths
    BY <1>8 DEF SyncManager, TypeOK, Call
  <2>2. entries' \in [Paths -> Entry \cup {None}]
    <3> DEFINE p == calls[c].path
    <3>1. CASE entries[p] = None
      BY <1>8, <3>1 DEF SyncManager, TypeOK
    <3>2. CASE entries[p] # None
      <4>1. /\ [entries[p] EXCEPT !.silenced = TRUE] \in Entry
            /\ [entries[p] EXCEPT !.acknowledged = TRUE] \in Entry
        BY <2>1, <3>2 DEF TypeOK, Entry
      <4> QED
        BY <1>8, <2>1, <3>2, <4>1 DEF SyncManager, TypeOK
    <3> QED
      BY <3>1, <3>2
  <2>3. calls' \in [ApiClients -> Call \cup {None}]
    BY <1>8 DEF SyncManager, TypeOK
  <2> QED
    BY <1>8, <2>2, <2>3 DEF SyncManager, TypeOK
<1>9. CASE UNCHANGED vars
  BY <1>9 DEF vars, TypeOK
<1> QED
  BY <1>1, <1>2, <1>3, <1>4, <1>5, <1>6, <1>7, <1>8, <1>9 DEF Next

(* Every reachable state of the manager, the store, the deltas in flight   *)
(* and the API requests has the declared shape.                            *)
THEOREM NotificationsTypeCorrect == Spec => []TypeOK
BY TypeInit, TypeStep, PTL DEF Spec

-----------------------------------------------------------------------------
LEMMA EmergencyInit == Init => EmergencyInv
BY DEF Init, EmergencyInv, StoreShown, CallsShown, TasksLoud

(* A write of a notification that shows its emergency keeps the store so.  *)
LEMMA StoreWriteShown ==
  ASSUME TypeOK, StoreShown, NEW p \in Paths, NEW n \in Notification, NEW s,
         Shown(n), StoreWrite(p, n, s)
  PROVE  StoreShown'
<1> SUFFICES ASSUME NEW q \in Paths, store'[q] # None
             PROVE  Shown(store'[q].n)
  BY DEF StoreShown, Shown
<1>1. CASE store'[q] = store[q]
  BY <1>1 DEF StoreShown
<1>2. CASE store'[q] # store[q]
  BY <1>2 DEF StoreWrite, TypeOK
<1> QED
  BY <1>1, <1>2

(* The request of one client changes no other.                             *)
LEMMA BeginShown ==
  ASSUME TypeOK, CallsShown, NEW c \in ApiClients, NEW kind, NEW p, NEW n,
         Shown(n), Begin(c, kind, p, n)
  PROVE  CallsShown'
<1> SUFFICES ASSUME NEW d \in ApiClients, calls'[d] # None
             PROVE  Shown(calls'[d].n)
  BY DEF CallsShown, Shown
<1>1. CASE d = c
  BY <1>1 DEF Begin, TypeOK
<1>2. CASE d # c
  BY <1>2 DEF Begin, TypeOK, CallsShown
<1> QED
  BY <1>1, <1>2

LEMMA EmergencyStep ==
  TypeOK /\ EmergencyInv /\ [Next]_vars => EmergencyInv'
<1> SUFFICES ASSUME TypeOK, StoreShown, CallsShown, TasksLoud, [Next]_vars
             PROVE  EmergencyInv'
  BY DEF EmergencyInv
<1>1. ASSUME NEW p \in Paths, NEW st \in States, NEW s \in Sources,
             Emit(p, st, s)
      PROVE  EmergencyInv'
  <2>1. Loud(Raised(st))
    BY DEF Loud, Raised
  <2>2. TasksLoud'
    BY <1>1, <2>1 DEF Emit, TasksLoud, Loud
  <2> QED
    BY <1>1, <2>2 DEF Emit, EmergencyInv, StoreShown, CallsShown, Shown
<1>2. ASSUME NEW t \in tasks, FilterClear(t)
      PROVE  EmergencyInv'
  <2>1. t \in Task /\ t.n \in Notification /\ t.n.state # "emergency"
    BY <1>2 DEF FilterClear, TypeOK, Task
  <2> DEFINE n2 == [t.n EXCEPT !.status = Cleared,
                      !.id = IF entries[t.path] = None THEN @
                             ELSE entries[t.path].id]
             t2 == [t EXCEPT !.stage = "filtered", !.n = n2]
  <2>2. t2.n = n2 /\ n2.state = t.n.state
    BY <2>1 DEF Task, Notification
  <2>3. tasks' = (tasks \ {t}) \cup {t2}
    BY <1>2 DEF FilterClear
  <2>4. TasksLoud'
    BY <2>1, <2>2, <2>3 DEF TasksLoud, Loud
  <2> QED
    BY <1>2, <2>4
    DEF FilterClear, EmergencyInv, StoreShown, CallsShown, Shown
<1>3. ASSUME NEW t \in tasks, FilterRaise(t)
      PROVE  EmergencyInv'
  <2>1. t \in Task /\ t.n \in Notification /\ Loud(t.n)
    BY DEF TypeOK, Task, TasksLoud
  <2> DEFINE e == EntryFor(t.path, t.source)
             n2 == [t.n EXCEPT !.id = e.id, !.status = StatusOf(e, t.n.state)]
             t2 == [t EXCEPT !.stage = "filtered", !.n = n2]
  <2>2. t2.n = n2 /\ n2.state = t.n.state /\ n2.method = t.n.method
    BY <2>1 DEF Task, Notification
  <2>3. tasks' = (tasks \ {t}) \cup {t2}
    BY <1>3 DEF FilterRaise
  <2>4. TasksLoud'
    BY <2>1, <2>2, <2>3 DEF TasksLoud, Loud
  <2> QED
    BY <1>3, <2>4
    DEF FilterRaise, EmergencyInv, StoreShown, CallsShown, Shown
<1>4. ASSUME NEW t \in tasks, Write(t)
      PROVE  EmergencyInv'
  <2>1. t.path \in Paths /\ t.n \in Notification /\ Shown(t.n)
    BY DEF TypeOK, Task, TasksLoud, Loud, Shown, Methods
  <2>2. StoreShown'
    BY <1>4, <2>1, StoreWriteShown DEF Write
  <2>3. TasksLoud'
    BY <1>4 DEF Write, TasksLoud, Loud
  <2> QED
    BY <1>4, <2>2, <2>3 DEF Write, EmergencyInv, CallsShown, Shown
<1>5. ASSUME NEW c \in ApiClients, NEW p \in Paths, Silence(c, p)
      PROVE  EmergencyInv'
  <2> DEFINE n == ReadForUpdate(p)
             n2 == [n EXCEPT !.method = @ \ {"sound"},
                             !.status = [StatusOrDefault(n) EXCEPT
                                           !.silenced = TRUE,
                                           !.can_silence = FALSE]]
  <2>1. n \in Notification /\ n.state # "emergency"
    BY <1>5, ReadForUpdateType DEF Silence
  <2>2. Shown(n2)
    BY <2>1 DEF Shown, Notification
  <2>3. Begin(c, "silence", p, n2)
    BY <1>5 DEF Silence
  <2>4. CallsShown'
    BY <2>2, <2>3, BeginShown
  <2> QED
    BY <2>3, <2>4 DEF Begin, EmergencyInv, StoreShown, TasksLoud, Shown, Loud
<1>6. ASSUME NEW c \in ApiClients, NEW p \in Paths, Acknowledge(c, p)
      PROVE  EmergencyInv'
  <2> DEFINE n == ReadForUpdate(p)
             st == [StatusOrDefault(n) EXCEPT !.acknowledged = TRUE,
                                              !.can_acknowledge = FALSE]
             n2 == [n EXCEPT !.method = IF n.state = "emergency"
                                        THEN @ \ {"sound"}
                                        ELSE @ \ {"sound", "visual"},
                             !.status = st]
  <2>1. n \in Notification /\ n.state = store[p].n.state
                           /\ n.method = store[p].n.method
    BY <1>6, ReadForUpdateType DEF Acknowledge
  <2>2. n.state = "emergency" => "visual" \in n.method
    BY <1>6, <2>1 DEF Acknowledge, StoreShown, Shown
  <2>3. st \in Status /\ st.acknowledged
    BY <2>1, PartTypes DEF Status
  <2>4. Shown(n2)
    BY <2>1, <2>2, <2>3, NotificationsAssumption DEF Shown, Notification
  <2>5. Begin(c, "acknowledge", p, n2)
    BY <1>6 DEF Acknowledge
  <2>6. CallsShown'
    BY <2>4, <2>5, BeginShown
  <2> QED
    BY <2>5, <2>6 DEF Begin, EmergencyInv, StoreShown, TasksLoud, Shown, Loud
<1>7. ASSUME NEW c \in ApiClients, WriteBack(c)
      PROVE  EmergencyInv'
  <2>1. calls[c] \in Call /\ Shown(calls[c].n)
    BY <1>7 DEF WriteBack, TypeOK, CallsShown
  <2>2. StoreShown'
    BY <1>7, <2>1, StoreWriteShown DEF WriteBack, Call
  <2>3. CallsShown'
    <3> SUFFICES ASSUME NEW d \in ApiClients, calls'[d] # None
                 PROVE  Shown(calls'[d].n)
      BY DEF CallsShown, Shown
    <3>1. CASE d = c
      BY <1>7, <2>1, <3>1 DEF WriteBack, TypeOK, Call
    <3>2. CASE d # c
      BY <1>7, <3>2 DEF WriteBack, TypeOK, CallsShown
    <3> QED
      BY <3>1, <3>2
  <2> QED
    BY <1>7, <2>2, <2>3 DEF WriteBack, EmergencyInv, TasksLoud, Loud
<1>8. ASSUME NEW c \in ApiClients, SyncManager(c)
      PROVE  EmergencyInv'
  <2>1. CallsShown'
    BY <1>8 DEF SyncManager, TypeOK, CallsShown, Shown
  <2> QED
    BY <1>8, <2>1
    DEF SyncManager, EmergencyInv, StoreShown, TasksLoud, Shown, Loud
<1>9. CASE UNCHANGED vars
  BY <1>9
  DEF vars, EmergencyInv, StoreShown, CallsShown, TasksLoud, Shown, Loud
<1> QED
  BY <1>1, <1>2, <1>3, <1>4, <1>5, <1>6, <1>7, <1>8, <1>9 DEF Next

LEMMA EmergencyAlways == Spec => [](TypeOK /\ EmergencyInv)
<1>1. Init => TypeOK /\ EmergencyInv
  BY TypeInit, EmergencyInit
<1>2. TypeOK /\ EmergencyInv /\ [Next]_vars => (TypeOK /\ EmergencyInv)'
  BY TypeStep, EmergencyStep
<1> QED
  BY <1>1, <1>2, PTL DEF Spec

(* For any number of producers, paths and concurrent requests: an          *)
(* emergency in the store is visible, whatever acknowledge raced with.     *)
THEOREM EmergencyNeverHidden == Spec => []EmergencyStaysVisible
<1>1. EmergencyInv => EmergencyStaysVisible
  BY DEF EmergencyInv, StoreShown, Shown, EmergencyStaysVisible
<1> QED
  BY <1>1, EmergencyAlways, PTL

(* Likewise it sounds until it has been acknowledged: silence never mutes  *)
(* it, not even one that arrives while a silence request is under way.     *)
THEOREM EmergencyNeverMuted == Spec => []EmergencySounds
<1>1. EmergencyInv => EmergencySounds
  BY DEF EmergencyInv, StoreShown, Shown, EmergencySounds
<1> QED
  BY <1>1, EmergencyAlways, PTL

-----------------------------------------------------------------------------
(* ConfigStore.                                                            *)
USE ConfigAssumption

(* The requests of the PUT handlers; of the setters of a plugin entry      *)
(* before they change the entry; and after, when they hold one of the      *)
(* entries that were current.                                              *)
PutReq ==
  [op : {"put"}, sec : Sections, rows : Puts,
   at : {"lock", "rows", "cache", "live"}, left : SUBSET Keys, alone : BOOLEAN]
ConfigReq ==
  [op : {"entry"}, sec : {"plugins"}, field : {"config"}, value : Configs,
   at : {"entry"}, alone : BOOLEAN]
EnabledReq ==
  [op : {"entry"}, sec : {"plugins"}, field : {"enabled"}, value : BOOLEAN,
   at : {"entry"}, alone : BOOLEAN]
RowReq(known) ==
  [op : {"entry"}, sec : {"plugins"}, field : {"config", "enabled"}, value : known,
   at : {"row"}, alone : BOOLEAN]
Requests(known) == {Free} \cup PutReq \cup ConfigReq \cup EnabledReq \cup RowReq(known)

ReqInv == request \in [Slots -> Requests(past)]

(* Every entry that waits to be written or was written was current.        *)
EntryInv ==
  /\ past \subseteq Entries /\ FirstEntry \in past
  /\ cache_entry \in past
  /\ table_entry \in past \cup {Absent}

(* Each kind of request says at which step it stands.                      *)
LEMMA ReqKinds ==
  ASSUME NEW known, NEW r \in Requests(known), r # Free
  PROVE  /\ r.at \in {"lock", "rows", "cache", "live"} => r \in PutReq
         /\ r.at = "entry" => r \in ConfigReq \cup EnabledReq
         /\ r.at = "row" => r \in RowReq(known)
         /\ r.sec \in Sections => r \in PutReq
BY DEF Requests, PutReq, ConfigReq, EnabledReq, RowReq, Sections

(* A request that overlaps another one only loses its mark.                *)
LEMMA ReqAlone ==
  ASSUME NEW known, NEW r \in Requests(known), r # Free, NEW b \in BOOLEAN
  PROVE  [r EXCEPT !.alone = b] \in Requests(known)
<1>1. CASE r \in PutReq
  BY <1>1 DEF Requests, PutReq
<1>2. CASE r \in ConfigReq
  BY <1>2 DEF Requests, ConfigReq
<1>3. CASE r \in EnabledReq
  BY <1>3 DEF Requests, EnabledReq
<1>4. CASE r \in RowReq(known)
  BY <1>4 DEF Requests, RowReq
<1> QED
  BY <1>1, <1>2, <1>3, <1>4 DEF Requests

LEMMA ArriveOK ==
  ASSUME ReqInv, NEW s \in Slots, NEW r \in Requests(past), r # Free, Arrive(s, r)
  PROVE  ReqInv'
<1>1. \A x \in Slots : request'[x] \in Requests(past)
  <2> SUFFICES ASSUME NEW x \in Slots PROVE request'[x] \in Requests(past)
    OBVIOUS
  <2> DEFINE mates == {y \in InFlight : request[y].sec = r.sec}
  <2>1. [r EXCEPT !.alone = (mates = {})] \in Requests(past)
    BY ReqAlone, (mates = {}) \in BOOLEAN
  <2>2. x \in mates => [request[x] EXCEPT !.alone = FALSE] \in Requests(past)
    BY ReqAlone DEF ReqInv, InFlight
  <2>3. request'[x] = IF x = s THEN [r EXCEPT !.alone = (mates = {})]
                      ELSE IF x \in mates THEN [request[x] EXCEPT !.alone = FALSE]
                      ELSE request[x]
    BY DEF Arrive
  <2> HIDE DEF mates
  <2> QED
    BY <2>1, <2>2, <2>3 DEF ReqInv
<1>2. past' = past
  BY DEF Arrive, cacheVars
<1>3. request' = [x \in Slots |-> request'[x]]
  BY DEF Arrive
<1> QED
  BY <1>1, <1>2, <1>3 DEF ReqInv

LEMMA EntryInit == ConfigInit => EntryInv /\ ReqInv
BY DEF ConfigInit, EntryInv, ReqInv, Requests

(* What a step does to the current entry is a step of Settings, and the    *)
(* invariants survive it.                                                  *)
LEMMA EntryStep ==
  ASSUME EntryInv, ReqInv, [ConfigNext]_configVars
  PROVE  EntryInv' /\ ReqInv' /\ [Promise!SettingsNext]_<<cache_entry, past>>
<1> USE DEF EntryInv
<1>1. ASSUME NEW row \in SeedRows, SeedRow(row)
      PROVE  EntryInv' /\ ReqInv' /\ UNCHANGED <<cache_entry, past>>
  BY <1>1 DEF SeedRow, ReqInv, cacheVars
<1>2. CASE Load
  <2>1. cache_entry' \in past /\ UNCHANGED past
    BY <1>2 DEF Load
  <2>2. Promise!SettingsNext
    BY <2>1 DEF Promise!SettingsNext, Promise!Recover
  <2> QED
    BY <1>2, <2>1, <2>2 DEF Load, ReqInv, tableVars
<1>3. CASE Crash
  BY <1>3 DEF Crash, ReqInv, Requests, tableVars, cacheVars
<1>4. ASSUME NEW s \in Slots, NEW sec \in Sections, NEW rows \in Puts, Put(s, sec, rows)
      PROVE  EntryInv' /\ ReqInv' /\ UNCHANGED <<cache_entry, past>>
  <2> DEFINE r == [op |-> "put", sec |-> sec, rows |-> rows, at |-> "lock",
                   left |-> Keys, alone |-> TRUE]
  <2>1. r \in Requests(past) /\ r # Free
    BY DEF Requests, PutReq, Free
  <2>2. Arrive(s, r)
    BY <1>4 DEF Put
  <2>3. UNCHANGED <<tableVars, cacheVars>>
    BY <2>2 DEF Arrive
  <2> HIDE DEF r
  <2> QED
    BY <2>1, <2>2, <2>3, ArriveOK DEF tableVars, cacheVars
<1>5. ASSUME NEW s \in Slots,
             NEW r \in ConfigReq \cup EnabledReq, Arrive(s, r)
      PROVE  EntryInv' /\ ReqInv' /\ UNCHANGED <<cache_entry, past>>
  <2>1. r \in Requests(past) /\ r # Free
    BY DEF Requests, ConfigReq, EnabledReq, Free
  <2>3. UNCHANGED <<tableVars, cacheVars>>
    BY <1>5 DEF Arrive
  <2> QED
    BY <2>1, <2>3, <1>5, ArriveOK DEF tableVars, cacheVars
<1>6. ASSUME NEW s \in Slots, LockConnection(s) \/ Unlock(s) \/ UpdateCache(s)
                              \/ (\E k \in Keys : WriteRow(s, k))
      PROVE  EntryInv' /\ ReqInv' /\ UNCHANGED <<cache_entry, past>>
  <2>1. request[s] \in PutReq
    BY <1>6, ReqKinds DEF LockConnection, Unlock, UpdateCache, WriteRow, AtStep,
                          InFlight, ReqInv
  <2>2. PICK q \in PutReq : request' = [request EXCEPT ![s] = q]
    <3>1. CASE LockConnection(s)
      BY <3>1, <2>1 DEF LockConnection, PutReq, ReqInv
    <3>2. CASE Unlock(s)
      BY <3>2, <2>1 DEF Unlock, PutReq, ReqInv
    <3>3. CASE UpdateCache(s)
      BY <3>3, <2>1 DEF UpdateCache, PutReq, ReqInv
    <3>4. CASE \E k \in Keys : WriteRow(s, k)
      BY <3>4, <2>1 DEF WriteRow, PutReq, ReqInv
    <3> QED
      BY <1>6, <3>1, <3>2, <3>3, <3>4
  <2>3. UNCHANGED <<table_entry, cache_entry, past>>
    BY <1>6 DEF LockConnection, Unlock, UpdateCache, WriteRow, tableVars, cacheVars
  <2> QED
    BY <2>2, <2>3 DEF ReqInv, Requests
<1>7. ASSUME NEW s \in Slots, UpdateLive(s)
      PROVE  EntryInv' /\ ReqInv' /\ UNCHANGED <<cache_entry, past>>
  BY <1>7 DEF UpdateLive, Finish, ReqInv, Requests, tableVars, cacheVars
<1>8. ASSUME NEW s \in Slots, UpdateEntry(s)
      PROVE  EntryInv' /\ ReqInv' /\ Promise!SettingsNext
  <2> DEFINE r == request[s]
             changed == Changed(cache_entry, r.field, r.value)
  <2>1. r \in ConfigReq \cup EnabledReq
    BY <1>8, ReqKinds DEF UpdateEntry, AtStep, InFlight, ReqInv
  <2>2. cache_entry' = changed /\ past' = past \cup {changed}
    BY <1>8 DEF UpdateEntry
  <2>3. cache_entry \in Entries
    OBVIOUS
  <2>4. changed \in Entries /\ Promise!SettingsNext
    <3>1. CASE r \in ConfigReq
      <4>1. r.field = "config" /\ r.value \in Configs
        BY <3>1 DEF ConfigReq
      <4>2. changed = [cache_entry EXCEPT !.config = r.value]
        BY <4>1 DEF Changed
      <4> QED
        BY <4>1, <4>2, <2>2, <2>3 DEF Entries, Promise!SettingsNext,
             Promise!SetConfig, Promise!SetField
    <3>2. CASE r \in EnabledReq
      <4>1. r.field = "enabled" /\ r.value \in BOOLEAN
        BY <3>2 DEF EnabledReq
      <4>2. changed = [cache_entry EXCEPT !.enabled = r.value]
        BY <4>1 DEF Changed
      <4> QED
        BY <4>1, <4>2, <2>2, <2>3 DEF Entries, Promise!SettingsNext,
             Promise!SetEnabled, Promise!SetField
    <3> QED
      BY <2>1, <3>1, <3>2
  <2>5. request' = [request EXCEPT ![s] = [r EXCEPT !.at = "row", !.value = changed]]
    BY <1>8 DEF UpdateEntry
  <2>6. [r EXCEPT !.at = "row", !.value = changed] \in RowReq(past')
    <3> HIDE DEF changed
    <3>1. changed \in past'
      BY <2>2
    <3> QED
      BY <2>1, <3>1 DEF RowReq, ConfigReq, EnabledReq
  <2>7. Requests(past) \subseteq Requests(past')
    BY <2>2 DEF Requests, RowReq
  <2>8. ReqInv'
    BY <2>5, <2>6, <2>7 DEF ReqInv, Requests
  <2>9. EntryInv'
    BY <2>2, <2>4, <1>8 DEF UpdateEntry, tableVars
  <2> QED
    BY <2>4, <2>8, <2>9
<1>9. ASSUME NEW s \in Slots, WriteEntry(s)
      PROVE  EntryInv' /\ ReqInv' /\ UNCHANGED <<cache_entry, past>>
  <2>1. request[s].value \in past
    BY <1>9, ReqKinds DEF WriteEntry, AtStep, InFlight, ReqInv, RowReq
  <2> QED
    BY <1>9, <2>1 DEF WriteEntry, Finish, ReqInv, Requests, cacheVars
<1>10. CASE UNCHANGED configVars
  BY <1>10 DEF configVars, tableVars, cacheVars, ReqInv
<1>11. ASSUME NEW s \in Slots, Serve(s)
       PROVE  EntryInv' /\ ReqInv' /\ [Promise!SettingsNext]_<<cache_entry, past>>
  <2>1. ASSUME NEW c \in Configs, SetPlugin(s, "config", c)
        PROVE  \E r \in ConfigReq \cup EnabledReq : Arrive(s, r)
    BY <2>1 DEF SetPlugin, ConfigReq
  <2>2. ASSUME NEW b \in BOOLEAN, SetPlugin(s, "enabled", b)
        PROVE  \E r \in ConfigReq \cup EnabledReq : Arrive(s, r)
    BY <2>2 DEF SetPlugin, EnabledReq
  <2> QED
    BY <1>4, <1>5, <1>6, <1>7, <1>8, <1>9, <1>11, <2>1, <2>2 DEF Serve
<1> QED
  BY <1>1, <1>2, <1>3, <1>10, <1>11 DEF ConfigNext

(* The cache's entry of a plugin is the register Settings describes: two   *)
(* setters that overlap lose nothing, and a restart, at any point of any   *)
(* write, brings back an entry that was current.                           *)
THEOREM EntryImplementsSettings == ConfigSpec => EntryIsRegister
<1>1. ConfigInit => EntryInv /\ ReqInv /\ Promise!SettingsInit
  BY EntryInit DEF ConfigInit, Promise!SettingsInit
<1>2. EntryInv /\ ReqInv /\ [ConfigNext]_configVars
        => EntryInv' /\ ReqInv' /\ [Promise!SettingsNext]_<<cache_entry, past>>
  BY EntryStep
<1> QED
  BY <1>1, <1>2, PTL DEF ConfigSpec, EntryIsRegister, Promise!SettingsSpec

-----------------------------------------------------------------------------
(* The invariant under which ConfigCorrect is proved.  Shapes first.       *)
Shapes ==
  /\ {table, cache, live} \subseteq [Sections -> Rows]
  /\ agreed \in [Sections -> BOOLEAN] /\ up \in BOOLEAN
  /\ to_seed \subseteq SeedRows

(* Who writes rows holds the connection; nothing is in flight while the    *)
(* server starts.                                                          *)
LockInv ==
  /\ \A s \in Slots : (db_lock = s) <=> AtStep(s, "rows")
  /\ ~up => InFlight = {}
  /\ up => to_seed = {}

(* A request nothing overlapped is the only one of its section, and the    *)
(* table and the cache hold its map as far as it has come.                 *)
Lone(s) == \A x \in InFlight : request[x].sec = request[s].sec => x = s

Written(s) ==
  LET r == request[s]
  IN  /\ r.at = "rows" => \A k \in Keys \ r.left : table[r.sec][k] = r.rows[k]
      /\ r.at \in {"cache", "live"} => table[r.sec] = r.rows
      /\ r.at = "live" => cache[r.sec] = r.rows

LoneInv ==
  \A s \in InFlight :
    request[s].sec \in Sections /\ request[s].alone => Lone(s) /\ Written(s)

(* The priorities in the table are those of one map: of the request that   *)
(* holds the connection, or of the file that is being read.                *)
Within(rows) == \A k \in Keys : table["priorities"][k] \in {rows[k], Absent}

OriginInv ==
  /\ \A s \in Slots : AtStep(s, "rows") /\ request[s].sec = "priorities"
                        => Within(request[s].rows)
  /\ to_seed # {} => Within(SeedMap)
  /\ RestoredWithinOnePut

StoreInv == Shapes /\ LockInv /\ LoneInv /\ OriginInv /\ SettledAgree
ConfigInv == EntryInv /\ ReqInv /\ StoreInv

LEMMA StoreInvInit == ConfigInit => StoreInv
<1> SUFFICES ASSUME ConfigInit PROVE StoreInv
  OBVIOUS
<1>1. Empty \in Rows /\ Within(SeedMap) /\ InFlight = {}
  BY DEF ConfigInit, Empty, Rows, Within, InFlight, Sections
<1>2. Shapes
  BY <1>1 DEF ConfigInit, Shapes
<1>3. LockInv
  BY <1>1 DEF ConfigInit, LockInv, AtStep
<1>4. OriginInv
  BY <1>1 DEF ConfigInit, OriginInv, RestoredWithinOnePut, Within, AtStep
<1> QED
  BY <1>1, <1>2, <1>3, <1>4 DEF ConfigInit, StoreInv, LoneInv, SettledAgree

(* A request that arrives disturbs no row; whoever it overlaps is marked.  *)
LEMMA ArriveKeeps ==
  ASSUME ConfigInv, NEW s \in Slots, NEW r \in Requests(past), r # Free,
         r.at # "rows", r.at # "cache", r.at # "live", Arrive(s, r)
  PROVE  StoreInv'
<1> DEFINE mates == {x \in InFlight : request[x].sec = r.sec}
<1> USE DEF ConfigInv, StoreInv
<1>1. UNCHANGED <<table, cache, live, db_lock, to_seed, up, agreed>>
  BY DEF Arrive, tableVars, cacheVars
<1>2. /\ request[s] = Free /\ up
      /\ \A x \in Slots : request'[x] = IF x = s THEN [r EXCEPT !.alone = (mates = {})]
                          ELSE IF x \in mates THEN [request[x] EXCEPT !.alone = FALSE]
                          ELSE request[x]
  BY DEF Arrive
<1>3. ASSUME NEW q, q \in Requests(past), q # Free, NEW b \in BOOLEAN
      PROVE  LET p == [q EXCEPT !.alone = b]
             IN  /\ p # Free /\ p.at = q.at /\ p.sec = q.sec /\ p.alone = b
                 /\ q \in PutReq => p.rows = q.rows /\ p.left = q.left
  <2>1. CASE q \in PutReq
    BY <1>3, <2>1 DEF PutReq, Free
  <2>2. CASE q \in ConfigReq
    BY <1>3, <2>2 DEF ConfigReq, PutReq, Free
  <2>3. CASE q \in EnabledReq
    BY <1>3, <2>3 DEF EnabledReq, PutReq, Free
  <2>4. CASE q \in RowReq(past)
    BY <1>3, <2>4 DEF RowReq, PutReq, Free
  <2>5. q \in PutReq \/ q \in ConfigReq \/ q \in EnabledReq \/ q \in RowReq(past)
    BY <1>3 DEF Requests
  <2> QED
    BY <2>1, <2>2, <2>3, <2>4, <2>5
<1>4. /\ request'[s] # Free /\ request'[s].sec = r.sec /\ request'[s].at = r.at
      /\ request'[s].alone = (mates = {})
  <2> DEFINE b == (mates = {})
  <2>1. request'[s] = [r EXCEPT !.alone = b]
    BY <1>2
  <2>2. b \in BOOLEAN
    OBVIOUS
  <2> HIDE DEF b
  <2>3. /\ [r EXCEPT !.alone = b] # Free /\ [r EXCEPT !.alone = b].at = r.at
        /\ [r EXCEPT !.alone = b].sec = r.sec /\ [r EXCEPT !.alone = b].alone = b
    BY <1>3, <2>2
  <2>4. request'[s] # Free /\ request'[s].sec = r.sec /\ request'[s].at = r.at
        /\ request'[s].alone = b
    BY <2>1, <2>3
  <2> QED
    BY <2>4 DEF b
<1>5. \A x \in Slots \ {s} :
        /\ x \in mates => ~request'[x].alone
        /\ x \notin mates => request'[x] = request[x]
        /\ request[x] = Free <=> request'[x] = Free
        /\ request[x] # Free =>
             /\ request'[x].at = request[x].at /\ request'[x].sec = request[x].sec
             /\ request[x] \in PutReq => /\ request'[x].rows = request[x].rows
                                         /\ request'[x].left = request[x].left
  <2> SUFFICES ASSUME NEW x \in Slots \ {s}, x \in mates
               PROVE  /\ ~request'[x].alone
                      /\ request[x] # Free /\ request'[x] # Free
                      /\ request'[x].at = request[x].at /\ request'[x].sec = request[x].sec
                      /\ request[x] \in PutReq => /\ request'[x].rows = request[x].rows
                                                  /\ request'[x].left = request[x].left
    <3> HIDE DEF mates
    <3>1. \A x \in Slots \ {s} : x \notin mates => request'[x] = request[x]
      BY <1>2 DEF mates
    <3> QED
      BY <3>1
  <2>1. request[x] # Free /\ request[x] \in Requests(past)
    BY DEF InFlight, ReqInv
  <2>2. request'[x] = [request[x] EXCEPT !.alone = FALSE]
    BY <1>2
  <2> DEFINE q == request[x]
             p == [q EXCEPT !.alone = FALSE]
  <2>3. /\ p # Free /\ p.at = q.at /\ p.sec = q.sec /\ p.alone = FALSE
        /\ q \in PutReq => p.rows = q.rows /\ p.left = q.left
    BY <2>1, <1>3
  <2> HIDE DEF mates, p
  <2> QED
    BY <2>1, <2>2, <2>3 DEF p
<1> HIDE DEF mates
<1>6. InFlight' = InFlight \cup {s} /\ s \notin InFlight
  BY <1>2, <1>4, <1>5 DEF InFlight
<1>7. Shapes'
  BY <1>1 DEF Shapes
<1>8. \A x \in Slots : AtStep(x, "rows")' <=> AtStep(x, "rows")
  BY <1>2, <1>4, <1>5, <1>6 DEF AtStep, InFlight
<1>9. LockInv'
  BY <1>1, <1>2, <1>8 DEF LockInv
<1>10. LoneInv'
  <2> SUFFICES ASSUME NEW x \in InFlight', request'[x].sec \in Sections, request'[x].alone
               PROVE  Lone(x)' /\ Written(x)'
    BY DEF LoneInv
  <2>1. CASE x = s
    <3>1. mates = {}
      BY <2>1, <1>4
    <3>2. Lone(x)'
      BY <2>1, <3>1, <1>4, <1>5, <1>6 DEF Lone, mates, InFlight
    <3> QED
      BY <2>1, <3>2, <1>4 DEF Written
  <2>2. CASE x # s
    <3>1. x \in InFlight /\ x \notin mates /\ request'[x] = request[x]
      BY <2>2, <1>5, <1>6 DEF InFlight
    <3>2. Lone(x) /\ Written(x)
      BY <3>1 DEF LoneInv
    <3>3. Written(x)'
      BY <3>1, <3>2, <1>1 DEF Written
    <3>4. r.sec # request[x].sec
      BY <3>1 DEF mates
    <3>5. Lone(x)'
      BY <3>1, <3>2, <3>4, <1>4, <1>5, <1>6 DEF Lone, InFlight
    <3> QED
      BY <3>3, <3>5
  <2> QED
    BY <2>1, <2>2
<1>11. OriginInv'
  <2>1. ASSUME NEW x \in Slots, AtStep(x, "rows")', request'[x].sec = "priorities"
        PROVE  Within(request[x].rows) /\ request'[x].rows = request[x].rows
    <3>1. AtStep(x, "rows") /\ x # s
      BY <2>1, <1>4, <1>8 DEF AtStep
    <3>2. request[x] \in PutReq
      BY <3>1, ReqKinds DEF AtStep, InFlight, ReqInv
    <3> QED
      BY <2>1, <3>1, <3>2, <1>5 DEF OriginInv, AtStep, InFlight
  <2>2. \A rows : Within(rows)' <=> Within(rows)
    BY <1>1 DEF Within
  <2> QED
    BY <2>1, <2>2, <1>1 DEF OriginInv, RestoredWithinOnePut, Within
<1>12. SettledAgree'
  <2> SUFFICES ASSUME NEW sec \in Sections, ~(\E x \in InFlight' : request'[x].sec = sec)
               PROVE  ~(\E x \in InFlight : request[x].sec = sec)
    BY <1>1 DEF SettledAgree
  <2> QED
    BY <1>5, <1>6 DEF InFlight
<1> QED
  BY <1>7, <1>9, <1>10, <1>11, <1>12

(* A step of one request leaves the sections of the others alone: what     *)
(* they have written stays, and a section that is settled stays settled.   *)
Settled(sec) ==
  (up /\ agreed[sec] /\ ~(\E s \in InFlight : request[s].sec = sec))
    => table[sec] = cache[sec] /\ cache[sec] = live[sec]

LEMMA StepKeeps ==
  ASSUME LoneInv, SettledAgree, NEW a \in InFlight,
         \A x \in Slots \ {a} : request'[x] = request[x],
         request'[a] # Free => request'[a].sec = request[a].sec,
         \A sec \in Sections \ {request[a].sec} :
           /\ table'[sec] = table[sec] /\ cache'[sec] = cache[sec]
           /\ live'[sec] = live[sec] /\ agreed'[sec] = agreed[sec],
         up' = up,
         request'[a] # Free /\ request'[a].sec \in Sections /\ request'[a].alone
           => request[a].alone /\ Written(a)',
         LET sec == request[a].sec
         IN  request'[a] = Free /\ agreed'[sec]
               => table'[sec] = cache'[sec] /\ cache'[sec] = live'[sec]
  PROVE  LoneInv' /\ SettledAgree'
<1>1. InFlight' \subseteq InFlight /\ InFlight \ {a} = InFlight' \ {a}
  BY DEF InFlight
<1>2. ASSUME NEW x \in InFlight', request'[x].sec \in Sections, request'[x].alone
      PROVE  (Lone(x) /\ Written(x))'
  <2>1. /\ x \in InFlight /\ request'[x].sec = request[x].sec /\ request[x].alone
        /\ x = a => request'[a] # Free
    BY <1>1, <1>2 DEF InFlight
  <2>2. Lone(x) /\ Written(x)
    BY <1>2, <2>1 DEF LoneInv
  <2>3. Lone(x)'
    BY <2>1, <2>2, <1>1 DEF Lone, InFlight
  <2>4. CASE x = a
    BY <2>4, <2>1, <2>3, <1>2
  <2>5. CASE x # a
    <3>1. request'[x] = request[x] /\ request[x].sec # request[a].sec
      BY <2>5, <2>1, <2>2 DEF InFlight, Lone
    <3>2. table'[request[x].sec] = table[request[x].sec]
          /\ cache'[request[x].sec] = cache[request[x].sec]
      BY <3>1, <1>2
    <3> QED
      BY <2>2, <2>3, <3>1, <3>2 DEF Written
  <2> QED
    BY <2>4, <2>5
<1>3. ASSUME NEW sec \in Sections PROVE Settled(sec)'
  <2>1. CASE sec = request[a].sec /\ request'[a] # Free
    <3>1. a \in InFlight' /\ request'[a].sec = sec
      BY <2>1 DEF InFlight
    <3> QED
      BY <3>1 DEF Settled
  <2>2. CASE sec = request[a].sec /\ request'[a] = Free
    BY <2>2 DEF Settled
  <2>3. CASE sec # request[a].sec
    <3>1. (\E x \in InFlight : request[x].sec = sec)
            => (\E x \in InFlight' : request'[x].sec = sec)
      BY <2>3, <1>1 DEF InFlight
    <3>2. Settled(sec)
      BY DEF Settled, SettledAgree
    <3> QED
      BY <2>3, <3>1, <3>2 DEF Settled
  <2> QED
    BY <2>1, <2>2, <2>3
<1> QED
  BY <1>2, <1>3 DEF LoneInv, SettledAgree, Settled

(* The steps of a PUT.                                                     *)
LEMMA PutKeeps ==
  ASSUME ConfigInv, NEW s \in Slots,
         LockConnection(s) \/ Unlock(s) \/ UpdateCache(s) \/ UpdateLive(s)
           \/ (\E k \in Keys : WriteRow(s, k))
  PROVE  StoreInv'
<1> DEFINE r == request[s]
           sec == r.sec
<1> USE DEF ConfigInv, StoreInv
<1>1. s \in InFlight /\ r \in PutReq
  BY ReqKinds DEF LockConnection, Unlock, UpdateCache, UpdateLive, WriteRow, AtStep,
                  InFlight, ReqInv
<1>2. sec \in Sections /\ r.rows \in Rows /\ r.rows \in Puts
  BY <1>1 DEF PutReq
<1>3. up /\ to_seed = {}
  BY <1>1 DEF LockInv
<1>4. r.alone => Written(s)
  BY <1>1, <1>2 DEF LoneInv
<1>5. /\ table \in [Sections -> Rows] /\ cache \in [Sections -> Rows]
      /\ live \in [Sections -> Rows] /\ agreed \in [Sections -> BOOLEAN]
  BY DEF Shapes
<1>6. Empty \in Rows
  BY DEF Empty, Rows
<1>7. CASE LockConnection(s)
  <2> DEFINE left == IF sec = "priorities" THEN {k \in Keys : r.rows[k] # Absent} ELSE Keys
             q == [r EXCEPT !.at = "rows", !.left = left]
  <2>1. /\ request' = [request EXCEPT ![s] = q] /\ db_lock = Absent /\ db_lock' = s
        /\ table' = IF sec = "priorities" THEN [table EXCEPT ![sec] = Empty] ELSE table
        /\ UNCHANGED <<cache, live, agreed, to_seed, up>>
    BY <1>7 DEF LockConnection, cacheVars, Same
  <2> HIDE DEF left
  <2>2. /\ q # Free /\ q.sec = sec /\ q.rows = r.rows /\ q.alone = r.alone
        /\ q.at = "rows" /\ q.left = left
    BY <1>1 DEF PutReq, Free
  <2> HIDE DEF q
  <2>3. request'[s] = q /\ \A x \in Slots \ {s} : request'[x] = request[x]
    BY <2>1 DEF ReqInv
  <2>4. Shapes'
    BY <2>1, <1>5, <1>6 DEF Shapes
  <2>5. LockInv'
    <3>1. \A x \in Slots : ~AtStep(x, "rows")
      BY <2>1 DEF LockInv
    <3>2. \A x \in Slots : AtStep(x, "rows")' <=> x = s
      BY <3>1, <2>2, <2>3 DEF AtStep, InFlight
    <3> QED
      BY <3>2, <2>1, <1>3 DEF LockInv
  <2>6. Written(s)'
    <3>1. \A k \in Keys \ left : sec = "priorities" /\ r.rows[k] = Absent
      BY DEF left
    <3>2. \A k \in Keys \ left : table'[sec][k] = r.rows[k]
      BY <3>1, <2>1, <1>5 DEF Sections, Empty
    <3> QED
      BY <3>2, <2>2, <2>3 DEF Written
  <2>7. LoneInv' /\ SettledAgree'
    BY StepKeeps, <1>1, <1>5, <2>1, <2>2, <2>3, <2>6
  <2>8. OriginInv'
    <3>1. \A x \in Slots \ {s} : ~AtStep(x, "rows")'
      BY <2>1, <2>3, <2>5 DEF LockInv
    <3>2. CASE sec = "priorities"
      <4>1. \A rows : Within(rows)'
        BY <3>2, <2>1, <1>5, <1>2 DEF Within, Empty
      <4> QED
        BY <4>1, <2>1, <1>3 DEF OriginInv, RestoredWithinOnePut, Within
    <3>3. CASE sec # "priorities"
      BY <3>1, <3>3, <2>1, <2>2, <2>3 DEF OriginInv, RestoredWithinOnePut, Within
    <3> QED
      BY <3>2, <3>3
  <2> QED
    BY <2>4, <2>5, <2>7, <2>8
<1>8. CASE Unlock(s)
  <2> DEFINE q == [r EXCEPT !.at = "cache"]
  <2>1. /\ request' = [request EXCEPT ![s] = q] /\ db_lock' = Absent
        /\ r.at = "rows" /\ r.left = {} /\ AtStep(s, "rows")
        /\ UNCHANGED <<table, cache, live, agreed, to_seed, up>>
    BY <1>8 DEF Unlock, AtStep, tableVars, cacheVars, Same
  <2>2. /\ q # Free /\ q.sec = sec /\ q.rows = r.rows /\ q.alone = r.alone
        /\ q.at = "cache"
    BY <1>1 DEF PutReq, Free
  <2> HIDE DEF q
  <2>3. request'[s] = q /\ \A x \in Slots \ {s} : request'[x] = request[x]
    BY <2>1 DEF ReqInv
  <2>4. Shapes'
    BY <2>1 DEF Shapes
  <2>5. LockInv'
    <3>1. \A x \in Slots \ {s} : ~AtStep(x, "rows")
      BY <2>1 DEF LockInv
    <3>2. \A x \in Slots : ~AtStep(x, "rows")'
      BY <3>1, <2>2, <2>3 DEF AtStep, InFlight
    <3> QED
      BY <3>2, <2>1, <1>3 DEF LockInv
  <2>6. r.alone => Written(s)'
    <3>1. r.alone => \A k \in Keys : table[sec][k] = r.rows[k]
      BY <2>1, <1>4 DEF Written
    <3>2. table[sec] \in Rows
      BY <1>2, <1>5
    <3>3. r.alone => table[sec] = r.rows
      BY <3>1, <3>2, <1>2 DEF Rows
    <3> QED
      BY <3>3, <2>1, <2>2, <2>3 DEF Written
  <2>7. LoneInv' /\ SettledAgree'
    BY StepKeeps, <1>1, <2>1, <2>2, <2>3, <2>6
  <2>8. OriginInv'
    BY <2>1, <2>2, <2>3 DEF OriginInv, RestoredWithinOnePut, Within, AtStep, InFlight
  <2> QED
    BY <2>4, <2>5, <2>7, <2>8
<1>9. CASE UpdateCache(s)
  <2> DEFINE q == [r EXCEPT !.at = "live"]
  <2>1. /\ request' = [request EXCEPT ![s] = q] /\ cache' = [cache EXCEPT ![sec] = r.rows]
        /\ r.at = "cache" /\ AtStep(s, "cache")
        /\ UNCHANGED <<table, live, agreed, to_seed, up, db_lock>>
    BY <1>9 DEF UpdateCache, AtStep, tableVars, Same
  <2>2. /\ q # Free /\ q.sec = sec /\ q.rows = r.rows /\ q.alone = r.alone
        /\ q.at = "live"
    BY <1>1 DEF PutReq, Free
  <2> HIDE DEF q
  <2>3. request'[s] = q /\ \A x \in Slots \ {s} : request'[x] = request[x]
    BY <2>1 DEF ReqInv
  <2>4. Shapes'
    BY <2>1, <1>2, <1>5 DEF Shapes
  <2>5. \A x \in Slots : AtStep(x, "rows")' <=> AtStep(x, "rows")
    BY <2>1, <2>2, <2>3 DEF AtStep, InFlight
  <2>6. r.alone => Written(s)'
    BY <2>1, <2>2, <2>3, <1>2, <1>4, <1>5 DEF Written
  <2>7. LoneInv' /\ SettledAgree'
    BY StepKeeps, <1>1, <1>5, <2>1, <2>2, <2>3, <2>6
  <2>8. OriginInv'
    BY <2>1, <2>2, <2>3 DEF OriginInv, RestoredWithinOnePut, Within, AtStep, InFlight
  <2> QED
    BY <2>1, <2>4, <2>5, <2>7, <2>8, <1>3 DEF LockInv
<1>10. CASE UpdateLive(s)
  <2>1. /\ request' = [request EXCEPT ![s] = Free] /\ live' = [live EXCEPT ![sec] = r.rows]
        /\ agreed' = [agreed EXCEPT ![sec] = r.alone] /\ r.at = "live" /\ AtStep(s, "live")
        /\ UNCHANGED <<table, cache, to_seed, up, db_lock>>
    BY <1>10 DEF UpdateLive, Finish, AtStep, tableVars, cacheVars, Same
  <2>2. request'[s] = Free /\ \A x \in Slots \ {s} : request'[x] = request[x]
    BY <2>1 DEF ReqInv
  <2>3. r.alone \in BOOLEAN
    BY <1>1 DEF PutReq
  <2>4. Shapes'
    BY <2>1, <2>3, <1>2, <1>5 DEF Shapes
  <2>5. \A x \in Slots : AtStep(x, "rows")' <=> AtStep(x, "rows")
    BY <2>1, <2>2 DEF AtStep, InFlight
  <2>6. agreed'[sec] => table'[sec] = cache'[sec] /\ cache'[sec] = live'[sec]
    <3>1. live'[sec] = r.rows /\ agreed'[sec] = r.alone
      BY <2>1, <1>2, <1>5
    <3>2. r.alone => table[sec] = r.rows /\ cache[sec] = r.rows
      BY <2>1, <1>4 DEF Written
    <3> QED
      BY <3>1, <3>2, <2>1
  <2>7. LoneInv' /\ SettledAgree'
    <3>1. \A c \in Sections \ {sec} : live'[c] = live[c] /\ agreed'[c] = agreed[c]
      BY <2>1, <1>5
    <3> QED
      BY StepKeeps, <1>1, <2>1, <2>2, <2>6, <3>1
  <2>8. OriginInv'
    BY <2>1, <2>2 DEF OriginInv, RestoredWithinOnePut, Within, AtStep, InFlight
  <2> QED
    BY <2>1, <2>4, <2>5, <2>7, <2>8, <1>3 DEF LockInv
<1>11. ASSUME NEW k \in Keys, WriteRow(s, k) PROVE StoreInv'
  <2> DEFINE q == [r EXCEPT !.left = r.left \ {k}]
  <2>1. /\ request' = [request EXCEPT ![s] = q]
        /\ table' = [table EXCEPT ![sec] = [table[sec] EXCEPT ![k] = r.rows[k]]]
        /\ r.at = "rows" /\ AtStep(s, "rows")
        /\ UNCHANGED <<cache, live, agreed, to_seed, up, db_lock>>
    BY <1>11 DEF WriteRow, AtStep, cacheVars, Same
  <2>2. /\ q # Free /\ q.sec = sec /\ q.rows = r.rows /\ q.alone = r.alone
        /\ q.at = "rows" /\ q.left = r.left \ {k}
    BY <1>1, <2>1 DEF PutReq, Free
  <2> HIDE DEF q
  <2>3. request'[s] = q /\ \A x \in Slots \ {s} : request'[x] = request[x]
    BY <2>1 DEF ReqInv
  <2>4. /\ table'[sec] = [table[sec] EXCEPT ![k] = r.rows[k]]
        /\ table[sec] \in Rows /\ table'[sec] \in Rows
        /\ \A c \in Sections \ {sec} : table'[c] = table[c]
    BY <2>1, <1>2, <1>5 DEF Rows
  <2>5. Shapes'
    BY <2>1, <2>4, <1>2, <1>5 DEF Shapes
  <2>6. \A x \in Slots : AtStep(x, "rows")' <=> AtStep(x, "rows")
    BY <2>1, <2>2, <2>3 DEF AtStep, InFlight
  <2>7. r.alone => Written(s)'
    BY <2>1, <2>2, <2>3, <2>4, <1>2, <1>4 DEF Written, Rows
  <2>8. LoneInv' /\ SettledAgree'
    BY StepKeeps, <1>1, <2>1, <2>2, <2>3, <2>4, <2>7
  <2>9. OriginInv'
    <3>1. \A x \in Slots \ {s} : ~AtStep(x, "rows")
      BY <2>1 DEF LockInv
    <3>2. sec = "priorities" =>
            \A l \in Keys : table'["priorities"][l] \in {r.rows[l], Absent}
      BY <2>1, <2>4, <1>2 DEF OriginInv, Within, Rows
    <3>3. sec # "priorities" => \A rows : Within(rows)' <=> Within(rows)
      BY <2>4 DEF Within, Sections
    <3>4. RestoredWithinOnePut'
      BY <3>2, <3>3, <1>2 DEF OriginInv, RestoredWithinOnePut, Within
    <3> QED
      BY <3>1, <3>2, <3>4, <2>1, <2>2, <2>3, <2>6, <1>3 DEF OriginInv, Within
  <2> QED
    BY <2>1, <2>5, <2>6, <2>8, <2>9, <1>3 DEF LockInv
<1> QED
  BY <1>7, <1>8, <1>9, <1>10, <1>11

(* The setters of a plugin entry touch no section.                         *)
LEMMA EntryKeeps ==
  ASSUME ConfigInv, NEW s \in Slots, UpdateEntry(s) \/ WriteEntry(s)
  PROVE  StoreInv'
<1> DEFINE r == request[s]
<1> USE DEF ConfigInv, StoreInv
<1>1. /\ s \in InFlight /\ r.at \in {"entry", "row"}
      /\ r \in ConfigReq \cup EnabledReq \cup RowReq(past)
  BY ReqKinds DEF UpdateEntry, WriteEntry, AtStep, InFlight, ReqInv
<1>2. r.sec = "plugins" /\ r.sec \notin Sections
  BY <1>1 DEF ConfigReq, EnabledReq, RowReq, Sections
<1>3. UNCHANGED <<table, cache, live, agreed, to_seed, up, db_lock>>
  BY DEF UpdateEntry, WriteEntry, cacheVars, tableVars, Same
<1>4. PICK q : /\ request' = [request EXCEPT ![s] = q]
               /\ q = Free \/ (q.at = "row" /\ q.sec = "plugins")
  <2>1. CASE WriteEntry(s)
    BY <2>1 DEF WriteEntry, Finish
  <2>2. CASE UpdateEntry(s)
    <3> DEFINE e == Changed(cache_entry, r.field, r.value)
               q == [r EXCEPT !.at = "row", !.value = e]
    <3>1. request' = [request EXCEPT ![s] = q]
      BY <2>2 DEF UpdateEntry
    <3> HIDE DEF e
    <3>2. q.at = "row" /\ q.sec = "plugins"
      BY <1>1, <1>2 DEF ConfigReq, EnabledReq, RowReq
    <3> QED
      BY <3>1, <3>2
  <2> QED
    BY <2>1, <2>2
<1>5. /\ request'[s] = q /\ \A x \in Slots \ {s} : request'[x] = request[x]
      /\ q # Free => q.at = "row" /\ q.sec = r.sec
  BY <1>2, <1>4 DEF ReqInv
<1>6. Shapes'
  BY <1>3 DEF Shapes
<1>7. \A x \in Slots : AtStep(x, "rows")' <=> AtStep(x, "rows")
  BY <1>1, <1>5 DEF AtStep, InFlight
<1>8. LoneInv' /\ SettledAgree'
  <2>1. agreed'[r.sec] /\ request'[s] = Free
          => \/ table'[r.sec] = cache'[r.sec] /\ cache'[r.sec] = live'[r.sec]
             \/ r.sec \notin Sections
    BY <1>2
  <2>2. \A x \in InFlight' : request'[x].sec \in Sections =>
          x # s /\ x \in InFlight /\ request'[x] = request[x]
    BY <1>2, <1>5 DEF InFlight
  <2>3. \A x \in InFlight \ {s} : x \in InFlight' /\ request'[x] = request[x]
    BY <1>5 DEF InFlight
  <2>4. LoneInv'
    <3> SUFFICES ASSUME NEW x \in InFlight', request'[x].sec \in Sections, request'[x].alone
                 PROVE  (Lone(x) /\ Written(x))'
      BY DEF LoneInv
    <3>1. x # s /\ x \in InFlight /\ request'[x] = request[x] /\ Lone(x) /\ Written(x)
      BY <2>2 DEF LoneInv
    <3>2. Lone(x)'
      BY <3>1, <2>2 DEF Lone
    <3> QED
      BY <3>1, <3>2, <1>3 DEF Written
  <2>5. SettledAgree'
    <3> SUFFICES ASSUME NEW sec \in Sections, \E x \in InFlight : request[x].sec = sec
                 PROVE  \E x \in InFlight' : request'[x].sec = sec
      BY <1>3 DEF SettledAgree
    <3> QED
      BY <2>3, <1>2
  <2> QED
    BY <2>4, <2>5
<1>9. OriginInv'
  <2>1. \A x \in Slots : AtStep(x, "rows")' => request'[x] = request[x]
    BY <1>1, <1>5, <1>7 DEF AtStep, InFlight
  <2> QED
    BY <1>3, <1>7, <2>1 DEF OriginInv, RestoredWithinOnePut, Within
<1>10. LockInv'
  BY <1>3, <1>5, <1>7, <1>1 DEF LockInv
<1> QED
  BY <1>6, <1>8, <1>9, <1>10

(* Reading the file, loading the caches and dying.                         *)
LEMMA StartKeeps ==
  ASSUME ConfigInv, (\E row \in SeedRows : SeedRow(row)) \/ Load \/ Crash
  PROVE  StoreInv'
<1> USE DEF ConfigInv, StoreInv
<1>1. CASE Crash
  <2>1. InFlight' = {} /\ \A x \in Slots : ~AtStep(x, "rows")'
    BY <1>1 DEF Crash, InFlight, AtStep
  <2>2. SeedRows # {}
    BY DEF SeedRows
  <2>3. Shapes'
    BY <1>1 DEF Crash, Shapes, tableVars, cacheVars
  <2>4. LockInv'
    BY <1>1, <2>1 DEF Crash, LockInv
  <2>5. LoneInv' /\ SettledAgree'
    BY <1>1, <2>1 DEF Crash, LoneInv, SettledAgree
  <2>6. UNCHANGED table /\ (to_seed' # {} => to_seed # {})
    BY <1>1, <2>2 DEF Crash, tableVars
  <2>7. OriginInv'
    BY <2>1, <2>6 DEF OriginInv, RestoredWithinOnePut, Within
  <2> QED
    BY <2>3, <2>4, <2>5, <2>7
<1>2. CASE Load
  <2>1. InFlight = {} /\ InFlight' = {} /\ UNCHANGED request
    BY <1>2 DEF Load, LockInv, InFlight
  <2>2. /\ Shapes' /\ UNCHANGED <<table, db_lock, to_seed>> /\ up' /\ to_seed = {}
        /\ cache' = table /\ live' = table
    BY <1>2 DEF Load, Shapes, tableVars
  <2>3. \A x \in Slots : AtStep(x, "rows")' <=> AtStep(x, "rows")
    BY <2>1 DEF AtStep
  <2>4. LockInv' /\ LoneInv' /\ SettledAgree'
    BY <2>1, <2>2, <2>3 DEF LockInv, LoneInv, SettledAgree
  <2>5. OriginInv'
    BY <2>1, <2>2, <2>3 DEF OriginInv, RestoredWithinOnePut, Within
  <2> QED
    BY <2>2, <2>4, <2>5
<1>3. ASSUME NEW row \in SeedRows, SeedRow(row) PROVE StoreInv'
  <2>1. /\ ~up /\ ~up' /\ InFlight = {} /\ UNCHANGED <<request, cache, live, agreed, db_lock>>
        /\ row \in to_seed /\ to_seed' = to_seed \ {row}
    BY <1>3 DEF SeedRow, LockInv, cacheVars
  <2>2. Within(SeedMap)
    BY <2>1 DEF OriginInv
  <2>3. /\ table' \in [Sections -> Rows]
        /\ \A k \in Keys : table'["priorities"][k] \in {SeedMap[k], Absent}
    <3>1. CASE row[1] = "plugins"
      BY <1>3, <3>1, <2>2 DEF SeedRow, Shapes, Within
    <3>2. CASE row[1] # "plugins"
      <4>1. row \in Sections \X Keys
        BY <3>2 DEF SeedRows
      <4>2. row[1] \in Sections /\ row[2] \in Keys
        BY <4>1
      <4>3. table' = [table EXCEPT ![row[1]] = [table[row[1]] EXCEPT ![row[2]] = SeedMap[row[2]]]]
        BY <1>3, <3>2 DEF SeedRow
      <4>4. table \in [Sections -> Rows] /\ SeedMap \in Rows
        BY DEF Shapes
      <4> QED
        BY <4>2, <4>3, <4>4, <2>2 DEF Within, Rows, Sections
    <3> QED
      BY <3>1, <3>2
  <2>4. Shapes'
    BY <2>1, <2>3, <1>3 DEF Shapes, SeedRow
  <2>5. InFlight' = {} /\ \A x \in Slots : ~AtStep(x, "rows") /\ ~AtStep(x, "rows")'
    BY <2>1 DEF InFlight, AtStep
  <2>6. LockInv' /\ LoneInv' /\ SettledAgree'
    BY <2>1, <2>5 DEF LockInv, LoneInv, SettledAgree
  <2>7. OriginInv'
    BY <2>3, <2>5 DEF OriginInv, RestoredWithinOnePut, Within
  <2> QED
    BY <2>4, <2>6, <2>7
<1> QED
  BY <1>1, <1>2, <1>3

LEMMA StoreInvStep ==
  ASSUME ConfigInv, [ConfigNext]_configVars
  PROVE  StoreInv'
<1>1. CASE UNCHANGED configVars
  <2>1. UNCHANGED InFlight /\ \A x \in Slots : AtStep(x, "rows")' <=> AtStep(x, "rows")
    BY <1>1 DEF configVars, InFlight, AtStep
  <2> QED
    BY <1>1, <2>1 DEF ConfigInv, StoreInv, configVars, tableVars, cacheVars, Shapes, LockInv,
         LoneInv, Lone, Written, OriginInv, Within, RestoredWithinOnePut, SettledAgree
<1>2. ASSUME NEW s \in Slots, Serve(s) PROVE StoreInv'
  <2>1. ASSUME NEW sec \in Sections, NEW rows \in Puts, Put(s, sec, rows) PROVE StoreInv'
    <3> DEFINE r == [op |-> "put", sec |-> sec, rows |-> rows, at |-> "lock",
                     left |-> Keys, alone |-> TRUE]
    <3>1. r \in Requests(past) /\ r # Free /\ r.at = "lock"
      BY DEF Requests, PutReq, Free
    <3>2. Arrive(s, r)
      BY <2>1 DEF Put
    <3> HIDE DEF r
    <3> QED
      BY <3>1, <3>2, ArriveKeeps
  <2>2. ASSUME NEW r \in ConfigReq \cup EnabledReq, Arrive(s, r) PROVE StoreInv'
    <3>1. r \in Requests(past) /\ r # Free /\ r.at = "entry"
      BY DEF Requests, ConfigReq, EnabledReq, Free
    <3> QED
      BY <2>2, <3>1, ArriveKeeps
  <2>3. ASSUME NEW c \in Configs, SetPlugin(s, "config", c)
        PROVE  \E r \in ConfigReq \cup EnabledReq : Arrive(s, r)
    BY <2>3 DEF SetPlugin, ConfigReq
  <2>4. ASSUME NEW b \in BOOLEAN, SetPlugin(s, "enabled", b)
        PROVE  \E r \in ConfigReq \cup EnabledReq : Arrive(s, r)
    BY <2>4 DEF SetPlugin, EnabledReq
  <2> QED
    BY <1>2, <2>1, <2>2, <2>3, <2>4, PutKeeps, EntryKeeps DEF Serve
<1> QED
  BY <1>1, <1>2, StartKeeps DEF ConfigNext

LEMMA ConfigInvariant == ConfigSpec => []ConfigInv
<1>1. ConfigInit => ConfigInv
  BY EntryInit, StoreInvInit DEF ConfigInv
<1>2. ConfigInv /\ [ConfigNext]_configVars => ConfigInv'
  BY EntryStep, StoreInvStep DEF ConfigInv
<1> QED
  BY <1>1, <1>2, PTL DEF ConfigSpec

(* Whatever requests overlap and wherever the server dies, table, cache    *)
(* and live store agree again after a request nothing overlapped and after *)
(* a restart, and the priorities in the table are those of one map.        *)
THEOREM ConfigStoreCorrect == ConfigSpec => []ConfigCorrect
<1>1. ConfigInv => ConfigCorrect
  <2> SUFFICES ASSUME ConfigInv PROVE ConfigCorrect
    OBVIOUS
  <2>1. \A s \in Slots : (db_lock = s) = AtStep(s, "rows")
    BY DEF ConfigInv, StoreInv, LockInv, AtStep
  <2>2. ConfigTypeOK
    BY <2>1 DEF ConfigInv, StoreInv, Shapes, EntryInv, ConfigTypeOK
  <2> QED
    BY <2>2 DEF ConfigInv, StoreInv, OriginInv, ConfigCorrect
<1> QED
  BY <1>1, ConfigInvariant, PTL

HIDE ConfigAssumption

-----------------------------------------------------------------------------
(* Resources.                                                              *)
USE ResourcesAssumption

(* A request: nothing is written by a deletion; a descriptor is held while *)
(* the temporary file is open.                                             *)
Calls ==
  [op : {"create", "update"}, id : Ids, value : Values, target : ProviderChoices,
   at : {"route", "file", "open", "write", "rename", "emit"}, fd : Inodes \cup {Missing}]
  \cup [op : {"delete"}, id : Ids, value : {Missing}, target : ProviderChoices,
        at : {"route", "file", "emit"}, fd : {Missing}]

CallInv ==
  /\ call \in [Handlers -> Calls \cup {NoCall}]
  /\ \A s \in Handling : call[s].at = "write" => call[s].fd \in Inodes

(* Nobody writes into what another id's names stand for, ...               *)
FdInv ==
  \A s \in Handling : \A id \in Ids \ {call[s].id} :
    call[s].at = "write" => call[s].fd \notin {disk[id], tmp[id]}

(* ... and an id with two requests is disturbed.                           *)
WritersAlone ==
  \A s, x \in Handling : s # x /\ call[s].id = call[x].id => call[s].id \in disturbed

(* Where a resource is: with the plugin or in its file, never in both.     *)
Current(id) == IF memory[id] # Missing THEN memory[id] ELSE FileValue(id)
FileSound(id) == OnDisk(id) => content[disk[id]] \in Values /\ memory[id] = Missing
ShownSound(id) ==
  shown_resource[id] # Missing /\ (\A s \in Handling : call[s].id = id => call[s].at # "emit")
    => shown_resource[id] = Current(id)

(* How far a request has come with what it creates or replaces.            *)
CallSound(c) ==
  /\ c.at = "write" => tmp[c.id] = c.fd
  /\ c.at = "rename" => tmp[c.id] # Missing /\ content[tmp[c.id]] = c.value
  /\ c.op = "create" /\ c.at # "emit" => memory[c.id] = Missing /\ ~OnDisk(c.id)
  /\ c.at \in {"open", "write", "rename"} => memory[c.id] = Missing
  /\ c.at = "emit" /\ c.op # "delete" => Current(c.id) = c.value
IdSound(id) ==
  id \notin disturbed =>
    /\ FileSound(id) /\ ShownSound(id)
    /\ \A s \in Handling : call[s].id = id => CallSound(call[s])

ResourcesInv ==
  ResourcesTypeOK /\ CallInv /\ FdInv /\ WritersAlone /\ \A id \in Ids : IdSound(id)

-----------------------------------------------------------------------------
LEMMA UnionSize ==
  ASSUME NEW S, NEW T, IsFiniteSet(S), IsFiniteSet(T)
  PROVE  /\ IsFiniteSet(S \cup T)
         /\ Cardinality(S \cup T) <= Cardinality(S) + Cardinality(T)
<1>1. /\ IsFiniteSet(S \cup T)
      /\ Cardinality(S \cup T) = Cardinality(S) + Cardinality(T) - Cardinality(S \cap T)
  BY FS_Union
<1>2. IsFiniteSet(S \cap T)
  BY FS_Intersection
<1>3. {Cardinality(S), Cardinality(T), Cardinality(S \cap T)} \subseteq Nat
  BY <1>2, FS_CardinalityType
<1> QED
  BY <1>1, <1>3

(* More inodes than names and descriptors: one is free.                    *)
LEMMA InodeFree ==
  ASSUME ResourcesTypeOK, CallInv
  PROVE  NewInode \in Inodes /\ NewInode \notin Used
<1> DEFINE OnDisks == {disk[id] : id \in Ids}
           Temps   == {tmp[id] : id \in Ids}
           Fds     == {call[s].fd : s \in Handling}
<1>1. IsFiniteSet(OnDisks) /\ Cardinality(OnDisks) <= Cardinality(Ids)
  <2>1. [id \in Ids |-> disk[id]] \in Surjection(Ids, OnDisks)
    BY DEF Surjection
  <2> HIDE DEF OnDisks
  <2> QED
    BY <2>1, FS_Surjection
<1>2. IsFiniteSet(Temps) /\ Cardinality(Temps) <= Cardinality(Ids)
  <2>1. [id \in Ids |-> tmp[id]] \in Surjection(Ids, Temps)
    BY DEF Surjection
  <2> HIDE DEF Temps
  <2> QED
    BY <2>1, FS_Surjection
<1>3. IsFiniteSet(Fds) /\ Cardinality(Fds) <= Cardinality(Handlers)
  <2>1. [s \in Handling |-> call[s].fd] \in Surjection(Handling, Fds)
    BY DEF Surjection
  <2>2. IsFiniteSet(Handling) /\ Cardinality(Handling) <= Cardinality(Handlers)
    BY FS_Subset DEF Handling
  <2>3. IsFiniteSet(Fds) /\ Cardinality(Fds) <= Cardinality(Handling)
    <3> HIDE DEF Fds
    <3> QED
      BY <2>1, <2>2, FS_Surjection
  <2> HIDE DEF Fds
  <2>4. {Cardinality(Fds), Cardinality(Handling), Cardinality(Handlers)} \subseteq Nat
    BY <2>2, <2>3, FS_CardinalityType
  <2> QED
    BY <2>2, <2>3, <2>4
<1> HIDE DEF OnDisks, Temps, Fds
<1>4. {Cardinality(OnDisks), Cardinality(Temps), Cardinality(Fds), Cardinality(Ids),
       Cardinality(Handlers), Cardinality(Inodes)} \subseteq Nat
  BY <1>1, <1>2, <1>3, FS_CardinalityType
<1>5. /\ IsFiniteSet(OnDisks \cup Temps)
      /\ Cardinality(OnDisks \cup Temps) <= Cardinality(OnDisks) + Cardinality(Temps)
  BY <1>1, <1>2, UnionSize
<1>6. /\ IsFiniteSet((OnDisks \cup Temps) \cup Fds)
      /\ Cardinality((OnDisks \cup Temps) \cup Fds)
           <= Cardinality(OnDisks \cup Temps) + Cardinality(Fds)
  BY <1>3, <1>5, UnionSize
<1>7. Used = (OnDisks \cup Temps) \cup Fds
  BY DEF Used, OnDisks, Temps, Fds
<1>8. ~(Inodes \subseteq Used)
  <2> SUFFICES ASSUME Inodes \subseteq Used PROVE FALSE
    OBVIOUS
  <2>1. Cardinality(Inodes) <= Cardinality(Used)
    BY <1>6, <1>7, FS_Subset
  <2>2. {Cardinality(Used), Cardinality(OnDisks \cup Temps)} \subseteq Nat
    BY <1>5, <1>6, <1>7, FS_CardinalityType
  <2>3. Cardinality(Used) <= Cardinality(OnDisks \cup Temps) + Cardinality(Fds)
    BY <1>6, <1>7
  <2> QED
    BY <1>1, <1>2, <1>3, <1>4, <1>5, <2>1, <2>2, <2>3
<1>9. \E n \in Inodes : n \notin Used
  BY <1>8
<1> QED
  BY <1>9 DEF NewInode

(* A step of one request, s, on one id: other requests and the names of    *)
(* other ids stay, and what is in their files.                             *)
NameKept(o) ==
  /\ disk'[o] = disk[o] /\ tmp'[o] = tmp[o]
  /\ memory'[o] = memory[o] /\ shown_resource'[o] = shown_resource[o]
  /\ disk[o] # Missing => content'[disk[o]] = content[disk[o]]
  /\ tmp[o] # Missing => content'[tmp[o]] = content[tmp[o]]
ByOne(s, id) ==
  /\ \A x \in Handlers \ {s} : call'[x] = call[x]
  /\ s \in Handling => call[s].id = id
  /\ s \in Handling' => call'[s].id = id
  /\ disturbed \subseteq disturbed'
  /\ s \in Handling \/ (\A x \in Handling : call[x].id = id => id \in disturbed')
  /\ \A o \in Ids \ {id} : NameKept(o)

(* The names of the id are its old ones, or stand for a free inode.        *)
NamesOwn(s, id) ==
  /\ {disk'[id], tmp'[id]} \subseteq {disk[id], tmp[id], Missing} \cup (Inodes \ Used)
  /\ s \in Handling' /\ call'[s].at = "write" =>
       \A o \in Ids \ {id} : call'[s].fd \notin {disk[o], tmp[o]}

LEMMA OthersFd ==
  ASSUME ResourcesInv, NEW s \in Handlers, NEW id \in Ids, ByOne(s, id), NamesOwn(s, id)
  PROVE  FdInv'
<1> SUFFICES ASSUME NEW x \in Handling', NEW o \in Ids, o # call'[x].id,
                    call'[x].at = "write"
             PROVE  call'[x].fd \notin {disk'[o], tmp'[o]}
  BY DEF FdInv
<1>1. CASE x = s
  <2>1. call'[s].id = id
    BY <1>1 DEF ByOne
  <2> QED
    BY <1>1, <2>1 DEF ByOne, NamesOwn, NameKept
<1>2. CASE x # s
  <2>1. x \in Handlers /\ x \in Handling /\ call'[x] = call[x]
    BY <1>2 DEF ByOne, Handling
  <2>2. call[x].fd \notin {disk[o], tmp[o]}
    BY <2>1 DEF ResourcesInv, FdInv
  <2>3. call[x].fd \in Used /\ call[x].fd \in Inodes
    BY <2>1 DEF Used, ResourcesInv, CallInv
  <2>4. Missing \notin Inodes
    OBVIOUS
  <2>5. CASE o # id
    BY <2>1, <2>2, <2>5 DEF ByOne, NameKept
  <2>6. CASE o = id
    BY <2>1, <2>2, <2>3, <2>4, <2>6 DEF NamesOwn
  <2> QED
    BY <2>5, <2>6
<1> QED
  BY <1>1, <1>2

LEMMA StaysAlone ==
  ASSUME ResourcesInv, NEW s \in Handlers, NEW id \in Ids, ByOne(s, id)
  PROVE  WritersAlone'
<1> SUFFICES ASSUME NEW x \in Handling', NEW y \in Handling', x # y,
                    call'[x].id = call'[y].id
             PROVE  call'[x].id \in disturbed'
  BY DEF WritersAlone
<1>1. \A z \in Handling' : z \in Handlers /\ (z # s => z \in Handling /\ call'[z] = call[z])
  BY DEF ByOne, Handling
<1>2. CASE x # s /\ y # s
  BY <1>1, <1>2 DEF ResourcesInv, WritersAlone, ByOne
<1>3. ASSUME NEW z \in Handling', z # s, call'[z].id = id, s \in Handling'
      PROVE  id \in disturbed'
  <2>1. z \in Handling /\ call[z].id = id
    BY <1>1, <1>3
  <2> QED
    BY <1>3, <2>1 DEF ByOne, ResourcesInv, WritersAlone
<1> QED
  BY <1>1, <1>2, <1>3 DEF ByOne

LEMMA OthersSound ==
  ASSUME ResourcesInv, NEW s \in Handlers, NEW id \in Ids, ByOne(s, id),
         NEW o \in Ids, o # id
  PROVE  IdSound(o)'
<1> SUFFICES ASSUME o \notin disturbed'
             PROVE  /\ FileSound(o)' /\ ShownSound(o)'
                    /\ \A x \in Handling' : call'[x].id = o => CallSound(call[x])'
  BY DEF IdSound
<1>1. o \notin disturbed /\ NameKept(o)
  BY DEF ByOne
<1>2. IdSound(o)
  BY DEF ResourcesInv
<1>3. Current(o)' = Current(o) /\ OnDisk(o)' = OnDisk(o)
  BY <1>1 DEF Current, FileValue, OnDisk, NameKept
<1>4. FileSound(o)'
  BY <1>1, <1>2, <1>3 DEF IdSound, FileSound, NameKept, OnDisk
<1>5. \A x \in Handling' : call'[x].id = o => x \in Handling /\ call'[x] = call[x]
  BY DEF ByOne, Handling
<1>6. \A x \in Handling : call[x].id = o => x \in Handling' /\ call'[x] = call[x]
  BY DEF ByOne, Handling
<1>7. ShownSound(o)'
  BY <1>1, <1>2, <1>3, <1>6 DEF IdSound, ShownSound, NameKept
<1>8. ASSUME NEW x \in Handling', call'[x].id = o PROVE CallSound(call[x])'
  <2>1. x \in Handling /\ call'[x] = call[x] /\ CallSound(call[x])
    BY <1>1, <1>2, <1>5, <1>8 DEF IdSound
  <2> QED
    BY <1>1, <1>3, <1>8, <2>1 DEF CallSound, NameKept, OnDisk
<1> QED
  BY <1>4, <1>7, <1>8

(* Where a request stands alone, it is enough to look at it.               *)
LEMMA OneSound ==
  ASSUME ResourcesInv, NEW s \in Handlers, NEW id \in Ids, ByOne(s, id),
         id \notin disturbed' => /\ FileSound(id)' /\ ShownSound(id)'
                                 /\ s \in Handling' => CallSound(call[s])'
  PROVE  \A o \in Ids : IdSound(o)'
<1>1. ASSUME id \notin disturbed', NEW x \in Handling', call'[x].id = id PROVE x = s
  <2> SUFFICES ASSUME x # s PROVE FALSE
    OBVIOUS
  <2>1. x \in Handling /\ call[x].id = id
    BY <1>1 DEF ByOne, Handling
  <2> QED
    BY <1>1, <2>1 DEF ByOne, ResourcesInv, WritersAlone
<1>2. IdSound(id)'
  BY <1>1 DEF IdSound
<1> QED
  BY <1>2, OthersSound

(* A request that has nothing to emit yet, or gives up, leaves what is     *)
(* shown as sound as it was.                                               *)
LEMMA QuietShown ==
  ASSUME ResourcesInv, NEW s \in Handling, NEW id \in Ids, id = call[s].id,
         id \notin disturbed, call[s].at # "emit",
         Current(id)' = Current(id), shown_resource'[id] = shown_resource[id]
  PROVE  ShownSound(id)'
<1>1. ShownSound(id)
  BY DEF ResourcesInv, IdSound
<1>2. \A x \in Handling : call[x].id = id => x = s
  BY DEF ResourcesInv, WritersAlone
<1> QED
  BY <1>1, <1>2 DEF ShownSound

-----------------------------------------------------------------------------
LEMMA CallKinds ==
  ASSUME CallInv, NEW s \in Handling
  PROVE  /\ call[s] \in Calls /\ call[s] # NoCall /\ s \in Handlers
         /\ call[s].id \in Ids
         /\ call[s].op # "delete" => call[s].value \in Values
         /\ call[s].op = "delete" => /\ call[s].value = Missing
                                     /\ call[s].at \in {"route", "file", "emit"}
         /\ call[s].op \in {"create", "update", "delete"}
         /\ call[s].at \in {"route", "file", "open", "write", "rename", "emit"}
BY DEF CallInv, Calls, Handling

LEMMA NoCallIsNone == NoCall \notin Calls
BY DEF NoCall, Calls

(* The request a step leaves behind.                                       *)
LEMMA CallStep ==
  ASSUME CallInv, NEW s \in Handlers, NEW c \in Calls \cup {NoCall},
         call' = [call EXCEPT ![s] = c],
         c # NoCall /\ c.at = "write" => c.fd \in Inodes
  PROVE  CallInv'
<1>1. call' \in [Handlers -> Calls \cup {NoCall}]
  BY DEF CallInv
<1>2. \A x \in Handling' : x = s \/ (x \in Handling /\ call'[x] = call[x])
  BY DEF Handling, CallInv
<1>3. s \in Handling' => call'[s] = c /\ c # NoCall
  BY DEF Handling, CallInv
<1> QED
  BY <1>1, <1>2, <1>3 DEF CallInv

LEMMA StepTo ==
  ASSUME CallInv, NEW s \in Handling,
         NEW at \in {"route", "file", "open", "write", "rename", "emit"},
         call[s].op = "delete" => at \in {"route", "file", "emit"}
  PROVE  /\ [call[s] EXCEPT !.at = at] \in Calls
         /\ [call[s] EXCEPT !.at = at].id = call[s].id
         /\ [call[s] EXCEPT !.at = at].op = call[s].op
         /\ [call[s] EXCEPT !.at = at].value = call[s].value
         /\ [call[s] EXCEPT !.at = at].at = at
BY CallKinds DEF Calls

(* A step that only moves the request on, or answers it.                   *)
LEMMA OnlyCall ==
  ASSUME ResourcesInv, NEW s \in Handling, NEW c \in Calls \cup {NoCall},
         call' = [call EXCEPT ![s] = c], c # NoCall => c.id = call[s].id,
         UNCHANGED <<fileVars, memory, shown_resource>>, RegistrySame,
         call[s].at # "emit",
         c # NoCall => c.at # "write" /\ (c.id \notin disturbed => CallSound(c))
  PROVE  ResourcesInv'
<1>1. s \in Handlers /\ call[s].id \in Ids
  BY CallKinds DEF ResourcesInv
<1>0. PICK id \in Ids : id = call[s].id
  BY <1>1
<1>2. ResourcesTypeOK'
  BY DEF ResourcesInv, ResourcesTypeOK, fileVars, RegistrySame, registryVars
<1>3. CallInv'
  BY CallStep DEF ResourcesInv, Handling
<1>4. \A x \in Handlers : call'[x] = IF x = s THEN c ELSE call[x]
  BY DEF ResourcesInv, CallInv
<1>5. s \in Handling' => c # NoCall /\ call'[s] = c
  BY <1>1, <1>4 DEF Handling
<1>6. UNCHANGED <<disk, tmp, content, memory, shown_resource, disturbed>>
  BY DEF fileVars, RegistrySame
<1>7. ByOne(s, id)
  BY <1>0, <1>1, <1>4, <1>5, <1>6 DEF ByOne, NameKept
<1>8. NamesOwn(s, id)
  BY <1>5, <1>6 DEF NamesOwn
<1>9. FdInv' /\ WritersAlone'
  BY <1>1, <1>7, <1>8, OthersFd, StaysAlone
<1>10. ASSUME id \notin disturbed'
       PROVE  /\ FileSound(id)' /\ ShownSound(id)'
              /\ s \in Handling' => CallSound(call[s])'
  <2>1. IdSound(id) /\ id \notin disturbed
    BY <1>1, <1>6, <1>10 DEF ResourcesInv
  <2>2. FileSound(id)'
    BY <1>6, <2>1 DEF IdSound, FileSound, OnDisk
  <2>3. Current(id)' = Current(id)
    BY <1>6 DEF Current, FileValue, OnDisk
  <2>4. ShownSound(id)'
    BY <1>1, <1>6, <2>1, <2>3, <1>0, QuietShown
  <2>5. s \in Handling' => CallSound(call[s])'
    <3> SUFFICES ASSUME s \in Handling' PROVE CallSound(call[s])'
      OBVIOUS
    <3>1. call'[s] = c /\ CallSound(c)
      BY <1>0, <1>5, <2>1
    <3> QED
      BY <3>1, <1>6 DEF CallSound, Current, FileValue, OnDisk
  <2> QED
    BY <2>2, <2>4, <2>5
<1>11. \A o \in Ids : IdSound(o)'
  BY <1>1, <1>7, <1>10, OneSound
<1> QED
  BY <1>2, <1>3, <1>9, <1>11 DEF ResourcesInv

LEMMA ReplyOnly ==
  ASSUME ResourcesInv, NEW s \in Handling, Reply(s),
         UNCHANGED <<fileVars, memory, shown_resource>>, RegistrySame,
         call[s].at # "emit"
  PROVE  ResourcesInv'
<1> DEFINE c == NoCall
<1>1. c \in Calls \cup {NoCall} /\ call' = [call EXCEPT ![s] = c]
  BY DEF Reply
<1>2. c = NoCall
  OBVIOUS
<1> HIDE DEF c
<1> QED
  BY <1>1, <1>2, OnlyCall

LEMMA StepOnly ==
  ASSUME ResourcesInv, NEW s \in Handling, call[s].at # "emit",
         NEW at \in {"file", "open"}, Step(s, at),
         call[s].op = "delete" => at = "file",
         UNCHANGED <<fileVars, memory, shown_resource>>, RegistrySame,
         call[s].at \in {"route", "file"},
         at = "open" /\ call[s].id \notin disturbed => memory[call[s].id] = Missing
  PROVE  ResourcesInv'
<1> DEFINE c == [call[s] EXCEPT !.at = at]
<1>1. call' = [call EXCEPT ![s] = c]
  BY CallKinds DEF Step, ResourcesInv, CallInv
<1>2. c \in Calls /\ c.id = call[s].id /\ c.op = call[s].op /\ c.at = at
  <2>1. CallInv
    BY DEF ResourcesInv
  <2>2. at \in {"route", "file", "open", "write", "rename", "emit"}
    OBVIOUS
  <2> QED
    BY <2>1, <2>2, StepTo
<1> HIDE DEF c
<1>3. c.id \notin disturbed => CallSound(c)
  <2> SUFFICES ASSUME c.id \notin disturbed PROVE CallSound(c)
    OBVIOUS
  <2>1. CallSound(call[s])
    BY <1>2, CallKinds DEF ResourcesInv, IdSound
  <2> QED
    BY <1>2, <2>1 DEF CallSound
<1> QED
  BY <1>1, <1>2, <1>3, OnlyCall, NoCallIsNone

(* What is left to show of a step of one request on its id.                *)
LEMMA Combine ==
  ASSUME ResourcesInv, NEW s \in Handlers, NEW id \in Ids,
         ResourcesTypeOK', CallInv', ByOne(s, id), NamesOwn(s, id),
         id \notin disturbed' => /\ FileSound(id)' /\ ShownSound(id)'
                                 /\ s \in Handling' => CallSound(call[s])'
  PROVE  ResourcesInv'
<1>1. FdInv' /\ WritersAlone'
  BY OthersFd, StaysAlone
<1>2. \A o \in Ids : IdSound(o)'
  BY OneSound
<1> QED
  BY <1>1, <1>2 DEF ResourcesInv

LEMMA AcceptOK ==
  ASSUME ResourcesInv, NEW s \in Handlers, NEW doing, NEW id \in Ids, NEW value, NEW target,
         AcceptCall(s, doing, id, value, target, "route"),
         [op |-> doing, id |-> id, value |-> value, target |-> target, at |-> "route",
          fd |-> Missing] \in Calls,
         doing = "create" => id \notin Taken
  PROVE  ResourcesInv'
<1> DEFINE c == [op |-> doing, id |-> id, value |-> value, target |-> target, at |-> "route",
                 fd |-> Missing]
<1>1. /\ c \in Calls /\ c.id = id /\ c.op = doing /\ c.at = "route"
      /\ call' = [call EXCEPT ![s] = c] /\ s \notin Handling
      /\ UNCHANGED <<disk, tmp, content, memory, shown_resource, plugged, by_default>>
      /\ disturbed' = IF \E x \in Handling : call[x].id = id
                      THEN disturbed \cup {id} ELSE disturbed
  BY DEF AcceptCall, fileVars, registryVars, Handling
<1> HIDE DEF c
<1>2. c # NoCall
  BY <1>1, NoCallIsNone
<1>3. ResourcesTypeOK'
  BY <1>1 DEF ResourcesInv, ResourcesTypeOK
<1>4. CallInv'
  BY <1>1, CallStep DEF ResourcesInv
<1>5. \A x \in Handlers : call'[x] = IF x = s THEN c ELSE call[x]
  BY <1>1 DEF ResourcesInv, CallInv
<1>6. ByOne(s, id)
  <2>1. disturbed \subseteq disturbed'
    BY <1>1
  <2>2. \A x \in Handling : call[x].id = id => id \in disturbed'
    BY <1>1
  <2>3. \A o \in Ids : NameKept(o)
    BY <1>1 DEF NameKept
  <2>4. s \in Handling' => call'[s].id = id
    BY <1>1, <1>5
  <2> QED
    BY <1>1, <1>5, <2>1, <2>2, <2>3, <2>4 DEF ByOne
<1>7. NamesOwn(s, id)
  BY <1>1, <1>5 DEF NamesOwn
<1>8. ASSUME id \notin disturbed'
      PROVE  FileSound(id)' /\ ShownSound(id)' /\ CallSound(call[s])'
  <2>1. id \notin disturbed /\ \A x \in Handling : call[x].id # id
    BY <1>1, <1>8
  <2>2. FileSound(id) /\ ShownSound(id)
    BY <2>1 DEF ResourcesInv, IdSound
  <2>3. FileSound(id)' /\ Current(id)' = Current(id)
    BY <1>1, <2>2 DEF FileSound, Current, FileValue, OnDisk
  <2>4. ShownSound(id)'
    BY <1>1, <2>1, <2>2, <2>3 DEF ShownSound
  <2>5. doing = "create" => memory[id] = Missing /\ ~OnDisk(id)
    BY DEF Taken
  <2>6. CallSound(call[s])'
    BY <1>1, <1>5, <2>5 DEF CallSound, OnDisk
  <2> QED
    BY <2>3, <2>4, <2>6
<1> QED
  BY <1>3, <1>4, <1>6, <1>7, <1>8, Combine

(* The facts every step of a request starts from, on its id.               *)
LEMMA Here ==
  ASSUME ResourcesInv, NEW s \in Handling
  PROVE  /\ s \in Handlers /\ call[s].id \in Ids /\ CallInv /\ ResourcesTypeOK
         /\ call[s].id \notin disturbed =>
              FileSound(call[s].id) /\ ShownSound(call[s].id) /\ CallSound(call[s])
BY CallKinds DEF ResourcesInv, IdSound

LEMMA StepCall ==
  ASSUME ResourcesInv, NEW s \in Handling,
         NEW at \in {"file", "open", "rename", "emit"}, Step(s, at),
         call[s].op = "delete" => at \in {"file", "emit"}
  PROVE  /\ CallInv' /\ s \in Handling'
         /\ \A x \in Handlers \ {s} : call'[x] = call[x]
         /\ call'[s].id = call[s].id /\ call'[s].op = call[s].op
         /\ call'[s].value = call[s].value /\ call'[s].at = at
<1> DEFINE c == [call[s] EXCEPT !.at = at]
<1>1. call' = [call EXCEPT ![s] = c]
  BY CallKinds DEF Step, ResourcesInv, CallInv
<1>2. /\ c \in Calls /\ c.id = call[s].id /\ c.op = call[s].op /\ c.at = at
      /\ c.value = call[s].value
  <2>1. CallInv
    BY DEF ResourcesInv
  <2>2. at \in {"route", "file", "open", "write", "rename", "emit"}
    OBVIOUS
  <2> QED
    BY <2>1, <2>2, StepTo
<1> HIDE DEF c
<1>3. \A x \in Handlers : call'[x] = IF x = s THEN c ELSE call[x]
  BY <1>1 DEF ResourcesInv, CallInv
<1>4. s \in Handlers /\ CallInv
  BY Here
<1>5. s \in Handling'
  BY <1>2, <1>3, <1>4, NoCallIsNone DEF Handling
<1>6. CallInv'
  BY <1>1, <1>2, <1>4, CallStep
<1> QED
  BY <1>2, <1>3, <1>4, <1>5, <1>6

LEMMA PluginTakes ==
  ASSUME ResourcesInv, NEW s \in Handling, Step(s, "emit"), call[s].at = "route",
         call[s].op = "create" \/ memory[call[s].id] # Missing,
         memory' = [memory EXCEPT ![call[s].id] = call[s].value],
         UNCHANGED <<fileVars, shown_resource>>, RegistrySame
  PROVE  ResourcesInv'
<1>1. PICK id \in Ids : id = call[s].id
  BY Here
<1>2. UNCHANGED <<disk, tmp, content, shown_resource, plugged, by_default, disturbed>>
  BY DEF fileVars, RegistrySame, registryVars
<1>3. s \in Handlers /\ ResourcesTypeOK /\ CallInv
  BY Here
<1>4. /\ CallInv' /\ s \in Handling'
      /\ \A x \in Handlers \ {s} : call'[x] = call[x]
      /\ call'[s].id = id /\ call'[s].op = call[s].op
      /\ call'[s].value = call[s].value /\ call'[s].at = "emit"
  BY <1>1, StepCall
<1>5. /\ call[s].value \in Values \cup {Missing}
      /\ call[s].op # "delete" => call[s].value # Missing
  BY <1>3, CallKinds
<1>6. \A o \in Ids : memory'[o] = IF o = id THEN call[s].value ELSE memory[o]
  BY <1>1, <1>3 DEF ResourcesTypeOK
<1>7. ResourcesTypeOK'
  BY <1>1, <1>2, <1>3, <1>5 DEF ResourcesTypeOK
<1>8. ByOne(s, id)
  BY <1>1, <1>2, <1>4, <1>6 DEF ByOne, NameKept
<1>9. NamesOwn(s, id)
  BY <1>2, <1>4 DEF NamesOwn
<1>10. ASSUME id \notin disturbed'
       PROVE  FileSound(id)' /\ ShownSound(id)' /\ CallSound(call[s])'
  <2>1. FileSound(id) /\ CallSound(call[s])
    BY <1>1, <1>2, <1>10, Here
  <2>2. ~OnDisk(id)
    BY <1>1, <2>1 DEF FileSound, CallSound
  <2>3. FileSound(id)'
    BY <1>2, <2>2 DEF FileSound, OnDisk
  <2>4. ShownSound(id)'
    BY <1>4 DEF ShownSound
  <2>5. CallSound(call[s])'
    BY <1>4, <1>5, <1>6 DEF CallSound, Current
  <2> QED
    BY <2>3, <2>4, <2>5
<1> QED
  BY <1>3, <1>4, <1>7, <1>8, <1>9, <1>10, Combine

LEMMA RemoveOK ==
  ASSUME ResourcesInv, NEW s \in Handlers, RemoveFile(s)
  PROVE  ResourcesInv'
<1> USE DEF RemoveFile, Reached
<1>0. s \in Handling /\ call[s].at = "file" /\ call[s].op = "delete" /\ Step(s, "emit")
  OBVIOUS
<1>1. PICK id \in Ids : id = call[s].id
  BY Here
<1>2. /\ UNCHANGED <<tmp, content, memory, shown_resource, plugged, by_default, disturbed>>
      /\ disk' = [disk EXCEPT ![id] = Missing]
  BY <1>1 DEF fileVars, RegistrySame, registryVars
<1>3. s \in Handlers /\ ResourcesTypeOK /\ CallInv
  BY Here
<1>4. /\ CallInv' /\ s \in Handling'
      /\ \A x \in Handlers \ {s} : call'[x] = call[x]
      /\ call'[s].id = id /\ call'[s].op = "delete" /\ call'[s].at = "emit"
  BY <1>0, <1>1, StepCall
<1>5. \A o \in Ids : disk'[o] = IF o = id THEN Missing ELSE disk[o]
  BY <1>2, <1>3 DEF ResourcesTypeOK
<1>6. ResourcesTypeOK'
  <2>1. disk' \in [Ids -> Inodes \cup {Missing}]
    BY <1>2, <1>3 DEF ResourcesTypeOK
  <2> QED
    BY <1>2, <1>3, <1>5, <2>1 DEF ResourcesTypeOK
<1>7. ByOne(s, id)
  BY <1>1, <1>2, <1>4, <1>5 DEF ByOne, NameKept
<1>8. NamesOwn(s, id)
  BY <1>2, <1>4, <1>5 DEF NamesOwn
<1>9. FileSound(id)' /\ ShownSound(id)' /\ CallSound(call[s])'
  BY <1>4, <1>5 DEF FileSound, OnDisk, ShownSound, CallSound
<1> QED
  BY <1>3, <1>4, <1>6, <1>7, <1>8, <1>9, Combine

LEMMA EmitOK ==
  ASSUME ResourcesInv, NEW s \in Handlers, EmitResource(s)
  PROVE  ResourcesInv'
<1> USE DEF EmitResource, Reached
<1>0. s \in Handling /\ call[s].at = "emit"
  OBVIOUS
<1>1. PICK id \in Ids : id = call[s].id
  BY Here
<1>2. /\ UNCHANGED <<disk, tmp, content, memory, plugged, by_default, disturbed>>
      /\ shown_resource' = [shown_resource EXCEPT ![id] = call[s].value]
      /\ call' = [call EXCEPT ![s] = NoCall]
  BY <1>1 DEF fileVars, RegistrySame, registryVars, Reply
<1>3. s \in Handlers /\ ResourcesTypeOK /\ CallInv
  BY Here
<1>4. CallInv'
  BY <1>2, <1>3, CallStep
<1>5. \A x \in Handlers : call'[x] = IF x = s THEN NoCall ELSE call[x]
  BY <1>2, <1>3 DEF CallInv
<1>6. s \notin Handling'
  BY <1>5 DEF Handling
<1>7. /\ call[s].value \in Values \cup {Missing}
      /\ call[s].op = "delete" => call[s].value = Missing
  BY <1>3, CallKinds
<1>8. \A o \in Ids : shown_resource'[o] = IF o = id THEN call[s].value ELSE shown_resource[o]
  BY <1>2, <1>3 DEF ResourcesTypeOK
<1>9. ResourcesTypeOK'
  BY <1>2, <1>3, <1>7 DEF ResourcesTypeOK
<1>10. ByOne(s, id)
  BY <1>1, <1>2, <1>5, <1>6, <1>8 DEF ByOne, NameKept
<1>11. NamesOwn(s, id)
  BY <1>2, <1>6 DEF NamesOwn
<1>12. ASSUME id \notin disturbed' PROVE FileSound(id)' /\ ShownSound(id)'
  <2>1. FileSound(id) /\ CallSound(call[s])
    BY <1>1, <1>2, <1>12, Here
  <2>2. FileSound(id)' /\ Current(id)' = Current(id)
    BY <1>2, <2>1 DEF FileSound, OnDisk, Current, FileValue
  <2>3. ShownSound(id)'
    BY <1>0, <1>1, <1>7, <1>8, <2>1, <2>2 DEF ShownSound, CallSound
  <2> QED
    BY <2>2, <2>3
<1> QED
  BY <1>3, <1>4, <1>6, <1>9, <1>10, <1>11, <1>12, Combine

LEMMA DisconnectOK ==
  ASSUME ResourcesInv, NEW s \in Handlers, Disconnect(s)
  PROVE  ResourcesInv'
<1>0. s \in Handling
  BY DEF Disconnect
<1>1. PICK id \in Ids : id = call[s].id
  BY <1>0, Here
<1>2. /\ UNCHANGED <<disk, tmp, content, memory, shown_resource, plugged, by_default>>
      /\ call' = [call EXCEPT ![s] = NoCall]
      /\ disturbed' = disturbed \cup {id}
  BY <1>1 DEF Disconnect, fileVars, registryVars, Reply
<1>3. ResourcesTypeOK /\ CallInv
  BY <1>0, Here
<1>4. CallInv'
  BY <1>2, <1>3, CallStep
<1>5. \A x \in Handlers : call'[x] = IF x = s THEN NoCall ELSE call[x]
  BY <1>2, <1>3 DEF CallInv
<1>6. s \notin Handling'
  BY <1>5 DEF Handling
<1>7. ResourcesTypeOK'
  BY <1>2, <1>3 DEF ResourcesTypeOK
<1>8. ByOne(s, id)
  BY <1>0, <1>1, <1>2, <1>5, <1>6 DEF ByOne, NameKept
<1>9. NamesOwn(s, id)
  BY <1>2, <1>6 DEF NamesOwn
<1> QED
  BY <1>2, <1>4, <1>6, <1>7, <1>8, <1>9, Combine

LEMMA RestartOK ==
  ASSUME ResourcesInv, ServerRestarts
  PROVE  ResourcesInv'
<1>1. /\ UNCHANGED <<disk, tmp, content, memory, disturbed>>
      /\ call' = [s \in Handlers |-> NoCall] /\ plugged' = FALSE /\ by_default' = FALSE
      /\ shown_resource' = [id \in Ids |-> Missing]
  BY DEF ServerRestarts, fileVars
<1>2. ResourcesTypeOK'
  BY <1>1 DEF ResourcesInv, ResourcesTypeOK
<1>3. Handling' = {}
  BY <1>1 DEF Handling
<1>4. CallInv' /\ FdInv' /\ WritersAlone'
  BY <1>1, <1>3 DEF CallInv, FdInv, WritersAlone
<1>5. ASSUME NEW id \in Ids PROVE IdSound(id)'
  BY <1>1, <1>3 DEF ResourcesInv, IdSound, FileSound, ShownSound, OnDisk
<1> QED
  BY <1>2, <1>4, <1>5 DEF ResourcesInv

(* Who is registered is nothing to what is stored or shown.                *)
LEMMA RegistryOK ==
  ASSUME ResourcesInv,
         UNCHANGED <<disk, tmp, content, memory, call, shown_resource, disturbed>>,
         by_default' => plugged'
  PROVE  ResourcesInv'
<1>1. ResourcesTypeOK'
  BY DEF ResourcesInv, ResourcesTypeOK
<1>2. Handling' = Handling
  BY DEF Handling
<1>3. CallInv' /\ FdInv' /\ WritersAlone'
  BY <1>2 DEF ResourcesInv, CallInv, FdInv, WritersAlone
<1>4. ASSUME NEW id \in Ids PROVE IdSound(id)'
  <2>1. Current(id)' = Current(id) /\ IdSound(id)
    BY DEF ResourcesInv, Current, FileValue, OnDisk
  <2>2. FileSound(id)' = FileSound(id) /\ ShownSound(id)' = ShownSound(id)
    BY <1>2, <2>1 DEF FileSound, ShownSound, OnDisk
  <2>3. ASSUME NEW x \in Handling, CallSound(call[x]) PROVE CallSound(call[x])'
    BY <2>3 DEF CallSound, Current, FileValue, OnDisk
  <2> QED
    BY <1>2, <2>1, <2>2, <2>3 DEF IdSound
<1> QED
  BY <1>1, <1>3, <1>4 DEF ResourcesInv

LEMMA OpenTemporaryOK ==
  ASSUME ResourcesInv, NEW s \in Handlers, OpenTemporary(s)
  PROVE  ResourcesInv'
<1>0. s \in Handling /\ call[s].at = "open"
  BY DEF OpenTemporary, Reached
<1>1. PICK id \in Ids : id = call[s].id
  BY <1>0, Here
<1>2. PICK n : n = IF tmp[id] = Missing THEN NewInode ELSE tmp[id]
  OBVIOUS
<1> DEFINE c == [call[s] EXCEPT !.fd = n, !.at = "write"]
<1>3. ResourcesTypeOK /\ CallInv
  BY <1>0, Here
<1>4. /\ UNCHANGED <<disk, memory, shown_resource, plugged, by_default, disturbed>>
      /\ tmp' = [tmp EXCEPT ![id] = n]
      /\ content' = [content EXCEPT ![n] = "empty"]
      /\ call' = [call EXCEPT ![s] = c]
  BY <1>0, <1>1, <1>2, <1>3, CallKinds DEF OpenTemporary, RegistrySame, registryVars, CallInv
<1>5. n \in Inodes /\ n # Missing
  BY <1>2, <1>3, InodeFree DEF ResourcesTypeOK
<1>6. c \in Calls /\ c.id = id /\ c.op = call[s].op /\ c.value = call[s].value
      /\ c.at = "write" /\ c.fd = n
  <2>1. call[s] \in Calls /\ call[s].op # "delete"
    BY <1>0, <1>3, CallKinds
  <2> QED
    BY <1>1, <1>5, <2>1 DEF Calls
<1> HIDE DEF c
<1>7. \A o \in Ids : n # disk[o] /\ (o # id => n # tmp[o])
  <2>1. CASE tmp[id] = Missing
    BY <1>2, <1>3, <2>1, InodeFree DEF Used
  <2>2. CASE tmp[id] # Missing
    BY <1>2, <1>3, <2>2 DEF ResourcesTypeOK
  <2> QED
    BY <2>1, <2>2
<1>8. /\ \A o \in Ids : tmp'[o] = IF o = id THEN n ELSE tmp[o]
      /\ \A i \in Inodes : content'[i] = IF i = n THEN "empty" ELSE content[i]
  BY <1>3, <1>4 DEF ResourcesTypeOK
<1>9. /\ \A x \in Handlers : call'[x] = IF x = s THEN c ELSE call[x]
      /\ CallInv'
  <2>1. \A x \in Handlers : call'[x] = IF x = s THEN c ELSE call[x]
    BY <1>3, <1>4 DEF CallInv
  <2> QED
    BY <1>3, <1>4, <1>5, <1>6, <2>1, CallStep
<1>10. \A o \in Ids : disk[o] \in Inodes \cup {Missing} /\ tmp[o] \in Inodes \cup {Missing}
  BY <1>3 DEF ResourcesTypeOK
<1>11. ResourcesTypeOK'
  <2>1. tmp' \in [Ids -> Inodes \cup {Missing}]
    BY <1>3, <1>4, <1>5 DEF ResourcesTypeOK
  <2>2. content' \in [Inodes -> Values \cup {"empty"}]
    BY <1>3, <1>4 DEF ResourcesTypeOK
  <2>3. ASSUME NEW o \in Ids, NEW other \in Ids
        PROVE  /\ tmp'[o] # Missing => tmp'[o] # disk'[other]
               /\ o # other /\ tmp'[o] # Missing => tmp'[o] # tmp'[other]
               /\ o # other /\ disk'[o] # Missing => disk'[o] # disk'[other]
    BY <1>3, <1>4, <1>5, <1>7, <1>8 DEF ResourcesTypeOK
  <2> QED
    BY <1>3, <1>4, <2>1, <2>2, <2>3 DEF ResourcesTypeOK
<1>12. ByOne(s, id)
  <2>1. \A o \in Ids \ {id} : NameKept(o)
    BY <1>4, <1>7, <1>8, <1>10 DEF NameKept
  <2> QED
    BY <1>0, <1>1, <1>4, <1>6, <1>9, <2>1 DEF ByOne
<1>13. NamesOwn(s, id)
  <2>1. tmp'[id] \in {tmp[id]} \cup (Inodes \ Used)
    BY <1>2, <1>3, <1>8, InodeFree
  <2> QED
    BY <1>4, <1>6, <1>7, <1>9, <2>1 DEF NamesOwn
<1>14. ASSUME id \notin disturbed' PROVE FileSound(id)' /\ ShownSound(id)' /\ CallSound(call[s])'
  <2>1. FileSound(id) /\ CallSound(call[s])
    BY <1>0, <1>1, <1>4, <1>14, Here
  <2>2. FileSound(id)' /\ Current(id)' = Current(id)
    BY <1>4, <1>7, <1>8, <1>10, <2>1 DEF FileSound, OnDisk, Current, FileValue
  <2>3. ShownSound(id)'
    BY <1>0, <1>1, <1>4, <1>14, <2>2, QuietShown
  <2>4. CallSound(call[s])'
    BY <1>0, <1>1, <1>4, <1>6, <1>8, <1>9, <2>1 DEF CallSound, OnDisk
  <2> QED
    BY <2>2, <2>3, <2>4
<1> QED
  BY <1>9, <1>11, <1>12, <1>13, <1>14, Combine

LEMMA WriteOK ==
  ASSUME ResourcesInv, NEW s \in Handlers, WriteTemporary(s, TRUE)
  PROVE  ResourcesInv'
<1>0. s \in Handling /\ call[s].at = "write"
  BY DEF WriteTemporary, Reached
<1>1. PICK id \in Ids : id = call[s].id
  BY <1>0, Here
<1>2. PICK n : n = call[s].fd
  OBVIOUS
<1> DEFINE c == [call[s] EXCEPT !.fd = Missing, !.at = "rename"]
<1>3. ResourcesTypeOK /\ CallInv
  BY <1>0, Here
<1>4. /\ UNCHANGED <<disk, tmp, memory, shown_resource, plugged, by_default, disturbed>>
      /\ content' = [content EXCEPT ![n] = call[s].value]
      /\ call' = [call EXCEPT ![s] = c]
  BY <1>0, <1>1, <1>2, <1>3, CallKinds DEF WriteTemporary, RegistrySame, registryVars, CallInv
<1>5. n \in Inodes /\ n # Missing /\ call[s].value \in Values
  BY <1>0, <1>2, <1>3, CallKinds DEF CallInv
<1>6. c \in Calls /\ c.id = id /\ c.op = call[s].op /\ c.value = call[s].value
      /\ c.at = "rename"
  <2>1. call[s] \in Calls /\ call[s].op # "delete"
    BY <1>0, <1>3, CallKinds
  <2> QED
    BY <1>1, <2>1 DEF Calls
<1> HIDE DEF c
<1>7. \A o \in Ids \ {id} : n # disk[o] /\ n # tmp[o]
  BY <1>0, <1>1, <1>2 DEF ResourcesInv, FdInv
<1>8. \A i \in Inodes : content'[i] = IF i = n THEN call[s].value ELSE content[i]
  BY <1>3, <1>4 DEF ResourcesTypeOK
<1>9. /\ \A x \in Handlers : call'[x] = IF x = s THEN c ELSE call[x]
      /\ CallInv'
  <2>1. \A x \in Handlers : call'[x] = IF x = s THEN c ELSE call[x]
    BY <1>3, <1>4 DEF CallInv
  <2> QED
    BY <1>3, <1>4, <1>6, <2>1, CallStep
<1>10. \A o \in Ids : disk[o] \in Inodes \cup {Missing} /\ tmp[o] \in Inodes \cup {Missing}
  BY <1>3 DEF ResourcesTypeOK
<1>11. ResourcesTypeOK'
  <2>1. content' \in [Inodes -> Values \cup {"empty"}]
    BY <1>3, <1>4, <1>5 DEF ResourcesTypeOK
  <2> QED
    BY <1>3, <1>4, <2>1 DEF ResourcesTypeOK
<1>12. ByOne(s, id)
  <2>1. \A o \in Ids \ {id} : NameKept(o)
    BY <1>4, <1>7, <1>8, <1>10 DEF NameKept
  <2> QED
    BY <1>0, <1>1, <1>4, <1>6, <1>9, <2>1 DEF ByOne
<1>13. NamesOwn(s, id)
  BY <1>4, <1>6, <1>9 DEF NamesOwn
<1>14. ASSUME id \notin disturbed' PROVE FileSound(id)' /\ ShownSound(id)' /\ CallSound(call[s])'
  <2>1. FileSound(id) /\ CallSound(call[s])
    BY <1>0, <1>1, <1>4, <1>14, Here
  <2>2. tmp[id] = n /\ disk[id] # n /\ memory[id] = Missing
    BY <1>0, <1>1, <1>2, <1>3, <1>5, <2>1 DEF CallSound, ResourcesTypeOK
  <2>3. FileSound(id)' /\ Current(id)' = Current(id)
    BY <1>4, <1>8, <1>10, <2>1, <2>2 DEF FileSound, OnDisk, Current, FileValue
  <2>4. ShownSound(id)'
    BY <1>0, <1>1, <1>4, <1>14, <2>3, QuietShown
  <2>5. CallSound(call[s])'
    BY <1>0, <1>1, <1>4, <1>5, <1>6, <1>8, <1>9, <2>1, <2>2 DEF CallSound, OnDisk
  <2> QED
    BY <2>3, <2>4, <2>5
<1> QED
  BY <1>9, <1>11, <1>12, <1>13, <1>14, Combine

LEMMA RenameOK ==
  ASSUME ResourcesInv, NEW s \in Handlers, Rename(s), tmp[call[s].id] # Missing
  PROVE  ResourcesInv'
<1>0. s \in Handling /\ call[s].at = "rename" /\ Step(s, "emit")
  BY DEF Rename, Reached
<1>1. PICK id \in Ids : id = call[s].id
  BY <1>0, Here
<1>2. PICK n : n = tmp[id]
  OBVIOUS
<1>3. ResourcesTypeOK /\ CallInv
  BY <1>0, Here
<1>4. /\ UNCHANGED <<content, memory, shown_resource, plugged, by_default, disturbed>>
      /\ disk' = [disk EXCEPT ![id] = n]
      /\ tmp' = [tmp EXCEPT ![id] = Missing]
  BY <1>0, <1>1, <1>2 DEF Rename, RegistrySame, registryVars
<1>5. /\ CallInv' /\ s \in Handling'
      /\ \A x \in Handlers \ {s} : call'[x] = call[x]
      /\ call'[s].id = id /\ call'[s].op = call[s].op
      /\ call'[s].value = call[s].value /\ call'[s].at = "emit"
  BY <1>0, <1>1, StepCall
<1>6. n \in Inodes /\ n # Missing /\ call[s].value \in Values
  BY <1>0, <1>1, <1>2, <1>3, CallKinds DEF ResourcesTypeOK
<1>7. \A o \in Ids : /\ disk'[o] = (IF o = id THEN n ELSE disk[o])
                     /\ tmp'[o] = (IF o = id THEN Missing ELSE tmp[o])
  BY <1>3, <1>4 DEF ResourcesTypeOK
<1>8. ResourcesTypeOK'
  <2>1. disk' \in [Ids -> Inodes \cup {Missing}] /\ tmp' \in [Ids -> Inodes \cup {Missing}]
    BY <1>3, <1>4, <1>6 DEF ResourcesTypeOK
  <2>2. ASSUME NEW o \in Ids, NEW other \in Ids
        PROVE  /\ tmp'[o] # Missing => tmp'[o] # disk'[other]
               /\ o # other /\ tmp'[o] # Missing => tmp'[o] # tmp'[other]
               /\ o # other /\ disk'[o] # Missing => disk'[o] # disk'[other]
    BY <1>2, <1>3, <1>6, <1>7 DEF ResourcesTypeOK
  <2> QED
    BY <1>3, <1>4, <2>1, <2>2 DEF ResourcesTypeOK
<1>9. ByOne(s, id)
  BY <1>0, <1>1, <1>4, <1>5, <1>7 DEF ByOne, NameKept
<1>10. NamesOwn(s, id)
  BY <1>2, <1>5, <1>7 DEF NamesOwn
<1>11. ASSUME id \notin disturbed' PROVE FileSound(id)' /\ ShownSound(id)' /\ CallSound(call[s])'
  <2>1. content[n] = call[s].value /\ memory[id] = Missing
    BY <1>0, <1>1, <1>2, <1>4, <1>11, Here DEF CallSound
  <2>2. FileSound(id)' /\ Current(id)' = call[s].value
    BY <1>4, <1>6, <1>7, <2>1 DEF FileSound, OnDisk, Current, FileValue
  <2>3. ShownSound(id)'
    BY <1>5 DEF ShownSound
  <2>4. CallSound(call[s])'
    BY <1>5, <2>2 DEF CallSound
  <2> QED
    BY <2>2, <2>3, <2>4
<1> QED
  BY <1>3, <1>5, <1>8, <1>9, <1>10, <1>11, Combine

LEMMA AcceptsOK ==
  ASSUME ResourcesInv, NEW s \in Handlers, NEW id \in Ids, NEW t \in ProviderChoices,
         \/ DeleteResource(s, id, t)
         \/ \E v \in Values : CreateResource(s, id, v, t) \/ ReplaceResource(s, id, v, t)
  PROVE  ResourcesInv'
<1>1. CASE DeleteResource(s, id, t)
  <2> DEFINE doing == "delete"
             c == [op |-> doing, id |-> id, value |-> Missing, target |-> t, at |-> "route",
                   fd |-> Missing]
  <2>1. c \in Calls
    BY DEF Calls
  <2>2. AcceptCall(s, doing, id, Missing, t, "route") /\ doing # "create"
    BY <1>1 DEF DeleteResource
  <2> HIDE DEF doing
  <2> QED
    BY <2>1, <2>2, AcceptOK
<1>2. ASSUME NEW v \in Values, CreateResource(s, id, v, t) PROVE ResourcesInv'
  <2> DEFINE doing == "create"
             c == [op |-> doing, id |-> id, value |-> v, target |-> t, at |-> "route",
                   fd |-> Missing]
  <2>1. c \in Calls
    BY DEF Calls
  <2>2. AcceptCall(s, doing, id, v, t, "route") /\ id \notin Taken
    BY <1>2 DEF CreateResource
  <2> HIDE DEF doing
  <2> QED
    BY <2>1, <2>2, AcceptOK
<1>3. ASSUME NEW v \in Values, ReplaceResource(s, id, v, t) PROVE ResourcesInv'
  <2> DEFINE doing == "update"
             c == [op |-> doing, id |-> id, value |-> v, target |-> t, at |-> "route",
                   fd |-> Missing]
  <2>1. c \in Calls
    BY DEF Calls
  <2>2. AcceptCall(s, doing, id, v, t, "route") /\ doing # "create"
    BY <1>3 DEF ReplaceResource
  <2> HIDE DEF doing
  <2> QED
    BY <2>1, <2>2, AcceptOK
<1> QED
  BY <1>1, <1>2, <1>3

LEMMA PluginOK ==
  ASSUME ResourcesInv, NEW s \in Handlers, PluginAnswers(s)
  PROVE  ResourcesInv'
<1>1. /\ s \in Handling /\ call[s].at = "route"
      /\ UNCHANGED <<fileVars, shown_resource>> /\ RegistrySame
  BY DEF PluginAnswers, Reached
<1>2. CASE /\ call[s].op = "create" \/ memory[call[s].id] # Missing
           /\ memory' = [memory EXCEPT ![call[s].id] = call[s].value]
           /\ Step(s, "emit")
  BY <1>1, <1>2, PluginTakes
<1>3. CASE Reply(s) /\ UNCHANGED memory
  BY <1>1, <1>3, ReplyOnly
<1>4. CASE Step(s, "file") /\ UNCHANGED memory
  BY <1>1, <1>4, StepOnly
<1> QED
  BY <1>2, <1>3, <1>4 DEF PluginAnswers

LEMMA FileFoundOK ==
  ASSUME ResourcesInv, NEW s \in Handlers, FileFound(s)
  PROVE  ResourcesInv'
<1>1. /\ s \in Handling /\ call[s].at = "file" /\ call[s].op # "delete"
      /\ Step(s, "open") /\ UNCHANGED <<fileVars, memory, shown_resource>> /\ RegistrySame
      /\ call[s].op = "create" \/ OnDisk(call[s].id)
  BY DEF FileFound, Reached
<1>2. call[s].id \notin disturbed => memory[call[s].id] = Missing
  BY <1>1, Here DEF FileSound, CallSound
<1> QED
  BY <1>1, <1>2, StepOnly

LEMMA RequestOK ==
  ASSUME ResourcesInv, NEW s \in Handlers,
         \/ NoSuchProvider(s) \/ PluginAnswers(s) \/ ToFile(s)
         \/ FileMissing(s) \/ FileFound(s) \/ RemoveFile(s)
         \/ OpenTemporary(s) \/ Rename(s) \/ EmitResource(s) \/ Disconnect(s)
         \/ \E succeeds \in BOOLEAN : WriteTemporary(s, succeeds)
  PROVE  ResourcesInv'
<1>1. CASE NoSuchProvider(s) \/ FileMissing(s)
  BY <1>1, ReplyOnly DEF NoSuchProvider, FileMissing, Reached
<1>2. CASE ToFile(s)
  BY <1>2, StepOnly DEF ToFile, Reached
<1>3. CASE OpenTemporary(s)
  BY <1>3, OpenTemporaryOK
<1>4. CASE Rename(s)
  <2>1. CASE tmp[call[s].id] = Missing
    BY <1>4, <2>1, ReplyOnly DEF Rename, Reached, fileVars
  <2>2. CASE tmp[call[s].id] # Missing
    BY <1>4, <2>2, RenameOK
  <2> QED
    BY <2>1, <2>2
<1>5. CASE WriteTemporary(s, TRUE)
  BY <1>5, WriteOK
<1>6. CASE WriteTemporary(s, FALSE)
  BY <1>6, ReplyOnly DEF WriteTemporary, Reached, fileVars
<1> QED
  BY <1>1, <1>2, <1>3, <1>4, <1>5, <1>6, PluginOK, FileFoundOK, RemoveOK, EmitOK, DisconnectOK

LEMMA ResourcesStep ==
  ASSUME ResourcesInv, [ResourcesNext]_resourceVars
  PROVE  ResourcesInv'
<1>1. CASE Register \/ Unregister \/ \E p \in {"plugin", "file"} : SetDefaultProvider(p)
  <2>1. UNCHANGED <<disk, tmp, content, memory, call, shown_resource, disturbed>>
    BY <1>1 DEF Register, Unregister, SetDefaultProvider, fileVars
  <2>2. by_default => plugged
    BY DEF ResourcesInv, ResourcesTypeOK
  <2>3. by_default' => plugged'
    <3>1. CASE Register \/ Unregister
      BY <2>2, <3>1 DEF Register, Unregister
    <3>2. ASSUME NEW p \in {"plugin", "file"}, SetDefaultProvider(p) PROVE by_default' => plugged'
      <4>1. plugged' = plugged /\ (by_default' <=> p = "plugin") /\ (p = "plugin" => plugged)
        BY <3>2 DEF SetDefaultProvider
      <4> QED
        BY <4>1
    <3> QED
      BY <1>1, <3>1, <3>2
  <2> QED
    BY <2>1, <2>3, RegistryOK
<1>2. CASE UNCHANGED resourceVars
  <2>1. by_default' => plugged'
    BY <1>2 DEF ResourcesInv, ResourcesTypeOK, resourceVars
  <2> QED
    BY <1>2, <2>1, RegistryOK DEF resourceVars
<1> QED
  BY <1>1, <1>2, RestartOK, AcceptsOK, RequestOK DEF ResourcesNext

LEMMA ResourcesStarts == ResourcesInit => ResourcesInv
<1> SUFFICES ASSUME ResourcesInit PROVE ResourcesInv
  OBVIOUS
<1>1. Handling = {}
  BY DEF ResourcesInit, Handling
<1>2. ResourcesTypeOK
  BY DEF ResourcesInit, ResourcesTypeOK
<1>3. CallInv /\ FdInv /\ WritersAlone
  BY <1>1 DEF ResourcesInit, CallInv, FdInv, WritersAlone
<1>4. \A id \in Ids : IdSound(id)
  BY <1>1 DEF ResourcesInit, IdSound, FileSound, ShownSound, OnDisk
<1> QED
  BY <1>2, <1>3, <1>4 DEF ResourcesInv

LEMMA SoundIsCorrect == ResourcesInv => ResourcesCorrect
<1> SUFFICES ASSUME ResourcesInv PROVE ResourcesCorrect
  OBVIOUS
<1>1. WholeWhenAlone
  BY DEF ResourcesInv, IdSound, FileSound, FileValue, OnDisk, WholeWhenAlone
<1>2. StoreShowsResource
  <2> SUFFICES ASSUME NEW id \in Ids \ disturbed,
                      ~(\E s \in Handling : call[s].id = id), shown_resource[id] # Missing
               PROVE  shown_resource[id] = IF plugged \/ memory[id] = Missing THEN Get(id)
                                           ELSE memory[id]
    BY DEF StoreShowsResource
  <2>1. shown_resource[id] = Current(id)
    BY DEF ResourcesInv, IdSound, ShownSound
  <2> QED
    BY <2>1 DEF Current, Get, InPlugin
<1> QED
  BY <1>1, <1>2 DEF ResourcesCorrect, ResourcesInv

(* No resource file is seen half written, and once its requests are done,  *)
(* the store shows what a GET returns, unless the writers of this id       *)
(* overlapped or were cut off: for every set of ids, values and requests,  *)
(* whichever provider answers and whatever happens to other ids.           *)
THEOREM ResourcesAlwaysCorrect == ResourcesSpec => []ResourcesCorrect
<1>1. ResourcesInv /\ [ResourcesNext]_resourceVars => ResourcesInv'
  BY ResourcesStep
<1> QED
  BY <1>1, ResourcesStarts, SoundIsCorrect, PTL DEF ResourcesSpec

HIDE ResourcesAssumption

-----------------------------------------------------------------------------
(* History.                                                                *)
USE HistoryAssumption

(* What is kept of a day.  Rows are summarised and deleted by whole days:  *)
(* OlderThan compares the days of its two moments only.                    *)
Ever(d)    == {s \in committed : DayOf(s) = d}
RawOf(d)   == {s \in raw : DayOf(s) = d}
Over(d)    == Day(half_day - 2 * maintenance.raw) > d

(* A day is in the raw table or in the summaries, whole, until a late row  *)
(* spoils it; a summary is there before its rows are deleted.              *)
DayInv ==
  \A d \in Days :
    d >= horizon =>
      /\ d \notin spoiled => /\ RawOf(d) = Ever(d) \/ (RawOf(d) = {} /\ daily[d] = Ever(d))
                             /\ daily[d] \subseteq Ever(d)
      /\ Ever(d) # {} => RawOf(d) # {} \/ daily[d] # {}
      /\ maintenance.at = "delete_raw" /\ Over(d) /\ RawOf(d) # {}
           => daily[d] = RawOf(d)

(* On its way to the database a sample is in one batch.                    *)
BatchInv ==
  /\ half_day \in 0..MaxHalfDays
  /\ Arrived \subseteq Samples /\ stamp \in [Arrived -> Int] /\ IsFiniteSet(Arrived)
  /\ \A s \in Arrived : DayOf(s) \in Days
  /\ batch \subseteq Arrived /\ committed \subseteq Arrived /\ raw \subseteq committed
  /\ writing \subseteq SUBSET Arrived
  /\ batch \cap committed = {}
  /\ \A b \in writing : b \cap committed = {} /\ b \cap batch = {}
  /\ \A b, o \in writing : b # o => b \cap o = {}

RowsInv ==
  /\ daily \in [Days -> SUBSET committed]
  /\ \A d \in Days : \A s \in daily[d] : DayOf(s) = d
  /\ horizon \in Int

Pass == [at : {"insert", "delete_raw", "delete_daily", "sized"}, raw : Nat, daily : Nat,
         aggressive : BOOLEAN]
HistoryInv == BatchInv /\ RowsInv /\ DayInv /\ maintenance \in Pass \cup {Idle}

LEMMA DayType == \A t \in Int : Day(t) \in Int
BY DEF Day

LEMMA HistoryStarts == HistoryInit => HistoryInv
<1> SUFFICES ASSUME HistoryInit PROVE HistoryInv
  OBVIOUS
<1> USE DEF HistoryInit
<1>1. Arrived = {} /\ IsFiniteSet(Arrived)
  BY FS_EmptySet DEF Arrived
<1>2. BatchInv
  BY <1>1 DEF BatchInv
<1>3. RowsInv
  BY DayType DEF RowsInv
<1>4. DayInv
  BY DEF DayInv, Ever, RawOf, Idle
<1> QED
  BY <1>2, <1>3, <1>4 DEF HistoryInv

(* The tables and the clock, apart from the batches.                       *)
LEMMA SameTables ==
  ASSUME HistoryInv,
         UNCHANGED <<half_day, raw, daily, maintenance, committed, horizon, spoiled>>,
         \A s \in committed : DayOf(s)' = DayOf(s)
  PROVE  RowsInv' /\ DayInv'
<1>1. \A d : Ever(d)' = Ever(d) /\ RawOf(d)' = RawOf(d) /\ Over(d)' = Over(d)
  <2>1. raw \subseteq committed
    BY DEF HistoryInv, BatchInv
  <2> QED
    BY <2>1 DEF Ever, RawOf, Over
<1>2. RowsInv'
  BY DEF HistoryInv, RowsInv
<1>3. DayInv'
  BY <1>1 DEF HistoryInv, DayInv
<1> QED
  BY <1>2, <1>3

LEMMA IngestStep ==
  ASSUME HistoryInv, NEW s \in Samples, NEW delay \in Delays, Ingest(s, delay)
  PROVE  HistoryInv'
<1>1. /\ s \notin Arrived /\ Arrived' = Arrived \cup {s}
      /\ stamp' = [x \in Arrived \cup {s} |-> IF x = s THEN half_day - delay ELSE stamp[x]]
      /\ batch' = batch \cup {s} /\ DayOf(s)' \in Days
      /\ UNCHANGED <<half_day, writing, raw, daily, maintenance, committed, horizon, spoiled>>
  BY DEF Ingest, Arrived
<1>2. half_day - delay \in Int
  <2>1. half_day \in 0..MaxHalfDays /\ delay \in Nat
    BY DEF HistoryInv, BatchInv
  <2>2. half_day \in Int
    BY <2>1
  <2> QED
    BY <2>1, <2>2
<1>3. \A x \in Arrived : DayOf(x)' = DayOf(x)
  <2>1. \A x \in Arrived : stamp'[x] = stamp[x]
    BY <1>1
  <2> QED
    BY <2>1 DEF DayOf
<1>4. BatchInv'
  <2>1. IsFiniteSet(Arrived')
    BY <1>1, FS_AddElement DEF HistoryInv, BatchInv
  <2>2. stamp' \in [Arrived' -> Int]
    BY <1>1, <1>2 DEF HistoryInv, BatchInv
  <2>3. \A x \in Arrived' : DayOf(x)' \in Days
    BY <1>1, <1>3 DEF HistoryInv, BatchInv
  <2> QED
    BY <1>1, <2>1, <2>2, <2>3 DEF HistoryInv, BatchInv
<1>5. RowsInv' /\ DayInv'
  BY <1>1, <1>3, SameTables DEF HistoryInv, BatchInv
<1> QED
  BY <1>1, <1>4, <1>5 DEF HistoryInv

LEMMA BatchStep ==
  ASSUME HistoryInv, SamplingTick \/ HalfDayPasses \/ HistoryCrash
                     \/ (\E b \in writing : RecordBatch(b, FALSE))
  PROVE  HistoryInv'
<1>1. UNCHANGED <<stamp, raw, daily, committed, horizon, spoiled>>
  BY DEF SamplingTick, HalfDayPasses, HistoryCrash, RecordBatch
<1>2. \A s : DayOf(s)' = DayOf(s)
  BY <1>1 DEF DayOf
<1>3. Arrived' = Arrived
  BY <1>1 DEF Arrived
<1>4. BatchInv'
  <2> USE <1>1, <1>2, <1>3 DEF HistoryInv, BatchInv
  <2>1. CASE SamplingTick
    BY <2>1 DEF SamplingTick
  <2>2. CASE HalfDayPasses
    BY <2>2 DEF HalfDayPasses
  <2>3. CASE HistoryCrash
    BY <2>3 DEF HistoryCrash
  <2>4. ASSUME NEW b \in writing, RecordBatch(b, FALSE) PROVE BatchInv'
    BY <2>4 DEF RecordBatch
  <2> QED
    BY <2>1, <2>2, <2>3, <2>4
<1>5. RowsInv'
  BY <1>1, <1>2 DEF HistoryInv, RowsInv
<1>6. maintenance' \in {maintenance, Idle} /\ (half_day' = half_day \/ maintenance' = Idle)
  BY DEF SamplingTick, HalfDayPasses, HistoryCrash, RecordBatch
<1>7. DayInv'
  <2>1. \A d : Ever(d)' = Ever(d) /\ RawOf(d)' = RawOf(d)
    BY <1>1, <1>2 DEF Ever, RawOf
  <2>2. CASE maintenance' = Idle
    BY <1>1, <2>1, <2>2 DEF HistoryInv, DayInv, Idle
  <2>3. CASE maintenance' = maintenance /\ half_day' = half_day
    BY <1>1, <2>1, <2>3 DEF HistoryInv, DayInv, Over
  <2> QED
    BY <1>6, <2>2, <2>3
<1> QED
  BY <1>4, <1>5, <1>6, <1>7 DEF HistoryInv

(* A batch that is recorded: its rows are new, and where a summary is      *)
(* there already the day is spoiled.                                       *)
LEMMA RecordStep ==
  ASSUME HistoryInv, NEW b \in writing, RecordBatch(b, TRUE)
  PROVE  HistoryInv'
<1>1. /\ raw' = raw \cup b /\ committed' = committed \cup b /\ writing' = writing \ {b}
      /\ spoiled' = spoiled \cup {DayOf(s) : s \in {x \in b : daily[DayOf(x)] # {}}}
      /\ UNCHANGED <<half_day, stamp, batch, daily, maintenance, horizon>>
      /\ maintenance.at \in {"idle", "sized"}
  BY DEF RecordBatch
<1>2. /\ \A s : DayOf(s)' = DayOf(s)
      /\ Arrived' = Arrived /\ b \subseteq Arrived
  BY <1>1 DEF DayOf, Arrived, HistoryInv, BatchInv
<1>3. BatchInv'
  BY <1>1, <1>2 DEF HistoryInv, BatchInv
<1>4. RowsInv'
  BY <1>1, <1>2 DEF HistoryInv, RowsInv
<1>5. DayInv'
  <2> SUFFICES ASSUME NEW d \in Days, d >= horizon
               PROVE  /\ d \notin spoiled' =>
                           /\ RawOf(d)' = Ever(d)' \/ (RawOf(d)' = {} /\ daily[d] = Ever(d)')
                           /\ daily[d] \subseteq Ever(d)'
                      /\ Ever(d)' # {} => RawOf(d)' # {} \/ daily[d] # {}
    BY <1>1 DEF DayInv
  <2> DEFINE new == {s \in b : DayOf(s) = d}
  <2>1. Ever(d)' = Ever(d) \cup new /\ RawOf(d)' = RawOf(d) \cup new
    BY <1>1, <1>2 DEF Ever, RawOf
  <2>2. CASE new = {}
    <3>1. d \notin spoiled' => d \notin spoiled
      BY <1>1
    <3> QED
      BY <2>1, <2>2, <3>1 DEF HistoryInv, DayInv
  <2>3. CASE new # {}
    <3>1. d \notin spoiled' => d \notin spoiled /\ daily[d] = {}
      BY <1>1, <2>3
    <3> HIDE DEF new
    <3> QED
      BY <2>1, <2>3, <3>1 DEF HistoryInv, DayInv
  <2> QED
    BY <2>2, <2>3
<1> QED
  BY <1>1, <1>3, <1>4, <1>5 DEF HistoryInv

-----------------------------------------------------------------------------
(* The pass of aggregate_and_prune.                                        *)
LEMMA PassStep ==
  ASSUME HistoryInv, BeginMaintenance \/ (\E over \in BOOLEAN : CheckSize(over))
  PROVE  HistoryInv'
<1>1. UNCHANGED <<half_day, stamp, batch, writing, raw, daily, committed, horizon, spoiled>>
  BY DEF BeginMaintenance, CheckSize
<1>2. (\A s : DayOf(s)' = DayOf(s)) /\ Arrived' = Arrived
  BY <1>1 DEF DayOf, Arrived
<1>3. maintenance' \in Pass \cup {Idle} /\ maintenance'.at # "delete_raw"
  <2>1. RetentionRaw \div 2 \in Nat /\ RetentionDaily \div 2 \in Nat
    OBVIOUS
  <2>2. Aggressive \in Pass /\ Aggressive.at # "delete_raw"
    BY <2>1 DEF Aggressive, Pass
  <2>3. Idle.at # "delete_raw"
    BY DEF Idle
  <2>4. [at |-> "insert", raw |-> RetentionRaw, daily |-> RetentionDaily,
         aggressive |-> FALSE] \in Pass
    BY DEF Pass
  <2> QED
    <3>1. CASE BeginMaintenance
      BY <2>4, <3>1 DEF BeginMaintenance
    <3>2. ASSUME NEW over \in BOOLEAN, CheckSize(over)
          PROVE  maintenance' \in Pass \cup {Idle} /\ maintenance'.at # "delete_raw"
      <4>1. maintenance' = Aggressive \/ maintenance' = Idle
        BY <3>2 DEF CheckSize
      <4> QED
        BY <2>2, <2>3, <4>1
    <3> QED
      BY <3>1, <3>2
<1>4. \A d : Ever(d)' = Ever(d) /\ RawOf(d)' = RawOf(d)
  BY <1>1, <1>2 DEF Ever, RawOf
<1>5. DayInv'
  BY <1>1, <1>3, <1>4 DEF HistoryInv, DayInv
<1>6. BatchInv' /\ RowsInv'
  BY <1>1, <1>2 DEF HistoryInv, BatchInv, RowsInv
<1> QED
  BY <1>3, <1>5, <1>6 DEF HistoryInv

(* The expired rows are all the rows of the days that are over.            *)
LEMMA ExpiredDays ==
  ASSUME HistoryInv, NEW d \in Days
  PROVE  {s \in Expired : DayOf(s) = d} = IF Over(d) THEN RawOf(d) ELSE {}
<1>1. \A s \in raw : OlderThan(stamp[s], maintenance.raw)
        <=> Day(half_day - 2 * maintenance.raw) > DayOf(s)
  BY DEF OlderThan, DayOf
<1> QED
  BY <1>1 DEF Expired, RawOf, Over

LEMMA InsertStep ==
  ASSUME HistoryInv, InsertDaily
  PROVE  HistoryInv'
<1>1. /\ maintenance.at = "insert" /\ maintenance' = [maintenance EXCEPT !.at = "delete_raw"]
      /\ UNCHANGED <<half_day, stamp, batch, writing, raw, committed, horizon, spoiled>>
      /\ daily' = [d \in Days |->
           IF \E s \in Expired : DayOf(s) = d THEN {s \in Expired : DayOf(s) = d}
           ELSE daily[d]]
  BY DEF InsertDaily
<1>2. (\A s : DayOf(s)' = DayOf(s)) /\ Arrived' = Arrived
  BY <1>1 DEF DayOf, Arrived
<1>3. maintenance \in Pass /\ maintenance' \in Pass /\ maintenance'.raw = maintenance.raw
  BY <1>1 DEF HistoryInv, Idle, Pass
<1>4. \A d : Ever(d)' = Ever(d) /\ RawOf(d)' = RawOf(d) /\ Over(d)' = Over(d)
  BY <1>1, <1>2, <1>3 DEF Ever, RawOf, Over
<1>5. \A d \in Days : daily'[d] = IF Over(d) /\ RawOf(d) # {} THEN RawOf(d) ELSE daily[d]
  <2> SUFFICES ASSUME NEW d \in Days
               PROVE  daily'[d] = IF Over(d) /\ RawOf(d) # {} THEN RawOf(d) ELSE daily[d]
    OBVIOUS
  <2>1. {s \in Expired : DayOf(s) = d} = IF Over(d) THEN RawOf(d) ELSE {}
    BY ExpiredDays
  <2>2. daily'[d] = IF {s \in Expired : DayOf(s) = d} # {} THEN {s \in Expired : DayOf(s) = d}
                    ELSE daily[d]
    BY <1>1
  <2> QED
    BY <2>1, <2>2
<1>6. \A d : RawOf(d) \subseteq Ever(d) /\ RawOf(d) \subseteq committed
  BY DEF HistoryInv, BatchInv, RawOf, Ever
<1>7. RowsInv'
  <2>1. \A d \in Days : daily'[d] \subseteq committed /\ \A s \in daily'[d] : DayOf(s) = d
    BY <1>5, <1>6 DEF HistoryInv, RowsInv, RawOf
  <2>2. daily' = [d \in Days |-> daily'[d]]
    BY <1>1
  <2>3. daily' \in [Days -> SUBSET committed]
    BY <2>1, <2>2
  <2> QED
    BY <1>1, <1>2, <2>1, <2>3 DEF HistoryInv, RowsInv
<1>8. DayInv'
  BY <1>1, <1>4, <1>5, <1>6 DEF HistoryInv, DayInv
<1>9. BatchInv'
  BY <1>1, <1>2 DEF HistoryInv, BatchInv
<1> QED
  BY <1>3, <1>7, <1>8, <1>9 DEF HistoryInv

LEMMA DeleteRawStep ==
  ASSUME HistoryInv, DeleteRaw
  PROVE  HistoryInv'
<1>1. /\ maintenance.at = "delete_raw" /\ raw' = raw \ Expired
      /\ maintenance' = [maintenance EXCEPT !.at = "delete_daily"]
      /\ UNCHANGED <<half_day, stamp, batch, writing, daily, committed, horizon, spoiled>>
  BY DEF DeleteRaw
<1>2. (\A s : DayOf(s)' = DayOf(s)) /\ Arrived' = Arrived
  BY <1>1 DEF DayOf, Arrived
<1>3. maintenance' \in Pass /\ maintenance'.at = "delete_daily"
  BY <1>1 DEF HistoryInv, Idle, Pass
<1>4. \A d : Ever(d)' = Ever(d)
  BY <1>1, <1>2 DEF Ever
<1>5. \A d \in Days : RawOf(d)' = IF Over(d) THEN {} ELSE RawOf(d)
  <2> SUFFICES ASSUME NEW d \in Days
               PROVE  RawOf(d)' = IF Over(d) THEN {} ELSE RawOf(d)
    OBVIOUS
  <2>1. {s \in Expired : DayOf(s) = d} = IF Over(d) THEN RawOf(d) ELSE {}
    BY ExpiredDays
  <2>2. RawOf(d)' = RawOf(d) \ {s \in Expired : DayOf(s) = d}
    BY <1>1, <1>2 DEF RawOf
  <2> QED
    BY <2>1, <2>2
<1>6. DayInv'
  <2> SUFFICES ASSUME NEW d \in Days, d >= horizon
               PROVE  /\ d \notin spoiled =>
                           /\ RawOf(d)' = Ever(d) \/ (RawOf(d)' = {} /\ daily[d] = Ever(d))
                           /\ daily[d] \subseteq Ever(d)
                      /\ Ever(d) # {} => RawOf(d)' # {} \/ daily[d] # {}
    BY <1>1, <1>3, <1>4 DEF DayInv
  <2>1. CASE Over(d) /\ RawOf(d) # {}
    <3>1. daily[d] = RawOf(d) /\ RawOf(d)' = {}
      BY <1>1, <1>5, <2>1 DEF HistoryInv, DayInv
    <3> QED
      BY <2>1, <3>1 DEF HistoryInv, DayInv
  <2>2. CASE ~(Over(d) /\ RawOf(d) # {})
    <3>1. RawOf(d)' = RawOf(d)
      BY <1>5, <2>2
    <3> QED
      BY <3>1 DEF HistoryInv, DayInv
  <2> QED
    BY <2>1, <2>2
<1>7. BatchInv' /\ RowsInv'
  BY <1>1, <1>2 DEF HistoryInv, BatchInv, RowsInv
<1> QED
  BY <1>3, <1>6, <1>7 DEF HistoryInv

LEMMA DeleteDailyStep ==
  ASSUME HistoryInv, DeleteDaily
  PROVE  HistoryInv'
<1> DEFINE first == Today - maintenance.daily
<1>1. /\ maintenance.at = "delete_daily"
      /\ daily' = [d \in Days |-> IF d < first THEN {} ELSE daily[d]]
      /\ horizon' = IF first > horizon THEN first ELSE horizon
      /\ maintenance' = [maintenance EXCEPT !.at = "sized"]
      /\ UNCHANGED <<half_day, stamp, batch, writing, raw, committed, spoiled>>
  BY DEF DeleteDaily
<1>2. (\A s : DayOf(s)' = DayOf(s)) /\ Arrived' = Arrived
  BY <1>1 DEF DayOf, Arrived
<1>3. /\ maintenance \in Pass /\ maintenance' \in Pass /\ maintenance'.at = "sized"
  BY <1>1 DEF HistoryInv, Idle, Pass
<1>4. first \in Int
  BY <1>3, DayType DEF HistoryInv, BatchInv, Today, Pass
<1> HIDE DEF first
<1>5. \A d : Ever(d)' = Ever(d) /\ RawOf(d)' = RawOf(d)
  BY <1>1, <1>2 DEF Ever, RawOf
<1>6. Days \subseteq Int
  BY DayType DEF Days
<1>7. \A d \in Days : d >= horizon' => d >= horizon /\ daily'[d] = daily[d]
  BY <1>1, <1>4, <1>6 DEF HistoryInv, RowsInv
<1>8. DayInv'
  BY <1>1, <1>3, <1>5, <1>7 DEF HistoryInv, DayInv
<1>9. RowsInv'
  BY <1>1, <1>2, <1>4 DEF HistoryInv, RowsInv
<1>10. BatchInv'
  BY <1>1, <1>2 DEF HistoryInv, BatchInv
<1> QED
  BY <1>3, <1>8, <1>9, <1>10 DEF HistoryInv

LEMMA HistoryStep == HistoryInv /\ [HistoryNext]_historyVars => HistoryInv'
<1> SUFFICES ASSUME HistoryInv, [HistoryNext]_historyVars PROVE HistoryInv'
  OBVIOUS
<1>1. CASE UNCHANGED historyVars
  <2>1. UNCHANGED <<half_day, stamp, batch, writing, raw, daily, maintenance, committed,
                    horizon, spoiled>>
    BY <1>1 DEF historyVars
  <2>2. (\A s : DayOf(s)' = DayOf(s)) /\ Arrived' = Arrived
    BY <2>1 DEF DayOf, Arrived
  <2>3. RowsInv' /\ DayInv'
    BY <2>1, <2>2, SameTables
  <2>4. BatchInv'
    BY <2>1, <2>2 DEF HistoryInv, BatchInv
  <2> QED
    BY <2>1, <2>3, <2>4 DEF HistoryInv
<1>2. ASSUME NEW b \in writing, NEW succeeds \in BOOLEAN, RecordBatch(b, succeeds)
      PROVE  HistoryInv'
  BY <1>2, RecordStep, BatchStep
<1> QED
  BY <1>1, <1>2, IngestStep, BatchStep, PassStep, InsertStep, DeleteRawStep, DeleteDailyStep
     DEF HistoryNext

-----------------------------------------------------------------------------
LEMMA SomeRows ==
  ASSUME NEW S, IsFiniteSet(S)
  PROVE  Cardinality(S) > 0 <=> S # {}
<1>1. Cardinality(S) \in Nat
  BY FS_CardinalityType
<1>2. Cardinality(S) = 0 <=> S = {}
  BY FS_EmptySet
<1> QED
  BY <1>1, <1>2

(* What a query for one day counts.                                        *)
LEMMA DayCounts ==
  ASSUME HistoryInv, NEW d \in Days
  PROVE  /\ RawCount(d, d) > 0 <=> RawOf(d) # {}
         /\ DailyCount(d, d) > 0 <=> daily[d] # {}
         /\ RawCount(d, d) = Cardinality(RawOf(d))
         /\ DailyCount(d, d) = Cardinality(daily[d])
<1>1. d \in Int /\ d..d = {d}
  BY DayType DEF Days
<1>2. {s \in raw : DayOf(s) \in d..d} = RawOf(d) /\ UNION {daily[e] : e \in d..d} = daily[d]
  BY <1>1 DEF RawOf
<1>3. RawCount(d, d) = Cardinality(RawOf(d)) /\ DailyCount(d, d) = Cardinality(daily[d])
  BY <1>2 DEF RawCount, DailyCount
<1>4. RawOf(d) \subseteq Arrived /\ daily[d] \subseteq Arrived
  BY DEF HistoryInv, BatchInv, RowsInv, RawOf
<1>5. IsFiniteSet(RawOf(d)) /\ IsFiniteSet(daily[d])
  BY <1>4, FS_Subset DEF HistoryInv, BatchInv
<1> QED
  BY <1>3, <1>5, SomeRows

LEMMA HistoryHolds == HistoryInv => HistoryCorrect
<1> SUFFICES ASSUME HistoryInv PROVE HistoryCorrect
  OBVIOUS
<1>1. HistoryTypeOK
  <2>1. maintenance.at \in {"idle", "insert", "delete_raw", "delete_daily", "sized"}
    BY DEF HistoryInv, Pass, Idle
  <2>a. /\ writing \subseteq SUBSET Arrived
        /\ \A b \in writing : b \cap committed = {} /\ b \cap batch = {}
    BY DEF HistoryInv, BatchInv
  <2>2. UNION writing \subseteq Arrived /\ (UNION writing) \cap committed = {}
    BY <2>a
  <2>3. half_day \in 0..MaxHalfDays /\ Arrived \subseteq Samples /\ raw \subseteq committed
    BY DEF HistoryInv, BatchInv
  <2>b. batch \subseteq Arrived /\ batch \cap committed = {} /\ committed \subseteq Arrived
    BY DEF HistoryInv, BatchInv
  <2>4. batch \cup (UNION writing) \cup raw \cup committed \subseteq Arrived
    BY <2>2, <2>3, <2>b
  <2>5. (batch \cup (UNION writing)) \cap committed = {}
    BY <2>2, <2>b
  <2>6. \A d \in Days : \A s \in daily[d] : DayOf(s) = d
    BY DEF HistoryInv, RowsInv
  <2> QED
    BY <2>1, <2>3, <2>4, <2>5, <2>6 DEF HistoryTypeOK
<1>2. DayQueryExact
  <2> SUFFICES ASSUME NEW d \in Days \ spoiled, d >= horizon
               PROVE  QueryCount(d, d) = Cardinality(Ever(d))
    BY DEF DayQueryExact, Ever
  <2>1. RawOf(d) = Ever(d) \/ (RawOf(d) = {} /\ daily[d] = Ever(d))
    BY DEF HistoryInv, DayInv
  <2>2. daily[d] \subseteq Ever(d)
    BY DEF HistoryInv, DayInv
  <2>3. QueryCount(d, d) = IF RawOf(d) # {} THEN Cardinality(RawOf(d)) ELSE Cardinality(daily[d])
    BY DayCounts DEF QueryCount
  <2> QED
    BY <2>1, <2>2, <2>3
<1>3. KeptDaysAreListed
  <2> SUFFICES ASSUME NEW s \in committed, DayOf(s) >= horizon
               PROVE  Listed(DayOf(s), DayOf(s))
    BY DEF KeptDaysAreListed
  <2>1. DayOf(s) \in Days /\ Ever(DayOf(s)) # {}
    BY DEF HistoryInv, BatchInv, Ever
  <2>2. RawOf(DayOf(s)) # {} \/ daily[DayOf(s)] # {}
    BY <2>1 DEF HistoryInv, DayInv
  <2> QED
    BY <2>1, <2>2, DayCounts DEF Listed
<1> QED
  BY <1>1, <1>2, <1>3 DEF HistoryCorrect

(* For any samples, delays and retentions, and with a crash between any    *)
(* two statements of a pass: a query for a day that is kept counts every   *)
(* sample once, and a path with data on it is listed.                      *)
THEOREM HistoryAlwaysCorrect == HistorySpec => []HistoryCorrect
<1> QED
  BY HistoryStarts, HistoryStep, HistoryHolds, PTL DEF HistorySpec

HIDE HistoryAssumption

-----------------------------------------------------------------------------
(* Preferences.                                                            *)
USE PreferencesAssumption, ContentsAssumption

(* What the files hold, and what a manager made of them.                   *)
Files ==
  [config : PresetNames \cup {NoFile, Spoilt},
   presets : [PresetNames -> SavedPresets \cup {NoFile, Spoilt}],
   definitions : SavedDefinitions \cup {NoFile, Spoilt},
   categories : SavedCategories \cup {NoFile, Spoilt}]
Presets == SavedPresets \cup {Shipped.presets[n] : n \in DOMAIN Shipped.presets}
Merges  == {load_definitions([definitions |-> d]) : d \in SavedDefinitions \cup {NoFile}}
Managers ==
  [config : PresetNames, preset : Presets, definitions : Merges,
   categories : SavedCategories \cup {<<>>}]

(* The requests, by the file they write.                                   *)
ConfigJobs ==
  [at : {"choose", "open", "fill"}, file : {"config"}, name : PresetNames,
   content : PresetNames, preset : Presets]
PresetJobs ==
  [at : {"open", "fill", "is_active", "adopt"}, file : {"presets"}, name : PresetNames,
   content : SavedPresets, preset : Presets \cup {NoFile, Spoilt}]
DefinitionJobs ==
  [at : {"open", "fill", "reload"}, file : {"definitions"}, name : PresetNames,
   content : SavedDefinitions, preset : Presets \cup {NoFile, Spoilt}]
  \cup
  [at : {"adopt"}, file : {"definitions"}, name : PresetNames,
   content : Merges, preset : Presets \cup {NoFile, Spoilt}]
CategoryJobs ==
  [at : {"open", "fill", "adopt"}, file : {"categories"}, name : PresetNames,
   content : SavedCategories, preset : Presets \cup {NoFile, Spoilt}]
Jobs == ConfigJobs \cup PresetJobs \cup DefinitionJobs \cup CategoryJobs

ShapeInv ==
  /\ files \in Files
  /\ units \in Managers \cup {Off}
  /\ unitJob \in [UnitClients -> Jobs \cup {NoRequest}]
  /\ NoRequests \/ units \in Managers
  /\ alone \in BOOLEAN
  /\ unitCalls \in 0..MaxUnitCalls /\ unitStarts \in 0..MaxUnitStarts

(* How far a request is with what it saves.                                *)
JobSound(j) ==
  /\ j.at = "choose" => j.preset = load_preset(files, j.name)
  /\ j.file = "config" => j.name = j.content
  /\ j.file = "config" /\ j.at # "choose" => units.config = j.name
  /\ j.file = "presets" /\ j.at \in {"is_active", "adopt"} =>
       files.presets[j.name] = j.content
  /\ j.file = "presets" /\ j.at = "adopt" => units.config = j.name
  /\ j.at = "reload" => files.definitions = j.content
  /\ j.file = "definitions" /\ j.at = "adopt" => j.content = load_definitions(files)
  /\ j.file = "categories" /\ j.at = "adopt" => j.content = files.categories

(* What is in the files is in effect, but for what the request j is about  *)
(* to change.                                                              *)
Writes(j, which) == j # NoRequest /\ j.file = which
AgreeBut(j) ==
  /\ Writes(j, "config") \/ units.config = load_config(files)
  /\ \/ Writes(j, "presets") /\ j.name = units.config
     \/ units.preset = load_preset(files, units.config)
  /\ Writes(j, "definitions") \/ units.definitions = load_definitions(files)
  /\ Writes(j, "categories") \/ units.categories = load_custom_categories(files)

JobAlone ==
  alone /\ (units # Off \/ ~NoRequests) =>
    /\ \A c, d \in UnitClients : c = d \/ unitJob[c] = NoRequest \/ unitJob[d] = NoRequest
    /\ \A c \in UnitClients :
         unitJob[c] # NoRequest => JobSound(unitJob[c]) /\ AgreeBut(unitJob[c])
    /\ NoRequests => AgreeBut(NoRequest)

PreferencesInv == ShapeInv /\ JobAlone

-----------------------------------------------------------------------------
(* The definitions that are loaded depend on their file only, and are, if  *)
(* any, a merge.                                                           *)
LEMMA SameDefinitions ==
  ASSUME NEW f, NEW g, f.definitions = g.definitions
  PROVE  load_definitions(f) = load_definitions(g)
BY DEF load_definitions

LEMMA LoadedDefinitions ==
  ASSUME NEW f \in Files, ~Failed(load_definitions(f))
  PROVE  load_definitions(f) \in Merges
<1>1. f.definitions \in SavedDefinitions \cup {NoFile, Spoilt}
  BY DEF Files
<1>2. f.definitions \in SavedDefinitions \cup {NoFile}
  <2> SUFFICES ASSUME f.definitions = Spoilt, f.definitions # NoFile PROVE FALSE
    BY <1>1
  <2>1. load_definitions(f) = Spoilt
    BY DEF load_definitions
  <2> QED
    BY <2>1 DEF Failed
<1>3. load_definitions(f) = load_definitions([definitions |-> f.definitions])
  BY SameDefinitions
<1> QED
  BY <1>2, <1>3 DEF Merges

LEMMA NotFailed ==
  /\ \A x \in Presets : ~Failed(x)
  /\ \A x \in Merges : ~Failed(x)
BY DEF Presets, Merges

LEMMA LoadedPreset ==
  ASSUME NEW f \in Files, NEW n \in PresetNames
  PROVE  /\ load_preset(f, n) \in Presets \cup {NoFile, Spoilt}
         /\ ~Failed(load_preset(f, n)) => load_preset(f, n) \in Presets
BY DEF Files, load_preset, Presets, Failed

LEMMA LoadedRest ==
  ASSUME NEW f \in Files
  PROVE  /\ load_config(f) \in PresetNames
         /\ load_custom_categories(f) \in SavedCategories \cup {<<>>}
BY DEF Files, load_config, load_custom_categories, Failed

LEMMA Created ==
  ASSUME NEW f \in Files
  PROVE  /\ New(f) \in Managers \cup {Off}
         /\ New(f) # Off =>
              /\ New(f).config = load_config(f)
              /\ New(f).preset = load_preset(f, load_config(f))
              /\ New(f).definitions = load_definitions(f)
              /\ New(f).categories = load_custom_categories(f)
<1>1. load_config(f) \in PresetNames
      /\ load_custom_categories(f) \in SavedCategories \cup {<<>>}
  BY LoadedRest
<1>2. ~Failed(load_preset(f, load_config(f))) => load_preset(f, load_config(f)) \in Presets
  BY <1>1, LoadedPreset
<1>3. ~Failed(load_definitions(f)) => load_definitions(f) \in Merges
  BY LoadedDefinitions
<1> QED
  BY <1>1, <1>2, <1>3 DEF New, Managers

-----------------------------------------------------------------------------
LEMMA JobKinds ==
  ASSUME NEW j \in Jobs
  PROVE  /\ j # NoRequest /\ j.at # "none"
         /\ j.file \in {"config", "presets", "definitions", "categories"}
         /\ j.name \in PresetNames
         /\ j.at = "choose" => j.file = "config" /\ j.preset \in Presets
         /\ j.at = "is_active" => j.file = "presets"
         /\ j.at = "reload" => j.file = "definitions"
         /\ j.at = "adopt" => j.file # "config"
         /\ j.at \in {"choose", "open", "fill", "is_active", "reload", "adopt"}
         /\ j.file = "config" => j.content \in PresetNames
         /\ j.file = "presets" => j.content \in SavedPresets
         /\ j.file = "definitions" /\ j.at = "adopt" => j.content \in Merges
         /\ j.file = "definitions" /\ j.at # "adopt" => j.content \in SavedDefinitions
         /\ j.file = "categories" => j.content \in SavedCategories
<1>1. CASE j \in ConfigJobs
  BY <1>1 DEF ConfigJobs, NoRequest
<1>2. CASE j \in PresetJobs
  BY <1>2 DEF PresetJobs, NoRequest
<1>3. CASE j \in DefinitionJobs
  BY <1>3 DEF DefinitionJobs, NoRequest
<1>4. CASE j \in CategoryJobs
  BY <1>4 DEF CategoryJobs, NoRequest
<1> QED
  BY <1>1, <1>2, <1>3, <1>4 DEF Jobs

(* A request that goes on to its next step.                                *)
LEMMA JobMoves ==
  ASSUME NEW j \in Jobs, NEW at,
         \/ j.file = "config" /\ at \in {"open", "fill"}
         \/ j.file = "presets" /\ at \in {"fill", "is_active", "adopt"}
         \/ j.file = "definitions" /\ at \in {"fill", "reload"} /\ j.at # "adopt"
         \/ j.file = "categories" /\ at \in {"fill", "adopt"}
  PROVE  /\ [j EXCEPT !.at = at] \in Jobs
         /\ [j EXCEPT !.at = at].at = at
         /\ [j EXCEPT !.at = at].file = j.file
         /\ [j EXCEPT !.at = at].name = j.name
         /\ [j EXCEPT !.at = at].content = j.content
         /\ [j EXCEPT !.at = at].preset = j.preset
<1>1. CASE j \in ConfigJobs
  BY <1>1 DEF Jobs, ConfigJobs
<1>2. CASE j \in PresetJobs
  BY <1>2 DEF Jobs, PresetJobs
<1>3. CASE j \in DefinitionJobs
  BY <1>3 DEF Jobs, DefinitionJobs
<1>4. CASE j \in CategoryJobs
  BY <1>4 DEF Jobs, CategoryJobs
<1> QED
  BY <1>1, <1>2, <1>3, <1>4 DEF Jobs

LEMMA AtWork ==
  ASSUME ShapeInv, NEW c \in UnitClients, unitJob[c].at # "none"
  PROVE  unitJob[c] \in Jobs /\ unitJob[c] # NoRequest /\ units \in Managers /\ ~NoRequests
<1>1. unitJob[c] \in Jobs \cup {NoRequest}
  BY DEF ShapeInv
<1>2. unitJob[c] # NoRequest
  BY DEF NoRequest
<1> QED
  BY <1>1, <1>2 DEF ShapeInv, NoRequests

LEMMA JobStep ==
  ASSUME ShapeInv, NEW c \in UnitClients, NEW j \in Jobs \cup {NoRequest},
         unitJob' = [unitJob EXCEPT ![c] = j]
  PROVE  /\ unitJob' \in [UnitClients -> Jobs \cup {NoRequest}]
         /\ \A x \in UnitClients : unitJob'[x] = IF x = c THEN j ELSE unitJob[x]
BY DEF ShapeInv

(* Where a request is alone, it is enough to look at it.                   *)
LEMMA AloneStep ==
  ASSUME PreferencesInv, NEW c \in UnitClients, unitJob[c].at # "none",
         NEW j \in Jobs \cup {NoRequest}, unitJob' = [unitJob EXCEPT ![c] = j],
         alone' => alone,
         alone' /\ JobSound(unitJob[c]) /\ AgreeBut(unitJob[c])
           => (j # NoRequest => JobSound(j)') /\ AgreeBut(j)'
  PROVE  JobAlone'
<1> SUFFICES ASSUME alone'
             PROVE  /\ \A x, y \in UnitClients :
                         x = y \/ unitJob'[x] = NoRequest \/ unitJob'[y] = NoRequest
                    /\ \A x \in UnitClients : unitJob'[x] # NoRequest =>
                         JobSound(unitJob[x])' /\ AgreeBut(unitJob[x])'
                    /\ NoRequests' => AgreeBut(NoRequest)'
  BY DEF JobAlone
<1>1. /\ unitJob[c] # NoRequest /\ ~NoRequests
      /\ \A x \in UnitClients : unitJob'[x] = IF x = c THEN j ELSE unitJob[x]
  BY AtWork, JobStep DEF PreferencesInv
<1>2. /\ \A x, y \in UnitClients :
           x = y \/ unitJob[x] = NoRequest \/ unitJob[y] = NoRequest
      /\ JobSound(unitJob[c]) /\ AgreeBut(unitJob[c])
  BY <1>1 DEF PreferencesInv, JobAlone
<1>3. \A x \in UnitClients : x # c => unitJob'[x] = NoRequest
  BY <1>1, <1>2
<1>4. (j # NoRequest => JobSound(j)') /\ AgreeBut(j)'
  BY <1>2
<1>5. ASSUME NEW x \in UnitClients, unitJob'[x] # NoRequest
      PROVE  JobSound(unitJob[x])' /\ AgreeBut(unitJob[x])'
  <2>1. unitJob'[x] = j
    BY <1>1, <1>3, <1>5
  <2> QED
    BY <1>4, <1>5, <2>1
<1>6. NoRequests' => j = NoRequest
  BY <1>1 DEF NoRequests
<1> QED
  BY <1>3, <1>4, <1>5, <1>6

-----------------------------------------------------------------------------
(* A request is received: nothing is changed yet.                          *)
LEMMA SaveOK ==
  ASSUME PreferencesInv, NEW c \in UnitClients, NEW at, NEW which, NEW name, NEW saved,
         Save(c, at, which, name, saved),
         [at |-> at, file |-> which, name |-> name, content |-> saved,
          preset |-> load_preset(files, name)] \in Jobs,
         at \notin {"is_active", "reload", "adopt"},
         which = "config" => name = saved /\ at = "choose"
  PROVE  PreferencesInv'
<1> DEFINE k == [at |-> at, file |-> which, name |-> name, content |-> saved,
                 preset |-> load_preset(files, name)]
<1>1. /\ k \in Jobs /\ k.at = at /\ k.file = which /\ k.name = name /\ k.content = saved
      /\ k.preset = load_preset(files, name)
      /\ unitJob' = [unitJob EXCEPT ![c] = k]
      /\ units # Off /\ unitCalls' = unitCalls + 1 /\ unitCalls < MaxUnitCalls
      /\ UNCHANGED <<files, units, unitStarts>>
      /\ alone' = (alone /\ NoRequests)
  BY DEF Save, Asked
<1> HIDE DEF k
<1>2. PICK j \in Jobs : j = k
  BY <1>1
<1>3. ShapeInv
  BY DEF PreferencesInv
<1>4. /\ unitJob' \in [UnitClients -> Jobs \cup {NoRequest}]
      /\ \A x \in UnitClients : unitJob'[x] = IF x = c THEN j ELSE unitJob[x]
  BY <1>1, <1>2, <1>3, JobStep
<1>5. units \in Managers
  BY <1>1, <1>3 DEF ShapeInv
<1>6. unitCalls' \in 0..MaxUnitCalls
  BY <1>1, <1>3 DEF ShapeInv
<1>7. alone' \in BOOLEAN
  BY <1>1
<1>8. ShapeInv'
  BY <1>1, <1>3, <1>4, <1>5, <1>6, <1>7 DEF ShapeInv
<1>9. JobAlone'
  <2> SUFFICES ASSUME alone' PROVE JobAlone'
    BY DEF JobAlone
  <2>1. alone /\ NoRequests
    BY <1>1
  <2>2. AgreeBut(NoRequest)
    BY <1>1, <2>1 DEF PreferencesInv, JobAlone
  <2>3. AgreeBut(j)'
    BY <1>1, <2>2 DEF AgreeBut, Writes, load_preset, load_config, load_definitions,
                      load_custom_categories
  <2>4. JobSound(j)'
    BY <1>1, <1>2 DEF JobSound, load_preset
  <2>5. \A x \in UnitClients : x # c => unitJob'[x] = NoRequest
    BY <1>4, <2>1 DEF NoRequests
  <2>6. j # NoRequest /\ unitJob'[c] = j
    BY <1>4, JobKinds
  <2>7. ASSUME NEW x \in UnitClients, unitJob'[x] # NoRequest
        PROVE  JobSound(unitJob[x])' /\ AgreeBut(unitJob[x])'
    <3>1. unitJob'[x] = j
      BY <2>5, <2>6, <2>7
    <3> QED
      BY <2>3, <2>4, <3>1
  <2>8. ~NoRequests'
    BY <2>6 DEF NoRequests
  <2> QED
    BY <2>5, <2>7, <2>8 DEF JobAlone
<1> QED
  BY <1>8, <1>9 DEF PreferencesInv

LEMMA RequestsOK ==
  ASSUME PreferencesInv, NEW c \in UnitClients,
         \/ \E n \in PresetNames : \/ SetActivePreset(c, n)
                                   \/ \E p \in SavedPresets : SaveCustomPreset(c, n, p)
         \/ \E d \in SavedDefinitions : SaveCustomDefinitions(c, d)
         \/ \E k \in SavedCategories : SaveCustomCategories(c, k)
  PROVE  PreferencesInv'
<1>1. files \in Files /\ Shipped.config \in PresetNames
  BY DEF PreferencesInv, ShapeInv
<1>2. ASSUME NEW n \in PresetNames, SetActivePreset(c, n) PROVE PreferencesInv'
  <2> DEFINE at == "choose"
             which == "config"
  <2>1. Save(c, at, which, n, n) /\ ~Failed(load_preset(files, n))
    BY <1>2 DEF SetActivePreset
  <2>2. load_preset(files, n) \in Presets
    BY <1>1, <2>1, LoadedPreset
  <2>3. [at |-> at, file |-> which, name |-> n, content |-> n,
         preset |-> load_preset(files, n)] \in Jobs
    BY <2>2 DEF Jobs, ConfigJobs
  <2>4. at = "choose" /\ at \notin {"is_active", "reload", "adopt"}
    OBVIOUS
  <2> HIDE DEF at, which
  <2> QED
    BY <2>1, <2>3, <2>4, SaveOK
<1>3. ASSUME NEW n \in PresetNames, NEW p \in SavedPresets, SaveCustomPreset(c, n, p)
      PROVE  PreferencesInv'
  <2> DEFINE at == "open"
             which == "presets"
  <2>1. Save(c, at, which, n, p)
    BY <1>3 DEF SaveCustomPreset
  <2>2. [at |-> at, file |-> which, name |-> n, content |-> p,
         preset |-> load_preset(files, n)] \in Jobs
    BY <1>1, LoadedPreset DEF Jobs, PresetJobs
  <2>3. which # "config" /\ at \notin {"is_active", "reload", "adopt"}
    OBVIOUS
  <2> HIDE DEF at, which
  <2> QED
    BY <2>1, <2>2, <2>3, SaveOK
<1>4. ASSUME NEW d \in SavedDefinitions, SaveCustomDefinitions(c, d) PROVE PreferencesInv'
  <2> DEFINE at == "open"
             which == "definitions"
  <2>1. PICK n \in PresetNames : n = Shipped.config
    BY <1>1
  <2>2. Save(c, at, which, n, d)
    BY <1>4, <2>1 DEF SaveCustomDefinitions
  <2>3. [at |-> at, file |-> which, name |-> n, content |-> d,
         preset |-> load_preset(files, n)] \in Jobs
    BY <1>1, LoadedPreset DEF Jobs, DefinitionJobs
  <2>4. which # "config" /\ at \notin {"is_active", "reload", "adopt"}
    OBVIOUS
  <2> HIDE DEF at, which
  <2> QED
    BY <2>2, <2>3, <2>4, SaveOK
<1>5. ASSUME NEW k \in SavedCategories, SaveCustomCategories(c, k) PROVE PreferencesInv'
  <2> DEFINE at == "open"
             which == "categories"
  <2>1. PICK n \in PresetNames : n = Shipped.config
    BY <1>1
  <2>2. Save(c, at, which, n, k)
    BY <1>5, <2>1 DEF SaveCustomCategories
  <2>3. [at |-> at, file |-> which, name |-> n, content |-> k,
         preset |-> load_preset(files, n)] \in Jobs
    BY <1>1, LoadedPreset DEF Jobs, CategoryJobs
  <2>4. which # "config" /\ at \notin {"is_active", "reload", "adopt"}
    OBVIOUS
  <2> HIDE DEF at, which
  <2> QED
    BY <2>2, <2>3, <2>4, SaveOK
<1> QED
  BY <1>2, <1>3, <1>4, <1>5

LEMMA DeleteOK ==
  ASSUME PreferencesInv, NEW c \in UnitClients, NEW n \in PresetNames,
         DeleteCustomPreset(c, n)
  PROVE  PreferencesInv'
<1>1. /\ units # Off /\ unitCalls' = unitCalls + 1 /\ unitCalls < MaxUnitCalls
      /\ unitJob[c] = NoRequest /\ unitJob' = [unitJob EXCEPT ![c] = NoRequest]
      /\ files' = [files EXCEPT !.presets[n] = NoFile]
      /\ UNCHANGED <<units, unitStarts>>
      /\ alone' = (alone /\ NoRequests /\ units.config # n)
  BY DEF DeleteCustomPreset, Asked
<1>2. ShapeInv
  BY DEF PreferencesInv
<1>3. unitJob' = unitJob
  BY <1>1, <1>2 DEF ShapeInv
<1>4. /\ files' \in Files /\ files'.config = files.config
      /\ files'.definitions = files.definitions /\ files'.categories = files.categories
      /\ \A m \in PresetNames : m # n => files'.presets[m] = files.presets[m]
  BY <1>1, <1>2 DEF ShapeInv, Files
<1>5. unitCalls' \in 0..MaxUnitCalls
  BY <1>1, <1>2 DEF ShapeInv
<1>6. units \in Managers /\ units.config \in PresetNames
  BY <1>1, <1>2 DEF ShapeInv, Managers
<1>7. alone' \in BOOLEAN
  BY <1>1
<1>8. ShapeInv'
  BY <1>1, <1>2, <1>3, <1>4, <1>5, <1>6, <1>7 DEF ShapeInv
<1>9. JobAlone'
  <2> SUFFICES ASSUME alone' PROVE JobAlone'
    BY DEF JobAlone
  <2>1. alone /\ NoRequests /\ units.config # n
    BY <1>1
  <2>2. AgreeBut(NoRequest)
    BY <1>1, <2>1 DEF PreferencesInv, JobAlone
  <2>3. load_definitions(files') = load_definitions(files)
    BY <1>4, SameDefinitions
  <2>4. AgreeBut(NoRequest)'
    BY <1>1, <1>4, <1>6, <2>1, <2>2, <2>3
       DEF AgreeBut, Writes, load_preset, load_config, load_custom_categories
  <2>5. \A x \in UnitClients : unitJob'[x] = NoRequest
    BY <1>3, <2>1 DEF NoRequests
  <2> QED
    BY <2>4, <2>5 DEF JobAlone
<1> QED
  BY <1>8, <1>9 DEF PreferencesInv

-----------------------------------------------------------------------------
(* A step of a request at work: what is left to show of it.                *)
LEMMA WorkOK ==
  ASSUME PreferencesInv, NEW c \in UnitClients, unitJob[c].at # "none",
         NEW j \in Jobs \cup {NoRequest}, unitJob' = [unitJob EXCEPT ![c] = j],
         UNCHANGED <<unitCalls, unitStarts>>,
         files' \in Files, units' \in Managers, alone' \in {FALSE, alone},
         alone' /\ JobSound(unitJob[c]) /\ AgreeBut(unitJob[c])
           => (j # NoRequest => JobSound(j)') /\ AgreeBut(j)'
  PROVE  PreferencesInv'
<1>1. alone' \in BOOLEAN
  BY DEF PreferencesInv, ShapeInv
<1>2. alone' => alone
  OBVIOUS
<1>3. ShapeInv'
  BY <1>1, JobStep DEF PreferencesInv, ShapeInv
<1>4. JobAlone'
  BY <1>2, AloneStep
<1> QED
  BY <1>3, <1>4 DEF PreferencesInv

LEMMA JobToStep ==
  ASSUME ShapeInv, NEW c \in UnitClients, NEW step, JobTo(c, step)
  PROVE  /\ step = "done" => unitJob' = [unitJob EXCEPT ![c] = NoRequest]
         /\ step # "done" =>
              unitJob' = [unitJob EXCEPT ![c] = [unitJob[c] EXCEPT !.at = step]]
         /\ UNCHANGED <<unitCalls, unitStarts>>
BY DEF JobTo, ShapeInv

LEMMA ChooseOK ==
  ASSUME PreferencesInv, NEW c \in UnitClients, Choose(c)
  PROVE  PreferencesInv'
<1>1. ShapeInv /\ unitJob[c].at = "choose" /\ JobTo(c, "open")
      /\ UNCHANGED <<files, alone>>
      /\ units' = [units EXCEPT !.config = unitJob[c].name, !.preset = unitJob[c].preset]
  BY DEF Choose, JobAt, PreferencesInv
<1>2. PICK j \in Jobs : j = unitJob[c]
  BY <1>1, AtWork
<1>3. j.file = "config" /\ j.at = "choose" /\ j.preset \in Presets /\ j.name \in PresetNames
  BY <1>1, <1>2, JobKinds
<1>4. PICK k \in Jobs : k = [j EXCEPT !.at = "open"]
  BY <1>3, JobMoves
<1>5. k.at = "open" /\ k.file = j.file /\ k.name = j.name /\ k.content = j.content
  BY <1>3, <1>4, JobMoves
<1>6. unitJob' = [unitJob EXCEPT ![c] = k] /\ UNCHANGED <<unitCalls, unitStarts>>
  BY <1>1, <1>2, <1>4, JobToStep
<1>7. units \in Managers
  BY <1>1, AtWork
<1>8. /\ units' \in Managers /\ units'.config = j.name /\ units'.preset = j.preset
      /\ units'.definitions = units.definitions /\ units'.categories = units.categories
  BY <1>1, <1>2, <1>3, <1>7 DEF Managers
<1>9. ASSUME JobSound(j), AgreeBut(j) PROVE JobSound(k)' /\ AgreeBut(k)'
  <2>1. j.preset = load_preset(files, j.name) /\ j.name = j.content
    BY <1>3, <1>9 DEF JobSound
  <2>2. JobSound(k)'
    BY <1>3, <1>5, <1>8, <2>1 DEF JobSound
  <2>3. load_definitions(files') = load_definitions(files)
    BY <1>1
  <2>4. AgreeBut(k)'
    BY <1>1, <1>3, <1>5, <1>8, <1>9, <2>1, <2>3, JobKinds
       DEF AgreeBut, Writes, load_preset, load_config, load_custom_categories
  <2> QED
    BY <2>2, <2>4
<1>10. files' \in Files
  BY <1>1 DEF ShapeInv
<1> QED
  BY <1>1, <1>2, <1>6, <1>8, <1>9, <1>10, WorkOK

(* What is written to a file shows in it and in no other.                  *)
LEMMA FileWritten ==
  ASSUME files \in Files, NEW j \in Jobs, NEW x,
         x = Spoilt \/ (x = j.content /\ j.at = "fill")
  PROVE  /\ WithFile(j, x) \in Files
         /\ WithFile(j, x).config = IF j.file = "config" THEN x ELSE files.config
         /\ WithFile(j, x).definitions =
              IF j.file = "definitions" THEN x ELSE files.definitions
         /\ WithFile(j, x).categories =
              IF j.file = "categories" THEN x ELSE files.categories
         /\ \A n \in PresetNames : WithFile(j, x).presets[n] =
              IF j.file = "presets" /\ n = j.name THEN x ELSE files.presets[n]
<1>1. CASE j.file = "config"
  <2>1. x \in PresetNames \cup {Spoilt}
    BY <1>1, JobKinds
  <2>2. WithFile(j, x) = [files EXCEPT !.config = x]
    BY <1>1 DEF WithFile
  <2> QED
    BY <1>1, <2>1, <2>2 DEF Files
<1>2. CASE j.file = "presets"
  <2>1. x \in SavedPresets \cup {Spoilt} /\ j.name \in PresetNames
    BY <1>2, JobKinds
  <2>2. WithFile(j, x) = [files EXCEPT !.presets = [files.presets EXCEPT ![j.name] = x]]
    BY <1>2 DEF WithFile
  <2>3. [files.presets EXCEPT ![j.name] = x] \in [PresetNames -> SavedPresets \cup {NoFile, Spoilt}]
    BY <2>1 DEF Files
  <2> QED
    BY <1>2, <2>1, <2>2, <2>3 DEF Files
<1>3. CASE j.file = "definitions"
  <2>1. x \in SavedDefinitions \cup {Spoilt}
    BY <1>3, JobKinds
  <2>2. WithFile(j, x) = [files EXCEPT !.definitions = x]
    BY <1>3 DEF WithFile
  <2> QED
    BY <1>3, <2>1, <2>2 DEF Files
<1>4. CASE j.file = "categories"
  <2>1. x \in SavedCategories \cup {Spoilt}
    BY <1>4, JobKinds
  <2>2. WithFile(j, x) = [files EXCEPT !.categories = x]
    BY <1>4 DEF WithFile
  <2> QED
    BY <1>4, <2>1, <2>2 DEF Files
<1> QED
  BY <1>1, <1>2, <1>3, <1>4, JobKinds

(* While a request writes its file, the others stay in effect.             *)
LEMMA AgreeWritten ==
  ASSUME ShapeInv, units \in Managers, NEW j \in Jobs, NEW x,
         x = Spoilt \/ (x = j.content /\ j.at = "fill"),
         UNCHANGED units, files' = WithFile(j, x), AgreeBut(j)
  PROVE  AgreeBut(j)'
<1>1. /\ files' \in Files
      /\ files'.config = IF j.file = "config" THEN x ELSE files.config
      /\ files'.definitions = IF j.file = "definitions" THEN x ELSE files.definitions
      /\ files'.categories = IF j.file = "categories" THEN x ELSE files.categories
      /\ \A n \in PresetNames : files'.presets[n] =
           IF j.file = "presets" /\ n = j.name THEN x ELSE files.presets[n]
  BY FileWritten DEF ShapeInv
<1>2. j # NoRequest
  BY JobKinds
<1>3. units.config \in PresetNames
  BY DEF Managers
<1>4. Writes(j, "config") \/ units'.config = load_config(files')
  BY <1>1, <1>2 DEF AgreeBut, Writes, load_config
<1>5. \/ Writes(j, "presets") /\ j.name = units'.config
      \/ units'.preset = load_preset(files', units'.config)
  BY <1>1, <1>2, <1>3 DEF AgreeBut, Writes, load_preset
<1>6. Writes(j, "definitions") \/ units'.definitions = load_definitions(files')
  <2>1. CASE j.file = "definitions"
    BY <1>2, <2>1 DEF Writes
  <2>2. CASE j.file # "definitions"
    <3>1. load_definitions(files') = load_definitions(files)
      BY <1>1, <2>2, SameDefinitions
    <3> QED
      BY <2>2, <3>1 DEF AgreeBut, Writes
  <2> QED
    BY <2>1, <2>2
<1>7. Writes(j, "categories") \/ units'.categories = load_custom_categories(files')
  BY <1>1, <1>2 DEF AgreeBut, Writes, load_custom_categories
<1> QED
  BY <1>4, <1>5, <1>6, <1>7 DEF AgreeBut

LEMMA OpenFileOK ==
  ASSUME PreferencesInv, NEW c \in UnitClients, OpenFile(c)
  PROVE  PreferencesInv'
<1>1. ShapeInv /\ unitJob[c].at = "open" /\ JobTo(c, "fill")
      /\ UNCHANGED <<units, alone>> /\ files' = WithFile(unitJob[c], Spoilt)
  BY DEF OpenFile, JobAt, PreferencesInv
<1>2. PICK j \in Jobs : j = unitJob[c]
  BY <1>1, AtWork
<1>3. j.at = "open" /\ j.file \in {"config", "presets", "definitions", "categories"}
  BY <1>1, <1>2, JobKinds
<1>4. PICK k \in Jobs : k = [j EXCEPT !.at = "fill"]
  BY <1>3, JobMoves
<1>5. k.at = "fill" /\ k.file = j.file /\ k.name = j.name /\ k.content = j.content
  BY <1>3, <1>4, JobMoves
<1>6. unitJob' = [unitJob EXCEPT ![c] = k] /\ UNCHANGED <<unitCalls, unitStarts>>
  BY <1>1, <1>2, <1>4, JobToStep
<1>7. units \in Managers
  BY <1>1, AtWork
<1>8. files' \in Files
  BY <1>1, <1>2, FileWritten DEF ShapeInv
<1>9. ASSUME JobSound(j), AgreeBut(j) PROVE JobSound(k)' /\ AgreeBut(k)'
  <2>1. JobSound(k)'
    BY <1>1, <1>3, <1>5, <1>9 DEF JobSound
  <2>2. AgreeBut(j)'
    BY <1>1, <1>2, <1>7, <1>9, AgreeWritten
  <2>3. AgreeBut(k)'
    BY <1>5, <2>2, JobKinds DEF AgreeBut, Writes
  <2> QED
    BY <2>1, <2>3
<1> QED
  BY <1>1, <1>2, <1>6, <1>7, <1>8, <1>9, WorkOK

LEMMA FillOK ==
  ASSUME PreferencesInv, NEW c \in UnitClients, FillFile(c)
  PROVE  PreferencesInv'
<1>1. ShapeInv /\ unitJob[c].at = "fill"
      /\ UNCHANGED <<units, alone>> /\ files' = WithFile(unitJob[c], unitJob[c].content)
  BY DEF FillFile, JobAt, PreferencesInv
<1>2. PICK j \in Jobs : j = unitJob[c]
  BY <1>1, AtWork
<1>3. j.at = "fill" /\ j # NoRequest
  BY <1>1, <1>2, JobKinds
<1>4. units \in Managers /\ units.config \in PresetNames
  BY <1>1, AtWork DEF Managers
<1>5. /\ files' \in Files
      /\ files'.config = IF j.file = "config" THEN j.content ELSE files.config
      /\ files'.definitions = IF j.file = "definitions" THEN j.content ELSE files.definitions
      /\ files'.categories = IF j.file = "categories" THEN j.content ELSE files.categories
      /\ \A n \in PresetNames : files'.presets[n] =
           IF j.file = "presets" /\ n = j.name THEN j.content ELSE files.presets[n]
  BY <1>1, <1>2, <1>3, FileWritten DEF ShapeInv
<1>6. AgreeBut(j) => AgreeBut(j)'
  BY <1>1, <1>2, <1>3, <1>4, AgreeWritten
<1>7. CASE j.file = "config"
  <2>1. JobTo(c, "done")
    BY <1>2, <1>7 DEF FillFile
  <2>2. unitJob' = [unitJob EXCEPT ![c] = NoRequest] /\ UNCHANGED <<unitCalls, unitStarts>>
    BY <1>1, <2>1, JobToStep
  <2>3. ASSUME JobSound(j), AgreeBut(j) PROVE AgreeBut(NoRequest)'
    <3>1. units'.config = load_config(files')
      <4>1. j.content = units.config /\ ~Failed(j.content)
        BY <1>3, <1>4, <1>7, <2>3 DEF JobSound
      <4> QED
        BY <1>1, <1>5, <1>7, <4>1 DEF load_config
    <3> QED
      BY <1>6, <1>7, <2>3, <3>1 DEF AgreeBut, Writes
  <2> QED
    BY <1>1, <1>2, <1>4, <1>5, <2>2, <2>3, WorkOK
<1>8. ASSUME NEW at, JobTo(c, at), j.file # "config",
             \/ j.file = "presets" /\ at = "is_active"
             \/ j.file = "definitions" /\ at = "reload"
             \/ j.file = "categories" /\ at = "adopt"
      PROVE  PreferencesInv'
  <2>1. at # "done"
    BY <1>8
  <2>2. PICK k \in Jobs : k = [j EXCEPT !.at = at]
    BY <1>3, <1>8, JobMoves
  <2>3. k.at = at /\ k.file = j.file /\ k.name = j.name /\ k.content = j.content
    BY <1>3, <1>8, <2>2, JobMoves
  <2>4. unitJob' = [unitJob EXCEPT ![c] = k] /\ UNCHANGED <<unitCalls, unitStarts>>
    BY <1>1, <1>2, <1>8, <2>1, <2>2, JobToStep
  <2>5. ASSUME JobSound(j), AgreeBut(j) PROVE JobSound(k)' /\ AgreeBut(k)'
    <3>1. j.name \in PresetNames
      BY JobKinds
    <3>2. JobSound(k)'
      BY <1>5, <1>8, <2>3, <3>1 DEF JobSound
    <3>3. AgreeBut(k)'
      BY <1>3, <1>6, <2>3, <2>5, JobKinds DEF AgreeBut, Writes
    <3> QED
      BY <3>2, <3>3
  <2> QED
    BY <1>1, <1>2, <1>4, <1>5, <2>4, <2>5, WorkOK
<1>9. CASE j.file = "presets"
  <2>1. JobTo(c, "is_active")
    BY <1>2, <1>9 DEF FillFile
  <2> QED
    BY <1>8, <1>9, <2>1
<1>10. CASE j.file = "definitions"
  <2>1. JobTo(c, "reload")
    BY <1>2, <1>10 DEF FillFile
  <2> QED
    BY <1>8, <1>10, <2>1
<1>11. CASE j.file = "categories"
  <2>1. JobTo(c, "adopt")
    BY <1>2, <1>11 DEF FillFile
  <2> QED
    BY <1>8, <1>11, <2>1
<1> QED
  BY <1>7, <1>9, <1>10, <1>11, JobKinds

LEMMA FailsOK ==
  ASSUME PreferencesInv, NEW c \in UnitClients, WriteFails(c)
  PROVE  PreferencesInv'
<1>1. ShapeInv /\ unitJob[c].at # "none" /\ JobTo(c, "done")
      /\ UNCHANGED <<files, units>> /\ alone' = FALSE
  BY DEF WriteFails, JobAt, PreferencesInv
<1>2. unitJob' = [unitJob EXCEPT ![c] = NoRequest] /\ UNCHANGED <<unitCalls, unitStarts>>
  BY <1>1, JobToStep
<1>3. units \in Managers /\ files \in Files
  BY <1>1, AtWork DEF ShapeInv
<1> QED
  BY <1>1, <1>2, <1>3, WorkOK

LEMMA IsActiveOK ==
  ASSUME PreferencesInv, NEW c \in UnitClients, IsActive(c)
  PROVE  PreferencesInv'
<1>1. ShapeInv /\ unitJob[c].at = "is_active" /\ UNCHANGED <<files, units, alone>>
      /\ JobTo(c, IF units.config = unitJob[c].name THEN "adopt" ELSE "done")
  BY DEF IsActive, JobAt, PreferencesInv
<1>2. PICK j \in Jobs : j = unitJob[c]
  BY <1>1, AtWork
<1>3. j.at = "is_active" /\ j.file = "presets" /\ j # NoRequest
  BY <1>1, <1>2, JobKinds
<1>4. units \in Managers /\ files \in Files
  BY <1>1, AtWork DEF ShapeInv
<1>5. CASE units.config = j.name
  <2>1. JobTo(c, "adopt")
    BY <1>1, <1>2, <1>5
  <2>2. PICK k \in Jobs : k = [j EXCEPT !.at = "adopt"]
    BY <1>3, JobMoves
  <2>3. k.at = "adopt" /\ k.file = j.file /\ k.name = j.name /\ k.content = j.content
    BY <1>3, <2>2, JobMoves
  <2>4. unitJob' = [unitJob EXCEPT ![c] = k] /\ UNCHANGED <<unitCalls, unitStarts>>
    BY <1>1, <1>2, <2>1, <2>2, JobToStep
  <2>5. ASSUME JobSound(j), AgreeBut(j) PROVE JobSound(k)' /\ AgreeBut(k)'
    <3>1. JobSound(k)'
      BY <1>1, <1>3, <1>5, <2>3, <2>5 DEF JobSound
    <3>2. AgreeBut(k)'
      BY <1>1, <1>3, <2>3, <2>5, JobKinds
         DEF AgreeBut, Writes, load_preset, load_config, load_definitions,
             load_custom_categories
    <3> QED
      BY <3>1, <3>2
  <2> QED
    BY <1>1, <1>2, <1>4, <2>4, <2>5, WorkOK
<1>6. CASE units.config # j.name
  <2>1. JobTo(c, "done")
    BY <1>1, <1>2, <1>6
  <2>2. unitJob' = [unitJob EXCEPT ![c] = NoRequest] /\ UNCHANGED <<unitCalls, unitStarts>>
    BY <1>1, <2>1, JobToStep
  <2>3. ASSUME AgreeBut(j) PROVE AgreeBut(NoRequest)'
    BY <1>1, <1>3, <1>6, <2>3
       DEF AgreeBut, Writes, load_preset, load_config, load_definitions,
           load_custom_categories
  <2> QED
    BY <1>1, <1>2, <1>4, <2>2, <2>3, WorkOK
<1> QED
  BY <1>5, <1>6

LEMMA ReloadOK ==
  ASSUME PreferencesInv, NEW c \in UnitClients, Reload(c)
  PROVE  PreferencesInv'
<1>1. ShapeInv /\ unitJob[c].at = "reload" /\ UNCHANGED <<files, units, alone>>
  BY DEF Reload, JobAt, PreferencesInv
<1>2. PICK j \in Jobs : j = unitJob[c]
  BY <1>1, AtWork
<1>3. /\ j.at = "reload" /\ j.file = "definitions" /\ j # NoRequest
      /\ j.content \in SavedDefinitions
  BY <1>1, <1>2, JobKinds
<1>4. units \in Managers /\ files \in Files
  BY <1>1, AtWork DEF ShapeInv
<1>5. CASE Failed(load_definitions(files))
  <2>1. JobTo(c, "done")
    BY <1>5 DEF Reload
  <2>2. unitJob' = [unitJob EXCEPT ![c] = NoRequest] /\ UNCHANGED <<unitCalls, unitStarts>>
    BY <1>1, <2>1, JobToStep
  <2>3. ~JobSound(j)
    <3> SUFFICES ASSUME JobSound(j) PROVE FALSE
      OBVIOUS
    <3>1. files.definitions = j.content
      BY <1>3 DEF JobSound
    <3>2. load_definitions(files) = load_definitions([definitions |-> j.content])
      BY <3>1, SameDefinitions
    <3> QED
      BY <1>3, <1>5, <3>2
  <2> QED
    BY <1>1, <1>2, <1>4, <2>2, <2>3, WorkOK
<1>6. CASE ~Failed(load_definitions(files))
  <2>1. PICK m \in Merges : m = load_definitions(files)
    BY <1>4, <1>6, LoadedDefinitions
  <2>2. PICK k : k = [j EXCEPT !.at = "adopt", !.content = m]
    OBVIOUS
  <2>3. k \in Jobs /\ k.at = "adopt" /\ k.file = "definitions" /\ k.content = m
    BY <1>3, <2>2 DEF Jobs, ConfigJobs, PresetJobs, DefinitionJobs, CategoryJobs
  <2>4. unitJob' = [unitJob EXCEPT ![c] = k] /\ UNCHANGED <<unitCalls, unitStarts>>
    BY <1>1, <1>2, <1>6, <2>1, <2>2 DEF Reload, ShapeInv
  <2>5. ASSUME AgreeBut(j) PROVE JobSound(k)' /\ AgreeBut(k)'
    <3>1. load_definitions(files') = load_definitions(files)
      BY <1>1
    <3>2. JobSound(k)'
      BY <2>1, <2>3, <3>1 DEF JobSound
    <3>3. AgreeBut(k)'
      BY <1>1, <1>3, <2>3, <2>5, JobKinds
         DEF AgreeBut, Writes, load_preset, load_config, load_custom_categories
    <3> QED
      BY <3>2, <3>3
  <2> QED
    BY <1>1, <1>2, <1>4, <2>3, <2>4, <2>5, WorkOK
<1> QED
  BY <1>5, <1>6

LEMMA AdoptOK ==
  ASSUME PreferencesInv, NEW c \in UnitClients, Adopt(c)
  PROVE  PreferencesInv'
<1>1. ShapeInv /\ unitJob[c].at = "adopt" /\ UNCHANGED <<files, alone>> /\ JobTo(c, "done")
  BY DEF Adopt, JobAt, PreferencesInv
<1>2. PICK j \in Jobs : j = unitJob[c]
  BY <1>1, AtWork
<1>3. j.at = "adopt" /\ j.file \in {"presets", "definitions", "categories"} /\ j # NoRequest
  BY <1>1, <1>2, JobKinds
<1>4. units \in Managers /\ files' \in Files /\ files \in Files
  BY <1>1, AtWork DEF ShapeInv
<1>5. unitJob' = [unitJob EXCEPT ![c] = NoRequest] /\ UNCHANGED <<unitCalls, unitStarts>>
  BY <1>1, JobToStep
<1>6. load_definitions(files') = load_definitions(files)
  BY <1>1
<1>7. CASE j.file = "presets"
  <2>1. j.content \in SavedPresets /\ j.name \in PresetNames
    BY <1>7, JobKinds
  <2>2. units' = [units EXCEPT !.preset = j.content]
    BY <1>2, <1>7 DEF Adopt
  <2>3. /\ units' \in Managers /\ units'.config = units.config /\ units'.preset = j.content
        /\ units'.definitions = units.definitions /\ units'.categories = units.categories
    BY <1>4, <2>1, <2>2 DEF Managers, Presets
  <2>4. ASSUME JobSound(j), AgreeBut(j) PROVE AgreeBut(NoRequest)'
    <3>1. units.config = j.name /\ files.presets[j.name] = j.content
      BY <1>3, <1>7, <2>4 DEF JobSound
    <3>2. j.content # NoFile
      BY <2>1 DEF Failed
    <3> QED
      BY <1>1, <1>3, <1>6, <1>7, <2>3, <2>4, <3>1, <3>2
         DEF AgreeBut, Writes, load_preset, load_config, load_custom_categories
  <2> QED
    BY <1>1, <1>2, <1>4, <1>5, <2>3, <2>4, WorkOK
<1>8. CASE j.file = "definitions"
  <2>1. j.content \in Merges
    BY <1>3, <1>8, JobKinds
  <2>2. units' = [units EXCEPT !.definitions = j.content]
    BY <1>2, <1>8 DEF Adopt
  <2>3. /\ units' \in Managers /\ units'.config = units.config /\ units'.preset = units.preset
        /\ units'.definitions = j.content /\ units'.categories = units.categories
    BY <1>4, <2>1, <2>2 DEF Managers
  <2>4. ASSUME JobSound(j), AgreeBut(j) PROVE AgreeBut(NoRequest)'
    <3>1. j.content = load_definitions(files)
      BY <1>3, <1>8, <2>4 DEF JobSound
    <3> QED
      BY <1>1, <1>3, <1>6, <1>8, <2>3, <2>4, <3>1
         DEF AgreeBut, Writes, load_preset, load_config, load_custom_categories
  <2> QED
    BY <1>1, <1>2, <1>4, <1>5, <2>3, <2>4, WorkOK
<1>9. CASE j.file = "categories"
  <2>1. j.content \in SavedCategories
    BY <1>9, JobKinds
  <2>2. units' = [units EXCEPT !.categories = j.content]
    BY <1>2, <1>9 DEF Adopt
  <2>3. /\ units' \in Managers /\ units'.config = units.config /\ units'.preset = units.preset
        /\ units'.definitions = units.definitions /\ units'.categories = j.content
    BY <1>4, <2>1, <2>2 DEF Managers
  <2>4. ASSUME JobSound(j), AgreeBut(j) PROVE AgreeBut(NoRequest)'
    <3>1. j.content = files.categories /\ ~Failed(j.content)
      BY <1>3, <1>9, <2>1, <2>4 DEF JobSound
    <3> QED
      BY <1>1, <1>3, <1>6, <1>9, <2>3, <2>4, <3>1
         DEF AgreeBut, Writes, load_preset, load_config, load_custom_categories
  <2> QED
    BY <1>1, <1>2, <1>4, <1>5, <2>3, <2>4, WorkOK
<1> QED
  BY <1>3, <1>7, <1>8, <1>9

LEMMA StartAgainOK ==
  ASSUME PreferencesInv, StartAgain
  PROVE  PreferencesInv'
<1>1. /\ ShapeInv /\ units' = New(files) /\ alone' = TRUE /\ UNCHANGED <<files, unitCalls>>
      /\ unitJob' = [x \in UnitClients |-> NoRequest]
      /\ unitStarts' = unitStarts + 1 /\ unitStarts < MaxUnitStarts
  BY DEF StartAgain, PreferencesInv
<1>2. NoRequests'
  BY <1>1 DEF NoRequests
<1>3. unitStarts' \in 0..MaxUnitStarts
  BY <1>1 DEF ShapeInv
<1>4. units' \in Managers \cup {Off}
  BY <1>1, Created DEF ShapeInv
<1>5. ShapeInv'
  BY <1>1, <1>2, <1>3, <1>4 DEF ShapeInv
<1>6. JobAlone'
  <2> SUFFICES ASSUME units' # Off PROVE AgreeBut(NoRequest)'
    BY <1>2 DEF JobAlone, NoRequests
  <2>1. /\ units'.config = load_config(files)
        /\ units'.preset = load_preset(files, load_config(files))
        /\ units'.definitions = load_definitions(files)
        /\ units'.categories = load_custom_categories(files)
    BY <1>1, Created DEF ShapeInv
  <2>2. files' = files
    BY <1>1
  <2> QED
    BY <2>1, <2>2 DEF AgreeBut
<1> QED
  BY <1>5, <1>6 DEF PreferencesInv

LEMMA PreferencesStep ==
  ASSUME PreferencesInv, [PreferencesNext]_prefVars
  PROVE  PreferencesInv'
<1>1. CASE UNCHANGED prefVars
  <2> USE <1>1 DEF prefVars
  <2>1. ShapeInv'
    BY DEF PreferencesInv, ShapeInv, NoRequests
  <2>2. ASSUME NEW j PROVE /\ JobSound(j) => JobSound(j)'
                           /\ AgreeBut(j) => AgreeBut(j)'
    BY DEF JobSound, AgreeBut, load_preset, load_config, load_definitions,
           load_custom_categories
  <2>3. JobAlone'
    BY <2>2 DEF PreferencesInv, JobAlone, NoRequests
  <2> QED
    BY <2>1, <2>3 DEF PreferencesInv
<1>2. CASE StartAgain
  BY <1>2, StartAgainOK
<1>3. ASSUME NEW c \in UnitClients,
             \/ \E n \in PresetNames : \/ SetActivePreset(c, n)
                                       \/ DeleteCustomPreset(c, n)
                                       \/ \E p \in SavedPresets : SaveCustomPreset(c, n, p)
             \/ \E d \in SavedDefinitions : SaveCustomDefinitions(c, d)
             \/ \E k \in SavedCategories : SaveCustomCategories(c, k)
      PROVE  PreferencesInv'
  BY <1>3, RequestsOK, DeleteOK
<1>4. ASSUME NEW c \in UnitClients,
             \/ Choose(c) \/ OpenFile(c) \/ FillFile(c) \/ WriteFails(c)
             \/ IsActive(c) \/ Reload(c) \/ Adopt(c)
      PROVE  PreferencesInv'
  BY <1>4, ChooseOK, OpenFileOK, FillOK, FailsOK, IsActiveOK, ReloadOK, AdoptOK
<1> QED
  BY <1>1, <1>2, <1>3, <1>4 DEF PreferencesNext

LEMMA PreferencesStart == PreferencesInit => PreferencesInv
<1> SUFFICES ASSUME PreferencesInit PROVE PreferencesInv
  OBVIOUS
<1>1. /\ files = NothingSaved /\ units = New(files) /\ alone = TRUE
      /\ unitJob = [c \in UnitClients |-> NoRequest] /\ unitCalls = 0 /\ unitStarts = 0
  BY DEF PreferencesInit, StartsFrom
<1>2. files \in Files
  BY <1>1 DEF NothingSaved, Files
<1>3. NoRequests
  BY <1>1 DEF NoRequests
<1>4. ShapeInv
  BY <1>1, <1>2, <1>3, Created DEF ShapeInv
<1>5. JobAlone
  <2> SUFFICES ASSUME units # Off PROVE AgreeBut(NoRequest)
    BY <1>3 DEF JobAlone, NoRequests
  <2> QED
    BY <1>1, <1>2, Created DEF AgreeBut
<1> QED
  BY <1>4, <1>5 DEF PreferencesInv

LEMMA SoundIsPreferred == PreferencesInv => PreferencesCorrect
<1> SUFFICES ASSUME PreferencesInv PROVE PreferencesCorrect
  OBVIOUS
<1>1. PreferencesTypeOK
  <2>1. units # Off => units.config \in PresetNames
                       /\ ~Failed(units.preset) /\ ~Failed(units.definitions)
    BY NotFailed DEF PreferencesInv, ShapeInv, Managers
  <2>2. \A c \in UnitClients :
          unitJob[c].at \in {"none", "choose", "open", "fill", "is_active", "reload", "adopt"}
    <3> SUFFICES ASSUME NEW c \in UnitClients
                 PROVE  unitJob[c].at \in {"none", "choose", "open", "fill", "is_active",
                                           "reload", "adopt"}
      OBVIOUS
    <3>1. unitJob[c] \in Jobs \cup {NoRequest}
      BY DEF PreferencesInv, ShapeInv
    <3> QED
      BY <3>1, JobKinds DEF NoRequest
  <2> QED
    BY <2>1, <2>2 DEF PreferencesTypeOK, PreferencesInv, ShapeInv, Files
<1>2. RestartChangesNothing
  <2> SUFFICES ASSUME units # Off, NoRequests, alone PROVE New(files) = units
    BY DEF RestartChangesNothing
  <2>1. AgreeBut(NoRequest) /\ units \in Managers /\ files \in Files
    BY DEF PreferencesInv, JobAlone, ShapeInv
  <2>2. /\ units.config = load_config(files)
        /\ units.preset = load_preset(files, load_config(files))
        /\ units.definitions = load_definitions(files)
        /\ units.categories = load_custom_categories(files)
    BY <2>1 DEF AgreeBut, Writes
  <2>3. ~Failed(units.preset) /\ ~Failed(units.definitions)
    BY <2>1, NotFailed DEF Managers
  <2>4. units = [config |-> units.config, preset |-> units.preset,
                 definitions |-> units.definitions, categories |-> units.categories]
    BY <2>1 DEF Managers
  <2> QED
    BY <2>2, <2>3, <2>4 DEF New
<1>3. DefinitionsWhole
  <2> SUFFICES ASSUME units # Off
               PROVE  \E custom \in SavedDefinitions \cup {NoFile} :
                        units.definitions = load_definitions([files EXCEPT !.definitions = custom])
    BY DEF DefinitionsWhole
  <2>1. PICK d \in SavedDefinitions \cup {NoFile} :
          units.definitions = load_definitions([definitions |-> d])
    BY DEF PreferencesInv, ShapeInv, Managers, Merges
  <2>2. [files EXCEPT !.definitions = d].definitions = d
    BY DEF PreferencesInv, ShapeInv, Files
  <2>3. load_definitions([files EXCEPT !.definitions = d]) = load_definitions([definitions |-> d])
    BY <2>2, SameDefinitions
  <2> QED
    BY <2>1, <2>3
<1>4. ListedIsChoosable
  BY DEF ListedIsChoosable, list_presets, load_preset, Failed
<1> QED
  BY <1>1, <1>2, <1>3, <1>4 DEF PreferencesCorrect

(* The definitions in use are always whole and what is listed can be       *)
(* chosen; as long as requests do not overlap or fail, a restart changes   *)
(* nothing of what is shown: for all presets, definitions and categories   *)
(* that are shipped or saved, and any number of clients.                   *)
THEOREM PreferencesAlwaysCorrect == PreferencesSpec => []PreferencesCorrect
<1>1. PreferencesInv /\ [PreferencesNext]_prefVars => PreferencesInv'
  BY PreferencesStep
<1> QED
  BY <1>1, PreferencesStart, SoundIsPreferred, PTL DEF PreferencesSpec

-----------------------------------------------------------------------------
(* Course, for every set of routes, destinations, API requests and         *)
(* restarts.                                                               *)
USE CourseAssumption

(* A course on a route has its index inside and heads for the point at it; *)
(* from the right end, unless a reversal has failed (u).                   *)
Fits(c, u) ==
  c.route # NoCourse =>
    /\ c.route.total = Len(Routes[c.route.href])
    /\ c.route.index < c.route.total
    /\ c.next \in {PointAt([c.route EXCEPT !.reverse = b]) : b \in BOOLEAN}
    /\ ~u => c.next = PointAt(c.route)

Fine(c, u) == c = NoCourse \/ (c \in CourseState /\ Fits(c, u))

(* What an actor carries; who is going to emit carries a course.           *)
Emits(steps) == \E i \in 1..Len(steps) : steps[i] = "emit"

OpRec == [course : CourseState \cup {NoCourse}, steps : Seq(StepNames)]
Op(u) == {o \in OpRec : Fine(o.course, u) /\ (Emits(o.steps) => o.course # NoCourse)}

CoreInv ==
  /\ unresolved \in BOOLEAN
  /\ Fine(state, unresolved)
  /\ file = Torn \/ Fine(file, unresolved)
  /\ op \in [Actors -> Op(unresolved)]

SideInv ==
  /\ config \in [arrival_circle : {0, Radius}, api_only : BOOLEAN]
  /\ source \in {"api", "nmea"}
  /\ shown \in [next : Positions \cup {NoCourse}, href : Hrefs \cup {NoCourse},
                circle : {NoCourse, Radius}, target : Times \cup {NoCourse}]
  /\ ops \in 0..MaxOps
  /\ restarts \in 0..MaxRestarts

CourseInv == CoreInv /\ SideInv

-----------------------------------------------------------------------------
(* Every point of a route is a position.                                   *)
LEMMA PointIsPosition ==
  ASSUME NEW r, r.href \in Hrefs, r.index \in 0..(Len(Routes[r.href]) - 1)
  PROVE  PointAt(r) \in Positions
<1> DEFINE n == Len(Routes[r.href])
           i == IF r.reverse THEN n - r.index ELSE r.index + 1
           points == {Routes[r.href][j] : j \in 1..n}
<1>1. n \in Nat
  OBVIOUS
<1>2. i \in 1..n
  BY <1>1
<1>3. PointAt(r) = Routes[r.href][i]
  BY DEF PointAt
<1>4. PointAt(r) \in points
  BY <1>2, <1>3
<1>5. points \in {{Routes[h][j] : j \in 1..Len(Routes[h])} : h \in Hrefs}
  OBVIOUS
<1> HIDE DEF points
<1> QED
  BY <1>4, <1>5 DEF Positions

(* A new leg of a route, whatever the course was before.                   *)
LEMMA LegFits ==
  ASSUME NEW c \in CourseState, NEW r \in Route,
         r.total = Len(Routes[r.href]), r.index < r.total, NEW u
  PROVE  Fine([c EXCEPT !.route = r, !.next = PointAt(r)], u)
<1> DEFINE d == [c EXCEPT !.route = r, !.next = PointAt(r)]
<1>1. r.index \in 0..(Len(Routes[r.href]) - 1) /\ r.reverse \in BOOLEAN
  BY DEF Route
<1>2. PointAt(r) \in Positions
  BY <1>1, PointIsPosition DEF Route
<1>3. d \in CourseState /\ d.route = r /\ d.next = PointAt(r)
  BY <1>2 DEF CourseState
<1>4. r = [r EXCEPT !.reverse = r.reverse]
  BY DEF Route
<1>5. PointAt(r) \in {PointAt([r EXCEPT !.reverse = b]) : b \in BOOLEAN}
  BY <1>1, <1>4
<1>6. d.next \in {PointAt([d.route EXCEPT !.reverse = b]) : b \in BOOLEAN}
  BY <1>3, <1>5
<1>7. d.next = PointAt(d.route)
  BY <1>3
<1> HIDE DEF d
<1>8. Fits(d, u)
  BY <1>3, <1>6, <1>7 DEF Fits
<1> QED
  BY <1>3, <1>8 DEF Fine, d

(* Circle and target have no part in it.                                   *)
LEMMA SameLegFits ==
  ASSUME NEW c, NEW u, Fine(c, u), c # NoCourse,
         NEW d \in CourseState, d.route = c.route, d.next = c.next
  PROVE  Fine(d, u)
BY DEF Fine, Fits

LEMMA FailureWeakens ==
  ASSUME NEW u \in BOOLEAN
  PROVE  /\ \A c : Fine(c, u) => Fine(c, TRUE)
         /\ Op(u) \subseteq Op(TRUE)
BY DEF Fine, Fits, Op

LEMMA RestingOp == \A u : Resting \in Op(u)
<1>1. <<>> \in Seq(StepNames) /\ ~Emits(<<>>)
  BY DEF Emits
<1> QED
  BY <1>1 DEF Resting, Op, OpRec, Fine

(* The three ways an actor goes on.                                        *)
LEMMA StartCourseKeeps ==
  ASSUME CourseInv, NEW a \in Actors, NEW c, Fine(c, unresolved),
         NEW steps \in Seq(StepNames), Emits(steps) => c # NoCourse, Start(a, c, steps)
  PROVE  /\ op' \in [Actors -> Op(unresolved)] /\ unresolved' = unresolved
         /\ ops' \in 0..MaxOps /\ restarts' = restarts
<1>1. [course |-> c, steps |-> steps] \in Op(unresolved)
  BY DEF Op, OpRec, Fine
<1> QED
  BY <1>1 DEF Start, CourseInv, CoreInv, SideInv

LEMMA GoOnKeeps ==
  ASSUME CourseInv, NEW a \in Actors, NEW c, Fine(c, unresolved),
         NEW steps \in Seq(StepNames), Emits(steps) => c # NoCourse,
         op' = [op EXCEPT ![a] = [course |-> c, steps |-> steps]]
  PROVE  op' \in [Actors -> Op(unresolved)]
<1>1. [course |-> c, steps |-> steps] \in Op(unresolved)
  BY DEF Op, OpRec, Fine
<1> QED
  BY <1>1 DEF CourseInv, CoreInv

LEMMA DoneKeeps ==
  ASSUME CourseInv, NEW a \in Actors, op[a].steps # <<>>, Done(a)
  PROVE  /\ op' \in [Actors -> Op(unresolved)]
         /\ unresolved' = unresolved /\ UNCHANGED <<ops, restarts>>
<1> DEFINE o == op[a]
<1>1. o \in OpRec /\ Fine(o.course, unresolved) /\ (Emits(o.steps) => o.course # NoCourse)
  BY DEF CourseInv, CoreInv, Op
<1>2. /\ Tail(o.steps) \in Seq(StepNames)
      /\ Emits(Tail(o.steps)) => Emits(o.steps)
  <2>1. o.steps \in Seq(StepNames)
    BY <1>1 DEF OpRec
  <2>2. /\ Tail(o.steps) \in Seq(StepNames) /\ Len(Tail(o.steps)) = Len(o.steps) - 1
        /\ \A i \in 1..Len(Tail(o.steps)) : Tail(o.steps)[i] = o.steps[i + 1]
    BY <2>1, HeadTailProperties
  <2>3. \A i \in 1..Len(Tail(o.steps)) : i + 1 \in 1..Len(o.steps)
    BY <2>1, <2>2
  <2> QED
    BY <2>2, <2>3 DEF Emits
<1>3. [o EXCEPT !.steps = Tail(o.steps)] \in Op(unresolved)
  <2> DEFINE p == [o EXCEPT !.steps = Tail(o.steps)]
  <2>1. p \in OpRec /\ p.course = o.course /\ p.steps = Tail(o.steps)
    BY <1>1, <1>2 DEF OpRec
  <2> HIDE DEF p
  <2>2. Fine(p.course, unresolved) /\ (Emits(p.steps) => p.course # NoCourse)
    BY <1>1, <1>2, <2>1
  <2> QED
    BY <2>1, <2>2 DEF Op, p
<1>4. op' = [op EXCEPT ![a] = [o EXCEPT !.steps = Tail(o.steps)]]
  BY DEF Done
<1> QED
  BY <1>3, <1>4 DEF CourseInv, CoreInv, Done

LEMMA AbortKeeps ==
  ASSUME CourseInv, NEW a \in Actors, Abort(a)
  PROVE  /\ op' \in [Actors -> Op(unresolved)]
         /\ unresolved' = unresolved /\ UNCHANGED <<ops, restarts>>
BY RestingOp DEF CourseInv, CoreInv, Abort

LEMMA KnownSteps ==
  /\ Apply \in Seq(StepNames) /\ <<"persist", "emit">> \in Seq(StepNames)
  /\ <<"persist", "emit clear">> \in Seq(StepNames)
  /\ <<"state", "source", "emit clear", "persist">> \in Seq(StepNames)
  /\ ~Emits(<<"persist", "emit clear">>)
  /\ ~Emits(<<"state", "source", "emit clear", "persist">>)
  /\ \A s \in StepNames \ {"emit"} : <<s>> \in Seq(StepNames) /\ ~Emits(<<s>>)
<1>1. /\ Apply \in Seq(StepNames) /\ <<"persist", "emit">> \in Seq(StepNames)
      /\ <<"persist", "emit clear">> \in Seq(StepNames)
      /\ <<"state", "source", "emit clear", "persist">> \in Seq(StepNames)
  BY DEF Apply, StepNames
<1>2. ~Emits(<<"persist", "emit clear">>)
  <2> DEFINE t == <<"persist", "emit clear">>
  <2>1. Len(t) = 2 /\ t[1] # "emit" /\ t[2] # "emit"
    OBVIOUS
  <2> HIDE DEF t
  <2>2. \A i \in 1..Len(t) : t[i] # "emit"
    BY <2>1
  <2> QED
    BY <2>2 DEF t, Emits
<1>3. ~Emits(<<"state", "source", "emit clear", "persist">>)
  <2> DEFINE t == <<"state", "source", "emit clear", "persist">>
  <2>1. Len(t) = 4 /\ t[1] # "emit" /\ t[2] # "emit" /\ t[3] # "emit" /\ t[4] # "emit"
    OBVIOUS
  <2> HIDE DEF t
  <2>2. \A i \in 1..Len(t) : t[i] # "emit"
    BY <2>1
  <2> QED
    BY <2>2 DEF t, Emits
<1>4. \A s \in StepNames \ {"emit"} : <<s>> \in Seq(StepNames) /\ ~Emits(<<s>>)
  BY DEF Emits
<1> QED
  BY <1>1, <1>2, <1>3, <1>4

LEMMA HeadingFits ==
  ASSUME CourseInv, NEW i, Heading(i)
  PROVE  Fine(state', unresolved) /\ state' # NoCourse
<1> DEFINE r == [state.route EXCEPT !.index = i]
<1>1. state # NoCourse /\ state \in CourseState /\ Fits(state, unresolved)
  BY DEF Heading, OnRoute, CourseInv, CoreInv, Fine
<1>2. state.route \in Route /\ i \in 0..(Len(Routes[state.route.href]) - 1)
  BY <1>1 DEF Heading, OnRoute, CourseState
<1>3. state.route.total = Len(Routes[state.route.href])
  BY <1>1 DEF Fits, Heading, OnRoute
<1>4. Len(Routes[state.route.href]) \in Nat
  BY <1>2 DEF Route
<1>5. r \in Route /\ r.total = Len(Routes[r.href]) /\ r.index < r.total
  <2>1. /\ r.href = state.route.href /\ r.total = state.route.total /\ r.index = i
        /\ r \in Route
    <3>1. i \in Nat
      BY <1>2, <1>4
    <3> QED
      BY <1>2, <3>1 DEF Route
  <2> HIDE DEF r
  <2> QED
    BY <1>2, <1>3, <1>4, <2>1
<1>6. state' = [state EXCEPT !.route = r, !.next = PointAt(r)]
  BY DEF Heading
<1>7. Fine(state', unresolved)
  <2> HIDE DEF r
  <2> QED
    BY <1>1, <1>5, <1>6, LegFits
<1>8. state' # NoCourse
  <2>1. state' \in [next : {PointAt(r)}, route : {r}, circle : {0, Radius}, target : Times \cup {NoCourse}]
    BY <1>1, <1>6 DEF CourseState
  <2>2. PointAt(r) \in Positions
    <3>1. r.index \in 0..(Len(Routes[r.href]) - 1) /\ r.href \in Hrefs
      BY <1>2, <1>5 DEF Route
    <3> HIDE DEF r
    <3> QED
      BY <3>1, PointIsPosition
  <2>3. state' \in CourseState
    <3> HIDE DEF r
    <3> QED
      BY <2>1, <2>2, <1>5 DEF CourseState
  <2> QED
    BY <2>3
<1> QED
  BY <1>7, <1>8

(* A course without a route fits.                                          *)
LEMMA FreeCourseFits ==
  ASSUME NEW c \in CourseState, c.route = NoCourse, NEW u
  PROVE  Fine(c, u) /\ c # NoCourse
BY DEF Fine, Fits

-----------------------------------------------------------------------------
(* Operations that carry a new course and change the state at the end.     *)
LEMMA NewCourseKeeps ==
  ASSUME CourseInv, NEW a \in Actors,
         \/ \E pos \in Destinations : SetDestination(a, pos)
         \/ \E h \in Hrefs, reverse \in BOOLEAN : SetActiveRoute(a, h, reverse)
         \/ \E pos \in NmeaDestinations : NmeaPosition(pos)
         \/ Clear(a)
  PROVE  CourseInv'
<1> USE DEF CourseInv, CoreInv, SideInv
<1>1. InheritedCircle \in {0, Radius}
  BY DEF InheritedCircle, Fine, CourseState
<1>2. "nmea" \in Actors
  BY DEF Actors
<1>3. ASSUME NEW pos \in Destinations, SetDestination(a, pos) PROVE CourseInv'
  <2> DEFINE c == [next |-> pos, route |-> NoCourse, circle |-> InheritedCircle,
                   target |-> NoCourse]
  <2>1. c \in CourseState /\ c.route = NoCourse
    BY <1>1 DEF CourseState, Positions
  <2>2. Start(a, c, Apply) /\ UNCHANGED <<state, config, source, file, shown, distance>>
    BY <1>3 DEF SetDestination
  <2> HIDE DEF c
  <2>3. Fine(c, unresolved) /\ c # NoCourse
    BY <2>1, FreeCourseFits
  <2> QED
    BY <2>2, <2>3, KnownSteps, StartCourseKeeps
<1>4. ASSUME NEW h \in Hrefs, NEW reverse \in BOOLEAN, SetActiveRoute(a, h, reverse)
      PROVE  CourseInv'
  <2> DEFINE r == [href |-> h, reverse |-> reverse, index |-> 0, total |-> Len(Routes[h])]
             c == [next |-> PointAt(r), route |-> r, circle |-> InheritedCircle,
                   target |-> NoCourse]
  <2>1. Len(Routes[h]) \in Nat /\ 0 < Len(Routes[h])
    OBVIOUS
  <2>2. r \in Route /\ r.total = Len(Routes[r.href]) /\ r.index < r.total
        /\ r.index \in 0..(Len(Routes[r.href]) - 1) /\ r.href \in Hrefs
    BY <2>1 DEF Route
  <2>3. Start(a, c, Apply) /\ UNCHANGED <<state, config, source, file, shown, distance>>
    BY <1>4 DEF SetActiveRoute
  <2> HIDE DEF r
  <2>4. PointAt(r) \in Positions
    BY <2>2, PointIsPosition
  <2>5. c \in CourseState /\ c.route = r /\ c.next = PointAt(r)
    BY <1>1, <2>2, <2>4 DEF CourseState
  <2> DEFINE e == [c EXCEPT !.route = r, !.next = PointAt(r)]
  <2>6. c = e
    BY <2>5 DEF CourseState
  <2> HIDE DEF c
  <2>a. Fine(e, unresolved)
    BY <2>2, <2>5, LegFits
  <2> HIDE DEF e
  <2>7. Fine(c, unresolved) /\ c # NoCourse
    BY <2>5, <2>6, <2>a
  <2> QED
    BY <2>3, <2>7, KnownSteps, StartCourseKeeps
<1>5. ASSUME NEW pos \in NmeaDestinations, NmeaPosition(pos) PROVE CourseInv'
  <2> DEFINE c == [next |-> pos, route |-> NoCourse, circle |-> config.arrival_circle,
                   target |-> NoCourse]
  <2>1. c \in CourseState /\ c.route = NoCourse
    BY DEF CourseState, Positions
  <2>2. Start("nmea", c, Apply) /\ UNCHANGED <<state, config, source, file, shown, distance>>
    BY <1>5 DEF NmeaPosition
  <2> HIDE DEF c
  <2>3. Fine(c, unresolved) /\ c # NoCourse
    BY <2>1, FreeCourseFits
  <2> QED
    BY <1>2, <2>2, <2>3, KnownSteps, StartCourseKeeps
<1>6. CASE Clear(a)
  <2>1. Start(a, NoCourse, <<"persist", "emit clear">>)
        /\ state' = NoCourse /\ UNCHANGED <<config, source, file, shown, distance>>
    BY <1>6 DEF Clear
  <2> QED
    BY <2>1, KnownSteps, StartCourseKeeps DEF Fine
<1> QED
  BY <1>3, <1>4, <1>5, <1>6

(* Operations that change the course in place.                             *)
LEMMA ChangeKeeps ==
  ASSUME CourseInv, NEW a \in Actors,
         \/ \E d \in {-1, 1} : AdvanceNextPoint(a, d)
         \/ \E i : SetPointIndex(a, i)
         \/ ReverseRoute(a)
         \/ \E t \in Times \cup {NoCourse} : SetTargetArrivalTime(a, t)
  PROVE  CourseInv'
<1> USE DEF CourseInv, CoreInv, SideInv
<1>1. ASSUME Fine(state', unresolved), state' # NoCourse,
             Start(a, state', <<"persist", "emit">>),
             UNCHANGED <<config, source, file, shown, distance>>
      PROVE  CourseInv'
  BY <1>1, KnownSteps, StartCourseKeeps
<1>2. ASSUME NEW d, AdvanceNextPoint(a, d) PROVE CourseInv'
  BY <1>1, <1>2, HeadingFits DEF AdvanceNextPoint
<1>3. ASSUME NEW i, SetPointIndex(a, i) PROVE CourseInv'
  BY <1>1, <1>3, HeadingFits DEF SetPointIndex
<1>4. CASE ReverseRoute(a)
  <2> DEFINE r == [state.route EXCEPT !.reverse = ~@, !.index = 0,
                     !.total = Len(Routes[state.route.href])]
             c == [state EXCEPT !.route = r, !.next = PointAt(r)]
  <2>1. state \in CourseState /\ state.route \in Route
    BY <1>4 DEF ReverseRoute, OnRoute, Fine, CourseState
  <2>2. Len(Routes[state.route.href]) \in Nat /\ 0 < Len(Routes[state.route.href])
    BY <2>1 DEF Route
  <2>3. r \in Route /\ r.total = Len(Routes[r.href]) /\ r.index < r.total
        /\ r.index \in 0..(Len(Routes[r.href]) - 1) /\ r.href \in Hrefs
    <3>1. /\ r.href = state.route.href /\ r.total = Len(Routes[state.route.href])
          /\ r.index = 0 /\ r \in Route /\ r.href \in Hrefs
      BY <2>1, <2>2 DEF Route
    <3> HIDE DEF r
    <3> QED
      BY <2>2, <3>1
  <2>4. Update(a, c)
    BY <1>4 DEF ReverseRoute
  <2> HIDE DEF r
  <2>5. PointAt(r) \in Positions
    BY <2>3, PointIsPosition
  <2>6. c \in CourseState /\ Fine(c, unresolved)
    BY <2>1, <2>3, <2>5, LegFits DEF CourseState
  <2> HIDE DEF c
  <2>7. c # NoCourse
    BY <2>6
  <2> QED
    BY <2>4, <2>6, <2>7, <1>1 DEF Update
<1>5. ASSUME NEW t \in Times \cup {NoCourse}, SetTargetArrivalTime(a, t) PROVE CourseInv'
  <2> DEFINE c == [state EXCEPT !.target = t]
  <2>1. state \in CourseState /\ Fine(state, unresolved) /\ state # NoCourse
    BY <1>5 DEF SetTargetArrivalTime, Fine
  <2>2. c \in CourseState /\ c.route = state.route /\ c.next = state.next
    BY <2>1 DEF CourseState
  <2>3. Update(a, c)
    BY <1>5 DEF SetTargetArrivalTime
  <2> HIDE DEF c
  <2>4. Fine(c, unresolved) /\ c # NoCourse
    BY <2>1, <2>2, SameLegFits
  <2> QED
    BY <2>3, <2>4, <1>1 DEF Update
<1> QED
  BY <1>2, <1>3, <1>4, <1>5

(* A reversal that fails: from now on either end will do.                  *)
LEMMA FailedReversalKeeps ==
  ASSUME CourseInv, ReverseRouteFails
  PROVE  CourseInv'
<1> DEFINE q == state.route
           r == [q EXCEPT !.reverse = ~@]
           c == [state EXCEPT !.route = r]
<1> USE DEF CourseInv, CoreInv, SideInv
<1>1. state \in CourseState /\ q \in Route /\ q # NoCourse /\ Fits(state, unresolved)
  BY DEF ReverseRouteFails, OnRoute, Fine, CourseState
<1>2. state' = c /\ unresolved' = TRUE
      /\ UNCHANGED <<config, source, file, shown, op, restarts>> /\ ops' \in 0..MaxOps
  BY DEF ReverseRouteFails
<1>3. /\ r \in Route /\ r.href = q.href /\ r.total = q.total /\ r.index = q.index
      /\ \A b \in BOOLEAN : [r EXCEPT !.reverse = b] = [q EXCEPT !.reverse = b]
  BY <1>1 DEF Route
<1>4. c \in CourseState /\ c.route = r /\ c.next = state.next
  <2> HIDE DEF r
  <2> QED
    BY <1>1, <1>3 DEF CourseState
<1>5. state.next \in {PointAt([q EXCEPT !.reverse = b]) : b \in BOOLEAN}
  BY <1>1 DEF Fits
<1>6. state.next \in {PointAt([r EXCEPT !.reverse = b]) : b \in BOOLEAN}
  <2>1. PICK b \in BOOLEAN : state.next = PointAt([q EXCEPT !.reverse = b])
    BY <1>5
  <2>2. state.next = PointAt([r EXCEPT !.reverse = b])
    BY <2>1, <1>3
  <2> QED
    BY <2>2
<1>7. q.total = Len(Routes[q.href]) /\ q.index < q.total
  BY <1>1 DEF Fits
<1> HIDE DEF c, r
<1>8. c.next \in {PointAt([c.route EXCEPT !.reverse = b]) : b \in BOOLEAN}
  BY <1>4, <1>6
<1>9. Fits(c, TRUE)
  BY <1>3, <1>4, <1>7, <1>8 DEF Fits
<1>10. Fine(c, TRUE)
  BY <1>4, <1>9 DEF Fine
<1> QED
  BY <1>2, <1>10, FailureWeakens

(* The circle: the config first, then the course.                          *)
LEMMA CircleKeeps ==
  ASSUME CourseInv, NEW a \in Actors, NEW r \in {0, Radius},
         SetArrivalCircle(a, r) \/ ApplyCircle(a, r)
  PROVE  CourseInv'
<1> USE DEF CourseInv, CoreInv, SideInv
<1>1. CASE SetArrivalCircle(a, r)
  <2>1. <<CircleStep(r)>> \in Seq(StepNames) /\ ~Emits(<<CircleStep(r)>>)
    BY KnownSteps DEF CircleStep, StepNames
  <2>2. config' \in [arrival_circle : {0, Radius}, api_only : BOOLEAN]
    BY <1>1 DEF SetArrivalCircle
  <2>3. Start(a, NoCourse, <<CircleStep(r)>>) /\ UNCHANGED <<state, source, file, shown>>
    BY <1>1 DEF SetArrivalCircle
  <2> QED
    BY <2>1, <2>2, <2>3, StartCourseKeeps DEF Fine
<1>2. CASE ApplyCircle(a, r)
  <2> DEFINE c == [state EXCEPT !.circle = r]
  <2>1. op[a].steps # <<>> /\ UNCHANGED <<config, source, file, shown>>
    BY <1>2 DEF ApplyCircle, At, Busy
  <2>2. CASE state = NoCourse
    <3>1. Done(a) /\ UNCHANGED state
      BY <1>2, <2>2 DEF ApplyCircle
    <3> QED
      BY <2>1, <3>1, DoneKeeps
  <2>3. CASE state # NoCourse
    <3>1. /\ state' = c /\ UNCHANGED <<ops, restarts, unresolved>>
          /\ op' = [op EXCEPT ![a] = [course |-> state', steps |-> <<"persist", "emit">>]]
      BY <1>2, <2>3 DEF ApplyCircle
    <3>2. state \in CourseState /\ Fine(state, unresolved)
      BY <2>3 DEF Fine
    <3>3. c \in CourseState /\ c.route = state.route /\ c.next = state.next
      BY <3>2 DEF CourseState
    <3> HIDE DEF c
    <3>4. Fine(c, unresolved) /\ c # NoCourse
      BY <2>3, <3>2, <3>3, SameLegFits
    <3>5. op' \in [Actors -> Op(unresolved)]
      BY <3>1, <3>4, KnownSteps, GoOnKeeps
    <3> QED
      BY <2>1, <3>1, <3>4, <3>5
  <2> QED
    BY <2>2, <2>3
<1> QED
  BY <1>1, <1>2

(* Who may set the course.                                                 *)
LEMMA ApiOnlyKeeps ==
  ASSUME CourseInv, NEW a \in Actors, EnableApiOnly(a) \/ DisableApiOnly(a) \/ CheckSource(a)
  PROVE  CourseInv'
<1> USE DEF CourseInv, CoreInv, SideInv
<1>1. <<>> \in Seq(StepNames) /\ ~Emits(<<>>)
  BY DEF Emits
<1>2. CASE EnableApiOnly(a)
  <2>1. <<"check source">> \in Seq(StepNames) /\ ~Emits(<<"check source">>)
    BY KnownSteps DEF StepNames
  <2>2. config' \in [arrival_circle : {0, Radius}, api_only : BOOLEAN]
        /\ Start(a, NoCourse, <<"check source">>) /\ UNCHANGED <<state, source, file, shown>>
    BY <1>2 DEF EnableApiOnly
  <2> QED
    BY <2>1, <2>2, StartCourseKeeps DEF Fine
<1>3. CASE DisableApiOnly(a)
  <2>1. config' \in [arrival_circle : {0, Radius}, api_only : BOOLEAN]
        /\ Start(a, NoCourse, <<>>) /\ UNCHANGED <<state, source, file, shown>>
    BY <1>3 DEF DisableApiOnly
  <2> QED
    BY <1>1, <2>1, StartCourseKeeps DEF Fine
<1>4. CASE CheckSource(a)
  <2> DEFINE steps == IF source = "nmea" THEN <<"state", "source", "emit clear", "persist">>
                      ELSE <<>>
             o == [op[a] EXCEPT !.steps = steps]
  <2>1. op' = [op EXCEPT ![a] = o]
        /\ UNCHANGED <<state, config, source, file, shown, ops, restarts, unresolved>>
    BY <1>4 DEF CheckSource
  <2>2. steps \in Seq(StepNames) /\ ~Emits(steps)
    BY <1>1, KnownSteps
  <2> HIDE DEF steps
  <2>3. op[a] \in OpRec /\ Fine(op[a].course, unresolved)
    BY DEF Op
  <2>4. o \in OpRec /\ o.course = op[a].course /\ o.steps = steps
    BY <2>2, <2>3 DEF OpRec
  <2> HIDE DEF o
  <2>5. Fine(o.course, unresolved) /\ ~Emits(o.steps)
    BY <2>2, <2>3, <2>4
  <2>6. o \in Op(unresolved)
    BY <2>4, <2>5 DEF Op
  <2> QED
    BY <2>1, <2>6
<1> QED
  BY <1>2, <1>3, <1>4

(* The steps every operation goes through.                                 *)
LEMMA StepsKeep ==
  ASSUME CourseInv, NEW a \in Actors,
         \/ Persist(a) \/ PersistFails(a) \/ EmitDeltas(a) \/ EmitClearDeltas(a)
         \/ WriteState(a) \/ WriteSource(a)
  PROVE  CourseInv'
<1> USE DEF CourseInv, CoreInv, SideInv
<1>1. /\ op[a] \in OpRec /\ op[a].steps # <<>> /\ Fine(op[a].course, unresolved)
      /\ Emits(op[a].steps) => op[a].course # NoCourse
  BY DEF Op, Persist, PersistFails, EmitDeltas, EmitClearDeltas, WriteState, WriteSource,
         At, Busy
<1>2. CASE Persist(a)
  BY <1>1, <1>2, DoneKeeps DEF Persist
<1>3. CASE PersistFails(a)
  BY <1>1, <1>3, DoneKeeps, AbortKeeps DEF PersistFails
<1>4. CASE EmitDeltas(a)
  <2> DEFINE c == op[a].course
  <2>1. Emits(op[a].steps)
    <3>1. Head(op[a].steps) = "emit" /\ op[a].steps \in Seq(StepNames)
      BY <1>1, <1>4 DEF EmitDeltas, At, OpRec
    <3>2. op[a].steps[1] = "emit" /\ 1 \in 1..Len(op[a].steps)
      BY <1>1, <3>1
    <3> QED
      BY <3>2 DEF Emits
  <2>2. c \in CourseState
    BY <1>1, <2>1 DEF Fine
  <2>3. /\ c.next \in Positions /\ c.circle \in {0, Radius} /\ c.target \in Times \cup {NoCourse}
        /\ c.route \in Route \cup {NoCourse}
    BY <2>2 DEF CourseState
  <2>4. c.route # NoCourse => c.route.href \in Hrefs
    BY <2>3 DEF Route
  <2>5. c.circle > 0 => c.circle = Radius
    BY <2>3
  <2>6. shown' = Emitted(shown, c) /\ Done(a) /\ UNCHANGED <<state, config, source, file>>
    BY <1>4 DEF EmitDeltas
  <2> HIDE DEF c
  <2>7. Emitted(shown, c) \in [next : Positions \cup {NoCourse}, href : Hrefs \cup {NoCourse},
                  circle : {NoCourse, Radius}, target : Times \cup {NoCourse}]
    BY <2>3, <2>4, <2>5 DEF Emitted
  <2> QED
    BY <1>1, <2>6, <2>7, DoneKeeps
<1>5. CASE EmitClearDeltas(a)
  <2>1. shown' \in [next : Positions \cup {NoCourse}, href : Hrefs \cup {NoCourse},
                    circle : {NoCourse, Radius}, target : Times \cup {NoCourse}]
    BY <1>5 DEF EmitClearDeltas, NothingShown
  <2> QED
    BY <1>1, <1>5, <2>1, DoneKeeps DEF EmitClearDeltas
<1>6. CASE WriteState(a)
  BY <1>1, <1>6, DoneKeeps DEF WriteState
<1>7. CASE WriteSource(a)
  <2>1. source' \in {"api", "nmea"}
    BY <1>7 DEF WriteSource
  <2> QED
    BY <1>1, <1>7, <2>1, DoneKeeps DEF WriteSource
<1> QED
  BY <1>2, <1>3, <1>4, <1>5, <1>6, <1>7

(* The timer.                                                              *)
LEMMA TimerKeeps ==
  ASSUME CourseInv, CheckArrival \/ AutoAdvance \/ NotifyArrival \/ CourseDistance
  PROVE  CourseInv'
<1> USE DEF CourseInv, CoreInv, SideInv
<1>1. "timer" \in Actors
  BY DEF Actors
<1>2. CASE CheckArrival
  <2>1. /\ <<"advance">> \in Seq(StepNames) /\ ~Emits(<<"advance">>)
        /\ <<"notify">> \in Seq(StepNames) /\ ~Emits(<<"notify">>)
    BY KnownSteps DEF StepNames
  <2> DEFINE steps == IF state.route # NoCourse /\ state.route.index + 1 < state.route.total
                      THEN <<"advance">> ELSE <<"notify">>
  <2>2. Start("timer", NoCourse, steps) /\ UNCHANGED <<state, config, source, file, shown>>
    BY <1>2 DEF CheckArrival
  <2>3. steps \in Seq(StepNames) /\ ~Emits(steps)
    BY <2>1
  <2> HIDE DEF steps
  <2> QED
    BY <1>1, <2>2, <2>3, StartCourseKeeps DEF Fine
<1>3. CASE AutoAdvance
  <2>1. UNCHANGED <<config, source, file, shown>>
    BY <1>3 DEF AutoAdvance
  <2>2. CASE Abort("timer") /\ UNCHANGED state
    BY <1>1, <2>1, <2>2, AbortKeeps
  <2>3. ASSUME Heading(state.route.index + 1), UNCHANGED <<ops, restarts, unresolved>>,
               op' = [op EXCEPT !["timer"] = [course |-> state', steps |-> <<"persist", "emit">>]]
        PROVE  CourseInv'
    <3>1. Fine(state', unresolved) /\ state' # NoCourse
      BY <2>3, HeadingFits
    <3>2. op' \in [Actors -> Op(unresolved)]
      BY <1>1, <2>3, <3>1, KnownSteps, GoOnKeeps
    <3> QED
      BY <2>1, <2>3, <3>1, <3>2
  <2> QED
    BY <1>3, <2>2, <2>3 DEF AutoAdvance
<1>4. CASE NotifyArrival
  <2>1. op["timer"].steps # <<>>
    BY <1>4 DEF NotifyArrival, At, Busy
  <2> QED
    BY <1>1, <1>4, <2>1, DoneKeeps DEF NotifyArrival
<1>5. CASE CourseDistance
  BY <1>5 DEF CourseDistance
<1> QED
  BY <1>2, <1>3, <1>4, <1>5

(* The server stops and starts.                                            *)
LEMMA RestartKeeps ==
  ASSUME CourseInv, Restart
  PROVE  CourseInv'
<1> USE DEF CourseInv, CoreInv, SideInv
<1>1. file' \in {file, Torn} /\ unresolved' = unresolved
  BY DEF Restart
<1>2. file' = Torn \/ Fine(file', unresolved)
  BY <1>1
<1>3. Fine(state', unresolved)
  BY <1>2 DEF Restart, Restored, Fine
<1>4. op' \in [Actors -> Op(unresolved)]
  BY RestingOp DEF Restart
<1>5. shown' \in [next : Positions \cup {NoCourse}, href : Hrefs \cup {NoCourse},
                  circle : {NoCourse, Radius}, target : Times \cup {NoCourse}]
  <2>1. CASE state' = NoCourse
    BY <2>1 DEF Restart, NothingShown
  <2>2. CASE state' # NoCourse
    <3> DEFINE c == state'
    <3>1. c \in CourseState /\ shown' = Emitted(NothingShown, c)
      BY <1>3, <2>2 DEF Restart, Fine
    <3>2. /\ c.next \in Positions /\ c.circle \in {0, Radius}
          /\ c.target \in Times \cup {NoCourse} /\ c.route \in Route \cup {NoCourse}
      BY <3>1 DEF CourseState
    <3>3. c.route # NoCourse => c.route.href \in Hrefs
      BY <3>2 DEF Route
    <3>4. c.circle > 0 => c.circle = Radius
      BY <3>2
    <3> HIDE DEF c
    <3>5. Emitted(NothingShown, c) \in
            [next : Positions \cup {NoCourse}, href : Hrefs \cup {NoCourse},
             circle : {NoCourse, Radius}, target : Times \cup {NoCourse}]
      BY <3>2, <3>3, <3>4 DEF Emitted, NothingShown
    <3> QED
      BY <3>1, <3>5
  <2> QED
    BY <2>1, <2>2
<1>6. /\ config' \in [arrival_circle : {0, Radius}, api_only : BOOLEAN]
      /\ source' = "api" /\ UNCHANGED ops /\ restarts' \in 0..MaxRestarts
  BY DEF Restart, DefaultConfig
<1> QED
  BY <1>1, <1>2, <1>3, <1>4, <1>5, <1>6

-----------------------------------------------------------------------------
LEMMA CourseStart == CourseInit => CourseInv
<1> SUFFICES ASSUME CourseInit PROVE CourseInv
  OBVIOUS
<1>1. op \in [Actors -> Op(unresolved)]
  BY RestingOp DEF CourseInit
<1>2. CoreInv
  BY <1>1 DEF CourseInit, CoreInv, Fine
<1>3. SideInv
  BY DEF CourseInit, SideInv, DefaultConfig, NothingShown
<1> QED
  BY <1>2, <1>3 DEF CourseInv

LEMMA CourseStep == CourseInv /\ [CourseNext]_courseVars => CourseInv'
<1> SUFFICES ASSUME CourseInv, [CourseNext]_courseVars PROVE CourseInv'
  OBVIOUS
<1>1. Navigators \subseteq Actors /\ "nmea" \in Actors
  BY DEF Actors
<1>2. CASE UNCHANGED courseVars
  BY <1>2 DEF courseVars, CourseInv, CoreInv, SideInv
<1>3. ASSUME NEW pos \in NmeaDestinations, NmeaPosition(pos) PROVE CourseInv'
  BY <1>1, <1>3, NewCourseKeeps
<1> QED
  BY <1>1, <1>2, <1>3, NewCourseKeeps, ChangeKeeps, FailedReversalKeeps, CircleKeeps,
     ApiOnlyKeeps, StepsKeep, TimerKeeps, RestartKeeps DEF CourseNext

(* For any routes, requests in any order and any number of restarts, every *)
(* copy of the course - current, in the file, carried by a request - heads *)
(* for the point of its index, from the right end until a reversal fails   *)
(* half way, and all three keep their shapes.                              *)
THEOREM CourseAlwaysCorrect == CourseSpec => []CourseCorrect
<1>1. CourseInv => CourseCorrect
  <2> SUFFICES ASSUME CourseInv PROVE CourseCorrect
    OBVIOUS
  <2> USE DEF CourseInv, CoreInv, SideInv
  <2>1. \A o : o \in Op(unresolved) =>
          o \in [course : CourseState \cup {NoCourse}, steps : Seq(StepNames)]
          /\ Fine(o.course, unresolved)
    BY DEF Op, OpRec
  <2>2. op \in [Actors -> [course : CourseState \cup {NoCourse}, steps : Seq(StepNames)]]
    BY <2>1
  <2>3. CourseTypeOK
    BY <2>2 DEF CourseTypeOK, Fine
  <2>4. ASSUME NEW c \in Copies PROVE Fine(c, unresolved) /\ c # NoCourse
    BY <2>1, <2>4 DEF Copies
  <2>5. HeadsForRoutePoint /\ RouteConsistent
    BY <2>4 DEF HeadsForRoutePoint, RouteConsistent, Fine, Fits
  <2> QED
    BY <2>3, <2>5 DEF CourseCorrect
<1> QED
  BY <1>1, CourseStart, CourseStep, PTL DEF CourseSpec
=============================================================================
