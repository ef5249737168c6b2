---------------------------- MODULE StoreProofs ----------------------------
(* Theorems about Store and Stream, for every set of vessels, paths,       *)
(* sources, values, delta bodies, configuration maps, clients and          *)
(* subscriptions.                                                          *)
EXTENDS Stream, TLAPS, FiniteSetTheorems

USE StoreAssumption, BodiesAssumption

(* Stamping the updates of a delta body yields a list of updates.          *)
LEMMA StampType ==
  ASSUME NEW body \in Bodies, now \in Int
  PROVE  Stamp(body) \in Seq(Update)
<1>1. body \in Seq(Body)
  OBVIOUS
<1>2. \A i \in 1..Len(body) :
        [source |-> body[i].source, timestamp |-> now - body[i].age,
         values |-> body[i].values] \in Update
  <2> SUFFICES ASSUME NEW i \in 1..Len(body)
               PROVE  [source |-> body[i].source,
                       timestamp |-> now - body[i].age,
                       values |-> body[i].values] \in Update
    OBVIOUS
  <2>1. body[i] \in Body
    BY <1>1
  <2> QED
    BY <2>1 DEF Body, Update
<1>3. Len(body) \in Nat
  BY <1>1
<1> QED
  BY <1>2, <1>3 DEF Stamp

(* The writer of an apply_delta that has a vessel context has a vessel.    *)
LEMMA ResolveType ==
  ASSUME NEW context \in Contexts, context # ForeignContext
  PROVE  ResolveContext(context) \in Vessels
BY DEF Contexts, ResolveContext

(* The invariant under which the loop of apply_delta is proved: an open    *)
(* frame has a current update.                                             *)
FrameOK ==
  writer # None /\ writer.open => writer.updates # <<>>

TypeInv == StoreTypeOK /\ FrameOK

LEMMA TypeInit == StoreInit => TypeInv
BY DEF StoreInit, TypeInv, StoreTypeOK, FrameOK, Labels

(* The steps of a running apply_delta leave a frame.                       *)
LEMMA FrameStep ==
  ASSUME TypeInv,
         \/ \E context \in Contexts, body \in Bodies : BeginDelta(context, body)
         \/ RegisterSource \/ ApplyValue \/ NextUpdate
  PROVE  writer' \in Frame
<1> USE DEF TypeInv, StoreTypeOK, FrameOK
<1>1. ASSUME NEW context \in Contexts, NEW body \in Bodies, BeginDelta(context, body)
      PROVE  writer' \in Frame
  BY <1>1, StampType, ResolveType DEF BeginDelta, Frame
<1>2. CASE RegisterSource
  <2>1. writer \in Frame /\ writer.updates \in Seq(Update)
    BY <1>2 DEF RegisterSource, Frame
  <2>2. Head(writer.updates) \in Update
    BY <1>2, <2>1 DEF RegisterSource
  <2>3. Head(writer.updates).values \in Seq(PathValue)
    BY <2>2 DEF Update
  <2> QED
    BY <1>2, <2>1, <2>3 DEF RegisterSource, Frame
<1>3. CASE ApplyValue
  <2>1. /\ writer \in Frame
        /\ writer.values \in Seq(PathValue) /\ writer.values # <<>>
    BY <1>3 DEF ApplyValue, Frame
  <2> DEFINE pv == Head(writer.values)
             rest == [writer EXCEPT !.values = Tail(@)]
  <2>2. pv \in PathValue /\ Tail(writer.values) \in Seq(PathValue)
    BY <2>1
  <2>3. rest \in Frame
    BY <2>1, <2>2 DEF Frame
  <2>4. Append(rest.applied_values, pv) \in Seq(PathValue)
    <3>1. rest.applied_values \in Seq(PathValue)
      BY <2>3 DEF Frame
    <3> HIDE DEF rest, pv
    <3> QED
      BY <3>1, <2>2
  <2>5. [rest EXCEPT !.applied_values = Append(@, pv)] \in Frame
    <3> HIDE DEF rest, pv
    <3> QED
      BY <2>3, <2>4 DEF Frame
  <2>6. writer' = rest \/ writer' = [rest EXCEPT !.applied_values = Append(@, pv)]
    BY <1>3 DEF ApplyValue
  <2> QED
    BY <2>3, <2>5, <2>6
<1>4. CASE NextUpdate
  <2>1. writer \in Frame /\ writer.updates \in Seq(Update)
    BY <1>4 DEF NextUpdate, Frame
  <2>2. Tail(writer.updates) \in Seq(Update) /\ Head(writer.updates) \in Update
    BY <1>4, <2>1 DEF NextUpdate
  <2>3. PushApplied(writer) \in Seq(Update)
    BY <2>1, <2>2 DEF PushApplied, Frame, Update
  <2> QED
    BY <1>4, <2>1, <2>2, <2>3 DEF NextUpdate, Frame
<1> QED
  BY <1>1, <1>2, <1>3, <1>4

LEMMA TypeStep == TypeInv /\ [StoreNext]_storeVars => TypeInv'
<1> SUFFICES ASSUME TypeInv, [StoreNext]_storeVars
             PROVE  TypeInv'
  OBVIOUS
<1> USE DEF TypeInv, StoreTypeOK, FrameOK
<1>1. ASSUME NEW body \in Bodies, ForwardForeign(body) PROVE TypeInv'
  <2>1. [context |-> ForeignContext, updates |-> Stamp(body)] \in Delta
    BY StampType DEF Delta, Contexts
  <2>2. tx' \in Seq(Delta)
    BY <1>1, <2>1 DEF ForwardForeign
  <2> QED
    BY <1>1, <2>2 DEF ForwardForeign
<1>2. ASSUME NEW context \in Contexts, NEW body \in Bodies,
             BeginDelta(context, body)
      PROVE  TypeInv'
  <2>1. writer' \in Frame
    BY <1>2, FrameStep
  <2>2. ~writer'.open
    BY <1>2 DEF BeginDelta
  <2>3. known' \in SUBSET Vessels
    BY <1>2, ResolveType DEF BeginDelta
  <2> QED
    BY <1>2, <2>1, <2>2, <2>3 DEF BeginDelta
<1>3. CASE RegisterSource
  <2>1. writer \in Frame /\ writer.updates \in Seq(Update)
    BY <1>3 DEF RegisterSource, Frame
  <2>2. Head(writer.updates) \in Update
    BY <1>3, <2>1 DEF RegisterSource
  <2>3. /\ Head(writer.updates).source \in Sources
        /\ Head(writer.updates).values \in Seq(PathValue)
    BY <2>2 DEF Update
  <2>4. writer' \in Frame /\ writer'.updates # <<>>
    BY <1>3, <2>1, FrameStep DEF RegisterSource, Frame
  <2>5. Label[Head(writer.updates).source] \in Labels
    BY <2>3 DEF Labels
  <2>6. source_delta_counts' \in [Labels -> Nat]
    BY <1>3, <2>5 DEF RegisterSource
  <2> QED
    BY <1>3, <2>3, <2>4, <2>6 DEF RegisterSource
<1>4. CASE ApplyValue
  <2>1. /\ writer \in Frame /\ writer.uri \in Vessels
        /\ writer.updates \in Seq(Update) /\ writer.updates # <<>>
        /\ writer.values \in Seq(PathValue) /\ writer.values # <<>>
    BY <1>4 DEF ApplyValue, Frame
  <2> DEFINE u == Head(writer.updates)
             pv == Head(writer.values)
             e == EntryOf(u, pv)
             cur == vessels[writer.uri][pv.path]
  <2>2. u \in Update /\ pv \in PathValue /\ Tail(writer.values) \in Seq(PathValue)
    BY <2>1
  <2>3. e \in Entry
    BY <2>2 DEF EntryOf, Entry, Update, PathValue
  <2>4. pv.path \in Paths
    BY <2>2 DEF PathValue
  <2>5. Retained(pv.path, cur, e, writer.uri = Self)
          \in [Sources -> Entry \cup {None}]
    BY <2>3, <2>4 DEF Retained
  <2>6. multi_source' \in [Paths -> [Sources -> Entry \cup {None}]]
    BY <1>4, <2>4, <2>5 DEF ApplyValue
  <2>7. vessels' \in [Vessels -> [Paths -> Entry \cup {None}]]
    <3>1. vessels' = vessels
          \/ vessels' = [vessels EXCEPT ![writer.uri][pv.path] = e]
      BY <1>4 DEF ApplyValue
    <3>2. [vessels EXCEPT ![writer.uri][pv.path] = e]
            \in [Vessels -> [Paths -> Entry \cup {None}]]
      BY <2>1, <2>3, <2>4
    <3> QED
      BY <3>1, <3>2
  <2>9. writer' \in Frame /\ writer'.updates # <<>>
    BY <1>4, <2>1, FrameStep DEF ApplyValue, Frame
  <2> QED
    BY <1>4, <2>6, <2>7, <2>9 DEF ApplyValue
<1>5. CASE NextUpdate
  <2>1. writer \in Frame /\ writer.updates \in Seq(Update)
    BY <1>5 DEF NextUpdate, Frame
  <2>4. writer' \in Frame /\ ~writer'.open
    BY <1>5, <2>1, FrameStep DEF NextUpdate, Frame
  <2> QED
    BY <1>5, <2>4 DEF NextUpdate
<1>6. CASE FinishDelta
  <2>1. writer \in Frame
    BY <1>6 DEF FinishDelta
  <2>2. [context |-> writer.context, updates |-> writer.applied_updates] \in Delta
    BY <2>1 DEF Delta, Frame
  <2>3. tx' \in Seq(Delta) /\ delta_count' \in Nat
    <3>1. CASE UNCHANGED <<tx, delta_count>>
      BY <3>1
    <3>2. CASE /\ tx' = Append(tx, [context |-> writer.context,
                                    updates |-> writer.applied_updates])
               /\ delta_count' = delta_count + 1
      BY <2>2, <3>2
    <3> QED
      BY <1>6, <3>1, <3>2 DEF FinishDelta
  <2> QED
    BY <1>6, <2>3 DEF FinishDelta
<1>7. ASSUME NEW m \in PriorityConfigs, SetSourcePriorities(m) PROVE TypeInv'
  BY <1>7 DEF SetSourcePriorities
<1>8. CASE Tick
  BY <1>8 DEF Tick
<1>9. CASE UNCHANGED storeVars
  BY <1>9 DEF storeVars
<1> QED
  BY <1>1, <1>2, <1>3, <1>4, <1>5, <1>6, <1>7, <1>8, <1>9 DEF StoreNext

(* The store keeps its shape through every delta, priority change and      *)
(* clock tick, for all constants.                                          *)
THEOREM StoreTypeCorrect == StoreSpec => []StoreTypeOK
<1>1. TypeInv => StoreTypeOK
  BY DEF TypeInv
<1> QED
  BY <1>1, TypeInit, TypeStep, PTL DEF StoreSpec

-----------------------------------------------------------------------------
(* What one inner iteration does, with the locals named.                   *)
LEMMA ApplyValueEffect ==
  ASSUME StoreTypeOK, ApplyValue
  PROVE  \E v \in Vessels, p \in Paths, e \in Entry :
           /\ v = writer.uri
           /\ multi_source' = [multi_source EXCEPT
                ![p] = Retained(p, vessels[v][p], e, v = Self)]
           /\ \/ /\ ShouldUpdate(vessels[v][p], e.source)
                 /\ vessels' = [vessels EXCEPT ![v][p] = e]
              \/ /\ ~ShouldUpdate(vessels[v][p], e.source)
                 /\ vessels' = vessels
           /\ UNCHANGED <<source_priorities, source_ttls, now>>
<1>1. /\ writer \in Frame /\ writer.uri \in Vessels
      /\ writer.updates \in Seq(Update) /\ writer.updates # <<>>
      /\ writer.values \in Seq(PathValue) /\ writer.values # <<>>
  BY DEF ApplyValue, StoreTypeOK, Frame
<1> DEFINE u == Head(writer.updates)
           pv == Head(writer.values)
           e == EntryOf(u, pv)
<1>2. u \in Update /\ pv \in PathValue
  BY <1>1
<1>3. e \in Entry /\ e.source = u.source /\ pv.path \in Paths
  BY <1>2 DEF EntryOf, Entry, Update, PathValue
<1>4. /\ multi_source' = [multi_source EXCEPT
           ![pv.path] = Retained(pv.path, vessels[writer.uri][pv.path], e,
                                 writer.uri = Self)]
      /\ \/ /\ ShouldUpdate(vessels[writer.uri][pv.path], u.source)
            /\ vessels' = [vessels EXCEPT ![writer.uri][pv.path] = e]
         \/ /\ ~ShouldUpdate(vessels[writer.uri][pv.path], u.source)
            /\ vessels' = vessels
      /\ UNCHANGED <<source_priorities, source_ttls, now>>
  BY DEF ApplyValue
<1> HIDE DEF u, pv, e
<1> QED
  BY <1>1, <1>3, <1>4

(* No other step touches an active value, the per-source table or the TTLs. *)
LEMMA OtherSteps ==
  ASSUME [StoreNext]_storeVars, ~ApplyValue
  PROVE  UNCHANGED <<vessels, multi_source, source_ttls>>
BY DEF StoreNext, storeVars, ForwardForeign, BeginDelta, RegisterSource,
       NextUpdate, FinishDelta, SetSourcePriorities, Tick

LEMMA MatchStep ==
  StoreTypeOK /\ ActiveMatchesRetained /\ [StoreNext]_storeVars => ActiveMatchesRetained'
<1> SUFFICES ASSUME StoreTypeOK, ActiveMatchesRetained, [StoreNext]_storeVars
             PROVE  ActiveMatchesRetained'
  OBVIOUS
<1>1. CASE ~ApplyValue
  BY <1>1, OtherSteps DEF ActiveMatchesRetained
<1>2. CASE ApplyValue
  <2>1. PICK v \in Vessels, p \in Paths, e \in Entry :
           /\ v = writer.uri
           /\ multi_source' = [multi_source EXCEPT
                ![p] = Retained(p, vessels[v][p], e, v = Self)]
           /\ \/ /\ ShouldUpdate(vessels[v][p], e.source)
                 /\ vessels' = [vessels EXCEPT ![v][p] = e]
              \/ /\ ~ShouldUpdate(vessels[v][p], e.source)
                 /\ vessels' = vessels
           /\ UNCHANGED <<source_priorities, source_ttls, now>>
    BY <1>2, ApplyValueEffect
  <2>2. e.source \in Sources /\ e # None
    BY DEF Entry
  <2> SUFFICES ASSUME NEW q \in Paths, vessels'[Self][q] # None
               PROVE  multi_source'[q][vessels'[Self][q].source]
                        \in {None, vessels'[Self][q]}
    BY DEF ActiveMatchesRetained
  <2>3. CASE q # p
    <3>1. vessels'[Self][q] = vessels[Self][q] /\ multi_source'[q] = multi_source[q]
      BY <2>1, <2>3 DEF StoreTypeOK
    <3> QED
      BY <3>1 DEF ActiveMatchesRetained
  <2>4. CASE q = p /\ v # Self
    <3>1. vessels'[Self][q] = vessels[Self][q]
      BY <2>1, <2>4 DEF StoreTypeOK
    <3>2. vessels[Self][q].source \in Sources
      BY <3>1 DEF StoreTypeOK, Entry
    <3>3. multi_source'[q][vessels[Self][q].source]
            \in {None, multi_source[q][vessels[Self][q].source]}
      BY <2>1, <2>4, <3>2 DEF Retained, StoreTypeOK
    <3> QED
      BY <3>1, <3>3 DEF ActiveMatchesRetained
  <2>5. CASE q = p /\ v = Self /\ vessels' = [vessels EXCEPT ![v][p] = e]
    <3>1. vessels'[Self][q] = e
      BY <2>5 DEF StoreTypeOK
    <3>2. multi_source'[q][e.source] \in {None, e}
      BY <2>1, <2>2, <2>5 DEF Retained, StoreTypeOK
    <3> QED
      BY <3>1, <3>2
  <2>6. CASE q = p /\ v = Self /\ vessels' = vessels
             /\ ~ShouldUpdate(vessels[v][p], e.source)
    <3> DEFINE cur == vessels[Self][p]
    <3>1. cur \in Entry /\ cur # None /\ cur.source \in Sources
      BY <2>6 DEF StoreTypeOK, Entry
    <3>2. ~Stale(cur) /\ ~(Priority(e.source) <= Priority(cur.source))
      BY <2>6, <3>1 DEF ShouldUpdate
    <3>3. source_priorities \in PriorityConfigs /\ IsConfigMap(source_priorities)
      BY DEF StoreTypeOK
    <3>4. Priority(cur.source) \in Nat
      BY <3>3 DEF Priority, IsConfigMap, DEFAULT_SOURCE_PRIORITY
    <3>5. cur.source # e.source
      BY <3>2, <3>4
    <3>6. multi_source'[q][cur.source] = multi_source[q][cur.source]
      BY <2>1, <2>6, <3>1, <3>2, <3>5 DEF Retained, StoreTypeOK
    <3> QED
      BY <2>6, <3>6 DEF ActiveMatchesRetained
  <2> QED
    BY <2>1, <2>3, <2>4, <2>5, <2>6
<1> QED
  BY <1>1, <1>2

(* Whatever priorities, TTLs and clocks do, the table of per-source values *)
(* and the active value never give two answers for one source.             *)
THEOREM StoreActiveMatchesRetained == StoreSpec => []ActiveMatchesRetained
<1>1. StoreInit => ActiveMatchesRetained
  BY DEF StoreInit, ActiveMatchesRetained
<1> QED
  BY <1>1, MatchStep, StoreTypeCorrect, PTL DEF StoreSpec

-----------------------------------------------------------------------------
LEMMA PriorityStep ==
  StoreTypeOK /\ HighestPriorityActive /\ DOMAIN source_ttls = {}
    /\ UNCHANGED source_priorities /\ [StoreNext]_storeVars
      => HighestPriorityActive'
<1> SUFFICES ASSUME StoreTypeOK, HighestPriorityActive, DOMAIN source_ttls = {},
                    source_priorities' = source_priorities, [StoreNext]_storeVars
             PROVE  HighestPriorityActive'
  OBVIOUS
<1>1. source_priorities' = source_priorities
  OBVIOUS
<1>2. \A s \in Sources : Priority(s) \in Nat /\ Priority(s)' = Priority(s)
  <2>1. source_priorities \in PriorityConfigs /\ IsConfigMap(source_priorities)
    BY DEF StoreTypeOK
  <2> QED
    BY <1>1, <2>1 DEF Priority, IsConfigMap, DEFAULT_SOURCE_PRIORITY
<1>3. \A x : ~Stale(x)
  BY DEF Stale
<1>4. CASE ~ApplyValue
  <2>1. UNCHANGED <<vessels, multi_source>>
    BY <1>4, OtherSteps
  <2> SUFFICES ASSUME NEW q \in Paths, NEW s \in Sources,
                      multi_source[q][s] # None
               PROVE  /\ vessels[Self][q] # None
                      /\ Priority(vessels[Self][q].source)' <= Priority(s)'
    BY <2>1 DEF HighestPriorityActive
  <2>2. /\ vessels[Self][q] # None
        /\ Priority(vessels[Self][q].source) <= Priority(s)
    BY DEF HighestPriorityActive
  <2>3. vessels[Self][q].source \in Sources
    BY <2>2 DEF StoreTypeOK, Entry
  <2> QED
    BY <1>1, <1>2, <2>1, <2>2, <2>3 DEF Priority
<1>5. CASE ApplyValue
  <2>1. PICK v \in Vessels, p \in Paths, e \in Entry :
           /\ v = writer.uri
           /\ multi_source' = [multi_source EXCEPT
                ![p] = Retained(p, vessels[v][p], e, v = Self)]
           /\ \/ /\ ShouldUpdate(vessels[v][p], e.source)
                 /\ vessels' = [vessels EXCEPT ![v][p] = e]
              \/ /\ ~ShouldUpdate(vessels[v][p], e.source)
                 /\ vessels' = vessels
           /\ UNCHANGED <<source_priorities, source_ttls, now>>
    BY <1>5, ApplyValueEffect
  <2>2. e.source \in Sources /\ e # None
    BY DEF Entry
  <2> SUFFICES ASSUME NEW q \in Paths, NEW s \in Sources,
                      multi_source'[q][s] # None
               PROVE  /\ vessels'[Self][q] # None
                      /\ Priority(vessels'[Self][q].source) <= Priority(s)
    BY <1>1 DEF HighestPriorityActive, Priority
  <2>3. CASE q # p \/ v # Self
    <3>1. vessels'[Self][q] = vessels[Self][q]
      BY <2>1, <2>3 DEF StoreTypeOK
    <3>2. multi_source'[q][s] = multi_source[q][s]
      BY <1>3, <2>1, <2>3 DEF Retained, StoreTypeOK
    <3> QED
      BY <3>1, <3>2 DEF HighestPriorityActive
  <2>4. CASE q = p /\ v = Self
    <3> DEFINE cur == vessels[Self][p]
    <3>1. multi_source'[q][s] = IF s = e.source THEN e ELSE multi_source[q][s]
      BY <1>3, <2>1, <2>4 DEF Retained, StoreTypeOK
    <3>2. cur # None => cur.source \in Sources
      BY DEF StoreTypeOK, Entry
    <3>3. CASE vessels' = [vessels EXCEPT ![v][p] = e]
               /\ ShouldUpdate(cur, e.source)
      <4>1. vessels'[Self][q] = e
        BY <2>4, <3>3 DEF StoreTypeOK
      <4>2. CASE s = e.source
        BY <1>2, <2>2, <4>1, <4>2
      <4>3. CASE s # e.source
        <5>1. cur # None /\ Priority(cur.source) <= Priority(s)
          BY <2>4, <3>1, <4>3 DEF HighestPriorityActive
        <5>2. Priority(e.source) <= Priority(cur.source)
          BY <1>3, <3>3, <5>1 DEF ShouldUpdate
        <5> QED
          BY <1>2, <2>2, <3>2, <4>1, <5>1, <5>2
      <4> QED
        BY <4>2, <4>3
    <3>4. CASE vessels' = vessels /\ ~ShouldUpdate(cur, e.source)
      <4>1. cur # None /\ ~(Priority(e.source) <= Priority(cur.source))
        BY <3>4 DEF ShouldUpdate
      <4>2. CASE s = e.source
        BY <1>2, <2>2, <2>4, <3>2, <3>4, <4>1, <4>2
      <4>3. CASE s # e.source
        BY <2>4, <3>1, <3>4, <4>3 DEF HighestPriorityActive
      <4> QED
        BY <4>2, <4>3
    <3> QED
      BY <2>1, <2>4, <3>3, <3>4
  <2> QED
    BY <2>3, <2>4
<1> QED
  BY <1>4, <1>5

(* Without TTLs no delta of any sender, and no passing of time, brings a   *)
(* source to the fore that another one outranks; only new ranks can.       *)
THEOREM StorePriorityKept == StoreSpec => PriorityKept
<1>1. StoreTypeOK /\ [StoreNext]_storeVars =>
        [(DOMAIN source_ttls = {} /\ UNCHANGED source_priorities /\ HighestPriorityActive)
           => HighestPriorityActive']_storeVars
  BY PriorityStep
<1> QED
  BY <1>1, StoreTypeCorrect, PTL DEF StoreSpec, PriorityKept

(* Without TTLs and with priorities that are not changed at run time, the  *)
(* active value of a self path always comes from a source no retained      *)
(* source outranks.                                                        *)
THEOREM StoreHighestPriority ==
  ASSUME StaticConfig
  PROVE  StoreSpec => []HighestPriorityActive
<1>1. StoreInit => HighestPriorityActive
  BY DEF StoreInit, HighestPriorityActive
<1>2. StoreTypeOK /\ StoreTypeOK' => DOMAIN source_ttls = {} /\ UNCHANGED source_priorities
  BY DEF StaticConfig, StoreTypeOK
<1> QED
  BY <1>1, <1>2, PriorityStep, StoreTypeCorrect, PTL DEF StoreSpec

-----------------------------------------------------------------------------
(* What subscribers have been told, and will have been once the running    *)
(* apply_delta is through with what it has applied: the channel, and the   *)
(* delta in the making.                                                    *)
InMaking == [source    |-> Head(writer.updates).source,
             timestamp |-> Head(writer.updates).timestamp,
             values    |-> writer.applied_values]
Pending == IF writer.open THEN Append(writer.applied_updates, InMaking)
           ELSE writer.applied_updates
Told == IF writer = None THEN tx
        ELSE Append(tx, [context |-> writer.context, updates |-> Pending])

(* Value k of update u, update j of delta d, delta i of ds, is for path p  *)
(* of vessel v.                                                            *)
InUpdate(u, p, k) == k \in 1..Len(u.values) /\ u.values[k].path = p
InUpdates(us, p, j, k) == j \in 1..Len(us) /\ InUpdate(us[j], p, k)
InDelta(d, v, p, j, k) == ResolveContext(d.context) = v /\ InUpdates(d.updates, p, j, k)
InDeltas(ds, v, p, i, j, k) == i \in 1..Len(ds) /\ InDelta(ds[i], v, p, j, k)

ValueIn(ds, i, j, k) == EntryOf(ds[i].updates[j], ds[i].updates[j].values[k])
Precedes(l, m, n, i, j, k) == l < i \/ (l = i /\ m < j) \/ (l = i /\ m = j /\ n < k)

LastIn(ds, v, p, i, j, k) ==
  /\ InDeltas(ds, v, p, i, j, k)
  /\ \A l, m, n \in Nat : InDeltas(ds, v, p, l, m, n) =>
       (l = i /\ m = j /\ n = k) \/ Precedes(l, m, n, i, j, k)

Agrees(ds, v, p, e) ==
  IF e = None THEN \A i, j, k \in Nat : ~InDeltas(ds, v, p, i, j, k)
  ELSE \E i, j, k \in Nat : LastIn(ds, v, p, i, j, k) /\ ValueIn(ds, i, j, k) = e

(* An apply_delta between two updates has nothing applied of an earlier    *)
(* one left over, and works on the vessel of its context.                  *)
WorkInv ==
  writer # None => /\ ~writer.open => writer.applied_values = <<>>
                   /\ writer.uri = ResolveContext(writer.context)

ToldInv == WorkInv /\ \A v \in Vessels, p \in Paths : Agrees(Told, v, p, vessels[v][p])

(* Lists of deltas with the same values at the same places are as good.    *)
LEMMA SamePlaces ==
  ASSUME NEW ds, NEW es, NEW v, NEW p, NEW e, Agrees(ds, v, p, e),
         \A i, j, k \in Nat : InDeltas(ds, v, p, i, j, k) <=> InDeltas(es, v, p, i, j, k),
         \A i, j, k \in Nat : InDeltas(ds, v, p, i, j, k) =>
                                ValueIn(ds, i, j, k) = ValueIn(es, i, j, k)
  PROVE  Agrees(es, v, p, e)
<1>1. CASE e = None
  BY <1>1 DEF Agrees
<1>2. CASE e # None
  <2>1. PICK i \in Nat, j \in Nat, k \in Nat :
          LastIn(ds, v, p, i, j, k) /\ ValueIn(ds, i, j, k) = e
    BY <1>2 DEF Agrees
  <2>2. LastIn(es, v, p, i, j, k) /\ ValueIn(es, i, j, k) = e
    BY <2>1 DEF LastIn
  <2> QED
    BY <1>2, <2>2 DEF Agrees
<1> QED
  BY <1>1, <1>2

(* What one more delta, update or value adds.                              *)
LEMMA MoreDeltas ==
  ASSUME NEW ds \in Seq(Delta), NEW d, NEW v, NEW p,
         NEW i \in Nat, NEW j \in Nat, NEW k \in Nat
  PROVE  /\ InDeltas(Append(ds, d), v, p, i, j, k)
              <=> InDeltas(ds, v, p, i, j, k) \/ (i = Len(ds) + 1 /\ InDelta(d, v, p, j, k))
         /\ InDeltas(ds, v, p, i, j, k) =>
              ValueIn(Append(ds, d), i, j, k) = ValueIn(ds, i, j, k)
         /\ ValueIn(Append(ds, d), Len(ds) + 1, j, k)
              = EntryOf(d.updates[j], d.updates[j].values[k])
<1>1. /\ Len(Append(ds, d)) = Len(ds) + 1 /\ Len(ds) \in Nat
      /\ \A n \in 1..Len(ds) : Append(ds, d)[n] = ds[n]
      /\ Append(ds, d)[Len(ds) + 1] = d
  OBVIOUS
<1> HIDE DEF Delta
<1> DEFINE es == Append(ds, d)
           n == Len(ds)
<1>2. /\ Len(es) = n + 1 /\ n \in Nat
      /\ \A m \in 1..n : es[m] = ds[m]
      /\ es[n + 1] = d
  BY <1>1
<1> HIDE DEF es, n
<1>3. InDeltas(es, v, p, i, j, k)
        <=> InDeltas(ds, v, p, i, j, k) \/ (i = n + 1 /\ InDelta(d, v, p, j, k))
  BY <1>2 DEF InDeltas, n
<1>4. InDeltas(ds, v, p, i, j, k) => ValueIn(es, i, j, k) = ValueIn(ds, i, j, k)
  BY <1>2 DEF InDeltas, ValueIn, n
<1>5. ValueIn(es, n + 1, j, k) = EntryOf(d.updates[j], d.updates[j].values[k])
  BY <1>2 DEF ValueIn
<1> QED
  BY <1>3, <1>4, <1>5 DEF es, n

LEMMA MoreUpdates ==
  ASSUME NEW us \in Seq(Update), NEW u, NEW p, NEW j \in Nat, NEW k \in Nat
  PROVE  /\ InUpdates(Append(us, u), p, j, k)
              <=> InUpdates(us, p, j, k) \/ (j = Len(us) + 1 /\ InUpdate(u, p, k))
         /\ j \in 1..Len(us) => Append(us, u)[j] = us[j]
         /\ Append(us, u)[Len(us) + 1] = u
<1> DEFINE es == Append(us, u)
           n == Len(us)
<1>1. /\ Len(es) = n + 1 /\ n \in Nat
      /\ \A m \in 1..n : es[m] = us[m]
      /\ es[n + 1] = u
  OBVIOUS
<1> HIDE DEF es, n
<1>2. InUpdates(es, p, j, k)
        <=> InUpdates(us, p, j, k) \/ (j = n + 1 /\ InUpdate(u, p, k))
  BY <1>1 DEF InUpdates, n
<1> QED
  BY <1>1, <1>2 DEF es, n

Grown(u, w, pv) ==
  /\ u.values \in Seq(PathValue) /\ w.values = Append(u.values, pv)
  /\ w.source = u.source /\ w.timestamp = u.timestamp

LEMMA MoreValues ==
  ASSUME NEW u, NEW w, NEW pv \in PathValue, Grown(u, w, pv)
  PROVE  /\ \A p : \A k \in Nat : InUpdate(w, p, k)
              <=> InUpdate(u, p, k) \/ (k = Len(u.values) + 1 /\ pv.path = p)
         /\ \A k \in 1..Len(u.values) : EntryOf(w, w.values[k]) = EntryOf(u, u.values[k])
         /\ EntryOf(w, w.values[Len(u.values) + 1]) = EntryOf(u, pv)
<1> DEFINE n == Len(u.values)
<1>1. /\ Len(w.values) = n + 1 /\ n \in Nat
      /\ \A m \in 1..n : w.values[m] = u.values[m]
      /\ w.values[n + 1] = pv /\ w.source = u.source /\ w.timestamp = u.timestamp
  BY DEF Grown
<1> HIDE DEF n
<1>2. \A p : \A k \in Nat : InUpdate(w, p, k)
        <=> InUpdate(u, p, k) \/ (k = n + 1 /\ pv.path = p)
  BY <1>1 DEF InUpdate, n
<1>3. \A k \in 1..n : EntryOf(w, w.values[k]) = EntryOf(u, u.values[k])
  BY <1>1 DEF EntryOf
<1>4. EntryOf(w, w.values[n + 1]) = EntryOf(u, pv)
  BY <1>1 DEF EntryOf
<1> QED
  BY <1>2, <1>3, <1>4 DEF n

(* A delta in the making that has no update or an empty one tells nothing  *)
(* yet; nor does one for a context that is no vessel.                      *)
LEMMA NothingTold ==
  ASSUME NEW ds \in Seq(Delta), NEW d, NEW v, NEW p, NEW e, Agrees(ds, v, p, e),
         \A j, k \in Nat : ~InDelta(d, v, p, j, k)
  PROVE  Agrees(Append(ds, d), v, p, e)
<1>1. \A i, j, k \in Nat :
        InDeltas(ds, v, p, i, j, k) <=> InDeltas(Append(ds, d), v, p, i, j, k)
  BY MoreDeltas
<1>2. \A i, j, k \in Nat : InDeltas(ds, v, p, i, j, k) =>
                             ValueIn(ds, i, j, k) = ValueIn(Append(ds, d), i, j, k)
  <2> SUFFICES ASSUME NEW i \in Nat, NEW j \in Nat, NEW k \in Nat,
                      InDeltas(ds, v, p, i, j, k)
               PROVE  ValueIn(ds, i, j, k) = ValueIn(Append(ds, d), i, j, k)
    OBVIOUS
  <2>1. InDeltas(Append(ds, d), v, p, i, j, k)
    BY <1>1
  <2> QED
    BY <2>1, MoreDeltas
<1> QED
  BY <1>1, <1>2, SamePlaces

(* Nor does it matter to what was told when such a delta is dropped.       *)
LEMMA NothingLost ==
  ASSUME NEW ds \in Seq(Delta), NEW d, NEW v, NEW p, NEW e,
         Agrees(Append(ds, d), v, p, e), \A j, k \in Nat : ~InDelta(d, v, p, j, k)
  PROVE  Agrees(ds, v, p, e)
<1>1. \A i, j, k \in Nat :
        InDeltas(Append(ds, d), v, p, i, j, k) <=> InDeltas(ds, v, p, i, j, k)
  BY MoreDeltas
<1>2. \A i, j, k \in Nat : InDeltas(Append(ds, d), v, p, i, j, k) =>
                             ValueIn(Append(ds, d), i, j, k) = ValueIn(ds, i, j, k)
  <2> SUFFICES ASSUME NEW i \in Nat, NEW j \in Nat, NEW k \in Nat,
                      InDeltas(Append(ds, d), v, p, i, j, k)
               PROVE  ValueIn(Append(ds, d), i, j, k) = ValueIn(ds, i, j, k)
    OBVIOUS
  <2>1. InDeltas(ds, v, p, i, j, k)
    BY <1>1
  <2> QED
    BY <2>1, MoreDeltas
<1> QED
  BY <1>1, <1>2, SamePlaces

(* Two deltas in the making that tell the same.                            *)
LEMMA SameDelta ==
  ASSUME NEW ds \in Seq(Delta), NEW d, NEW f, NEW v, NEW p, NEW e,
         Agrees(Append(ds, d), v, p, e),
         \A j, k \in Nat : InDelta(d, v, p, j, k) <=> InDelta(f, v, p, j, k),
         \A j, k \in Nat : InDelta(d, v, p, j, k) =>
           EntryOf(d.updates[j], d.updates[j].values[k])
             = EntryOf(f.updates[j], f.updates[j].values[k])
  PROVE  Agrees(Append(ds, f), v, p, e)
<1>1. \A i, j, k \in Nat :
        InDeltas(Append(ds, d), v, p, i, j, k) <=> InDeltas(Append(ds, f), v, p, i, j, k)
  BY MoreDeltas
<1>2. \A i, j, k \in Nat : InDeltas(Append(ds, d), v, p, i, j, k) =>
        ValueIn(Append(ds, d), i, j, k) = ValueIn(Append(ds, f), i, j, k)
  <2> SUFFICES ASSUME NEW i \in Nat, NEW j \in Nat, NEW k \in Nat,
                      InDeltas(Append(ds, d), v, p, i, j, k)
               PROVE  ValueIn(Append(ds, d), i, j, k) = ValueIn(Append(ds, f), i, j, k)
    OBVIOUS
  <2>1. InDeltas(Append(ds, f), v, p, i, j, k)
    BY <1>1
  <2>2. CASE InDeltas(ds, v, p, i, j, k)
    <3>1. ValueIn(Append(ds, d), i, j, k) = ValueIn(ds, i, j, k)
      BY <2>2, MoreDeltas
    <3>2. ValueIn(Append(ds, f), i, j, k) = ValueIn(ds, i, j, k)
      BY <2>1, <2>2, MoreDeltas
    <3> QED
      BY <3>1, <3>2
  <2>3. CASE i = Len(ds) + 1 /\ InDelta(d, v, p, j, k)
    <3>1. ValueIn(Append(ds, d), i, j, k) = EntryOf(d.updates[j], d.updates[j].values[k])
      BY <2>3, MoreDeltas
    <3>2. ValueIn(Append(ds, f), i, j, k) = EntryOf(f.updates[j], f.updates[j].values[k])
      BY <2>1, <2>3, MoreDeltas
    <3> QED
      BY <2>3, <3>1, <3>2
  <2> QED
    BY <2>2, <2>3, MoreDeltas
<1> QED
  BY <1>1, <1>2, SamePlaces

(* One more value at the end of the delta in the making is the last of its *)
(* path and vessel, and changes nothing for the others.                    *)
Adds(d, f, v, p, J, K) ==
  /\ \A j, k \in Nat : InDelta(f, v, p, j, k) <=> InDelta(d, v, p, j, k) \/ (j = J /\ k = K)
  /\ \A j, k \in Nat : InDelta(d, v, p, j, k) => j < J \/ (j = J /\ k < K)

LEMMA OneMoreTold ==
  ASSUME NEW ds \in Seq(Delta), NEW d, NEW f, NEW v, NEW p, NEW g,
         NEW J \in Nat, NEW K \in Nat, Adds(d, f, v, p, J, K), g # None,
         EntryOf(f.updates[J], f.updates[J].values[K]) = g
  PROVE  Agrees(Append(ds, f), v, p, g)
<1> DEFINE I == Len(ds) + 1
<1>1. I \in Nat
  OBVIOUS
<1>2. InDeltas(Append(ds, f), v, p, I, J, K) /\ ValueIn(Append(ds, f), I, J, K) = g
  <2>1. InDelta(f, v, p, J, K)
    BY DEF Adds
  <2>2. InDeltas(Append(ds, f), v, p, I, J, K)
    BY <1>1, <2>1, MoreDeltas
  <2>3. ValueIn(Append(ds, f), I, J, K) = EntryOf(f.updates[J], f.updates[J].values[K])
    BY <1>1, <2>2, MoreDeltas
  <2> QED
    BY <2>2, <2>3
<1>3. ASSUME NEW l \in Nat, NEW m \in Nat, NEW n \in Nat,
             InDeltas(Append(ds, f), v, p, l, m, n)
      PROVE  (l = I /\ m = J /\ n = K) \/ Precedes(l, m, n, I, J, K)
  <2>1. CASE InDeltas(ds, v, p, l, m, n)
    BY <2>1 DEF InDeltas, Precedes
  <2>2. CASE l = Len(ds) + 1 /\ InDelta(f, v, p, m, n)
    BY <2>2 DEF Precedes, Adds
  <2> QED
    BY <1>3, <2>1, <2>2, MoreDeltas
<1>4. LastIn(Append(ds, f), v, p, I, J, K)
  BY <1>2, <1>3 DEF LastIn
<1> QED
  BY <1>1, <1>2, <1>4 DEF Agrees

(* The delta in the making and its parts are deltas and parts of deltas.   *)
LEMMA PendingType ==
  ASSUME TypeInv, writer # None
  PROVE  /\ writer \in Frame /\ tx \in Seq(Delta)
         /\ writer.applied_updates \in Seq(Update) /\ writer.applied_values \in Seq(PathValue)
         /\ writer.updates \in Seq(Update) /\ writer.values \in Seq(PathValue)
         /\ writer.uri \in Vessels
BY DEF TypeInv, StoreTypeOK, Frame

(* What is told does not change as long as neither the channel nor what    *)
(* was applied changes.                                                    *)
LEMMA BeginStep ==
  ASSUME TypeInv, ToldInv, NEW context \in Contexts, NEW body \in Bodies,
         BeginDelta(context, body)
  PROVE  ToldInv'
<1>1. /\ writer = None /\ UNCHANGED <<tx, vessels>> /\ writer' \in Frame
      /\ writer' = [context |-> context, uri |-> ResolveContext(context),
                    updates |-> Stamp(body), open |-> FALSE, values |-> <<>>,
                    applied_values |-> <<>>, applied_updates |-> <<>>]
  BY FrameStep DEF BeginDelta
<1>2. writer' # None
  BY <1>1
<1>3. WorkInv'
  BY <1>1 DEF WorkInv
<1> DEFINE d == [context |-> context, updates |-> <<>>]
<1>4. Told = tx /\ Told' = Append(tx, d)
  BY <1>1, <1>2 DEF Told, Pending
<1>5. \A v, p : \A j, k \in Nat : ~InDelta(d, v, p, j, k)
  BY DEF InDelta, InUpdates
<1>6. tx \in Seq(Delta)
  BY DEF TypeInv, StoreTypeOK
<1> HIDE DEF d
<1>7. \A v \in Vessels, p \in Paths : Agrees(Append(tx, d), v, p, vessels[v][p])
  <2> SUFFICES ASSUME NEW v \in Vessels, NEW p \in Paths
               PROVE  Agrees(Append(tx, d), v, p, vessels[v][p])
    OBVIOUS
  <2>1. Agrees(tx, v, p, vessels[v][p])
    BY <1>4 DEF ToldInv
  <2>2. \A j, k \in Nat : ~InDelta(d, v, p, j, k)
    BY <1>5
  <2> QED
    BY <1>6, <2>1, <2>2, NothingTold
<1> QED
  BY <1>1, <1>3, <1>4, <1>7 DEF ToldInv

LEMMA ForeignStep ==
  ASSUME TypeInv, ToldInv, NEW body \in Bodies, ForwardForeign(body)
  PROVE  ToldInv'
<1> DEFINE d == [context |-> ForeignContext, updates |-> Stamp(body)]
<1>1. /\ writer = None /\ writer' = None /\ vessels' = vessels /\ tx' = Append(tx, d)
      /\ tx \in Seq(Delta)
  BY DEF ForwardForeign, TypeInv, StoreTypeOK
<1>2. Told = tx /\ Told' = Append(tx, d)
  BY <1>1 DEF Told
<1>3. \A v \in Vessels : \A p : \A j, k \in Nat : ~InDelta(d, v, p, j, k)
  BY DEF InDelta, ResolveContext
<1> HIDE DEF d
<1>4. \A v \in Vessels, p \in Paths : Agrees(Append(tx, d), v, p, vessels[v][p])
  <2> SUFFICES ASSUME NEW v \in Vessels, NEW p \in Paths
               PROVE  Agrees(Append(tx, d), v, p, vessels[v][p])
    OBVIOUS
  <2>1. Agrees(tx, v, p, vessels[v][p])
    BY <1>2 DEF ToldInv
  <2>2. \A j, k \in Nat : ~InDelta(d, v, p, j, k)
    BY <1>3
  <2> QED
    BY <1>1, <2>1, <2>2, NothingTold
<1> QED
  BY <1>1, <1>2, <1>4 DEF ToldInv, WorkInv

LEMMA RegisterStep ==
  ASSUME TypeInv, ToldInv, RegisterSource
  PROVE  ToldInv'
<1>1. /\ writer # None /\ ~writer.open /\ UNCHANGED <<tx, vessels>> /\ writer' \in Frame
      /\ writer' = [writer EXCEPT !.open = TRUE, !.values = Head(writer.updates).values]
  BY FrameStep DEF RegisterSource
<1>2. /\ writer' # None /\ writer'.open /\ writer'.context = writer.context
      /\ writer'.uri = writer.uri /\ writer'.updates = writer.updates
      /\ writer'.applied_values = writer.applied_values
      /\ writer'.applied_updates = writer.applied_updates
  BY <1>1, PendingType DEF Frame
<1>3. writer.applied_values = <<>> /\ writer.uri = ResolveContext(writer.context)
  BY <1>1 DEF ToldInv, WorkInv
<1>4. WorkInv'
  BY <1>2, <1>3 DEF WorkInv
<1> DEFINE us == writer.applied_updates
           d == [context |-> writer.context, updates |-> us]
           f == [context |-> writer.context, updates |-> Append(us, InMaking)]
<1>5. Told = Append(tx, d) /\ Told' = Append(tx, f)
  BY <1>1, <1>2 DEF Told, Pending, InMaking
<1>6. tx \in Seq(Delta) /\ us \in Seq(Update)
  BY <1>1, PendingType
<1>7. \A p : \A k \in Nat : ~InUpdate(InMaking, p, k)
  BY <1>3 DEF InUpdate, InMaking
<1>8. \A p : \A j, k \in Nat :
        /\ InUpdates(Append(us, InMaking), p, j, k) <=> InUpdates(us, p, j, k)
        /\ InUpdates(us, p, j, k) => Append(us, InMaking)[j] = us[j]
  <2> SUFFICES ASSUME NEW p, NEW j \in Nat, NEW k \in Nat
               PROVE  /\ InUpdates(Append(us, InMaking), p, j, k) <=> InUpdates(us, p, j, k)
                      /\ InUpdates(us, p, j, k) => Append(us, InMaking)[j] = us[j]
    OBVIOUS
  <2> HIDE DEF us
  <2>1. InUpdates(Append(us, InMaking), p, j, k) <=> InUpdates(us, p, j, k)
    BY <1>6, <1>7, MoreUpdates
  <2>2. InUpdates(us, p, j, k) => j \in 1..Len(us)
    BY DEF InUpdates
  <2>3. j \in 1..Len(us) => Append(us, InMaking)[j] = us[j]
    BY <1>6, MoreUpdates
  <2> QED
    BY <2>1, <2>2, <2>3
<1>9. \A v, p : \A j, k \in Nat :
        /\ InDelta(d, v, p, j, k) <=> InDelta(f, v, p, j, k)
        /\ InDelta(d, v, p, j, k) =>
             EntryOf(d.updates[j], d.updates[j].values[k])
               = EntryOf(f.updates[j], f.updates[j].values[k])
  <2> HIDE DEF us
  <2> QED
    BY <1>8 DEF InDelta
<1> HIDE DEF d, f, us
<1>10. \A v \in Vessels, p \in Paths : Agrees(Append(tx, f), v, p, vessels[v][p])
  BY <1>5, <1>6, <1>9, SameDelta DEF ToldInv
<1> QED
  BY <1>1, <1>4, <1>5, <1>10 DEF ToldInv

LEMMA UpdateStep ==
  ASSUME TypeInv, ToldInv, NextUpdate
  PROVE  ToldInv'
<1>1. /\ writer # None /\ writer.open /\ UNCHANGED <<tx, vessels>> /\ writer' \in Frame
      /\ writer' = [writer EXCEPT !.updates = Tail(@), !.open = FALSE,
                                  !.applied_values = <<>>,
                                  !.applied_updates = PushApplied(writer)]
  BY FrameStep DEF NextUpdate
<1>2. /\ writer' # None /\ ~writer'.open /\ writer'.context = writer.context
      /\ writer'.uri = writer.uri /\ writer'.applied_values = <<>>
      /\ writer'.applied_updates = PushApplied(writer)
  BY <1>1, PendingType DEF Frame
<1>3. writer.uri = ResolveContext(writer.context)
  BY <1>1 DEF ToldInv, WorkInv
<1>4. WorkInv'
  BY <1>2, <1>3 DEF WorkInv
<1> DEFINE us == writer.applied_updates
           f == [context |-> writer.context, updates |-> us]
           d == [context |-> writer.context, updates |-> Append(us, InMaking)]
<1>5. Told = Append(tx, d)
  BY <1>1 DEF Told, Pending
<1>6. tx \in Seq(Delta) /\ us \in Seq(Update)
  BY <1>1, PendingType
<1>7. CASE writer.applied_values # <<>>
  <2>1. PushApplied(writer) = Append(us, InMaking)
    BY <1>7 DEF PushApplied, InMaking
  <2>2. Told' = Told
    BY <1>1, <1>2, <1>5, <2>1 DEF Told, Pending
  <2> QED
    BY <1>1, <1>4, <2>2 DEF ToldInv
<1>8. CASE writer.applied_values = <<>>
  <2>1. PushApplied(writer) = us
    BY <1>8 DEF PushApplied
  <2>2. Told' = Append(tx, f)
    BY <1>1, <1>2, <2>1 DEF Told, Pending
  <2>3. \A p : \A k \in Nat : ~InUpdate(InMaking, p, k)
    BY <1>8 DEF InUpdate, InMaking
  <2>4. \A p : \A j, k \in Nat :
          /\ InUpdates(Append(us, InMaking), p, j, k) <=> InUpdates(us, p, j, k)
          /\ InUpdates(us, p, j, k) => Append(us, InMaking)[j] = us[j]
    <3> SUFFICES ASSUME NEW p, NEW j \in Nat, NEW k \in Nat
                 PROVE  /\ InUpdates(Append(us, InMaking), p, j, k) <=> InUpdates(us, p, j, k)
                        /\ InUpdates(us, p, j, k) => Append(us, InMaking)[j] = us[j]
      OBVIOUS
    <3> HIDE DEF us
    <3>1. InUpdates(Append(us, InMaking), p, j, k) <=> InUpdates(us, p, j, k)
      BY <1>6, <2>3, MoreUpdates
    <3>2. InUpdates(us, p, j, k) => j \in 1..Len(us)
      BY DEF InUpdates
    <3>3. j \in 1..Len(us) => Append(us, InMaking)[j] = us[j]
      BY <1>6, MoreUpdates
    <3> QED
      BY <3>1, <3>2, <3>3
  <2>5. \A v, p : \A j, k \in Nat :
          /\ InDelta(d, v, p, j, k) <=> InDelta(f, v, p, j, k)
          /\ InDelta(d, v, p, j, k) =>
               EntryOf(d.updates[j], d.updates[j].values[k])
                 = EntryOf(f.updates[j], f.updates[j].values[k])
    <3> HIDE DEF us
    <3> QED
      BY <2>4 DEF InDelta
  <2> HIDE DEF d, f, us
  <2>6. \A v \in Vessels, p \in Paths : Agrees(Append(tx, f), v, p, vessels[v][p])
    BY <1>5, <1>6, <2>5, SameDelta DEF ToldInv
  <2> QED
    BY <1>1, <1>4, <2>2, <2>6 DEF ToldInv
<1> QED
  BY <1>7, <1>8

(* A value that is applied is the last to be told of its path, and it is   *)
(* what the store now has; one that is rejected is not told.               *)
LEMMA ApplyStep ==
  ASSUME TypeInv, ToldInv, ApplyValue
  PROVE  ToldInv'
<1> DEFINE head == Head(writer.updates)
           pv   == Head(writer.values)
           e    == EntryOf(head, pv)
           us   == writer.applied_updates
           vs   == writer.applied_values
<1>1. /\ writer # None /\ writer.open /\ writer.values # <<>> /\ tx' = tx
      /\ writer.updates # <<>> /\ writer' \in Frame
  BY FrameStep DEF ApplyValue
<1>2. /\ writer \in Frame /\ tx \in Seq(Delta) /\ us \in Seq(Update) /\ vs \in Seq(PathValue)
      /\ pv \in PathValue /\ head \in Update /\ writer.uri \in Vessels
  BY <1>1, PendingType
<1>3. writer.uri = ResolveContext(writer.context)
  BY <1>1 DEF ToldInv, WorkInv
<1> DEFINE d == [context |-> writer.context, updates |-> Append(us, InMaking)]
<1>4. Told = Append(tx, d)
  BY <1>1 DEF Told, Pending
<1>5. CASE vessels' = vessels /\ writer' = [writer EXCEPT !.values = Tail(@)]
  <2>1. /\ writer' # None /\ writer'.open /\ writer'.context = writer.context
        /\ writer'.uri = writer.uri /\ writer'.updates = writer.updates
        /\ writer'.applied_values = writer.applied_values
        /\ writer'.applied_updates = writer.applied_updates
    BY <1>1, <1>2, <1>5 DEF Frame
  <2>2. Told' = Told
    BY <1>1, <2>1 DEF Told, Pending, InMaking
  <2>3. WorkInv'
    BY <1>3, <2>1 DEF WorkInv
  <2> QED
    BY <1>5, <2>2, <2>3 DEF ToldInv
<1>6. CASE /\ vessels' = [vessels EXCEPT ![writer.uri][pv.path] = e]
           /\ writer' = [[writer EXCEPT !.values = Tail(@)]
                           EXCEPT !.applied_values = Append(@, pv)]
  <2> DEFINE w == [source |-> head.source, timestamp |-> head.timestamp,
                   values |-> Append(vs, pv)]
             f == [context |-> writer.context, updates |-> Append(us, w)]
             J == Len(us) + 1
             K == Len(vs) + 1
  <2>1. /\ writer' # None /\ writer'.open /\ writer'.context = writer.context
        /\ writer'.uri = writer.uri /\ writer'.updates = writer.updates
        /\ writer'.applied_updates = us
    BY <1>1, <1>2, <1>6 DEF Frame
  <2>2. writer'.applied_values = Append(vs, pv)
    <3> HIDE DEF pv
    <3> QED
      BY <1>2, <1>6 DEF Frame
  <2>3. WorkInv'
    BY <1>3, <2>1 DEF WorkInv
  <2>4. Told' = Append(tx, f)
    <3>1. InMaking' = w
      <4> HIDE DEF pv
      <4> QED
        BY <2>1, <2>2 DEF InMaking
    <3> HIDE DEF w
    <3> QED
      BY <1>1, <2>1, <3>1 DEF Told, Pending
  <2>5. J \in Nat /\ K \in Nat
    BY <1>2
  <2>6. /\ \A p : \A k \in Nat : InUpdate(w, p, k)
             <=> InUpdate(InMaking, p, k) \/ (k = K /\ pv.path = p)
        /\ \A k \in 1..Len(vs) : EntryOf(w, w.values[k]) = EntryOf(InMaking, InMaking.values[k])
        /\ EntryOf(w, w.values[K]) = EntryOf(InMaking, pv)
    <3>1. InMaking.values = vs /\ Grown(InMaking, w, pv)
      <4> HIDE DEF pv
      <4> QED
        BY <1>2 DEF InMaking, Grown
    <3> HIDE DEF w, pv, vs
    <3> QED
      BY <1>2, <3>1, MoreValues
  <2>7. \A p : \A k \in Nat : InUpdate(InMaking, p, k) => k \in 1..Len(vs)
    BY DEF InUpdate, InMaking
  <2>8. EntryOf(InMaking, pv) = e
    <3> HIDE DEF pv
    <3> QED
      BY DEF EntryOf, InMaking
  <2> HIDE DEF w, e, pv, us, vs, head
  <2>9. \A p : \A j, k \in Nat :
          /\ InUpdates(Append(us, w), p, j, k)
               <=> InUpdates(us, p, j, k) \/ (j = J /\ InUpdate(w, p, k))
          /\ InUpdates(Append(us, InMaking), p, j, k)
               <=> InUpdates(us, p, j, k) \/ (j = J /\ InUpdate(InMaking, p, k))
    BY <1>2, MoreUpdates
  <2>10. \A j \in 1..Len(us) : Append(us, w)[j] = Append(us, InMaking)[j]
    <3> SUFFICES ASSUME NEW j \in 1..Len(us)
                 PROVE  Append(us, w)[j] = Append(us, InMaking)[j]
      OBVIOUS
    <3>1. j \in Nat /\ j \in 1..Len(us)
      BY <1>2
    <3>2. Append(us, w)[j] = us[j]
      BY <1>2, <3>1, MoreUpdates
    <3>3. Append(us, InMaking)[j] = us[j]
      BY <1>2, <3>1, MoreUpdates
    <3> QED
      BY <3>2, <3>3
  <2>11. Append(us, w)[J] = w /\ Append(us, InMaking)[J] = InMaking
    BY <1>2
  <2>12. \A p : \A j, k \in Nat : InUpdates(us, p, j, k) => j \in 1..Len(us) /\ j < J
    BY <1>2 DEF InUpdates
  <2>13. \A v, p : \A j, k \in Nat :
           InDelta(f, v, p, j, k)
             <=> \/ InDelta(d, v, p, j, k)
                 \/ j = J /\ k = K /\ v = writer.uri /\ p = pv.path
    <3> HIDE DEF J, K
    <3> QED
      BY <1>3, <2>6, <2>9 DEF InDelta
  <2>14. \A v, p : \A j, k \in Nat : InDelta(d, v, p, j, k) =>
           /\ j < J \/ (j = J /\ k < K)
           /\ EntryOf(d.updates[j], d.updates[j].values[k])
                = EntryOf(f.updates[j], f.updates[j].values[k])
    <3> SUFFICES ASSUME NEW v, NEW p, NEW j \in Nat, NEW k \in Nat, InDelta(d, v, p, j, k)
                 PROVE  /\ j < J \/ (j = J /\ k < K)
                        /\ EntryOf(d.updates[j], d.updates[j].values[k])
                             = EntryOf(f.updates[j], f.updates[j].values[k])
      OBVIOUS
    <3>1. InUpdates(us, p, j, k) \/ (j = J /\ InUpdate(InMaking, p, k))
      BY <2>9 DEF InDelta
    <3>2. CASE InUpdates(us, p, j, k)
      BY <2>10, <2>12, <3>2
    <3>3. CASE j = J /\ InUpdate(InMaking, p, k)
      <4>1. k \in 1..Len(vs)
        BY <2>7, <3>3
      <4>2. k < K
        BY <1>2, <4>1
      <4> QED
        BY <2>6, <2>11, <3>3, <4>1, <4>2
    <3> QED
      BY <3>1, <3>2, <3>3
  <2>15. EntryOf(f.updates[J], f.updates[J].values[K]) = e
    BY <2>6, <2>8, <2>11
  <2>16. e # None /\ pv.path \in Paths
    BY <1>2 DEF e, EntryOf, Entry, Update, PathValue
  <2> HIDE DEF d, f, J, K
  <2>17. ASSUME NEW v \in Vessels, NEW p \in Paths
         PROVE  Agrees(Append(tx, f), v, p, vessels'[v][p])
    <3>1. Agrees(Append(tx, d), v, p, vessels[v][p])
      BY <1>4 DEF ToldInv
    <3>2. CASE v = writer.uri /\ p = pv.path
      <4>1. vessels'[v][p] = e
        BY <1>2, <1>6, <2>16, <3>2 DEF TypeInv, StoreTypeOK
      <4>2. Adds(d, f, v, p, J, K)
        BY <2>13, <2>14, <3>2 DEF Adds
      <4>3. Agrees(Append(tx, f), v, p, e)
        BY <1>2, <2>5, <2>15, <2>16, <4>2, OneMoreTold
      <4> QED
        BY <4>1, <4>3
    <3>3. CASE ~(v = writer.uri /\ p = pv.path)
      <4>1. vessels'[v][p] = vessels[v][p]
        BY <1>2, <1>6, <2>16, <3>3 DEF TypeInv, StoreTypeOK
      <4>2. \A j, k \in Nat : InDelta(d, v, p, j, k) <=> InDelta(f, v, p, j, k)
        BY <2>13, <3>3
      <4>3. \A j, k \in Nat : InDelta(d, v, p, j, k) =>
              EntryOf(d.updates[j], d.updates[j].values[k])
                = EntryOf(f.updates[j], f.updates[j].values[k])
        BY <2>14
      <4>4. Agrees(Append(tx, f), v, p, vessels[v][p])
        BY <1>2, <3>1, <4>2, <4>3, SameDelta
      <4> QED
        BY <4>1, <4>4
    <3> QED
      BY <3>2, <3>3
  <2> QED
    BY <2>3, <2>4, <2>17 DEF ToldInv
<1> QED
  BY <1>5, <1>6 DEF ApplyValue

LEMMA FinishStep ==
  ASSUME TypeInv, ToldInv, FinishDelta
  PROVE  ToldInv'
<1> DEFINE d == [context |-> writer.context, updates |-> writer.applied_updates]
<1>1. writer # None /\ writer.updates = <<>> /\ writer' = None /\ vessels' = vessels
  BY DEF FinishDelta
<1>2. Told = Append(tx, d) /\ Told' = tx'
  BY <1>1 DEF Told, Pending, TypeInv, FrameOK
<1>3. tx \in Seq(Delta)
  BY DEF TypeInv, StoreTypeOK
<1>4. CASE tx' = Append(tx, d)
  BY <1>1, <1>2, <1>4 DEF ToldInv, WorkInv
<1>5. CASE writer.applied_updates = <<>> /\ tx' = tx
  <2>1. \A v, p : \A j, k \in Nat : ~InDelta(d, v, p, j, k)
    BY <1>5 DEF InDelta, InUpdates
  <2> HIDE DEF d
  <2>2. \A v \in Vessels, p \in Paths : Agrees(tx, v, p, vessels[v][p])
    BY <1>2, <1>3, <2>1, NothingLost DEF ToldInv
  <2> QED
    BY <1>1, <1>2, <1>5, <2>2 DEF ToldInv, WorkInv
<1> QED
  BY <1>4, <1>5 DEF FinishDelta

LEMMA ToldInit == StoreInit => ToldInv
<1> SUFFICES ASSUME StoreInit PROVE ToldInv
  OBVIOUS
<1>1. Told = <<>> /\ writer = None
  BY DEF StoreInit, Told
<1>2. \A v, p : \A i, j, k \in Nat : ~InDeltas(Told, v, p, i, j, k)
  BY <1>1 DEF InDeltas
<1> QED
  BY <1>1, <1>2 DEF StoreInit, ToldInv, WorkInv, Agrees

LEMMA ToldStep == TypeInv /\ ToldInv /\ [StoreNext]_storeVars => ToldInv'
<1> SUFFICES ASSUME TypeInv, ToldInv, [StoreNext]_storeVars PROVE ToldInv'
  OBVIOUS
<1>1. ASSUME UNCHANGED <<writer, tx, vessels>> PROVE ToldInv'
  <2>1. Told' = Told
    BY <1>1 DEF Told, Pending, InMaking
  <2> QED
    BY <1>1, <2>1 DEF ToldInv, WorkInv
<1>2. ASSUME NEW m \in PriorityConfigs, SetSourcePriorities(m) PROVE ToldInv'
  BY <1>1, <1>2 DEF SetSourcePriorities
<1>3. CASE Tick \/ UNCHANGED storeVars
  BY <1>1, <1>3 DEF Tick, storeVars
<1> QED
  BY <1>2, <1>3, BeginStep, ForeignStep, RegisterStep, ApplyStep, UpdateStep, FinishStep
     DEF StoreNext

-----------------------------------------------------------------------------
(* The places of the channel are those of its list of deltas.              *)
LEMMA PlacesAre ==
  ASSUME tx \in Seq(Delta), NEW v, NEW p
  PROVE  \A a : a \in Places(v, p)
           <=> \E i, j, k \in Nat : a = <<i, j, k>> /\ InDeltas(tx, v, p, i, j, k)
<1>a. Len(tx) \in Nat /\ \A i \in 1..Len(tx) : tx[i] \in Delta
  OBVIOUS
<1>1. Len(tx) \in Nat /\ \A i \in 1..Len(tx) : tx[i].updates \in Seq(Update)
  BY <1>a DEF Delta
<1>2. \A i \in 1..Len(tx) : Len(tx[i].updates) \in Nat
  BY <1>1
<1>3. \A i \in 1..Len(tx) : \A j \in 1..Len(tx[i].updates) :
        Len(tx[i].updates[j].values) \in Nat
  <2> SUFFICES ASSUME NEW i \in 1..Len(tx), NEW j \in 1..Len(tx[i].updates)
               PROVE  Len(tx[i].updates[j].values) \in Nat
    OBVIOUS
  <2>1. tx[i].updates[j] \in Update
    BY <1>1
  <2> QED
    BY <2>1 DEF Update
<1> SUFFICES ASSUME NEW a
             PROVE  a \in Places(v, p)
                      <=> \E i, j, k \in Nat : a = <<i, j, k>> /\ InDeltas(tx, v, p, i, j, k)
  OBVIOUS
<1> DEFINE At(i, j) == {n \in 1..Len(tx[i].updates[j].values) :
                          tx[i].updates[j].values[n].path = p}
           Updates(i, j) == {<<i, j, k>> : k \in At(i, j)}
           Deltas(i) == UNION {Updates(i, j) : j \in 1..Len(tx[i].updates)}
           Of == {n \in 1..Len(tx) : ResolveContext(tx[n].context) = v}
<1>4. /\ a \in Places(v, p) <=> \E i \in Of : a \in Deltas(i)
      /\ \A i : a \in Deltas(i) <=> \E j \in 1..Len(tx[i].updates) : a \in Updates(i, j)
      /\ \A i, j : a \in Updates(i, j) <=> \E k \in At(i, j) : a = <<i, j, k>>
  <2>1. Places(v, p) = UNION {Deltas(i) : i \in Of}
    BY DEF Places
  <2>2. \A i, j : a \in Updates(i, j) <=> \E k \in At(i, j) : a = <<i, j, k>>
    OBVIOUS
  <2> HIDE DEF Updates
  <2>3. \A i : a \in Deltas(i) <=> \E j \in 1..Len(tx[i].updates) : a \in Updates(i, j)
    OBVIOUS
  <2> HIDE DEF Deltas
  <2>4. a \in Places(v, p) <=> \E i \in Of : a \in Deltas(i)
    BY <2>1
  <2> QED
    BY <2>2, <2>3, <2>4
<1> HIDE DEF Updates, Deltas
<1>5. ASSUME NEW i \in Nat, NEW j \in Nat, NEW k \in Nat
      PROVE  InDeltas(tx, v, p, i, j, k) <=>
               /\ i \in 1..Len(tx) /\ ResolveContext(tx[i].context) = v
               /\ j \in 1..Len(tx[i].updates) /\ k \in 1..Len(tx[i].updates[j].values)
               /\ tx[i].updates[j].values[k].path = p
  BY DEF InDeltas, InDelta, InUpdates, InUpdate
<1>6. ASSUME NEW i \in 1..Len(tx), NEW j \in 1..Len(tx[i].updates),
             NEW k \in 1..Len(tx[i].updates[j].values)
      PROVE  i \in Nat /\ j \in Nat /\ k \in Nat
  BY <1>1, <1>2, <1>3
<1>7. ASSUME a \in Places(v, p)
      PROVE  \E i, j, k \in Nat : a = <<i, j, k>> /\ InDeltas(tx, v, p, i, j, k)
  <2>1. PICK i \in Of : a \in Deltas(i)
    BY <1>4, <1>7
  <2>2. PICK j \in 1..Len(tx[i].updates) : a \in Updates(i, j)
    BY <1>4, <2>1
  <2>3. PICK k \in At(i, j) : a = <<i, j, k>>
    BY <1>4, <2>2
  <2>4. i \in Nat /\ j \in Nat /\ k \in Nat
    BY <1>6
  <2> QED
    BY <1>5, <2>3, <2>4
<1>8. ASSUME NEW i \in Nat, NEW j \in Nat, NEW k \in Nat,
             a = <<i, j, k>>, InDeltas(tx, v, p, i, j, k)
      PROVE  a \in Places(v, p)
  <2>1. i \in Of /\ j \in 1..Len(tx[i].updates) /\ k \in At(i, j)
    BY <1>5, <1>8
  <2> QED
    BY <1>4, <1>8, <2>1
<1> QED
  BY <1>7, <1>8

LEMMA ToldAgrees == StoreTypeOK /\ ToldInv => BroadcastAgreesWithStore
<1> SUFFICES ASSUME StoreTypeOK, ToldInv, writer = None, NEW v \in Vessels, NEW p \in Paths
             PROVE  IF vessels[v][p] = None THEN Places(v, p) = {}
                    ELSE \E a \in Places(v, p) :
                           /\ EntryAt(a) = vessels[v][p]
                           /\ \A b \in Places(v, p) \ {a} : Before(b, a)
  BY DEF BroadcastAgreesWithStore
<1>1. tx \in Seq(Delta) /\ Agrees(tx, v, p, vessels[v][p])
  BY DEF StoreTypeOK, ToldInv, Told
<1>2. CASE vessels[v][p] = None
  <2>1. \A i, j, k \in Nat : ~InDeltas(tx, v, p, i, j, k)
    BY <1>1, <1>2 DEF Agrees
  <2> QED
    BY <1>1, <1>2, <2>1, PlacesAre
<1>3. CASE vessels[v][p] # None
  <2>1. PICK i \in Nat, j \in Nat, k \in Nat :
          LastIn(tx, v, p, i, j, k) /\ ValueIn(tx, i, j, k) = vessels[v][p]
    BY <1>1, <1>3 DEF Agrees
  <2>2. <<i, j, k>> \in Places(v, p)
    BY <1>1, <2>1, PlacesAre DEF LastIn
  <2>3. EntryAt(<<i, j, k>>) = vessels[v][p]
    BY <2>1 DEF EntryAt, ValueIn
  <2>4. ASSUME NEW b \in Places(v, p) \ {<<i, j, k>>} PROVE Before(b, <<i, j, k>>)
    <3>1. PICK l \in Nat, m \in Nat, n \in Nat :
            b = <<l, m, n>> /\ InDeltas(tx, v, p, l, m, n)
      BY <1>1, PlacesAre
    <3>2. Precedes(l, m, n, i, j, k)
      BY <2>1, <3>1 DEF LastIn
    <3> QED
      BY <3>1, <3>2 DEF Before, Precedes
  <2> QED
    BY <1>3, <2>2, <2>3, <2>4
<1> QED
  BY <1>2, <1>3

(* Whatever deltas of several updates, sources and contexts arrive, with   *)
(* values that are applied and rejected among each other: a subscriber     *)
(* that saw every broadcast knows the value of every path of every vessel. *)
THEOREM StoreBroadcastAgrees == StoreSpec => []BroadcastAgreesWithStore
<1>1. TypeInv => StoreTypeOK
  BY DEF TypeInv
<1> QED
  BY <1>1, TypeInit, TypeStep, ToldInit, ToldStep, ToldAgrees, PTL DEF StoreSpec

-----------------------------------------------------------------------------
USE StreamAssumption

(* The stream.  A client has come to place <<i, u, k>> of the channel: it  *)
(* has seen the values for a path of the own vessel that lie before.       *)
Seen(ds, i, u, k, p, l, m, n) ==
  InDeltas(ds, Self, p, l, m, n) /\ Precedes(l, m, n, i, u, k)

ValueAt(ds, l, m, n) == ds[l].updates[m].values[n].value

LastSeen(ds, i, u, k, p, l, m, n) ==
  /\ Seen(ds, i, u, k, p, l, m, n)
  /\ \A a, b, e \in Nat : Seen(ds, i, u, k, p, a, b, e) =>
       (a = l /\ b = m /\ e = n) \/ Precedes(a, b, e, l, m, n)

(* x is what they say of path p: nothing, or the last of them.             *)
Tells(ds, i, u, k, p, x) ==
  \/ x = None /\ \A l, m, n \in Nat : ~Seen(ds, i, u, k, p, l, m, n)
  \/ \E l, m, n \in Nat : LastSeen(ds, i, u, k, p, l, m, n) /\ x = ValueAt(ds, l, m, n)

Owes(ds, i, u, k, p, s) ==
  s = 0 \/ \E l, m, n \in Nat : Seen(ds, i, u, k, p, l, m, n) /\ s <= l

Fits(ds, i, u, k, p, s, x) == Owes(ds, i, u, k, p, s) => Tells(ds, i, u, k, p, x)

(* Two places before which the same values lie are as good.                *)
LEMMA SameSeen ==
  ASSUME NEW ds, NEW i, NEW u, NEW k, NEW es, NEW j, NEW w, NEW q, NEW p, NEW s, NEW x,
         Fits(ds, i, u, k, p, s, x),
         \A l, m, n \in Nat : Seen(ds, i, u, k, p, l, m, n) <=> Seen(es, j, w, q, p, l, m, n),
         \A l, m, n \in Nat : Seen(ds, i, u, k, p, l, m, n) =>
                                ValueAt(ds, l, m, n) = ValueAt(es, l, m, n)
  PROVE  Fits(es, j, w, q, p, s, x)
<1> SUFFICES ASSUME Owes(es, j, w, q, p, s) PROVE Tells(es, j, w, q, p, x)
  BY DEF Fits
<1>1. Owes(ds, i, u, k, p, s)
  BY DEF Owes
<1>2. Tells(ds, i, u, k, p, x)
  BY <1>1 DEF Fits
<1>3. CASE \A l, m, n \in Nat : ~Seen(ds, i, u, k, p, l, m, n)
  BY <1>2, <1>3 DEF Tells, LastSeen
<1>4. ASSUME NEW l \in Nat, NEW m \in Nat, NEW n \in Nat,
             LastSeen(ds, i, u, k, p, l, m, n), x = ValueAt(ds, l, m, n)
      PROVE  Tells(es, j, w, q, p, x)
  <2>1. LastSeen(es, j, w, q, p, l, m, n) /\ x = ValueAt(es, l, m, n)
    BY <1>4 DEF LastSeen
  <2> QED
    BY <2>1 DEF Tells
<1> QED
  BY <1>2, <1>3, <1>4 DEF Tells

(* A client that is owed only what lies ahead fits.                        *)
LEMMA NothingOwed ==
  ASSUME NEW ds, NEW i \in Nat, NEW u, NEW k, NEW p, NEW s \in Nat, NEW x, s # 0,
         \A l, m, n \in Nat : Seen(ds, i, u, k, p, l, m, n) => l < s
  PROVE  Fits(ds, i, u, k, p, s, x)
BY DEF Fits, Owes

LEMMA OwedFromHere ==
  ASSUME NEW ds \in Seq(Delta), NEW i \in Nat, i # 0, NEW p, NEW x
  PROVE  Fits(ds, i, 1, 1, p, i, x)
<1>1. ASSUME NEW l \in Nat, NEW m \in Nat, NEW n \in Nat, Seen(ds, i, 1, 1, p, l, m, n)
      PROVE  l < i
  <2>1. m \in 1..Len(ds[l].updates) /\ n \in 1..Len(ds[l].updates[m].values)
    BY <1>1 DEF Seen, InDeltas, InDelta, InUpdates, InUpdate
  <2>2. m >= 1 /\ n >= 1
    BY <2>1
  <2> QED
    BY <1>1, <2>2 DEF Seen, Precedes
<1> QED
  BY <1>1, NothingOwed

LEMMA OwedFromNext ==
  ASSUME NEW ds, NEW i \in Nat, NEW u \in Nat, NEW k \in Nat, NEW p, NEW x
  PROVE  Fits(ds, i, u, k, p, i + 1, x)
<1>1. ASSUME NEW l \in Nat, NEW m \in Nat, NEW n \in Nat, Seen(ds, i, u, k, p, l, m, n)
      PROVE  l < i + 1
  BY <1>1 DEF Seen, Precedes
<1>2. i + 1 \in Nat /\ i + 1 # 0
  OBVIOUS
<1> QED
  BY <1>1, <1>2, NothingOwed

(* What is sent later lies ahead of every client.                          *)
LEMMA LaterLiesAhead ==
  ASSUME NEW ds \in Seq(Delta), NEW d, NEW p \in Paths, NEW i \in Nat, NEW u \in Nat,
         NEW k \in Nat, NEW s, NEW x,
         i <= Len(ds) \/ (i = Len(ds) + 1 /\ u = 1 /\ k = 1),
         Fits(ds, i, u, k, p, s, x)
  PROVE  Fits(Append(ds, d), i, u, k, p, s, x)
<1> DEFINE es == Append(ds, d)
<1>1. ASSUME NEW l \in Nat, NEW m \in Nat, NEW n \in Nat
      PROVE  /\ Seen(ds, i, u, k, p, l, m, n) <=> Seen(es, i, u, k, p, l, m, n)
             /\ Seen(ds, i, u, k, p, l, m, n) => ValueAt(ds, l, m, n) = ValueAt(es, l, m, n)
  <2>1. InDeltas(es, Self, p, l, m, n)
          <=> InDeltas(ds, Self, p, l, m, n) \/ (l = Len(ds) + 1 /\ InDelta(d, Self, p, m, n))
    BY MoreDeltas
  <2>2. ASSUME l = Len(ds) + 1, InDelta(d, Self, p, m, n) PROVE ~Precedes(l, m, n, i, u, k)
    <3>1. m \in 1..Len(d.updates) /\ n \in 1..Len(d.updates[m].values)
      BY <2>2 DEF InDelta, InUpdates, InUpdate
    <3>2. m >= 1 /\ n >= 1 /\ Len(ds) \in Nat
      BY <3>1
    <3> QED
      BY <2>2, <3>2 DEF Precedes
  <2>3. InDeltas(ds, Self, p, l, m, n) => ds[l] = es[l]
    BY DEF InDeltas
  <2> HIDE DEF es
  <2> QED
    BY <2>1, <2>2, <2>3 DEF Seen, ValueAt
<1> HIDE DEF es
<1>2. Fits(es, i, u, k, p, s, x)
  BY <1>1, SameSeen
<1> QED
  BY <1>2 DEF es

(* The places a client passes between two values.                          *)
LEMMA NextUpdateSame ==
  ASSUME NEW ds, NEW i \in Nat, NEW u \in Nat, NEW k \in Nat, NEW p \in Paths, NEW s, NEW x,
         Len(ds[i].updates[u].values) \in Nat, k > Len(ds[i].updates[u].values),
         Fits(ds, i, u, k, p, s, x)
  PROVE  Fits(ds, i, u + 1, 1, p, s, x)
<1>1. ASSUME NEW l \in Nat, NEW m \in Nat, NEW n \in Nat
      PROVE  /\ Seen(ds, i, u, k, p, l, m, n) <=> Seen(ds, i, u + 1, 1, p, l, m, n)
             /\ Seen(ds, i, u, k, p, l, m, n) => ValueAt(ds, l, m, n) = ValueAt(ds, l, m, n)
  <2>1. ASSUME InDeltas(ds, Self, p, l, m, n)
        PROVE  Precedes(l, m, n, i, u, k) <=> Precedes(l, m, n, i, u + 1, 1)
    <3>1. n \in 1..Len(ds[l].updates[m].values)
      BY <2>1 DEF InDeltas, InDelta, InUpdates, InUpdate
    <3>2. n >= 1 /\ ((l = i /\ m = u) => n < k)
      BY <3>1
    <3> QED
      BY <3>2 DEF Precedes
  <2> QED
    BY <2>1 DEF Seen
<1> QED
  BY <1>1, SameSeen

LEMMA NextDeltaSame ==
  ASSUME NEW ds, NEW i \in Nat, NEW u \in Nat, NEW k \in Nat, NEW p \in Paths, NEW s, NEW x,
         Len(ds[i].updates) \in Nat, u > Len(ds[i].updates),
         Fits(ds, i, u, k, p, s, x)
  PROVE  Fits(ds, i + 1, 1, 1, p, s, x)
<1>1. ASSUME NEW l \in Nat, NEW m \in Nat, NEW n \in Nat
      PROVE  /\ Seen(ds, i, u, k, p, l, m, n) <=> Seen(ds, i + 1, 1, 1, p, l, m, n)
             /\ Seen(ds, i, u, k, p, l, m, n) => ValueAt(ds, l, m, n) = ValueAt(ds, l, m, n)
  <2>1. ASSUME InDeltas(ds, Self, p, l, m, n)
        PROVE  Precedes(l, m, n, i, u, k) <=> Precedes(l, m, n, i + 1, 1, 1)
    <3>1. m \in 1..Len(ds[l].updates) /\ n \in 1..Len(ds[l].updates[m].values)
      BY <2>1 DEF InDeltas, InDelta, InUpdates, InUpdate
    <3>2. m >= 1 /\ n >= 1 /\ (l = i => m < u)
      BY <3>1
    <3> QED
      BY <3>2 DEF Precedes
  <2> QED
    BY <2>1 DEF Seen
<1> QED
  BY <1>1, SameSeen

(* A value that is not for path p of the own vessel changes nothing.       *)
LEMMA OtherValue ==
  ASSUME NEW ds, NEW i \in Nat, NEW u \in Nat, NEW k \in Nat, NEW p \in Paths, NEW s, NEW x,
         ~InDeltas(ds, Self, p, i, u, k),
         Fits(ds, i, u, k, p, s, x)
  PROVE  Fits(ds, i, u, k + 1, p, s, x)
<1>1. ASSUME NEW l \in Nat, NEW m \in Nat, NEW n \in Nat
      PROVE  /\ Seen(ds, i, u, k, p, l, m, n) <=> Seen(ds, i, u, k + 1, p, l, m, n)
             /\ Seen(ds, i, u, k, p, l, m, n) => ValueAt(ds, l, m, n) = ValueAt(ds, l, m, n)
  BY DEF Seen, Precedes
<1> QED
  BY <1>1, SameSeen

(* A client that shows the value it has come to fits behind it.            *)
LEMMA ThisValue ==
  ASSUME NEW ds, NEW i \in Nat, NEW u \in Nat, NEW k \in Nat, NEW p \in Paths, NEW s, NEW x,
         InDeltas(ds, Self, p, i, u, k), x = ValueAt(ds, i, u, k)
  PROVE  Fits(ds, i, u, k + 1, p, s, x)
<1>1. Seen(ds, i, u, k + 1, p, i, u, k)
  BY DEF Seen, Precedes
<1>2. ASSUME NEW a \in Nat, NEW b \in Nat, NEW e \in Nat, Seen(ds, i, u, k + 1, p, a, b, e)
      PROVE  (a = i /\ b = u /\ e = k) \/ Precedes(a, b, e, i, u, k)
  BY <1>2 DEF Seen, Precedes
<1>3. LastSeen(ds, i, u, k + 1, p, i, u, k)
  BY <1>1, <1>2 DEF LastSeen
<1> QED
  BY <1>3 DEF Tells, Fits

(* A client that shows the store's value when it goes live fits, and one   *)
(* that fits and has come to the end shows it.                             *)
Shows(x, e) == x = IF e = None THEN None ELSE e.value

LEMMA AtTheEnd ==
  ASSUME NEW ds \in Seq(Delta), NEW p \in Paths, NEW l \in Nat, NEW m \in Nat, NEW n \in Nat
  PROVE  Seen(ds, Len(ds) + 1, 1, 1, p, l, m, n) <=> InDeltas(ds, Self, p, l, m, n)
BY DEF Seen, InDeltas, Precedes

LEMMA LiveFits ==
  ASSUME NEW ds \in Seq(Delta), NEW p \in Paths, NEW s, NEW x, NEW e,
         Agrees(ds, Self, p, e), Shows(x, e)
  PROVE  Fits(ds, Len(ds) + 1, 1, 1, p, s, x)
<1>1. CASE e = None
  BY <1>1, AtTheEnd DEF Agrees, Shows, Fits, Tells
<1>2. CASE e # None
  <2>1. PICK l \in Nat, m \in Nat, n \in Nat :
          LastIn(ds, Self, p, l, m, n) /\ ValueIn(ds, l, m, n) = e
    BY <1>2 DEF Agrees
  <2>2. LastSeen(ds, Len(ds) + 1, 1, 1, p, l, m, n)
    BY <2>1, AtTheEnd DEF LastIn, LastSeen
  <2>3. x = ValueAt(ds, l, m, n)
    BY <1>2, <2>1 DEF Shows, ValueIn, ValueAt, EntryOf
  <2> QED
    BY <2>2, <2>3 DEF Fits, Tells
<1> QED
  BY <1>1, <1>2

LEMMA FitsShows ==
  ASSUME NEW ds \in Seq(Delta), NEW p \in Paths, NEW s, NEW x, NEW e,
         Agrees(ds, Self, p, e), Fits(ds, Len(ds) + 1, 1, 1, p, s, x),
         s = 0 \/ \E l, m, n \in Nat : InDeltas(ds, Self, p, l, m, n) /\ s <= l
  PROVE  Shows(x, e)
<1>1. Tells(ds, Len(ds) + 1, 1, 1, p, x)
  BY AtTheEnd DEF Fits, Owes
<1>2. CASE e = None
  BY <1>1, <1>2, AtTheEnd DEF Agrees, Shows, Tells, LastSeen
<1>3. CASE e # None
  <2>1. PICK l \in Nat, m \in Nat, n \in Nat :
          LastIn(ds, Self, p, l, m, n) /\ ValueIn(ds, l, m, n) = e
    BY <1>3 DEF Agrees
  <2>2. Seen(ds, Len(ds) + 1, 1, 1, p, l, m, n)
    BY <2>1, AtTheEnd DEF LastIn
  <2>3. PICK a \in Nat, b \in Nat, f \in Nat :
          LastSeen(ds, Len(ds) + 1, 1, 1, p, a, b, f) /\ x = ValueAt(ds, a, b, f)
    BY <1>1, <2>2 DEF Tells
  <2>4. InDeltas(ds, Self, p, a, b, f)
    BY <2>3 DEF LastSeen, Seen
  <2>5. (a = l /\ b = m /\ f = n) \/ Precedes(a, b, f, l, m, n)
    BY <2>1, <2>4 DEF LastIn
  <2>6. (l = a /\ m = b /\ n = f) \/ Precedes(l, m, n, a, b, f)
    BY <2>2, <2>3 DEF LastSeen
  <2>7. a = l /\ b = m /\ f = n
    BY <2>5, <2>6 DEF Precedes
  <2> QED
    BY <1>3, <2>1, <2>3, <2>7 DEF Shows, ValueIn, ValueAt, EntryOf
<1> QED
  BY <1>2, <1>3

-----------------------------------------------------------------------------
(* The own state of a client task: the lock it holds keeps writers out,    *)
(* what it was told begins blank, a filter call has begun.                 *)
LocalInv(c) ==
  /\ HoldsRead(c) => writer = None
  /\ phase[c] # "live" => view[c] = Blank
  /\ job[c] # None => /\ phase[c] \in {"cached", "live"}
                      /\ job[c].update >= 1
                      /\ job[c].value >= 1
  /\ phase[c] = "cached" => job[c] # None
  /\ \A k \in DOMAIN subscriptions[c] :
       LET t == subscriptions[c][k].last_sent IN t = None \/ t <= now

(* A value for path p is still ahead in the filter call.                   *)
Ahead(c, p) ==
  \E u \in 1..Len(job[c].lists) : \E i \in 1..Len(job[c].lists[u]) :
    /\ job[c].lists[u][i].path = p
    /\ u > job[c].update \/ (u = job[c].update /\ i >= job[c].value)

(* The cached values are the store's; a path the client is owed has been   *)
(* taken over or is ahead.                                                 *)
CachedInv(c) ==
  phase[c] = "cached" =>
    /\ job[c].context = Self
    /\ \A u \in 1..Len(job[c].lists) : \A i \in 1..Len(job[c].lists[u]) :
         Shows(job[c].lists[u][i].value, vessels[Self][job[c].lists[u][i].path])
    /\ \A p \in Paths : since[c][p] \in {0, Len(tx) + 1}
    /\ \A p \in Covered(c) :
         since[c][p] = 0 => Ahead(c, p) \/ Shows(job[c].shown[p], vessels[Self][p])

(* A live client fits at the place of the channel it has come to.          *)
LiveInv(c) ==
  phase[c] = "live" =>
    /\ job[c] # None =>
         /\ next[c] >= 2
         /\ job[c].context = ResolveContext(tx[next[c] - 1].context)
         /\ job[c].lists = ValuesOf(tx[next[c] - 1].updates)
    /\ \A p \in Covered(c) :
         IF job[c] = None THEN Fits(tx, next[c], 1, 1, p, since[c][p], view[c][Self][p])
         ELSE Fits(tx, next[c] - 1, job[c].update, job[c].value, p, since[c][p],
                   IF job[c].context = Self THEN job[c].shown[p] ELSE view[c][Self][p])

ClientInv(c) == LocalInv(c) /\ CachedInv(c) /\ LiveInv(c)

StreamInv == StreamTypeOK /\ ClientCountExact /\ \A c \in Clients : ClientInv(c)

LEMMA StreamInitInv == StreamInit => StreamInv
<1> SUFFICES ASSUME StreamInit PROVE StreamInv
  OBVIOUS
<1>1. StreamTypeOK
  BY DEF StreamInit, StoreInit, StreamTypeOK, InitialSubscriptions, Blank
<1>2. ClientCountExact
  <2>1. {c \in Clients : Connected(c)} = {}
    BY DEF StreamInit, Connected
  <2> QED
    BY <2>1, FS_EmptySet DEF ClientCountExact, StreamInit
<1>3. \A c \in Clients : ClientInv(c)
  BY DEF StreamInit, ClientInv, LocalInv, CachedInv, LiveInv, HoldsRead, InitialSubscriptions
<1> QED
  BY <1>1, <1>2, <1>3 DEF StreamInv

(* What a step of another client leaves alone.                             *)
SameClient(c) ==
  /\ phase'[c] = phase[c] /\ subscriptions'[c] = subscriptions[c] /\ next'[c] = next[c]
  /\ job'[c] = job[c] /\ view'[c] = view[c] /\ since'[c] = since[c]

LEMMA OtherClient ==
  ASSUME NEW c \in Clients, ClientInv(c), SameClient(c), UNCHANGED storeVars
  PROVE  ClientInv(c)'
<1> USE DEF SameClient, storeVars
<1>1. Covered(c)' = Covered(c)
  BY DEF Covered
<1>2. \A p : Ahead(c, p)' <=> Ahead(c, p)
  BY DEF Ahead
<1>3. LocalInv(c)'
  BY DEF ClientInv, LocalInv, HoldsRead
<1>4. CachedInv(c)'
  BY <1>1, <1>2 DEF ClientInv, CachedInv
<1>5. LiveInv(c)'
  BY <1>1 DEF ClientInv, LiveInv
<1> QED
  BY <1>3, <1>4, <1>5 DEF ClientInv

(* The client counter of a step that opens or closes no socket.            *)
LEMMA SameCount ==
  ASSUME ClientCountExact, ws_client_count' = ws_client_count,
         \A c \in Clients : phase'[c] = "off" <=> phase[c] = "off"
  PROVE  ClientCountExact'
<1>1. {c \in Clients : Connected(c)}' = {c \in Clients : Connected(c)}
  BY DEF Connected
<1> QED
  BY <1>1 DEF ClientCountExact

(* A step of client c.                                                     *)
LEMMA OneClient ==
  ASSUME StreamInv, NEW c \in Clients, UNCHANGED storeVars,
         \A d \in Clients : d # c => SameClient(d),
         StreamTypeOK', ClientCountExact', ClientInv(c)'
  PROVE  StreamInv'
<1>1. ASSUME NEW d \in Clients PROVE ClientInv(d)'
  <2>1. CASE d # c
    BY <2>1, OtherClient DEF StreamInv
  <2> QED
    BY <2>1
<1> QED
  BY <1>1 DEF StreamInv

LEMMA ConnectStep ==
  ASSUME StreamInv, NEW c \in Clients, NEW m \in Modes, Connect(c, m)
  PROVE  StreamInv'
<1> USE DEF Connect, StreamInv
<1>1. /\ phase' = [phase EXCEPT ![c] = "waiting"] /\ phase[c] = "off"
      /\ UNCHANGED <<subscriptions, next, job, view, since, storeVars>>
  OBVIOUS
<1>2. StreamTypeOK'
  BY DEF StreamTypeOK, storeVars
<1>3. \A d \in Clients : d # c => SameClient(d)
  BY <1>1 DEF SameClient, StreamTypeOK
<1>4. ClientCountExact'
  <2> DEFINE S == {d \in Clients : Connected(d)}
  <2>1. S' = S \cup {c} /\ c \notin S
    BY <1>1 DEF Connected, StreamTypeOK
  <2>2. IsFiniteSet(S) /\ Cardinality(S) \in Nat
    BY FS_Subset, FS_CardinalityType
  <2> HIDE DEF S
  <2>3. Cardinality(S') = Cardinality(S) + 1
    BY <2>1, <2>2, FS_AddElement
  <2> QED
    BY <2>3 DEF ClientCountExact, S
<1>5. phase'[c] = "waiting" /\ view[c] = Blank /\ job[c] = None
  <2>1. job[c] = None /\ view[c] = Blank
    BY <1>1 DEF ClientInv, LocalInv
  <2> QED
    BY <1>1, <2>1 DEF StreamTypeOK
<1>6. ClientInv(c)'
  BY <1>1, <1>5 DEF ClientInv, LocalInv, CachedInv, LiveInv, HoldsRead, storeVars
<1> QED
  BY <1>1, <1>2, <1>3, <1>4, <1>6, OneClient

LEMMA LockStep ==
  ASSUME StreamInv, NEW c \in Clients, LockStore(c)
  PROVE  StreamInv'
<1> USE DEF StreamInv, LockStore
<1>1. StreamTypeOK'
  BY DEF StreamTypeOK, storeVars
<1>2. \A d \in Clients : d # c => SameClient(d)
  BY DEF SameClient, StreamTypeOK
<1>3. phase'[c] = "hello"
  BY DEF StreamTypeOK
<1>4. ClientCountExact'
  BY <1>3, SameCount DEF StreamTypeOK
<1>5. job[c] = None
  BY DEF ClientInv, LocalInv
<1>6. ClientInv(c)'
  BY <1>3, <1>5 DEF ClientInv, LocalInv, CachedInv, LiveInv, HoldsRead, storeVars
<1> QED
  BY <1>1, <1>2, <1>4, <1>6, OneClient

LEMMA HangUpStep ==
  ASSUME StreamInv, NEW c \in Clients, phase[c] # "off", HangUp(c)
  PROVE  StreamInv'
<1> USE DEF StreamInv, HangUp
<1>1. UNCHANGED storeVars
  OBVIOUS
<1>2. StreamTypeOK'
  BY DEF StreamTypeOK, storeVars, InitialSubscriptions, Blank
<1>3. \A d \in Clients : d # c => SameClient(d)
  BY DEF SameClient, StreamTypeOK
<1>4. phase'[c] = "off" /\ job'[c] = None /\ view'[c] = Blank
      /\ subscriptions'[c] = InitialSubscriptions("none")
  BY DEF StreamTypeOK
<1>5. ClientCountExact'
  <2> DEFINE S == {d \in Clients : Connected(d)}
  <2>1. S' = S \ {c} /\ c \in S
    BY <1>4 DEF Connected, StreamTypeOK
  <2>2. IsFiniteSet(S)
    BY FS_Subset
  <2> HIDE DEF S
  <2>3. Cardinality(S') = Cardinality(S) - 1
    BY <2>1, <2>2, FS_RemoveElement
  <2> QED
    BY <2>3 DEF ClientCountExact, S
<1>6. ClientInv(c)'
  BY <1>4 DEF ClientInv, LocalInv, CachedInv, LiveInv, HoldsRead, InitialSubscriptions
<1> QED
  BY <1>1, <1>2, <1>3, <1>5, <1>6, OneClient

(* Before it has sent anything, a subscription wants whatever it matches.  *)
LEMMA InitialType ==
  ASSUME NEW m \in {"self", "all", "none"}
  PROVE  /\ DOMAIN InitialSubscriptions(m) \subseteq Keys
         /\ \A k \in DOMAIN InitialSubscriptions(m) :
              /\ InitialSubscriptions(m)[k] \in ActiveSubscription
              /\ InitialSubscriptions(m)[k].last_sent = None
         /\ m = "none" => DOMAIN InitialSubscriptions(m) = {}
BY DEF InitialSubscriptions, NewSubscription, ActiveSubscription, Keys, Policies

(* The cached values are those of all paths that have one.                 *)
LEMMA OrderIsWhole ==
  ASSUME NEW S \in SUBSET Paths, NEW order \in SetToSeqs(S)
  PROVE  /\ Cardinality(S) \in Nat
         /\ order \in [1..Cardinality(S) -> S]
         /\ \A p \in S : \E i \in 1..Cardinality(S) : order[i] = p
<1>1. IsFiniteSet(S) /\ Cardinality(S) \in Nat
  BY FS_Subset, FS_CardinalityType
<1> DEFINE D == 1..Cardinality(S)
<1>2. order \in Injection(D, S)
  BY DEF SetToSeqs, Injection, IsInjective
<1>3. IsFiniteSet(D) /\ Cardinality(D) = Cardinality(S)
  BY <1>1, FS_Interval
<1>4. order \in Surjection(D, S)
  BY <1>1, <1>2, <1>3, FS_Injection
<1> QED
  BY <1>1, <1>2, <1>4 DEF Surjection, Injection

LEMMA HelloStep ==
  ASSUME TypeInv, StreamInv, NEW c \in Clients, HelloSent(c)
  PROVE  StreamInv'
<1> DEFINE self == {p \in Paths : vessels[Self][p] # None}
<1>1. PICK order \in SetToSeqs(self), cached \in BOOLEAN :
        LET values == [i \in 1..Cardinality(self) |->
              [path |-> order[i], value |-> vessels[Self][order[i]].value]]
            sends == cached /\ mode[c] # "none"
        IN  /\ subscriptions' = [subscriptions EXCEPT ![c] = InitialSubscriptions(mode[c])]
            /\ Filter(c, Self, IF sends THEN <<values>> ELSE <<>>)
            /\ since' = [since EXCEPT ![c] =
                 [p \in Paths |-> IF sends THEN 0 ELSE Len(tx) + 1]]
  BY DEF HelloSent
<1> DEFINE N == Cardinality(self)
           values == [i \in 1..N |->
              [path |-> order[i], value |-> vessels[Self][order[i]].value]]
           sends == cached /\ mode[c] # "none"
           lists == IF sends THEN <<values>> ELSE <<>>
           call == [context |-> Self, lists |-> lists, update |-> 1, value |-> 1,
                    shown |-> view[c][Self], matched |-> FALSE]
<1>2. /\ subscriptions' = [subscriptions EXCEPT ![c] = InitialSubscriptions(mode[c])]
      /\ job' = [job EXCEPT ![c] = call]
      /\ since' = [since EXCEPT ![c] = [p \in Paths |-> IF sends THEN 0 ELSE Len(tx) + 1]]
  BY <1>1 DEF Filter
<1>3. /\ phase[c] = "hello" /\ phase' = [phase EXCEPT ![c] = "cached"]
      /\ UNCHANGED <<mode, next, view, ws_client_count, connects, storeVars>>
  BY DEF HelloSent
<1>4. /\ N \in Nat /\ order \in [1..N -> self] /\ \A p \in self : \E i \in 1..N : order[i] = p
  BY OrderIsWhole
<1>5. /\ vessels \in [Vessels -> [Paths -> Entry \cup {None}]] /\ Self \in Vessels
      /\ tx \in Seq(Delta) /\ Len(tx) \in Nat /\ mode[c] \in {"self", "all", "none"}
      /\ view[c] \in [Views -> [Paths -> Vals \cup {None}]] /\ Self \in Views
  <2>1. vessels \in [Vessels -> [Paths -> Entry \cup {None}]] /\ tx \in Seq(Delta)
    BY DEF TypeInv, StoreTypeOK
  <2>2. mode[c] \in {"self", "all", "none"} /\ view[c] \in [Views -> [Paths -> Vals \cup {None}]]
    BY DEF StreamInv, StreamTypeOK
  <2> QED
    BY <2>1, <2>2 DEF Views
<1>6. \A i \in 1..N : /\ order[i] \in Paths /\ vessels[Self][order[i]] # None
                      /\ vessels[Self][order[i]] \in Entry
  BY <1>4, <1>5
<1>7. values \in Seq(PathValue) /\ Len(values) = N
  <2>1. \A i \in 1..N : [path |-> order[i], value |-> vessels[Self][order[i]].value] \in PathValue
    BY <1>6 DEF PathValue, Entry
  <2> HIDE DEF N
  <2> QED
    BY <1>4, <2>1
<1>8. \A i \in 1..N : values[i].path = order[i] /\ values[i].value = vessels[Self][order[i]].value
  OBVIOUS
<1> HIDE DEF N, values, sends
<1>9. lists \in Seq(Seq(PathValue))
  BY <1>7
<1>10. view[c] = Blank /\ writer = None
  BY <1>3 DEF StreamInv, ClientInv, LocalInv, HoldsRead
<1>11. call \in FilterCall
  BY <1>5, <1>9 DEF FilterCall
<1>12. StreamTypeOK'
  <2>1. \A p \in Paths : (IF sends THEN 0 ELSE Len(tx) + 1) \in 0..(Len(tx) + 1)
    BY <1>5
  <2> HIDE DEF call
  <2>2. /\ job' \in [Clients -> FilterCall \cup {None}]
        /\ since' \in [Clients -> [Paths -> 0..(Len(tx') + 1)]]
        /\ phase' \in [Clients -> {"off", "waiting", "hello", "cached", "live"}]
    BY <1>2, <1>3, <1>11, <2>1 DEF StreamInv, StreamTypeOK, storeVars
  <2>3. /\ DOMAIN subscriptions' = Clients
        /\ \A d \in Clients :
             /\ DOMAIN subscriptions'[d] \subseteq Keys
             /\ \A k \in DOMAIN subscriptions'[d] :
                  subscriptions'[d][k] \in ActiveSubscription
    <3>1. ASSUME NEW d \in Clients
          PROVE  /\ DOMAIN subscriptions'[d] \subseteq Keys
                 /\ \A k \in DOMAIN subscriptions'[d] :
                      subscriptions'[d][k] \in ActiveSubscription
      <4>1. CASE d = c
        BY <1>2, <1>5, <4>1, InitialType DEF StreamInv, StreamTypeOK
      <4>2. CASE d # c
        BY <1>2, <4>2 DEF StreamInv, StreamTypeOK
      <4> QED
        BY <4>1, <4>2
    <3> QED
      BY <1>2, <3>1 DEF StreamInv, StreamTypeOK
  <2> QED
    BY <1>3, <2>2, <2>3 DEF StreamInv, StreamTypeOK, storeVars
<1>13. \A d \in Clients : d # c => SameClient(d)
  BY <1>2, <1>3 DEF SameClient, StreamInv, StreamTypeOK
<1>14. /\ phase'[c] = "cached" /\ job'[c] = call /\ job'[c] # None
       /\ subscriptions'[c] = InitialSubscriptions(mode[c]) /\ view'[c] = Blank
       /\ \A p \in Paths : since'[c][p] = IF sends THEN 0 ELSE Len(tx) + 1
  BY <1>2, <1>3, <1>10, <1>11 DEF StreamInv, StreamTypeOK
<1>15. ClientCountExact'
  BY <1>3, <1>14, SameCount DEF StreamInv, StreamTypeOK
<1>16. LocalInv(c)'
  <2>1. \A k \in DOMAIN subscriptions'[c] : subscriptions'[c][k].last_sent = None
    BY <1>5, <1>14, InitialType
  <2> QED
    BY <1>3, <1>10, <1>14, <2>1 DEF LocalInv, HoldsRead, storeVars
<1>17. CachedInv(c)'
  <2>1. /\ job'[c].context = Self /\ job'[c].lists = lists /\ job'[c].update = 1
        /\ job'[c].value = 1 /\ job'[c].shown = Blank[Self]
    BY <1>10, <1>14
  <2>2. tx' = tx /\ vessels' = vessels
    BY <1>3 DEF storeVars
  <2>3. \A u \in 1..Len(lists) : \A i \in 1..Len(lists[u]) :
          Shows(lists[u][i].value, vessels[Self][lists[u][i].path])
    <3> SUFFICES ASSUME NEW u \in 1..Len(lists), NEW i \in 1..Len(lists[u])
                 PROVE  Shows(lists[u][i].value, vessels[Self][lists[u][i].path])
      OBVIOUS
    <3>1. lists[u] = values
      OBVIOUS
    <3>2. i \in 1..N
      BY <1>7, <3>1
    <3> QED
      BY <1>6, <1>8, <3>1, <3>2 DEF Shows
  <2>4. ASSUME NEW p \in Paths, since'[c][p] = 0
        PROVE  Ahead(c, p)' \/ Shows(Blank[Self][p], vessels[Self][p])
    <3>1. sends
      BY <1>5, <1>14, <2>4
    <3>2. CASE vessels[Self][p] = None
      BY <1>5, <3>2 DEF Shows, Blank
    <3>3. CASE vessels[Self][p] # None
      <4>1. PICK i \in 1..N : order[i] = p
        BY <1>4, <3>3
      <4>2. Len(lists) = 1 /\ lists[1] = values
        BY <3>1
      <4>3. i \in 1..Len(lists[1]) /\ lists[1][i].path = p /\ 1 \in 1..Len(lists) /\ i >= 1
        BY <1>4, <1>7, <1>8, <4>1, <4>2
      <4> HIDE DEF lists
      <4> QED
        BY <2>1, <4>3 DEF Ahead
    <3> QED
      BY <3>2, <3>3
  <2>5. \A p \in Covered(c)' : p \in Paths
    BY DEF Covered
  <2>6. \A p \in Paths : since'[c][p] \in {0, Len(tx) + 1}
    BY <1>14
  <2> HIDE DEF lists
  <2> QED
    BY <2>1, <2>2, <2>3, <2>4, <2>5, <2>6 DEF CachedInv
<1>18. LiveInv(c)'
  BY <1>14 DEF LiveInv
<1> QED
  BY <1>3, <1>12, <1>13, <1>15, <1>16, <1>17, <1>18, OneClient DEF ClientInv

(* A subscription without a minimal period withholds nothing but what it   *)
(* takes for a repeat.                                                     *)
LEMMA OnlyRepeats ==
  ASSUME NEW sub \in ActiveSubscription, NEW path, NEW value, Prompt(sub),
         path \in sub.pattern, sub.last_sent = None \/ sub.last_sent <= now, now \in Nat,
         ~ShouldDeliver(sub, path, value)
  PROVE  sub.policy = "ideal" /\ sub.last_value = value
<1>1. sub.policy \in {"instant", "ideal"} /\ sub.min_period = 0
  BY DEF Prompt, ActiveSubscription, Policies
<1>2. Elapsed(sub, 0)
  <2>1. sub.last_sent \in 0..MaxTime \cup {None}
    BY DEF ActiveSubscription
  <2> QED
    BY <2>1, StoreAssumption DEF Elapsed
<1> QED
  BY <1>1, <1>2 DEF ShouldDeliver

LEMMA CallType ==
  ASSUME NEW call \in FilterCall
  PROVE  /\ Withheld(call) \in FilterCall
         /\ Withheld(call).context = call.context /\ Withheld(call).lists = call.lists
         /\ Withheld(call).update = call.update /\ Withheld(call).value = call.value + 1
         /\ Withheld(call).shown = call.shown
         /\ Through(call) \in FilterCall
         /\ Through(call).context = call.context /\ Through(call).lists = call.lists
         /\ Through(call).update = call.update + 1 /\ Through(call).value = 1
         /\ Through(call).shown = call.shown
         /\ \A pv : pv.path \in Paths /\ pv.value \in Vals =>
              /\ Taken(call, pv) \in FilterCall
              /\ Taken(call, pv).context = call.context /\ Taken(call, pv).lists = call.lists
              /\ Taken(call, pv).update = call.update
              /\ Taken(call, pv).value = call.value + 1
              /\ Taken(call, pv).shown = [call.shown EXCEPT ![pv.path] = pv.value]
<1>1. /\ call.value + 1 \in Nat /\ call.update + 1 \in Nat
      /\ call.shown \in [Paths -> Vals \cup {None}]
  BY DEF FilterCall
<1>2. ASSUME NEW pv, pv.path \in Paths, pv.value \in Vals
      PROVE  [call.shown EXCEPT ![pv.path] = pv.value] \in [Paths -> Vals \cup {None}]
  BY <1>1, <1>2
<1> QED
  BY <1>1, <1>2 DEF FilterCall, Withheld, Through, Taken

(* The value a filter call has come to.                                    *)
Current(c) == job[c].lists[job[c].update][job[c].value]

LEMMA AtValueType ==
  ASSUME StreamInv, NEW c \in Clients, AtValue(c)
  PROVE  /\ job[c] \in FilterCall /\ phase[c] \in {"cached", "live"}
         /\ job[c].update \in 1..Len(job[c].lists) /\ job[c].update \in Nat
         /\ job[c].value \in 1..Len(job[c].lists[job[c].update]) /\ job[c].value \in Nat
         /\ Current(c) \in PathValue /\ Current(c).path \in Paths /\ Current(c).value \in Vals
<1>1. /\ job[c] \in FilterCall /\ phase[c] \in {"cached", "live"}
      /\ job[c].update >= 1 /\ job[c].value >= 1
  BY DEF AtValue, StreamInv, StreamTypeOK, ClientInv, LocalInv
<1>2. /\ job[c].lists \in Seq(Seq(PathValue)) /\ job[c].update \in Nat /\ job[c].value \in Nat
  BY <1>1 DEF FilterCall
<1>3. job[c].update \in 1..Len(job[c].lists)
  BY <1>1, <1>2 DEF AtValue
<1>4. job[c].lists[job[c].update] \in Seq(PathValue)
  BY <1>2, <1>3
<1>5. job[c].value \in 1..Len(job[c].lists[job[c].update])
  BY <1>1, <1>2, <1>4 DEF AtValue
<1>6. Current(c) \in PathValue
  BY <1>4, <1>5 DEF Current
<1> QED
  BY <1>1, <1>2, <1>3, <1>5, <1>6 DEF PathValue

(* In a live client the filter call follows the delta received last.       *)
LEMMA PlaceOfCall ==
  ASSUME TypeInv, StreamInv, NEW c \in Clients, phase[c] = "live", job[c] # None
  PROVE  LET d == tx[next[c] - 1]
         IN  /\ next[c] - 1 \in 1..Len(tx) /\ next[c] - 1 \in Nat /\ d \in Delta
             /\ job[c].context = ResolveContext(d.context)
             /\ Len(job[c].lists) = Len(d.updates) /\ Len(d.updates) \in Nat
             /\ \A u \in 1..Len(d.updates) : /\ job[c].lists[u] = d.updates[u].values
                                             /\ Len(d.updates[u].values) \in Nat
<1> DEFINE d == tx[next[c] - 1]
<1>1. /\ next[c] >= 2 /\ job[c].context = ResolveContext(d.context)
      /\ job[c].lists = ValuesOf(d.updates)
  BY DEF StreamInv, ClientInv, LiveInv
<1>2. tx \in Seq(Delta) /\ next[c] \in 1..(Len(tx) + 1)
  BY DEF TypeInv, StoreTypeOK, StreamInv, StreamTypeOK
<1>3. next[c] - 1 \in 1..Len(tx) /\ next[c] - 1 \in Nat
  BY <1>1, <1>2
<1>4. d \in Delta
  BY <1>2, <1>3
<1>5. d.updates \in Seq(Update)
  BY <1>4 DEF Delta
<1>6. \A u \in 1..Len(d.updates) : Len(d.updates[u].values) \in Nat
  <2> SUFFICES ASSUME NEW u \in 1..Len(d.updates) PROVE Len(d.updates[u].values) \in Nat
    OBVIOUS
  <2>1. d.updates[u] \in Update
    BY <1>5
  <2> QED
    BY <2>1 DEF Update
<1> HIDE DEF d
<1>7. Len(d.updates) \in Nat /\ Len(job[c].lists) = Len(d.updates)
  BY <1>1, <1>5 DEF ValuesOf
<1>8. \A u \in 1..Len(d.updates) : job[c].lists[u] = d.updates[u].values
  BY <1>1 DEF ValuesOf
<1> QED
  BY <1>1, <1>3, <1>4, <1>6, <1>7, <1>8 DEF d

LEMMA PlaceOfValue ==
  ASSUME TypeInv, StreamInv, NEW c \in Clients, phase[c] = "live", AtValue(c)
  PROVE  /\ \A p : InDeltas(tx, Self, p, next[c] - 1, job[c].update, job[c].value)
                     <=> job[c].context = Self /\ Current(c).path = p
         /\ ValueAt(tx, next[c] - 1, job[c].update, job[c].value) = Current(c).value
<1> DEFINE i == next[c] - 1
           d == tx[i]
           u == job[c].update
<1>1. /\ i \in 1..Len(tx) /\ job[c].context = ResolveContext(d.context)
      /\ Len(job[c].lists) = Len(d.updates)
      /\ \A w \in 1..Len(d.updates) : job[c].lists[w] = d.updates[w].values
  BY PlaceOfCall DEF AtValue
<1>2. u \in 1..Len(job[c].lists) /\ job[c].value \in 1..Len(job[c].lists[u])
  BY AtValueType
<1>3. job[c].lists[u] = d.updates[u].values
  BY <1>1, <1>2
<1>4. Current(c) = d.updates[u].values[job[c].value]
  BY <1>3 DEF Current
<1> HIDE DEF i, u
<1> QED
  BY <1>1, <1>2, <1>3, <1>4 DEF InDeltas, InDelta, InUpdates, InUpdate, ValueAt, i, u

(* What a step of filter_delta does to its client.                         *)
Filters(c) ==
  /\ UNCHANGED <<phase, mode, next, view, ws_client_count, connects, storeVars>>
  /\ job'[c].context = job[c].context /\ job'[c].lists = job[c].lists
  /\ job'[c].update = job[c].update /\ job'[c].value = job[c].value + 1
  /\ Covered(c)' = Covered(c)
  /\ \A p \in Paths : p # Current(c).path =>
       job'[c].shown[p] = job[c].shown[p] /\ since'[c][p] = since[c][p]
  /\ job[c].context # Self => since'[c] = since[c]
  /\ \A p \in Paths : since'[c][p] \in {since[c][p], Upcoming(c)}
  /\ LET p == Current(c).path
     IN  p \in Covered(c) /\ job[c].context = Self =>
           \/ job'[c].shown[p] = Current(c).value /\ since'[c][p] = since[c][p]
           \/ since'[c][p] = Upcoming(c)

(* A value that is taken.                                                  *)
LEMMA TakenStep ==
  ASSUME TypeInv, StreamInv, NEW c \in Clients, AtValue(c),
         NEW k \in DOMAIN subscriptions[c],
         job' = [job EXCEPT ![c] = Taken(@, Current(c))],
         subscriptions' = [subscriptions EXCEPT ![c][k] = MarkSent(@, Current(c).value)],
         since' = since,
         UNCHANGED <<phase, mode, next, view, ws_client_count, connects, storeVars>>
  PROVE  StreamTypeOK' /\ LocalInv(c)' /\ Filters(c)
<1> DEFINE pv == Current(c)
<1>1. /\ job[c] \in FilterCall /\ pv.path \in Paths /\ pv.value \in Vals
      /\ job[c].value \in Nat /\ job \in [Clients -> FilterCall \cup {None}]
      /\ job[c].shown \in [Paths -> Vals \cup {None}] /\ phase[c] \in {"cached", "live"}
  BY AtValueType DEF StreamInv, StreamTypeOK, FilterCall
<1> HIDE DEF pv
<1> DEFINE j == Taken(job[c], pv)
<1>2. /\ j \in FilterCall /\ j.context = job[c].context /\ j.lists = job[c].lists
      /\ j.update = job[c].update /\ j.value = job[c].value + 1
      /\ j.shown = [job[c].shown EXCEPT ![pv.path] = pv.value]
  BY <1>1, CallType
<1>3. job' = [job EXCEPT ![c] = j]
  BY <1>1 DEF pv
<1> HIDE DEF j
<1>4. job'[c] = j /\ job' \in [Clients -> FilterCall \cup {None}]
  BY <1>1, <1>2, <1>3
<1>5. now \in 0..MaxTime
  BY DEF TypeInv, StoreTypeOK
<1> DEFINE sub == subscriptions[c][k]
<1>6. sub \in ActiveSubscription
  BY DEF StreamInv, StreamTypeOK
<1>7. /\ MarkSent(sub, pv.value) \in ActiveSubscription
      /\ MarkSent(sub, pv.value).last_sent = now
      /\ MarkSent(sub, pv.value).pattern = sub.pattern
      /\ MarkSent(sub, pv.value).policy = sub.policy
      /\ MarkSent(sub, pv.value).min_period = sub.min_period
  BY <1>1, <1>5, <1>6 DEF MarkSent, ActiveSubscription
<1>8. /\ DOMAIN subscriptions' = Clients
      /\ \A d \in Clients : d # c => subscriptions'[d] = subscriptions[d]
      /\ DOMAIN subscriptions'[c] = DOMAIN subscriptions[c]
      /\ subscriptions'[c][k] = MarkSent(sub, pv.value)
      /\ \A l \in DOMAIN subscriptions[c] : l # k => subscriptions'[c][l] = subscriptions[c][l]
  BY DEF StreamInv, StreamTypeOK, pv
<1> HIDE DEF sub
<1>9. StreamTypeOK'
  <2>1. \A d \in Clients : /\ DOMAIN subscriptions'[d] \subseteq Keys
                           /\ \A l \in DOMAIN subscriptions'[d] :
                                subscriptions'[d][l] \in ActiveSubscription
    BY <1>7, <1>8 DEF StreamInv, StreamTypeOK
  <2> QED
    BY <1>4, <1>8, <2>1 DEF StreamInv, StreamTypeOK, storeVars
<1>10. LocalInv(c)'
  <2>1. HoldsRead(c)' => writer' = None
    BY DEF StreamInv, ClientInv, LocalInv, HoldsRead, storeVars
  <2>2. phase'[c] # "live" => view'[c] = Blank
    BY DEF StreamInv, ClientInv, LocalInv
  <2>3. job'[c] # None /\ phase'[c] \in {"cached", "live"} /\ job'[c].update >= 1
        /\ job'[c].value >= 1
    BY <1>1, <1>2, <1>4, AtValueType
  <2>4. \A l \in DOMAIN subscriptions'[c] :
          subscriptions'[c][l].last_sent = None \/ subscriptions'[c][l].last_sent <= now'
    BY <1>5, <1>7, <1>8 DEF StreamInv, ClientInv, LocalInv, storeVars
  <2> QED
    BY <2>1, <2>2, <2>3, <2>4 DEF LocalInv
<1>11. Covered(c)' = Covered(c)
  BY <1>7, <1>8 DEF Covered, Prompt, sub
<1>12. \A p \in Paths : p # pv.path => j.shown[p] = job[c].shown[p]
  BY <1>1, <1>2
<1>13. j.shown[pv.path] = pv.value
  BY <1>1, <1>2
<1> QED
  BY <1>2, <1>4, <1>9, <1>10, <1>11, <1>12, <1>13 DEF Filters, pv

(* A value that is withheld.                                               *)
LEMMA WithheldStep ==
  ASSUME TypeInv, StreamInv, NEW c \in Clients, AtValue(c),
         \A k \in DOMAIN subscriptions[c] :
           ~ShouldDeliver(subscriptions[c][k], Current(c).path, Current(c).value),
         job' = [job EXCEPT ![c] = Withheld(@)],
         subscriptions' = subscriptions,
         since' = IF MistakenRepeat(c, Current(c))
                  THEN [since EXCEPT ![c][Current(c).path] = Upcoming(c)] ELSE since,
         UNCHANGED <<phase, mode, next, view, ws_client_count, connects, storeVars>>
  PROVE  StreamTypeOK' /\ LocalInv(c)' /\ Filters(c)
<1> DEFINE pv == Current(c)
<1>1. /\ job[c] \in FilterCall /\ pv.path \in Paths /\ pv.value \in Vals
      /\ job[c].value \in Nat /\ job \in [Clients -> FilterCall \cup {None}]
      /\ phase[c] \in {"cached", "live"} /\ job[c].update >= 1
  BY AtValueType DEF StreamInv, StreamTypeOK, FilterCall
<1>2. /\ tx \in Seq(Delta) /\ Len(tx) \in Nat /\ now \in 0..MaxTime /\ now \in Nat
  BY DEF TypeInv, StoreTypeOK
<1>3. Upcoming(c) \in 0..(Len(tx) + 1)
  BY <1>2 DEF StreamInv, StreamTypeOK, Upcoming
<1> HIDE DEF pv
<1> DEFINE j == Withheld(job[c])
<1>4. /\ j \in FilterCall /\ j.context = job[c].context /\ j.lists = job[c].lists
      /\ j.update = job[c].update /\ j.value = job[c].value + 1 /\ j.shown = job[c].shown
  BY <1>1, CallType
<1>5. job' = [job EXCEPT ![c] = j]
  BY <1>1
<1> HIDE DEF j
<1>6. job'[c] = j /\ job' \in [Clients -> FilterCall \cup {None}]
  BY <1>1, <1>4, <1>5
<1>7. /\ since' \in [Clients -> [Paths -> 0..(Len(tx) + 1)]]
      /\ \A p \in Paths : p # pv.path => since'[c][p] = since[c][p]
      /\ IF MistakenRepeat(c, pv) THEN since'[c][pv.path] = Upcoming(c)
         ELSE since'[c] = since[c]
  BY <1>1, <1>3 DEF StreamInv, StreamTypeOK, pv
<1>8. StreamTypeOK'
  BY <1>6, <1>7 DEF StreamInv, StreamTypeOK, storeVars
<1>9. LocalInv(c)'
  BY <1>1, <1>4, <1>6 DEF StreamInv, ClientInv, LocalInv, HoldsRead, storeVars
<1>10. Covered(c)' = Covered(c)
  BY DEF Covered
<1>11. ASSUME pv.path \in Covered(c), job[c].context = Self, ~MistakenRepeat(c, pv)
       PROVE  job[c].shown[pv.path] = pv.value
  <2>1. PICK k \in DOMAIN subscriptions[c] :
          Prompt(subscriptions[c][k]) /\ pv.path \in subscriptions[c][k].pattern
    BY <1>11 DEF Covered
  <2>2. /\ subscriptions[c][k] \in ActiveSubscription
        /\ subscriptions[c][k].last_sent = None \/ subscriptions[c][k].last_sent <= now
    BY DEF StreamInv, StreamTypeOK, ClientInv, LocalInv
  <2>3. subscriptions[c][k].policy = "ideal" /\ subscriptions[c][k].last_value = pv.value
    BY <1>2, <2>1, <2>2, OnlyRepeats DEF pv
  <2> QED
    BY <1>11, <2>1, <2>3 DEF MistakenRepeat
<1>12. job[c].context # Self => since'[c] = since[c]
  BY <1>7 DEF MistakenRepeat
<1> QED
  BY <1>4, <1>6, <1>7, <1>8, <1>9, <1>10, <1>11, <1>12 DEF Filters, pv

(* A filter call in the phase of the cached values goes on to the next.    *)
LEMMA CachedFilters ==
  ASSUME TypeInv, StreamInv, NEW c \in Clients, AtValue(c), Filters(c), phase[c] = "cached"
  PROVE  CachedInv(c)'
<1> DEFINE q == Current(c).path
<1>1. /\ job[c].context = Self
      /\ \A u \in 1..Len(job[c].lists) : \A i \in 1..Len(job[c].lists[u]) :
           Shows(job[c].lists[u][i].value, vessels[Self][job[c].lists[u][i].path])
      /\ \A p \in Paths : since[c][p] \in {0, Len(tx) + 1}
      /\ \A p \in Covered(c) :
           since[c][p] = 0 => Ahead(c, p) \/ Shows(job[c].shown[p], vessels[Self][p])
  BY DEF StreamInv, ClientInv, CachedInv
<1>2. /\ tx' = tx /\ vessels' = vessels /\ job'[c].context = Self
      /\ job'[c].lists = job[c].lists /\ Covered(c)' = Covered(c) /\ Upcoming(c) = Len(tx) + 1
  BY <1>1 DEF Filters, storeVars, Upcoming
<1>3. /\ job[c].update \in 1..Len(job[c].lists) /\ job[c].update \in Nat /\ job[c].value \in Nat
      /\ job[c].value \in 1..Len(job[c].lists[job[c].update]) /\ q \in Paths
  BY AtValueType
<1>4. Shows(Current(c).value, vessels[Self][q])
  BY <1>1, <1>3 DEF Current
<1>5. Len(tx) \in Nat
  BY DEF TypeInv, StoreTypeOK
<1>6. ASSUME NEW p \in Paths, p # q, Ahead(c, p) PROVE Ahead(c, p)'
  <2>1. PICK u \in 1..Len(job[c].lists) : \E i \in 1..Len(job[c].lists[u]) :
          /\ job[c].lists[u][i].path = p
          /\ u > job[c].update \/ (u = job[c].update /\ i >= job[c].value)
    BY <1>6 DEF Ahead
  <2>2. PICK i \in 1..Len(job[c].lists[u]) :
          /\ job[c].lists[u][i].path = p
          /\ u > job[c].update \/ (u = job[c].update /\ i >= job[c].value)
    BY <2>1
  <2>3. u = job[c].update => i # job[c].value
    BY <1>6, <2>2 DEF Current
  <2>4. job[c].lists \in Seq(Seq(PathValue))
    BY AtValueType DEF FilterCall
  <2>5. job[c].lists[u] \in Seq(PathValue)
    BY <2>4
  <2>6. i \in Nat /\ u \in Nat
    BY <2>4, <2>5
  <2>7. u > job'[c].update \/ (u = job'[c].update /\ i >= job'[c].value)
    BY <1>3, <2>2, <2>3, <2>6 DEF Filters
  <2> QED
    BY <1>2, <2>2, <2>7 DEF Ahead
<1> HIDE DEF q
<1>7. ASSUME NEW p \in Covered(c), since'[c][p] = 0
      PROVE  Ahead(c, p)' \/ Shows(job'[c].shown[p], vessels[Self][p])
  <2>1. p \in Paths
    BY DEF Covered
  <2>2. CASE p # q
    <3>1. since[c][p] = 0 /\ job'[c].shown[p] = job[c].shown[p]
      BY <1>7, <2>1, <2>2 DEF Filters, q
    <3> QED
      BY <1>1, <1>6, <2>1, <2>2, <3>1
  <2>3. CASE p = q
    <3>1. job'[c].shown[p] = Current(c).value
      BY <1>1, <1>2, <1>5, <1>7, <2>3 DEF Filters, q
    <3> QED
      BY <1>4, <2>3, <3>1
  <2> QED
    BY <2>2, <2>3
<1>8. ASSUME NEW p \in Paths PROVE since'[c][p] \in {0, Len(tx) + 1}
  BY <1>1, <1>2 DEF Filters
<1> QED
  BY <1>1, <1>2, <1>7, <1>8 DEF CachedInv

(* A live client fits behind the value it has dealt with.                  *)
LEMMA LiveFilters ==
  ASSUME TypeInv, StreamInv, NEW c \in Clients, AtValue(c), Filters(c), job'[c] # None,
         phase[c] = "live"
  PROVE  LiveInv(c)'
<1> DEFINE i == next[c] - 1
           u == job[c].update
           k == job[c].value
           X(p) == IF job[c].context = Self THEN job[c].shown[p] ELSE view[c][Self][p]
<1>1. /\ next[c] >= 2 /\ job[c].context = ResolveContext(tx[i].context)
      /\ job[c].lists = ValuesOf(tx[i].updates) /\ job[c] # None
      /\ \A p \in Covered(c) : Fits(tx, i, u, k, p, since[c][p], X(p))
  BY DEF StreamInv, ClientInv, LiveInv, AtValue
<1>2. /\ tx' = tx /\ next' = next /\ view' = view /\ phase' = phase
      /\ job'[c].context = job[c].context /\ job'[c].lists = job[c].lists
      /\ job'[c].update = u /\ job'[c].value = k + 1 /\ Covered(c)' = Covered(c)
      /\ Upcoming(c) = i + 1
  <2>1. next[c] \in Nat
    BY DEF TypeInv, StoreTypeOK, StreamInv, StreamTypeOK
  <2> QED
    BY <2>1 DEF Filters, storeVars, Upcoming
<1>3. i \in Nat /\ u \in Nat /\ k \in Nat
  BY <1>1, PlaceOfCall, AtValueType
<1>4. /\ \A p : InDeltas(tx, Self, p, i, u, k) <=> job[c].context = Self /\ Current(c).path = p
      /\ ValueAt(tx, i, u, k) = Current(c).value
  BY PlaceOfValue
<1> HIDE DEF i, u, k
<1>5. ASSUME NEW p \in Covered(c)
      PROVE  Fits(tx, i, u, k + 1, p, since'[c][p],
                  IF job[c].context = Self THEN job'[c].shown[p] ELSE view[c][Self][p])
  <2>1. p \in Paths /\ Fits(tx, i, u, k, p, since[c][p], X(p))
    BY <1>1 DEF Covered
  <2>2. CASE job[c].context # Self
    <3>1. since'[c] = since[c] /\ ~InDeltas(tx, Self, p, i, u, k) /\ X(p) = view[c][Self][p]
      BY <1>4, <2>2 DEF Filters
    <3> HIDE DEF X
    <3>2. Fits(tx, i, u, k + 1, p, since[c][p], X(p))
      BY <1>3, <2>1, <3>1, OtherValue
    <3> QED
      BY <2>2, <3>1, <3>2
  <2>3. CASE job[c].context = Self /\ p # Current(c).path
    <3>1. /\ since'[c][p] = since[c][p] /\ ~InDeltas(tx, Self, p, i, u, k)
          /\ job'[c].shown[p] = job[c].shown[p] /\ X(p) = job[c].shown[p]
      BY <1>4, <2>1, <2>3 DEF Filters
    <3> HIDE DEF X
    <3>2. Fits(tx, i, u, k + 1, p, since[c][p], X(p))
      BY <1>3, <2>1, <3>1, OtherValue
    <3> QED
      BY <2>3, <3>1, <3>2
  <2>4. CASE job[c].context = Self /\ p = Current(c).path
    <3>1. CASE job'[c].shown[p] = Current(c).value
      <4>1. InDeltas(tx, Self, p, i, u, k) /\ job'[c].shown[p] = ValueAt(tx, i, u, k)
        BY <1>4, <2>4, <3>1
      <4> DEFINE x == job'[c].shown[p]
                 s == since'[c][p]
      <4> HIDE DEF x, s
      <4>2. Fits(tx, i, u, k + 1, p, s, x)
        BY <1>3, <2>1, <4>1, ThisValue DEF x
      <4> QED
        BY <2>4, <4>2 DEF x, s
    <3>2. CASE since'[c][p] = Upcoming(c)
      <4> DEFINE x == job'[c].shown[p]
      <4> HIDE DEF x
      <4>1. k + 1 \in Nat
        BY <1>3
      <4>2. Fits(tx, i, u, k + 1, p, i + 1, x)
        BY <1>3, <4>1, OwedFromNext
      <4> QED
        BY <1>2, <2>4, <3>2, <4>2 DEF x
    <3> QED
      BY <2>4, <3>1, <3>2 DEF Filters
  <2> QED
    BY <2>2, <2>3, <2>4
<1> QED
  BY <1>1, <1>2, <1>5 DEF LiveInv, i, u, k

LEMMA FilterStep ==
  ASSUME TypeInv, StreamInv, NEW c \in Clients, FilterValue(c)
  PROVE  StreamInv'
<1> DEFINE pv == Current(c)
           takers == {k \in DOMAIN subscriptions[c] :
                        ShouldDeliver(subscriptions[c][k], pv.path, pv.value)}
<1>1. /\ AtValue(c)
      /\ UNCHANGED <<phase, mode, next, view, ws_client_count, connects, storeVars>>
      /\ \/ \E k \in takers :
              /\ job' = [job EXCEPT ![c] = Taken(@, pv)]
              /\ subscriptions' = [subscriptions EXCEPT ![c][k] = MarkSent(@, pv.value)]
              /\ UNCHANGED since
         \/ /\ takers = {}
            /\ job' = [job EXCEPT ![c] = Withheld(@)]
            /\ since' = IF MistakenRepeat(c, pv)
                        THEN [since EXCEPT ![c][pv.path] = Upcoming(c)] ELSE since
            /\ UNCHANGED subscriptions
  BY DEF FilterValue, Current
<1> HIDE DEF pv
<1>2. StreamTypeOK' /\ LocalInv(c)' /\ Filters(c)
  <2>1. ASSUME NEW k \in takers,
               job' = [job EXCEPT ![c] = Taken(@, pv)],
               subscriptions' = [subscriptions EXCEPT ![c][k] = MarkSent(@, pv.value)],
               since' = since
        PROVE  StreamTypeOK' /\ LocalInv(c)' /\ Filters(c)
    <3>1. k \in DOMAIN subscriptions[c]
      OBVIOUS
    <3> QED
      BY <1>1, <2>1, <3>1, TakenStep DEF pv
  <2>2. ASSUME takers = {},
               job' = [job EXCEPT ![c] = Withheld(@)],
               since' = IF MistakenRepeat(c, pv)
                        THEN [since EXCEPT ![c][pv.path] = Upcoming(c)] ELSE since,
               subscriptions' = subscriptions
        PROVE  StreamTypeOK' /\ LocalInv(c)' /\ Filters(c)
    <3>1. \A k \in DOMAIN subscriptions[c] :
            ~ShouldDeliver(subscriptions[c][k], pv.path, pv.value)
      BY <2>2
    <3> QED
      BY <1>1, <2>2, <3>1, WithheldStep DEF pv
  <2> QED
    BY <1>1, <2>1, <2>2
<1>3. \A d \in Clients : d # c => SameClient(d)
  <2>1. \A d \in Clients : d # c => job'[d] = job[d]
    BY <1>1 DEF StreamInv, StreamTypeOK
  <2>2. \A d \in Clients : d # c => subscriptions'[d] = subscriptions[d]
    BY <1>1 DEF StreamInv, StreamTypeOK
  <2>3. \A d \in Clients : d # c => since'[d] = since[d]
    BY <1>1 DEF StreamInv, StreamTypeOK
  <2> QED
    BY <1>1, <2>1, <2>2, <2>3 DEF SameClient
<1>4. ClientCountExact'
  BY <1>1, SameCount DEF StreamInv
<1>5. job'[c] # None
  <2>1. phase'[c] = phase[c] /\ phase[c] \in {"cached", "live"}
    BY <1>1, AtValueType
  <2>2. job'[c] = Withheld(job[c]) \/ job'[c] = Taken(job[c], pv)
    <3>1. c \in DOMAIN job
      BY DEF StreamInv, StreamTypeOK
    <3>2. \/ job' = [job EXCEPT ![c] = Taken(@, pv)]
          \/ job' = [job EXCEPT ![c] = Withheld(@)]
      BY <1>1
    <3> QED
      BY <3>1, <3>2
  <2>3. job[c] \in FilterCall /\ pv.path \in Paths /\ pv.value \in Vals
    BY <1>1, AtValueType DEF pv
  <2>4. Withheld(job[c]) \in FilterCall /\ Taken(job[c], pv) \in FilterCall
    BY <2>3, CallType
  <2> QED
    BY <2>2, <2>4
<1>6. CachedInv(c)'
  BY <1>1, <1>2, CachedFilters DEF CachedInv
<1>7. LiveInv(c)'
  BY <1>1, <1>2, <1>5, LiveFilters DEF LiveInv
<1> QED
  BY <1>1, <1>2, <1>3, <1>4, <1>6, <1>7, OneClient DEF ClientInv


(* Between two updates: nothing is dealt with.                             *)
LEMMA FilterUpdateStep ==
  ASSUME TypeInv, StreamInv, NEW c \in Clients, FilterUpdate(c)
  PROVE  StreamInv'
<1> DEFINE j == Through(job[c])
<1>1. /\ AtEnd(c) /\ job' = [job EXCEPT ![c] = j]
      /\ UNCHANGED <<phase, mode, subscriptions, next, view, since,
                     ws_client_count, connects, storeVars>>
  <2>1. c \in DOMAIN job
    BY DEF StreamInv, StreamTypeOK
  <2> QED
    BY <2>1 DEF FilterUpdate
<1>2. /\ job[c] \in FilterCall /\ phase[c] \in {"cached", "live"} /\ job[c] # None
      /\ job[c].update \in Nat /\ job[c].value \in Nat /\ job[c].update >= 1
  BY <1>1 DEF AtEnd, StreamInv, StreamTypeOK, ClientInv, LocalInv, FilterCall
<1>3. /\ j \in FilterCall /\ j.context = job[c].context /\ j.lists = job[c].lists
      /\ j.update = job[c].update + 1 /\ j.value = 1 /\ j.shown = job[c].shown
  BY <1>2, CallType
<1> HIDE DEF j
<1>4. /\ job'[c] = j /\ job' \in [Clients -> FilterCall \cup {None}] /\ j # None
      /\ \A d \in Clients : d # c => job'[d] = job[d]
  BY <1>1, <1>3 DEF StreamInv, StreamTypeOK
<1>5. StreamTypeOK'
  BY <1>1, <1>4 DEF StreamInv, StreamTypeOK, storeVars
<1>6. \A d \in Clients : d # c => SameClient(d)
  BY <1>1, <1>4 DEF SameClient
<1>7. ClientCountExact'
  BY <1>1, SameCount DEF StreamInv
<1>8. LocalInv(c)'
  BY <1>1, <1>2, <1>3, <1>4 DEF StreamInv, ClientInv, LocalInv, HoldsRead, storeVars
<1>9. Covered(c)' = Covered(c)
  BY <1>1 DEF Covered
<1>10. /\ job[c].update <= Len(job[c].lists)
       /\ job[c].value > Len(job[c].lists[job[c].update])
  BY <1>1 DEF AtEnd
<1>11. job[c].lists \in Seq(Seq(PathValue))
  BY <1>2 DEF FilterCall
<1>12. CachedInv(c)'
  <2>1. ASSUME NEW p, Ahead(c, p) PROVE Ahead(c, p)'
    <3>1. PICK u \in 1..Len(job[c].lists) : \E i \in 1..Len(job[c].lists[u]) :
            /\ job[c].lists[u][i].path = p
            /\ u > job[c].update \/ (u = job[c].update /\ i >= job[c].value)
      BY <2>1 DEF Ahead
    <3>2. PICK i \in 1..Len(job[c].lists[u]) :
            /\ job[c].lists[u][i].path = p
            /\ u > job[c].update \/ (u = job[c].update /\ i >= job[c].value)
      BY <3>1
    <3>3. job[c].lists[u] \in Seq(PathValue) /\ u \in Nat
      BY <1>11
    <3>4. i \in Nat /\ i >= 1 /\ i <= Len(job[c].lists[u]) /\ Len(job[c].lists[u]) \in Nat
      BY <3>3
    <3>5. u # job[c].update
      BY <1>2, <1>10, <3>2, <3>4
    <3>6. u > j.update \/ (u = j.update /\ i >= j.value)
      BY <1>2, <1>3, <3>2, <3>3, <3>4, <3>5
    <3> QED
      BY <1>3, <1>4, <3>2, <3>6 DEF Ahead
  <2>2. /\ phase'[c] = phase[c] /\ since'[c] = since[c] /\ tx' = tx /\ vessels' = vessels
        /\ job'[c].context = job[c].context /\ job'[c].lists = job[c].lists
        /\ job'[c].shown = job[c].shown
    BY <1>1, <1>3, <1>4 DEF storeVars
  <2>3. CachedInv(c)
    BY DEF StreamInv, ClientInv
  <2> QED
    BY <1>9, <2>1, <2>2, <2>3 DEF CachedInv
<1>13. LiveInv(c)'
  <2> SUFFICES ASSUME phase'[c] = "live" PROVE LiveInv(c)'
    BY DEF LiveInv
  <2> DEFINE n == next[c] - 1
             u == job[c].update
             k == job[c].value
             X(p) == IF job[c].context = Self THEN job[c].shown[p] ELSE view[c][Self][p]
  <2>1. /\ next[c] >= 2 /\ job[c].context = ResolveContext(tx[n].context)
        /\ job[c].lists = ValuesOf(tx[n].updates)
        /\ \A p \in Covered(c) : Fits(tx, n, u, k, p, since[c][p], X(p))
    BY <1>1, <1>2 DEF StreamInv, ClientInv, LiveInv
  <2>2. /\ n \in Nat /\ Len(job[c].lists) = Len(tx[n].updates) /\ Len(tx[n].updates) \in Nat
        /\ \A w \in 1..Len(tx[n].updates) : /\ job[c].lists[w] = tx[n].updates[w].values
                                            /\ Len(tx[n].updates[w].values) \in Nat
    BY <1>1, <1>2, PlaceOfCall
  <2> HIDE DEF n, X
  <2>3. Len(tx[n].updates[u].values) \in Nat /\ k > Len(tx[n].updates[u].values)
    BY <1>2, <1>10, <2>2
  <2>4. u \in Nat /\ k \in Nat
    BY <1>2
  <2> HIDE DEF u, k
  <2>5. ASSUME NEW p \in Covered(c) PROVE Fits(tx, n, u + 1, 1, p, since[c][p], X(p))
    <3>1. p \in Paths /\ Fits(tx, n, u, k, p, since[c][p], X(p))
      BY <2>1 DEF Covered
    <3> QED
      BY <2>2, <2>3, <2>4, <3>1, NextUpdateSame
  <2>6. /\ tx' = tx /\ next'[c] = next[c] /\ view'[c] = view[c] /\ since'[c] = since[c]
        /\ job'[c].context = job[c].context /\ job'[c].lists = job[c].lists
        /\ job'[c].shown = job[c].shown /\ job'[c].update = u + 1 /\ job'[c].value = 1
        /\ job'[c] # None
    BY <1>1, <1>3, <1>4 DEF storeVars, u
  <2> QED
    BY <1>9, <2>1, <2>5, <2>6 DEF LiveInv, n, X
<1> QED
  BY <1>1, <1>5, <1>6, <1>7, <1>8, <1>12, <1>13, OneClient DEF ClientInv

(* The filter call of a task that is done with it.                         *)
LEMMA FilteredType ==
  ASSUME StreamInv, NEW c \in Clients, Filtered(c)
  PROVE  /\ job[c] \in FilterCall /\ job[c].context \in Views
         /\ job[c].shown \in [Paths -> Vals \cup {None}]
         /\ job[c].lists \in Seq(Seq(PathValue)) /\ Len(job[c].lists) \in Nat
         /\ job[c].update \in Nat /\ job[c].update > Len(job[c].lists)
<1>1. job[c] \in FilterCall
  BY DEF StreamInv, StreamTypeOK, Filtered
<1>2. job[c].lists \in Seq(Seq(PathValue))
  BY <1>1 DEF FilterCall
<1>3. Len(job[c].lists) \in Nat
  BY <1>2
<1>4. job[c].update > Len(job[c].lists)
  BY DEF Filtered
<1> QED
  BY <1>1, <1>2, <1>3, <1>4 DEF FilterCall

(* What the client was sent of a context is the result of the call.        *)
LEMMA ViewType ==
  ASSUME StreamInv, NEW c \in Clients, NEW x \in Views, NEW m \in [Paths -> Vals \cup {None}],
         view' = [view EXCEPT ![c][x] = m]
  PROVE  /\ view' \in [Clients -> [Views -> [Paths -> Vals \cup {None}]]]
         /\ \A d \in Clients : d # c => view'[d] = view[d]
         /\ view'[c][x] = m
         /\ \A y \in Views : y # x => view'[c][y] = view[c][y]
<1>1. view \in [Clients -> [Views -> [Paths -> Vals \cup {None}]]]
  BY DEF StreamInv, StreamTypeOK
<1>2. view[c] \in [Views -> [Paths -> Vals \cup {None}]]
  BY <1>1
<1> QED
  BY <1>1, <1>2

LEMMA StoreTypes ==
  ASSUME TypeInv
  PROVE  /\ tx \in Seq(Delta) /\ Len(tx) \in Nat /\ now \in 0..MaxTime /\ now \in Nat
         /\ vessels \in [Vessels -> [Paths -> Entry \cup {None}]] /\ Self \in Vessels
         /\ Self \in Views /\ ForeignContext \in Views
BY DEF TypeInv, StoreTypeOK, Views

(* The cached values are out and nothing was written meanwhile: the client *)
(* shows what the store holds when it subscribes to the channel.           *)
LEMMA GoLiveStep ==
  ASSUME TypeInv, ToldInv, StreamInv, NEW c \in Clients, GoLive(c)
  PROVE  StreamInv'
<1>1. /\ phase[c] = "cached" /\ Filtered(c) /\ phase' = [phase EXCEPT ![c] = "live"]
      /\ next' = [next EXCEPT ![c] = Len(tx) + 1] /\ job' = [job EXCEPT ![c] = None]
      /\ view' = [view EXCEPT ![c][Self] = job[c].shown]
      /\ UNCHANGED <<mode, subscriptions, since, ws_client_count, connects, storeVars>>
  BY DEF GoLive
<1>2. /\ job[c] \in FilterCall /\ job[c].shown \in [Paths -> Vals \cup {None}]
      /\ job[c].lists \in Seq(Seq(PathValue)) /\ Len(job[c].lists) \in Nat
      /\ job[c].update \in Nat /\ job[c].update > Len(job[c].lists)
  BY <1>1, FilteredType
<1>3. /\ tx \in Seq(Delta) /\ Len(tx) \in Nat /\ Self \in Views /\ Self \in Vessels
  BY StoreTypes
<1>4. /\ view' \in [Clients -> [Views -> [Paths -> Vals \cup {None}]]]
      /\ \A d \in Clients : d # c => view'[d] = view[d]
      /\ view'[c][Self] = job[c].shown
  <2> DEFINE m == job[c].shown
  <2>1. view' = [view EXCEPT ![c][Self] = m] /\ m \in [Paths -> Vals \cup {None}]
    BY <1>1, <1>2
  <2> HIDE DEF m
  <2>2. /\ view' \in [Clients -> [Views -> [Paths -> Vals \cup {None}]]]
        /\ \A d \in Clients : d # c => view'[d] = view[d]
        /\ view'[c][Self] = m
    BY <1>3, <2>1, ViewType
  <2> QED
    BY <2>2 DEF m
<1>5. StreamTypeOK'
  <2>1. next' \in [Clients -> 1..(Len(tx) + 1)]
    BY <1>1, <1>3 DEF StreamInv, StreamTypeOK
  <2> QED
    BY <1>1, <1>4, <2>1 DEF StreamInv, StreamTypeOK, storeVars
<1>6. \A d \in Clients : d # c => SameClient(d)
  BY <1>1, <1>4 DEF SameClient, StreamInv, StreamTypeOK
<1>7. phase'[c] = "live" /\ next'[c] = Len(tx) + 1 /\ job'[c] = None
  BY <1>1 DEF StreamInv, StreamTypeOK
<1>8. ClientCountExact'
  BY <1>1, <1>7, SameCount DEF StreamInv, StreamTypeOK
<1>9. writer = None
  BY <1>1 DEF StreamInv, ClientInv, LocalInv, HoldsRead
<1>10. LocalInv(c)'
  BY <1>1, <1>7 DEF StreamInv, ClientInv, LocalInv, HoldsRead, storeVars
<1>11. CachedInv(c)'
  BY <1>7 DEF CachedInv
<1>12. /\ \A p \in Paths : since[c][p] \in {0, Len(tx) + 1}
       /\ \A p \in Covered(c) :
            since[c][p] = 0 => Ahead(c, p) \/ Shows(job[c].shown[p], vessels[Self][p])
  BY <1>1 DEF StreamInv, ClientInv, CachedInv
<1>13. \A p : ~Ahead(c, p)
  BY <1>2 DEF Ahead
<1>14. Covered(c)' = Covered(c)
  BY <1>1 DEF Covered
<1>15. ASSUME NEW p \in Covered(c)
       PROVE  Fits(tx, Len(tx) + 1, 1, 1, p, since[c][p], job[c].shown[p])
  <2>1. p \in Paths
    BY DEF Covered
  <2>2. CASE since[c][p] = 0
    <3>1. Shows(job[c].shown[p], vessels[Self][p])
      BY <1>12, <1>13, <2>2
    <3>2. Agrees(tx, Self, p, vessels[Self][p])
      BY <1>3, <1>9, <2>1 DEF ToldInv, Told
    <3> QED
      BY <1>3, <2>1, <3>1, <3>2, LiveFits
  <2>3. CASE since[c][p] = Len(tx) + 1
    <3> DEFINE n == Len(tx) + 1
    <3>1. n \in Nat /\ n # 0
      BY <1>3
    <3> HIDE DEF n
    <3>2. Fits(tx, n, 1, 1, p, n, job[c].shown[p])
      BY <1>3, <3>1, OwedFromHere
    <3> QED
      BY <2>3, <3>2 DEF n
  <2> QED
    BY <1>12, <2>1, <2>2, <2>3
<1>16. LiveInv(c)'
  BY <1>1, <1>4, <1>7, <1>14, <1>15 DEF LiveInv, storeVars
<1> QED
  BY <1>1, <1>5, <1>6, <1>8, <1>10, <1>11, <1>16, OneClient DEF ClientInv

(* What a delta from the channel is for filter_delta.                      *)
LEMMA ValuesOfType ==
  ASSUME NEW us \in Seq(Update)
  PROVE  ValuesOf(us) \in Seq(Seq(PathValue)) /\ Len(ValuesOf(us)) = Len(us)
<1>1. \A i \in 1..Len(us) : us[i].values \in Seq(PathValue)
  <2> SUFFICES ASSUME NEW i \in 1..Len(us) PROVE us[i].values \in Seq(PathValue)
    OBVIOUS
  <2>1. us[i] \in Update
    OBVIOUS
  <2> QED
    BY <2>1 DEF Update
<1>2. Len(us) \in Nat
  OBVIOUS
<1> QED
  BY <1>1, <1>2 DEF ValuesOf

LEMMA ReceiveStep ==
  ASSUME TypeInv, StreamInv, NEW c \in Clients, Receive(c)
  PROVE  StreamInv'
<1> DEFINE n == next[c]
           d == tx[n]
           j == [context |-> ResolveContext(d.context), lists |-> ValuesOf(d.updates),
                 update |-> 1, value |-> 1, shown |-> view[c][ResolveContext(d.context)],
                 matched |-> FALSE]
<1>1. /\ phase[c] = "live" /\ job[c] = None /\ n <= Len(tx)
      /\ job' = [job EXCEPT ![c] = j]
      /\ next' = [next EXCEPT ![c] = n + 1]
      /\ UNCHANGED <<phase, mode, subscriptions, view, since, ws_client_count,
                     connects, storeVars>>
  BY DEF Receive, Idle, InRing, Filter, StreamInv, StreamTypeOK
<1>2. /\ tx \in Seq(Delta) /\ Len(tx) \in Nat /\ Self \in Views /\ ForeignContext \in Views
  BY StoreTypes
<1>3. n \in 1..Len(tx) /\ n \in Nat
  BY <1>1, <1>2 DEF StreamInv, StreamTypeOK
<1>4. d \in Delta
  BY <1>2, <1>3
<1>5. d.context \in Contexts /\ d.updates \in Seq(Update)
  BY <1>4 DEF Delta
<1> HIDE DEF d, n
<1>6. ResolveContext(d.context) \in Views
  BY <1>5 DEF ResolveContext, Contexts, Views
<1>7. ValuesOf(d.updates) \in Seq(Seq(PathValue))
  BY <1>5, ValuesOfType
<1>8. view[c] \in [Views -> [Paths -> Vals \cup {None}]]
  BY DEF StreamInv, StreamTypeOK
<1>9. j \in FilterCall /\ j # None
  <2>1. view[c][ResolveContext(d.context)] \in [Paths -> Vals \cup {None}]
    BY <1>6, <1>8
  <2>2. j \in FilterCall
    BY <1>6, <1>7, <2>1 DEF FilterCall
  <2> QED
    BY <2>2
<1>10. /\ j.context = ResolveContext(d.context) /\ j.lists = ValuesOf(d.updates)
       /\ j.update = 1 /\ j.value = 1 /\ j.shown = view[c][ResolveContext(d.context)]
  OBVIOUS
<1> HIDE DEF j
<1>11. job'[c] = j /\ next'[c] = n + 1
  BY <1>1 DEF StreamInv, StreamTypeOK
<1>12. StreamTypeOK'
  <2>1. next' \in [Clients -> 1..(Len(tx) + 1)]
    BY <1>1, <1>2, <1>3 DEF StreamInv, StreamTypeOK
  <2>2. job' \in [Clients -> FilterCall \cup {None}]
    BY <1>1, <1>9 DEF StreamInv, StreamTypeOK
  <2> QED
    BY <1>1, <2>1, <2>2 DEF StreamInv, StreamTypeOK, storeVars
<1>13. \A e \in Clients : e # c => SameClient(e)
  BY <1>1 DEF SameClient, StreamInv, StreamTypeOK
<1>14. ClientCountExact'
  BY <1>1, SameCount DEF StreamInv
<1>15. LocalInv(c)'
  BY <1>1, <1>10, <1>11 DEF StreamInv, ClientInv, LocalInv, HoldsRead, storeVars
<1>16. CachedInv(c)'
  BY <1>1 DEF CachedInv
<1>17. Covered(c)' = Covered(c)
  BY <1>1 DEF Covered
<1>18. \A p \in Covered(c) : Fits(tx, n, 1, 1, p, since[c][p], view[c][Self][p])
  BY <1>1 DEF StreamInv, ClientInv, LiveInv, n
<1>19. LiveInv(c)'
  <2>2. /\ tx' = tx /\ view'[c] = view[c] /\ since'[c] = since[c] /\ job'[c] # None
        /\ next'[c] - 1 = n /\ next'[c] >= 2
    <3>1. next'[c] - 1 = n /\ next'[c] >= 2
      BY <1>3, <1>11
    <3>2. tx' = tx /\ view'[c] = view[c] /\ since'[c] = since[c] /\ job'[c] # None
      BY <1>1, <1>9, <1>11 DEF storeVars
    <3> QED
      BY <3>1, <3>2
  <2>3. /\ job'[c].context = ResolveContext(tx[n].context)
        /\ job'[c].lists = ValuesOf(tx[n].updates)
        /\ job'[c].update = 1 /\ job'[c].value = 1
        /\ job'[c].shown = view[c][job'[c].context]
    BY <1>10, <1>11 DEF d
  <2> QED
    BY <1>17, <1>18, <2>2, <2>3 DEF LiveInv
<1> QED
  BY <1>1, <1>12, <1>13, <1>14, <1>15, <1>16, <1>19, OneClient DEF ClientInv

(* After a lag the client is owed what the channel still holds.            *)
LEMMA LaggedStep ==
  ASSUME TypeInv, StreamInv, NEW c \in Clients, Lagged(c)
  PROVE  StreamInv'
<1> DEFINE n == Len(tx) - Capacity + 1
<1>1. /\ phase[c] = "live" /\ job[c] = None /\ next[c] <= Len(tx) - Capacity
      /\ next' = [next EXCEPT ![c] = n]
      /\ since' = [since EXCEPT ![c] = [p \in Paths |-> n]]
      /\ UNCHANGED <<phase, mode, subscriptions, job, view, ws_client_count,
                     connects, storeVars>>
  BY DEF Lagged, Idle
<1>2. tx \in Seq(Delta) /\ Len(tx) \in Nat
  BY StoreTypes
<1>3. next[c] \in 1..(Len(tx) + 1) /\ next \in [Clients -> 1..(Len(tx) + 1)]
      /\ since \in [Clients -> [Paths -> 0..(Len(tx) + 1)]]
  BY DEF StreamInv, StreamTypeOK
<1>4. n \in 1..(Len(tx) + 1) /\ n \in 0..(Len(tx) + 1) /\ n \in Nat /\ n # 0
  BY <1>1, <1>2, <1>3
<1> HIDE DEF n
<1>5. StreamTypeOK'
  <2>1. /\ next' \in [Clients -> 1..(Len(tx) + 1)]
        /\ since' \in [Clients -> [Paths -> 0..(Len(tx) + 1)]]
    BY <1>1, <1>3, <1>4
  <2> QED
    BY <1>1, <2>1 DEF StreamInv, StreamTypeOK, storeVars
<1>6. \A d \in Clients : d # c => SameClient(d)
  BY <1>1, <1>3 DEF SameClient
<1>7. ClientCountExact'
  BY <1>1, SameCount DEF StreamInv
<1>8. LocalInv(c)' /\ CachedInv(c)'
  BY <1>1 DEF StreamInv, ClientInv, LocalInv, CachedInv, HoldsRead, storeVars
<1>9. next'[c] = n /\ \A p \in Paths : since'[c][p] = n
  BY <1>1, <1>3
<1>10. \A p \in Paths : Fits(tx, n, 1, 1, p, n, view[c][Self][p])
  BY <1>2, <1>4, OwedFromHere
<1>11. \A p \in Covered(c)' : p \in Paths
  BY DEF Covered
<1>12. LiveInv(c)'
  BY <1>1, <1>9, <1>10, <1>11 DEF LiveInv, storeVars
<1> QED
  BY <1>1, <1>5, <1>6, <1>7, <1>8, <1>12, OneClient DEF ClientInv

(* The result of a filter call is sent: the client shows it.               *)
LEMMA SendStep ==
  ASSUME TypeInv, StreamInv, NEW c \in Clients, SendDelta(c)
  PROVE  StreamInv'
<1> DEFINE m == job[c].shown
           x == job[c].context
<1>1. /\ phase[c] = "live" /\ Filtered(c) /\ job' = [job EXCEPT ![c] = None]
      /\ view' = [view EXCEPT ![c][x] = m] /\ job[c] # None
      /\ UNCHANGED <<phase, mode, subscriptions, next, since, ws_client_count,
                     connects, storeVars>>
  BY DEF SendDelta, Filtered
<1>2. /\ x \in Views /\ m \in [Paths -> Vals \cup {None}]
      /\ Len(job[c].lists) \in Nat /\ job[c].update \in Nat
      /\ job[c].update > Len(job[c].lists) /\ job[c].value \in Nat
  BY <1>1, FilteredType DEF FilterCall
<1>3. /\ view' \in [Clients -> [Views -> [Paths -> Vals \cup {None}]]]
      /\ \A d \in Clients : d # c => view'[d] = view[d]
      /\ view'[c][x] = m
      /\ \A y \in Views : y # x => view'[c][y] = view[c][y]
  <2> HIDE DEF m, x
  <2> QED
    BY <1>1, <1>2, ViewType
<1>4. job'[c] = None
  BY <1>1 DEF StreamInv, StreamTypeOK
<1>5. StreamTypeOK'
  BY <1>1, <1>3 DEF StreamInv, StreamTypeOK, storeVars
<1>6. \A d \in Clients : d # c => SameClient(d)
  BY <1>1, <1>3 DEF SameClient, StreamInv, StreamTypeOK
<1>7. ClientCountExact'
  BY <1>1, SameCount DEF StreamInv
<1>8. LocalInv(c)' /\ CachedInv(c)'
  BY <1>1, <1>4 DEF StreamInv, ClientInv, LocalInv, CachedInv, HoldsRead, storeVars
<1>9. Covered(c)' = Covered(c)
  BY <1>1 DEF Covered
<1>10. LiveInv(c)'
  <2> DEFINE n == next[c] - 1
             u == job[c].update
             k == job[c].value
             X(p) == IF x = Self THEN m[p] ELSE view[c][Self][p]
  <2>1. \A p \in Covered(c) : Fits(tx, n, u, k, p, since[c][p], X(p))
    BY <1>1 DEF StreamInv, ClientInv, LiveInv
  <2>2. n \in Nat /\ n + 1 = next[c] /\ Len(tx[n].updates) \in Nat /\ u > Len(tx[n].updates)
    <3>1. next[c] \in Nat
      BY StoreTypes DEF StreamInv, StreamTypeOK
    <3>2. n \in Nat /\ Len(tx[n].updates) \in Nat /\ Len(job[c].lists) = Len(tx[n].updates)
      BY <1>1, PlaceOfCall
    <3> QED
      BY <1>2, <3>1, <3>2
  <2>3. u \in Nat /\ k \in Nat
    BY <1>2
  <2>4. \A p \in Paths : X(p) = view'[c][Self][p]
    BY <1>3, StoreTypes
  <2> HIDE DEF n, u, k, X
  <2>5. ASSUME NEW p \in Covered(c)
        PROVE  Fits(tx, next[c], 1, 1, p, since[c][p], view'[c][Self][p])
    <3>1. p \in Paths /\ Fits(tx, n, u, k, p, since[c][p], X(p))
      BY <2>1 DEF Covered
    <3>2. Fits(tx, n + 1, 1, 1, p, since[c][p], X(p))
      BY <2>2, <2>3, <3>1, NextDeltaSame
    <3> QED
      BY <2>2, <2>4, <3>1, <3>2
  <2> QED
    BY <1>1, <1>4, <1>9, <2>5 DEF LiveInv, storeVars
<1> QED
  BY <1>1, <1>5, <1>6, <1>7, <1>8, <1>10, OneClient DEF ClientInv

(* A path newly subscribed to is owed from the next delta on.              *)
LEMMA SubscribeStep ==
  ASSUME TypeInv, StreamInv, NEW c \in Clients, NEW msg \in SubscribeMsgs, Subscribe(c, msg)
  PROVE  StreamInv'
<1> DEFINE key == <<msg.context, msg.pattern>>
           new == NewSubscription(msg.context, msg.pattern, msg.policy, msg.min_period)
           subs == [k \in DOMAIN subscriptions[c] \cup {key} |->
                      IF k = key THEN new ELSE subscriptions[c][k]]
           owed == [p \in Paths |-> IF p \in msg.pattern \ Covered(c) THEN next[c]
                                    ELSE since[c][p]]
<1>1. /\ phase[c] = "live" /\ job[c] = None
      /\ subscriptions' = [subscriptions EXCEPT ![c] = subs]
      /\ since' = [since EXCEPT ![c] = owed]
      /\ UNCHANGED <<phase, mode, next, job, view, ws_client_count, connects, storeVars>>
  <2>1. c \in DOMAIN subscriptions
    BY DEF StreamInv, StreamTypeOK
  <2> QED
    BY <2>1 DEF Subscribe, Idle
<1>2. tx \in Seq(Delta) /\ Len(tx) \in Nat
  BY StoreTypes
<1>3. next[c] \in 1..(Len(tx) + 1) /\ since \in [Clients -> [Paths -> 0..(Len(tx) + 1)]]
  BY DEF StreamInv, StreamTypeOK
<1>4. next[c] \in 0..(Len(tx) + 1) /\ next[c] \in Nat /\ next[c] # 0
  BY <1>2, <1>3
<1>5. msg \in SubscribeMsg
  OBVIOUS
<1>6. /\ new \in ActiveSubscription /\ new.last_sent = None /\ new.pattern = msg.pattern
      /\ key \in Keys
  BY <1>5 DEF SubscribeMsg, NewSubscription, ActiveSubscription, Keys
<1>7. owed \in [Paths -> 0..(Len(tx) + 1)]
  BY <1>3, <1>4
<1>8. /\ \A p \in msg.pattern \ Covered(c) : p \in Paths => owed[p] = next[c]
      /\ \A p \in Paths : p \notin msg.pattern \ Covered(c) => owed[p] = since[c][p]
  OBVIOUS
<1> HIDE DEF key, new, owed
<1>9. /\ DOMAIN subs = DOMAIN subscriptions[c] \cup {key} /\ subs[key] = new
      /\ \A k \in DOMAIN subs : k # key => subs[k] = subscriptions[c][k]
  OBVIOUS
<1> HIDE DEF subs
<1>10. /\ subscriptions'[c] = subs /\ since'[c] = owed
       /\ \A d \in Clients : d # c => /\ subscriptions'[d] = subscriptions[d]
                                      /\ since'[d] = since[d]
  BY <1>1, <1>3 DEF StreamInv, StreamTypeOK
<1>11. StreamTypeOK'
  <2>1. since' \in [Clients -> [Paths -> 0..(Len(tx) + 1)]]
    BY <1>1, <1>3, <1>7
  <2>2. /\ DOMAIN subscriptions' = Clients
        /\ \A d \in Clients :
             /\ DOMAIN subscriptions'[d] \subseteq Keys
             /\ \A k \in DOMAIN subscriptions'[d] :
                  subscriptions'[d][k] \in ActiveSubscription
    <3>1. /\ DOMAIN subs \subseteq Keys
          /\ \A k \in DOMAIN subs : subs[k] \in ActiveSubscription
      BY <1>6, <1>9 DEF StreamInv, StreamTypeOK
    <3> QED
      BY <1>1, <1>10, <3>1 DEF StreamInv, StreamTypeOK
  <2> QED
    BY <1>1, <2>1, <2>2 DEF StreamInv, StreamTypeOK, storeVars
<1>12. \A d \in Clients : d # c => SameClient(d)
  BY <1>1, <1>10 DEF SameClient
<1>13. ClientCountExact'
  BY <1>1, SameCount DEF StreamInv
<1>14. LocalInv(c)' /\ CachedInv(c)'
  <2>1. \A k \in DOMAIN subs : subs[k].last_sent = None \/ subs[k].last_sent <= now
    BY <1>6, <1>9 DEF StreamInv, ClientInv, LocalInv
  <2> QED
    BY <1>1, <1>10, <2>1 DEF StreamInv, ClientInv, LocalInv, CachedInv, HoldsRead, storeVars
<1>15. \A p \in Covered(c)' : p \in Paths /\ (p \in Covered(c) \/ p \in msg.pattern)
  BY <1>6, <1>9, <1>10 DEF Covered
<1>16. ASSUME NEW p \in Covered(c)'
       PROVE  Fits(tx, next[c], 1, 1, p, owed[p], view[c][Self][p])
  <2>1. CASE p \in msg.pattern \ Covered(c)
    BY <1>2, <1>4, <1>8, <1>15, <2>1, OwedFromHere
  <2>2. CASE p \notin msg.pattern \ Covered(c)
    <3>1. p \in Covered(c) /\ owed[p] = since[c][p]
      BY <1>8, <1>15, <2>2
    <3> QED
      BY <1>1, <3>1 DEF StreamInv, ClientInv, LiveInv
  <2> QED
    BY <2>1, <2>2
<1>17. LiveInv(c)'
  BY <1>1, <1>10, <1>16 DEF LiveInv, storeVars
<1> QED
  BY <1>1, <1>11, <1>12, <1>13, <1>14, <1>17, OneClient DEF ClientInv

(* Fewer subscriptions, fewer paths the client is owed.                    *)
LEMMA DropStep ==
  ASSUME StreamInv, NEW c \in Clients, NEW keys, Idle(c), Drop(c, keys),
         UNCHANGED <<phase, mode, next, job, view, since, ws_client_count,
                     connects, storeVars>>
  PROVE  StreamInv'
<1> DEFINE subs == [k \in DOMAIN subscriptions[c] \ keys |-> subscriptions[c][k]]
<1>1. subscriptions' = [subscriptions EXCEPT ![c] = subs] /\ job[c] = None /\ phase[c] = "live"
  <2>1. c \in DOMAIN subscriptions
    BY DEF StreamInv, StreamTypeOK
  <2> QED
    BY <2>1 DEF Drop, Idle
<1>2. /\ DOMAIN subs \subseteq DOMAIN subscriptions[c]
      /\ \A k \in DOMAIN subs : subs[k] = subscriptions[c][k]
  OBVIOUS
<1> HIDE DEF subs
<1>3. /\ subscriptions'[c] = subs
      /\ \A d \in Clients : d # c => subscriptions'[d] = subscriptions[d]
  BY <1>1 DEF StreamInv, StreamTypeOK
<1>4. StreamTypeOK'
  <2>1. /\ DOMAIN subscriptions' = Clients
        /\ \A d \in Clients :
             /\ DOMAIN subscriptions'[d] \subseteq Keys
             /\ \A k \in DOMAIN subscriptions'[d] :
                  subscriptions'[d][k] \in ActiveSubscription
    BY <1>1, <1>2, <1>3 DEF StreamInv, StreamTypeOK
  <2> QED
    BY <2>1 DEF StreamInv, StreamTypeOK, storeVars
<1>5. \A d \in Clients : d # c => SameClient(d)
  BY <1>3 DEF SameClient
<1>6. ClientCountExact'
  BY SameCount DEF StreamInv
<1>7. LocalInv(c)' /\ CachedInv(c)'
  BY <1>1, <1>2, <1>3 DEF StreamInv, ClientInv, LocalInv, CachedInv, HoldsRead, storeVars
<1>8. \A p \in Covered(c)' : p \in Covered(c)
  BY <1>2, <1>3 DEF Covered
<1>9. LiveInv(c)'
  BY <1>1, <1>8 DEF StreamInv, ClientInv, LiveInv, storeVars
<1> QED
  BY <1>4, <1>5, <1>6, <1>7, <1>9, OneClient DEF ClientInv

(* What a step of the store does, as the clients see it: the clock moves   *)
(* on, a delta may be sent, and nothing while a client holds the lock.     *)
LEMMA StoreMoves ==
  ASSUME TypeInv, StoreStep
  PROVE  /\ [StoreNext]_storeVars
         /\ now' \in Int /\ now' >= now
         /\ tx' = tx \/ \E d : tx' = Append(tx, d)
         /\ writer = None /\ (\E c \in Clients : HoldsRead(c)) =>
              tx' = tx /\ vessels' = vessels /\ writer' = None
<1>0. now \in Nat
  BY StoreTypes
<1>1. ASSUME NEW body \in Bodies, ForwardForeign(body), \A c \in Clients : ~HoldsRead(c)
      PROVE  /\ StoreNext /\ now' = now /\ \E d : tx' = Append(tx, d)
  BY <1>1 DEF ForwardForeign, StoreNext
<1>2. ASSUME NEW context \in Contexts, NEW body \in Bodies, BeginDelta(context, body),
             \A c \in Clients : ~HoldsRead(c)
      PROVE  StoreNext /\ now' = now /\ tx' = tx
  BY <1>2 DEF BeginDelta, StoreNext
<1>3. ASSUME NEW m \in PriorityConfigs, SetSourcePriorities(m),
             \A c \in Clients : ~HoldsRead(c)
      PROVE  StoreNext /\ now' = now /\ tx' = tx
  BY <1>3 DEF SetSourcePriorities, StoreNext
<1>4. CASE RegisterSource \/ ApplyValue \/ NextUpdate
  BY <1>0, <1>4 DEF RegisterSource, ApplyValue, NextUpdate, StoreNext
<1>5. CASE FinishDelta
  BY <1>0, <1>5 DEF FinishDelta, StoreNext
<1>6. CASE Tick
  BY <1>0, <1>6 DEF Tick, StoreNext
<1> QED
  BY <1>0, <1>1, <1>2, <1>3, <1>4, <1>5, <1>6 DEF StoreStep

LEMMA StoreStepInv ==
  ASSUME TypeInv, TypeInv', StreamInv, StoreStep, UNCHANGED clientVars
  PROVE  StreamInv'
<1> USE DEF clientVars
<1>1. /\ now' \in Int /\ now' >= now
      /\ tx' = tx \/ \E d : tx' = Append(tx, d)
      /\ writer = None /\ (\E c \in Clients : HoldsRead(c)) =>
           tx' = tx /\ vessels' = vessels /\ writer' = None
  BY StoreMoves
<1>2. tx \in Seq(Delta) /\ Len(tx) \in Nat /\ now \in Nat
  BY StoreTypes
<1>3. tx' \in Seq(Delta) /\ Len(tx') \in Nat
  BY DEF TypeInv, StoreTypeOK
<1>4. Len(tx') >= Len(tx) /\ \A i \in 1..Len(tx) : tx'[i] = tx[i]
  BY <1>1, <1>2
<1>5. StreamTypeOK'
  <2>1. \A i : i \in 1..(Len(tx) + 1) => i \in 1..(Len(tx') + 1)
    BY <1>2, <1>3, <1>4
  <2>2. \A i : i \in 0..(Len(tx) + 1) => i \in 0..(Len(tx') + 1)
    BY <1>2, <1>3, <1>4
  <2>3. next' \in [Clients -> 1..(Len(tx') + 1)]
    BY <2>1 DEF StreamInv, StreamTypeOK
  <2>4. since' \in [Clients -> [Paths -> 0..(Len(tx') + 1)]]
    BY <2>2 DEF StreamInv, StreamTypeOK
  <2> QED
    BY <2>3, <2>4 DEF StreamInv, StreamTypeOK
<1>6. ClientCountExact'
  BY SameCount DEF StreamInv
<1>7. ASSUME NEW c \in Clients PROVE ClientInv(c)'
  <2>1. Covered(c)' = Covered(c) /\ \A p : Ahead(c, p)' <=> Ahead(c, p)
    BY DEF Covered, Ahead
  <2>2. HoldsRead(c) => tx' = tx /\ vessels' = vessels /\ writer' = None
    BY <1>1 DEF StreamInv, ClientInv, LocalInv
  <2>3. LocalInv(c)'
    <3>1. ASSUME NEW k \in DOMAIN subscriptions[c]
          PROVE  LET t == subscriptions[c][k].last_sent IN t = None \/ t <= now'
      <4>1. LET t == subscriptions[c][k].last_sent
            IN  t \in 0..MaxTime \cup {None} /\ (t = None \/ t <= now)
        BY DEF StreamInv, StreamTypeOK, ActiveSubscription, ClientInv, LocalInv
      <4> QED
        BY <1>1, <1>2, <4>1
    <3> QED
      BY <2>2, <3>1 DEF StreamInv, ClientInv, LocalInv, HoldsRead
  <2>4. CachedInv(c)'
    BY <2>1, <2>2 DEF StreamInv, ClientInv, CachedInv, HoldsRead
  <2>5. LiveInv(c)'
    <3> SUFFICES ASSUME phase[c] = "live" PROVE LiveInv(c)'
      BY DEF LiveInv
    <3>1. \A p \in Covered(c) : p \in Paths
      BY DEF Covered
    <3>2. next[c] \in 1..(Len(tx) + 1) /\ next[c] \in Nat
      BY <1>2 DEF StreamInv, StreamTypeOK
    <3>3. CASE job[c] = None
      <4> DEFINE n == next[c]
                 s(p) == since[c][p]
                 x(p) == view[c][Self][p]
      <4>1. n \in Nat /\ (n <= Len(tx) \/ (n = Len(tx) + 1 /\ 1 = 1 /\ 1 = 1))
        BY <1>2, <3>2
      <4>2. \A p \in Covered(c) : Fits(tx, n, 1, 1, p, s(p), x(p))
        BY <3>3 DEF StreamInv, ClientInv, LiveInv
      <4> HIDE DEF n, s, x
      <4>3. \A d : \A p \in Covered(c) : Fits(Append(tx, d), n, 1, 1, p, s(p), x(p))
        BY <1>2, <3>1, <4>1, <4>2, LaterLiesAhead
      <4>4. \A p \in Covered(c) : Fits(tx', n, 1, 1, p, s(p), x(p))
        BY <1>1, <4>2, <4>3
      <4> QED
        BY <2>1, <3>3, <4>4 DEF LiveInv, n, s, x
    <3>4. CASE job[c] # None
      <4> DEFINE n == next[c] - 1
                 u == job[c].update
                 k == job[c].value
                 s(p) == since[c][p]
                 x(p) == IF job[c].context = Self THEN job[c].shown[p]
                         ELSE view[c][Self][p]
      <4>1. n \in 1..Len(tx) /\ n \in Nat /\ n <= Len(tx) /\ u \in Nat /\ k \in Nat
        <5>1. n \in 1..Len(tx) /\ n \in Nat
          BY <3>4, PlaceOfCall
        <5>2. job[c] \in FilterCall
          BY <3>4 DEF StreamInv, StreamTypeOK
        <5> QED
          BY <1>2, <5>1, <5>2 DEF FilterCall
      <4>2. /\ next[c] >= 2 /\ job[c].context = ResolveContext(tx[n].context)
            /\ job[c].lists = ValuesOf(tx[n].updates)
            /\ \A p \in Covered(c) : Fits(tx, n, u, k, p, s(p), x(p))
        BY <3>4 DEF StreamInv, ClientInv, LiveInv
      <4>3. tx'[n] = tx[n]
        BY <1>4, <4>1
      <4> HIDE DEF n, u, k, s, x
      <4>4. \A d : \A p \in Covered(c) : Fits(Append(tx, d), n, u, k, p, s(p), x(p))
        BY <1>2, <3>1, <4>1, <4>2, LaterLiesAhead
      <4>5. \A p \in Covered(c) : Fits(tx', n, u, k, p, s(p), x(p))
        BY <1>1, <4>2, <4>4
      <4> QED
        BY <2>1, <3>4, <4>2, <4>3, <4>5 DEF LiveInv, n, u, k, s, x
    <3> QED
      BY <3>3, <3>4
  <2> QED
    BY <2>3, <2>4, <2>5 DEF ClientInv
<1> QED
  BY <1>5, <1>6, <1>7 DEF StreamInv

LEMMA ClientSteps ==
  ASSUME TypeInv, ToldInv, StreamInv, NEW c \in Clients,
         \/ \E m \in Modes : Connect(c, m)
         \/ LockStore(c) \/ HelloFails(c) \/ HelloSent(c)
         \/ FilterValue(c) \/ FilterUpdate(c) \/ GoLive(c) \/ Receive(c) \/ Lagged(c)
         \/ SendDelta(c) \/ SendFails(c)
         \/ \E msg \in SubscribeMsgs :
              \/ Subscribe(c, msg)
              \/ Unsubscribe(c, msg.context, msg.pattern)
         \/ \E context \in {SelfContext, AnyContext} : UnsubscribeAll(c, context)
         \/ Close(c)
  PROVE  StreamInv' /\ UNCHANGED storeVars
<1>1. ASSUME NEW m \in Modes, Connect(c, m) PROVE StreamInv' /\ UNCHANGED storeVars
  BY <1>1, ConnectStep DEF Connect
<1>2. CASE LockStore(c)
  BY <1>2, LockStep DEF LockStore
<1>3. CASE HelloFails(c) \/ SendFails(c) \/ Close(c)
  BY <1>3, HangUpStep DEF HelloFails, SendFails, Close, Idle, HangUp
<1>4. CASE HelloSent(c)
  BY <1>4, HelloStep DEF HelloSent
<1>5. CASE FilterValue(c)
  BY <1>5, FilterStep DEF FilterValue
<1>6. CASE FilterUpdate(c)
  BY <1>6, FilterUpdateStep DEF FilterUpdate
<1>7. CASE GoLive(c)
  BY <1>7, GoLiveStep DEF GoLive
<1>8. CASE Receive(c)
  BY <1>8, ReceiveStep DEF Receive
<1>9. CASE Lagged(c)
  BY <1>9, LaggedStep DEF Lagged
<1>10. CASE SendDelta(c)
  BY <1>10, SendStep DEF SendDelta
<1>11. ASSUME NEW msg \in SubscribeMsgs, Subscribe(c, msg)
       PROVE  StreamInv' /\ UNCHANGED storeVars
  BY <1>11, SubscribeStep DEF Subscribe
<1>12. ASSUME NEW context, NEW pattern, Unsubscribe(c, context, pattern)
       PROVE  StreamInv' /\ UNCHANGED storeVars
  BY <1>12, DropStep DEF Unsubscribe
<1>13. ASSUME NEW context, UnsubscribeAll(c, context)
       PROVE  StreamInv' /\ UNCHANGED storeVars
  BY <1>13, DropStep DEF UnsubscribeAll
<1> QED
  BY <1>1, <1>2, <1>3, <1>4, <1>5, <1>6, <1>7, <1>8, <1>9, <1>10, <1>11, <1>12, <1>13

(* The store's invariants hold of the stream, and with them StreamInv.     *)
LEMMA StreamStep ==
  ASSUME TypeInv, ToldInv, StreamInv, [StreamNext]_streamVars
  PROVE  TypeInv' /\ ToldInv' /\ StreamInv'
<1>1. CASE StoreStep /\ UNCHANGED clientVars
  <2>1. [StoreNext]_storeVars
    BY <1>1, StoreMoves
  <2>2. TypeInv' /\ ToldInv'
    BY <2>1, TypeStep, ToldStep
  <2> QED
    BY <1>1, <2>2, StoreStepInv
<1>2. ASSUME NEW c \in Clients, StreamInv' /\ UNCHANGED storeVars
      PROVE  TypeInv' /\ ToldInv' /\ StreamInv'
  BY <1>2, TypeStep, ToldStep
<1>3. CASE UNCHANGED streamVars
  <2>1. UNCHANGED storeVars /\ UNCHANGED clientVars
    BY <1>3 DEF streamVars
  <2>2. StreamTypeOK' /\ ClientCountExact'
    BY <2>1 DEF clientVars, storeVars, StreamInv, StreamTypeOK, ClientCountExact, Connected
  <2>3. ASSUME NEW c \in Clients PROVE ClientInv(c)'
    BY <2>1, OtherClient DEF SameClient, clientVars, StreamInv
  <2>4. StreamInv'
    BY <2>2, <2>3 DEF StreamInv
  <2> QED
    BY <2>1, <2>4, TypeStep, ToldStep
<1> QED
  BY <1>1, <1>2, <1>3, ClientSteps DEF StreamNext

(* A client that has come to the end of the channel shows the store.       *)
LEMMA FitsIsCurrent == TypeInv /\ ToldInv /\ StreamInv => StreamCorrect
<1> SUFFICES ASSUME TypeInv, ToldInv, StreamInv PROVE CaughtUpIsCurrent
  BY DEF StreamCorrect, StreamInv
<1> SUFFICES ASSUME NEW c \in Clients, CaughtUp(c), NEW p \in Covered(c),
                    since[c][p] = 0 \/ \E a \in Places(Self, p) : a[1] >= since[c][p]
             PROVE  Shows(view[c][Self][p], vessels[Self][p])
  BY DEF CaughtUpIsCurrent, Shows
<1>1. phase[c] = "live" /\ job[c] = None /\ next[c] = Len(tx) + 1 /\ writer = None
  BY DEF CaughtUp, Idle
<1>2. p \in Paths
  BY DEF Covered
<1>3. tx \in Seq(Delta) /\ Self \in Vessels
  BY StoreTypes
<1>4. Agrees(tx, Self, p, vessels[Self][p])
  BY <1>1, <1>2, <1>3 DEF ToldInv, Told
<1>5. Fits(tx, Len(tx) + 1, 1, 1, p, since[c][p], view[c][Self][p])
  BY <1>1 DEF StreamInv, ClientInv, LiveInv
<1>6. since[c][p] = 0 \/ \E l, m, n \in Nat : InDeltas(tx, Self, p, l, m, n) /\ since[c][p] <= l
  <2>1. CASE since[c][p] = 0
    BY <2>1
  <2>2. ASSUME NEW a \in Places(Self, p), a[1] >= since[c][p]
        PROVE  \E l, m, n \in Nat : InDeltas(tx, Self, p, l, m, n) /\ since[c][p] <= l
    <3>1. PICK l, m, n \in Nat : a = <<l, m, n>> /\ InDeltas(tx, Self, p, l, m, n)
      BY <1>3, PlacesAre
    <3>2. a[1] = l
      BY <3>1
    <3> QED
      BY <2>2, <3>1, <3>2
  <2> QED
    BY <2>1, <2>2
<1> QED
  BY <1>2, <1>3, <1>4, <1>5, <1>6, FitsShows

(* Whatever is written while clients connect, subscribe, unsubscribe and   *)
(* lag behind, and in whatever order filter_delta asks the subscriptions:  *)
(* a client that has received everything shows the store's value on every  *)
(* path it takes every new value of and was owed one, and the client       *)
(* counter is exact.                                                       *)
THEOREM StreamAlwaysCorrect == StreamSpec => []StreamCorrect
<1>1. StreamInit => TypeInv /\ ToldInv /\ StreamInv
  <2>1. StreamInit => StoreInit
    BY DEF StreamInit
  <2> QED
    BY <2>1, TypeInit, ToldInit, StreamInitInv
<1> QED
  BY <1>1, StreamStep, FitsIsCurrent, PTL DEF StreamSpec

=============================================================================
