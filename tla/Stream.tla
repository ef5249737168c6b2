------------------------------- MODULE Stream ------------------------------
(***************************************************************************)
(* The WebSocket stream on top of the store: crates/signalk-server/src/ws  *)
(* (handle_socket and its message handlers) and the subscription filter,   *)
(* crates/signalk-store/src/subscription.rs.                               *)
(*                                                                         *)
(* A client task takes the store's READ lock, sends the hello message and  *)
(* the cached values while it holds it, subscribes to the broadcast        *)
(* channel and only then releases it.  Afterwards it loops: receive a      *)
(* delta, filter it value by value, send what is left.                     *)
(*                                                                         *)
(* The broadcast channel is tokio's (external): a ring of Capacity slots,  *)
(* a receiver that fell behind is moved to the oldest delta still held and *)
(* told that it lagged.  A pattern is the set of paths it matches; a key   *)
(* of the subscription map is <<context, pattern>>, or DefaultKey for the  *)
(* subscription the connect mode creates.  The admin statistics messages   *)
(* carry no deltas and are left out.                                       *)
(***************************************************************************)
EXTENDS Store, SequencesExt

CONSTANTS
  Clients,
  Modes,            \* connect modes in use: subset of {"self", "all", "none"}
  SubscribeMsgs,    \* [context, pattern, policy, min_period] clients send
  Capacity,         \* BROADCAST_CAPACITY
  Period,           \* the default period, in ticks of the clock
  MaxConnects       \* bound on connections

AnyContext == "**"
DefaultKey == <<"default", {}>>
Views == Vessels \cup {ForeignContext}
Blank == [x \in Views |-> [p \in Paths |-> None]]

Policies == {"instant", "ideal", "fixed"}
SubscribeMsg == [context : {SelfContext, AnyContext}, pattern : SUBSET Paths,
                 policy : Policies, min_period : Nat]
ActiveSubscription ==
  [context : {SelfContext, AnyContext}, pattern : SUBSET Paths,
   policy : Policies, min_period : Nat,
   last_sent : 0..MaxTime \cup {None}, last_value : Vals \cup {None}]
(* A filter_delta call: the values of the delta's updates, the update and  *)
(* the value it has come to, what the client will show of the context once *)
(* the result is sent, and whether the result has a value at all.          *)
FilterCall ==
  [context : Views, lists : Seq(Seq(PathValue)), update : Nat, value : Nat,
   shown : [Paths -> Vals \cup {None}], matched : BOOLEAN]

ASSUME StreamAssumption ==
  /\ IsFiniteSet(Clients)
  /\ IsFiniteSet(Paths)
  /\ Modes \subseteq {"self", "all", "none"}
  /\ SubscribeMsgs \subseteq SubscribeMsg
  /\ Capacity \in Nat \ {0}
  /\ Period \in Nat
  /\ MaxConnects \in Nat
  /\ None \notin FilterCall

VARIABLES
  phase,           \* where handle_socket of a client stands
  mode,            \* the connect mode
  subscriptions,   \* the subscription map: key -> ActiveSubscription
  next,            \* index in tx of the next delta of the receiver
  job,             \* the filter_delta call in progress, or None
  view,            \* what the client was told: view[c][context][path]
  since,           \* since[c][p]: the client is owed path p of every delta
                   \* from this index of tx on; 0 when it was also sent the
                   \* cached value
  ws_client_count,
  connects

clientVars == <<phase, mode, subscriptions, next, job, view, since,
                ws_client_count, connects>>
streamVars == <<storeVars, clientVars>>

-----------------------------------------------------------------------------
(* ActiveSubscription::new                                                 *)
NewSubscription(context, pattern, policy, min_period) ==
  [context |-> context, pattern |-> pattern, policy |-> policy,
   min_period |-> min_period, last_sent |-> None, last_value |-> None]

(* Has at least d passed since the subscription last sent something?       *)
Elapsed(sub, d) == sub.last_sent = None \/ now - sub.last_sent >= d

(* ActiveSubscription::should_deliver.  The context is not looked at.      *)
ShouldDeliver(sub, path, value) ==
  /\ path \in sub.pattern
  /\ CASE sub.policy = "instant" -> Elapsed(sub, sub.min_period)
       [] sub.policy = "ideal" ->
            IF value # sub.last_value THEN Elapsed(sub, sub.min_period)
            ELSE Elapsed(sub, Period)
       [] sub.policy = "fixed" -> Elapsed(sub, Period)

(* ActiveSubscription::mark_sent                                           *)
MarkSent(sub, value) ==
  [sub EXCEPT !.last_sent = now, !.last_value = value]

(* A delta as filter_delta walks it: the values of each update.            *)
ValuesOf(updates) == [i \in 1..Len(updates) |-> updates[i].values]

(* The subscription map a connect mode starts with.                        *)
InitialSubscriptions(m) ==
  IF m = "none" THEN [k \in {} |-> None]
  ELSE [k \in {DefaultKey} |->
          NewSubscription(IF m = "self" THEN SelfContext ELSE AnyContext,
                          Paths, "ideal", 0)]

(* Mutant: the guard is dropped before the cached values are filtered.     *)
HoldsRead_early(c) == phase[c] = "hello"
(* Mutant: the guard lives as long as the connection.                      *)
HoldsRead_kept(c) == phase[c] \in {"hello", "cached", "live"}

(* The task of client c holds the store's read lock.                       *)
HoldsRead(c) == phase[c] \in {"hello", "cached"}

Connected(c) == phase[c] # "off"

-----------------------------------------------------------------------------
StreamInit ==
  /\ StoreInit
  /\ phase = [c \in Clients |-> "off"]
  /\ mode = [c \in Clients |-> "none"]
  /\ subscriptions = [c \in Clients |-> InitialSubscriptions("none")]
  /\ next = [c \in Clients |-> 1]
  /\ job = [c \in Clients |-> None]
  /\ view = [c \in Clients |-> Blank]
  /\ since = [c \in Clients |-> [p \in Paths |-> 1]]
  /\ ws_client_count = 0
  /\ connects = 0

(* The upgrade: the client is counted, then the task waits for the lock.   *)
Connect(c, m) ==
  /\ phase[c] = "off"
  /\ connects < MaxConnects
  /\ connects' = connects + 1
  /\ phase' = [phase EXCEPT ![c] = "waiting"]
  /\ mode' = [mode EXCEPT ![c] = m]
  /\ ws_client_count' = ws_client_count + 1
  /\ UNCHANGED <<subscriptions, next, job, view, since, storeVars>>

(* store.read().await                                                      *)
LockStore(c) ==
  /\ phase[c] = "waiting"
  /\ writer = None
  /\ phase' = [phase EXCEPT ![c] = "hello"]
  /\ UNCHANGED <<mode, subscriptions, next, job, view, since,
                 ws_client_count, connects, storeVars>>

(* Hang up: every path out of handle_socket decrements the counter; the    *)
(* locals of the task are gone.                                            *)
HangUp(c) ==
  /\ phase' = [phase EXCEPT ![c] = "off"]
  /\ mode' = [mode EXCEPT ![c] = "none"]
  /\ subscriptions' = [subscriptions EXCEPT ![c] = InitialSubscriptions("none")]
  /\ next' = [next EXCEPT ![c] = 1]
  /\ job' = [job EXCEPT ![c] = None]
  /\ view' = [view EXCEPT ![c] = Blank]
  /\ since' = [since EXCEPT ![c] = [p \in Paths |-> 1]]
  /\ ws_client_count' = ws_client_count - 1
  /\ UNCHANGED <<connects, storeVars>>

(* The hello message could not be sent.                                    *)
HelloFails(c) == phase[c] = "hello" /\ HangUp(c)

(* filter_delta is called on the lists of values of a delta for a context. *)
Filter(c, context, lists) ==
  job' = [job EXCEPT ![c] =
    [context |-> context, lists |-> lists, update |-> 1, value |-> 1,
     shown |-> view[c][context], matched |-> FALSE]]

(* The hello is out; the initial subscriptions exist and the cached values *)
(* of the self vessel, in the arbitrary order of the hash map, go through  *)
(* filter_delta.  Mode none has no subscriptions and skips the values.     *)
HelloSent(c) ==
  /\ phase[c] = "hello"
  /\ LET self == {p \in Paths : vessels[Self][p] # None}
     IN  \E order \in SetToSeqs(self), cached \in BOOLEAN :
           LET values == [i \in 1..Cardinality(self) |->
                 [path |-> order[i], value |-> vessels[Self][order[i]].value]]
               sends == cached /\ mode[c] # "none"
           IN  /\ subscriptions' = [subscriptions EXCEPT
                                      ![c] = InitialSubscriptions(mode[c])]
               /\ Filter(c, Self, IF sends THEN <<values>> ELSE <<>>)
               /\ since' = [since EXCEPT ![c] =
                    [p \in Paths |-> IF sends THEN 0 ELSE Len(tx) + 1]]
  /\ phase' = [phase EXCEPT ![c] = "cached"]
  /\ UNCHANGED <<mode, next, view, ws_client_count, connects, storeVars>>

(* The call has come to a value; it is through with an update; it is done. *)
AtValue(c)   == /\ job[c] # None
                /\ job[c].update <= Len(job[c].lists)
                /\ job[c].value <= Len(job[c].lists[job[c].update])
AtEnd(c)     == /\ job[c] # None
                /\ job[c].update <= Len(job[c].lists)
                /\ job[c].value > Len(job[c].lists[job[c].update])
Filtered(c)  == job[c] # None /\ job[c].update > Len(job[c].lists)

(* The index the next delta will have that client c receives.              *)
Upcoming(c) == IF phase[c] = "cached" THEN Len(tx) + 1 ELSE next[c]

(* An ideal subscription takes the value for a repeat, although the client *)
(* shows something else on this path: the subscription has last sent it    *)
(* for another path or context, or another subscription has sent since.    *)
(* The client is owed the path again from the next delta on.               *)
MistakenRepeat(c, pv) ==
  /\ job[c].context = Self
  /\ job[c].shown[pv.path] # pv.value
  /\ \E k \in DOMAIN subscriptions[c] :
       LET sub == subscriptions[c][k]
       IN  sub.policy = "ideal" /\ pv.path \in sub.pattern /\ sub.last_value = pv.value

(* What filter_delta makes of a value, and of an update it is through with. *)
Taken(call, pv) == [call EXCEPT !.value = @ + 1, !.matched = TRUE,
                                !.shown[pv.path] = pv.value]
Withheld(call)  == [call EXCEPT !.value = @ + 1]
Through(call)   == [call EXCEPT !.update = @ + 1, !.value = 1]

(* One value of filter_delta: the first subscription of the hash map that  *)
(* wants it takes it; the order of the map is arbitrary.                   *)
FilterValue(c) ==
  /\ AtValue(c)
  /\ LET pv == job[c].lists[job[c].update][job[c].value]
         takers == {k \in DOMAIN subscriptions[c] :
                      ShouldDeliver(subscriptions[c][k], pv.path, pv.value)}
     IN  \/ \E k \in takers :
              /\ job' = [job EXCEPT ![c] = Taken(@, pv)]
              /\ subscriptions' = [subscriptions EXCEPT
                                     ![c][k] = MarkSent(@, pv.value)]
              /\ UNCHANGED since
         \/ /\ takers = {}
            /\ job' = [job EXCEPT ![c] = Withheld(@)]
            /\ since' = IF MistakenRepeat(c, pv)
                        THEN [since EXCEPT ![c][pv.path] = Upcoming(c)]
                        ELSE since
            /\ UNCHANGED subscriptions
  /\ UNCHANGED <<phase, mode, next, view, ws_client_count, connects, storeVars>>

(* filter_delta goes on to the next update.                                *)
FilterUpdate(c) ==
  /\ AtEnd(c)
  /\ job' = [job EXCEPT ![c] = Through(@)]
  /\ UNCHANGED <<phase, mode, subscriptions, next, view, since,
                 ws_client_count, connects, storeVars>>

(* The cached values are sent (or lost: the result is ignored), the task   *)
(* subscribes to the channel and drops the read lock.                      *)
GoLive(c) ==
  /\ phase[c] = "cached"
  /\ Filtered(c)
  /\ view' = [view EXCEPT ![c][Self] = job[c].shown]
  /\ next' = [next EXCEPT ![c] = Len(tx) + 1]
  /\ job' = [job EXCEPT ![c] = None]
  /\ phase' = [phase EXCEPT ![c] = "live"]
  /\ UNCHANGED <<mode, subscriptions, since, ws_client_count, connects,
                 storeVars>>

Idle(c) == phase[c] = "live" /\ job[c] = None

(* The channel still holds the receiver's next delta.                      *)
InRing(i) == i <= Len(tx) /\ i > Len(tx) - Capacity

(* rx.recv() returned a delta.                                             *)
Receive(c) ==
  /\ Idle(c)
  /\ InRing(next[c])
  /\ Filter(c, ResolveContext(tx[next[c]].context),
            ValuesOf(tx[next[c]].updates))
  /\ next' = [next EXCEPT ![c] = @ + 1]
  /\ UNCHANGED <<phase, mode, subscriptions, view, since, ws_client_count,
                 connects, storeVars>>

(* Mutant: the receiver is not moved on after a lag.                       *)
Lagged_stuck(c) ==
  /\ Idle(c)
  /\ next[c] <= Len(tx) - Capacity
  /\ since' = [since EXCEPT ![c] = [p \in Paths |-> Len(tx) - Capacity + 1]]
  /\ UNCHANGED <<phase, mode, subscriptions, next, job, view,
                 ws_client_count, connects, storeVars>>

(* rx.recv() returned Lagged: logged, and the loop goes on with the oldest *)
(* delta the ring still holds.                                             *)
Lagged(c) ==
  /\ Idle(c)
  /\ next[c] <= Len(tx) - Capacity
  /\ next' = [next EXCEPT ![c] = Len(tx) - Capacity + 1]
  /\ since' = [since EXCEPT ![c] = [p \in Paths |-> Len(tx) - Capacity + 1]]
  /\ UNCHANGED <<phase, mode, subscriptions, job, view, ws_client_count,
                 connects, storeVars>>

(* The filtered delta is sent, if anything is left of it.                  *)
SendDelta(c) ==
  /\ phase[c] = "live"
  /\ Filtered(c)
  /\ view' = [view EXCEPT ![c][job[c].context] = job[c].shown]
  /\ job' = [job EXCEPT ![c] = None]
  /\ UNCHANGED <<phase, mode, subscriptions, next, since, ws_client_count,
                 connects, storeVars>>

(* The send failed: the client is gone.                                    *)
SendFails(c) ==
  /\ phase[c] = "live"
  /\ Filtered(c)
  /\ job[c].matched
  /\ HangUp(c)

(* The subscription takes every new value of its paths at once.            *)
Prompt(sub) == sub.policy # "fixed" /\ sub.min_period = 0

(* The self paths the client takes every new value of.                     *)
Covered(c) ==
  {p \in Paths : \E k \in DOMAIN subscriptions[c] :
                   Prompt(subscriptions[c][k]) /\ p \in subscriptions[c][k].pattern}

(* apply_subscriptions: one entry per path, under <<context, pattern>>.    *)
Subscribe(c, msg) ==
  /\ Idle(c)
  /\ subscriptions' = [subscriptions EXCEPT ![c] =
       [k \in DOMAIN @ \cup {<<msg.context, msg.pattern>>} |->
          IF k = <<msg.context, msg.pattern>>
          THEN NewSubscription(msg.context, msg.pattern, msg.policy,
                               msg.min_period)
          ELSE subscriptions[c][k]]]
  /\ since' = [since EXCEPT ![c] =
       [p \in Paths |-> IF p \in msg.pattern \ Covered(c) THEN next[c]
                       ELSE since[c][p]]]
  /\ UNCHANGED <<phase, mode, next, job, view, ws_client_count, connects,
                 storeVars>>

Drop(c, keys) ==
  subscriptions' = [subscriptions EXCEPT ![c] =
                      [k \in DOMAIN @ \ keys |-> subscriptions[c][k]]]

(* apply_unsubscribe for one path, and for the path "*".                   *)
Unsubscribe(c, context, pattern) ==
  /\ Idle(c)
  /\ Drop(c, {<<context, pattern>>})
  /\ UNCHANGED <<phase, mode, next, job, view, since, ws_client_count,
                 connects, storeVars>>

UnsubscribeAll(c, context) ==
  /\ Idle(c)
  /\ Drop(c, {k \in DOMAIN subscriptions[c] : k[1] = context})
  /\ UNCHANGED <<phase, mode, next, job, view, since, ws_client_count,
                 connects, storeVars>>

(* The client closes the socket, or reading from it fails.                 *)
Close(c) == Idle(c) /\ HangUp(c)

ClientStep(c) ==
  \/ LockStore(c) \/ HelloFails(c) \/ HelloSent(c)
  \/ FilterValue(c) \/ FilterUpdate(c) \/ GoLive(c) \/ Receive(c) \/ Lagged(c) \/ SendDelta(c) \/ SendFails(c)

(* Writers wait while a client task holds the read lock.                   *)
StoreStep ==
  \/ /\ \A c \in Clients : ~HoldsRead(c)
     /\ \/ \E body \in Bodies : ForwardForeign(body)
        \/ \E context \in Contexts, body \in Bodies : BeginDelta(context, body)
        \/ \E m \in PriorityConfigs : SetSourcePriorities(m)
  \/ RegisterSource
  \/ ApplyValue
  \/ NextUpdate
  \/ FinishDelta
  \/ Tick

StreamNext ==
  \/ StoreStep /\ UNCHANGED clientVars
  \/ \E c \in Clients :
       \/ \E m \in Modes : Connect(c, m)
       \/ LockStore(c)
       \/ HelloFails(c)
       \/ HelloSent(c)
       \/ FilterValue(c)
       \/ FilterUpdate(c)
       \/ GoLive(c)
       \/ Receive(c)
       \/ Lagged(c)
       \/ SendDelta(c)
       \/ SendFails(c)
       \/ \E msg \in SubscribeMsgs :
            \/ Subscribe(c, msg)
            \/ Unsubscribe(c, msg.context, msg.pattern)
       \/ \E context \in {SelfContext, AnyContext} : UnsubscribeAll(c, context)
       \/ Close(c)

StreamSpec == StreamInit /\ [][StreamNext]_streamVars

(* apply_delta runs to its end, and a client task keeps running: its       *)
(* socket either accepts a message or reports an error.                    *)
StreamFairness ==
  /\ WF_streamVars((RegisterSource \/ ApplyValue \/ NextUpdate \/ FinishDelta)
                   /\ UNCHANGED clientVars)
  /\ \A c \in Clients : WF_streamVars(ClientStep(c))

FairStreamSpec == StreamSpec /\ StreamFairness

-----------------------------------------------------------------------------
(* Client tasks, their filter calls and their maps stay in their ranges.   *)
Keys == {DefaultKey} \cup ({SelfContext, AnyContext} \X SUBSET Paths)

StreamTypeOK ==
  /\ phase \in [Clients -> {"off", "waiting", "hello", "cached", "live"}]
  /\ mode \in [Clients -> {"self", "all", "none"}]
  /\ DOMAIN subscriptions = Clients
  /\ \A c \in Clients :
       /\ DOMAIN subscriptions[c] \subseteq Keys
       /\ \A k \in DOMAIN subscriptions[c] :
            subscriptions[c][k] \in ActiveSubscription
  /\ next \in [Clients -> 1..(Len(tx) + 1)]
  /\ job \in [Clients -> FilterCall \cup {None}]
  /\ view \in [Clients -> [Views -> [Paths -> Vals \cup {None}]]]
  /\ since \in [Clients -> [Paths -> 0..(Len(tx) + 1)]]
  /\ connects \in 0..MaxConnects

CaughtUp(c) == /\ Idle(c)
               /\ next[c] = Len(tx) + 1
               /\ writer = None

(* Snapshot and stream fit together: a client that has received everything *)
(* shows the store's value on every self path it takes every new value of  *)
(* and was owed one, whatever was written while it connected, wherever it  *)
(* lagged and whatever it subscribed to later.  Only three things lose a   *)
(* value for such a path: a lag, a subscription that comes later, and a    *)
(* MistakenRepeat; what comes after them arrives again.                    *)
CaughtUpIsCurrent ==
  \A c \in Clients : CaughtUp(c) =>
    \A p \in Covered(c) :
      since[c][p] = 0 \/ (\E a \in Places(Self, p) : a[1] >= since[c][p])
          => view[c][Self][p] = IF vessels[Self][p] = None THEN None
                                ELSE vessels[Self][p].value

(* The client counter of the server statistics is the number of open       *)
(* sockets: no early return of handle_socket misses its decrement.         *)
ClientCountExact ==
  ws_client_count = Cardinality({c \in Clients : Connected(c)})

(* What a client and the server statistics rely on in the stream.          *)
StreamCorrect == StreamTypeOK /\ CaughtUpIsCurrent /\ ClientCountExact

(* The read lock a connecting client holds is always given back, so a      *)
(* delta is never kept out of the store for good.                          *)
ReadLockReleased == \A c \in Clients : HoldsRead(c) ~> ~HoldsRead(c)

(* A live client works off the channel: it catches up or is disconnected.  *)
EventuallyCaughtUp ==
  \A c \in Clients :
    [](phase[c] = "live" => <>(~Connected(c) \/ next[c] = Len(tx) + 1))

=============================================================================
