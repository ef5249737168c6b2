------------------------------ MODULE Resources -----------------------------
(***************************************************************************)
(* The resources API: the V2 handlers (signalk-server/src/api/v2/          *)
(* resources.rs), the provider registry (resources/registry.rs) and the    *)
(* built-in file provider (resources/file_provider.rs), for one resource   *)
(* type, one plugin provider and the file provider behind it.              *)
(*                                                                         *)
(* Requests run concurrently.  A file is written to <id>.json.tmp and then *)
(* renamed: opening truncates, and both writers of one id open the same    *)
(* temporary file, so the model has inodes under the two names of an id.   *)
(***************************************************************************)
EXTENDS Integers, FiniteSets

CONSTANTS
  Ids,              \* ids of resources, also those that creation may draw
  Values,
  Handlers,         \* requests in flight
  Inodes,
  Missing,          \* no value, JSON null in a delta
  MaxResourceCalls, \* bound on requests
  MaxServerRestarts \* bound on resource_restarts

(* A file can always be created: there are more inodes than names and      *)
(* descriptors.                                                            *)
ASSUME ResourcesAssumption ==
  /\ IsFiniteSet(Ids) /\ IsFiniteSet(Handlers) /\ IsFiniteSet(Inodes)
  /\ Cardinality(Inodes) > 2 * Cardinality(Ids) + Cardinality(Handlers)
  /\ Missing \notin Values \cup Inodes
  /\ "empty" \notin Values /\ Missing # "empty"
  /\ {MaxResourceCalls, MaxServerRestarts} \subseteq Nat

ProviderChoices == {"any", "plugin", "file"}        \* ?provider=

VARIABLES
  disk,             \* the inode named <id>.json
  tmp,              \* the inode named <id>.json.tmp
  content,          \* of inodes; "empty" after truncation
  memory,           \* what the plugin's provider holds
  plugged,          \* the plugin's provider is registered
  by_default,       \* default_create_provider is the plugin
  call,             \* the requests in flight
  shown_resource,   \* what the store shows in context "resources"
  resource_calls, resource_restarts,
  disturbed         \* ids whose writers overlapped or were cut off (history)

resourceVars == <<disk, tmp, content, memory, plugged, by_default, call,
                  shown_resource, resource_calls, resource_restarts, disturbed>>
fileVars == <<disk, tmp, content>>
registryVars == <<plugged, by_default>>

NoCall == [op |-> "none"]
Handling == {s \in Handlers : call[s] # NoCall}
OnDisk(id) == disk[id] # Missing
Used == {disk[id] : id \in Ids} \cup {tmp[id] : id \in Ids}
        \cup {call[s].fd : s \in Handling}
NewInode == CHOOSE n \in Inodes : n \notin Used
Taken == {id \in Ids : OnDisk(id) \/ tmp[id] # Missing \/ memory[id] # Missing
                       \/ \E s \in Handling : call[s].id = id}

ResourcesInit ==
  /\ disk = [id \in Ids |-> Missing] /\ tmp = [id \in Ids |-> Missing]
  /\ content = [n \in Inodes |-> "empty"]
  /\ memory = [id \in Ids |-> Missing]
  /\ plugged = FALSE /\ by_default = FALSE
  /\ call = [s \in Handlers |-> NoCall]
  /\ shown_resource = [id \in Ids |-> Missing]
  /\ resource_calls = 0 /\ resource_restarts = 0
  /\ disturbed = {}

-----------------------------------------------------------------------------
(* register, unregister and set_default_provider; the plugin keeps its     *)
(* data.  unregister holds both locks, set_default_provider holds the one  *)
(* on the providers while it writes the other.                             *)
Register ==
  /\ ~plugged /\ plugged' = TRUE
  /\ UNCHANGED <<fileVars, memory, by_default, call, shown_resource, resource_calls,
                 resource_restarts, disturbed>>

Unregister ==
  /\ plugged /\ plugged' = FALSE /\ by_default' = FALSE
  /\ UNCHANGED <<fileVars, memory, call, shown_resource, resource_calls, resource_restarts, disturbed>>

SetDefaultProvider(provider) ==
  /\ provider = "plugin" => plugged
  /\ by_default' = (provider = "plugin")
  /\ UNCHANGED <<fileVars, memory, plugged, call, shown_resource, resource_calls,
                 resource_restarts, disturbed>>

(* A call arrives.  Two in flight for one id disturb it.                *)
AcceptCall(s, op, id, value, target, at) ==
  /\ call[s] = NoCall /\ resource_calls < MaxResourceCalls
  /\ resource_calls' = resource_calls + 1
  /\ call' = [call EXCEPT ![s] =
       [op |-> op, id |-> id, value |-> value, target |-> target, at |-> at,
        fd |-> Missing]]
  /\ disturbed' = IF \E x \in Handling : call[x].id = id
                  THEN disturbed \cup {id} ELSE disturbed
  /\ UNCHANGED <<fileVars, memory, registryVars, shown_resource, resource_restarts>>

(* POST: the id is a fresh UUID of the provider that is chosen later.      *)
CreateResource(s, id, value, target) ==
  /\ id \notin Taken
  /\ AcceptCall(s, "create", id, value, target, "route")
ReplaceResource(s, id, value, target) == AcceptCall(s, "update", id, value, target, "route")
DeleteResource(s, id, target) == AcceptCall(s, "delete", id, Missing, target, "route")

Step(s, at) == call' = [call EXCEPT ![s].at = at]
Reply(s) == call' = [call EXCEPT ![s] = NoCall]
Reached(s, at) == s \in Handling /\ call[s].at = at
RegistrySame == UNCHANGED <<registryVars, resource_calls, resource_restarts, disturbed>>

(* ?provider=X names a provider that is not registered: 404.               *)
NoSuchProvider(s) ==
  /\ Reached(s, "route") /\ call[s].target = "plugin" /\ ~plugged
  /\ Reply(s)
  /\ UNCHANGED <<fileVars, memory, shown_resource>> /\ RegistrySame

(* Which of the two a call goes to: creation to the default provider if *)
(* it is still registered; the rest to the plugin first if it is there.    *)
ToPlugin(s) == plugged /\ \/ call[s].target = "plugin"
                          \/ call[s].target = "any"
                             /\ (call[s].op = "create" => by_default)

(* The plugin's own answer: done, not found, or a failure (500).           *)
PluginAnswers(s) ==
  LET r == call[s]
      held == memory[r.id] # Missing
  IN  /\ Reached(s, "route") /\ ToPlugin(s)
      /\ \/ /\ r.op = "create" \/ held
            /\ memory' = [memory EXCEPT ![r.id] = r.value]
            /\ Step(s, "emit")
         \/ /\ r.op # "create" /\ ~held
            /\ IF r.target = "any" THEN Step(s, "file") ELSE Reply(s)
            /\ UNCHANGED memory
         \/ Reply(s) /\ UNCHANGED memory
      /\ UNCHANGED <<fileVars, shown_resource>> /\ RegistrySame

ToFile(s) ==
  /\ Reached(s, "route") /\ ~ToPlugin(s) /\ call[s].target # "plugin"
  /\ Step(s, "file")
  /\ UNCHANGED <<fileVars, memory, shown_resource>> /\ RegistrySame

(* update: 404 unless the file exists now.                                 *)
FileMissing(s) ==
  /\ Reached(s, "file") /\ call[s].op # "create" /\ ~OnDisk(call[s].id)
  /\ Reply(s)
  /\ UNCHANGED <<fileVars, memory, shown_resource>> /\ RegistrySame

FileFound(s) ==
  /\ Reached(s, "file")
  /\ \/ call[s].op = "create"
     \/ call[s].op = "update" /\ OnDisk(call[s].id)
  /\ Step(s, "open")
  /\ UNCHANGED <<fileVars, memory, shown_resource>> /\ RegistrySame

RemoveFile(s) ==
  /\ Reached(s, "file") /\ call[s].op = "delete" /\ OnDisk(call[s].id)
  /\ disk' = [disk EXCEPT ![call[s].id] = Missing]
  /\ Step(s, "emit")
  /\ UNCHANGED <<tmp, content, memory, shown_resource>> /\ RegistrySame

(* fs::write opens <id>.json.tmp, creating or truncating it, ...           *)
OpenTemporary(s) ==
  LET id == call[s].id
      n  == IF tmp[id] = Missing THEN NewInode ELSE tmp[id]
  IN  /\ Reached(s, "open")
      /\ tmp' = [tmp EXCEPT ![id] = n]
      /\ content' = [content EXCEPT ![n] = "empty"]
      /\ call' = [call EXCEPT ![s].fd = n, ![s].at = "write"]
      /\ UNCHANGED <<disk, memory, shown_resource>> /\ RegistrySame

(* ... writes through the descriptor, wherever the name has gone, or fails. *)
WriteTemporary(s, succeeds) ==
  /\ Reached(s, "write")
  /\ IF succeeds
     THEN /\ content' = [content EXCEPT ![call[s].fd] = call[s].value]
          /\ call' = [call EXCEPT ![s].fd = Missing, ![s].at = "rename"]
     ELSE Reply(s) /\ UNCHANGED content
  /\ UNCHANGED <<disk, tmp, memory, shown_resource>> /\ RegistrySame

(* The rename takes whatever has the temporary name; without it, 500.      *)
Rename(s) ==
  LET id == call[s].id
  IN  /\ Reached(s, "rename")
      /\ IF tmp[id] = Missing
         THEN Reply(s) /\ UNCHANGED <<disk, tmp>>
         ELSE /\ disk' = [disk EXCEPT ![id] = tmp[id]]
              /\ tmp' = [tmp EXCEPT ![id] = Missing]
              /\ Step(s, "emit")
      /\ UNCHANGED <<content, memory, shown_resource>> /\ RegistrySame

EmitResource_created(s) ==
  /\ Reached(s, "emit")
  /\ shown_resource' = IF call[s].op = "delete" THEN shown_resource
              ELSE [shown_resource EXCEPT ![call[s].id] = call[s].value]
  /\ Reply(s)
  /\ UNCHANGED <<fileVars, memory>> /\ RegistrySame

(* emit_resource_delta, then the answer to the client.                     *)
EmitResource(s) ==
  /\ Reached(s, "emit")
  /\ shown_resource' = [shown_resource EXCEPT ![call[s].id] = call[s].value]
  /\ Reply(s)
  /\ UNCHANGED <<fileVars, memory>> /\ RegistrySame

(* The client goes away and the handler is dropped where it stands.        *)
Disconnect(s) ==
  /\ s \in Handling
  /\ Reply(s)
  /\ disturbed' = disturbed \cup {call[s].id}
  /\ UNCHANGED <<fileVars, memory, registryVars, shown_resource, resource_calls, resource_restarts>>

(* The server stops and starts again: files stay, the store is empty, the  *)
(* plugin registers anew.                                                  *)
ServerRestarts ==
  /\ resource_restarts < MaxServerRestarts /\ resource_restarts' = resource_restarts + 1
  /\ call' = [s \in Handlers |-> NoCall]
  /\ shown_resource' = [id \in Ids |-> Missing]
  /\ plugged' = FALSE /\ by_default' = FALSE
  /\ UNCHANGED <<fileVars, memory, resource_calls, disturbed>>

ResourcesNext ==
  \/ Register \/ Unregister \/ ServerRestarts
  \/ \E p \in {"plugin", "file"} : SetDefaultProvider(p)
  \/ \E s \in Handlers :
       \/ \E id \in Ids, t \in ProviderChoices :
            DeleteResource(s, id, t) \/ \E v \in Values : CreateResource(s, id, v, t) \/ ReplaceResource(s, id, v, t)
       \/ NoSuchProvider(s) \/ PluginAnswers(s) \/ ToFile(s)
       \/ FileMissing(s) \/ FileFound(s) \/ RemoveFile(s)
       \/ OpenTemporary(s) \/ Rename(s) \/ EmitResource(s) \/ Disconnect(s)
       \/ \E succeeds \in BOOLEAN : WriteTemporary(s, succeeds)

ResourcesSpec == ResourcesInit /\ [][ResourcesNext]_resourceVars

-----------------------------------------------------------------------------
(* get: the plugin first, then the file; a file that does not parse is an  *)
(* error there.  list: the same order by id, and skips such a file.        *)
FileValue(id) == IF OnDisk(id) THEN content[disk[id]] ELSE Missing
InPlugin(id) == plugged /\ memory[id] # Missing
Get(id) == IF InPlugin(id) THEN memory[id] ELSE FileValue(id)

(* Requests, files and the registry are well formed; no two names share a  *)
(* file.                                                                   *)
ResourcesTypeOK ==
  /\ disk \in [Ids -> Inodes \cup {Missing}]
  /\ tmp \in [Ids -> Inodes \cup {Missing}]
  /\ content \in [Inodes -> Values \cup {"empty"}]
  /\ memory \in [Ids -> Values \cup {Missing}]
  /\ shown_resource \in [Ids -> Values \cup {Missing}]
  /\ by_default => plugged
  /\ \A id, other \in Ids :
       /\ tmp[id] # Missing => tmp[id] # disk[other]
       /\ id # other /\ tmp[id] # Missing => tmp[id] # tmp[other]
       /\ id # other /\ disk[id] # Missing => disk[id] # disk[other]

(* A resource's file is never seen half written, also after a crash or a   *)
(* failed write, as long as its writers did not overlap.                   *)
WholeWhenAlone ==
  \A id \in Ids \ disturbed : FileValue(id) # "empty"

(* Once nobody writes a resource, the store shows what a GET returns,      *)
(* whichever provider it ended up with and whatever happened to other      *)
(* resources; what an absent plugin holds stays shown.                     *)
StoreShowsResource ==
  \A id \in Ids \ disturbed :
    (~(\E s \in Handling : call[s].id = id) /\ shown_resource[id] # Missing)
      => shown_resource[id] = IF plugged \/ memory[id] = Missing THEN Get(id) ELSE memory[id]

(* What the file provider and the store owe the reader of a resource: no   *)
(* half-written file, and the value in the store is the one a GET returns. *)
ResourcesCorrect == ResourcesTypeOK /\ WholeWhenAlone /\ StoreShowsResource
=============================================================================
