---------------------------- MODULE Preferences ----------------------------
(***************************************************************************)
(* The unit preferences, crates/signalk-server/src/unitpreferences: which  *)
(* unit the clients are told to show a path in.                            *)
(*                                                                         *)
(* The manager answers from memory, behind a RwLock; what is saved is      *)
(* written to files first or last, outside or inside the lock, and a start *)
(* of the server reads the files again.  std::fs::write empties a file and *)
(* then fills it: a reader, or a crash, in between finds it `Spoilt'.      *)
(* HTTP handlers run in parallel on the runtime's threads.                 *)
(*                                                                         *)
(* A preset maps categories to units, a definition the units a base unit   *)
(* converts to to their formulas; a path is a sequence of segments.        *)
(***************************************************************************)
EXTENDS Naturals, Sequences, TLC

CONSTANTS
  PresetNames,       \* names of presets, shipped ones and custom ones
  Shipped,           \* what comes with the server: presets, definitions,
                     \* base (units of categories), paths (of categories), config
  SavedPresets,      \* what clients save: presets,
  SavedDefinitions,  \* unit definitions
  SavedCategories,   \* and categories of paths
  UnitClients,
  UnitPaths,         \* the paths asked for
  NoFile, Spoilt, Off,
  MaxUnitCalls,      \* bounds
  MaxUnitStarts

ASSUME PreferencesAssumption ==
  /\ DOMAIN Shipped.presets \subseteq PresetNames
  /\ Shipped.config \in DOMAIN Shipped.presets
  /\ MaxUnitCalls \in Nat /\ MaxUnitStarts \in Nat

VARIABLES
  files,       \* config, presets[name], definitions, categories in data_dir
  units,       \* Inner, or Off when the manager could not be created
  unitJob,     \* unitJob[c]: what is left of the request of client c
  alone,       \* no two requests overlapped and none failed, since the start
  unitCalls, unitStarts

prefVars == <<files, units, unitJob, alone, unitCalls, unitStarts>>

-----------------------------------------------------------------------------
(* loader.rs.                                                              *)
Failed(x) == x \in {NoFile, Spoilt}

load_definitions(fs) ==
  IF fs.definitions = NoFile THEN Shipped.definitions
  ELSE IF fs.definitions = Spoilt THEN Spoilt
  ELSE LET custom == fs.definitions
           With(f, b) == IF b \in DOMAIN f THEN f[b] ELSE <<>>
       IN  [b \in DOMAIN custom \cup DOMAIN Shipped.definitions |->
              With(custom, b) @@ With(Shipped.definitions, b)]

load_config(fs) == IF Failed(fs.config) THEN Shipped.config ELSE fs.config

load_custom_categories(fs) == IF Failed(fs.categories) THEN <<>> ELSE fs.categories

(* A custom preset hides the shipped one of its name.                      *)
load_preset(fs, name) ==
  IF fs.presets[name] # NoFile THEN fs.presets[name]
  ELSE IF name \in DOMAIN Shipped.presets THEN Shipped.presets[name] ELSE NoFile

(* What is saved, what is shipped and what the two come to is something,   *)
(* not the lack of it.                                                     *)
ASSUME ContentsAssumption ==
  /\ \A x \in PresetNames : ~Failed(x)
  /\ \A x \in SavedPresets : ~Failed(x)
  /\ \A x \in DOMAIN Shipped.presets : ~Failed(Shipped.presets[x])
  /\ \A x \in SavedDefinitions \cup {NoFile} : ~Failed(load_definitions([definitions |-> x]))
  /\ \A x \in SavedCategories : ~Failed(x)

list_presets(fs) ==
  [built_in |-> {n \in DOMAIN Shipped.presets : ~Failed(load_preset(fs, n))},
   custom   |-> {n \in PresetNames : ~Failed(fs.presets[n])}]

(* UnitPreferencesManager::new, and main: without definitions or the       *)
(* active preset the server runs without preferences.                      *)
New(fs) ==
  LET preset == load_preset(fs, load_config(fs))
      defs   == load_definitions(fs)
  IN  IF Failed(preset) \/ Failed(defs) THEN Off
      ELSE [config |-> load_config(fs), preset |-> preset, definitions |-> defs,
            categories |-> load_custom_categories(fs)]

-----------------------------------------------------------------------------
(* resolver.rs.  A path may be listed under two categories; the hash map   *)
(* the first one is taken from has no order.                               *)
matches_wildcard(pattern, path) ==
  /\ Len(pattern) = Len(path)
  /\ \A i \in DOMAIN path : pattern[i] \in {"*", path[i]}

resolve_category(path, custom) ==
  LET listed(Fits(_)) == {c \in DOMAIN Shipped.paths : \E q \in Shipped.paths[c] : Fits(q)}
      exact == listed(LAMBDA q : q = path)
      wild  == listed(LAMBDA q : matches_wildcard(q, path))
  IN  IF path \in DOMAIN custom THEN {custom[path]}
      ELSE IF exact # {} THEN exact ELSE wild

(* The formula for a category; a unit converts to itself.                  *)
Conversion(u, category) ==
  IF ~(category \in DOMAIN Shipped.base /\ category \in DOMAIN u.preset) THEN Off
  ELSE LET base == Shipped.base[category]
           target == u.preset[category]
       IN  IF base \notin DOMAIN u.definitions THEN Off
           ELSE IF target \in DOMAIN u.definitions[base] THEN u.definitions[base][target]
           ELSE IF target = base THEN "value * 1" ELSE Off

resolve_display_units(u, path) ==
  {[category |-> c, target |-> u.preset[c], formula |-> Conversion(u, c)] :
     c \in {d \in resolve_category(path, u.categories) : Conversion(u, d) # Off}}

-----------------------------------------------------------------------------
NoRequest == [at |-> "none"]
NoRequests == \A c \in UnitClients : unitJob[c] = NoRequest

NothingSaved == [config |-> NoFile, presets |-> [n \in PresetNames |-> NoFile],
                 definitions |-> NoFile, categories |-> NoFile]

StartsFrom(fs) ==
  /\ files = fs
  /\ units = New(files)
  /\ unitJob = [c \in UnitClients |-> NoRequest]
  /\ alone = TRUE /\ unitCalls = 0 /\ unitStarts = 0

PreferencesInit == StartsFrom(NothingSaved)

(* A handler answers 503 without a manager.                                *)
Asked(c, job) ==
  /\ units # Off /\ unitJob[c] = NoRequest
  /\ unitCalls < MaxUnitCalls /\ unitCalls' = unitCalls + 1
  /\ unitJob' = [unitJob EXCEPT ![c] = job]
  /\ UNCHANGED unitStarts

(* A request that changes what the file of this name contains.             *)
Save(c, at, file, name, content) ==
  /\ Asked(c, [at |-> at, file |-> file, name |-> name, content |-> content,
               preset |-> load_preset(files, name)])
  /\ alone' = (alone /\ NoRequests)
  /\ UNCHANGED <<files, units>>

JobAt(c, step) == unitJob[c].at = step
JobTo(c, step) ==
  /\ unitJob' = [unitJob EXCEPT ![c] =
                   IF step = "done" THEN NoRequest ELSE [@ EXCEPT !.at = step]]
  /\ UNCHANGED <<unitCalls, unitStarts>>

(* set_active_preset writes its file under the write lock.                 *)
Unlocked == \A c \in UnitClients :
              unitJob[c].at \in {"open", "fill"} => unitJob[c].file # "config"

(* set_active_preset loads the preset before it takes the lock, and makes  *)
(* it the active one before that is written down.                          *)
SetActivePreset(c, name) ==
  ~Failed(load_preset(files, name)) /\ Save(c, "choose", "config", name, name)

Choose(c) ==
  /\ JobAt(c, "choose") /\ Unlocked
  /\ units' = [units EXCEPT !.config = unitJob[c].name, !.preset = unitJob[c].preset]
  /\ JobTo(c, "open")
  /\ UNCHANGED <<files, alone>>

SaveCustomPreset(c, name, preset) == Save(c, "open", "presets", name, preset)
SaveCustomDefinitions(c, defs)    == Save(c, "open", "definitions", Shipped.config, defs)
SaveCustomCategories(c, cats)     == Save(c, "open", "categories", Shipped.config, cats)

(* delete_custom_preset: the manager goes on with a preset it has loaded.  *)
DeleteCustomPreset(c, name) ==
  /\ files.presets[name] # NoFile
  /\ Asked(c, NoRequest)
  /\ files' = [files EXCEPT !.presets[name] = NoFile]
  /\ alone' = (alone /\ NoRequests /\ units.config # name)
  /\ UNCHANGED units

-----------------------------------------------------------------------------
(* std::fs::write; the request ends with an error when it fails.           *)
WithFile(job, content) ==
  IF job.file = "presets" THEN [files EXCEPT !.presets[job.name] = content]
  ELSE [files EXCEPT ![job.file] = content]

OpenFile(c) ==
  /\ JobAt(c, "open")
  /\ files' = WithFile(unitJob[c], Spoilt)
  /\ JobTo(c, "fill")
  /\ UNCHANGED <<units, alone>>

FillFile(c) ==
  /\ JobAt(c, "fill")
  /\ files' = WithFile(unitJob[c], unitJob[c].content)
  /\ JobTo(c, CASE unitJob[c].file = "config" -> "done"
                 [] unitJob[c].file = "presets" -> "is_active"
                 [] unitJob[c].file = "definitions" -> "reload"
                 [] unitJob[c].file = "categories" -> "adopt")
  /\ UNCHANGED <<units, alone>>

WriteFails(c) ==
  /\ JobAt(c, "open") \/ JobAt(c, "fill")
  /\ JobTo(c, "done")
  /\ alone' = FALSE
  /\ UNCHANGED <<files, units>>

(* Mutant: a preset in use is replaced in its file only.                   *)
IsActive_never(c) ==
  /\ JobAt(c, "is_active") /\ Unlocked
  /\ JobTo(c, "done")
  /\ UNCHANGED <<files, units, alone>>

(* save_custom_preset looks under the read lock and acts under the write   *)
(* lock.                                                                   *)
IsActive(c) ==
  /\ JobAt(c, "is_active") /\ Unlocked
  /\ JobTo(c, IF units.config = unitJob[c].name THEN "adopt" ELSE "done")
  /\ UNCHANGED <<files, units, alone>>

(* save_custom_definitions reads its file again, whatever another request  *)
(* has made of it meanwhile.                                               *)
Reload(c) ==
  /\ JobAt(c, "reload")
  /\ IF Failed(load_definitions(files)) THEN JobTo(c, "done")
     ELSE /\ unitJob' = [unitJob EXCEPT ![c].at = "adopt",
                                        ![c].content = load_definitions(files)]
          /\ UNCHANGED <<unitCalls, unitStarts>>
  /\ UNCHANGED <<files, units, alone>>

Adopt(c) ==
  /\ JobAt(c, "adopt") /\ Unlocked
  /\ units' = CASE unitJob[c].file = "presets" -> [units EXCEPT !.preset = unitJob[c].content]
                [] unitJob[c].file = "definitions" -> [units EXCEPT !.definitions = unitJob[c].content]
                [] unitJob[c].file = "categories" -> [units EXCEPT !.categories = unitJob[c].content]
  /\ JobTo(c, "done")
  /\ UNCHANGED <<files, alone>>

(* The server dies wherever its requests are, and starts again.            *)
StartAgain ==
  /\ unitStarts < MaxUnitStarts /\ unitStarts' = unitStarts + 1
  /\ units' = New(files)
  /\ unitJob' = [c \in UnitClients |-> NoRequest]
  /\ alone' = TRUE
  /\ UNCHANGED <<files, unitCalls>>

PreferencesNext ==
  \/ \E c \in UnitClients :
       \/ \E n \in PresetNames : \/ SetActivePreset(c, n)
                                 \/ DeleteCustomPreset(c, n)
                                 \/ \E p \in SavedPresets : SaveCustomPreset(c, n, p)
       \/ \E d \in SavedDefinitions : SaveCustomDefinitions(c, d)
       \/ \E k \in SavedCategories : SaveCustomCategories(c, k)
       \/ Choose(c) \/ OpenFile(c) \/ FillFile(c) \/ WriteFails(c)
       \/ IsActive(c) \/ Reload(c) \/ Adopt(c)
  \/ StartAgain

PreferencesSpec == PreferencesInit /\ [][PreferencesNext]_prefVars

-----------------------------------------------------------------------------
(* The files, the manager and the requests keep their shapes.              *)
PreferencesTypeOK ==
  /\ files.config \in PresetNames \cup {NoFile, Spoilt}
  /\ files.presets \in [PresetNames -> SavedPresets \cup {NoFile, Spoilt}]
  /\ files.definitions \in SavedDefinitions \cup {NoFile, Spoilt}
  /\ files.categories \in SavedCategories \cup {NoFile, Spoilt}
  /\ units # Off => /\ units.config \in PresetNames
                    /\ ~Failed(units.preset) /\ ~Failed(units.definitions)
  /\ \A c \in UnitClients :
       unitJob[c].at \in {"none", "choose", "open", "fill", "is_active", "reload", "adopt"}
  /\ alone \in BOOLEAN
  /\ unitCalls \in 0..MaxUnitCalls /\ unitStarts \in 0..MaxUnitStarts

(* As long as no two requests overlap, none fails and the active preset is *)
(* not deleted, a restart changes nothing: every path is shown in the same *)
(* unit, by the same formula, as before.                                   *)
RestartChangesNothing ==
  (units # Off /\ NoRequests /\ alone) =>
    /\ New(files) # Off /\ New(files).config = units.config
    /\ \A path \in UnitPaths :
         resolve_display_units(New(files), path) = resolve_display_units(units, path)

(* However requests and crashes interleave, the definitions in use are the *)
(* shipped ones with what one of the clients saved on top.                 *)
DefinitionsWhole ==
  units # Off =>
    \E custom \in SavedDefinitions \cup {NoFile} :
      units.definitions = load_definitions([files EXCEPT !.definitions = custom])

(* A client that picks from the list can choose what it picked, and every  *)
(* preset that can be chosen is on the list, whatever is half written.     *)
ListedIsChoosable ==
  LET listed == list_presets(files)
  IN  listed.built_in \cup listed.custom = {n \in PresetNames : ~Failed(load_preset(files, n))}

(* What is saved is in effect, now and after a restart.                    *)
PreferencesCorrect == PreferencesTypeOK /\ RestartChangesNothing /\ DefinitionsWhole
                      /\ ListedIsChoosable
=============================================================================
