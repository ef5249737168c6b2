------------------------------ MODULE MCServer -----------------------------
(* Small instances of the server's managers and of what it keeps on disk:  *)
(* course, notifications, resources, settings, history and its queries,    *)
(* unit preferences.                                                       *)
(* They share no state: a behaviour is about one of them, `part' says      *)
(* which.                                                                  *)
EXTENDS Course, Notifications, Resources, ConfigStore, History, HistoryQuery,
        Preferences, TLC

CONSTANTS a, b, c1, c2, north, anchor, course

VARIABLE part

LongRoute == [h \in Hrefs |-> <<1, 2, 3>>]

(* The anchor alarm outranks the server's own source.                      *)
AnchorFirst == [s \in Sources |-> IF s = anchor THEN 1 ELSE 100]

(* Requests are interchangeable.                                           *)
Symmetry == Permutations(Navigators) \cup Permutations(ApiClients)

MCPuts  == {a :> 1 @@ b :> Absent, a :> 2 @@ b :> 2}
MCSeed  == a :> Absent @@ b :> 1
MCFirst == [enabled |-> TRUE, config |-> c1]

MCMethods  == <<"mid", "count", "min">>
MCReadings == <<{1, 3}, {5}, {7}>>
Asks(f, t, d, r) == [from |-> f, to |-> t, duration |-> d, resolution |-> r]
MCRequests == {Asks(NoColumn, NoColumn, 20000, NoColumn),
               Asks(30, NoColumn, NoColumn, 1),
               Asks(NoColumn, 59, 29, 60),
               Asks(0, NoColumn, 59, NoColumn)}

(* The exhaust of an engine is listed under two categories, as it is in    *)
(* what the server ships.                                                  *)
Exhaust == <<"engine", "*", "exhaust">>
MCShipped ==
  [presets |-> [metric |-> [speed |-> "km/h", temperature |-> "C"]], config |-> "metric",
   definitions |-> ("m/s" :> ("km/h" :> "3.6" @@ "kn" :> "1.94") @@ "K" :> ("C" :> "-273")),
   base  |-> [speed |-> "m/s", temperature |-> "K", flow |-> "m3/s"],
   paths |-> [speed |-> {<<"sog">>}, flow |-> {Exhaust},
              temperature |-> {Exhaust, <<"engine", "*", "oil">>}]]
MCPresets == {[speed |-> "kn", temperature |-> "C"], [speed |-> "mph", flow |-> "m3/s"]}
MCDefinitions == {"m/s" :> ("mph" :> "2.24"),
                  "m/s" :> ("kn" :> "2") @@ "m3/s" :> ("l/h" :> "3600000")}
MCCategories == {<<"engine", "1", "exhaust">> :> "temperature", <<"sog">> :> "current"}
MCPaths == {<<"sog">>, <<"engine", "1", "exhaust">>, <<"engine", "2", "oil">>}

diskVars == <<resourceVars, configVars, historyVars, queryVars, prefVars>>
allVars  == <<part, courseVars, vars, diskVars>>

(* While another part is looked at, the preferences could not be loaded.   *)
MCInit ==
  /\ part \in {"course", "notifications", "resources", "settings", "history", "query",
              "preferences"}
  /\ CourseInit /\ Init /\ ResourcesInit /\ ConfigInit /\ HistoryInit /\ QueryInit
  /\ IF part = "preferences" THEN PreferencesInit
     ELSE StartsFrom([NothingSaved EXCEPT !.definitions = Spoilt])
  /\ part # "query" => asked = CHOOSE r \in Requests : TRUE

CoursePart ==
  /\ part = "course" /\ CourseNext
  /\ UNCHANGED <<part, vars, diskVars>>
NotificationsPart ==
  /\ part = "notifications" /\ Next
  /\ UNCHANGED <<part, courseVars, diskVars>>
ResourcesPart ==
  /\ part = "resources" /\ ResourcesNext
  /\ UNCHANGED <<part, courseVars, vars, configVars, historyVars, queryVars, prefVars>>
SettingsPart ==
  /\ part = "settings" /\ ConfigNext
  /\ UNCHANGED <<part, courseVars, vars, resourceVars, historyVars, queryVars, prefVars>>
HistoryPart ==
  /\ part = "history" /\ HistoryNext
  /\ UNCHANGED <<part, courseVars, vars, resourceVars, configVars, queryVars, prefVars>>
QueryPart ==
  /\ part = "query" /\ QueryNext
  /\ UNCHANGED <<part, courseVars, vars, resourceVars, configVars, historyVars, prefVars>>
PreferencesPart ==
  /\ part = "preferences" /\ PreferencesNext
  /\ UNCHANGED <<part, courseVars, vars, resourceVars, configVars, historyVars, queryVars>>

MCSpec ==
  MCInit /\ [][CoursePart \/ NotificationsPart \/ ResourcesPart \/ SettingsPart
               \/ HistoryPart \/ QueryPart \/ PreferencesPart]_allVars
=============================================================================
