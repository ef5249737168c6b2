----------------------------- MODULE MCPlugins -----------------------------
(* Small instances of the data store, of the plugin host and of plugins    *)
(* that only compute: the simulator, the tracks, and the units of what the *)
(* receivers tell.  They share no state: a behaviour is about one of them, *)
(* `part' says which.                                                      *)
EXTENDS Store, Plugins, Simulator, Tracks, Units, TLC

CONSTANTS helm, chart, own, other, gps, ais, buoy, urnSelf, urnOther, pos, depth

VARIABLE part

MCLabel == [s \in Sources |-> IF s = buoy THEN "buoy" ELSE "nmea"]

Val(p, v) == [path |-> p, value |-> v]
Upd(s, a, vs) == [source |-> s, age |-> a, values |-> vs]

(* Two sources in one delta; the same path twice in one update, then an    *)
(* update without values; a backdated update before a newer one.           *)
MCBodies == {
  <<Upd(gps, 0, <<Val(pos, 1)>>), Upd(buoy, 0, <<Val(depth, 1)>>)>>,
  <<Upd(ais, 0, <<Val(pos, 1), Val(pos, 2)>>), Upd(gps, 0, <<>>)>>,
  <<Upd(ais, 1, <<Val(pos, 1)>>), Upd(gps, 0, <<Val(pos, 2)>>)>> }

(* Configuration maps: gps outranks ais or the other way round (ais below  *)
(* the default of 100); TTLs of 0 s and 1 s, or none.                      *)
GpsFirst == gps :> 1 @@ ais :> 2
AisFirst == ais :> 5
NoConfig == [s \in {} |-> 0]
BothTtl  == gps :> 0 @@ ais :> 1

MCPriorities == {GpsFirst, AisFirst}
MCTtls       == {BothTtl, NoConfig}

(* Two plugins that between them make every call; helm shares its path     *)
(* with the bridge.                                                        *)
MCWants == helm :> <<"subscribe", "put", "filter">>
        @@ chart :> <<"routes", "provider", "pilot">>
MCPutPath == [p \in Plugins |-> CHOOSE x \in HandledPaths : TRUE]

Symmetry == Permutations(Clients)

MCVariation == -44

(* The own vessel with a source whose clock is ahead, another vessel, and  *)
(* a delta without a context.                                              *)
Tells(c, p, s, h) == [context |-> c, position |-> p, sog |-> s, ahead |-> h]
MCTrackDeltas ==
  {Tells(own, <<0, 0>>, 5, 0), Tells(own, <<2, 4>>, NoSuch, 0), Tells(own, <<5, 1>>, NoSuch, 3),
   Tells(other, <<0, 4>>, NoSuch, 0), Tells(NoSuch, <<0, 0>>, 5, 0)}
MCTrackConfigs ==
  {[track_self |-> TRUE, track_others |-> TRUE, min_interval |-> 1, max_age |-> 5]}
MCTrackRequests ==
  {[p \in {} |-> 0], [limit |-> 2], [after |-> 2, before |-> 8, simplify |-> 1],
   [center |-> <<0, 0>>, radius |-> 4, limit |-> 0], [center |-> <<0, 0>>],
   [simplify |-> 3, context |-> own, format |-> "gpx"], [limit |-> Malformed],
   [bbox |-> [west |-> 1, east |-> 4, south |-> 0, north |-> 5]]}

allVars == <<part, storeVars, vars, simVars, trackVars, unitVars>>

(* While another part is looked at, the host boots nothing and the store's *)
(* configuration is one of the possible ones.                              *)
MCInit ==
  /\ part \in {"store", "host", "simulator", "tracks", "units"}
  /\ StoreInit /\ Init /\ SimInit /\ TracksInit /\ UnitInit
  /\ part # "host" => enabled = [p \in Plugins |-> Nobody]
  /\ part # "store" => source_priorities = GpsFirst /\ source_ttls = NoConfig

StorePart ==
  part = "store" /\ StoreNext /\ UNCHANGED <<part, vars, simVars, trackVars, unitVars>>
(* The bridge's plugin is switched off and on before the first request; no *)
(* request about a Rust plugin looks at it.                                *)
HostPart ==
  /\ part = "host" /\ Next
  /\ requests' > 0 => \A b \in BridgePlugins : {registry[b], registry'[b]} = {"running"}
  /\ UNCHANGED <<part, storeVars, simVars, trackVars, unitVars>>
SimPart ==
  part = "simulator" /\ SimNext /\ UNCHANGED <<part, storeVars, vars, trackVars, unitVars>>
TracksPart ==
  part = "tracks" /\ TracksNext /\ UNCHANGED <<part, storeVars, vars, simVars, unitVars>>
UnitsPart ==
  part = "units" /\ UnitNext /\ UNCHANGED <<part, storeVars, vars, simVars, trackVars>>

MCSpec ==
  MCInit /\ [][StorePart \/ HostPart \/ SimPart \/ TracksPart \/ UnitsPart]_allVars
=============================================================================
