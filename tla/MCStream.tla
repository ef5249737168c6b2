------------------------------ MODULE MCStream -----------------------------
(* Small instances of Stream for TLC.                                      *)
EXTENDS Stream

CONSTANTS gps, urnSelf, urnOther, pos, depth

MCLabel == [s \in Sources |-> "nmea"]
NoConfig == [s \in {} |-> 0]
OnlyNoConfig == {NoConfig}

Upd(vs) == [source |-> gps, age |-> 0, values |-> vs]
Val(p, v) == [path |-> p, value |-> v]

(* The second delta brings on depth the value the first has on pos: a      *)
(* subscription to both may take it for a repeat.                          *)
StreamBodies == { <<Upd(<<Val(pos, 1)>>)>>,
                  <<Upd(<<Val(depth, 1)>>), Upd(<<Val(pos, 2)>>)>> }

MixedMsgs == { [context |-> SelfContext, pattern |-> Paths,
                  policy |-> "instant", min_period |-> 0],
                 [context |-> SelfContext, pattern |-> {pos},
                  policy |-> "fixed", min_period |-> 0] }
=============================================================================
