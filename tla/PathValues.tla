----------------------------- MODULE PathValues -----------------------------
(* Values by path: what a sentence, a message, a delta or a snapshot tells *)
(* is a function from the paths it tells something of.                     *)
EXTENDS Integers, Sequences, SequencesExt

NoPaths == [p \in {} |-> {}]

(* Both; where both tell a path, the first counts.  (The @@ of TLC, as a   *)
(* definition that proofs can expand.)                                     *)
f ++ g == [p \in DOMAIN f \cup DOMAIN g |-> IF p \in DOMAIN f THEN f[p] ELSE g[p]]

(* One after the other: of each path, the last that was told.              *)
Merged(deltas) == FoldLeft(LAMBDA all, d : d ++ all, NoPaths, deltas)

(* The path of one of several engines or batteries.                        *)
Numbered(prefix, number, rest) == prefix \o ToString(number) \o rest
=============================================================================
