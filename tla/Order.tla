-------------------------------- MODULE Order --------------------------------
(* Putting in order.  (SortSeq and SelectSeq of the standard modules, as   *)
(* definitions that proofs can expand.)                                    *)
EXTENDS Integers, Sequences, FiniteSets

(* upTo[x] is what comes before x and x itself: the k-th element has k up  *)
(* to it.                                                                  *)
InOrder(upTo) ==
  [k \in 1 .. Cardinality(DOMAIN upTo) |->
     CHOOSE x \in DOMAIN upTo : Cardinality(upTo[x]) = k]

(* The numbers of a finite set, the smallest first.                        *)
Ascending(S) == InOrder([x \in S |-> {y \in S : y <= x}])

(* What stands at some places of a sequence, in the order it stands there. *)
Among(seq, places) ==
  LET order == Ascending(places) IN [k \in DOMAIN order |-> seq[order[k]]]

(* A sequence sorted by a number that each place has; places with the same *)
(* number stay in the order they are in.                                   *)
SortedBy(key, seq) ==
  LET order == InOrder([i \in DOMAIN key |->
                 {j \in DOMAIN key : key[j] < key[i] \/ (key[j] = key[i] /\ j <= i)}])
  IN  [k \in DOMAIN order |-> seq[order[k]]]
=============================================================================
