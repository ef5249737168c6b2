--------------------------- MODULE PathValuesProofs --------------------------
(* Facts about values by path, and the least-element principle that stands *)
(* for induction over a list: what a list of deltas tells of a path is     *)
(* what the last of them that tells it says, however long the list is.     *)
EXTENDS PathValues, FiniteSetTheorems, TLAPS

(* Numbers that are not empty have a least one among them: the sets 0 .. n *)
(* are well founded by inclusion.                                          *)
LEMMA LeastNatural ==
  ASSUME NEW S \in SUBSET Nat, S # {}
  PROVE  \E x \in S : \A y \in S : x <= y
<1> DEFINE T == {0 .. n : n \in S}
           R == StrictSubsetOrdering(Nat)
<1>1. T \subseteq FiniteSubsetsOf(Nat)
  <2>1. \A n \in S : IsFiniteSet(0 .. n) BY FS_Interval
  <2>2. QED BY <2>1 DEF FiniteSubsetsOf
<1>2. PICK U \in T : \A V \in T : ~(<<V, U>> \in R)
  <2> HIDE DEF T, R
  <2>1. IsWellFoundedOn(R, FiniteSubsetsOf(Nat)) BY FS_StrictSubsetOrderingWellFounded DEF R
  <2>2. T # {} BY DEF T
  <2>3. QED BY <1>1, <2>1, <2>2, WFMin
<1>3. PICK x \in S : U = 0 .. x OBVIOUS
<1>4. ASSUME NEW y \in S, ~(x <= y) PROVE FALSE
  <2>1. 0 .. y \in T OBVIOUS
  <2>2. 0 .. y \subseteq 0 .. x /\ 0 .. y # 0 .. x
    <3>1. x \in 0 .. x /\ x \notin 0 .. y BY <1>4
    <3>2. QED BY <1>4, <3>1
  <2>3. <<0 .. y, 0 .. x>> \in R BY <2>2 DEF StrictSubsetOrdering
  <2>4. QED BY <1>2, <1>3, <2>1, <2>3
<1>5. QED BY <1>4

(* A bounded set of numbers has the greatest one the library's Max names.  *)
LEMMA GreatestInteger ==
  ASSUME NEW S \in SUBSET Nat, S # {}, NEW n \in Nat, \A x \in S : x <= n
  PROVE  Max(S) \in S /\ \A y \in S : y <= Max(S)
<1> DEFINE D == {n - x : x \in S}
<1>0. \A x \in S : x \in Nat /\ n - x \in Nat OBVIOUS
<1>1. PICK d \in D : \A e \in D : d <= e
  <2>1. D \in SUBSET Nat /\ D # {} BY <1>0
  <2>2. QED BY <2>1, LeastNatural
<1>2. PICK x \in S : d = n - x OBVIOUS
<1>3. ASSUME NEW y \in S PROVE x >= y
  <2>1. n - x <= n - y BY <1>1, <1>2
  <2>2. QED BY <2>1, <1>0
<1>4. QED BY <1>3, <1>0 DEF Max

-----------------------------------------------------------------------------
(* Two together.                                                           *)

LEMMA JoinIs ==
  ASSUME NEW f, NEW g
  PROVE  f ++ g = [p \in DOMAIN f \cup DOMAIN g |-> IF p \in DOMAIN f THEN f[p] ELSE g[p]]
  BY DEF ++

LEMMA JoinValue ==
  ASSUME NEW f, NEW g
  PROVE  /\ \A p : p \in DOMAIN (f ++ g) <=> p \in DOMAIN f \/ p \in DOMAIN g
         /\ \A p \in DOMAIN f : (f ++ g)[p] = f[p]
         /\ \A p \in DOMAIN g \ DOMAIN f : (f ++ g)[p] = g[p]
  BY DEF ++

-----------------------------------------------------------------------------
(* A list of them.                                                         *)

(* The fold, as the equation its definition chooses a function for.        *)
MergeEquation(f, deltas) ==
  f = [s \in SUBSET DOMAIN deltas |->
         IF s = {} THEN NoPaths ELSE deltas[Max(s)] ++ f[s \ {Max(s)}]]
LEMMA MergedIs ==
  ASSUME NEW deltas
  PROVE  Merged(deltas) = (CHOOSE f : MergeEquation(f, deltas))[DOMAIN deltas]
  BY DEF Merged, FoldLeft, MapThenFoldSet, MergeEquation

(* Of every path some of them tell, what the last of those says.           *)
TellsLast(deltas, s) ==
  [p \in UNION {DOMAIN deltas[i] : i \in s} |->
     deltas[Max({i \in s : p \in DOMAIN deltas[i]})][p]]

LEMMA LastOf ==
  ASSUME NEW n \in Nat, NEW s \in SUBSET (1 .. n), s # {}
  PROVE  Max(s) \in s /\ \A y \in s : y <= Max(s)
<1>1. s \in SUBSET Nat /\ \A x \in s : x <= n OBVIOUS
<1>2. QED BY <1>1, GreatestInteger

LEMMA MergedStep ==
  ASSUME NEW deltas, NEW n \in Nat, DOMAIN deltas = 1 .. n, NEW s \in SUBSET (1 .. n), s # {}
  PROVE  TellsLast(deltas, s) = deltas[Max(s)] ++ TellsLast(deltas, s \ {Max(s)})
<1> DEFINE m == Max(s)
           r == s \ {m}
           tell(t, p) == {i \in t : p \in DOMAIN deltas[i]}
<1>1. m \in s /\ \A y \in s : y <= m BY LastOf
<1>2. UNION {DOMAIN deltas[i] : i \in s}
        = DOMAIN deltas[m] \cup UNION {DOMAIN deltas[i] : i \in r} BY <1>1
<1>3. ASSUME NEW p \in DOMAIN deltas[m] PROVE Max(tell(s, p)) = m
  <2>1. m \in tell(s, p) BY <1>1
  <2>2. tell(s, p) \in SUBSET (1 .. n) /\ tell(s, p) # {} /\ \A y \in tell(s, p) : y <= m
    BY <1>1, <2>1
  <2> HIDE DEF tell, m
  <2>3. Max(tell(s, p)) \in tell(s, p) /\ m <= Max(tell(s, p)) BY <2>1, <2>2, LastOf
  <2>4. Max(tell(s, p)) \in Int /\ m \in Int BY <2>1, <2>2, <2>3
  <2>5. QED BY <2>2, <2>3, <2>4
<1>4. ASSUME NEW p, p \notin DOMAIN deltas[m] PROVE tell(s, p) = tell(r, p)
  BY <1>1, <1>4
<1>5. TellsLast(deltas, s) = [p \in UNION {DOMAIN deltas[i] : i \in s} |-> deltas[Max(tell(s, p))][p]]
  BY DEF TellsLast
<1>6. TellsLast(deltas, r) = [p \in UNION {DOMAIN deltas[i] : i \in r} |-> deltas[Max(tell(r, p))][p]]
  BY DEF TellsLast
<1> HIDE DEF m, r, tell
<1>7. TellsLast(deltas, s) = deltas[m] ++ TellsLast(deltas, r)
  <2>1. deltas[m] ++ TellsLast(deltas, r)
          = [p \in DOMAIN deltas[m] \cup DOMAIN TellsLast(deltas, r) |->
               IF p \in DOMAIN deltas[m] THEN deltas[m][p] ELSE TellsLast(deltas, r)[p]]
    BY JoinIs
  <2>2. DOMAIN TellsLast(deltas, r) = UNION {DOMAIN deltas[i] : i \in r} BY <1>6
  <2>3. ASSUME NEW p \in UNION {DOMAIN deltas[i] : i \in s}
        PROVE  deltas[Max(tell(s, p))][p]
                 = IF p \in DOMAIN deltas[m] THEN deltas[m][p] ELSE TellsLast(deltas, r)[p]
    <3>1. CASE p \in DOMAIN deltas[m] BY <1>3, <3>1
    <3>2. CASE p \notin DOMAIN deltas[m]
      <4>1. p \in UNION {DOMAIN deltas[i] : i \in r} BY <1>2, <3>2
      <4>2. TellsLast(deltas, r)[p] = deltas[Max(tell(r, p))][p] BY <1>6, <4>1
      <4>3. QED BY <1>4, <3>2, <4>2
    <3>3. QED BY <3>1, <3>2
  <2>4. QED BY <1>2, <1>5, <2>1, <2>2, <2>3
<1>8. QED BY <1>7 DEF m, r

LEMMA MergedExists ==
  ASSUME NEW deltas, NEW n \in Nat, DOMAIN deltas = 1 .. n
  PROVE  MergeEquation([s \in SUBSET DOMAIN deltas |-> TellsLast(deltas, s)], deltas)
<1> DEFINE f == [s \in SUBSET DOMAIN deltas |-> TellsLast(deltas, s)]
<1>1. ASSUME NEW s \in SUBSET DOMAIN deltas
      PROVE f[s] = IF s = {} THEN NoPaths ELSE deltas[Max(s)] ++ f[s \ {Max(s)}]
  <2>1. CASE s = {} BY <2>1 DEF TellsLast, NoPaths
  <2>2. CASE s # {}
    <3>1. f[s \ {Max(s)}] = TellsLast(deltas, s \ {Max(s)}) OBVIOUS
    <3>2. QED BY <2>2, <3>1, MergedStep
  <2>3. QED BY <2>1, <2>2
<1>2. QED BY <1>1 DEF MergeEquation

(* Two functions that solve it are the same: a smallest set on which they  *)
(* differ is not empty, and they agree on the one without its last.        *)
LEMMA MergedUnique ==
  ASSUME NEW deltas, NEW n \in Nat, DOMAIN deltas = 1 .. n,
         NEW f, NEW g, MergeEquation(f, deltas), MergeEquation(g, deltas)
  PROVE  f = g
<1> DEFINE D == DOMAIN deltas
           T == {s \in SUBSET D : f[s] # g[s]}
<1>1. SUFFICES ASSUME T # {} PROVE FALSE
  <2>1. f = [s \in SUBSET D |-> f[s]] BY DEF MergeEquation
  <2>2. g = [s \in SUBSET D |-> g[s]] BY DEF MergeEquation
  <2>3. QED BY <2>1, <2>2
<1>2. IsFiniteSet(D) BY FS_Interval
<1>3. T \subseteq FiniteSubsetsOf(D) BY <1>2, FS_FiniteSubsetsOfFinite
<1>4. PICK s \in T : \A t \in T : ~(<<t, s>> \in StrictSubsetOrdering(D))
  <2> HIDE DEF T
  <2>1. QED BY <1>1, <1>3, FS_StrictSubsetOrderingWellFounded, WFMin
<1>5. s # {} BY DEF MergeEquation
<1>6. Max(s) \in s BY <1>5, LastOf
<1>7. <<s \ {Max(s)}, s>> \in StrictSubsetOrdering(D) BY <1>6 DEF StrictSubsetOrdering
<1>8. f[s \ {Max(s)}] = g[s \ {Max(s)}] BY <1>4, <1>7
<1>9. QED BY <1>5, <1>8 DEF MergeEquation

(* What a list of deltas tells.                                            *)
THEOREM MergedTellsLast ==
  ASSUME NEW deltas, NEW n \in Nat, DOMAIN deltas = 1 .. n
  PROVE  Merged(deltas) = TellsLast(deltas, 1 .. n)
<1> DEFINE g == [s \in SUBSET DOMAIN deltas |-> TellsLast(deltas, s)]
<1> HIDE DEF g
<1>1. MergeEquation(g, deltas) BY MergedExists DEF g
<1>2. PICK f : f = (CHOOSE h : MergeEquation(h, deltas)) OBVIOUS
<1>3. MergeEquation(f, deltas) BY <1>1, <1>2
<1>4. f = g BY <1>1, <1>3, MergedUnique
<1>5. QED BY <1>2, <1>4, MergedIs DEF g

(* A list tells the paths one of its deltas tells, each as one of them     *)
(* that tells it does.                                                     *)
THEOREM MergedTells ==
  ASSUME NEW deltas, NEW n \in Nat, DOMAIN deltas = 1 .. n
  PROVE  /\ \A p : p \in DOMAIN Merged(deltas) <=> \E i \in 1 .. n : p \in DOMAIN deltas[i]
         /\ \A p \in DOMAIN Merged(deltas) :
              \E i \in 1 .. n : p \in DOMAIN deltas[i] /\ Merged(deltas)[p] = deltas[i][p]
<1>1. Merged(deltas) = TellsLast(deltas, 1 .. n) BY MergedTellsLast
<1>2. DOMAIN Merged(deltas) = UNION {DOMAIN deltas[i] : i \in 1 .. n} BY <1>1 DEF TellsLast
<1>3. ASSUME NEW p \in DOMAIN Merged(deltas)
      PROVE  \E i \in 1 .. n : p \in DOMAIN deltas[i] /\ Merged(deltas)[p] = deltas[i][p]
  <2> DEFINE S == {i \in 1 .. n : p \in DOMAIN deltas[i]}
  <2>1. S \in SUBSET (1 .. n) /\ S # {} BY <1>2
  <2>2. Merged(deltas)[p] = deltas[Max(S)][p] BY <1>1, <1>2 DEF TellsLast
  <2>3. Max(S) \in S
    <3> HIDE DEF S
    <3>1. QED BY <2>1, LastOf
  <2>4. QED BY <2>2, <2>3
<1>4. QED BY <1>2, <1>3
=============================================================================
