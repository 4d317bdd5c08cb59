----------------------- MODULE TrailSignaturesProofs -----------------------
(***************************************************************************)
(* Proofs about TrailClosure, for every set of objects and every slice,    *)
(* and about a compile over the trails it makes (TrailSignatures).         *)
(*                                                                         *)
(* The central fact is that a walk returns the least set closed under what *)
(* it admits (Finished).  It needs an invariant of the walk in progress    *)
(* (InReach): what has left the frontier has had its neighbours taken, and *)
(* nothing outside any closed set has been reached.  That walks bounded to *)
(* one area partition it, and that they hold objects of that area and of   *)
(* no other, follow from leastness without a look at the algorithm.        *)
(*                                                                         *)
(* What SignaturesProofs proves of a compile is instantiated with the      *)
(* graph of the slice; a step of the Trail Builder disturbs nothing of it. *)
(* That every cause is projected takes both: a compile skips no cause, and *)
(* a cause is a seed, which has a trail.                                   *)
(***************************************************************************)
EXTENDS TrailSignatures, WellFoundedInduction, TLAPS

-----------------------------------------------------------------------------
(* Choices of the least.                                                   *)

\* Least returns the least element of a set of numbers that is not empty.
LEMMA LeastIn ==
  ASSUME NEW S \in SUBSET Nat, S # {}
  PROVE  Least(S) \in S /\ \A m \in S : Least(S) <= m
<1> DEFINE R == {p \in Nat \X Nat : p[1] < p[2]}
<1>1. IsWellFoundedOn(R, Nat)
  BY NatLessThanWellFounded DEF OpToRel
<1>2. PICK n \in S : \A m \in S : <<m, n>> \notin R
  <2> HIDE DEF R
  <2> QED
    BY <1>1, WFMin
<1>3. ASSUME NEW m \in S
      PROVE  n <= m
  <2>1. m \in Nat /\ n \in Nat
    OBVIOUS
  <2>2. ~(m < n)
    BY <1>2, <2>1
  <2> QED
    BY <2>1, <2>2
<1> QED
  BY <1>3 DEF Least

\* First returns one of the walks it is given, if they are bounded.
LEMMA FirstIn ==
  ASSUME NEW W \in SUBSET (Objects \X Areas), W # {}
  PROVE  First(W) \in W
<1> DEFINE N == {w[1] : w \in W}
           n == Least(N)
           A == {w[2] : w \in {v \in W : v[1] = n}}
           a == Least(A)
<1>1. N \in SUBSET Nat /\ N # {}
  BY ObjectsAssumption
<1>2. n \in N /\ \A m \in N : n <= m
  BY <1>1, LeastIn
<1>3. A \in SUBSET Nat /\ A # {}
  BY <1>2, ObjectsAssumption
<1>4. a \in A /\ \A b \in A : a <= b
  BY <1>3, LeastIn
<1>5. <<n, a>> \in W
  <2> HIDE DEF n, a
  <2>1. PICK v \in W : v[1] = n /\ v[2] = a
    BY <1>4
  <2>2. v = <<v[1], v[2]>>
    OBVIOUS
  <2> QED
    BY <2>1, <2>2
<1>6. ASSUME NEW v \in W
      PROVE  v = <<n, a>> \/ Before(<<n, a>>, v)
  <2>1. v = <<v[1], v[2]>> /\ v[1] \in Nat /\ v[2] \in Nat
    <3>1. v \in Objects \X Areas
      OBVIOUS
    <3>2. v = <<v[1], v[2]>> /\ v[1] \in Objects /\ v[2] \in Areas
      BY <3>1
    <3> QED
      BY <3>2, ObjectsAssumption
  <2>2. n <= v[1]
    BY <1>2
  <2>3. v[1] = n => a <= v[2]
    BY <1>4
  <2>4. n \in Nat /\ a \in Nat
    <3> HIDE DEF N, n, A, a
    <3> QED
      BY <1>1, <1>2, <1>3, <1>4
  <2> HIDE DEF n, a
  <2> QED
    BY <2>1, <2>2, <2>3, <2>4 DEF Before
<1> HIDE DEF n, a
<1> QED
  BY <1>5, <1>6 DEF First

-----------------------------------------------------------------------------
(* What a bounded walk admits.                                             *)

\* A seed admits the areas it is bounded to.
LEMMA SeedIsAdmitted ==
  ASSUME NEW s \in Slice, NEW w \in Seeded(s), w[2] # NoArea
  PROVE  w[1] \in Objects /\ w[2] \in TargetAreas(s, w[1]) /\ Admits(s, w[1], w[2])
<1>1. PICK seed \in Objects \ s.risk : w \in BoundedClosures(s, seed)
  BY DEF Seeded
<1>2. w[1] = seed /\ w[2] \in TargetAreas(s, seed)
  BY <1>1 DEF BoundedClosures
<1> QED
  BY <1>2 DEF TargetAreas, Admits

\* A least set closed under a bounded walk holds only what the walk admits.
LEMMA LeastIsAdmitted ==
  ASSUME NEW s \in Slice, NEW w \in Seeded(s), w[2] # NoArea,
         NEW W \in SUBSET Objects, Closed(s, w, W),
         \A S \in SUBSET Objects : Closed(s, w, S) => W \subseteq S
  PROVE  \A n \in W : Admits(s, n, w[2])
<1> DEFINE S == {n \in W : Admits(s, n, w[2])}
<1>1. w[1] \in S
  BY SeedIsAdmitted DEF Closed
<1>2. \A n \in S : Admitted(s, w, n) \subseteq S
  BY DEF Closed, Admitted
<1>3. Closed(s, w, S)
  BY <1>1, <1>2 DEF Closed
<1> QED
  BY <1>3

\* Two such sets of one area: if they meet, the first is within the second.
\* Otherwise what the first does not share with the second would be closed.
LEMMA LeastMeet ==
  ASSUME NEW s \in Slice, NEW v \in Seeded(s), NEW w \in Seeded(s),
         v[2] = w[2], w[2] # NoArea,
         NEW V \in SUBSET Objects, Closed(s, v, V),
         \A S \in SUBSET Objects : Closed(s, v, S) => V \subseteq S,
         NEW W \in SUBSET Objects, Closed(s, w, W),
         V \cap W # {}
  PROVE  V \subseteq W
<1> DEFINE S == V \ W
<1>1. \A n \in V : Admits(s, n, w[2])
  BY LeastIsAdmitted
<1>2. ASSUME NEW n \in S, NEW m \in Admitted(s, v, n)
      PROVE  m \in S
  <2>1. m \in V
    BY DEF Closed
  <2>2. n \in Admitted(s, w, m)
    BY <1>1 DEF Admitted, Neighbors
  <2> QED
    BY <2>1, <2>2 DEF Closed
<1>3. v[1] \in W
  <2>1. SUFFICES ASSUME v[1] \notin W PROVE FALSE
    OBVIOUS
  <2>2. Closed(s, v, S)
    BY <1>2, <2>1 DEF Closed
  <2> QED
    BY <2>2
<1>4. Closed(s, v, W)
  BY <1>3 DEF Closed, Admitted
<1> QED
  BY <1>4

\* A least set closed under a bounded walk holds objects of its area and of
\* no other: a connector seed has, next to it or next to a connector next to
\* it, an object of the area, and the walk admits the connector between.
LEMMA LeastKeepsToItsArea ==
  ASSUME NEW s \in Slice, NEW w \in Seeded(s), w[2] # NoArea,
         NEW W \in SUBSET Objects, Closed(s, w, W),
         \A S \in SUBSET Objects : Closed(s, w, S) => W \subseteq S
  PROVE  {s.area[m] : m \in W} \ {NoArea} = {w[2]}
<1> DEFINE seed == w[1]
           a == w[2]
<1>1. \A n \in W : s.area[n] # NoArea => s.area[n] = a
  BY LeastIsAdmitted DEF Admits
<1>2. \E n \in W : s.area[n] = a
  <2>1. seed \in W /\ a \in TargetAreas(s, seed)
    BY SeedIsAdmitted DEF Closed
  <2>2. CASE s.area[seed] # NoArea
    BY <2>1, <2>2 DEF TargetAreas
  <2>3. CASE s.area[seed] = NoArea
    <3>1. a \in ConnectorAreas(s, seed)
      BY <2>1, <2>3 DEF TargetAreas
    <3>2. PICK m \in {seed} \cup {o \in Neighbors(s, seed) : s.area[o] = NoArea} :
            a \in Direct(s, m)
      BY <3>1 DEF ConnectorAreas
    <3>3. PICK o \in Neighbors(s, m) : s.area[o] = a
      BY <3>2 DEF Direct
    <3>4. m \in W
      <4>1. CASE m = seed
        BY <4>1, <2>1
      <4>2. CASE m \in Neighbors(s, seed) /\ s.area[m] = NoArea
        <5>1. a \in ConnectorAreas(s, m)
          BY <3>2 DEF ConnectorAreas
        <5>2. m \in Admitted(s, w, seed)
          BY <4>2, <5>1 DEF Admitted, Admits
        <5> QED
          BY <5>2, <2>1 DEF Closed
      <4> QED
        BY <4>1, <4>2, <3>2
    <3>5. o \in Admitted(s, w, m)
      BY <3>3 DEF Admitted, Admits, Neighbors
    <3>6. o \in W
      BY <3>4, <3>5 DEF Closed
    <3> QED
      BY <3>3, <3>6
  <2> QED
    BY <2>2, <2>3
<1> QED
  BY <1>1, <1>2

-----------------------------------------------------------------------------
(* Type correctness.                                                       *)

\* What a trail is made of has its type, whatever the member sets.
LEMMA TrailOfType ==
  ASSUME slice \in Slice, merged \in [DOMAIN merged -> SUBSET Objects],
         DOMAIN merged \subseteq Walks,
         NEW w \in DOMAIN merged
  PROVE  TrailOf(merged[w]) \in Trail
<1> DEFINE S == merged[w]
           V == {v \in DOMAIN merged : merged[v] = S}
           bounded == {v \in DOMAIN merged : merged[v] = S /\ v[2] # NoArea}
<1>1. S \in SUBSET Objects
  OBVIOUS
<1>2. Least({v[1] : v \in V}) \in Objects
  <2>1. {v[1] : v \in V} \in SUBSET Objects /\ {v[1] : v \in V} # {}
    BY DEF Walks
  <2> HIDE DEF V
  <2> QED
    BY <2>1, LeastIn, ObjectsAssumption
<1>3. AreaOf(S) \in Areas \cup {NoArea}
  <2>1. bounded \in SUBSET (Objects \X Areas)
    BY DEF Walks
  <2>2. CASE bounded # {}
    <3>1. First(bounded) \in bounded
      BY <2>1, <2>2, FirstIn
    <3>2. First(bounded)[2] \in Areas
      BY <2>1, <3>1
    <3> QED
      BY <2>2, <3>2 DEF AreaOf
  <2>3. CASE bounded = {}
    BY <2>3 DEF AreaOf
  <2> QED
    BY <2>2, <2>3
<1> QED
  BY <1>1, <1>2, <1>3 DEF TrailOf, Trail

\* The walks of compute are seeds with an area or with none.
LEMMA SeededType ==
  ASSUME NEW s \in Slice
  PROVE  Seeded(s) \subseteq Walks
<1>1. \A n \in Objects : Direct(s, n) \subseteq Areas
  BY DEF Direct, Neighbors, Slice
<1>2. \A n \in Objects : ConnectorAreas(s, n) \subseteq Areas
  BY <1>1 DEF ConnectorAreas, Neighbors
<1>3. \A n \in Objects : TargetAreas(s, n) \subseteq Areas
  BY <1>2 DEF TargetAreas, Slice
<1> QED
  BY <1>3 DEF Seeded, BoundedClosures, Walks

\* TypeOK holds initially.
LEMMA TypeInit == Init => TypeOK
<1>1. ASSUME Init PROVE TypeOK
  <2>1. sets = <<>> /\ DOMAIN sets = {} /\ merged = <<>> /\ DOMAIN merged = {}
    BY <1>1 DEF Init
  <2>2. sets \in [{} -> SUBSET Objects] /\ merged \in [{} -> SUBSET Objects]
    BY <2>1
  <2> QED
    BY <1>1, <2>1, <2>2 DEF Init, TypeOK, NoWalk
<1> QED
  BY <1>1

\* TypeOK is preserved by every step.
LEMMA TypeNext == TypeOK /\ [Next]_vars => TypeOK'
<1> SUFFICES ASSUME TypeOK, [Next]_vars PROVE TypeOK'
  OBVIOUS
<1>0. slice \in Slice
  BY SlicesAssumption DEF TypeOK
<1>1. CASE start
  <2>1. PICK w \in Seeded(slice) : walk' = w /\ reachable' = {w[1]} /\ frontier' = {w[1]}
    BY <1>1 DEF start
  <2>2. w[1] \in Objects
    BY <1>0, SeededType DEF Walks
  <2> QED
    BY <1>1, <2>1, <2>2 DEF start, TypeOK
<1>2. CASE reach
  <2>1. PICK object \in frontier :
          LET new == Admitted(slice, walk, object) \ reachable IN
          /\ reachable' = reachable \cup new
          /\ frontier' = (frontier \ {object}) \cup new
    BY <1>2 DEF reach
  <2>2. Admitted(slice, walk, object) \subseteq Objects
    BY DEF Admitted, Neighbors
  <2>3. reachable' \in SUBSET Objects /\ frontier' \in SUBSET reachable'
    BY <2>1, <2>2 DEF TypeOK
  <2> QED
    BY <1>2, <2>3 DEF reach, TypeOK
<1>3. CASE keep
  <2>1. walk \in Seeded(slice) /\ pc = "reach"
    BY <1>3 DEF keep, TypeOK
  <2>2. DOMAIN sets' = DOMAIN sets \cup {walk} /\ sets' \in [DOMAIN sets' -> SUBSET Objects]
    BY <1>3 DEF keep, TypeOK
  <2>3. frontier' \in SUBSET reachable' /\ reachable' \in SUBSET Objects
    BY <1>3 DEF keep
  <2>4. walk' \in IF pc' = "reach" THEN Seeded(slice') ELSE {NoWalk}
    BY <1>3 DEF keep
  <2>5. merged' \in [DOMAIN merged' -> SUBSET Objects]
    BY <1>3 DEF keep, TypeOK
  <2> QED
    BY <1>3, <2>1, <2>2, <2>3, <2>4, <2>5 DEF keep, TypeOK
<1>4. CASE collect
  BY <1>4 DEF collect, TypeOK, RiskGroups
<1>5. CASE union
  <2>1. PICK g \in groups :
          merged' = [w \in DOMAIN merged |->
                       IF merged[w] \cap CoMembers(slice, g) = {} THEN merged[w]
                       ELSE merged[w] \cup CoMembers(slice, g) \cup {g}]
    BY <1>5 DEF union
  <2>2. CoMembers(slice, g) \subseteq Objects /\ g \in Objects
    BY DEF CoMembers, TypeOK
  <2>3. DOMAIN merged' = DOMAIN merged /\ merged' \in [DOMAIN merged -> SUBSET Objects]
    BY <2>1, <2>2 DEF TypeOK
  <2>4. groups' \in SUBSET Objects
    BY <1>5 DEF union, TypeOK
  <2> QED
    BY <1>5, <2>3, <2>4 DEF union, TypeOK
<1>6. CASE materialize
  <2>1. DOMAIN merged \subseteq Walks
    BY <1>0, <1>6, SeededType DEF materialize, TypeOK
  <2>2. \A w \in DOMAIN merged : TrailOf(merged[w]) \in Trail
    BY <1>0, <2>1, TrailOfType DEF TypeOK
  <2>3. trails' \in SUBSET Trail
    BY <1>6, <2>2 DEF materialize
  <2> QED
    BY <1>6, <2>3 DEF materialize, TypeOK
<1>7. CASE UNCHANGED vars
  BY <1>7 DEF vars, TypeOK
<1> QED
  BY <1>1, <1>2, <1>3, <1>4, <1>5, <1>6, <1>7 DEF Next

\* Every variable keeps its type, in every run on every slice.
THEOREM TypeCorrect == Spec => []TypeOK
  BY TypeInit, TypeNext, PTL DEF Spec

-----------------------------------------------------------------------------
(* The inductive invariant.                                                *)

\* The walk in progress: what has left the frontier has had its neighbours
\* taken, and any closed set holds what has been reached.
InReach ==
  pc = "reach" =>
    /\ walk[1] \in reachable
    /\ \A n \in reachable \ frontier : Admitted(slice, walk, n) \subseteq reachable
    /\ \A S \in SUBSET Objects : Closed(slice, walk, S) => reachable \subseteq S

\* Every finished walk returned the least closed set.
Finished ==
  \A w \in DOMAIN sets :
    /\ Closed(slice, w, sets[w])
    /\ \A S \in SUBSET Objects : Closed(slice, w, S) => sets[w] \subseteq S

\* The merged sets: each holds the groups merged so far that the walk
\* touched, only what groups tie to the walk, and no further object with an
\* area.
Merging ==
  pc \in {"union", "done"} =>
    /\ DOMAIN sets = Seeded(slice)
    /\ groups \subseteq RiskGroups(slice)
    /\ \A w \in DOMAIN sets :
         /\ sets[w] \subseteq merged[w]
         /\ \A g \in RiskGroups(slice) \ groups :
              sets[w] \cap CoMembers(slice, g) # {} =>
                CoMembers(slice, g) \cup {g} \subseteq merged[w]
         /\ \A S \in SUBSET Objects :
              sets[w] \subseteq S /\ FateShared(slice, S) => merged[w] \subseteq S
         /\ \A m \in merged[w] \ sets[w] : slice.area[m] = NoArea

\* There are no trails before the end, and then those of the merged sets.
Results ==
  /\ pc # "done" => trails = {}
  /\ pc = "done" => groups = {} /\ trails = {TrailOf(merged[w]) : w \in DOMAIN merged}

IInv == TypeOK /\ InReach /\ Finished /\ Merging /\ Results

\* The invariant holds initially.
LEMMA IInvInit == Init => IInv
<1>1. ASSUME Init PROVE IInv
  <2>1. DOMAIN sets = {}
    BY <1>1 DEF Init
  <2> QED
    BY <1>1, <2>1, TypeInit DEF Init, IInv, InReach, Finished, Merging, Results
<1> QED
  BY <1>1

\* The walk in progress stays sound.
LEMMA InReachNext == IInv /\ [Next]_vars => InReach'
<1> SUFFICES ASSUME IInv, [Next]_vars PROVE InReach'
  OBVIOUS
<1>1. CASE start
  <2>1. PICK w \in Seeded(slice) : walk' = w /\ reachable' = {w[1]} /\ frontier' = {w[1]}
    BY <1>1 DEF start
  <2>2. \A S : Closed(slice, w, S) => {w[1]} \subseteq S
    BY DEF Closed
  <2> QED
    BY <1>1, <2>1, <2>2 DEF start, InReach
<1>2. CASE reach
  <2>1. PICK object \in frontier :
          LET new == Admitted(slice, walk, object) \ reachable IN
          /\ reachable' = reachable \cup new
          /\ frontier' = (frontier \ {object}) \cup new
    BY <1>2 DEF reach
  <2>2. /\ walk[1] \in reachable
        /\ \A n \in reachable \ frontier : Admitted(slice, walk, n) \subseteq reachable
        /\ \A S \in SUBSET Objects : Closed(slice, walk, S) => reachable \subseteq S
    BY <1>2 DEF reach, IInv, InReach
  <2>3. object \in reachable
    BY DEF IInv, TypeOK
  <2>4. reachable' = reachable \cup Admitted(slice, walk, object)
    BY <2>1
  <2>5. \A n \in reachable' \ frontier' : Admitted(slice, walk, n) \subseteq reachable'
    BY <2>1, <2>2, <2>4
  <2>6. ASSUME NEW S \in SUBSET Objects, Closed(slice, walk, S)
        PROVE  reachable' \subseteq S
    <3>1. object \in S
      BY <2>2, <2>3, <2>6
    <3>2. Admitted(slice, walk, object) \subseteq S
      BY <3>1, <2>6 DEF Closed
    <3> QED
      BY <3>2, <2>2, <2>4, <2>6
  <2> QED
    BY <1>2, <2>2, <2>4, <2>5, <2>6 DEF reach, InReach
<1>3. CASE keep
  BY <1>3 DEF keep, InReach
<1>4. CASE collect
  BY <1>4 DEF collect, InReach
<1>5. CASE union
  BY <1>5 DEF union, InReach
<1>6. CASE materialize
  BY <1>6 DEF materialize, InReach
<1>7. CASE UNCHANGED vars
  BY <1>7 DEF vars, InReach, IInv
<1> QED
  BY <1>1, <1>2, <1>3, <1>4, <1>5, <1>6, <1>7 DEF Next

\* A finished walk returned the least closed set: its frontier is empty.
LEMMA FinishedNext == IInv /\ [Next]_vars => Finished'
<1> SUFFICES ASSUME IInv, [Next]_vars PROVE Finished'
  OBVIOUS
<1>1. CASE keep
  <2>1. Closed(slice, walk, reachable)
    BY <1>1 DEF keep, IInv, InReach, Closed
  <2>2. \A S \in SUBSET Objects : Closed(slice, walk, S) => reachable \subseteq S
    BY <1>1 DEF keep, IInv, InReach
  <2>3. /\ slice' = slice
        /\ DOMAIN sets' = DOMAIN sets \cup {walk}
        /\ \A w \in DOMAIN sets' : sets'[w] = IF w = walk THEN reachable ELSE sets[w]
    BY <1>1 DEF keep
  <2>4. \A w \in DOMAIN sets :
          /\ Closed(slice, w, sets[w])
          /\ \A S \in SUBSET Objects : Closed(slice, w, S) => sets[w] \subseteq S
    BY DEF IInv, Finished
  <2> QED
    BY <2>1, <2>2, <2>3, <2>4 DEF Finished
<1>2. CASE UNCHANGED <<slice, sets>>
  BY <1>2 DEF IInv, Finished
<1> QED
  BY <1>1, <1>2 DEF Next, vars, start, reach, collect, union, materialize

\* Merging a group keeps the merged sets between their bounds.
LEMMA MergingNext == IInv /\ [Next]_vars => Merging'
<1> SUFFICES ASSUME IInv, [Next]_vars PROVE Merging'
  OBVIOUS
<1>1. CASE collect
  <2>1. /\ slice' = slice /\ sets' = sets /\ merged' = sets
        /\ groups' = RiskGroups(slice) /\ DOMAIN sets = Seeded(slice)
    BY <1>1 DEF collect
  <2> QED
    BY <2>1 DEF Merging
<1>2. CASE union
  <2>1. PICK g \in groups :
          /\ merged' = [w \in DOMAIN merged |->
                          IF merged[w] \cap CoMembers(slice, g) = {} THEN merged[w]
                          ELSE merged[w] \cup CoMembers(slice, g) \cup {g}]
          /\ groups' = groups \ {g}
    BY <1>2 DEF union
  <2> DEFINE co == CoMembers(slice, g)
  <2>2. slice' = slice /\ sets' = sets /\ pc = "union"
    BY <1>2 DEF union
  <2>3. /\ DOMAIN sets = Seeded(slice) /\ DOMAIN merged = Seeded(slice)
        /\ groups \subseteq RiskGroups(slice)
    BY <2>2 DEF IInv, Merging, TypeOK
  <2>4. \A m \in co \cup {g} : slice.area[m] = NoArea
    <3>1. slice \in Slices /\ g \in RiskGroups(slice)
      BY <2>1, <2>3 DEF IInv, TypeOK
    <3>2. \A m \in co : <<m, g>> \in slice.memberOf
      BY DEF CoMembers
    <3>3. \A m \in co : slice.area[m] = NoArea /\ slice.area[g] = NoArea
      BY <3>1, <3>2, SlicesAssumption
    <3>4. co # {}
      BY <3>1 DEF RiskGroups
    <3> QED
      BY <3>3, <3>4
  <2>5. ASSUME NEW w \in DOMAIN sets
        PROVE  /\ sets[w] \subseteq merged'[w]
               /\ \A h \in RiskGroups(slice) \ groups' :
                    sets[w] \cap CoMembers(slice, h) # {} =>
                      CoMembers(slice, h) \cup {h} \subseteq merged'[w]
               /\ \A S \in SUBSET Objects :
                    sets[w] \subseteq S /\ FateShared(slice, S) => merged'[w] \subseteq S
               /\ \A m \in merged'[w] \ sets[w] : slice.area[m] = NoArea
    <3>1. /\ sets[w] \subseteq merged[w]
          /\ \A h \in RiskGroups(slice) \ groups :
               sets[w] \cap CoMembers(slice, h) # {} =>
                 CoMembers(slice, h) \cup {h} \subseteq merged[w]
          /\ \A S \in SUBSET Objects :
               sets[w] \subseteq S /\ FateShared(slice, S) => merged[w] \subseteq S
          /\ \A m \in merged[w] \ sets[w] : slice.area[m] = NoArea
      BY <2>2 DEF IInv, Merging
    <3>2. merged'[w] = IF merged[w] \cap co = {} THEN merged[w]
                       ELSE merged[w] \cup co \cup {g}
      BY <2>1, <2>3
    <3> HIDE DEF co
    <3>3. sets[w] \subseteq merged'[w]
      BY <3>1, <3>2
    <3>4. ASSUME NEW h \in RiskGroups(slice) \ groups',
                 sets[w] \cap CoMembers(slice, h) # {}
          PROVE  CoMembers(slice, h) \cup {h} \subseteq merged'[w]
      <4>1. CASE h = g
        <5>1. sets[w] \cap co # {}
          BY <4>1, <3>4 DEF co
        <5>2. merged'[w] = merged[w] \cup co \cup {g}
          BY <5>1, <3>1, <3>2
        <5> QED
          BY <4>1, <5>2, Zenon DEF co
      <4>2. CASE h # g
        <5>1. h \in RiskGroups(slice) \ groups
          BY <4>2, <2>1
        <5>2. CoMembers(slice, h) \cup {h} \subseteq merged[w]
          BY <5>1, <3>1, <3>4
        <5> QED
          BY <5>2, <3>2
      <4> QED
        BY <4>1, <4>2
    <3>5. ASSUME NEW S \in SUBSET Objects, sets[w] \subseteq S, FateShared(slice, S)
          PROVE  merged'[w] \subseteq S
      <4>1. merged[w] \subseteq S
        BY <3>1, <3>5
      <4>2. S \cap co # {} => co \cup {g} \subseteq S
        BY <2>1, <2>3, <3>5 DEF FateShared, co
      <4> QED
        BY <4>1, <4>2, <3>2
    <3>6. \A m \in merged'[w] \ sets[w] : slice.area[m] = NoArea
      BY <3>1, <3>2, <2>4
    <3> QED
      BY <3>3, <3>4, <3>5, <3>6
  <2>6. groups' \subseteq RiskGroups(slice)
    BY <2>1, <2>3
  <2> QED
    BY <2>2, <2>3, <2>5, <2>6 DEF Merging
<1>3. CASE materialize
  BY <1>3 DEF materialize, IInv, Merging
<1>4. CASE start \/ reach \/ keep
  BY <1>4 DEF start, reach, keep, Merging
<1>5. CASE UNCHANGED vars
  BY <1>5 DEF vars, IInv, Merging
<1> QED
  BY <1>1, <1>2, <1>3, <1>4, <1>5 DEF Next

\* Trails are made once, of the merged sets.
LEMMA ResultsNext == IInv /\ [Next]_vars => Results'
<1> SUFFICES ASSUME IInv, [Next]_vars PROVE Results'
  OBVIOUS
<1>1. CASE materialize
  <2>1. /\ slice' = slice /\ merged' = merged /\ groups' = {}
        /\ trails' = {TrailOf(merged[w]) : w \in DOMAIN merged}
        /\ pc' = "done"
    BY <1>1 DEF materialize
  <2>2. \A w \in DOMAIN merged : TrailOf(merged[w])' = TrailOf(merged[w])
    BY <2>1 DEF TrailOf, AreaOf
  <2> QED
    BY <2>1, <2>2 DEF Results
<1>2. CASE start \/ reach \/ keep \/ collect \/ union
  BY <1>2 DEF start, reach, keep, collect, union, IInv, Results, TypeOK
<1>3. CASE UNCHANGED vars
  <2>1. /\ slice' = slice /\ merged' = merged /\ groups' = groups
        /\ trails' = trails /\ pc' = pc
    BY <1>3 DEF vars
  <2>2. \A w \in DOMAIN merged : TrailOf(merged[w])' = TrailOf(merged[w])
    BY <2>1 DEF TrailOf, AreaOf
  <2> QED
    BY <2>1, <2>2 DEF Results, IInv
<1> QED
  BY <1>1, <1>2, <1>3 DEF Next

\* The invariant is inductive.
LEMMA IInvNext == IInv /\ [Next]_vars => IInv'
  BY TypeNext, InReachNext, FinishedNext, MergingNext, ResultsNext DEF IInv

\* The invariant holds in every run.
THEOREM Inductive == Spec => []IInv
  BY IInvInit, IInvNext, PTL DEF Spec

-----------------------------------------------------------------------------
(* The properties.                                                         *)

\* A walk returns the least set that holds its seed and is closed under what
\* it admits, whatever the order in which its frontier was popped.
THEOREM WalksReachTheLeast == Spec => []WalksAreLeast
<1>1. ASSUME IInv PROVE WalksAreLeast
  <2> SUFFICES ASSUME NEW w \in DOMAIN sets
               PROVE  /\ Closed(slice, w, sets[w])
                      /\ \A S \in SUBSET sets[w] : Closed(slice, w, S) => S = sets[w]
    BY DEF WalksAreLeast
  <2>1. sets[w] \subseteq Objects
    BY <1>1 DEF IInv, TypeOK
  <2> QED
    BY <1>1, <2>1 DEF IInv, Finished
<1> QED
  BY <1>1, Inductive, PTL

\* Two walks bounded to one area return the same set or share nothing: the
\* areas a seed is bounded to are those whose walks admit it.
THEOREM WalksPartitionAreas == Spec => []AreaWalksPartition
<1>1. ASSUME IInv PROVE AreaWalksPartition
  <2> SUFFICES ASSUME NEW v \in DOMAIN sets, NEW w \in DOMAIN sets,
                      v[2] = w[2], v[2] # NoArea, sets[v] \cap sets[w] # {}
               PROVE  sets[v] = sets[w]
    BY DEF AreaWalksPartition
  <2>1. slice \in Slice /\ v \in Seeded(slice) /\ w \in Seeded(slice)
    BY <1>1, SlicesAssumption DEF IInv, TypeOK
  <2>2. sets[v] \in SUBSET Objects /\ sets[w] \in SUBSET Objects
    BY <1>1 DEF IInv, TypeOK
  <2>3. /\ Closed(slice, v, sets[v])
        /\ \A S \in SUBSET Objects : Closed(slice, v, S) => sets[v] \subseteq S
    BY <1>1 DEF IInv, Finished
  <2>4. /\ Closed(slice, w, sets[w])
        /\ \A S \in SUBSET Objects : Closed(slice, w, S) => sets[w] \subseteq S
    BY <1>1 DEF IInv, Finished
  <2>5. sets[v] \subseteq sets[w]
    BY <2>1, <2>2, <2>3, <2>4, LeastMeet
  <2>6. sets[w] \subseteq sets[v]
    BY <2>1, <2>2, <2>3, <2>4, LeastMeet
  <2> QED
    BY <2>5, <2>6
<1> QED
  BY <1>1, Inductive, PTL

\* A member set ends with every risk group its walk touched, and with nothing
\* that no chain of groups ties to it, whatever the order of the groups.
THEOREM RiskGroupsTravel == Spec => []FateSharedLinksTravel
<1>1. ASSUME IInv PROVE FateSharedLinksTravel
  <2> SUFFICES ASSUME pc = "done", NEW w \in DOMAIN sets
               PROVE  /\ \A g \in RiskGroups(slice) :
                           sets[w] \cap CoMembers(slice, g) # {} =>
                             CoMembers(slice, g) \cup {g} \subseteq merged[w]
                      /\ \A S \in SUBSET merged[w] :
                           sets[w] \subseteq S /\ FateShared(slice, S) => S = merged[w]
    BY DEF FateSharedLinksTravel
  <2>1. groups = {} /\ DOMAIN merged = Seeded(slice) /\ DOMAIN sets = Seeded(slice)
    BY <1>1 DEF IInv, Results, TypeOK, Merging
  <2>2. merged[w] \subseteq Objects
    BY <1>1, <2>1 DEF IInv, TypeOK
  <2>3. /\ \A g \in RiskGroups(slice) \ groups :
             sets[w] \cap CoMembers(slice, g) # {} =>
               CoMembers(slice, g) \cup {g} \subseteq merged[w]
        /\ \A S \in SUBSET Objects :
             sets[w] \subseteq S /\ FateShared(slice, S) => merged[w] \subseteq S
    BY <1>1 DEF IInv, Merging
  <2> QED
    BY <2>1, <2>2, <2>3
<1> QED
  BY <1>1, Inductive, PTL

\* The areas of a merged member set are those of its walk's.
LEMMA MergedArea ==
  ASSUME IInv, pc = "done", NEW w \in DOMAIN merged, w[2] # NoArea
  PROVE  {slice.area[m] : m \in merged[w]} \ {NoArea} = {w[2]}
<1>1. DOMAIN merged = Seeded(slice) /\ DOMAIN sets = Seeded(slice) /\ slice \in Slice
  BY SlicesAssumption DEF IInv, Merging, TypeOK
<1>2. sets[w] \in SUBSET Objects
  BY <1>1 DEF IInv, TypeOK
<1>3. {slice.area[m] : m \in sets[w]} \ {NoArea} = {w[2]}
  BY <1>1, <1>2, LeastKeepsToItsArea DEF IInv, Finished
<1>4. sets[w] \subseteq merged[w] /\ \A m \in merged[w] \ sets[w] : slice.area[m] = NoArea
  BY <1>1 DEF IInv, Merging
<1> QED
  BY <1>3, <1>4

\* A member set that a bounded walk gave has the area of that walk; a trail
\* with an area has the area of its objects.
LEMMA AreaOfMerged ==
  ASSUME IInv, pc = "done", NEW w \in DOMAIN merged
  PROVE  /\ w[2] # NoArea => AreaOf(merged[w]) = w[2]
         /\ AreaOf(merged[w]) # NoArea =>
              {slice.area[m] : m \in merged[w]} \ {NoArea} = {AreaOf(merged[w])}
<1> DEFINE bounded == {v \in DOMAIN merged : merged[v] = merged[w] /\ v[2] # NoArea}
           found   == {slice.area[m] : m \in merged[w]} \ {NoArea}
<1>1. \A v \in bounded : found = {v[2]}
  BY MergedArea
<1>2. CASE bounded # {}
  <2>1. DOMAIN merged \subseteq Walks
    BY SlicesAssumption, SeededType DEF IInv, TypeOK
  <2>2. bounded \in SUBSET (Objects \X Areas)
    BY <2>1 DEF Walks
  <2>3. First(bounded) \in bounded
    BY <1>2, <2>2, FirstIn
  <2>4. AreaOf(merged[w]) = First(bounded)[2]
    BY <1>2 DEF AreaOf
  <2>5. w[2] # NoArea => w \in bounded
    OBVIOUS
  <2> HIDE DEF bounded, found
  <2>6. found = {AreaOf(merged[w])}
    BY <1>1, <2>3, <2>4
  <2> QED
    BY <1>1, <2>5, <2>6 DEF found
<1>3. CASE bounded = {}
  <2>1. w[2] = NoArea
    BY <1>3
  <2>2. AreaOf(merged[w]) = IF \E a \in Areas : found = {a}
                            THEN CHOOSE a \in Areas : found = {a} ELSE NoArea
    BY <1>3 DEF AreaOf
  <2> HIDE DEF found, bounded
  <2>3. AreaOf(merged[w]) # NoArea => found = {AreaOf(merged[w])}
    BY <2>2
  <2> QED
    BY <2>1, <2>3 DEF found
<1> QED
  BY <1>2, <1>3

\* A trail that names an area holds objects of that area and of no other.
THEOREM TrailsAreSingleArea == Spec => []TrailsKeepToTheirArea
<1>1. ASSUME IInv PROVE TrailsKeepToTheirArea
  <2> SUFFICES ASSUME NEW t \in trails, t.area # NoArea
               PROVE  {slice.area[m] : m \in t.members} \ {NoArea} = {t.area}
    BY DEF TrailsKeepToTheirArea
  <2>1. pc = "done"
    BY <1>1 DEF IInv, Results
  <2>2. PICK w \in DOMAIN merged : t = TrailOf(merged[w])
    BY <1>1, <2>1 DEF IInv, Results
  <2>3. t.members = merged[w] /\ t.area = AreaOf(merged[w])
    BY <2>2 DEF TrailOf
  <2> QED
    BY <1>1, <2>1, <2>3, AreaOfMerged
<1> QED
  BY <1>1, Inductive, PTL

\* Each seed has its walks, and each walk its trail.
LEMMA SeedsHaveTrails == IInv => EverySeedHasItsTrails
<1>1. ASSUME IInv PROVE EverySeedHasItsTrails
  <2> SUFFICES ASSUME pc = "done", NEW n \in Objects \ slice.risk
               PROVE  /\ \E t \in trails : n \in t.members
                      /\ \A a \in TargetAreas(slice, n) :
                           \E t \in trails : n \in t.members /\ t.area = a
    BY DEF EverySeedHasItsTrails
  <2>1. /\ DOMAIN merged = Seeded(slice) /\ DOMAIN sets = Seeded(slice)
        /\ trails = {TrailOf(merged[w]) : w \in DOMAIN merged}
        /\ slice \in Slice
    BY <1>1, SlicesAssumption DEF IInv, Merging, Results, TypeOK
  <2>2. ASSUME NEW w \in BoundedClosures(slice, n)
        PROVE  /\ TrailOf(merged[w]) \in trails
               /\ n \in TrailOf(merged[w]).members
               /\ w[2] # NoArea => TrailOf(merged[w]).area = w[2]
    <3>1. w \in Seeded(slice) /\ w[1] = n
      BY DEF Seeded, BoundedClosures
    <3>2. n \in sets[w]
      BY <1>1, <2>1, <3>1 DEF IInv, Finished, Closed
    <3>3. n \in merged[w]
      BY <1>1, <2>1, <3>1, <3>2 DEF IInv, Merging
    <3>4. w[2] # NoArea => AreaOf(merged[w]) = w[2]
      BY <1>1, <2>1, <3>1, AreaOfMerged
    <3> QED
      BY <2>1, <3>1, <3>3, <3>4 DEF TrailOf
  <2>3. \E t \in trails : n \in t.members
    <3> DEFINE A == IF TargetAreas(slice, n) = {} THEN {NoArea} ELSE TargetAreas(slice, n)
    <3>1. PICK w : w \in BoundedClosures(slice, n)
      <4>1. PICK a : a \in A
        OBVIOUS
      <4>2. <<n, a>> \in BoundedClosures(slice, n)
        BY <4>1 DEF BoundedClosures
      <4> QED
        BY <4>2
    <3> QED
      BY <2>2, <3>1
  <2>4. ASSUME NEW a \in TargetAreas(slice, n)
        PROVE  \E t \in trails : n \in t.members /\ t.area = a
    <3>1. <<n, a>> \in BoundedClosures(slice, n)
      BY DEF BoundedClosures
    <3>2. a # NoArea
      <4>1. CASE slice.area[n] # NoArea
        BY <4>1 DEF TargetAreas
      <4>2. CASE slice.area[n] = NoArea
        BY <4>2 DEF TargetAreas, ConnectorAreas, Direct
      <4> QED
        BY <4>1, <4>2
    <3> QED
      BY <2>2, <3>1, <3>2
  <2> QED
    BY <2>3, <2>4
<1> QED
  BY <1>1

\* No seed is lost: each is on a trail of every area it is bounded to, and on
\* some trail if there is none.
THEOREM SeedsAreOnTrails == Spec => []EverySeedHasItsTrails
  BY SeedsHaveTrails, Inductive, PTL
-----------------------------------------------------------------------------
(* A compile over the trails.                                              *)

Proved == INSTANCE SignaturesProofs WITH
  snapshot <- Graphs[slice],
  Changing <- [v \in DOMAIN ChangingSlices |-> {Graphs[s] : s \in ChangingSlices[v]}]

\* The operators of the two instances of Signatures are the same.
LEMMA SameNext == Codebook!Next => Proved!Next
<1>1. Codebook!Begin => Proved!Begin
  BY DEF Codebook!Begin, Codebook!Answered, Codebook!walking, Codebook!tagging,
         Proved!Begin, Proved!Answered, Proved!walking, Proved!tagging
<1>2. Codebook!RequestFails => Proved!RequestFails
  BY DEF Codebook!RequestFails, Codebook!Answered, Codebook!InRequest, Codebook!Requests,
         Codebook!Untagged, Codebook!world, Codebook!held, Codebook!walking, Codebook!tagging,
         Proved!RequestFails, Proved!Answered, Proved!InRequest, Proved!Requests, Proved!Untagged,
         Proved!world, Proved!held, Proved!walking, Proved!tagging
<1>3. Codebook!GetFaultOriginTypes => Proved!GetFaultOriginTypes
  BY DEF Codebook!GetFaultOriginTypes, Codebook!Answered, Codebook!world, Codebook!held,
         Codebook!walking,
         Codebook!tagging,
         Proved!GetFaultOriginTypes, Proved!Answered, Proved!world, Proved!held, Proved!walking,
         Proved!tagging
<1>4. Codebook!GetPropagationTemplates => Proved!GetPropagationTemplates
  BY DEF Codebook!GetPropagationTemplates, Codebook!Answered, Codebook!world, Codebook!held,
         Codebook!walking,
         Codebook!tagging,
         Proved!GetPropagationTemplates, Proved!Answered, Proved!world, Proved!held,
         Proved!walking, Proved!tagging
<1>5. Codebook!GetAlarmTypeVocabulary => Proved!GetAlarmTypeVocabulary
  BY DEF Codebook!GetAlarmTypeVocabulary, Codebook!Answered, Codebook!world, Codebook!held,
         Codebook!walking,
         Codebook!tagging,
         Proved!GetAlarmTypeVocabulary, Proved!Answered, Proved!world, Proved!held, Proved!walking,
         Proved!tagging
<1>6. Codebook!ListObjectsByType => Proved!ListObjectsByType
  <2> DEFINE Listed == {o \in current.nodes : Type[o] = Head(types)}
  <2>1. Codebook!Sorted(Listed) = Proved!Sorted(Listed)
    BY DEF Codebook!Sorted, Proved!Sorted, Codebook!Cardinality, Proved!Cardinality
  <2> QED
    BY <2>1
    DEF Codebook!ListObjectsByType, Codebook!Answered, Codebook!world, Codebook!held,
         Codebook!walking,
        Codebook!tagging,
        Proved!ListObjectsByType, Proved!Answered, Proved!world, Proved!held, Proved!walking,
         Proved!tagging
<1>7. Codebook!Traverse => Proved!Traverse
  BY DEF Codebook!Traverse, Codebook!Answered, Codebook!Relations, Codebook!SeedRecords,
         Codebook!Traversal, Codebook!Region, Codebook!Reached, Codebook!Begins, Codebook!Seed,
         Codebook!State, Codebook!world, Codebook!held, Codebook!walking, Codebook!tagging,
         Proved!Traverse, Proved!Answered, Proved!Relations, Proved!SeedRecords, Proved!Traversal,
         Proved!Region, Proved!Reached, Proved!Begins, Proved!Seed, Proved!State, Proved!world,
         Proved!held,
         Proved!walking, Proved!tagging
<1>8. Codebook!Pop => Proved!Pop
  BY DEF Codebook!Pop, Codebook!Matches, Codebook!Fires, Codebook!world, Codebook!held,
         Codebook!tagging,
         Proved!Pop, Proved!Matches, Proved!Fires, Proved!world, Proved!held, Proved!tagging
<1>9. Codebook!Emit => Proved!Emit
  BY DEF Codebook!Emit, Codebook!First, Codebook!Before, Codebook!ByTarget, Proved!Before,
         Proved!ByTarget, Codebook!Raised, Codebook!State, Codebook!Holds,
         Codebook!world, Codebook!held, Codebook!tagging,
         Proved!Emit, Proved!First, Proved!Raised, Proved!State, Proved!Holds, Proved!world,
         Proved!held,
         Proved!tagging
<1>10. Codebook!Propagated => Proved!Propagated
  BY DEF Codebook!Propagated, Codebook!world, Codebook!held, Codebook!walking,
         Proved!Propagated, Proved!world, Proved!held, Proved!walking
<1>11. Codebook!GetTrailsForObject => Proved!GetTrailsForObject
  BY DEF Codebook!GetTrailsForObject, Codebook!Answered, Codebook!Untagged, Codebook!world,
         Codebook!held,
         Codebook!walking,
         Proved!GetTrailsForObject, Proved!Answered, Proved!Untagged, Proved!world, Proved!held,
         Proved!walking
<1>12. Codebook!AppendScenario => Proved!AppendScenario
  BY DEF Codebook!AppendScenario, Codebook!Answered, Codebook!Untagged, Codebook!world,
         Codebook!held,
         Codebook!walking, Codebook!tagging,
         Proved!AppendScenario, Proved!Answered, Proved!Untagged, Proved!world, Proved!held,
         Proved!walking,
         Proved!tagging
<1>13. Codebook!Validate => Proved!Validate
  BY DEF Codebook!Validate, Codebook!Answered, Codebook!Valid, Codebook!world, Codebook!held,
         Codebook!walking,
         Codebook!tagging,
         Proved!Validate, Proved!Answered, Proved!Valid, Proved!world, Proved!held, Proved!walking,
         Proved!tagging
<1>14. Codebook!CutOver => Proved!CutOver
  BY DEF Codebook!CutOver, Codebook!Over, Codebook!held, Codebook!walking, Codebook!tagging,
         Proved!CutOver, Proved!Over, Proved!held, Proved!walking, Proved!tagging
<1>15. Codebook!Publish => Proved!Publish
  BY DEF Codebook!Publish, Codebook!held, Codebook!walking, Codebook!tagging,
         Proved!Publish, Proved!held, Proved!walking, Proved!tagging
<1>16. Codebook!PersistBuild => Proved!PersistBuild
  BY DEF Codebook!PersistBuild, Codebook!Over, Codebook!walking, Codebook!tagging,
         Proved!PersistBuild, Proved!Over, Proved!walking, Proved!tagging
<1> QED
  BY <1>1, <1>2, <1>3, <1>4, <1>5, <1>6, <1>7, <1>8, <1>9, <1>10, <1>11, <1>12, <1>13, <1>14, <1>15,
     <1>16
      DEF Codebook!Next, Codebook!Compile, Proved!Next, Proved!Compile

\* The invariant of a compile holds when a slice is fetched.
LEMMA SystemBegins == SystemInit => Proved!SInv
<1>1. Codebook!Ready => Proved!Ready
  BY DEF Codebook!Ready, Proved!Ready, Codebook!Nothing, Proved!Nothing
<1> QED
  BY <1>1, Proved!ReadyInv DEF SystemInit

\* The Trail Builder leaves the compile alone, and the Codebook Generator the slice.
LEMMA SystemStep == ASSUME Proved!SInv, [SystemNext]_all PROVE Proved!SInv'
<1>1. CASE UNCHANGED compiling
  <2>1. UNCHANGED <<symptoms, agenda, scenarios, step, knowledge, nodes, Proved!walking>>
    BY <1>1 DEF compiling, Proved!walking
  <2>2. Proved!Asking' => scenarios = <<>>
    BY <2>1 DEF Proved!SInv, Proved!Settled, Proved!Asking
  <2> QED
    BY <2>1, <2>2, Proved!QuietStep
<1>2. CASE Codebook!Next
  BY <1>2, SameNext, Proved!StepInv
<1> QED
  BY <1>1, <1>2 DEF SystemNext, Build, Compile, all, compiling

\* The signatures compiled over the Trail Builder's trails are cascades, for any
\* slices, graphs, records and failures.
THEOREM SystemCascadesCorrect == SystemSpec => []SignaturesAreCascades
<1>1. Proved!SInv => SignaturesAreCascades
  BY DEF Proved!SInv, SignaturesAreCascades, Proved!SignaturesAreCascades,
         Codebook!SignaturesAreCascades,
         Codebook!IsCascade, Proved!IsCascade, Codebook!Matches, Proved!Matches, Codebook!Fires,
         Proved!Fires,
         Codebook!Raised, Proved!Raised, Codebook!State, Proved!State, Codebook!Holds, Proved!Holds,
         Codebook!Seed, Proved!Seed, Codebook!SeedRecords, Proved!SeedRecords
<1> QED
  BY <1>1, SystemBegins, SystemStep, PTL DEF SystemSpec
-----------------------------------------------------------------------------
(* Every cause is projected.                                               *)

\* What the Trail Builder has done, and what the compile has: it begins when
\* the trails are there.
Begun == step # "idle" => pc = "done"

Compiling == IInv /\ Begun /\ Proved!SInv /\ Proved!Covering

\* The assumptions on the world are those of the modules composed.
LEMMA WorldAssumed == Proved!Assumed
<1>1. Proved!IsFiniteSet(Objects)
  BY BoundsAssumption DEF IsFiniteSet, Proved!IsFiniteSet
<1>2. Later \subseteq Proved!Graph
  BY BoundsAssumption DEF Codebook!Graph, Proved!Graph, Codebook!Link, Proved!Link
<1>3. \A v \in DOMAIN Records : Records[v].origins \in Seq(Proved!Origin)
  BY RecordsAssumption DEF Codebook!Origin, Proved!Origin
<1> QED
  BY <1>1, <1>2, <1>3, ObjectsAssumption, BoundsAssumption DEF Proved!Assumed

\* The slice of a build stays.
LEMMA SliceStays == [Next]_vars => slice' = slice
  BY DEF Next, vars, start, reach, keep, collect, union, materialize

LEMMA CompilingBegins == SystemInit => Compiling
<1> SUFFICES ASSUME SystemInit PROVE Compiling
  OBVIOUS
<1>1. Proved!Ready
  BY DEF SystemInit, Codebook!Ready, Proved!Ready, Codebook!Nothing, Proved!Nothing
<1>2. Graphs[slice].nodes \subseteq Objects
  BY SameEdges DEF SystemInit, Init
<1>3. Proved!Covering
  BY <1>1, <1>2, WorldAssumed, Proved!CoveringBegins
<1>4. Begun
  BY <1>1 DEF Begun, Proved!Ready
<1> QED
  BY <1>3, <1>4, SystemBegins, IInvInit DEF SystemInit, Compiling

\* Before the event the Trail Builder works, and afterwards the Codebook
\* Generator.
LEMMA CompilingStep == ASSUME Compiling, [SystemNext]_all PROVE Compiling'
<1>1. Proved!SInv'
  BY SystemStep DEF Compiling
<1>2. IInv' /\ slice' = slice
  <2>1. [Next]_vars
    BY DEF SystemNext, Build, Compile, all
  <2> QED
    BY <2>1, IInvNext, SliceStays DEF Compiling
<1>3. CASE Next /\ UNCHANGED compiling
  <2>1. step = "idle"
    <3>1. pc # "done"
      BY <1>3 DEF Next, start, reach, keep, collect, union, materialize
    <3> QED
      BY <3>1 DEF Compiling, Begun
  <2>2. /\ UNCHANGED <<current, version, step, knowledge, types, nodes, scenarios>>
        /\ Graphs[slice'] = Graphs[slice]
    BY <1>2, <1>3 DEF compiling
  <2>3. Proved!Covering'
    BY <2>1, <2>2, Proved!CoveringWaits DEF Compiling
  <2>4. Begun'
    BY <2>1, <2>2 DEF Begun
  <2> QED
    BY <1>1, <1>2, <2>3, <2>4 DEF Compiling
<1>4. CASE pc = "done" /\ UNCHANGED vars /\ Codebook!Next
  <2>1. [Proved!Next]_Proved!vars
    BY <1>4, SameNext
  <2>2. Proved!Covering'
    BY <2>1, WorldAssumed, Proved!CoveringStep DEF Compiling
  <2>3. Begun'
    BY <1>4 DEF Begun, vars
  <2> QED
    BY <1>1, <1>2, <2>2, <2>3 DEF Compiling
<1>5. CASE UNCHANGED all
  <2>1. UNCHANGED Proved!vars
    BY <1>5 DEF all, vars, compiling, announced, Proved!vars, Proved!world, Proved!held,
      Proved!walking, Proved!tagging
  <2>2. Proved!Covering'
    BY <2>1, WorldAssumed, Proved!CoveringStep DEF Compiling
  <2>3. Begun'
    BY <1>5 DEF Begun, Compiling, all, vars, compiling
  <2> QED
    BY <1>1, <1>2, <2>2, <2>3 DEF Compiling
<1> QED
  BY <1>3, <1>4, <1>5 DEF SystemNext, Build, Compile, all

\* Every object that may be a cause is a seed, and so on a trail.
LEMMA CausesOnTrails ==
  ASSUME Compiling, step # "idle"
  PROVE  \A o \in Proved!Causes : \E t \in announced : o \in t.members
<1> SUFFICES ASSUME NEW o \in Proved!Causes PROVE \E t \in announced : o \in t.members
  OBVIOUS
<1>1. PICK k \in DOMAIN knowledge.origins : Type[o] = knowledge.origins[k].type
  BY DEF Proved!Causes
<1>2. o \in Objects
  BY DEF Proved!Causes, Compiling, Proved!Covering, Proved!Shapes
<1>3. knowledge.origins # <<>>
  <2>1. knowledge.origins = <<>> => DOMAIN knowledge.origins = {}
    OBVIOUS
  <2> QED
    BY <1>1, <2>1
<1>4. PICK v \in DOMAIN Records : knowledge.origins = Records[v].origins
  BY <1>3 DEF Compiling, Proved!Covering, Proved!Shapes
<1>5. slice \in Slices
  BY DEF Compiling, IInv, TypeOK
<1>6. o \notin slice.risk
  BY <1>1, <1>4, <1>5, OriginsAssumption
<1>7. PICK t \in trails : o \in t.members
  BY <1>2, <1>6, SeedsHaveTrails DEF Compiling, Begun, EverySeedHasItsTrails
<1>8. [members |-> t.members, of |-> 0].members = t.members
  OBVIOUS
<1>9. [members |-> t.members, of |-> 0] \in announced
  BY DEF announced
<1> QED
  BY <1>7, <1>8, <1>9

\* Once a codebook is stored, every object of a fault-origin type that Topology
\* held throughout has its signature, under its own alarm, on every trail of its
\* symptoms that was held all the time and on none that never was, whatever
\* requests failed and however Topology, Knowledge and the Trail Builder's store
\* changed meanwhile; and on a trail of its own that the Trail Builder computed
\* for the event, unless one of those was pruned or replaced.
THEOREM SystemCausesCorrect == SystemSpec => []CausesAreProjected
<1>1. ASSUME Compiling PROVE CausesAreProjected
  <2>1. Proved!CausesAreProjected
    <3>1. CASE step = "stored"
      BY <1>1, <3>1, CausesOnTrails, Proved!Projected DEF Compiling
    <3>2. CASE step # "stored"
      BY <3>2 DEF Proved!CausesAreProjected
    <3> QED
      BY <3>1, <3>2
  <2> QED
    BY <2>1
    DEF CausesAreProjected, Codebook!CausesAreProjected, Proved!CausesAreProjected,
        Codebook!TrailsOf, Proved!TrailsOf,
        Codebook!Project, Proved!Project, Codebook!RootCause, Proved!RootCause,
        Codebook!Seed, Proved!Seed, Codebook!SeedRecords, Proved!SeedRecords,
        Codebook!State, Proved!State
<1> QED
  BY <1>1, CompilingBegins, CompilingStep, PTL DEF SystemSpec
=============================================================================
