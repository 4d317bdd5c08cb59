---------------------------- MODULE TrailClosure ----------------------------
(***************************************************************************)
(* The Trail Builder's closure algorithm: from the graph slice of a build  *)
(* to its trails.                                                          *)
(*                                                                         *)
(* Every object but the risk groups is a seed.  From a seed, a walk over   *)
(* the dependency links is made for each IGP area the seed belongs to: the *)
(* walk for an area takes objects of that area and the connectors, objects *)
(* without an area, that ride within it.  A seed without any area walks    *)
(* unbounded.  Risk groups then bring the links they join into every       *)
(* member set that holds one of them, and equal member sets become one     *)
(* trail.                                                                  *)
(*                                                                         *)
(* Numbers stand for managed object ids and for area names, in their       *)
(* sorted order.  A policy without the "igp-area" boundary is a slice in   *)
(* which no object has an area: the code then sees none.  A policy without *)
(* the risk group rule is a slice without memberOf edges.                  *)
(***************************************************************************)
EXTENDS Naturals

CONSTANTS Objects,  \* the nodes of the slice
          Areas,    \* IGP areas
          NoArea,   \* what an object without an area has
          Slices    \* the slices a build may get

ASSUME ObjectsAssumption == Objects \subseteq Nat /\ Areas \subseteq Nat
ASSUME NoAreaAssumption  == NoArea \notin Areas

\* area: the igp-area attribute; risk: objects of type SRLG; links: edges of
\* the policy's closure relations; memberOf: edges of its risk group relation.
Slice == [area     : [Objects -> Areas \cup {NoArea}],
          risk     : SUBSET Objects,
          links    : SUBSET (Objects \X Objects),
          memberOf : SUBSET (Objects \X Objects)]

\* A risk group joins links, and neither bears an area (L292): the code does
\* not look, it depends on what Topology holds.
ASSUME SlicesAssumption ==
  /\ Slices \subseteq Slice
  /\ \A s \in Slices : \A e \in s.memberOf : s.area[e[1]] = NoArea /\ s.area[e[2]] = NoArea

VARIABLES
  slice,      \* the slice fetched from Topology
  pc,         \* "seeds", "reach", "union", "done"
  walk,       \* the walk in progress: a seed and the area it is bounded to
  reachable,  \* what the walk has reached
  frontier,   \* reached objects whose neighbours it has not looked at
  sets,       \* the member set of every finished walk
  merged,     \* the member sets with the risk groups' links
  groups,     \* risk groups still to be merged
  trails      \* the result

vars == <<slice, pc, walk, reachable, frontier, sets, merged, groups, trails>>

Walks == Objects \X (Areas \cup {NoArea})
NoWalk == <<>>

\* The edge view is undirected.
Neighbors(s, n) == {m \in Objects : <<n, m>> \in s.links \/ <<m, n>> \in s.links}

\* The areas of the objects next to n: n conducts them.
Direct(s, n) == {s.area[m] : m \in Neighbors(s, n)} \ {NoArea}

\* The areas a connector rides within: those it conducts, and those a
\* connector next to it conducts.
ConnectorAreas(s, n) ==
  UNION {Direct(s, m) : m \in {n} \cup {o \in Neighbors(s, n) : s.area[o] = NoArea}}

\* Mutant: A connector also rides within the areas two connectors away.
TargetAreas_OneMoreHop(s, seed) ==
  IF s.area[seed] # NoArea THEN {s.area[seed]}
  ELSE UNION {ConnectorAreas(s, m) :
                m \in {seed} \cup {o \in Neighbors(s, seed) : s.area[o] = NoArea}}

TargetAreas(s, seed) ==
  IF s.area[seed] # NoArea THEN {s.area[seed]} ELSE ConnectorAreas(s, seed)

\* Mutant: The areas of objects that have one are not compared.
Admits_AnyArea(s, n, area) == s.area[n] # NoArea \/ area \in ConnectorAreas(s, n)

Admits(s, n, area) == IF s.area[n] # NoArea THEN s.area[n] = area
                                            ELSE area \in ConnectorAreas(s, n)

\* The walks from a seed: one for each area, or one without a bound.
BoundedClosures(s, seed) ==
  {seed} \X (IF TargetAreas(s, seed) = {} THEN {NoArea} ELSE TargetAreas(s, seed))

\* The walks of compute's loop over the seeds, and the loop's order.
Seeded(s) == UNION {BoundedClosures(s, seed) : seed \in Objects \ s.risk}
Before(v, w) == \/ v[1] < w[1]
                \/ v[1] = w[1] /\ v[2] # w[2] /\ v[2] < w[2]

\* What a walk takes of the neighbours of an object.
Admitted(s, w, n) == {m \in Neighbors(s, n) : w[2] # NoArea => Admits(s, m, w[2])}

CoMembers(s, g) == {m \in Objects : <<m, g>> \in s.memberOf}
RiskGroups(s) == {g \in Objects : \E m, n \in CoMembers(s, g) : m # n}

Init ==
  /\ slice \in Slices
  /\ pc = "seeds"
  /\ walk = NoWalk
  /\ reachable = {}
  /\ frontier = {}
  /\ sets = <<>>
  /\ merged = <<>>
  /\ groups = {}
  /\ trails = {}

\* compute takes the next seed, and _bounded_closures its next area.
start ==
  /\ pc = "seeds"
  /\ \E w \in Seeded(slice) \ DOMAIN sets :
       /\ \A v \in Seeded(slice) \ DOMAIN sets : v = w \/ Before(w, v)
       /\ walk' = w
       /\ reachable' = {w[1]}
       /\ frontier' = {w[1]}
  /\ pc' = "reach"
  /\ UNCHANGED <<slice, sets, merged, groups, trails>>

\* Mutant: A neighbour is reached, and pushed only if it has an area.
reach_StopsAtConnectors ==
  /\ pc = "reach"
  /\ \E current \in frontier :
       LET new == Admitted(slice, walk, current) \ reachable IN
       /\ reachable' = reachable \cup new
       /\ frontier' = (frontier \ {current}) \cup {n \in new : slice.area[n] # NoArea}
  /\ UNCHANGED <<slice, pc, walk, sets, merged, groups, trails>>

\* One turn of _reachable's loop.  The frontier is a stack that neighbours
\* are pushed on in no order: any of its objects may come next.
reach ==
  /\ pc = "reach"
  /\ \E current \in frontier :
       LET new == Admitted(slice, walk, current) \ reachable IN
       /\ reachable' = reachable \cup new
       /\ frontier' = (frontier \ {current}) \cup new
  /\ UNCHANGED <<slice, pc, walk, sets, merged, groups, trails>>

\* The frontier is empty: compute keeps the member set.
keep ==
  /\ pc = "reach"
  /\ frontier = {}
  /\ sets' = [w \in DOMAIN sets \cup {walk} |-> IF w = walk THEN reachable ELSE sets[w]]
  /\ walk' = NoWalk
  /\ reachable' = {}
  /\ pc' = "seeds"
  /\ UNCHANGED <<slice, frontier, merged, groups, trails>>

\* _srlg_union collects the groups that join two objects or more.
collect ==
  /\ pc = "seeds"
  /\ Seeded(slice) = DOMAIN sets
  /\ merged' = sets
  /\ groups' = RiskGroups(slice)
  /\ pc' = "union"
  /\ UNCHANGED <<slice, walk, reachable, frontier, sets, trails>>

\* Mutant: Each group is merged into the set as it was walked.
union_ForgetsEarlier ==
  /\ pc = "union"
  /\ \E g \in groups :
       LET co == CoMembers(slice, g) IN
       /\ merged' = [w \in DOMAIN merged |->
                       IF merged[w] \cap co = {} THEN merged[w]
                                                 ELSE sets[w] \cup co \cup {g}]
       /\ groups' = groups \ {g}
  /\ UNCHANGED <<slice, pc, walk, reachable, frontier, sets, trails>>

\* One turn of its loop.  The groups come in the order of the edges, which
\* is the order in which Topology answered.
union ==
  /\ pc = "union"
  /\ \E g \in groups :
       LET co == CoMembers(slice, g) IN
       /\ merged' = [w \in DOMAIN merged |->
                       IF merged[w] \cap co = {} THEN merged[w]
                                                 ELSE merged[w] \cup co \cup {g}]
       /\ groups' = groups \ {g}
  /\ UNCHANGED <<slice, pc, walk, reachable, frontier, sets, trails>>

Least(S) == CHOOSE n \in S : \A m \in S : n <= m
First(W) == CHOOSE w \in W : \A v \in W : v = w \/ Before(w, v)

\* Mutant: A trail bears the area of its seed.
AreaOf_OfSeed(members) ==
  slice.area[Least({w[1] : w \in {v \in DOMAIN merged : merged[v] = members}})]

\* area_for: the area of the first walk with a bound that gave the set;
\* failing that, _area_of_members.
AreaOf(members) ==
  LET bounded == {w \in DOMAIN merged : merged[w] = members /\ w[2] # NoArea}
      found   == {slice.area[m] : m \in members} \ {NoArea}
  IN  IF bounded # {} THEN First(bounded)[2]
      ELSE IF \E a \in Areas : found = {a} THEN CHOOSE a \in Areas : found = {a}
      ELSE NoArea

TrailOf(members) ==
  [members |-> members,
   seed    |-> Least({w[1] : w \in {v \in DOMAIN merged : merged[v] = members}}),
   area    |-> AreaOf(members),
   srlgGroup |-> {g \in members \cap slice.risk : g = Least(members \cap slice.risk)}]

\* One trail for each member set: its id is a digest of the members.
materialize ==
  /\ pc = "union"
  /\ groups = {}
  /\ trails' = {TrailOf(merged[w]) : w \in DOMAIN merged}
  /\ pc' = "done"
  /\ UNCHANGED <<slice, walk, reachable, frontier, sets, merged, groups>>

Next == start \/ reach \/ keep \/ collect \/ union \/ materialize

\* compute is a call that nothing interrupts.
Spec == Init /\ [][Next]_vars /\ WF_vars(Next)

-----------------------------------------------------------------------------
(* Properties.                                                             *)

Trail == [members : SUBSET Objects, seed : Objects, area : Areas \cup {NoArea},
          srlgGroup : SUBSET Objects]

\* Every variable has its type; a walk is in progress only in reach, for a
\* seed and an area that compute asks for, and the frontier has been reached.
TypeOK ==
  /\ slice \in Slices
  /\ pc \in {"seeds", "reach", "union", "done"}
  /\ walk \in IF pc = "reach" THEN Seeded(slice) ELSE {NoWalk}
  /\ reachable \in SUBSET Objects
  /\ frontier \in SUBSET reachable
  /\ DOMAIN sets \subseteq Seeded(slice)
  /\ sets \in [DOMAIN sets -> SUBSET Objects]
  /\ merged \in [DOMAIN merged -> SUBSET Objects]
  /\ pc \in {"union", "done"} => DOMAIN merged = Seeded(slice)
  /\ groups \in SUBSET Objects
  /\ trails \in SUBSET Trail

\* S holds the seed of w and, with an object, all that w takes from it.
Closed(s, w, S) == w[1] \in S /\ \A n \in S : Admitted(s, w, n) \subseteq S

\* _reachable (closure.py L222): whatever the order of its frontier, a walk
\* returns the least set that holds the seed and is closed under what it
\* admits: it misses nothing and takes nothing that no path leads to.
WalksAreLeast ==
  \A w \in DOMAIN sets :
    /\ Closed(slice, w, sets[w])
    /\ \A S \in SUBSET sets[w] : Closed(slice, w, S) => S = sets[w]

\* Two walks bounded to one area return the same set or share nothing, so
\* that within an area trails overlap through risk groups alone: a seed is
\* bounded to exactly the areas whose walks admit it (the rules of L151 and
\* L259, #225 and #234, agree), and walks go both ways along a link.
AreaWalksPartition ==
  \A v, w \in DOMAIN sets :
    v[2] = w[2] /\ v[2] # NoArea =>
      sets[v] = sets[w] \/ sets[v] \cap sets[w] = {}

\* S holds, with one member of a risk group, the whole group.
FateShared(s, S) ==
  \A g \in RiskGroups(s) : S \cap CoMembers(s, g) # {} => CoMembers(s, g) \cup {g} \subseteq S

\* _srlg_union (L281, AC-3): a member set that touched a risk group when it
\* was walked ends with the whole group, whatever the order of the groups,
\* and with nothing that no chain of risk groups ties to it.
FateSharedLinksTravel ==
  pc = "done" =>
    \A w \in DOMAIN sets :
      /\ \A g \in RiskGroups(slice) :
           sets[w] \cap CoMembers(slice, g) # {} => CoMembers(slice, g) \cup {g} \subseteq merged[w]
      /\ \A S \in SUBSET merged[w] :
           sets[w] \subseteq S /\ FateShared(slice, S) => S = merged[w]

\* A trail that names an area holds objects of that area and of no other
\* (AC-2, "single-area"), whichever of the walks that gave its member set
\* named it.
TrailsKeepToTheirArea ==
  \A t \in trails :
    t.area # NoArea => {slice.area[m] : m \in t.members} \ {NoArea} = {t.area}

\* No fault-capable object is lost: every object that is no risk group is on
\* a trail, one of its own area if it has one; a connector has a trail in
\* each area it rides within.
EverySeedHasItsTrails ==
  pc = "done" =>
    \A n \in Objects \ slice.risk :
      /\ \E t \in trails : n \in t.members
      /\ \A a \in TargetAreas(slice, n) : \E t \in trails : n \in t.members /\ t.area = a
=============================================================================
