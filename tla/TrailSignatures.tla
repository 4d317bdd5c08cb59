-------------------------- MODULE TrailSignatures --------------------------
(***************************************************************************)
(* From a slice of the graph to what the Correlation Engine reads: the     *)
(* Trail Builder computes the trails of a snapshot (TrailClosure), and     *)
(* trails.built then makes the Codebook Generator compile the signatures   *)
(* of that snapshot and tag them with the trails in the Trail Builder's    *)
(* store (Signatures), which later builds go on changing.  The stores and  *)
(* the event in between are in TrailBuild and CodebookCompile.             *)
(***************************************************************************)
EXTENDS TrailClosure, Sequences, FiniteSets

CONSTANTS Type, Records, NoRecord, EdgesSupplied, MaxDepth, MaxRetries,
          Graphs,         \* what Topology answers of the snapshot of a slice
          Later,          \* the graphs of snapshots it may cut over to
          Retained,       \* the trails of older snapshots that the Trail Builder holds
          Built,          \* what it may persist afterwards
          CompiledSlices, \* the slices whose trails.built is handled
          ChangingSlices  \* the slices during whose compile each service changes

\* The closure policy walks the edges that the templates follow, both ways.
ASSUME SameEdges ==
  \A s \in Slices :
    /\ Graphs[s].nodes = Objects
    /\ \A n \in DOMAIN Graphs[s].edges :
         LET e == Graphs[s].edges[n]
         IN  {<<e.source, e.target>>, <<e.target, e.source>>} \cap (s.links \cup s.memberOf) # {}

VARIABLES store, always, ever, current, version, step, attempts, knowledge, types, nodes, closure,
          agenda, processed, matches, symptoms, asked, tags, scenarios, stored

\* The trails computed are those of the event's snapshot.
announced == {[members |-> t.members, of |-> 0] : t \in trails}

compiling == <<always, ever, current, version, step, attempts, knowledge, types, nodes, closure,
               agenda, processed, matches, symptoms, asked, tags, scenarios, stored>>
all == <<vars, store, compiling>>

Codebook == INSTANCE Signatures WITH
  snapshot <- Graphs[slice],
  Changing <- [v \in DOMAIN ChangingSlices |-> {Graphs[s] : s \in ChangingSlices[v]}]

\* The records hold what the schemas of Knowledge say; TrailClosure assumes the
\* objects.
ASSUME TypesAssumption == Type \in [Objects -> STRING]
ASSUME RecordsAssumption ==
  \A v \in DOMAIN Records :
    /\ DOMAIN Records[v] = {"origins", "templates", "vocabulary"}
    /\ Records[v].origins \in Seq(Codebook!Origin)
    /\ Records[v].templates \in Seq(Codebook!Template)
ASSUME BoundsAssumption ==
  /\ IsFiniteSet(Objects) /\ 1 \in DOMAIN Records
  /\ Later \subseteq Codebook!Graph
  /\ EdgesSupplied \in BOOLEAN
  /\ MaxDepth \in Nat \ {0} /\ MaxRetries \in Nat
  /\ Retained \subseteq Codebook!Trail /\ Built \subseteq SUBSET Codebook!Trail

\* No fault-origin type is that of a risk group, which the Trail Builder takes for
\* no possible cause and never seeds (closure.py L22): the two services do not
\* compare, it depends on the records of the domain.
ASSUME OriginsAssumption ==
  \A s \in Slices, v \in DOMAIN Records : \A k \in DOMAIN Records[v].origins :
    \A o \in s.risk : Type[o] # Records[v].origins[k].type

SystemInit == Init /\ store = Retained /\ Codebook!Ready

\* The trails are stored before the event that the compile handles.
Build ==
  /\ Next
  /\ store' = IF pc' = "done" THEN Retained \cup announced' ELSE store
  /\ UNCHANGED compiling
Compile == pc = "done" /\ slice \in CompiledSlices /\ UNCHANGED vars /\ Codebook!Next

SystemNext == Build \/ Compile
SystemSpec == SystemInit /\ [][SystemNext]_all /\ WF_all(SystemNext)

-----------------------------------------------------------------------------
(* Properties: those of Signatures, of the trails that the Trail Builder   *)
(* computed.  That projection finds a trail of every cause is its          *)
(* EverySeedHasItsTrails, and no promise from outside.                     *)

\* A signature is the cascade of its origin (propagation.py L3).
SignaturesAreCascades == Codebook!SignaturesAreCascades

\* The signatures of every cause are on the trails of its symptoms, and on one of
\* its own while the event's trails are held (tagging.py, projection.py L3).
CausesAreProjected == Codebook!CausesAreProjected

\* What the design says of a signature (codebook-generator/design.md:78).
SignaturesFollowTheGraph == Codebook!SignaturesFollowTheGraph

\* Walks, unions and compiles all end (closure.py L222, propagation.py L102).
CompileEnds == slice \in CompiledSlices => Codebook!CompileEnds
=============================================================================
