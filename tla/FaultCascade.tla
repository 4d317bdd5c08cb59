---------------------------- MODULE FaultCascade ----------------------------
(***************************************************************************)
(* The Simulator's cascade: a fault on an object raises its alarm, and a   *)
(* breadth-first walk over the out-edges raises the effects of every       *)
(* template of each edge it follows (engine/cascade.py).  Cascades follow  *)
(* each other in one run and share the sequence of alarm ids.              *)
(*                                                                         *)
(* One step follows one edge.  The jitter drawn for each alarm is one      *)
(* value for the alarms of a step.  co_failure_relation, which no scenario *)
(* of the pack sets, is left out.                                          *)
(***************************************************************************)
EXTENDS Integers, Sequences

CONSTANTS Objects,       \* the nodes of the graph
          Relations,     \* the relations of its edges
          Edges,         \* the out-edges of an object, in their order
          AlarmTypes,    \* the pack's vocabulary
          Templates,     \* the effects of a relation, in template order
          Instances,     \* scenario ids
          BaseInterval,  \* BASE_INTERVAL_MS
          Jitters        \* what the normal distribution may draw

ASSUME GraphAssumption ==
  Edges \in [Objects -> Seq([relation : Relations, target : Objects])]
ASSUME TemplatesAssumption == Templates \in [Relations -> Seq(AlarmTypes)]
ASSUME DelayAssumption     == BaseInterval \in Nat /\ Jitters \subseteq Int

VARIABLES
  alarms,     \* the alarms of the run so far; an alarm's id is its position
  root,       \* the position of the cascade's root alarm, 0 before the first
  allowed,    \* the relations the scenario follows
  frontier,   \* objects whose edges are not all followed, the first one's are
  edge,       \*   followed from this one on
  emittedOn,  \* objects that have been in the frontier
  lastAt      \* when the latest alarm of the cascade was raised

cascade == <<alarms, root, allowed, frontier, edge, emittedOn, lastAt>>

\* via: the object, edge and template an alarm comes from (history only).
Hop == {<<>>} \cup (Objects \X (Nat \ {0}) \X (Nat \ {0}))
Alarm(scenario, object, type, at, via) ==
  [scenario |-> scenario, object |-> object, type |-> type, at |-> at, via |-> via]

\* Mutant: A negative jitter is not clamped.
Delay_Unclamped(j) == BaseInterval + j

Delay(j) == IF BaseInterval + j < 0 THEN 0 ELSE BaseInterval + j

Follows(e) == e.relation \in allowed /\ Templates[e.relation] # <<>>

\* propagate begins: the root alarm.
Inject(scenario, relations, object, type, at) ==
  /\ frontier = <<>>
  /\ alarms' = Append(alarms, Alarm(scenario, object, type, at, <<>>))
  /\ root' = Len(alarms) + 1
  /\ allowed' = relations
  /\ frontier' = <<object>>
  /\ edge' = 1
  /\ emittedOn' = {object}
  /\ lastAt' = at

\* The edge in turn, if there is one.
HasTurn == frontier # <<>> /\ edge \in DOMAIN Edges[Head(frontier)]
Turn    == Edges[Head(frontier)][edge]

\* Mutant: Of a relation's templates, the first alone is applied.
Effects_FirstTemplate(e, d) ==
  [t \in 1..1 |-> Alarm(alarms[root].scenario, e.target, Templates[e.relation][t],
                        lastAt + t * d, <<Head(frontier), edge, t>>)]

\* All templates of the relation apply, one after the other.
Effects(e, d) ==
  [t \in DOMAIN Templates[e.relation] |->
     Alarm(alarms[root].scenario, e.target, Templates[e.relation][t],
           lastAt + t * d, <<Head(frontier), edge, t>>)]

\* A target joins the frontier the first time an edge leads to it.
Reached(e) == IF e.target \in emittedOn THEN frontier ELSE Append(frontier, e.target)

FollowEdge(draws) ==
  /\ HasTurn /\ Follows(Turn)
  /\ \E j \in draws :
       /\ alarms' = alarms \o Effects(Turn, Delay(j))
       /\ lastAt' = lastAt + Len(Templates[Turn.relation]) * Delay(j)
  /\ frontier' = Reached(Turn)
  /\ emittedOn' = emittedOn \cup {Turn.target}
  /\ edge' = edge + 1
  /\ UNCHANGED <<root, allowed>>

\* The relation is not among the scenario's, or has no template.
PassEdge ==
  /\ HasTurn /\ ~Follows(Turn)
  /\ edge' = edge + 1
  /\ UNCHANGED <<alarms, root, allowed, frontier, emittedOn, lastAt>>

NextObject ==
  /\ frontier # <<>> /\ ~HasTurn
  /\ frontier' = Tail(frontier)
  /\ edge' = 1
  /\ UNCHANGED <<alarms, root, allowed, emittedOn, lastAt>>

Propagate(draws) == FollowEdge(draws) \/ PassEdge \/ NextObject

CascadeInit ==
  /\ alarms = <<>>
  /\ root = 0
  /\ allowed = {}
  /\ frontier = <<>>
  /\ edge = 1
  /\ emittedOn = {}
  /\ lastAt = 0

\* The engine by itself, whatever scenarios are injected where and when.
CascadeNext ==
  \/ \E s \in Instances, o \in Objects, type \in AlarmTypes,
        relations \in SUBSET Relations, at \in Int : Inject(s, relations, o, type, at)
  \/ Propagate(Jitters)

CascadeSpec == CascadeInit /\ [][CascadeNext]_cascade
-----------------------------------------------------------------------------
(* Properties of the cascade in progress.                                  *)

Children  == root + 1..Len(alarms)
Affected  == {alarms[n].object : n \in root..Len(alarms)}

\* A child comes from an edge of the root's object or of an earlier child's,
\* and is not raised before that alarm, whatever the jitter ("a child never
\* precedes its parent - causal ordering preserved").
CausesComeFirst ==
  root # 0 => \A n \in Children : \E m \in root..n - 1 :
    alarms[m].object = alarms[n].via[1] /\ alarms[m].at <= alarms[n].at

\* A finished cascade has raised every template's effect of every edge it may
\* follow from an affected object, and each of them once: cycles, shared
\* targets and edges back to the root neither repeat nor lose an effect.
EveryEffectOnce ==
  root # 0 /\ frontier = <<>> =>
    /\ \A o \in Affected : \A k \in DOMAIN Edges[o] : Follows(Edges[o][k]) =>
         \A t \in DOMAIN Templates[Edges[o][k].relation] : \E n \in Children :
           /\ alarms[n].object = Edges[o][k].target
           /\ alarms[n].type = Templates[Edges[o][k].relation][t]
           /\ alarms[n].via = <<o, k, t>>
    /\ \A m, n \in Children : alarms[m].via = alarms[n].via => m = n
=============================================================================
