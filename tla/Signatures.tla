----------------------------- MODULE Signatures -----------------------------
(***************************************************************************)
(* What a codebook says: the inside of one compile of the Codebook         *)
(* Generator (the step "compile" of CodebookCompile), from the Knowledge   *)
(* records to the scenarios handed to the store, and the signatures the    *)
(* Correlation Engine reads of them.                                       *)
(*                                                                         *)
(* The collaborators are asked one request at a time.  Between requests    *)
(* Topology may cut over, Knowledge may publish and the Trail Builder may  *)
(* build and prune: the requests name "current", not the event's snapshot, *)
(* no version, and no snapshot of a trail.                                 *)
(***************************************************************************)
EXTENDS Naturals, Sequences, FiniteSets

CONSTANTS Objects, Type,    \* managed objects, and the type before the colon
          Records,          \* Knowledge's records in each of its versions
          NoRecord,         \* no vocabulary record, no origin alarm
          Later,            \* snapshots Topology may cut over to
          Built,            \* what the Trail Builder may persist meanwhile
          Changing,         \* the snapshots during whose compile each service changes
          EdgesSupplied,    \* does a traversal answer carry edges
          MaxDepth,         \* of a traversal
          MaxRetries        \* of a request

Endpoint == [type : STRING, alarm : STRING]
Origin   == [type : STRING, alarm : STRING \cup {NoRecord}]
Template == [relation : STRING, trigger : Endpoint, effect : Endpoint]
Link     == [source : Objects, relation : STRING, target : Objects]
Graph    == [nodes : SUBSET Objects, edges : Seq(Link)]
Trail    == [members : SUBSET Objects, of : Nat]   \* of a retained snapshot, 0 the event's

VARIABLES
  snapshot,    \* the snapshot of the trails.built event
  announced,   \* the trails of the event
  store,       \* the trails that the Trail Builder holds, of every snapshot it retains
  always,      \* the trails held since the compile began (history)
  ever,        \* the trails held at some time since (history)
  current,     \* Topology's current snapshot
  version,     \* Knowledge's current version
  step,        \* the request or the work in turn
  attempts,    \* of the request that failed so far
  knowledge,   \* the records fetched
  types,       \* fault-origin types not yet listed
  nodes,       \* origins listed, not yet in the codebook
  closure,     \* the edges of its traversal
  agenda,      \* propagate's frontier of (object, alarm) states
  processed,   \* states looked at
  matches,     \* edge and template positions of the state in work
  symptoms,    \* the signature
  asked, tags, \* objects whose trails were asked for, and the trails
  scenarios,   \* scenarios finished
  stored       \* scenarios handed to the store

held    == <<store, always, ever>>
world   == <<snapshot, announced, held, current, version>>
walking == <<closure, agenda, processed, matches, symptoms>>
tagging == <<asked, tags>>
vars == <<world, step, attempts, knowledge, types, nodes, walking, tagging, scenarios, stored>>

Nothing == [origins |-> <<>>, templates |-> <<>>, vocabulary |-> {}]

State(object, alarm) == [object |-> object, alarm |-> alarm]
-----------------------------------------------------------------------------
(* propagation.py: the templates run forward over the closure.             *)

\* origin_alarm_type: the alarm of the first record that has one for the type.
SeedRecords(type) ==
  {k \in DOMAIN knowledge.origins :
     knowledge.origins[k].type = type /\ knowledge.origins[k].alarm # NoRecord}
Seed(origin) ==
  State(origin, knowledge.origins[CHOOSE k \in SeedRecords(Type[origin]) :
                                    \A n \in SeedRecords(Type[origin]) : k <= n].alarm)

\* A template raises its effect over an edge of an object in the trigger state.
Fires(t, e, s) ==
  /\ t.relation = e.relation /\ e.source = s.object
  /\ t.trigger = [type |-> Type[s.object], alarm |-> s.alarm]
  /\ t.effect.type = Type[e.target]

\* Edge and template positions that fire in state s, and what m raises.
Matches(edges, s) ==
  {m \in (DOMAIN edges) \X (DOMAIN knowledge.templates) :
     Fires(knowledge.templates[m[2]], edges[m[1]], s)}
Raised(edges, m) == State(edges[m[1]].target, knowledge.templates[m[2]].effect.alarm)

\* out_edges: edges of one object by target, the target that an edge named first
\* before the others; parallel edges as in the answer; and the templates for each.
ByTarget(k) ==
  CHOOSE j \in DOMAIN closure :
    /\ closure[j].source = closure[k].source /\ closure[j].target = closure[k].target
    /\ \A i \in 1 .. j - 1 :
         <<closure[i].source, closure[i].target>> # <<closure[k].source, closure[k].target>>
Before(m, n) ==
  \/ ByTarget(m[1]) < ByTarget(n[1])
  \/ ByTarget(m[1]) = ByTarget(n[1]) /\ m[1] < n[1]
  \/ m[1] = n[1] /\ m[2] < n[2]
First(m) == \A n \in matches \ {m} : Before(m, n)

Holds(seq, x) == \E n \in DOMAIN seq : seq[n] = x

Begins(seed) ==
  /\ symptoms' = <<seed>>
  /\ agenda' = <<seed>>
  /\ processed' = {}
  /\ matches' = {}

\* Mutant: An object is looked at in one state only.
Pop_OncePerObject ==
  /\ step = "propagate" /\ matches = {} /\ agenda # <<>>
  /\ agenda' = Tail(agenda)
  /\ processed' = processed \cup {Head(agenda)}
  /\ matches' = IF \E s \in processed : s.object = Head(agenda).object THEN {}
                ELSE Matches(closure, Head(agenda))
  /\ UNCHANGED <<world, step, attempts, knowledge, types, nodes, closure, symptoms, tagging,
                 scenarios, stored>>

\* Mutant: States are looked at again and again.
Pop_Unguarded ==
  /\ step = "propagate" /\ matches = {} /\ agenda # <<>>
  /\ agenda' = Tail(agenda)
  /\ processed' = processed \cup {Head(agenda)}
  /\ matches' = Matches(closure, Head(agenda))
  /\ UNCHANGED <<world, step, attempts, knowledge, types, nodes, closure, symptoms, tagging,
                 scenarios, stored>>

\* The next state of the frontier, unless it has been looked at.
Pop ==
  /\ step = "propagate" /\ matches = {} /\ agenda # <<>>
  /\ agenda' = Tail(agenda)
  /\ processed' = processed \cup {Head(agenda)}
  /\ matches' = IF Head(agenda) \in processed THEN {} ELSE Matches(closure, Head(agenda))
  /\ UNCHANGED <<world, step, attempts, knowledge, types, nodes, closure, symptoms, tagging,
                 scenarios, stored>>

\* emit: a symptom is kept the first time; its state joins the frontier anyway.
Emit ==
  /\ step = "propagate"
  /\ \E m \in matches :
       /\ First(m)
       /\ LET raised == Raised(closure, m) IN
            /\ symptoms' = IF Holds(symptoms, raised) THEN symptoms ELSE Append(symptoms, raised)
            /\ agenda' = Append(agenda, raised)
       /\ matches' = matches \ {m}
  /\ UNCHANGED <<world, step, attempts, knowledge, types, nodes, closure, processed, tagging,
                 scenarios, stored>>

Propagated ==
  /\ step = "propagate" /\ matches = {} /\ agenda = <<>>
  /\ step' = "tag"
  /\ asked' = {} /\ tags' = {}
  /\ UNCHANGED <<world, attempts, knowledge, types, nodes, walking, scenarios, stored>>
-----------------------------------------------------------------------------
(* clients: one request each, retried if it fails on the way.              *)

Requests == {"origins", "templates", "vocabulary", "list", "traverse", "tag"}
Answered(next) == step' = next /\ attempts' = 0

\* "rejected": the trigger goes to the DLQ; "raised": the exception leaves the
\* consumer.  Nothing is stored.
Over == {"stored", "rejected", "raised"}

\* The event is handled; its domain and deduplication are CodebookCompile's.
Begin ==
  /\ step = "idle"
  /\ Answered("origins")
  /\ always' = store /\ ever' = store
  /\ UNCHANGED <<snapshot, announced, store, current, version, knowledge, types, nodes, walking,
                 tagging, scenarios, stored>>

\* Is there an object left to be asked about?
Untagged == {n \in DOMAIN symptoms : symptoms[n].object \notin asked}
InRequest == step \in Requests /\ (step = "tag" => Untagged # {}) /\ (step = "list" => types # <<>>)
             /\ (step = "traverse" => nodes # <<>>)

\* A 5xx or no answer: again, up to MaxRetries times.
RequestFails ==
  /\ InRequest
  /\ IF attempts < MaxRetries
       THEN attempts' = attempts + 1 /\ UNCHANGED step
       ELSE Answered("rejected")
  /\ UNCHANGED <<world, knowledge, types, nodes, walking, tagging, scenarios, stored>>

GetFaultOriginTypes ==
  /\ step = "origins"
  /\ knowledge' = [knowledge EXCEPT !.origins = Records[version].origins]
  /\ Answered("templates")
  /\ UNCHANGED <<world, types, nodes, walking, tagging, scenarios, stored>>

GetPropagationTemplates ==
  /\ step = "templates"
  /\ knowledge' = [knowledge EXCEPT !.templates = Records[version].templates]
  /\ Answered("vocabulary")
  /\ UNCHANGED <<world, types, nodes, walking, tagging, scenarios, stored>>

\* An answer without a vocabulary record is a ValueError.
GetAlarmTypeVocabulary ==
  /\ step = "vocabulary"
  /\ IF Records[version].vocabulary = NoRecord
       THEN Answered("raised") /\ UNCHANGED <<knowledge, types>>
       ELSE /\ knowledge' = [knowledge EXCEPT !.vocabulary = Records[version].vocabulary]
            /\ types' = [k \in DOMAIN knowledge.origins |-> knowledge.origins[k].type]
            /\ Answered("list")
  /\ UNCHANGED <<world, nodes, walking, tagging, scenarios, stored>>

Sorted(S) == [n \in 1 .. Cardinality(S) |-> CHOOSE x \in S : Cardinality({y \in S : y < x}) = n - 1]

\* The objects of the next type in what is current now.
ListObjectsByType ==
  /\ step = "list" /\ types # <<>>
  /\ nodes' = Sorted({o \in current.nodes : Type[o] = Head(types)})
  /\ types' = Tail(types)
  /\ Answered(IF nodes' = <<>> THEN "list" ELSE "traverse")
  /\ UNCHANGED <<world, knowledge, walking, tagging, scenarios, stored>>

Relations == {knowledge.templates[n].relation : n \in DOMAIN knowledge.templates}

\* What is at most n forward steps over the relations away.
Reached(graph, start) ==
  LET within[n \in 0 .. MaxDepth] ==
        IF n = 0 THEN {start}
        ELSE LET before == within[n - 1]
             IN  before \cup {o \in graph.nodes : \E k \in DOMAIN graph.edges :
                                /\ graph.edges[k].source \in before
                                /\ graph.edges[k].relation \in Relations
                                /\ graph.edges[k].target = o}
  IN  within[MaxDepth]

\* The edges of those relations among what is reached, which the answer may
\* come without: its model has an empty list in their place.
Region(graph, start) ==
  LET reached == Reached(graph, start)
      Within(e) == e.relation \in Relations /\ {e.source, e.target} \subseteq reached
  IN  SelectSeq(graph.edges, Within)
Traversal(graph, start) == IF EdgesSupplied THEN Region(graph, start) ELSE <<>>

\* Topology refuses a traversal over no relation, or from an object that the
\* current snapshot has not; propagate raises if the type has no alarm.
Traverse ==
  /\ step = "traverse"
  /\ IF Relations = {} \/ Head(nodes) \notin current.nodes
       THEN Answered("rejected") /\ UNCHANGED walking
       ELSE IF SeedRecords(Type[Head(nodes)]) = {}
       THEN Answered("raised") /\ UNCHANGED walking
       ELSE /\ closure' = Traversal(current, Head(nodes))
            /\ Begins(Seed(Head(nodes)))
            /\ Answered("propagate")
  /\ UNCHANGED <<world, knowledge, types, nodes, tagging, scenarios, stored>>

\* Mutant: Only the origin's trails are asked for.
GetTrailsForObject_OriginOnly ==
  /\ step = "tag"
  /\ \E n \in Untagged :
       /\ \A k \in Untagged : n <= k
       /\ asked' = {symptoms[k].object : k \in DOMAIN symptoms}
       /\ tags' = tags \cup {t \in store : symptoms[n].object \in t.members}
  /\ Answered("tag")
  /\ UNCHANGED <<world, knowledge, types, nodes, walking, scenarios, stored>>

\* tag_scenario: the trails of the next object with a symptom, of whatever snapshot.
GetTrailsForObject ==
  /\ step = "tag"
  /\ \E n \in Untagged :
       /\ \A k \in Untagged : n <= k
       /\ asked' = asked \cup {symptoms[n].object}
       /\ tags' = tags \cup {t \in store : symptoms[n].object \in t.members}
  /\ Answered("tag")
  /\ UNCHANGED <<world, knowledge, types, nodes, walking, scenarios, stored>>

\* The scenario is complete ("over" is the closure it ran over, kept for the
\* properties); the next origin of the type follows, or the next type.
AppendScenario ==
  /\ step = "tag" /\ Untagged = {}
  /\ scenarios' = Append(scenarios, [origin |-> Head(nodes), symptoms |-> symptoms,
                                     tags |-> tags, over |-> closure])
  /\ nodes' = Tail(nodes)
  /\ Answered(IF Tail(nodes) = <<>> THEN "list" ELSE "traverse")
  /\ UNCHANGED <<world, knowledge, types, walking, tagging, stored>>

\* validate_scenarios, for one scenario.
Valid(s) == \A n \in DOMAIN s.symptoms : s.symptoms[n].alarm \in knowledge.vocabulary

\* No type is left: a token outside the vocabulary rejects all, else all is stored.
Validate ==
  /\ step = "list" /\ types = <<>>
  /\ IF \A n \in DOMAIN scenarios : Valid(scenarios[n])
       THEN Answered("stored") /\ stored' = scenarios
       ELSE Answered("rejected") /\ UNCHANGED stored
  /\ UNCHANGED <<world, knowledge, types, nodes, walking, tagging, scenarios>>
-----------------------------------------------------------------------------
(* The world goes on during a compile.                                     *)

CutOver ==
  /\ step \notin {"idle"} \cup Over /\ snapshot \in Changing["topology"]
  /\ current = snapshot
  /\ current' \in Later \ {current}
  /\ UNCHANGED <<snapshot, announced, held, version, step, attempts, knowledge, types, nodes,
                 walking, tagging, scenarios, stored>>

\* Later, the compile reads no version any more.
Publish ==
  /\ step \in {"origins", "templates", "vocabulary"} /\ snapshot \in Changing["knowledge"]
  /\ version + 1 \in DOMAIN Records
  /\ version' = version + 1
  /\ UNCHANGED <<snapshot, announced, held, current, step, attempts, knowledge, types, nodes,
                 walking, tagging, scenarios, stored>>

\* The Trail Builder commits the trails of a snapshot and prunes others, or its
\* own of an earlier build of it (TrailBuild).  Bound: none is built again.
PersistBuild ==
  /\ step \notin Over /\ snapshot \in Changing["trails"]
  /\ \E new \in Built : \E gone \in SUBSET {t.of : t \in store} :
       /\ ~ (new \subseteq ever \cup store)
       /\ store' = {t \in store : t.of \notin gone} \cup new
  /\ always' = always \cap store' /\ ever' = ever \cup store'
  /\ UNCHANGED <<snapshot, announced, current, version, step, attempts, knowledge, types, nodes,
                 walking, tagging, scenarios, stored>>

\* A compile about to begin.  Where Knowledge is not to change, it has its first version.
Ready ==
  /\ current = snapshot
  /\ version \in IF snapshot \in Changing["knowledge"] THEN DOMAIN Records ELSE {1}
  /\ always = {} /\ ever = {}
  /\ step = "idle" /\ attempts = 0
  /\ knowledge = Nothing
  /\ types = <<>> /\ nodes = <<>>
  /\ closure = <<>> /\ agenda = <<>> /\ processed = {} /\ matches = {} /\ symptoms = <<>>
  /\ asked = {} /\ tags = {}
  /\ scenarios = <<>> /\ stored = <<>>

Init == snapshot \in Graph /\ announced \in SUBSET Trail /\ store \in SUBSET Trail /\ Ready

Compile ==
  \/ Begin
  \/ RequestFails
  \/ GetFaultOriginTypes
  \/ GetPropagationTemplates
  \/ GetAlarmTypeVocabulary
  \/ ListObjectsByType
  \/ Traverse
  \/ Pop
  \/ Emit
  \/ Propagated
  \/ GetTrailsForObject
  \/ AppendScenario
  \/ Validate

Next == Compile \/ CutOver \/ Publish \/ PersistBuild

Spec == Init /\ [][Next]_vars

\* compile is a call; its requests time out.
FairSpec == Spec /\ WF_vars(Next)
-----------------------------------------------------------------------------
(* trail-signatures (projection.py): what the Correlation Engine reads.    *)

\* root_cause_alarm_type: the first symptom on the origin.
RootCause(s) ==
  s.symptoms[CHOOSE n \in DOMAIN s.symptoms :
               /\ s.symptoms[n].object = s.origin
               /\ \A k \in DOMAIN s.symptoms : s.symptoms[k].object = s.origin => n <= k].alarm

\* project_scenario: a signature for each trail.
Project(s) ==
  {[trail |-> t, rootCauseAlarmType |-> RootCause(s), expectedSymptoms |-> s.symptoms] : t \in s.tags}
-----------------------------------------------------------------------------
(* Properties.                                                             *)

\* A signature is the cascade of its origin over its closure (propagation.py
\* L3): it begins with the origin's own alarm, it is closed under the
\* templates, every other symptom has a cause before it, and none is there
\* twice, with cycles in the graph and in the templates.
IsCascade(s, edges, seed) ==
  /\ s # <<>> /\ s[1] = seed
  /\ \A k \in DOMAIN s : \A m \in Matches(edges, s[k]) : Holds(s, Raised(edges, m))
  /\ \A n \in DOMAIN s \ {1} :
       \E k \in 1 .. n - 1 : \E m \in Matches(edges, s[k]) : s[n] = Raised(edges, m)
  /\ \A k, n \in DOMAIN s : s[k] = s[n] => k = n

SignaturesAreCascades ==
  \A n \in DOMAIN scenarios :
    IsCascade(scenarios[n].symptoms, scenarios[n].over, Seed(scenarios[n].origin))

\* The trails that any of the things is on.
TrailsOf(those, things) == {t \in those : t.members \cap things # {}}

\* Whoever causes an alarm can be found (projection.py L3, tagging.py): once a
\* codebook is stored, every object of a fault-origin type that Topology held
\* throughout has its signature, under its own alarm, with tokens that Knowledge
\* knows.  It is on every trail of its symptoms that the Trail Builder held all
\* the time, and on none that it never held; and if the trails of the event were
\* there all the time, on one of the origin's own.  Snapshots, versions and
\* trails may change meanwhile.
CausesAreProjected ==
  step = "stored" =>
    \A k \in DOMAIN knowledge.origins :
    \A o \in snapshot.nodes \cap current.nodes :
      Type[o] = knowledge.origins[k].type =>
        \E n \in DOMAIN stored :
          /\ stored[n].origin = o
          /\ LET signatures == Project(stored[n])
                 tagged     == {p.trail : p \in signatures}
                 objects    == {stored[n].symptoms[i].object : i \in DOMAIN stored[n].symptoms}
             IN /\ TrailsOf(always, objects) \subseteq tagged
                /\ tagged \subseteq TrailsOf(ever, objects)
                /\ announced \subseteq always => \E t \in tagged \cap announced : o \in t.members
                /\ \A p \in signatures :
                     /\ p.rootCauseAlarmType = Seed(o).alarm
                     /\ \A i \in DOMAIN p.expectedSymptoms :
                          p.expectedSymptoms[i].alarm \in knowledge.vocabulary

\* What the design says of a signature (codebook-generator/design.md:78): the
\* templates run forward over the graph, with the origin alarm and the symptoms
\* in their order.
SignaturesFollowTheGraph ==
  step = "stored" /\ current = snapshot =>
    \A n \in DOMAIN stored :
      IsCascade(stored[n].symptoms, Region(snapshot, stored[n].origin), Seed(stored[n].origin))

\* Every compile ends: templates that raise each other in a circle, and
\* collaborators that never answer, do not hold the consumer for ever.
CompileEnds == <>(step \in Over)
=============================================================================
