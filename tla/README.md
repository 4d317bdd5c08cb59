# A TLA+ verification of the Correlation Platform

The platform ("AI/ML Alarm Correlation Platform - Core IP MVP") finds root causes
of alarm floods in a core IP network. Of its planned services six exist as code,
the web UI among them, and one chain is complete:

    Simulator --POST /topology/snapshots--> Topology --topology.changed--> Trail Builder
              --trails.built--> Codebook Generator --codebook.generated--> (consumers)

    Knowledge (vocabulary, propagation rules, trail policies) is read by Topology, the
    Trail Builder and the Codebook Generator over REST, and announces its changes on
    knowledge.updated, which the Trail Builder listens to.

Paths below are relative to `services/` of the repository unless they begin with
`libs/`. To check a run: `tlc -config KnowledgeWrites.cfg MCKnowledgeVersioning`;
to check a proof module: `tlapm KnowledgeVersioningProofs.tla`.

## 1. Inventory

| Component | State | Operations | Talks to |
|---|---|---|---|
| Knowledge, write path (`knowledge/`, Java) | Postgres `record`, `record_version` | create, update, startup seeding | sends `knowledge.updated` |
| Knowledge, queries | none | aggregated vocabulary, records, domains | - |
| Topology, ingest (`topology/`, Java) | NebulaGraph vertices and edges stamped with a snapshot id; Postgres `topology_meta.snapshot` (current / previous) | ingest, cut-over, eviction | sends `topology.changed` or its DLQ |
| Topology, orphan reaper | none | one sweep per start | both stores |
| Topology, startup bootstrap | fatal latch, readiness | retry until a deadline | NebulaGraph |
| Topology, vocabulary client | TTL cache | getVocabulary | Knowledge |
| Topology, query API | none | traversal, nodes, snapshots | both stores |
| Trail Builder, builds and store (`trail-builder/`, Python) | Postgres trails, `processed_event`; consumer offsets | consume, rebuild, persist and prune, announce | Topology, Knowledge, Kafka |
| Trail Builder, closure | none beyond one call | trails of a slice under a policy | - |
| Trail Builder, policy cache | cached policies | get, invalidate | Knowledge, `knowledge.updated` |
| Codebook Generator, compile and store (`codebook-generator/`, Python) | Postgres `codebooks`, `processed_events`; group offsets | consume, compile, persist, announce | all three services, Kafka |
| Codebook Generator, propagation, projection, tagging | none beyond one compile | scenarios and signatures, some dozens of requests | Knowledge, Topology, Trail Builder |
| Event model (`libs/event-model/`) | none | encode, decode, validate | - |
| Simulator (`simulator/`, Python) | the files one run leaves for the next: snapshot, corpus, labels | generate, upload, synthesize, replay, export, ingest | Topology, Kafka |
| Web UI (`web-ui/`, TypeScript) | stores per view, polling timer | poll, pause, resume, select | REST services |
| Alarm Manager, Correlation Engine, Enrichment, Noise Filter, Pattern Manager, Pattern Miner | - | specification and design documents, no code | - |

What makes them correct, and what is hard about it:

* **Knowledge, writes.** A record's versions are v1 .. vk without gap or
  duplicate; exactly the newest is current; only committed versions are
  announced. Hard: requests and the startup seeder race at READ COMMITTED, the
  next version number and the vocabulary check are read before the row is
  written, and the event is sent from the request's own thread after its commit.
* **Topology, ingest.** From the first snapshot on a domain has exactly one
  current and at most one previous; a reader of the current snapshot sees its
  file; evicted graphs go away; nobody is told of a snapshot that was not cut
  over to. Hard: the two stores share no transaction, the graph's keys are not
  versioned, cut-overs race and deadlock, and the process may die between any two
  statements.
* **Trail Builder, builds.** The store keeps the trails of the last *n* snapshots, what is
  marked as processed was built, and announced unless the broker lost the announcement (which
  nobody looks at), every event is taken. Hard: offsets are committed in the background,
  rebuild requests run beside the consumer, prune looks at rows that other transactions are
  replacing, and the broker may be away when an event is announced.
* **Codebook Generator.** One active codebook per snapshot, one codebook per
  event, no event skipped. Hard: at-least-once delivery, a slow process loses its
  partition while it works on, and the process may die after each statement.
* **Closure, propagation.** Results depend on a graph and a policy only, not on
  the order in which sets are walked; a signature names every effect of its
  cause once, and lies on the trails of its symptoms that the Trail Builder held throughout.
  Hard: merge passes that are not fixed points, cyclic graphs and rules, and records, snapshots
  and trails that are fetched one request after the other while they change.
* **Simulator.** An alarm stream that a miner can learn from: no effect before
  its cause, each effect once, labels that divide up the signal, and a corpus that
  reproduces what was emitted. Hard: jitter wider than the interval it varies, settings at
  their limits, uploads that time out here and land there, a full producer queue,
  and a kill between two files.
* **Caches (policy, vocabulary), polling.** A value read before an invalidation, a pause or a newer
  request must not outlive it. Hard: the answer arrives at any later time.

Every hazard, at its line and with the properties that watch it, is in
`PROJECT.json` under `hazards`.

## 2. The modules

| Module | Models | Proofs | Instances | Runs |
|---|---|---|---|---|
| `KnowledgeVersioning` | Knowledge, write path and seeder | `KnowledgeVersioningProofs` | `MCKnowledgeVersioning` | KnowledgeWrites, KnowledgeOrder |
| `VersionedRecords` | what Knowledge promises its readers (abstract) | in `KnowledgeVersioningProofs` | - | KnowledgeWrites |
| `TopologyIngest` | Topology, ingest, cut-over, eviction, reaper | `TopologyIngestProofs` | `MCTopologyIngest` | TopologyGraph, TopologyCutOver, TopologyVisible |
| `TrailBuild` | Trail Builder: consumer, rebuilds, store | `TrailBuildProofs` | `MCTrailBuild` | TrailEvents, TrailDeadlock, TrailHeld |
| `TrailClosure` | Trail Builder: closure algorithm (`closure.py`) | in `TrailSignaturesProofs` | `MCTrailSignatures` | Signatures |
| `CodebookCompile` | Codebook Generator: consumer group, store | `CodebookCompileProofs` | `MCCodebookCompile` | CodebookOnce |
| `Signatures` | Codebook Generator: the inside of one compile | `SignaturesProofs` | `MCTrailSignatures` | Signatures, CodebookBare |
| `TrailSignatures` | `TrailClosure` and `Signatures` composed | `TrailSignaturesProofs` | `MCTrailSignatures` | Signatures, CodebookBare |
| `CoreIPTopology` | Simulator: the network, templates and scenarios of its domain pack | - (data) | `MCSimulatorRun` | Simulator |
| `FaultCascade` | Simulator: the cascade engine | `FaultCascadeProofs` | `MCSimulatorRun` | Simulator |
| `SimulatorRun` | Simulator: the process around the engine; extends `FaultCascade` | `SimulatorRunProofs` | `MCSimulatorRun` | Simulator |

Conventions. A thread, request or process is a member of a constant set with a
`pc` that names the statement it runs next; one action is one SQL or nGQL
statement, one HTTP request, or one Kafka call. Postgres at READ COMMITTED is
modelled by what a statement sees (committed rows and the transaction's own),
what it waits for (`Blockers`: row locks and uncommitted entries of unique
indexes), how it resumes (the WHERE clause is evaluated again on the row waited
for, rows inserted meanwhile stay unseen) and what refuses it (primary keys and
unique indexes). Two transactions that wait for each other are a deadlock and
Postgres cancels one of them. One domain is modelled: every key and every
query of these tables begins with the domain, and the platform deploys one. Reads that
change nothing are operators, not actions. An operator `name_Suffix` beside `name` is a
deliberately broken variant of the code, kept to show that the property which
guards that line can fail. Ids and payloads are model values.

### KnowledgeVersioning

`rows`, `current`, `identity` are the tables (the `is_current` column is a
variable of its own, since it is the only column that changes). A writer goes
validate (`ValidationService`) -> exists -> identity row -> max -> clear ->
insert (`VersioningService.writeNewVersion`, `RecordStore`) -> commit -> publish
(`KnowledgeUpdatedPublisher`, from `afterCommit`). A unique-key violation is
an error answer and a rollback; the seeder walks its pack in file order and skips
records that exist (`SeedLoader`), and may be restarted at any point. A payload
is the set of vocabulary tokens it declares or refers to: that is all the
validation's cross-reference check looks at.

`Register` instantiates `VersionedRecords` with the histories read off `rows`, the
answer a read gets (rows joined with `current`) and the versions on the topic:
a commit is the abstract write, a send the abstract announcement, and whatever
happens in between, a deadlock, a rollback or a restart of the seeder, is no step.

Two writers cannot deadlock here: a write locks one record's current row and then waits, if at
all, for whoever inserts a version of that record. What `RequestsFinish` guards is the way out of a refused
insert: `@Transactional` rolls the transaction back, which frees the row that others wait for.

### TopologyIngest

`vertex` and `edge` give the stamp of each key in the NebulaGraph space, `rows`
the Postgres table. A request goes `Begin` (id, change type from a read of the
table, lifting) -> `writeSnapshot` per vertex and edge -> the four statements of
`SnapshotMetadataService.cutOver` -> `commitCutOver` -> `evict` -> `emit` -> `recordEventId`, an
UPDATE that may wait for a rival that has demoted or deleted the row. Evicting and reaping
delete one object after the other, each statement on its own, and pass over what fails. The reaper reads
the known ids, looks up the stamps object by object and deletes the orphans, after each start, beside
requests. The code's lookups and deletions go tag by tag; the model's go object by object, as if each
object had its own tag. Ids are minted (`SNAP-<uuid>`, each once) or supplied by a producer
(reused freely). `disturbed` and `cutOvers` are history.

### TrailBuild

The consumer thread polls, deduplicates, builds, marks; rebuild requests enter
`BuildService.build` from threads of their own. What a build computes is a function
(`TrailsOf`) of the set of Topology snapshots whose graph was read while its slice was fetched;
a stored row is a snapshot, the time of the build, that set and the members of the trail. A trail's id is a digest
of its snapshot and members, so two builds of one snapshot mint the same ids for what their slices have in
common, whatever else differs. `persist_build` deletes and inserts row by row: a DELETE finds its rows
(`supersede`, `prune`) and then locks one after the other, in any order (`deleteRow`), an INSERT waits
for whoever has the same id in the making. An exception in any of these
places, in decoding a policy, in computing or in announcing, ends the consumer thread, and so does a
dead-letter topic that does not answer. `lost` keeps the announcements that the broker never got. Topology is reduced to what the Trail Builder sees of it: cut-overs
that number the snapshots and one event each, in any order.

### TrailClosure

`TrailClosure.compute` over one slice, which `Init` picks: a walk per seed and
target area (`start`, one turn of `_reachable`'s loop per `reach`, `keep`), then
`_srlg_union` group by group, then `_materialize`. The member sets are a function of
the walk (seed and area) that gave them, instead of three parallel lists. Two orders that
the code takes from hashing and from Topology's answers are free: which neighbour
is looked at next, and which risk group is merged next. Ids and area names are
numbers, since the code sorts them. Another boundary type than "igp-area" is a slice without areas, and
another risk rule than "union-members" one without `MEMBER_OF` edges: the
code computes the same. `TrailBuild` takes the trails as given; the two modules meet in
`BuildService.build`, where one slice goes in.

### CodebookCompile

One topic partition, owned by one instance at a time; an instance that compiles
for too long is expelled and works on without knowing. The deployment has three partitions
(`docker-compose.yml:73`) and the Trail Builder sets no key (`event_publisher.py:58`), so that two instances
may also work on one snapshot in good order; what they do to each other is what an expelled instance does to its successor,
and offsets are kept per partition. Messages are constants of the run. `Outcome` says how the pure part of a compile ends, since
`CodebookCompile` is about delivery and storage; what happens inside it is `Signatures`.

### Signatures and TrailSignatures

The step "compile" of `CodebookCompile`, request by request: three records of
Knowledge, the objects of each fault-origin type, a traversal per object, the
forward run of the templates over its edges (`Pop` takes the next (object,
alarm) state off the agenda, `Emit` raises one effect), the trails of each symptom's
object, then the vocabulary check. Every request may fail and is retried
(`clients/base.py`); between any two, Topology may cut over, Knowledge publish and the Trail Builder
persist one build and prune others (`PersistBuild`). `store` is what the Trail Builder's endpoint answers from:
the trails of every snapshot it retains, since `trail_ids_for_object` has no snapshot filter. `announced`
are those of the event's snapshot, `always` and `ever` what was in the store at all requests
and at any of them. `EdgesSupplied` says
whether a traversal answer carries edges: the model of the client has a field for
them, Topology's answer has none (see below). Projection is a read of a stored
scenario and therefore an operator. An alarm type, an object type and a relation
are strings; an object is a number, since the code sorts ids.

`TrailSignatures` lets the Trail Builder compute the trails of a slice and store them beside
retained ones, and then the Codebook Generator compile that slice's graph while the store goes on changing.
That projection finds a trail of every cause, if the trails of the event stay in the store, is then a consequence of
`EverySeedHasItsTrails` and no assumption. What the two services do assume of each other, without either
looking, is `OriginsAssumption`: the dictionary names no risk group as a fault origin,
because the Trail Builder seeds no walk from one (`closure.py:22`).

### CoreIPTopology, FaultCascade, SimulatorRun

`CoreIPTopology` is the network that `build_topology` makes and the pack's templates and
scenarios, as functions of the three sizes; it has no state. `FaultCascade` is
`propagate`: an object of the frontier, its edges in order, for each the alarms of the
relation's templates. An alarm's id is its position, and `via` records which edge and
template raised it. `SimulatorRun` extends it with the process: `cli.py` and `settings.py`
decide between usage error, configuration error, dry run and run; phase p1 posts a snapshot
with retries; p2 and p3 synthesize (cascades, labels, background and noise, one
sort) or ingest files, replay to a bounded producer queue, and write the corpus when they
close. A session is a few runs one after the other with the files they leave. The
environment delivers or fails to deliver, lets a post time out here and land
there, or kills the process. Messages are positions in what was produced: the topics
have three partitions and `produce` passes no key (`kafka_producer.py:55`), so the queue is
emptied in any order, and on the topic there is a set of them and no sequence. A kill
may fall into the writing of the corpus or the labels and leave the first lines, the last of them cut
short or not. What a loader refuses as invalid (`Malformed`) and what it stumbles over (`Undecodable`: no
text, or a line that is no object) end in different exit codes.

Left out: solving the number of instances from TOTAL_ALARMS, co-failures (no
scenario of the pack has any), alarm texts and attributes, pacing. Fractions are
percentages, a step draws one jitter for all the alarms it raises, and start times are drawn
from `Moments`.

## 3. The runs

| Run | Question | Bounds, and why they are enough |
|---|---|---|
| KnowledgeWrites | Do racing writers and the seeder keep history, current pointer, events and references right, and do all requests end? | A vocabulary and a template, two API writers and the seeder. `MaxRows` only stops *new* requests: those already under way finish, so up to four rows and three versions of a record arise, with every interleaving of a create, an update and a seeding. Postgres' waits are pairwise, so three writers already form a holder, a waiter and a late comer. |
| KnowledgeOrder | Are a record's events in version order on the topic? *Violated.* | One more version than above, no fairness needed. |
| TopologyGraph | Does a settled current snapshot read back as its file, and does an evicted graph go away in spite of crashes and a broker that is away? | A router, a port and their link: vertices that stay, come and go, and an edge that depends on both. Three cut-overs are the first that evict. One request, beside the reaper and crashes: requests that overlap overwrite each other's stamps (nothing in the code keeps them apart), so `SettledCurrentIsWhole` claims nothing of them and a second one would only add disturbed states. |
| TopologyCutOver | Do racing cut-overs keep one current and at most one previous, and are all requests answered? | No graph (the graph has no influence on the table), two requests, three cut-overs, two minted ids and one that is reused; a statement of either store may fail, and an event may not serialize. Two transactions suffice for every wait and for deadlock, which Postgres finds on a cycle of two. A broker that is away is left to TopologyGraph: the conjunct of `EventsFollowCutOvers` about the DLQ is the theorem's. |
| TopologyVisible | Is a new graph invisible before the cut-over? *Violated.* | As TopologyGraph without faults. |
| TrailEvents | Is every event taken, is it marked only once it was built and announced or its announcement lost, does the store keep the last snapshots only, and is a slice never older than its snapshot? | Two snapshots with retention 1 (one kept, one pruned), one rebuild, one crash: an event may be redelivered before, while and after a rebuild of the same snapshot. One trail per slice, shared by the two snapshots and not by a slice that mixes them. Any call may fail, the broker may lose an announcement. |
| TrailDeadlock | Does every build end? | Two snapshots with retention 1 and builds of two trails each, which the two graphs give in opposite orders: enough for a deadlock over the rows of one snapshot, and for one of two builds that prune each other's. An unreadable message ahead of the events, whose dead-letter topic may not answer. No other fault: every wait must end by itself. |
| TrailHeld | Is a held build retried? *Violated.* | One snapshot. |
| CodebookOnce | One codebook per event, one active per snapshot, no skipped message, everything settled in the end? | Two instances, four messages: one event twice, one snapshot built twice, one rejected event. One lost partition and one failure: every handling may be overtaken once, at each of its statements. |
| Signatures | Are the trails of a slice complete, disjoint within an area, single-area and fate-shared, whatever the orders; are signatures cascades, on the trails of their symptoms; does every compile end? | 576 slices: three IP links, two interfaces (of one area, two, or one without), an LSP, a VPN service, each of six edges present or not, and no, two overlapping, or doubly recorded risk groups. A connector reaches an area over at most two edges, so three links and an LSP hold every case of the admission rule; the proofs cover every other slice. Compiled are the slices of two areas and overlapping risk groups whose LSP rides the first link, the longest cascades. The store holds a trail of an older snapshot beside them. While one of these slices is compiled the snapshot and seven versions of the records change, among them a circle of templates, a missing vocabulary and a token outside it; while another is, the snapshot and the store: a build of a newer snapshot is persisted, and any others, the event's own among them, are pruned. One retry is enough to tell "again" from "enough". |
| CodebookBare | Do signatures follow the graph, with Topology's answers as they are? *Violated.* | As Signatures, with `EdgesSupplied = FALSE`. |
| Simulator | Do causes come first, effects once, exit codes, posts, corpus and labels tell the truth, and does every run end? | The smallest network the configuration accepts (ten nodes), and each of the nine scenarios on every object it may start on; every combination of the phase and file options; every setting at a limit and beyond; files that are missing, malformed or not text; an export with background, noise, one failing delivery and a kill, and the ingest of what it left. The producer queue holds two alarms, so that it fills within a cascade, and one message may be overtaken by the one after it, which tells a set of messages from a sequence; an upload is tried four times, the default of the client. One interface per port (the default of one), because more of them have no edges. |

`CHECK_DEADLOCK FALSE` everywhere: requests need not arrive, bounds end the
counters, and a service with nothing to do stops.

Fairness. A thread that runs takes its next step (`WF` on `Step`), and a store, a broker
or a service that is up answers. It is strong (`SF`) where a statement waits for locks that
other transactions take and release: Postgres queues waiters and wakes them.
In the closure, the compile and the Simulator, which are calls of one thread, it is `WF`
of the next step, and in the Simulator also of the broker (delivery or failure).
Nothing makes a request arrive, a fault happen or a process restart.

### Where the code and its comments differ

Four runs state what a comment says and find a counterexample:

1. `KnowledgeOrder`: the producer configuration promises that "all versions of a record
   land on one partition in order". Two requests commit v1 and v2 and send from
   their own threads; v2 may be sent first.
2. `TopologyVisible`: the ingest service calls the new graph "NOT yet current -
   invisible to readers". Vertices are keyed by object id alone, so the write of
   the next snapshot restamps the objects of the current one.
3. `TrailHeld`: the consumer holds a build so "a redelivery retries". Offsets are committed automatically
   and the loop polls on, so Kafka redelivers nothing.
4. `CodebookBare`: `codebook-generator/design.md` accumulates the predicted
   symptoms of the templates run forward over the closure. The edges they would run over
   are read from a field that Topology's `TraversalDto` does not have, so no template
   fires and every signature is its origin's alarm.

Seen while modelling, without a run of its own:

* Knowledge: an event whose send fails, or whose process dies after the commit, is lost (no
  outbox). The seeder checks existence and writes in two steps, so its record may
  become v2 over an operator's v1 if both race.
* Topology: a cut-over that fails leaves the graph restamped, and the current
  snapshot incomplete until the next ingest (hence `disturbed` in
  `SettledCurrentIsWhole`). The reaper reads the known ids before it scans, and may
  take a snapshot that is cut over to in between for an orphan. An evicted id that a
  producer supplies again is deleted although it is current. Edges between
  vertices that were restamped are never deleted.
* Trail Builder: "Mark processed only after a successful build + emit"
  (`kafka_consumer.py:109`), but the answer of `flush(5.0)` is not read (`event_publisher.py:59`): an
  event whose announcement the broker never got is marked all the same and not built again. Hence
  `ClaimsAreBacked` says announced or lost. After a held build an older snapshot that is rebuilt later has
  the newest `built_at`, which readers take for current. A slice may mix
  snapshots, although the client's comment says it matches. An exception other
  than `IntegrationError` ends the consumer thread while the API goes on. With
  retention 1, a rebuild that prunes late can leave the store empty.
* Codebook Generator: `flush()` reports what could not be delivered and nobody reads it
  (`lost` in the model). Scenarios are computed from whatever snapshot is current when each
  request is made (`clients/topology.py:10`), and stored under the event's.
  Its `spec.md:181` tags a scenario with "the trails for this snapshot": the Trail Builder's endpoint
  answers with those of every snapshot it retains (`trail_ids_for_object`), and from whatever its store
  holds at that moment, so that a compile which a cut-over overtakes tags with trails of older and of
  newer snapshots, and may miss its own if they are pruned meanwhile. `CausesAreProjected` claims
  no more than that. `consumer.py:6` says that the consumer continues after a failed message; a
  `PropagationError` or `ValueError` is not caught, ends the process before its offset is
  committed, and is the first message again after a restart (outcome "raises" of
  `CodebookCompile`). `KnowledgeClient` documents a cache that it does not have.
* Dictionaries: Knowledge's seed gives a FiberSpan the origin alarm `FiberCut`, the Codebook
  Generator's design and the Simulator's scenarios say `FiberFault`. The templates for `RIDES_ON`
  name a Port as what is affected, the edges lead to IP links; those for
  `MEMBER_OF` and `ADJACENCY_OVER#bgp` match no edge of the platform's topology.
* Closure: a seed that conducts no area, nor has a neighbour that does, walks unbounded. `closure.py:145` says
  this is "a fully area-less island", but a VPN service that rides an LSP that rides IP links
  is one such seed in the platform's own topology: its trail holds objects of every
  area, which AC-2 ("no single trail spans two areas") excludes, and it names no area
  (`TrailsKeepToTheirArea` is about trails that do).
  `_srlg_union` is one pass: a link that one group brings to a trail brings
  its other groups only if they come later, although its docstring says that all co-members co-appear in any trail that
  touches the group. And before that union two trails of one area never overlap
  (`AreaWalksPartition`): the module docstring's "two LSP paths" share one trail.
* Simulator: the scenario library says its nine root alarm types are distinct;
  `InterfaceDown` and `FiberFault` occur twice. A run whose deliveries fail exits
  0 where the usage text has 4, and a missing or malformed labels file gives 4 where it has
  3. `--dry-run` neither loads nor validates the input files. A scenario
  that is named twice in SCENARIOS overwrites its own labels (hence the proviso of
  `LabelsDivideTheSignal`). Background and noise of 100 % are accepted, and the share of the signal becomes a millionth. A killed
  export leaves an empty corpus, or its first records, which the next run ingests without complaint. The
  corpus is in "emit order" (`corpus_writer.py:4`), which a re-ingest reproduces; that the file is "exactly what
  went on the wire" (line 5) is true of its contents if every delivery succeeds, and not of an order, since a topic of
  three partitions without keys has none. Of malformed corpora and snapshots, those that are no text or
  whose lines are no objects give 4 and not 3. A post
  that timed out and lands after its retry leaves a snapshot current other than
  the reported one. With two or more interfaces per port all but the first have no
  edges, and a fault on one of those is a cascade of one alarm.

## 4. The proofs

TLAPS checks each of these for all values of the constants, under the named
assumptions of the module: ids of different kinds differ, the topic is a sequence of
messages, a rebuild thread is not the consumer and there are finitely many of them
(the API's thread pool), a link joins two objects and is none itself, records have the shape
their schema demands, a run may always look for its corpus and labels. TLC evaluates each
of them on a run. Each proof module has an `Inductive == Spec => []IInv` (under this or
a like name). What does not follow from `IInv` has an invariant of its own beside it, proved
inductive together with it, so that each argument can be read by itself.

**KnowledgeVersioningProofs** - `TypeOK`, `VersionHistory`, `CurrentIsLatest`,
`EventsOfCommittedVersions`, `ReferencesWereDeclared`, `SeedWritesOnce`. None of them is inductive:
that a version number is fresh when it commits depends on the lock its writer
holds since the insert. `IInv` adds *Chain* (rows, flag and identity of a record
agree), *LockDiscipline* (one holder per record, and what it is about to demote
is still what is current), *NextVersion* (a computed number leaves no gap, and is free at commit),
*PendingEvents* (one request publishes a version) and *ValidatedReferences* (stored
vocabulary rows never go away). The same invariant carries the refinement
`RegisterImplemented`: a commit extends the abstract history because its number is the
next one, and a send announces a version for the first time because only one request
publishes it. For `SeedWritesOnce`, *SeedPending* says that from the moment the
seeder has found a record missing until its commit, no committed row of that record is the seeder's:
it is one thread, and what others write meanwhile is the API's.

**TopologyIngestProofs** - `TypeOK`, `OneCurrentOnePrevious`, `FirstIsFullLoad`,
`EvictedIsNotRetained`, `EventsFollowCutOvers`, `SettledCurrentIsWhole`,
`EvictedVerticesGo`. `IInv` says that locked row sets are disjoint (*Apart*), that at most one request is
between its successful insert and its commit, and that what the transaction checked
still holds when it commits (*RequestOK*): the demoted row is current, no
other previous row exists, no other current row is left. So a commit leaves
exactly its own row current and at most one other row, previous; and whoever was
waiting for the rows it had locked finds nothing to demote. A request that found
the table empty is a full load until the first cut-over, because rows never all
disappear (*TableOK*). *Told* counts for each id: its events and the requests that have yet
to announce it are no more than its cut-overs.

The last two are about the graph, which no transaction protects, and are proved where
an id stamps what one ingest has written, that is if no producer supplies ids (`Supplied = {}`,
the hypothesis of both; the run TopologyGraph has the same). *Stamps*: a
request cuts over to an id once, what stands in the graph or the table was handed out, and a request
evicts the one snapshot whose row it deletes. *Alone*: while nobody has disturbed it, what an
ingest has written is what it no longer has to write, hence its whole file when it cuts
over. *Orphaned*: an evicted snapshot that still has vertices is found by the reaper, if
nobody is about to delete it. `EvictedVerticesGo` needs that no nGQL statement fails ("graph" is
no fault), and that a process that may die runs the reaper when it starts.

**TrailBuildProofs** - `TypeOK`, `ClaimsAreBacked`, `ProcessedIsNotRebuilt`, `SliceIsNotOlder`,
`RetentionHolds`, for any number of rebuild threads, restarts and faults. The first four
rest on what a build may rely on at each statement (*BuildOK*: it is of a snapshot that was cut
over to, has read no older one, is in the store when it is announced, and its announcement went out or was
lost when it is marked) and on a stamp belonging to one build (*Stamped*). That a transaction locks,
deletes and inserts row by row adds nothing to either, as nobody sees its rows before the commit. `RetentionHolds` is the hard one. A transaction that prunes keeps to
the retention as far as it sees; what it does not see are the builds that have chosen what to
prune before its commit and commit after it, one of each other thread. So *Retained* asks for
a ranking of the selects in the order they came, which no variable records, and with it for each builder those
who have committed since its own select (*Crowded*): what it will leave stored exceeds
the retention by less than their number, and whoever selected before it is not among them yet. Without an overlap
nobody is but the builder itself.

**CodebookCompileProofs** - `TypeOK`, `OneActive`, `CompiledOnce`,
`AnnouncedIsStored`, `NothingIsSkipped`. `IInv` says that ids in the making are
fresh and distinct, that two instances are never both past the insert for one snapshot,
that the rows demoted contain all active ones from the insert on, that an
instance about to commit the offset has a settled message (*InstanceOK*), and
that everything behind the owner's position is settled but the message it
handles (*Handled*), which is what keeps a lost partition from skipping anything.

**TrailSignaturesProofs**, on the closure - `TypeOK`, `WalksAreLeast`, `AreaWalksPartition`,
`FateSharedLinksTravel`, `TrailsKeepToTheirArea`, `EverySeedHasItsTrails`. `IInv` says of the
walk in progress that what has left the frontier has had its neighbours taken and
that every closed set holds what has been reached (*InReach*), of a finished walk
that it returned the least closed set (*Finished*), and bounds the merged sets from below
and above (*Merging*). The rest needs no look at the algorithm. Two least sets of one area
that meet are equal, for what one does not share with the other would be closed
too (`LeastMeet`: links go both ways, and a seed is admitted where it is bounded to).
A least set of an area holds an object of it, found through the connector that made the area
a target (`LeastKeepsToItsArea`). Assumed: risk groups join objects without an area.

**SignaturesProofs**, **TrailSignaturesProofs** - `SignaturesAreCascades`, for one compile
and for one composed with the Trail Builder, and `CausesAreProjected` of the composition. The invariant says of the walk in progress that
what the templates raise from a state already looked at is in the signature or about to be
raised, and that each symptom was looked at or waits in the agenda. With the agenda empty
this is a cascade. A finished scenario stays one because no record is fetched
once a scenario exists. The composition instantiates these theorems with the
slice's graph: what the Trail Builder does, before the compile or to its store during it, touches nothing of them.
For `CausesAreProjected`, *Covering* says of every object of a fault-origin type that Topology held
from the start: its type has yet to be listed, or it is in the list of objects still to
traverse, or it has its scenario (*HasScenario*), whose tags so far hold every
trail of the symptoms asked for that the store has held throughout (`always`), and none that it never held
(`ever`; *Tagging*). So the claim survives builds and prunes between two requests; it says nothing of a trail that
comes or goes meanwhile, nor which snapshot a trail is of. A cut-over in between can take an object away, but not
one that the proviso is about; a new version of the records cannot matter, as each record is read
once. What remains is that a cause has a trail when the compile begins: it is no risk group, so the Trail Builder
seeded a walk from it (`SeedsHaveTrails`, from `EverySeedHasItsTrails`).

**FaultCascadeProofs** - `CausesComeFirst`, `EveryEffectOnce`, for any graph, templates and
faults. `CInv` relates the alarms to the walk: objects affected are those that entered
the frontier (*Reach*); an edge of one has had its effects or is still to be looked
at (*Complete*); no edge still to be looked at has had any (*Fresh*); and nothing is
later than the last alarm of the walk, after which the next one is timed (*Timed*).

**SimulatorRunProofs** - the same two of the whole process, `UploadsAreCounted`,
`ExitCodesTell`, `CorpusIsTheReplay`, `LabelsDivideTheSignal` and `ReplayIsCausal`. `RInv` puts beside `CInv` what each place in the code may rely
on: nothing is posted before "upload" nor produced before "replay", a phase keeps to its
places, and the count of background alarms is a number because the share of the signal
is at least a millionth. *Taping*: what was produced is on the wire or
waits in the queue, each record in one of them, as long as no delivery fails, and the corpus is the tape of what was
produced; in which order a topic holds its records is not claimed. *Dividing*: an alarm of a
finished cascade is in the label of its own scenario instance and in no other; a label is of an earlier instance,
whose id differs if no scenario was selected twice, and the alarms since the root are the cascade in
progress. `ReplayIsCausal` spans two runs: a child is not raised before its root (*Timely*), the
sort keeps that order and loses nobody (`Sorting`: an alarm's place is the number of those before
it, so places are distinct and all taken), what has gone out is the beginning of the
stream, and a corpus that can be ingested is causal and, if no run has failed, complete (*Streaming*; a kill may
leave its first records, which are causal too: *StreamingKill*).
It is proved for sessions that ingest a corpus with the labels of its own run and begin with
files of a generator that does the same (`SessionsAssumption`, which TLC evaluates for those
of the run; the names of the files are the operator's to give, and nothing in the code compares them).

Only model-checked: liveness (`RequestsFinish` twice, `BuildsFinish`, `EventsAreTaken`,
`EventuallySettled`, `CompileEnds`, `RunsEnd`), which is out of the prover's reach. Every
safety property of the runs that pass is a theorem.

## 5. What is not modelled

* Query APIs (Knowledge's vocabulary, Topology's traversals, the stores of the Trail Builder and
  the Codebook Generator) only read, and what they read is what the properties of
  the stores are about. A query that resolves the snapshot and then reads the graph may
  fall between a cut-over and an eviction; `TopologyVisible` shows the stronger effect, which
  needs no query in two steps.
* Topology's startup bootstrap: a retry loop before any request; the sweep at its end is in
  `TopologyIngest`. The vocabulary client and the Trail Builder's policy cache hold one
  value each with an expiry, and their users are modelled with a value that may be of any
  version.
* Schema and semantic validation (a rejected request changes nothing), wire
  formats, the generated event types, HTTP security and metrics.
* Of the Simulator: a post that is still in flight when its run ends is forgotten when the next run
  begins (no session has a run after an upload), and the labels of the latest run stand for the
  `labels-<runId>.jsonl` of each.
* Web UI: a polling timer and stores for display; nothing of the platform depends on them.
* The six services without code: Alarm Manager, Correlation Engine, Enrichment, Noise Filter, Pattern
  Manager, Pattern Miner.

## 6. What would come next

1. `PolicyCache`: a fetch in flight while its entry is invalidated.
2. `Pipeline`: a snapshot that is cut over to is eventually answered by one active codebook, or
   its failure is on a dead-letter topic.
