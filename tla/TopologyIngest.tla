--------------------------- MODULE TopologyIngest ---------------------------
(***************************************************************************)
(* The Topology service's ingest pipeline over two stores that share no    *)
(* transaction: a NebulaGraph space holds the graph, a Postgres table says *)
(* which snapshot is current and which is previous.  Requests are threads  *)
(* that advance one nGQL or SQL statement at a time (READ COMMITTED); the  *)
(* orphan reaper runs once after every start, when requests are already    *)
(* accepted.                                                               *)
(*                                                                         *)
(* Every query of the table is restricted to one domain, and the platform  *)
(* deploys one: one domain is modelled.  A request rejected by schema,     *)
(* semantic or vocabulary validation changes nothing and is left out.  The *)
(* lookups and deletions that the code makes for one tag after the other   *)
(* are made for one object after the other: as if each had its own tag.    *)
(***************************************************************************)
EXTENDS Integers, Sequences, FiniteSets

CONSTANTS Objects,    \* managed object ids: the vertex ids of the space
          Links,      \* the edge keys <<from, to>> of the space
          Minted,     \* ids "SNAP-<uuid>": each is handed out once
          Supplied,   \* ids a producer may put into its file, again and again
          Ingesters,  \* concurrent POST /topology/snapshots requests
          Faults,     \* what may fail: "graph", "database", "broker", "codec", "crash"
          BootstrapOnStartup,  \* topology.nebula.bootstrap-on-startup
          MaxIngests, \* bound: no request is sent after this many cut-overs
          NoSnapshot  \* stands for "no vertex / edge with this key"

SnapshotIds == Minted \cup Supplied

ASSUME LinksAssumption  == Links \subseteq Objects \X Objects /\ Objects \cap Links = {}
ASSUME IdsAssumption    == Minted \cap Supplied = {} /\ NoSnapshot \notin SnapshotIds
ASSUME FaultsAssumption == Faults \subseteq {"graph", "database", "broker", "codec", "crash"}
ASSUME BootAssumption   == BootstrapOnStartup \in BOOLEAN
ASSUME BoundAssumption  == MaxIngests \in Nat

VARIABLES
  rows,      \* committed rows of topology_meta.snapshot, with the file each stands for
  vertex,    \* the snapshotId stamped on the vertex with each VID
  edge,      \* the snapshotId stamped on the edge with each key
  topic,     \* topology.changed, in the order sent
  dlq,       \* the events on topology.changed.dlq
  cutOvers,  \* history: the snapshots cut over to, in commit order
  disturbed, \* history: the last ingest to begin failed, or was not alone
  minted,    \* the minted ids handed out
  pc,        \* the statement each request is about to run
  req,       \* the lifted snapshot of each request
  left,      \* the vertices and edges it still has to write, or to delete
  found,     \* the previous snapshot it found, which it will evict
  gone,      \* the rows its transaction has deleted
  target,    \* the current rows its transaction demotes
  reaper,    \* the reaper's next step
  known,     \* the ids it read from Postgres
  unread,    \* the objects it has still to look up
  doomed     \* the deletions it has still to make, of the ids it takes for orphans

graphVars == <<vertex, edge>>
vars == <<rows, vertex, edge, topic, dlq, cutOvers, disturbed, minted, pc, req, left,
          found, gone, target, reaper, known, unread, doomed>>

ChangeTypes == {"full-load", "incremental"}
Files == {f \in [nodes : SUBSET Objects, links : SUBSET Links] :
            \A l \in f.links : l[1] \in f.nodes /\ l[2] \in f.nodes}
Snapshot == {s \in [id : SnapshotIds, nodes : SUBSET Objects, links : SUBSET Links,
                    changeType : ChangeTypes] :
               [nodes |-> s.nodes, links |-> s.links] \in Files}
Row == [snap : Snapshot, status : {"current", "previous"}]
NoRequest == [id |-> NoSnapshot, nodes |-> {}, links |-> {}, changeType |-> "full-load"]
TxPhases == {"find", "delete", "demote", "wait", "index", "insert", "commit"}
Phases   == {"idle", "write", "evict", "emit", "record"} \cup TxPhases

Ids(status)    == {r.snap.id : r \in {x \in rows : x.status = status}}
allSnapshotIds == {r.snap.id : r \in rows}

\* The first reads of a request: nothing is stored for the domain yet.
isFirstIngest == rows = {}
resolveChangeType(hint, first) ==
  IF ~first /\ hint = "incremental" THEN "incremental" ELSE "full-load"

\* DELETE VERTEX ... WITH EDGE of the object's vertex, if it is stamped s.
deleteVertex(s, o) ==
  /\ vertex' = IF vertex[o] = s THEN [vertex EXCEPT ![o] = NoSnapshot] ELSE vertex
  /\ edge' = [l \in Links |-> IF vertex[o] = s /\ o \in {l[1], l[2]} THEN NoSnapshot
                              ELSE edge[l]]

Goto(i, phase) == pc' = [pc EXCEPT ![i] = phase]

AfterStart == IF BootstrapOnStartup THEN "known" ELSE "done"

Init ==
  /\ rows = {} /\ cutOvers = <<>> /\ topic = <<>> /\ dlq = {} /\ minted = {}
  /\ disturbed = FALSE
  /\ vertex = [o \in Objects |-> NoSnapshot]
  /\ edge = [l \in Links |-> NoSnapshot]
  /\ pc = [i \in Ingesters |-> "idle"]
  /\ req = [i \in Ingesters |-> NoRequest]
  /\ left = [i \in Ingesters |-> {}]
  /\ found = [i \in Ingesters |-> {}]
  /\ gone = [i \in Ingesters |-> {}]
  /\ target = [i \in Ingesters |-> {}]
  /\ reaper = AfterStart /\ known = {} /\ unread = {} /\ doomed = {}

-----------------------------------------------------------------------------
(* How a request ends, and what it leaves behind when it fails.            *)

Return(i) ==
  /\ Goto(i, "idle")
  /\ req' = [req EXCEPT ![i] = NoRequest]
  /\ left' = [left EXCEPT ![i] = {}]
  /\ found' = [found EXCEPT ![i] = {}]
  /\ gone' = [gone EXCEPT ![i] = {}]
  /\ target' = [target EXCEPT ![i] = {}]

\* An exception answers 500: an open transaction rolls back, the graph keeps
\* whatever was written.
Fail(i) ==
  /\ Return(i)
  /\ disturbed' = TRUE
  /\ UNCHANGED <<rows, vertex, edge, topic, dlq, cutOvers, minted, reaper, known, unread,
                 doomed>>

\* The process dies and starts again.
Crash ==
  /\ "crash" \in Faults
  /\ pc' = [i \in Ingesters |-> "idle"]
  /\ req' = [i \in Ingesters |-> NoRequest]
  /\ left' = [i \in Ingesters |-> {}]
  /\ found' = [i \in Ingesters |-> {}]
  /\ gone' = [i \in Ingesters |-> {}]
  /\ target' = [i \in Ingesters |-> {}]
  /\ reaper' = AfterStart /\ known' = {} /\ unread' = {} /\ doomed' = {}
  /\ disturbed' = TRUE
  /\ UNCHANGED <<rows, vertex, edge, topic, dlq, cutOvers, minted>>

-----------------------------------------------------------------------------
(* From the request to the graph.                                          *)

\* A valid file arrives: the id is resolved, the change type decided from a
\* read of the table, and the file lifted.
Begin(i) ==
  /\ pc[i] = "idle" /\ Len(cutOvers) < MaxIngests
  /\ \E id \in (Minted \ minted) \cup Supplied, f \in Files,
        hint \in {"none", "incremental"} :
       /\ minted' = minted \cup ({id} \cap Minted)
       /\ req' = [req EXCEPT ![i] =
                    [id |-> id, nodes |-> f.nodes, links |-> f.links,
                     changeType |-> resolveChangeType(hint, isFirstIngest)]]
       /\ left' = [left EXCEPT ![i] = f.nodes \cup f.links]
  /\ disturbed' = (reaper # "done" \/ \E j \in Ingesters : pc[j] # "idle")
  /\ Goto(i, "write")
  /\ UNCHANGED <<rows, vertex, edge, topic, dlq, cutOvers, found, gone, target,
                 reaper, known, unread, doomed>>

\* INSERT VERTEX / INSERT EDGE, one statement each and the vertices first.
\* The key has no snapshot in it: the statement overwrites.
writeSnapshot(i) ==
  /\ pc[i] = "write" /\ left[i] # {}
  /\ \/ \E o \in left[i] \cap Objects :
          /\ vertex' = [vertex EXCEPT ![o] = req[i].id]
          /\ left' = [left EXCEPT ![i] = @ \ {o}]
          /\ UNCHANGED edge
     \/ /\ left[i] \cap Objects = {}
        /\ \E l \in left[i] :
             /\ edge' = [edge EXCEPT ![l] = req[i].id]
             /\ left' = [left EXCEPT ![i] = @ \ {l}]
        /\ UNCHANGED vertex
  /\ UNCHANGED <<rows, topic, dlq, cutOvers, disturbed, minted, pc, req, found,
                 gone, target, reaper, known, unread, doomed>>

\* Mutant: The cut-over begins before the last statement of the graph write.
StartCutOver_Early(i) ==
  /\ pc[i] = "write"
  /\ Goto(i, "find")
  /\ UNCHANGED <<rows, vertex, edge, topic, dlq, cutOvers, disturbed, minted, req,
                 left, found, gone, target, reaper, known, unread, doomed>>

\* The last statement has succeeded and the cut-over may begin.
StartCutOver(i) ==
  /\ pc[i] = "write" /\ left[i] = {}
  /\ Goto(i, "find")
  /\ UNCHANGED <<rows, vertex, edge, topic, dlq, cutOvers, disturbed, minted, req,
                 left, found, gone, target, reaper, known, unread, doomed>>

-----------------------------------------------------------------------------
(* SnapshotMetadataService.cutOver: one transaction of four statements.    *)

\* The rows that request j's open transaction has locked.
Holds(j) == gone[j] \cup (IF pc[j] \in {"index", "insert", "commit"} THEN target[j] ELSE {})

\* The requests whose transactions i's next statement has to wait for: row
\* locks, and uncommitted entries of the unique indexes.
Blockers(i) ==
  {j \in Ingesters \ {i} :
     \/ pc[i] = "delete" /\ Holds(j) \cap found[i] # {}
     \/ pc[i] = "wait"   /\ Holds(j) \cap target[i] # {}
     \/ pc[i] = "index"  /\ target[i] # {} /\ Holds(j) # {}
     \/ pc[i] = "record" /\ req[i].id \in Holds(j)
     \/ pc[i] = "insert" /\ \/ pc[j] = "commit"
                            \/ Holds(j) \cap ({req[i].id} \cup
                                  (Ids("current") \ (gone[i] \cup target[i]))) # {}}

findPreviousSnapshotId(i) ==
  /\ pc[i] = "find"
  /\ found' = [found EXCEPT ![i] = Ids("previous")]
  /\ Goto(i, IF Ids("previous") = {} THEN "demote" ELSE "delete")
  /\ UNCHANGED <<rows, vertex, edge, topic, dlq, cutOvers, disturbed, minted, req,
                 left, gone, target, reaper, known, unread, doomed>>

\* DELETE ... WHERE snapshot_id = ?: no row is left if a rival deleted it.
deleteBySnapshotId(i) ==
  /\ pc[i] = "delete" /\ Blockers(i) = {}
  /\ gone' = [gone EXCEPT ![i] = found[i] \cap allSnapshotIds]
  /\ Goto(i, "demote")
  /\ UNCHANGED <<rows, vertex, edge, topic, dlq, cutOvers, disturbed, minted, req,
                 left, found, target, reaper, known, unread, doomed>>

\* UPDATE ... SET status = 'previous': locks the current row its snapshot
\* shows, or waits for the transaction that has it locked.
demoteCurrentToPrevious(i) ==
  /\ pc[i] = "demote"
  /\ LET current == Ids("current") \ gone[i]
         rivals  == {j \in Ingesters \ {i} : Holds(j) \cap current # {}} IN
       /\ target' = [target EXCEPT ![i] = current]
       /\ Goto(i, IF rivals = {} THEN "index" ELSE "wait")
  /\ UNCHANGED <<rows, vertex, edge, topic, dlq, cutOvers, disturbed, minted, req,
                 left, found, gone, reaper, known, unread, doomed>>

\* The lock is free: the WHERE clause is evaluated again on the row waited
\* for; a row inserted since the statement began is not seen.
resumeDemote(i) ==
  /\ pc[i] = "wait" /\ Blockers(i) = {}
  /\ target' = [target EXCEPT ![i] = @ \cap Ids("current")]
  /\ Goto(i, "index")
  /\ UNCHANGED <<rows, vertex, edge, topic, dlq, cutOvers, disturbed, minted, req,
                 left, found, gone, reaper, known, unread, doomed>>

\* The demoted row enters the unique index on (domain, status).
checkPrevious(i) ==
  /\ pc[i] = "index" /\ Blockers(i) = {}
  /\ \/ /\ target[i] # {} /\ Ids("previous") \ gone[i] # {}
        /\ Fail(i)
     \/ /\ target[i] = {} \/ Ids("previous") \subseteq gone[i]
        /\ Goto(i, "insert")
        /\ UNCHANGED <<rows, vertex, edge, topic, dlq, cutOvers, disturbed, minted,
                       req, left, found, gone, target, reaper, known, unread, doomed>>

\* Mutant: No unique index on the status of a domain's snapshots.
insert_NoUniqueIndex(i) ==
  /\ pc[i] = "insert" /\ Blockers(i) = {}
  /\ Goto(i, "commit")
  /\ UNCHANGED <<rows, vertex, edge, topic, dlq, cutOvers, disturbed, minted, req,
                 left, found, gone, target, reaper, known, unread, doomed>>

\* Mutant: The event is sent before the transaction commits.
insert_EmitsInTx(i) ==
  /\ pc[i] = "insert" /\ Blockers(i) = {}
  /\ Goto(i, "commit")
  /\ topic' = Append(topic, [id |-> req[i].id, changeType |-> req[i].changeType])
  /\ UNCHANGED <<rows, vertex, edge, dlq, cutOvers, disturbed, minted, req, left,
                 found, gone, target, reaper, known, unread, doomed>>

\* Mutant: A refused id is answered as an error, but the transaction stays open,
\* and so do the locks on the rows it has deleted.
insert_NoRollback(i) ==
  /\ pc[i] = "insert" /\ Blockers(i) = {}
  /\ LET refused == \/ req[i].id \in allSnapshotIds \ gone[i]
                    \/ Ids("current") \ (gone[i] \cup target[i]) # {} IN
       Goto(i, IF refused THEN "idle" ELSE "commit")
  /\ UNCHANGED <<rows, vertex, edge, topic, dlq, cutOvers, disturbed, minted, req, left,
                 found, gone, target, reaper, known, unread, doomed>>

\* INSERT the new current row: the primary key and the unique index may
\* refuse it.
insert(i) ==
  /\ pc[i] = "insert" /\ Blockers(i) = {}
  /\ LET refused == \/ req[i].id \in allSnapshotIds \ gone[i]
                    \/ Ids("current") \ (gone[i] \cup target[i]) # {} IN
       \/ refused /\ Fail(i)
       \/ /\ ~refused
          /\ Goto(i, "commit")
          /\ UNCHANGED <<rows, vertex, edge, topic, dlq, cutOvers, disturbed,
                         minted, req, left, found, gone, target, reaper, known, unread,
                         doomed>>

\* Mutant: The snapshot just demoted is reported as evicted.
commitCutOver_EvictsDemoted(i) ==
  /\ pc[i] = "commit"
  /\ rows' = {IF r.snap.id \in target[i] THEN [r EXCEPT !.status = "previous"] ELSE r :
                r \in {x \in rows : x.snap.id \notin gone[i]}}
             \cup {[snap |-> req[i], status |-> "current"]}
  /\ cutOvers' = Append(cutOvers, req[i])
  /\ gone' = [gone EXCEPT ![i] = {}]
  /\ target' = [target EXCEPT ![i] = {}]
  /\ found' = [found EXCEPT ![i] = target[i]]
  /\ left' = [left EXCEPT ![i] = IF target[i] = {} THEN {} ELSE Objects]
  /\ Goto(i, IF target[i] = {} THEN "emit" ELSE "evict")
  /\ UNCHANGED <<vertex, edge, topic, dlq, disturbed, minted, req, reaper, known,
                 unread, doomed>>

\* Mutant: Nothing is reported as evicted.
commitCutOver_ForgetsEvicted(i) ==
  /\ pc[i] = "commit"
  /\ rows' = {IF r.snap.id \in target[i] THEN [r EXCEPT !.status = "previous"] ELSE r :
                r \in {x \in rows : x.snap.id \notin gone[i]}}
             \cup {[snap |-> req[i], status |-> "current"]}
  /\ cutOvers' = Append(cutOvers, req[i])
  /\ gone' = [gone EXCEPT ![i] = {}]
  /\ target' = [target EXCEPT ![i] = {}]
  /\ found' = [found EXCEPT ![i] = {}]
  /\ Goto(i, "emit")
  /\ UNCHANGED <<vertex, edge, topic, dlq, disturbed, minted, req, left, reaper,
                 known, unread, doomed>>

\* COMMIT: the snapshot becomes current.  What was found previous is returned
\* as evicted, whether or not the DELETE still met its row.
commitCutOver(i) ==
  /\ pc[i] = "commit"
  /\ rows' = {IF r.snap.id \in target[i] THEN [r EXCEPT !.status = "previous"] ELSE r :
                r \in {x \in rows : x.snap.id \notin gone[i]}}
             \cup {[snap |-> req[i], status |-> "current"]}
  /\ cutOvers' = Append(cutOvers, req[i])
  /\ gone' = [gone EXCEPT ![i] = {}]
  /\ target' = [target EXCEPT ![i] = {}]
  /\ left' = [left EXCEPT ![i] = IF found[i] = {} THEN {} ELSE Objects]
  /\ Goto(i, IF found[i] = {} THEN "emit" ELSE "evict")
  /\ UNCHANGED <<vertex, edge, topic, dlq, disturbed, minted, req, found, reaper,
                 known, unread, doomed>>

-----------------------------------------------------------------------------
(* After the commit.                                                       *)

\* The evicted snapshot's graph is deleted, one statement after the other; a
\* failing one is ignored.
evict(i) ==
  /\ pc[i] = "evict"
  /\ \/ \E s \in found[i], o \in left[i] :
          /\ deleteVertex(s, o) \/ ("graph" \in Faults /\ UNCHANGED graphVars)
          /\ left' = [left EXCEPT ![i] = @ \ {o}]
          /\ UNCHANGED pc
     \/ /\ left[i] = {} /\ Goto(i, "emit")
        /\ UNCHANGED <<vertex, edge, left>>
  /\ UNCHANGED <<rows, topic, dlq, cutOvers, disturbed, minted, req, found, gone, target,
                 reaper, known, unread, doomed>>

\* The event goes to the topic, or else to the DLQ, or else into the log.
emit(i) ==
  /\ pc[i] = "emit"
  /\ \/ /\ topic' = Append(topic, [id |-> req[i].id, changeType |-> req[i].changeType])
        /\ UNCHANGED dlq
     \/ /\ "broker" \in Faults
        /\ dlq' \in {dlq, dlq \cup {req[i].id}}
        /\ UNCHANGED topic
  /\ Goto(i, "record")
  /\ UNCHANGED <<rows, vertex, edge, cutOvers, disturbed, minted, req, left, found, gone,
                 target, reaper, known, unread, doomed>>

\* UPDATE ... SET event_id: waits for a transaction that has demoted or deleted
\* the row, and finds none if it is deleted.  The column is read by nobody.
recordEventId(i) ==
  /\ pc[i] = "record" /\ Blockers(i) = {}
  /\ Return(i)
  /\ UNCHANGED <<rows, vertex, edge, topic, dlq, cutOvers, disturbed, minted, reaper,
                 known, unread, doomed>>

-----------------------------------------------------------------------------
(* Failing statements.                                                     *)

\* An INSERT fails, or the eviction cannot get a session.
GraphFails(i) ==
  /\ "graph" \in Faults
  /\ pc[i] = "write" \/ (pc[i] = "evict" /\ left[i] = Objects)
  /\ Fail(i)

\* A statement of the cut-over fails, or the one that follows the event.
DatabaseFails(i) == "database" \in Faults /\ pc[i] \in TxPhases \cup {"record"} /\ Fail(i)

\* The event does not satisfy the contract it is serialized by.
SerializeFails(i) == "codec" \in Faults /\ pc[i] = "emit" /\ Fail(i)

\* Two transactions wait for each other: Postgres cancels one of them.
DeadlockDetected(i) == (\E j \in Blockers(i) : i \in Blockers(j)) /\ Fail(i)

-----------------------------------------------------------------------------
(* OrphanReaper.reap.                                                      *)

readKnown ==
  /\ reaper = "known"
  /\ known' = allSnapshotIds
  /\ unread' = Objects
  /\ reaper' = "scan"
  /\ UNCHANGED <<rows, vertex, edge, topic, dlq, cutOvers, disturbed, minted, pc,
                 req, left, found, gone, target, doomed>>

\* LOOKUP of the stamps, one statement after the other; a failing one reads as
\* empty.  An id that is not known is an orphan, with all its vertices.
scanGraph ==
  /\ reaper = "scan"
  /\ \/ \E o \in unread :
          /\ unread' = unread \ {o}
          /\ \/ doomed' = doomed \cup
                    (({vertex[o]} \ (known \cup {NoSnapshot})) \X Objects)
             \/ "graph" \in Faults /\ UNCHANGED doomed
          /\ UNCHANGED <<reaper, known>>
     \/ /\ unread = {} /\ reaper' = "reap" /\ known' = {}
        /\ UNCHANGED <<unread, doomed>>
  /\ UNCHANGED <<rows, vertex, edge, topic, dlq, cutOvers, disturbed, minted, pc,
                 req, left, found, gone, target>>

reap ==
  /\ reaper = "reap"
  /\ \/ \E d \in doomed :
          /\ deleteVertex(d[1], d[2]) \/ ("graph" \in Faults /\ UNCHANGED graphVars)
          /\ doomed' = doomed \ {d}
          /\ UNCHANGED reaper
     \/ /\ doomed = {} /\ reaper' = "done"
        /\ UNCHANGED <<vertex, edge, doomed>>
  /\ UNCHANGED <<rows, topic, dlq, cutOvers, disturbed, minted, pc, req, left,
                 found, gone, target, known, unread>>

-----------------------------------------------------------------------------
Step(i) ==
  \/ writeSnapshot(i) \/ StartCutOver(i) \/ findPreviousSnapshotId(i)
  \/ deleteBySnapshotId(i) \/ demoteCurrentToPrevious(i) \/ resumeDemote(i)
  \/ checkPrevious(i) \/ insert(i) \/ commitCutOver(i) \/ evict(i) \/ emit(i)
  \/ recordEventId(i) \/ DeadlockDetected(i)
Reaper == readKnown \/ scanGraph \/ reap

Next ==
  \/ \E i \in Ingesters : \/ Begin(i) \/ Step(i)
                          \/ GraphFails(i) \/ DatabaseFails(i) \/ SerializeFails(i)
  \/ Reaper
  \/ Crash

\* Threads run, the stores answer, Postgres looks for deadlocks; nothing has
\* to arrive and nothing has to fail.  Fairness is strong because Postgres
\* wakes a waiter whenever the transaction it waits for ends.
Fairness == (\A i \in Ingesters : SF_vars(Step(i))) /\ WF_vars(Reaper)

Spec     == Init /\ [][Next]_vars
FairSpec == Spec /\ Fairness
-----------------------------------------------------------------------------
(* Properties.                                                             *)

Stamped(s) == {o \in Objects : vertex[o] = s}
Linked(s)  == {l \in Links : edge[l] = s}
Evicted    == {cutOvers[n].id : n \in DOMAIN cutOvers} \ allSnapshotIds

\* Every variable holds a value of its kind, and a change type is one of the
\* two the service may emit (AC-16).
TypeOK ==
  /\ rows \subseteq Row
  /\ vertex \in [Objects -> SnapshotIds \cup {NoSnapshot}]
  /\ edge \in [Links -> SnapshotIds \cup {NoSnapshot}]
  /\ topic \in Seq([id : SnapshotIds, changeType : ChangeTypes])
  /\ dlq \subseteq SnapshotIds
  /\ cutOvers \in Seq(Snapshot)
  /\ disturbed \in BOOLEAN
  /\ minted \subseteq Minted
  /\ pc \in [Ingesters -> Phases]
  /\ req \in [Ingesters -> {NoRequest} \cup Snapshot]
  /\ left \in [Ingesters -> SUBSET (Objects \cup Links)]
  /\ found \in [Ingesters -> SUBSET SnapshotIds]
  /\ gone \in [Ingesters -> SUBSET SnapshotIds]
  /\ target \in [Ingesters -> SUBSET SnapshotIds]
  /\ reaper \in {"known", "scan", "reap", "done"}
  /\ known \subseteq SnapshotIds
  /\ unread \subseteq Objects
  /\ doomed \subseteq SnapshotIds \X Objects

\* Whatever ingests race or fail, a domain that has a snapshot has exactly one
\* current and at most one previous, under different ids (the demote, evict
\* and insert of cutOver against the unique index).
OneCurrentOnePrevious ==
  /\ rows # {} => Cardinality(Ids("current")) = 1
  /\ Cardinality(Ids("previous")) <= 1
  /\ Cardinality(rows) = Cardinality(allSnapshotIds)

\* Nobody is told of a snapshot that was never cut over to, and never more
\* often than it was (emit comes "after persist + cut-over succeed").
EventsFollowCutOvers ==
  LET Count(s, id) == Cardinality({n \in DOMAIN s : s[n].id = id}) IN
    /\ \A id \in SnapshotIds : Count(topic, id) <= Count(cutOvers, id)
    /\ \A id \in dlq : Count(cutOvers, id) > 0

\* A domain's first snapshot is a full load, though the table is read before
\* the graph is written and other requests may commit meanwhile (AC-15).
FirstIsFullLoad == cutOvers # <<>> => cutOvers[1].changeType = "full-load"

\* What an ingest evicts is not retained under the same id, provided that no
\* producer repeats ids ("delete the evicted prior-previous graph data").
EvictedIsNotRetained ==
  \A i \in Ingesters : pc[i] = "evict" => found[i] \cap allSnapshotIds \subseteq Supplied

\* Documented: a new graph is "NOT yet current - invisible to readers" until
\* the cut-over (IngestionService), so that whoever queries for the current
\* stamp reads exactly the current snapshot's file, at any time.
CurrentIsWhole ==
  \A r \in rows : r.status = "current" =>
    Stamped(r.snap.id) = r.snap.nodes /\ Linked(r.snap.id) = r.snap.links

\* An ingest that had the graph to itself leaves a current snapshot that reads
\* back exactly as its file, before and after it deletes the evicted one.
SettledCurrentIsWhole ==
  ~disturbed /\ (\A i \in Ingesters : pc[i] \in {"idle", "evict", "emit", "record"})
    => CurrentIsWhole

\* The vertices of an evicted snapshot do not stay: somebody is about to
\* delete them, be it the request that evicted it or, after a crash, the reaper.
EvictedVerticesGo ==
  \A s \in Evicted : Stamped(s) # {} =>
    reaper # "done" \/ \E i \in Ingesters : pc[i] = "evict" /\ s \in found[i]

\* Every request is answered, if need be with an error: the waits for a rival's
\* rows, in cutOver and in recordEventId after it, end with the rival's
\* transaction (@Transactional, SnapshotMetadataService.cutOver).
RequestsFinish == \A i \in Ingesters : pc[i] # "idle" ~> pc[i] = "idle"
=============================================================================
