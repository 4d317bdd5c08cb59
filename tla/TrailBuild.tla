----------------------------- MODULE TrailBuild -----------------------------
(***************************************************************************)
(* The Trail Builder: topology.changed messages and POST /trails/rebuild   *)
(* requests start builds, which read the graph from Topology, replace a    *)
(* snapshot's trails in Postgres and announce them on trails.built.        *)
(*                                                                         *)
(* The consumer is one daemon thread that polls Kafka with automatic       *)
(* offset commits; every rebuild request has a thread of its own.  Both    *)
(* run BuildService.build.  The store transaction is modelled statement by *)
(* statement, at READ COMMITTED.                                           *)
(*                                                                         *)
(* One domain is modelled.  Snapshots are numbered in the order Topology   *)
(* cuts over to them, and Topology sends one event per snapshot, whose     *)
(* event id the model identifies with the snapshot.  What a build computes *)
(* is a function of the snapshots whose graph its slice was read from, and *)
(* a trail's id one of its snapshot and its members: builds of a snapshot  *)
(* that read different graphs mint the ids of what these have in common.   *)
(* A trail is stored with its members in one step.                         *)
(***************************************************************************)
EXTENDS Integers, Sequences, FiniteSets, FiniteSetsExt

CONSTANTS Consumer,      \* the thread that polls topology.changed
          Rebuilders,    \* threads that serve POST /trails/rebuild
          Retention,     \* TRAIL_RETENTION_SNAPSHOTS
          Trails,        \* the sets of members a trail may have
          TrailsOf,      \* the trails of a slice, by the snapshots it was read from
          Faults,        \* what may go wrong: "integration", "exception",
                         \* "broker", "mark", "dlq"
          Backlog,       \* bound: the unreadable messages, ahead of all events
          MaxSnapshots,  \* bound: cut-overs in Topology
          MaxRebuilds,   \* bound: no rebuild starts once so many builds ran
          MaxCrashes     \* bound: process restarts

Builders == {Consumer} \cup Rebuilders

\* Requests are served by a pool of threads.
ASSUME BuildersAssumption  == Consumer \notin Rebuilders /\ IsFiniteSet(Rebuilders)
ASSUME RetentionAssumption == Retention \in Nat \ {0}
ASSUME BacklogAssumption   == Backlog \in Seq({0})
ASSUME BoundsAssumption    ==
  {MaxSnapshots, MaxRebuilds, MaxCrashes} \subseteq Nat
ASSUME TrailsAssumption    == TrailsOf \in [SUBSET (1 .. MaxSnapshots) -> Seq(Trails)]

VARIABLES
  current,    \* Topology's current snapshot
  unsent,     \* snapshots whose topology.changed event is not sent yet
  topic,      \* topology.changed: snapshot numbers, 0 for poison
  polled,     \* messages the consumer's position has passed
  committed,  \* messages its committed offset has passed
  alive,      \* whether the consumer thread runs
  processed,  \* rows of processed_event
  dlq,        \* messages produced to topology.changed.dlq
  store,      \* the committed trails: snapshot, built_at, graphs read, members
  out,        \* the snapshots announced on trails.built
  clock,      \* build timestamps handed out
  pc, snap,   \* each builder's place in the code and its snapshot
  seen,       \* the snapshots its slice was read from
  at,         \* its built_at
  todo,       \* the trails it has computed and not inserted yet
  target,     \* the rows its running DELETE found and has not locked yet
  dropped,    \* the rows its transaction has deleted
  mine,       \* the rows its transaction has inserted
  stale,      \* the snapshots its transaction is pruning
  crashes,    \* restarts so far
  persisted,  \* history: snapshots whose build was ever committed
  lost,       \* history: snapshots whose announcement the broker ever lost
  held,       \* history: snapshots whose build was ever held
  overlapped  \* history: whether a build was ever committed during another

topologyVars == <<current, unsent>>
kafkaVars    == <<polled, committed, alive>>
txVars       == <<todo, target, dropped, mine, stale>>
history      == <<persisted, lost, held, overlapped>>
vars == <<current, unsent, topic, polled, committed, alive, processed, dlq, store,
          out, clock, pc, snap, seen, at, txVars, crashes, history>>

Snapshots == 1 .. MaxSnapshots
Row == [snap : Snapshots, at : Nat \ {0}, read : SUBSET Snapshots, trail : Trails]
TxPhases == {"supersede", "insert", "prune", "commit"}
BuildPhases == {"policy", "slice"} \cup TxPhases \cup {"emit"}
Phases == {"idle", "seen", "mark"} \cup BuildPhases

Goto(b, phase) == pc' = [pc EXCEPT ![b] = phase]

Init ==
  /\ current = 0 /\ unsent = {} /\ topic = Backlog
  /\ polled = 0 /\ committed = 0 /\ alive = TRUE
  /\ processed = {} /\ dlq = {} /\ store = {} /\ out = {} /\ clock = 0
  /\ pc = [b \in Builders |-> "idle"]
  /\ snap = [b \in Builders |-> 0]
  /\ seen = [b \in Builders |-> {}]
  /\ at = [b \in Builders |-> 0]
  /\ todo = [b \in Builders |-> <<>>]
  /\ target = [b \in Builders |-> {}]
  /\ dropped = [b \in Builders |-> {}]
  /\ mine = [b \in Builders |-> {}]
  /\ stale = [b \in Builders |-> {}]
  /\ crashes = 0 /\ persisted = {} /\ lost = {} /\ held = {} /\ overlapped = FALSE

-----------------------------------------------------------------------------
(* Topology and the topic.                                                 *)

\* Topology cuts over to its next snapshot; the event is sent afterwards.
CutOver ==
  /\ current < MaxSnapshots
  /\ current' = current + 1
  /\ unsent' = unsent \cup {current + 1}
  /\ UNCHANGED <<topic, polled, committed, alive, processed, dlq, store, out, clock,
                 pc, snap, seen, at, txVars, crashes, history>>

\* Requests in Topology announce their snapshots in any order.
Announce ==
  /\ \E s \in unsent : unsent' = unsent \ {s} /\ topic' = Append(topic, s)
  /\ UNCHANGED <<current, polled, committed, alive, processed, dlq, store, out,
                 clock, pc, snap, seen, at, txVars, crashes, history>>

-----------------------------------------------------------------------------
(* How a build ends.                                                       *)

\* The locals of a build go, and with them its transaction.
Forget(b) ==
  /\ snap' = [snap EXCEPT ![b] = 0]
  /\ seen' = [seen EXCEPT ![b] = {}]
  /\ at' = [at EXCEPT ![b] = 0]
  /\ todo' = [todo EXCEPT ![b] = <<>>]
  /\ target' = [target EXCEPT ![b] = {}]
  /\ dropped' = [dropped EXCEPT ![b] = {}]
  /\ mine' = [mine EXCEPT ![b] = {}]
  /\ stale' = [stale EXCEPT ![b] = {}]

Return(b) == Goto(b, "idle") /\ Forget(b)

\* Mutant: A failed call returns without its rollback.
Fail_NoRollback(b) ==
  /\ Goto(b, "idle")
  /\ IF b = Consumer THEN alive' = FALSE /\ committed' = polled
                     ELSE UNCHANGED <<alive, committed>>
  /\ UNCHANGED <<current, unsent, topic, polled, processed, dlq, store, out, clock,
                 snap, seen, at, txVars, crashes, history>>

\* An exception that handle() does not catch ends the consumer thread, whose
\* consumer.close() commits the offset; in a request it is a 500.
Fail(b) ==
  /\ Return(b)
  /\ IF b = Consumer THEN alive' = FALSE /\ committed' = polled
                     ELSE UNCHANGED <<alive, committed>>
  /\ UNCHANGED <<current, unsent, topic, polled, processed, dlq, store, out, clock,
                 crashes, history>>

\* The process dies and starts again: the thread goes back to its offset.
Crash ==
  /\ crashes < MaxCrashes
  /\ crashes' = crashes + 1
  /\ polled' = committed /\ alive' = TRUE
  /\ pc' = [b \in Builders |-> "idle"]
  /\ snap' = [b \in Builders |-> 0]
  /\ seen' = [b \in Builders |-> {}]
  /\ at' = [b \in Builders |-> 0]
  /\ todo' = [b \in Builders |-> <<>>]
  /\ target' = [b \in Builders |-> {}]
  /\ dropped' = [b \in Builders |-> {}]
  /\ mine' = [b \in Builders |-> {}]
  /\ stale' = [b \in Builders |-> {}]
  /\ UNCHANGED <<current, unsent, topic, committed, processed, dlq, store, out,
                 clock, history>>

-----------------------------------------------------------------------------
(* The consumer loop and the handler.                                      *)

\* Mutant: The last message stays on the topic.
poll_LeavesLast ==
  /\ alive /\ pc[Consumer] = "idle" /\ polled + 1 < Len(topic)
  /\ polled' = polled + 1
  /\ LET s == topic[polled + 1] IN
       \/ /\ s = 0 /\ dlq' = dlq \cup {polled + 1}
          /\ UNCHANGED <<pc, snap>>
       \/ /\ s # 0 /\ Goto(Consumer, "seen")
          /\ snap' = [snap EXCEPT ![Consumer] = s]
          /\ UNCHANGED dlq
  /\ UNCHANGED <<current, unsent, topic, committed, alive, processed, store, out,
                 clock, seen, at, txVars, crashes, history>>

\* poll() hands out the next message.  An unreadable one is produced to the DLQ.
poll ==
  /\ alive /\ pc[Consumer] = "idle" /\ polled < Len(topic)
  /\ polled' = polled + 1
  /\ LET s == topic[polled + 1] IN
       \/ /\ s = 0 /\ dlq' = dlq \cup {polled + 1}
          /\ UNCHANGED <<pc, snap>>
       \/ /\ s # 0 /\ Goto(Consumer, "seen")
          /\ snap' = [snap EXCEPT ![Consumer] = s]
          /\ UNCHANGED dlq
  /\ UNCHANGED <<current, unsent, topic, committed, alive, processed, store, out,
                 clock, seen, at, txVars, crashes, history>>

\* An unreadable message cannot be produced to the DLQ: the thread ends, and
\* its consumer.close() commits the offset.
_to_dlq_raises ==
  /\ "dlq" \in Faults
  /\ alive /\ pc[Consumer] = "idle" /\ polled < Len(topic) /\ topic[polled + 1] = 0
  /\ polled' = polled + 1 /\ committed' = polled + 1 /\ alive' = FALSE
  /\ UNCHANGED <<current, unsent, topic, processed, dlq, store, out, clock, pc, snap,
                 seen, at, txVars, crashes, history>>

\* The client commits in the background whatever poll() has handed out, the
\* message being handled included.
autoCommit ==
  /\ alive /\ committed # polled /\ committed' = polled
  /\ UNCHANGED <<current, unsent, topic, polled, alive, processed, dlq, store, out,
                 clock, pc, snap, seen, at, txVars, crashes, history>>

\* Mutant: The event is marked before it is built.
dedupe_MarksFirst ==
  /\ pc[Consumer] = "seen"
  /\ \/ /\ snap[Consumer] \in processed /\ Return(Consumer)
        /\ UNCHANGED processed
     \/ /\ snap[Consumer] \notin processed /\ Goto(Consumer, "policy")
        /\ processed' = processed \cup {snap[Consumer]}
        /\ UNCHANGED <<snap, seen, at, txVars>>
  /\ UNCHANGED <<current, unsent, topic, polled, committed, alive, dlq, store, out,
                 clock, crashes, history>>

\* Mutant: Processed events are not looked up.
dedupe_Never ==
  /\ pc[Consumer] = "seen" /\ Goto(Consumer, "policy")
  /\ UNCHANGED <<current, unsent, topic, polled, committed, alive, processed, dlq,
                 store, out, clock, snap, seen, at, txVars, crashes, history>>

\* A processed event is ignored, any other starts a build.
dedupe ==
  /\ pc[Consumer] = "seen"
  /\ \/ /\ snap[Consumer] \in processed /\ Return(Consumer)
     \/ /\ snap[Consumer] \notin processed /\ Goto(Consumer, "policy")
        /\ UNCHANGED <<snap, seen, at, txVars>>
  /\ UNCHANGED <<current, unsent, topic, polled, committed, alive, processed, dlq,
                 store, out, clock, crashes, history>>

\* mark_processed: any failure of the insert is swallowed.
mark_processed ==
  /\ pc[Consumer] = "mark"
  /\ \/ processed' = processed \cup {snap[Consumer]}
     \/ "mark" \in Faults /\ UNCHANGED processed
  /\ Return(Consumer)
  /\ UNCHANGED <<current, unsent, topic, polled, committed, alive, dlq, store, out,
                 clock, crashes, history>>

\* POST /trails/rebuild for a snapshot Topology has had.
rebuild(b) ==
  /\ b \in Rebuilders /\ pc[b] = "idle" /\ clock < MaxRebuilds
  /\ \E s \in 1 .. current : snap' = [snap EXCEPT ![b] = s]
  /\ Goto(b, "policy")
  /\ UNCHANGED <<current, unsent, topic, polled, committed, alive, processed, dlq,
                 store, out, clock, seen, at, txVars, crashes, history>>

-----------------------------------------------------------------------------
(* BuildService.build: read, compute.                                      *)

get_policy(b) ==
  /\ pc[b] = "policy" /\ Goto(b, "slice")
  /\ UNCHANGED <<current, unsent, topic, polled, committed, alive, processed, dlq,
                 store, out, clock, snap, seen, at, txVars, crashes, history>>

\* Mutant: The slice is the previous snapshot's.
fetch_slice_Previous(b) ==
  /\ pc[b] = "slice"
  /\ seen' = [seen EXCEPT ![b] = @ \cup ({current - 1} \cap Snapshots)]
  /\ UNCHANGED <<current, unsent, topic, polled, committed, alive, processed, dlq,
                 store, out, clock, pc, snap, at, txVars, crashes, history>>

\* A request, whichever it is: Topology answers from its current snapshot.
_get(b) == seen' = [seen EXCEPT ![b] = @ \cup {current}]

\* One of fetch_slice's requests: the nodes of a type, or what is around one.
fetch_slice(b) ==
  /\ pc[b] = "slice" /\ _get(b)
  /\ UNCHANGED <<current, unsent, topic, polled, committed, alive, processed, dlq,
                 store, out, clock, pc, snap, at, txVars, crashes, history>>

\* The slice is complete; trails are computed and stamped with the time.
compute(b) ==
  /\ pc[b] = "slice" /\ seen[b] # {}
  /\ clock' = clock + 1
  /\ at' = [at EXCEPT ![b] = clock + 1]
  /\ todo' = [todo EXCEPT ![b] = TrailsOf[seen[b]]]
  /\ Goto(b, "supersede")
  /\ UNCHANGED <<current, unsent, topic, polled, committed, alive, processed, dlq,
                 store, out, snap, seen, target, dropped, mine, stale, crashes, history>>

\* Topology or Knowledge does not answer: the consumer holds the build, which
\* means that it goes on to the next message; a request answers 502.
dependencyFails(b) ==
  /\ "integration" \in Faults /\ pc[b] \in {"policy", "slice"}
  /\ Return(b)
  /\ held' = IF b = Consumer THEN held \cup {snap[b]} ELSE held
  /\ UNCHANGED <<current, unsent, topic, polled, committed, alive, processed, dlq,
                 store, out, clock, crashes, persisted, lost, overlapped>>

-----------------------------------------------------------------------------
(* TrailRepository.persist_build: one transaction.                         *)

\* The row of the trail whose turn it is.
TheRow(b)  == [snap |-> snap[b], at |-> at[b], read |-> seen[b], trail |-> Head(todo[b])]
\* What a statement of b's transaction can see.
Visible(b) == (store \ dropped[b]) \cup mine[b]

\* Rows whose trail id b's next insert repeats: the digest of the snapshot and
\* the members.
Repeated(b, rows) == {r \in rows : r.snap = snap[b] /\ r.trail = Head(todo[b])}

\* The builders whose transactions b's statement may have to wait for.
Blockers(b) ==
  {j \in Builders \ {b} :
     \/ dropped[j] \cap target[b] # {}
     \/ /\ pc[b] = "insert" /\ target[b] = {} /\ todo[b] # <<>>
        /\ Repeated(b, mine[j] \cup (dropped[j] \ dropped[b])) # {}}

\* DELETE the trails of the same snapshot: the rows it finds.
supersede(b) ==
  /\ pc[b] = "supersede"
  /\ target' = [target EXCEPT ![b] = {r \in store : r.snap = snap[b]}]
  /\ Goto(b, "insert")
  /\ UNCHANGED <<current, unsent, topic, polled, committed, alive, processed, dlq,
                 store, out, clock, snap, seen, at, todo, dropped, mine, stale,
                 crashes, history>>

\* Before the next statement, a DELETE locks the rows it found one by one, waiting
\* for whoever else deletes them; one that is gone by then is passed over.
deleteRow(b) ==
  /\ \E r \in target[b] :
       /\ \A j \in Builders \ {b} : r \notin dropped[j]
       /\ target' = [target EXCEPT ![b] = @ \ {r}]
       /\ dropped' = [dropped EXCEPT ![b] = @ \cup ({r} \cap store)]
  /\ UNCHANGED <<current, unsent, topic, polled, committed, alive, processed, dlq,
                 store, out, clock, pc, snap, seen, at, todo, mine, stale, crashes,
                 history>>

\* INSERT the new trails one by one; their ids are a primary key.
insert(b) ==
  /\ pc[b] = "insert" /\ target[b] = {} /\ todo[b] # <<>> /\ Blockers(b) = {}
  /\ \/ /\ Repeated(b, store \ dropped[b]) # {}
        /\ Fail(b)
     \/ /\ Repeated(b, store \ dropped[b]) = {}
        /\ mine' = [mine EXCEPT ![b] = @ \cup {TheRow(b)}]
        /\ todo' = [todo EXCEPT ![b] = Tail(@)]
        /\ UNCHANGED <<current, unsent, topic, polled, committed, alive, processed,
                       dlq, store, out, clock, pc, snap, seen, at, target, dropped,
                       stale, crashes, history>>

\* The snapshots beyond the most recently built ones.
_prune_old_snapshots(rows, keep) ==
  LET BuiltAt(s) == Max({r.at : r \in {x \in rows : x.snap = s}})
      All == {r.snap : r \in rows} IN
    {s \in All : Cardinality({t \in All : BuiltAt(t) > BuiltAt(s)}) >= keep}

\* Mutant: One snapshot too many is retained.
select_OneMore(b) ==
  /\ pc[b] = "insert" /\ target[b] = {} /\ todo[b] = <<>>
  /\ stale' = [stale EXCEPT ![b] = _prune_old_snapshots(Visible(b), Retention + 1)]
  /\ Goto(b, "prune")
  /\ UNCHANGED <<current, unsent, topic, polled, committed, alive, processed, dlq,
                 store, out, clock, snap, seen, at, todo, target, dropped, mine,
                 crashes, history>>

select(b) ==
  /\ pc[b] = "insert" /\ target[b] = {} /\ todo[b] = <<>>
  /\ stale' = [stale EXCEPT ![b] = _prune_old_snapshots(Visible(b), Retention)]
  /\ Goto(b, "prune")
  /\ UNCHANGED <<current, unsent, topic, polled, committed, alive, processed, dlq,
                 store, out, clock, snap, seen, at, todo, target, dropped, mine,
                 crashes, history>>

\* DELETE them; the build's own trails may be among them.
prune(b) ==
  /\ pc[b] = "prune"
  /\ target' = [target EXCEPT ![b] = {r \in store \ dropped[b] : r.snap \in stale[b]}]
  /\ mine' = [mine EXCEPT ![b] = {r \in @ : r.snap \notin stale[b]}]
  /\ stale' = [stale EXCEPT ![b] = {}]
  /\ Goto(b, "commit")
  /\ UNCHANGED <<current, unsent, topic, polled, committed, alive, processed, dlq,
                 store, out, clock, snap, seen, at, todo, dropped, crashes, history>>

commit(b) ==
  /\ pc[b] = "commit" /\ target[b] = {}
  /\ store' = Visible(b)
  /\ persisted' = persisted \cup {snap[b]}
  /\ overlapped' = (overlapped \/ \E j \in Builders \ {b} : pc[j] \in TxPhases)
  /\ dropped' = [dropped EXCEPT ![b] = {}]
  /\ mine' = [mine EXCEPT ![b] = {}]
  /\ Goto(b, "emit")
  /\ UNCHANGED <<current, unsent, topic, polled, committed, alive, processed, dlq,
                 out, clock, snap, seen, at, todo, target, stale, crashes, lost, held>>

\* Postgres cancels one of two transactions that wait for each other.
deadlockDetected(b) == (\E j \in Blockers(b) : b \in Blockers(j)) /\ Fail(b)

\* A statement fails, an answer of Knowledge or Topology cannot be decoded, or
\* the event cannot be produced.
raises(b) ==
  /\ "exception" \in Faults
  /\ pc[b] \in BuildPhases \cup {"seen"}
  /\ Fail(b)

-----------------------------------------------------------------------------
\* The event is produced and flushed for five seconds; whether it arrived is
\* not looked at.
emit(b) ==
  /\ pc[b] = "emit"
  /\ \/ out' = out \cup {snap[b]} /\ UNCHANGED lost
     \/ "broker" \in Faults /\ UNCHANGED out /\ lost' = lost \cup {snap[b]}
  /\ \/ b = Consumer /\ Goto(b, "mark") /\ UNCHANGED <<snap, seen, at, txVars>>
     \/ b # Consumer /\ Return(b)
  /\ UNCHANGED <<current, unsent, topic, polled, committed, alive, processed, dlq,
                 store, clock, crashes, persisted, held, overlapped>>

-----------------------------------------------------------------------------
Step(b) ==
  \/ get_policy(b) \/ fetch_slice(b) \/ compute(b) \/ supersede(b) \/ deleteRow(b)
  \/ insert(b) \/ select(b) \/ prune(b) \/ commit(b) \/ emit(b) \/ deadlockDetected(b)
Handle == poll \/ dedupe \/ mark_processed

Next ==
  \/ CutOver \/ Announce
  \/ Handle \/ _to_dlq_raises \/ autoCommit
  \/ \E b \in Builders : rebuild(b) \/ Step(b) \/ dependencyFails(b) \/ raises(b)
  \/ Crash

\* Threads run, the stores and services answer and the client commits its
\* offsets; no cut-over, request, fault or crash has to happen.  A slice is
\* finite: compute is fair beside fetch_slice.  A waiting statement is woken
\* whenever the transaction it waits for ends.
Fairness ==
  /\ WF_vars(Handle) /\ WF_vars(autoCommit) /\ WF_vars(Announce)
  /\ \A b \in Builders : SF_vars(Step(b)) /\ WF_vars(compute(b))

Spec     == Init /\ [][Next]_vars
FairSpec == Spec /\ Fairness
-----------------------------------------------------------------------------
(* Properties.                                                             *)

\* Every variable holds a value of its kind; offsets never pass the topic.
TypeOK ==
  /\ current \in 0 .. MaxSnapshots /\ unsent \subseteq Snapshots
  /\ topic \in Seq(0 .. MaxSnapshots)
  /\ polled \in 0 .. Len(topic) /\ committed \in 0 .. polled
  /\ alive \in BOOLEAN
  /\ processed \subseteq Snapshots /\ dlq \subseteq DOMAIN topic
  /\ store \subseteq Row /\ out \subseteq Snapshots /\ clock \in Nat
  /\ pc \in [Builders -> Phases]
  /\ snap \in [Builders -> 0 .. MaxSnapshots]
  /\ seen \in [Builders -> SUBSET Snapshots]
  /\ at \in [Builders -> Nat]
  /\ todo \in [Builders -> Seq(Trails)]
  /\ target \in [Builders -> SUBSET Row]
  /\ dropped \in [Builders -> SUBSET Row]
  /\ mine \in [Builders -> SUBSET Row]
  /\ stale \in [Builders -> SUBSET Snapshots]
  /\ crashes \in 0 .. MaxCrashes
  /\ persisted \subseteq Snapshots /\ lost \subseteq Snapshots /\ held \subseteq Snapshots
  /\ overlapped \in BOOLEAN

\* Nothing is marked processed or announced that was never stored, and a marked
\* event was announced, unless the broker lost the announcement: the flush that
\* would tell goes unread (TrailsBuiltPublisher.emit).
ClaimsAreBacked ==
  /\ processed \cup out \subseteq persisted
  /\ processed \subseteq out \cup lost

\* A processed event is not built again, however often Kafka redelivers it.
ProcessedIsNotRebuilt == pc[Consumer] \in BuildPhases => snap[Consumer] \notin processed

\* The store keeps to the retention window ("drop snapshots beyond the
\* retention window"), also after failed and repeated builds; it may hold one
\* snapshot more for every other builder only if transactions have overlapped,
\* since a pruning transaction does not see what others insert.
RetentionHolds ==
  Cardinality({r.snap : r \in store}) <=
    Retention + (IF overlapped THEN Cardinality(Builders) - 1 ELSE 0)

\* What an event's build reads from "current" is never older than the snapshot
\* it announces, so trails never miss the change they were triggered by.
SliceIsNotOlder == \A r \in store : \A s \in r.read : s >= r.snap

\* No build hangs, though builds wait for each other's locks, deadlock and fail: a
\* call that fails rolls its transaction back (engine.begin()).
BuildsFinish == \A b \in Builders : pc[b] # "idle" ~> pc[b] = "idle"

\* Every announced snapshot is taken off the topic, or the thread is gone.
EventsAreTaken ==
  \A s \in Snapshots : s \in unsent ~>
    ~alive \/ \E n \in 1 .. committed : topic[n] = s

\* Documented: a held event is not marked "so a redelivery retries"
\* (TopologyChangedHandler.handle).
HeldIsRetried == \A s \in Snapshots : s \in held ~> s \in processed
=============================================================================
