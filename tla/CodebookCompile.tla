-------------------------- MODULE CodebookCompile ---------------------------
(***************************************************************************)
(* The Codebook Generator: one compile per trails.built event.             *)
(*                                                                         *)
(* The service runs as a consumer group: its instances share the topic,    *)
(* and a partition of it belongs to one of them at a time.  One partition  *)
(* is modelled.  The deployment has three and the Trail Builder sets no    *)
(* key, so that two instances may also work on one snapshot while each     *)
(* owns its message; here they do so because an instance that compiles for *)
(* too long loses the partition and goes on compiling.  Offsets are kept   *)
(* per partition, so what is said of skipping is said of each.  They are   *)
(* committed by hand after the handler returns.  The store transaction is  *)
(* modelled statement by statement, at READ COMMITTED.                     *)
(*                                                                         *)
(* One domain is modelled, and the messages of the topic are given: two    *)
(* of them may carry one event (Kafka may duplicate what the Trail Builder *)
(* sends) and two events one snapshot (it may build a snapshot again).     *)
(* What a codebook says is left out; Outcome says whether it compiles.     *)
(***************************************************************************)
EXTENDS Integers, Sequences, FiniteSets

CONSTANTS Instances,     \* processes of the consumer group
          Events,        \* envelope event ids
          Snapshots,     \* snapshot ids
          Messages,      \* the topic: the event and snapshot of each message
          Outcome,       \* how handling an event turns out, see below
          Faults,        \* what may go wrong: "broker", "database", "offset"
          NoInstance,    \* the partition belongs to nobody
          MaxFailures,   \* bound: crashes, and faults that end an instance
          MaxRebalances  \* bound: partitions taken from a slow instance

\* "compiles": a codebook results.  "malformed": the message cannot be read.
\* "rejected": Knowledge, Topology or the Trail Builder fails, or a token is
\* not in the vocabulary.  "raises": any other exception, such as a fault
\* origin without an alarm type (PropagationError).
Outcomes == {"compiles", "malformed", "rejected", "raises"}

ASSUME MessagesAssumption == Messages \in Seq([event : Events, snap : Snapshots])
ASSUME EventsAssumption ==
  /\ \A m, n \in DOMAIN Messages :
       Messages[m].event = Messages[n].event => Messages[m].snap = Messages[n].snap
  /\ Outcome \in [Events -> Outcomes]
ASSUME NoInstanceAssumption == NoInstance \notin Instances
ASSUME BoundsAssumption     == {MaxFailures, MaxRebalances} \subseteq Nat

VARIABLES
  owner,       \* the instance the partition is assigned to
  position,    \* messages the owner has polled
  committed,   \* the group's committed offset
  up,          \* the instances that run
  pc, msg,     \* each instance's place in the code and the message it handles
  book,        \* the codebook id it minted, or found as the event's prior one
  target,      \* the active codebooks its UPDATE found
  codebooks,   \* committed rows of codebook.codebooks
  active,      \* those with active = TRUE
  minted,      \* codebook ids minted so far
  announced,   \* codebook.generated: the ids announced
  announceDlq, \* codebook.generated.dlq
  dlq,         \* trails.built.dlq: messages
  lost,        \* ghost: messages whose announcement or DLQ copy the broker lost
  failures, rebalances

groupVars == <<owner, position, committed>>
localVars == <<msg, book, target>>
storeVars == <<codebooks, active>>
topicVars == <<announced, announceDlq, dlq, lost>>
bounds    == <<failures, rebalances>>
vars == <<groupVars, up, pc, localVars, storeVars, minted, topicVars, bounds>>

Codebook == [id : 1 .. minted, event : Events, snap : Snapshots]
Phases == {"idle", "handle", "compile", "demote", "wait", "insert", "commit", "emit",
           "ack"}

EventOf(i)    == Messages[msg[i]].event
SnapshotOf(i) == Messages[msg[i]].snap

\* processed_events has a row for an event exactly if a codebook has: both
\* are inserted by the one transaction that writes either.
already_processed(e) == {c.id : c \in {x \in codebooks : x.event = e}}
get_active(s)        == {c.id : c \in {x \in codebooks : x.snap = s}} \cap active

Goto(i, phase) == pc' = [pc EXCEPT ![i] = phase]

Init ==
  /\ owner = NoInstance /\ position = 0 /\ committed = 0
  /\ up = Instances
  /\ pc = [i \in Instances |-> "idle"]
  /\ msg = [i \in Instances |-> 0]
  /\ book = [i \in Instances |-> 0]
  /\ target = [i \in Instances |-> {}]
  /\ codebooks = {} /\ active = {} /\ minted = 0
  /\ announced = {} /\ announceDlq = {} /\ dlq = {} /\ lost = {}
  /\ failures = 0 /\ rebalances = 0

-----------------------------------------------------------------------------
(* Instances and the group.                                                *)

Forget(i) ==
  /\ Goto(i, "idle")
  /\ msg' = [msg EXCEPT ![i] = 0]
  /\ book' = [book EXCEPT ![i] = 0]
  /\ target' = [target EXCEPT ![i] = {}]

\* An instance ends: its transaction rolls back and it leaves the group.
Exit(i) ==
  /\ up' = up \ {i}
  /\ Forget(i)
  /\ owner' = IF owner = i THEN NoInstance ELSE owner
  /\ UNCHANGED <<position, committed, storeVars, minted, topicVars, rebalances>>

\* An exception leaves the consumer loop: close() commits nothing.
Raise(i) == Exit(i) /\ UNCHANGED failures

\* An instance ends at a fault, or is killed.
Fail(i) ==
  /\ failures < MaxFailures
  /\ failures' = failures + 1
  /\ Exit(i)

Crash(i) == i \in up /\ Fail(i)

Start(i) ==
  /\ i \notin up /\ up' = up \cup {i}
  /\ UNCHANGED <<groupVars, pc, localVars, storeVars, minted, topicVars, bounds>>

\* Mutant: auto.offset.reset is latest, and there is no committed offset.
Assign_Latest(i) ==
  /\ owner = NoInstance /\ i \in up /\ pc[i] = "idle"
  /\ owner' = i /\ position' = Len(Messages)
  /\ UNCHANGED <<committed, up, pc, localVars, storeVars, minted, topicVars, bounds>>

\* The partition goes to an instance that polls, from the committed offset.
Assign(i) ==
  /\ owner = NoInstance /\ i \in up /\ pc[i] = "idle"
  /\ owner' = i /\ position' = committed
  /\ UNCHANGED <<committed, up, pc, localVars, storeVars, minted, topicVars, bounds>>

\* The owner has not polled for max.poll.interval.ms.
Expel ==
  /\ owner # NoInstance /\ pc[owner] # "idle" /\ rebalances < MaxRebalances
  /\ rebalances' = rebalances + 1
  /\ owner' = NoInstance
  /\ UNCHANGED <<position, committed, up, pc, localVars, storeVars, minted, topicVars,
                 failures>>

-----------------------------------------------------------------------------
(* The consumer loop and TrailsBuiltHandler.handle.                        *)

\* Mutant: The offset is committed before the message is handled.
poll_CommitsFirst(i) ==
  /\ owner = i /\ pc[i] = "idle" /\ position < Len(Messages)
  /\ position' = position + 1
  /\ committed' = position + 1
  /\ msg' = [msg EXCEPT ![i] = position + 1]
  /\ Goto(i, "handle")
  /\ UNCHANGED <<owner, up, book, target, storeVars, minted, topicVars, bounds>>

poll(i) ==
  /\ owner = i /\ pc[i] = "idle" /\ position < Len(Messages)
  /\ position' = position + 1
  /\ msg' = [msg EXCEPT ![i] = position + 1]
  /\ Goto(i, "handle")
  /\ UNCHANGED <<owner, committed, up, book, target, storeVars, minted, topicVars, bounds>>

\* DlqRouter.route: a failure is logged and the handler returns all the same.
route(i) ==
  /\ \/ dlq' = dlq \cup {msg[i]} /\ UNCHANGED lost
     \/ "broker" \in Faults /\ lost' = lost \cup {msg[i]} /\ UNCHANGED dlq
  /\ Goto(i, "ack")
  /\ UNCHANGED <<groupVars, up, localVars, storeVars, minted, announced, announceDlq, bounds>>

\* Deserialize and look the event up: a known one is announced again.  The read
\* of its row that fills the announcement is left out: rows are never deleted.
handle(i) ==
  /\ pc[i] = "handle"
  /\ LET prior == already_processed(EventOf(i)) IN
       \/ Outcome[EventOf(i)] = "malformed" /\ route(i)
       \/ /\ Outcome[EventOf(i)] # "malformed"
          /\ \/ /\ prior # {}
                /\ \E c \in prior : book' = [book EXCEPT ![i] = c]
                /\ Goto(i, "emit")
             \/ /\ prior = {} /\ Goto(i, "compile")
                /\ UNCHANGED book
          /\ UNCHANGED <<groupVars, up, msg, target, storeVars, minted, topicVars, bounds>>

\* Fetch, propagate, tag, validate; then mint the codebook's id.
compile(i) ==
  /\ pc[i] = "compile"
  /\ \/ Outcome[EventOf(i)] = "rejected" /\ route(i)
     \/ Outcome[EventOf(i)] = "raises" /\ Raise(i)
     \/ /\ Outcome[EventOf(i)] = "compiles"
        /\ minted' = minted + 1
        /\ book' = [book EXCEPT ![i] = minted + 1]
        /\ Goto(i, "demote")
        /\ UNCHANGED <<groupVars, up, msg, target, storeVars, topicVars, bounds>>

-----------------------------------------------------------------------------
(* CodebookStore.persist_codebook: one transaction.                        *)

\* j's transaction has locked the rows it demoted; from its first INSERT to
\* its end it has an uncommitted active codebook of its snapshot.
Locks(j)     == IF pc[j] \in {"insert", "commit"} THEN target[j] ELSE {}
Inserting(j) == pc[j] = "commit"

\* UPDATE ... SET active = FALSE: locks the active row its snapshot shows, or
\* waits for the transaction that has it locked ...
demote(i) ==
  /\ pc[i] = "demote"
  /\ target' = [target EXCEPT ![i] = get_active(SnapshotOf(i))]
  /\ Goto(i, IF \E j \in Instances \ {i} : Locks(j) \cap get_active(SnapshotOf(i)) # {}
             THEN "wait" ELSE "insert")
  /\ UNCHANGED <<groupVars, up, msg, book, storeVars, minted, topicVars, bounds>>

\* ... and evaluates the WHERE clause again on that row only.
resumeDemote(i) ==
  /\ pc[i] = "wait" /\ \A j \in Instances \ {i} : Locks(j) \cap target[i] = {}
  /\ target' = [target EXCEPT ![i] = @ \cap active]
  /\ Goto(i, "insert")
  /\ UNCHANGED <<groupVars, up, msg, book, storeVars, minted, topicVars, bounds>>

\* INSERT the codebook, its scenarios and the processed event: the partial
\* index on active codebooks and the key of processed_events refuse a second
\* one, after waiting for a rival that has inserted its own.
Refused(i) ==
  \/ get_active(SnapshotOf(i)) \ target[i] # {}
  \/ already_processed(EventOf(i)) # {}

\* Mutant: processed_events has no key.
insert_NoEventKey(i) ==
  /\ pc[i] = "insert"
  /\ ~ \E j \in Instances \ {i} : Inserting(j) /\ SnapshotOf(j) = SnapshotOf(i)
  /\ \/ get_active(SnapshotOf(i)) \ target[i] # {} /\ Raise(i)
     \/ /\ get_active(SnapshotOf(i)) \ target[i] = {} /\ Goto(i, "commit")
        /\ UNCHANGED <<groupVars, up, localVars, storeVars, minted, topicVars, bounds>>

\* Mutant: The event is sent before the transaction commits.
insert_EmitsInTx(i) ==
  /\ pc[i] = "insert"
  /\ ~ \E j \in Instances \ {i} : Inserting(j) /\ SnapshotOf(j) = SnapshotOf(i)
  /\ \/ Refused(i) /\ Raise(i)
     \/ /\ ~Refused(i) /\ Goto(i, "commit")
        /\ announced' = announced \cup {book[i]}
        /\ UNCHANGED <<groupVars, up, localVars, storeVars, minted, announceDlq, dlq, lost, bounds>>

insert(i) ==
  /\ pc[i] = "insert"
  /\ ~ \E j \in Instances \ {i} : Inserting(j) /\ SnapshotOf(j) = SnapshotOf(i)
  /\ \/ Refused(i) /\ Raise(i)
     \/ /\ ~Refused(i) /\ Goto(i, "commit")
        /\ UNCHANGED <<groupVars, up, localVars, storeVars, minted, topicVars, bounds>>

\* Mutant: The prior codebook stays active.
commit_KeepsPrior(i) ==
  /\ pc[i] = "commit"
  /\ codebooks' = codebooks \cup
       {[id |-> book[i], event |-> EventOf(i), snap |-> SnapshotOf(i)]}
  /\ active' = active \cup {book[i]}
  /\ Goto(i, "emit")
  /\ UNCHANGED <<groupVars, up, localVars, minted, topicVars, bounds>>

commit(i) ==
  /\ pc[i] = "commit"
  /\ codebooks' = codebooks \cup
       {[id |-> book[i], event |-> EventOf(i), snap |-> SnapshotOf(i)]}
  /\ active' = (active \ target[i]) \cup {book[i]}
  /\ Goto(i, "emit")
  /\ UNCHANGED <<groupVars, up, localVars, minted, topicVars, bounds>>

databaseFails(i) ==
  /\ "database" \in Faults
  /\ pc[i] \in {"handle", "demote", "wait", "insert", "commit"}
  /\ Outcome[EventOf(i)] # "malformed"
  /\ Fail(i)

-----------------------------------------------------------------------------
\* produce() and flush(): the codebook is announced; or the broker cannot be
\* reached, which neither call reports; or produce() raises, and the message
\* goes to the DLQ, where produce() may raise again.
emit(i) ==
  /\ pc[i] = "emit"
  /\ \/ /\ \/ announced' = announced \cup {book[i]} /\ UNCHANGED <<announceDlq, lost>>
           \/ /\ "broker" \in Faults
              /\ lost' = lost \cup {msg[i]}
              /\ UNCHANGED <<announced, announceDlq>>
           \/ /\ "broker" \in Faults
              /\ announceDlq' = announceDlq \cup {book[i]}
              /\ UNCHANGED <<announced, lost>>
        /\ Goto(i, "ack")
        /\ UNCHANGED <<groupVars, up, localVars, storeVars, minted, dlq, bounds>>
     \/ "broker" \in Faults /\ Fail(i)

\* consumer.commit(msg) does not wait for the group's answer, which refuses
\* an instance that no longer owns the partition.
ack(i) ==
  /\ pc[i] = "ack"
  /\ \/ /\ owner = i /\ committed' = msg[i]
     \/ /\ owner # i \/ "offset" \in Faults
        /\ UNCHANGED committed
  /\ Forget(i)
  /\ UNCHANGED <<owner, position, up, storeVars, minted, topicVars, bounds>>

-----------------------------------------------------------------------------
Step(i) ==
  \/ poll(i) \/ handle(i) \/ compile(i) \/ demote(i) \/ resumeDemote(i) \/ insert(i)
  \/ commit(i) \/ emit(i) \/ ack(i)

Next ==
  \/ \E i \in Instances : Step(i) \/ Assign(i) \/ databaseFails(i) \/ Crash(i) \/ Start(i)
  \/ Expel

\* Processes run, the store answers and the group assigns its partition;
\* nobody has to start an instance that ended (docker-compose.yml restarts
\* none), and nothing has to fail.
Fairness == \A i \in Instances : WF_vars(Step(i)) /\ WF_vars(Assign(i))

Spec     == Init /\ [][Next]_vars
FairSpec == Spec /\ Fairness
-----------------------------------------------------------------------------
(* Properties.                                                             *)

\* Every variable holds a value of its kind; offsets never pass the position.
TypeOK ==
  /\ owner \in Instances \cup {NoInstance}
  /\ position \in 0 .. Len(Messages) /\ committed \in 0 .. position
  /\ up \subseteq Instances
  /\ pc \in [Instances -> Phases]
  /\ msg \in [Instances -> 0 .. Len(Messages)]
  /\ minted \in Nat
  /\ book \in [Instances -> 0 .. minted]
  /\ target \in [Instances -> SUBSET (1 .. minted)]
  /\ codebooks \subseteq Codebook
  /\ active \subseteq 1 .. minted
  /\ announced \subseteq 1 .. minted /\ announceDlq \subseteq 1 .. minted
  /\ dlq \subseteq DOMAIN Messages /\ lost \subseteq DOMAIN Messages
  /\ failures \in 0 .. MaxFailures /\ rebalances \in 0 .. MaxRebalances

\* A snapshot that has a codebook has exactly one active codebook, whatever
\* instances compile for it at once (demote and insert of persist_codebook).
OneActive ==
  \A s \in Snapshots :
    (\E c \in codebooks : c.snap = s) => Cardinality(get_active(s)) = 1

\* However often an event is delivered, and to however many instances, it
\* yields one codebook at most ("idempotent on event_id").
CompiledOnce == \A c, d \in codebooks : c.event = d.event => c = d

\* Nobody is told of a codebook that cannot be fetched.
AnnouncedIsStored == announced \cup announceDlq \subseteq {c.id : c \in codebooks}

\* What became of a message: its codebook is announced, or it is on the DLQ,
\* or the broker lost the one or the other.
Settled(n) ==
  \/ n \in dlq \cup lost
  \/ \E c \in codebooks : c.event = Messages[n].event /\ c.id \in announced \cup announceDlq

\* The offset passes no message that is not settled ("commits the offset only
\* after a successful compile"), though instances die and lose the partition.
NothingIsSkipped == \A n \in 1 .. committed : Settled(n)

\* Every message is settled, or no instance is left.
EventuallySettled == <>(up = {} \/ \A n \in DOMAIN Messages : Settled(n))
=============================================================================
