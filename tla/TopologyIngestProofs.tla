------------------------ MODULE TopologyIngestProofs ------------------------
(***************************************************************************)
(* Theorems about TopologyIngest, for any graph, any ids, any number of    *)
(* concurrent ingests and any faults that a theorem does not exclude.      *)
(*                                                                         *)
(* IInv is about the table: the domain keeps one current and at most one   *)
(* previous snapshot, the first one is a full load, and what is evicted is *)
(* not retained.  Told adds the events.  Stamps, Alone and Orphaned add    *)
(* the graph, which no transaction protects: they hold if no producer      *)
(* supplies ids, so that an id stamps what one ingest has written.         *)
(***************************************************************************)
EXTENDS TopologyIngest, FiniteSetTheorems, SequenceTheorems, TLAPS

Locking     == {"index", "insert", "commit"}
Pending     == {"write"} \cup TxPhases
AfterDelete == {"demote", "wait"} \cup Locking

\* The table: ids identify rows, and there is at most one row of each status.
TableOK ==
  /\ \A r, s \in rows : r.snap.id = s.snap.id => r = s
  /\ \A r, s \in rows : r.status = s.status => r = s
  /\ rows # {} => Ids("current") # {}
  /\ cutOvers = <<>> => rows = {}
  /\ cutOvers # <<>> => cutOvers[1].changeType = "full-load"
  /\ allSnapshotIds \cap Minted \subseteq minted

\* What a request relies on: the rows it holds stay as they were, what its
\* transaction has checked still holds when it commits, requests before the
\* first cut-over are full loads, a minted id it has not cut over to yet is in
\* nobody's row, and what it found previous is deleted with its own commit.
RequestOK(i) ==
  /\ gone[i] \subseteq allSnapshotIds
  /\ pc[i] \in Locking => target[i] \subseteq Ids("current")
  /\ pc[i] \in {"insert", "commit"} /\ target[i] # {} => Ids("previous") \subseteq gone[i]
  /\ pc[i] = "commit" => /\ req[i].id \notin allSnapshotIds \ gone[i]
                         /\ Ids("current") \subseteq gone[i] \cup target[i]
  /\ pc[i] # "idle" => req[i] \in Snapshot
  /\ cutOvers = <<>> => req[i].changeType = "full-load"
  /\ found[i] \cap Minted \subseteq minted
  /\ pc[i] \in Pending /\ req[i].id \in Minted =>
       req[i].id \in minted \ (allSnapshotIds \cup found[i])
  /\ pc[i] \in AfterDelete => found[i] \cap allSnapshotIds \cap Minted \subseteq gone[i]
  /\ pc[i] = "evict" => found[i] \cap allSnapshotIds \cap Minted = {}

\* What two requests leave each other: locks and the commit are exclusive, and
\* a minted id belongs to one of them.
Apart(i, j) ==
  /\ Holds(i) \cap Holds(j) = {}
  /\ ~(pc[i] = "commit" /\ pc[j] = "commit")
  /\ pc[i] \in Pending /\ req[i].id \in Minted =>
       /\ req[i].id \notin found[j]
       /\ pc[j] \in Pending => req[j].id # req[i].id

IInv ==
  /\ TypeOK
  /\ TableOK
  /\ \A i \in Ingesters : RequestOK(i)
  /\ \A i, j \in Ingesters : i # j => Apart(i, j)

-----------------------------------------------------------------------------
\* The request of an idle thread is typed.
LEMMA RowIds == TypeOK => allSnapshotIds \subseteq SnapshotIds
                          /\ \A s : Ids(s) \subseteq allSnapshotIds
BY DEF TypeOK, Row, Snapshot, allSnapshotIds, Ids

\* Appending keeps a sequence typed.
LEMMA AppendTyped ==
  ASSUME NEW S, NEW seq \in Seq(S), NEW x \in S, NEW t, t = seq \/ t = Append(seq, x)
  PROVE  t \in Seq(S)
BY AppendProperties

\* The initial state satisfies the invariant.
LEMMA InitInv == Init => IInv
<1> SUFFICES ASSUME Init PROVE IInv
  OBVIOUS
<1> USE DEF Init
<1>1. TypeOK
  <2>1. /\ topic \in Seq([id : SnapshotIds, changeType : ChangeTypes])
        /\ cutOvers \in Seq(Snapshot)
    OBVIOUS
  <2>2. /\ vertex \in [Objects -> SnapshotIds \cup {NoSnapshot}]
        /\ edge \in [Links -> SnapshotIds \cup {NoSnapshot}]
    OBVIOUS
  <2>3. /\ pc \in [Ingesters -> Phases]
        /\ reaper \in {"known", "scan", "reap", "done"}
    BY DEF Phases, AfterStart
  <2>4. rows \subseteq Row /\ known \subseteq SnapshotIds /\ doomed \subseteq SnapshotIds
    OBVIOUS
  <2> QED BY <2>1, <2>2, <2>3, <2>4 DEF TypeOK
<1>2. TableOK
  BY DEF TableOK, allSnapshotIds
<1>3. \A i \in Ingesters : RequestOK(i)
  BY DEF RequestOK, Locking, Pending, AfterDelete, TxPhases, NoRequest
<1>4. \A i, j \in Ingesters : Apart(i, j)
  BY DEF Apart, Holds, Pending, TxPhases
<1> QED BY <1>1, <1>2, <1>3, <1>4 DEF IInv

\* A step that leaves the table alone, and every request but i, preserves the
\* invariant if i ends well, apart from the others.
LEMMA QuietStep ==
  ASSUME IInv, NEW i \in Ingesters, TypeOK',
         UNCHANGED <<rows, cutOvers>>, minted \subseteq minted',
         \A j \in Ingesters \ {i} :
           /\ pc'[j] = pc[j] /\ req'[j] = req[j] /\ found'[j] = found[j]
           /\ gone'[j] = gone[j] /\ target'[j] = target[j],
         RequestOK(i)',
         \A j \in Ingesters \ {i} : Apart(i, j)' /\ Apart(j, i)'
  PROVE  IInv'
<1>1. allSnapshotIds' = allSnapshotIds /\ \A s : Ids(s)' = Ids(s)
  BY DEF allSnapshotIds, Ids
<1>2. TableOK'
  BY <1>1 DEF IInv, TableOK
<1>3. ASSUME NEW j \in Ingesters, j # i PROVE RequestOK(j)'
  BY <1>1, <1>3 DEF IInv, RequestOK
<1>4. ASSUME NEW j \in Ingesters, NEW k \in Ingesters, j # k PROVE Apart(j, k)'
  <2>1. CASE i \in {j, k}
    BY <1>4, <2>1
  <2>2. CASE i \notin {j, k}
    <3>1. Apart(j, k)
      BY <1>4 DEF IInv
    <3>2. Holds(j)' = Holds(j) /\ Holds(k)' = Holds(k)
      BY <2>2 DEF Holds
    <3> QED BY <2>2, <3>1, <3>2 DEF Apart
  <2> QED BY <2>1, <2>2
<1> QED BY <1>2, <1>3, <1>4 DEF IInv

-----------------------------------------------------------------------------
(* The end of a request.                                                   *)

\* A request that returns gives up its locks, its id and what it found.
LEMMA ReturnStep ==
  ASSUME IInv, NEW i \in Ingesters, Return(i), TypeOK', UNCHANGED <<rows, cutOvers, minted>>
  PROVE  IInv'
<1> USE DEF Return, Goto
<1>1. \A j \in Ingesters \ {i} :
        /\ pc'[j] = pc[j] /\ req'[j] = req[j] /\ found'[j] = found[j]
        /\ gone'[j] = gone[j] /\ target'[j] = target[j]
  BY DEF IInv, TypeOK
<1>2. /\ pc'[i] = "idle" /\ found'[i] = {} /\ gone'[i] = {} /\ target'[i] = {}
      /\ req'[i] = NoRequest
  BY DEF IInv, TypeOK
<1>3. RequestOK(i)'
  BY <1>2 DEF RequestOK, Locking, Pending, AfterDelete, TxPhases, NoRequest
<1>4. \A j \in Ingesters \ {i} : Apart(i, j)' /\ Apart(j, i)'
  BY <1>1, <1>2 DEF IInv, Apart, Holds, Pending, TxPhases
<1> QED BY <1>1, <1>3, <1>4, QuietStep

LEMMA FailStep == ASSUME IInv, NEW i \in Ingesters, Fail(i) PROVE IInv'
<1>1. TypeOK'
  BY DEF IInv, TypeOK, Fail, Return, Goto, Phases, Row
<1> QED BY <1>1, ReturnStep DEF Fail

\* A request that goes on after its commit, and changes nothing the others see.
LEMMA PhaseStep ==
  ASSUME IInv, NEW i \in Ingesters, TypeOK', pc[i] \in {"evict", "emit"},
         pc'[i] \in {pc[i], "emit", "record"}, \A j \in Ingesters \ {i} : pc'[j] = pc[j],
         UNCHANGED <<rows, cutOvers, minted, req, found, gone, target>>
  PROVE  IInv'
<1>1. allSnapshotIds' = allSnapshotIds /\ \A s : Ids(s)' = Ids(s)
  BY DEF allSnapshotIds, Ids
<1>2. RequestOK(i)'
  BY <1>1 DEF IInv, RequestOK, Locking, Pending, AfterDelete, TxPhases
<1>3. \A j \in Ingesters \ {i} : Apart(i, j)' /\ Apart(j, i)'
  BY DEF IInv, Apart, Holds, Pending, TxPhases
<1> QED BY <1>2, <1>3, QuietStep

LEMMA EmitStep == ASSUME IInv, NEW i \in Ingesters, emit(i) PROVE IInv'
<1>1. req[i] \in Snapshot
  BY DEF IInv, RequestOK, emit
<1>2. /\ topic' \in Seq([id : SnapshotIds, changeType : ChangeTypes])
      /\ dlq' \subseteq SnapshotIds
  <2>1. [id |-> req[i].id, changeType |-> req[i].changeType]
          \in [id : SnapshotIds, changeType : ChangeTypes] /\ req[i].id \in SnapshotIds
    BY <1>1 DEF Snapshot
  <2>2. /\ topic \in Seq([id : SnapshotIds, changeType : ChangeTypes])
        /\ dlq \subseteq SnapshotIds
    BY DEF IInv, TypeOK
  <2>3. \/ topic' = topic
        \/ topic' = Append(topic, [id |-> req[i].id, changeType |-> req[i].changeType])
    BY DEF emit
  <2>4. dlq' \in {dlq, dlq \cup {req[i].id}}
    BY DEF emit
  <2>5. topic' \in Seq([id : SnapshotIds, changeType : ChangeTypes])
    BY <2>1, <2>2, <2>3, AppendTyped
  <2> QED BY <2>1, <2>2, <2>4, <2>5
<1>3. TypeOK'
  BY <1>2 DEF IInv, TypeOK, emit, Goto, Phases
<1>4. /\ pc'[i] = "record" /\ \A j \in Ingesters \ {i} : pc'[j] = pc[j]
      /\ pc[i] = "emit"
      /\ UNCHANGED <<rows, cutOvers, minted, req, found, gone, target>>
  BY DEF IInv, TypeOK, emit, Goto
<1> QED BY <1>3, <1>4, PhaseStep

LEMMA RecordStep == ASSUME IInv, NEW i \in Ingesters, recordEventId(i) PROVE IInv'
<1>1. TypeOK'
  BY DEF IInv, TypeOK, recordEventId, Return, Goto, Phases
<1> QED BY <1>1, ReturnStep DEF recordEventId

LEMMA CrashStep == ASSUME IInv, Crash PROVE IInv'
<1> USE DEF Crash
<1>1. TypeOK'
  BY DEF IInv, TypeOK, Phases, AfterStart
<1>2. allSnapshotIds' = allSnapshotIds /\ \A s : Ids(s)' = Ids(s)
  BY DEF allSnapshotIds, Ids
<1>3. TableOK'
  BY <1>2 DEF IInv, TableOK
<1>4. \A i \in Ingesters : RequestOK(i)'
  BY DEF RequestOK, Locking, Pending, AfterDelete, TxPhases, NoRequest
<1>5. \A i, j \in Ingesters : Apart(i, j)'
  BY DEF Apart, Holds, Pending, TxPhases
<1> QED BY <1>1, <1>3, <1>4, <1>5 DEF IInv

-----------------------------------------------------------------------------
(* The graph.                                                              *)

\* A new request: its id is new if it is minted, and it is a full load if the
\* table is empty.
LEMMA BeginStep == ASSUME IInv, NEW i \in Ingesters, Begin(i) PROVE IInv'
<1>1. PICK id \in (Minted \ minted) \cup Supplied, f \in Files,
           hint \in {"none", "incremental"} :
        /\ minted' = minted \cup ({id} \cap Minted)
        /\ req' = [req EXCEPT ![i] =
                     [id |-> id, nodes |-> f.nodes, links |-> f.links,
                      changeType |-> resolveChangeType(hint, isFirstIngest)]]
        /\ left' = [left EXCEPT ![i] = f.nodes \cup f.links]
  BY DEF Begin
<1> DEFINE new == [id |-> id, nodes |-> f.nodes, links |-> f.links,
                   changeType |-> resolveChangeType(hint, isFirstIngest)]
<1>2. resolveChangeType(hint, isFirstIngest) \in ChangeTypes
  BY DEF resolveChangeType, ChangeTypes
<1>3. id \in SnapshotIds
  BY DEF SnapshotIds, IInv, TypeOK
<1>4. /\ f = [nodes |-> f.nodes, links |-> f.links]
      /\ f.nodes \in SUBSET Objects /\ f.links \in SUBSET Links
  BY DEF Files
<1>5. new \in Snapshot
  BY <1>2, <1>3, <1>4 DEF Snapshot
<1>6. /\ pc[i] = "idle" /\ pc' = [pc EXCEPT ![i] = "write"]
      /\ disturbed' \in BOOLEAN
      /\ UNCHANGED <<rows, vertex, edge, topic, dlq, cutOvers, found, gone, target,
                     reaper, known, unread, doomed>>
  BY DEF Begin, Goto
<1>7. new.id = id /\ (cutOvers = <<>> => new.changeType = "full-load")
  BY DEF IInv, TableOK, isFirstIngest, resolveChangeType
<1>8. req' = [req EXCEPT ![i] = new]
  BY <1>1
<1> HIDE DEF new
<1>9. TypeOK'
  <2>1. req' \in [Ingesters -> {NoRequest} \cup Snapshot]
    BY <1>5, <1>8 DEF IInv, TypeOK
  <2>2. left' \in [Ingesters -> SUBSET (Objects \cup Links)]
    BY <1>1, <1>4 DEF IInv, TypeOK
  <2>3. pc' \in [Ingesters -> Phases]
    BY <1>6 DEF IInv, TypeOK, Phases
  <2>4. minted' \subseteq Minted
    BY <1>1 DEF IInv, TypeOK
  <2> QED BY <1>6, <2>1, <2>2, <2>3, <2>4 DEF IInv, TypeOK
<1>10. /\ \A j \in Ingesters \ {i} : pc'[j] = pc[j] /\ req'[j] = req[j]
       /\ pc'[i] = "write" /\ req'[i] = new
  BY <1>6, <1>8 DEF IInv, TypeOK
<1>11. id \in Minted => /\ id \in minted' /\ id \notin minted
                        /\ id \notin allSnapshotIds
                        /\ \A j \in Ingesters : id \notin found[j]
  BY <1>1, IdsAssumption DEF IInv, TableOK, RequestOK
<1>12. allSnapshotIds' = allSnapshotIds
  BY <1>6 DEF allSnapshotIds
<1>13. RequestOK(i)'
  BY <1>1, <1>5, <1>6, <1>7, <1>10, <1>11, <1>12
     DEF IInv, RequestOK, Locking, AfterDelete, Pending, TxPhases
<1>14. ASSUME NEW j \in Ingesters \ {i} PROVE Apart(i, j)' /\ Apart(j, i)'
  <2>1. Holds(j)' = Holds(j) /\ Holds(i)' = Holds(i)
    BY <1>6, <1>10 DEF Holds
  <2>2. Apart(i, j) /\ Apart(j, i) /\ RequestOK(j)
    BY DEF IInv
  <2>3. pc[j] \in Pending /\ req[j].id \in Minted => req[j].id # id
    BY <1>11, <2>2 DEF RequestOK
  <2> QED BY <1>6, <1>7, <1>10, <1>11, <2>1, <2>2, <2>3 DEF Apart
<1> QED BY <1>1, <1>6, <1>9, <1>10, <1>13, <1>14, QuietStep

\* A statement to the graph changes no request.
LEMMA GraphStep ==
  ASSUME IInv, TypeOK',
         UNCHANGED <<rows, cutOvers, minted, pc, req, found, gone, target>>
  PROVE  IInv'
<1>1. allSnapshotIds' = allSnapshotIds /\ \A s : Ids(s)' = Ids(s)
  BY DEF allSnapshotIds, Ids
<1>2. TableOK'
  BY <1>1 DEF IInv, TableOK
<1>3. \A i \in Ingesters : RequestOK(i)'
  BY <1>1 DEF IInv, RequestOK
<1>4. \A i, j \in Ingesters : i # j => Apart(i, j)'
  BY DEF IInv, Apart, Holds
<1> QED BY <1>2, <1>3, <1>4 DEF IInv

LEMMA WriteStep == ASSUME IInv, NEW i \in Ingesters, writeSnapshot(i) PROVE IInv'
<1>1. req[i].id \in SnapshotIds
  BY DEF IInv, RequestOK, Snapshot, writeSnapshot
<1>2. TypeOK'
  <2>1. /\ vertex' \in [Objects -> SnapshotIds \cup {NoSnapshot}]
        /\ edge' \in [Links -> SnapshotIds \cup {NoSnapshot}]
    BY <1>1 DEF IInv, TypeOK, writeSnapshot
  <2>2. left' \in [Ingesters -> SUBSET (Objects \cup Links)]
    <3>1. left \in [Ingesters -> SUBSET (Objects \cup Links)]
      BY DEF IInv, TypeOK
    <3>2. \E x : left' = [left EXCEPT ![i] = left[i] \ {x}]
      BY DEF writeSnapshot
    <3> QED BY <3>1, <3>2
  <2> QED BY <2>1, <2>2 DEF IInv, TypeOK, writeSnapshot
<1> QED BY <1>2, GraphStep DEF writeSnapshot

\* DELETE VERTEX only takes stamps away.
LEMMA DeleteClears ==
  ASSUME TypeOK, NEW s, NEW d, deleteVertex(s, d) \/ UNCHANGED graphVars
  PROVE  /\ vertex' \in [Objects -> SnapshotIds \cup {NoSnapshot}]
         /\ edge' \in [Links -> SnapshotIds \cup {NoSnapshot}]
         /\ \A o \in Objects : vertex'[o] \in {vertex[o], NoSnapshot}
         /\ \A l \in Links : edge'[l] \in {edge[l], NoSnapshot}
BY DEF TypeOK, deleteVertex, graphVars

LEMMA ReaperStep == ASSUME IInv, Reaper PROVE IInv'
<1>1. CASE readKnown
  <2>1. TypeOK'
    BY <1>1, RowIds DEF IInv, TypeOK, readKnown
  <2> QED BY <1>1, <2>1, GraphStep DEF readKnown
<1>2. CASE scanGraph
  <2>1. doomed' \subseteq SnapshotIds \X Objects
    <3>1. \A o \in Objects : {vertex[o]} \ (known \cup {NoSnapshot}) \subseteq SnapshotIds
      BY DEF IInv, TypeOK
    <3>2. CASE doomed' = doomed
      BY <3>2 DEF IInv, TypeOK
    <3>3. ASSUME NEW o \in Objects,
                 doomed' = doomed \cup (({vertex[o]} \ (known \cup {NoSnapshot})) \X Objects)
          PROVE  doomed' \subseteq SnapshotIds \X Objects
      BY <3>1, <3>3 DEF IInv, TypeOK
    <3>4. unread \subseteq Objects
      BY DEF IInv, TypeOK
    <3> QED BY <1>2, <3>2, <3>3, <3>4 DEF scanGraph
  <2>2. unread' \subseteq Objects /\ known' \subseteq SnapshotIds
        /\ reaper' \in {"known", "scan", "reap", "done"}
    BY <1>2 DEF IInv, TypeOK, scanGraph
  <2>3. TypeOK'
    BY <1>2, <2>1, <2>2 DEF IInv, TypeOK, scanGraph
  <2> QED BY <1>2, <2>3, GraphStep DEF scanGraph
<1>3. CASE reap
  <2>1. /\ vertex' \in [Objects -> SnapshotIds \cup {NoSnapshot}]
        /\ edge' \in [Links -> SnapshotIds \cup {NoSnapshot}]
    BY <1>3, DeleteClears DEF IInv, reap, graphVars, TypeOK
  <2>2. doomed' \subseteq doomed /\ reaper' \in {"known", "scan", "reap", "done"}
    BY <1>3 DEF IInv, TypeOK, reap
  <2>3. TypeOK'
    BY <1>3, <2>1, <2>2 DEF IInv, TypeOK, reap
  <2> QED BY <1>3, <2>3, GraphStep DEF reap
<1> QED BY <1>1, <1>2, <1>3 DEF Reaper

-----------------------------------------------------------------------------
(* The transaction, up to its commit.                                      *)

\* A statement moves request i to p and leaves it with F found, the rows in G
\* deleted and those in T to demote; the rows are free and p's checks hold.
Statement(i, p, F, G, T) ==
  /\ pc[i] # "idle" /\ p \in Phases \ {"idle"}
  /\ F \subseteq SnapshotIds /\ G \subseteq SnapshotIds /\ T \subseteq SnapshotIds
  /\ pc' = [pc EXCEPT ![i] = p] /\ found' = [found EXCEPT ![i] = F]
  /\ gone' = [gone EXCEPT ![i] = G] /\ target' = [target EXCEPT ![i] = T]
  /\ UNCHANGED <<rows, vertex, edge, topic, dlq, cutOvers, disturbed, minted, req,
                 left, reaper, known, unread, doomed>>
  /\ p \in Pending => pc[i] \in Pending
  /\ F \subseteq allSnapshotIds \cup found[i] /\ G \subseteq allSnapshotIds
  /\ p \in Locking => T \subseteq Ids("current")
  /\ p \in {"insert", "commit"} /\ T # {} => Ids("previous") \subseteq G
  /\ p = "commit" => /\ req[i].id \notin allSnapshotIds \ G
                     /\ Ids("current") \subseteq G \cup T
                     /\ \A j \in Ingesters \ {i} : pc[j] # "commit"
  /\ p \in AfterDelete => F \cap allSnapshotIds \cap Minted \subseteq G
  /\ p = "evict" => F \cap allSnapshotIds \cap Minted = {}
  /\ \A j \in Ingesters \ {i} :
       G \cap Holds(j) = {} /\ (p \in Locking => T \cap Holds(j) = {})

LEMMA StatementStep ==
  ASSUME IInv, NEW i \in Ingesters, NEW p, NEW F, NEW G, NEW T, Statement(i, p, F, G, T)
  PROVE  IInv'
<1> USE DEF Statement
<1>1. TypeOK'
  BY DEF IInv, TypeOK
<1>2. \A j \in Ingesters \ {i} :
        /\ pc'[j] = pc[j] /\ req'[j] = req[j] /\ found'[j] = found[j]
        /\ gone'[j] = gone[j] /\ target'[j] = target[j]
  BY DEF IInv, TypeOK
<1>3. /\ pc'[i] = p /\ found'[i] = F /\ gone'[i] = G /\ target'[i] = T
      /\ req'[i] = req[i]
  BY DEF IInv, TypeOK
<1>4. allSnapshotIds' = allSnapshotIds /\ \A s : Ids(s)' = Ids(s)
  BY DEF allSnapshotIds, Ids
<1>5. RequestOK(i) /\ allSnapshotIds \cap Minted \subseteq minted
  BY DEF IInv, TableOK
<1>6. RequestOK(i)'
  BY <1>3, <1>4, <1>5 DEF RequestOK
<1>7. ASSUME NEW j \in Ingesters \ {i} PROVE Apart(i, j)' /\ Apart(j, i)'
  <2>1. Holds(j)' = Holds(j)
    BY <1>2 DEF Holds
  <2>2. Holds(i)' \cap Holds(j) = {}
    BY <1>3 DEF Holds, Locking
  <2>3. Apart(i, j) /\ Apart(j, i) /\ RequestOK(j)
    BY DEF IInv
  <2>4. pc[j] \in Pending /\ req[j].id \in Minted => req[j].id \notin F
    BY <2>3 DEF RequestOK, Apart
  <2> QED BY <1>2, <1>3, <2>1, <2>2, <2>3, <2>4 DEF Apart
<1> QED BY <1>1, <1>2, <1>6, <1>7, QuietStep

\* The facts every statement starts from.
LEMMA RequestFacts ==
  ASSUME IInv, NEW i \in Ingesters
  PROVE  /\ found[i] \in SUBSET SnapshotIds /\ gone[i] \in SUBSET SnapshotIds
         /\ target[i] \in SUBSET SnapshotIds
         /\ found' = found => found' = [found EXCEPT ![i] = found[i]]
         /\ gone' = gone => gone' = [gone EXCEPT ![i] = gone[i]]
         /\ target' = target => target' = [target EXCEPT ![i] = target[i]]
         /\ RequestOK(i)
         /\ \A j \in Ingesters \ {i} : Holds(i) \cap Holds(j) = {}
BY DEF IInv, TypeOK, Apart

LEMMA StartCutOverStep == ASSUME IInv, NEW i \in Ingesters, StartCutOver(i) PROVE IInv'
<1>1. /\ pc[i] = "write" /\ pc' = [pc EXCEPT ![i] = "find"]
      /\ UNCHANGED <<rows, vertex, edge, topic, dlq, cutOvers, disturbed, minted, req, left,
                     found, gone, target, reaper, known, unread, doomed>>
  BY DEF StartCutOver, Goto
<1>2. /\ "find" \in Phases \ {"idle"} /\ "find" \notin AfterDelete \cup Locking
      /\ "write" \in Pending
  BY DEF Phases, TxPhases, Locking, AfterDelete, Pending
<1>3. \A j \in Ingesters \ {i} : gone[i] \cap Holds(j) = {}
  BY RequestFacts DEF Holds
<1>9. Statement(i, "find", found[i], gone[i], target[i])
  BY <1>1, <1>2, <1>3, RequestFacts DEF RequestOK, Locking, Statement
<1> QED BY <1>9, StatementStep

LEMMA FindStep == ASSUME IInv, NEW i \in Ingesters, findPreviousSnapshotId(i) PROVE IInv'
<1> DEFINE F == Ids("previous")
<1>1. PICK p \in {"demote", "delete"} :
        pc' = [pc EXCEPT ![i] = p] /\ (p = "demote" => F = {})
  BY DEF findPreviousSnapshotId, Goto
<1>2. /\ pc[i] = "find" /\ found' = [found EXCEPT ![i] = F]
      /\ UNCHANGED <<rows, vertex, edge, topic, dlq, cutOvers, disturbed, minted, req,
                     left, gone, target, reaper, known, unread, doomed>>
  BY DEF findPreviousSnapshotId
<1>3. /\ p \in Phases \ {"idle"} /\ p \notin Locking /\ p \notin {"insert", "commit", "evict"}
      /\ "find" \in Pending /\ (p \in AfterDelete => p = "demote")
  BY DEF Phases, TxPhases, Locking, AfterDelete, Pending
<1>4. F \in SUBSET SnapshotIds /\ F \subseteq allSnapshotIds
  BY RowIds DEF IInv
<1>5. \A j \in Ingesters \ {i} : gone[i] \cap Holds(j) = {}
  BY RequestFacts DEF Holds
<1> HIDE DEF F
<1>9. Statement(i, p, F, gone[i], target[i])
  BY <1>1, <1>2, <1>3, <1>4, <1>5, RequestFacts DEF RequestOK, Statement
<1> QED BY <1>9, StatementStep

LEMMA DeleteStep == ASSUME IInv, NEW i \in Ingesters, deleteBySnapshotId(i) PROVE IInv'
<1> DEFINE G == found[i] \cap allSnapshotIds
<1>1. /\ pc[i] = "delete" /\ pc' = [pc EXCEPT ![i] = "demote"]
      /\ gone' = [gone EXCEPT ![i] = G]
      /\ UNCHANGED <<rows, vertex, edge, topic, dlq, cutOvers, disturbed, minted, req,
                     left, found, target, reaper, known, unread, doomed>>
  BY DEF deleteBySnapshotId, Goto
<1>2. \A j \in Ingesters \ {i} : G \cap Holds(j) = {}
  BY DEF deleteBySnapshotId, Blockers
<1>3. /\ "demote" \in Phases \ {"idle"} /\ "demote" \notin Locking
      /\ "delete" \in Pending
  BY DEF Phases, TxPhases, Locking, Pending
<1>4. G \in SUBSET SnapshotIds /\ G \subseteq allSnapshotIds
      /\ found[i] \cap allSnapshotIds \cap Minted \subseteq G
  BY RequestFacts
<1> HIDE DEF G
<1>9. Statement(i, "demote", found[i], G, target[i])
  BY <1>1, <1>2, <1>3, <1>4, RequestFacts DEF Statement
<1> QED BY <1>9, StatementStep

LEMMA DemoteStep == ASSUME IInv, NEW i \in Ingesters, demoteCurrentToPrevious(i) PROVE IInv'
<1> DEFINE T == Ids("current") \ gone[i]
<1>1. /\ pc[i] = "demote" /\ target' = [target EXCEPT ![i] = T]
      /\ UNCHANGED <<rows, vertex, edge, topic, dlq, cutOvers, disturbed, minted, req,
                     left, found, gone, reaper, known, unread, doomed>>
  BY DEF demoteCurrentToPrevious
<1>2. PICK p \in {"index", "wait"} :
        /\ pc' = [pc EXCEPT ![i] = p]
        /\ p = "index" => \A j \in Ingesters \ {i} : T \cap Holds(j) = {}
  BY DEF demoteCurrentToPrevious, Goto
<1>3. /\ p \in Phases \ {"idle"} /\ (p \in Locking => p = "index")
      /\ "demote" \in Pending /\ "demote" \in AfterDelete
      /\ p \notin {"insert", "commit", "evict"}
  BY DEF Phases, TxPhases, Locking, Pending, AfterDelete
<1>4. T \in SUBSET SnapshotIds /\ T \subseteq Ids("current")
  BY RowIds DEF IInv
<1>5. /\ gone[i] \subseteq allSnapshotIds
      /\ found[i] \cap allSnapshotIds \cap Minted \subseteq gone[i]
  BY <1>1, <1>3, RequestFacts DEF RequestOK
<1>6. \A j \in Ingesters \ {i} : gone[i] \cap Holds(j) = {}
  BY RequestFacts DEF Holds
<1> HIDE DEF T
<1>9. Statement(i, p, found[i], gone[i], T)
  BY <1>1, <1>2, <1>3, <1>4, <1>5, <1>6, RequestFacts DEF Statement
<1> QED BY <1>9, StatementStep

LEMMA ResumeStep == ASSUME IInv, NEW i \in Ingesters, resumeDemote(i) PROVE IInv'
<1> DEFINE T == target[i] \cap Ids("current")
<1>1. /\ pc[i] = "wait" /\ target' = [target EXCEPT ![i] = T]
      /\ pc' = [pc EXCEPT ![i] = "index"]
      /\ UNCHANGED <<rows, vertex, edge, topic, dlq, cutOvers, disturbed, minted, req,
                     left, found, gone, reaper, known, unread, doomed>>
  BY DEF resumeDemote, Goto
<1>2. \A j \in Ingesters \ {i} : T \cap Holds(j) = {}
  BY DEF resumeDemote, Blockers
<1>3. /\ "index" \in Phases \ {"idle"} /\ "wait" \in Pending /\ "wait" \in AfterDelete
  BY DEF Phases, TxPhases, Pending, AfterDelete, Locking
<1>4. T \in SUBSET SnapshotIds /\ T \subseteq Ids("current")
  BY RequestFacts
<1>5. /\ gone[i] \subseteq allSnapshotIds
      /\ found[i] \cap allSnapshotIds \cap Minted \subseteq gone[i]
  BY <1>1, <1>3, RequestFacts DEF RequestOK
<1>6. \A j \in Ingesters \ {i} : gone[i] \cap Holds(j) = {}
  BY RequestFacts DEF Holds
<1> HIDE DEF T
<1>9. Statement(i, "index", found[i], gone[i], T)
  BY <1>1, <1>2, <1>3, <1>4, <1>5, <1>6, RequestFacts DEF Statement
<1> QED BY <1>9, StatementStep

LEMMA CheckStep == ASSUME IInv, NEW i \in Ingesters, checkPrevious(i) PROVE IInv'
<1>1. CASE Fail(i)
  BY <1>1, FailStep
<1>2. CASE ~Fail(i)
  <2>1. /\ pc[i] = "index" /\ pc' = [pc EXCEPT ![i] = "insert"]
        /\ target[i] = {} \/ Ids("previous") \subseteq gone[i]
        /\ UNCHANGED <<rows, vertex, edge, topic, dlq, cutOvers, disturbed, minted,
                       req, left, found, gone, target, reaper, known, unread, doomed>>
    BY <1>2 DEF checkPrevious, Goto
  <2>2. /\ "insert" \in Phases \ {"idle"} /\ "index" \in Pending
        /\ "index" \in AfterDelete /\ "index" \in Locking
    BY DEF Phases, TxPhases, Pending, AfterDelete, Locking
  <2>3. /\ gone[i] \subseteq allSnapshotIds /\ target[i] \subseteq Ids("current")
        /\ found[i] \cap allSnapshotIds \cap Minted \subseteq gone[i]
    BY <2>1, <2>2, RequestFacts DEF RequestOK
  <2>4. \A j \in Ingesters \ {i} : gone[i] \cap Holds(j) = {} /\ target[i] \cap Holds(j) = {}
    BY <2>1, RequestFacts DEF Holds
  <2>9. Statement(i, "insert", found[i], gone[i], target[i])
    BY <2>1, <2>2, <2>3, <2>4, RequestFacts DEF Statement
  <2> QED BY <2>9, StatementStep
<1> QED BY <1>1, <1>2

LEMMA InsertStep == ASSUME IInv, NEW i \in Ingesters, insert(i) PROVE IInv'
<1>1. CASE Fail(i)
  BY <1>1, FailStep
<1>2. CASE ~Fail(i)
  <2>1. /\ pc[i] = "insert" /\ pc' = [pc EXCEPT ![i] = "commit"]
        /\ req[i].id \notin allSnapshotIds \ gone[i]
        /\ Ids("current") \subseteq gone[i] \cup target[i]
        /\ UNCHANGED <<rows, vertex, edge, topic, dlq, cutOvers, disturbed, minted,
                       req, left, found, gone, target, reaper, known, unread, doomed>>
    BY <1>2 DEF insert, Goto
  <2>2. /\ "commit" \in Phases \ {"idle"} /\ "insert" \in Pending
        /\ "insert" \in AfterDelete /\ "insert" \in Locking
    BY DEF Phases, TxPhases, Pending, AfterDelete, Locking
  <2>3. /\ gone[i] \subseteq allSnapshotIds /\ target[i] \subseteq Ids("current")
        /\ target[i] # {} => Ids("previous") \subseteq gone[i]
        /\ found[i] \cap allSnapshotIds \cap Minted \subseteq gone[i]
    BY <2>1, <2>2, RequestFacts DEF RequestOK
  <2>4. \A j \in Ingesters \ {i} : gone[i] \cap Holds(j) = {} /\ target[i] \cap Holds(j) = {}
    BY <2>1, RequestFacts DEF Holds
  <2>5. \A j \in Ingesters \ {i} : pc[j] # "commit"
    BY <2>1 DEF insert, Blockers
  <2>9. Statement(i, "commit", found[i], gone[i], target[i])
    BY <2>1, <2>2, <2>3, <2>4, <2>5, RequestFacts DEF Statement
  <2> QED BY <2>9, StatementStep
<1> QED BY <1>1, <1>2

\* What a statement of the eviction changes.
LEMMA EvictFrame ==
  ASSUME TypeOK, NEW i \in Ingesters, evict(i)
  PROVE  /\ pc[i] = "evict" /\ pc'[i] \in {"evict", "emit"}
         /\ pc' \in [Ingesters -> Phases]
         /\ left' \in [Ingesters -> SUBSET (Objects \cup Links)]
         /\ \A j \in Ingesters \ {i} : pc'[j] = pc[j] /\ left'[j] = left[j]
         /\ vertex' \in [Objects -> SnapshotIds \cup {NoSnapshot}]
         /\ edge' \in [Links -> SnapshotIds \cup {NoSnapshot}]
         /\ \A o \in Objects : vertex'[o] \in {vertex[o], NoSnapshot}
         /\ \A l \in Links : edge'[l] \in {edge[l], NoSnapshot}
         /\ UNCHANGED <<rows, topic, dlq, cutOvers, disturbed, minted, req, found, gone,
                        target, reaper, known, unread, doomed>>
<1>1. pc[i] = "evict"
  BY DEF evict
<1>2. ASSUME NEW s \in found[i], NEW o \in left[i],
             deleteVertex(s, o) \/ UNCHANGED graphVars,
             left' = [left EXCEPT ![i] = @ \ {o}], pc' = pc
      PROVE  /\ pc'[i] \in {"evict", "emit"} /\ pc' \in [Ingesters -> Phases]
             /\ left' \in [Ingesters -> SUBSET (Objects \cup Links)]
             /\ \A j \in Ingesters \ {i} : pc'[j] = pc[j] /\ left'[j] = left[j]
  BY <1>1, <1>2 DEF TypeOK
<1>3. ASSUME Goto(i, "emit"), UNCHANGED <<vertex, edge, left>>
      PROVE  /\ pc'[i] \in {"evict", "emit"} /\ pc' \in [Ingesters -> Phases]
             /\ left' \in [Ingesters -> SUBSET (Objects \cup Links)]
             /\ \A j \in Ingesters \ {i} : pc'[j] = pc[j] /\ left'[j] = left[j]
  BY <1>3 DEF TypeOK, Goto, Phases
<1>4. /\ vertex' \in [Objects -> SnapshotIds \cup {NoSnapshot}]
      /\ edge' \in [Links -> SnapshotIds \cup {NoSnapshot}]
      /\ \A o \in Objects : vertex'[o] \in {vertex[o], NoSnapshot}
      /\ \A l \in Links : edge'[l] \in {edge[l], NoSnapshot}
  <2>1. CASE UNCHANGED <<vertex, edge>>
    BY <2>1 DEF TypeOK
  <2> QED BY <2>1, DeleteClears DEF evict
<1> QED BY <1>1, <1>2, <1>3, <1>4 DEF evict

LEMMA EvictStep == ASSUME IInv, NEW i \in Ingesters, evict(i) PROVE IInv'
<1>1. TypeOK'
  BY EvictFrame DEF IInv, TypeOK
<1> QED BY <1>1, EvictFrame, PhaseStep DEF IInv

-----------------------------------------------------------------------------
(* The commit.                                                             *)

\* What the transaction has checked still holds at its commit.
LEMMA CommitFacts ==
  ASSUME IInv, NEW i \in Ingesters, commitCutOver(i)
  PROVE  /\ req[i] \in Snapshot /\ gone[i] \subseteq allSnapshotIds
         /\ target[i] # {} => Ids("previous") \subseteq gone[i]
         /\ req[i].id \notin allSnapshotIds \ gone[i]
         /\ Ids("current") \subseteq gone[i] \cup target[i]
         /\ cutOvers = <<>> => req[i].changeType = "full-load"
         /\ req[i].id \in Minted => req[i].id \in minted \ (allSnapshotIds \cup found[i])
         /\ found[i] \cap allSnapshotIds \cap Minted \subseteq gone[i]
BY DEF commitCutOver, IInv, RequestOK, Locking, Pending, TxPhases, AfterDelete

\* The commit leaves one current row, its own: every other row is previous,
\* and there is at most one.
LEMMA CommitTable ==
  ASSUME IInv, NEW i \in Ingesters, commitCutOver(i)
  PROVE  /\ rows' \subseteq Row
         /\ allSnapshotIds' = (allSnapshotIds \ gone[i]) \cup {req[i].id}
         /\ Ids("current")' = {req[i].id}
         /\ Ids("previous")' = allSnapshotIds \ gone[i]
         /\ \A r, s \in rows' : r.snap.id = s.snap.id \/ r.status = s.status => r = s
         /\ \A r \in rows' : r.status = "current" => r.snap = req[i]
<1> DEFINE kept   == {x \in rows : x.snap.id \notin gone[i]}
           old(r) == [snap |-> r.snap, status |-> "previous"]
           new    == [snap |-> req[i], status |-> "current"]
<1>3. /\ req[i] \in Snapshot
      /\ target[i] # {} => Ids("previous") \subseteq gone[i]
      /\ Ids("current") \subseteq gone[i] \cup target[i]
  BY CommitFacts
<1>4. \A r \in kept : /\ r \in Row /\ old(r) \in Row
                     /\ (IF r.snap.id \in target[i] THEN [r EXCEPT !.status = "previous"]
                         ELSE r) = old(r)
  <2> SUFFICES ASSUME NEW r \in kept
               PROVE  /\ r \in Row /\ old(r) \in Row
                      /\ (IF r.snap.id \in target[i] THEN [r EXCEPT !.status = "previous"]
                          ELSE r) = old(r)
    OBVIOUS
  <2>1. r \in Row /\ old(r) \in Row
    BY DEF IInv, TypeOK, Row
  <2>2. [r EXCEPT !.status = "previous"] = old(r)
    BY <2>1 DEF Row
  <2>3. r.status = "current" => r.snap.id \in target[i]
    BY CommitFacts DEF Ids
  <2>4. r.status = "previous" => r = old(r)
    BY <2>1 DEF Row
  <2> QED BY <2>1, <2>2, <2>3, <2>4 DEF Row
<1>5. rows' = {old(r) : r \in kept} \cup {new}
  <2>1. rows' = {IF r.snap.id \in target[i] THEN [r EXCEPT !.status = "previous"] ELSE r :
                   r \in kept} \cup {new}
    BY DEF commitCutOver
  <2> HIDE DEF kept, old, new
  <2> QED BY <1>4, <2>1
<1>6. \A r, s \in kept : r = s
  <2> SUFFICES ASSUME NEW r \in kept, NEW s \in kept PROVE r = s
    OBVIOUS
  <2>1. /\ r.status \in {"current", "previous"} /\ s.status \in {"current", "previous"}
        /\ \A x \in kept : x.status = "current" => x.snap.id \in target[i]
        /\ \A x \in kept : x.status = "previous" => x.snap.id \in Ids("previous") \ gone[i]
    BY <1>3, <1>4 DEF Ids, Row
  <2>2. r.status = s.status
    BY <1>3, <2>1
  <2> QED BY <2>2 DEF IInv, TableOK
<1>7. /\ allSnapshotIds' = (allSnapshotIds \ gone[i]) \cup {req[i].id}
      /\ Ids("current")' = {req[i].id}
      /\ Ids("previous")' = allSnapshotIds \ gone[i]
  <2>1. ASSUME NEW x PROVE (\E r \in kept : x = r.snap.id) <=> x \in allSnapshotIds \ gone[i]
    BY DEF allSnapshotIds
  <2>2. /\ new.snap.id = req[i].id /\ new.status = "current"
        /\ \A r \in kept : old(r).snap.id = r.snap.id /\ old(r).status = "previous"
    OBVIOUS
  <2> HIDE DEF kept, old, new
  <2>3. ASSUME NEW x
        PROVE  x \in allSnapshotIds' <=> (\E r \in kept : x = r.snap.id) \/ x = req[i].id
    BY <1>5, <2>2 DEF allSnapshotIds
  <2>4. ASSUME NEW x PROVE x \in Ids("current")' <=> x = req[i].id
    BY <1>5, <2>2 DEF Ids
  <2>5. ASSUME NEW x PROVE x \in Ids("previous")' <=> \E r \in kept : x = r.snap.id
    BY <1>5, <2>2 DEF Ids
  <2>6. allSnapshotIds' = (allSnapshotIds \ gone[i]) \cup {req[i].id}
    BY <2>1, <2>3
  <2>7. Ids("current")' = {req[i].id}
    BY <2>4
  <2>8. Ids("previous")' = allSnapshotIds \ gone[i]
    BY <2>1, <2>5
  <2> QED BY <2>6, <2>7, <2>8
<1>8. rows' \subseteq Row
  <2>1. new \in Row
    BY <1>3 DEF Row
  <2> HIDE DEF kept, old, new
  <2> QED BY <1>4, <1>5, <2>1
<1>9. \A r, s \in rows' : r.snap.id = s.snap.id \/ r.status = s.status => r = s
  <2>1. \A r \in kept : r.snap.id # req[i].id
    BY CommitFacts DEF allSnapshotIds
  <2> QED BY <1>5, <1>6, <2>1
<1>10. \A r \in rows' : r.status = "current" => r.snap = req[i]
  BY <1>5
<1> HIDE DEF kept, old, new
<1> QED BY <1>7, <1>8, <1>9, <1>10

\* Whoever waits for the rows the commit had locked finds nothing left to
\* demote.
LEMMA CommitStep == ASSUME IInv, NEW i \in Ingesters, commitCutOver(i) PROVE IInv'
<1>1. /\ pc[i] = "commit" /\ cutOvers' = Append(cutOvers, req[i])
      /\ gone' = [gone EXCEPT ![i] = {}] /\ target' = [target EXCEPT ![i] = {}]
      /\ \E L \in SUBSET Objects : left' = [left EXCEPT ![i] = L]
      /\ UNCHANGED <<vertex, edge, topic, dlq, disturbed, minted, req, found,
                     reaper, known, unread, doomed>>
  BY DEF commitCutOver
<1>2. PICK p \in {"evict", "emit"} : pc' = [pc EXCEPT ![i] = p]
  BY DEF commitCutOver, Goto
<1>3. /\ req[i] \in Snapshot /\ gone[i] \subseteq allSnapshotIds
      /\ target[i] # {} => Ids("previous") \subseteq gone[i]
      /\ req[i].id \notin allSnapshotIds \ gone[i]
      /\ Ids("current") \subseteq gone[i] \cup target[i]
      /\ cutOvers = <<>> => req[i].changeType = "full-load"
      /\ req[i].id \in Minted => req[i].id \in minted \ (allSnapshotIds \cup found[i])
      /\ found[i] \cap allSnapshotIds \cap Minted \subseteq gone[i]
  BY CommitFacts
<1>7. /\ allSnapshotIds' = (allSnapshotIds \ gone[i]) \cup {req[i].id}
      /\ Ids("current")' = {req[i].id}
      /\ Ids("previous")' = allSnapshotIds \ gone[i]
  BY CommitTable
<1>8. /\ \A j \in Ingesters \ {i} : pc'[j] = pc[j] /\ gone'[j] = gone[j]
                                  /\ target'[j] = target[j]
      /\ pc'[i] = p /\ gone'[i] = {} /\ target'[i] = {}
  BY <1>1, <1>2 DEF IInv, TypeOK
<1>9. TypeOK'
  <2>1. rows' \subseteq Row
    BY CommitTable
  <2>2. cutOvers' \in Seq(Snapshot)
    BY <1>1, <1>3, AppendTyped DEF IInv, TypeOK
  <2>3. pc' \in [Ingesters -> Phases]
    BY <1>2 DEF IInv, TypeOK, Phases
  <2>4. gone' \in [Ingesters -> SUBSET SnapshotIds]
        /\ target' \in [Ingesters -> SUBSET SnapshotIds]
    BY <1>1 DEF IInv, TypeOK
  <2>5. left' \in [Ingesters -> SUBSET (Objects \cup Links)]
    BY <1>1 DEF IInv, TypeOK
  <2> QED BY <1>1, <2>1, <2>2, <2>3, <2>4, <2>5 DEF IInv, TypeOK
<1>10. TableOK'
  <2>1. \A r, s \in rows' : r.snap.id = s.snap.id \/ r.status = s.status => r = s
    BY CommitTable
  <2>2. cutOvers' # <<>> /\ cutOvers'[1].changeType = "full-load"
    <3>1. CASE cutOvers = <<>>
      BY <1>1, <1>3, <3>1
    <3>2. CASE cutOvers # <<>>
      <4>1. cutOvers \in Seq(Snapshot) /\ Len(cutOvers) >= 1
        BY <3>2, EmptySeq DEF IInv, TypeOK
      <4>2. cutOvers'[1] = cutOvers[1] /\ cutOvers' # <<>>
        BY <1>1, <1>3, <4>1, AppendProperties
      <4> QED BY <3>2, <4>2 DEF IInv, TableOK
    <3> QED BY <3>1, <3>2
  <2>3. allSnapshotIds' \cap Minted \subseteq minted'
    BY <1>1, <1>3, <1>7 DEF IInv, TableOK
  <2> QED BY <1>7, <2>1, <2>2, <2>3 DEF TableOK
<1>11. RequestOK(i)'
  <2>1. cutOvers' # <<>>
    BY SMTT(60), <1>1, <1>3, AppendProperties DEF IInv, TypeOK
  <2>2. found[i] \cap (allSnapshotIds)' \cap Minted = {}
    BY <1>3, <1>7
  <2> QED BY <1>1, <1>3, <1>8, <2>1, <2>2
          DEF IInv, RequestOK, Locking, Pending, TxPhases, AfterDelete
<1>12. ASSUME NEW j \in Ingesters \ {i} PROVE RequestOK(j)' /\ Apart(i, j)' /\ Apart(j, i)'
  <2>1. RequestOK(j) /\ Apart(i, j) /\ Apart(j, i)
    BY DEF IInv
  <2>2. /\ pc'[j] = pc[j] /\ req'[j] = req[j] /\ found'[j] = found[j]
        /\ gone'[j] = gone[j] /\ target'[j] = target[j] /\ found'[i] = found[i]
        /\ minted' = minted /\ pc'[i] = p
    BY <1>1, <1>8
  <2>3. pc[j] # "commit" /\ gone[j] \cap gone[i] = {}
        /\ (pc[j] \in Locking => target[j] = {})
    BY <1>1, <1>3, <2>1 DEF Apart, RequestOK, Holds, Locking
  <2>4. /\ req[i].id \in Minted => req[i].id \notin found[j]
        /\ pc[j] \in Pending /\ req[j].id \in Minted =>
             req[j].id # req[i].id /\ req[j].id \notin found[i]
    BY <1>1, <2>1 DEF Apart, Pending, TxPhases
  <2>5. cutOvers' # <<>>
    BY <1>1, <1>3, AppendProperties DEF IInv, TypeOK
  <2>6. /\ found[j] \cap allSnapshotIds' \cap Minted
             \subseteq found[j] \cap allSnapshotIds \cap Minted
        /\ gone[j] \subseteq allSnapshotIds'
    BY <1>7, <2>1, <2>3, <2>4 DEF RequestOK
  <2>7. RequestOK(j)'
    BY <1>7, <2>1, <2>2, <2>3, <2>4, <2>5, <2>6 DEF RequestOK, Locking
  <2>8. Holds(j)' = Holds(j) /\ Holds(i)' = {}
    BY <1>8, <2>2 DEF Holds
  <2>9. p \notin Pending /\ p # "commit"
    BY DEF Pending, TxPhases
  <2> QED BY <2>1, <2>2, <2>4, <2>7, <2>8, <2>9 DEF Apart
<1>13. ASSUME NEW j \in Ingesters, NEW k \in Ingesters, j # k PROVE Apart(j, k)'
  <2>1. CASE i \in {j, k}
    BY <1>12, <1>13, <2>1
  <2>2. CASE i \notin {j, k}
    <3>1. Apart(j, k)
      BY <1>13 DEF IInv
    <3>2. Holds(j)' = Holds(j) /\ Holds(k)' = Holds(k)
      BY <1>8, <2>2 DEF Holds
    <3> QED BY <1>1, <1>8, <2>2, <3>1, <3>2 DEF Apart
  <2> QED BY <2>1, <2>2
<1> QED BY <1>9, <1>10, <1>11, <1>12, <1>13 DEF IInv

-----------------------------------------------------------------------------
(* The theorems.                                                           *)

\* The invariant holds in every behaviour of the service: whatever the files,
\* the ids, the number of requests and the faults.
THEOREM Inductive == Spec => []IInv
<1>1. Init => IInv
  BY InitInv
<1>2. IInv /\ [Next]_vars => IInv'
  <2> SUFFICES ASSUME IInv, [Next]_vars PROVE IInv'
    OBVIOUS
  <2>1. ASSUME NEW i \in Ingesters, Step(i) PROVE IInv'
    BY <2>1, WriteStep, StartCutOverStep, FindStep, DeleteStep, DemoteStep, ResumeStep,
       CheckStep, InsertStep, CommitStep, EvictStep, EmitStep,
       RecordStep, FailStep
       DEF Step, DeadlockDetected
  <2>2. ASSUME NEW i \in Ingesters, GraphFails(i) \/ DatabaseFails(i) \/ SerializeFails(i)
        PROVE  IInv'
    BY <2>2, FailStep DEF GraphFails, DatabaseFails, SerializeFails
  <2>3. CASE UNCHANGED vars
    <3>1. TypeOK'
      BY <2>3 DEF IInv, TypeOK, vars
    <3> QED BY <2>3, <3>1, GraphStep DEF vars
  <2> QED BY <2>1, <2>2, <2>3, BeginStep, ReaperStep, CrashStep DEF Next
<1> QED BY <1>1, <1>2, PTL DEF Spec

\* Every variable holds a value of its kind (AC-16).
THEOREM TypeCorrect == Spec => []TypeOK
<1>1. IInv => TypeOK
  BY DEF IInv
<1> QED BY <1>1, Inductive, PTL

\* A set with at most one element.
LEMMA AtMostOne ==
  ASSUME NEW S, \A x, y \in S : x = y
  PROVE  IsFiniteSet(S) /\ Cardinality(S) \in {0, 1} /\ (S # {} => Cardinality(S) = 1)
<1>1. S = {} \/ \E x : S = {x}
  OBVIOUS
<1>2. CASE S = {}
  BY <1>2, FS_EmptySet
<1>3. ASSUME NEW x, S = {x} PROVE IsFiniteSet(S) /\ Cardinality(S) = 1
  BY <1>3, FS_Singleton
<1> QED BY <1>1, <1>2, <1>3

\* However cut-overs race, fail or deadlock, the domain has exactly one current
\* snapshot from the first on, at most one previous, and no id twice.
THEOREM OneCurrentOnePreviousCorrect == Spec => []OneCurrentOnePrevious
<1>1. ASSUME IInv PROVE OneCurrentOnePrevious
  <2> DEFINE cur == {r \in rows : r.status = "current"}
             prev == {r \in rows : r.status = "previous"}
  <2> USE <1>1
  <2>1. Cardinality(Ids("previous")) <= 1
    <3>1. \A x, y \in Ids("previous") : x = y
      BY DEF IInv, TableOK, Ids
    <3> QED BY <3>1, AtMostOne
  <2>2. rows # {} => Cardinality(Ids("current")) = 1
    <3>1. \A x, y \in Ids("current") : x = y
      BY DEF IInv, TableOK, Ids
    <3>2. rows # {} => Ids("current") # {}
      BY DEF IInv, TableOK
    <3> QED BY <3>1, <3>2, AtMostOne
  <2>3. Cardinality(rows) = Cardinality(allSnapshotIds)
    <3>1. IsFiniteSet(cur) /\ IsFiniteSet(prev)
      <4>1. /\ \A r, s \in cur : r = s
            /\ \A r, s \in prev : r = s
        BY DEF IInv, TableOK
      <4> HIDE DEF cur, prev
      <4> QED BY <4>1, AtMostOne
    <3>2. rows = cur \cup prev
      BY DEF IInv, TypeOK, Row
    <3>3. IsFiniteSet(rows)
      <4> HIDE DEF cur, prev
      <4> QED BY <3>1, <3>2, FS_Union
    <3> DEFINE f == [r \in rows |-> r.snap.id]
    <3>4. f \in Bijection(rows, allSnapshotIds)
      <4>1. f \in [rows -> allSnapshotIds]
        BY DEF allSnapshotIds
      <4>2. \A r, s \in rows : f[r] = f[s] => r = s
        BY DEF IInv, TableOK
      <4>3. \A id \in allSnapshotIds : \E r \in rows : f[r] = id
        BY DEF allSnapshotIds
      <4> HIDE DEF f
      <4> QED BY <4>1, <4>2, <4>3 DEF Bijection, Injection, IsInjective, Surjection
    <3>5. ExistsBijection(rows, allSnapshotIds)
      BY <3>4 DEF ExistsBijection
    <3> QED BY <3>3, <3>5, FS_Bijection
  <2> QED BY <2>1, <2>2, <2>3 DEF OneCurrentOnePrevious
<1> QED BY <1>1, Inductive, PTL

\* The first snapshot of the domain is a full load, though the change type is
\* decided long before the cut-over (AC-15).
THEOREM FirstIsFullLoadCorrect == Spec => []FirstIsFullLoad
<1>1. IInv => FirstIsFullLoad
  BY DEF IInv, TableOK, FirstIsFullLoad
<1> QED BY <1>1, Inductive, PTL

\* What a request evicts is no snapshot the table retains, unless a producer
\* reused its id.
THEOREM EvictedIsNotRetainedCorrect == Spec => []EvictedIsNotRetained
<1>1. ASSUME IInv, NEW i \in Ingesters, pc[i] = "evict"
      PROVE  found[i] \cap allSnapshotIds \subseteq Supplied
  <2>1. found[i] \cap allSnapshotIds \cap Minted = {} /\ found[i] \subseteq SnapshotIds
    BY <1>1 DEF IInv, RequestOK, TypeOK
  <2> QED BY <2>1 DEF SnapshotIds
<1>2. IInv => EvictedIsNotRetained
  BY <1>1 DEF EvictedIsNotRetained
<1> QED BY <1>2, Inductive, PTL

-----------------------------------------------------------------------------
\* The statements of the transaction before its commit.
InTx(i) ==
  \/ StartCutOver(i) \/ findPreviousSnapshotId(i) \/ deleteBySnapshotId(i)
  \/ demoteCurrentToPrevious(i) \/ resumeDemote(i)
  \/ (checkPrevious(i) \/ insert(i)) /\ ~Fail(i)

LEMMA InTxFrame ==
  ASSUME TypeOK, NEW i \in Ingesters, InTx(i)
  PROVE  /\ pc[i] = "write" => left[i] = {}
         /\ pc[i] \in Pending /\ pc'[i] \in TxPhases
         /\ \A j \in Ingesters \ {i} : /\ pc'[j] = pc[j] /\ gone'[j] = gone[j]
                                       /\ found'[j] = found[j]
         /\ UNCHANGED <<rows, vertex, edge, topic, dlq, cutOvers, disturbed, minted, req,
                        left, reaper, known, unread, doomed>>
BY DEF TypeOK, InTx, StartCutOver, findPreviousSnapshotId, deleteBySnapshotId,
       demoteCurrentToPrevious, resumeDemote, checkPrevious, insert, Goto, TxPhases, Pending

-----------------------------------------------------------------------------
(* The events.                                                             *)

At(s, id) == {n \in DOMAIN s : s[n].id = id}
\* Requests that have cut over to a snapshot and have yet to announce it.
Due(id)   == {i \in Ingesters : pc[i] \in {"evict", "emit"} /\ req[i].id = id}

\* What was announced of an id and what is still due is no more than what was
\* cut over to; the DLQ gets ids that were cut over to.
Told ==
  /\ \A id \in SnapshotIds :
       /\ IsFiniteSet(Due(id))
       /\ Cardinality(At(topic, id)) + Cardinality(Due(id)) <= Cardinality(At(cutOvers, id))
  /\ \A id \in dlq : Cardinality(At(cutOvers, id)) > 0

\* How often an id occurs, and that appending counts.
LEMMA AtFinite ==
  ASSUME NEW S, NEW s \in Seq(S), NEW id
  PROVE  IsFiniteSet(At(s, id)) /\ Cardinality(At(s, id)) \in Nat
<1>1. IsFiniteSet(1..Len(s)) /\ DOMAIN s = 1..Len(s)
  BY FS_Interval, LenProperties
<1>2. At(s, id) \subseteq 1..Len(s)
  BY <1>1 DEF At
<1> QED BY <1>1, <1>2, FS_Subset, FS_CardinalityType

LEMMA AtAppend ==
  ASSUME NEW S, NEW s \in Seq(S), NEW x \in S, NEW id
  PROVE  Cardinality(At(Append(s, x), id))
           = Cardinality(At(s, id)) + (IF x.id = id THEN 1 ELSE 0)
<1> DEFINE n == Len(s) + 1
<1>1. /\ DOMAIN s = 1..Len(s) /\ Len(s) \in Nat /\ DOMAIN Append(s, x) = 1..n
      /\ \A k \in 1..Len(s) : Append(s, x)[k] = s[k]
      /\ Append(s, x)[n] = x
  BY AppendProperties, LenProperties
<1>2. IsFiniteSet(At(s, id)) /\ Cardinality(At(s, id)) \in Nat
  BY AtFinite
<1>3. n \notin At(s, id)
  BY <1>1 DEF At
<1>4. At(Append(s, x), id) = IF x.id = id THEN At(s, id) \cup {n} ELSE At(s, id)
  BY <1>1 DEF At
<1> HIDE DEF n
<1>5. Cardinality(At(s, id) \cup {n}) = Cardinality(At(s, id)) + 1
  BY <1>2, <1>3, FS_AddElement
<1> QED BY <1>2, <1>4, <1>5

\* A step that announces nothing, and makes nothing due, preserves Told.
LEMMA DueShrinks ==
  ASSUME IInv, Told, UNCHANGED <<topic, dlq, cutOvers>>,
         \A i \in Ingesters : pc'[i] \in {"evict", "emit"} =>
           pc[i] \in {"evict", "emit"} /\ req'[i] = req[i]
  PROVE  Told'
<1>1. ASSUME NEW id \in SnapshotIds
      PROVE  /\ IsFiniteSet(Due(id)')
             /\ Cardinality(At(topic, id)) + Cardinality(Due(id)')
                  <= Cardinality(At(cutOvers, id))
  <2>1. Due(id)' \subseteq Due(id)
    BY DEF Due
  <2>2. IsFiniteSet(Due(id)') /\ Cardinality(Due(id)') <= Cardinality(Due(id))
        /\ Cardinality(Due(id)) \in Nat /\ Cardinality(Due(id)') \in Nat
    BY <2>1, FS_Subset, FS_CardinalityType DEF Told
  <2>3. Cardinality(At(topic, id)) \in Nat /\ Cardinality(At(cutOvers, id)) \in Nat
    BY AtFinite DEF IInv, TypeOK
  <2>4. Cardinality(At(topic, id)) + Cardinality(Due(id)) <= Cardinality(At(cutOvers, id))
    BY DEF Told
  <2> QED BY <2>2, <2>3, <2>4
<1>2. \A id : At(topic, id)' = At(topic, id) /\ At(cutOvers, id)' = At(cutOvers, id)
  BY DEF At
<1> QED BY <1>1, <1>2 DEF Told

\* The commit makes its own snapshot due.
LEMMA CommitTold == ASSUME IInv, Told, NEW i \in Ingesters, commitCutOver(i) PROVE Told'
<1>1. /\ pc[i] = "commit" /\ cutOvers' = Append(cutOvers, req[i])
      /\ UNCHANGED <<topic, dlq, req>>
      /\ \E p \in {"evict", "emit"} : pc' = [pc EXCEPT ![i] = p]
  BY DEF commitCutOver, Goto
<1>2. req[i] \in Snapshot /\ cutOvers \in Seq(Snapshot)
  BY <1>1 DEF IInv, TypeOK, RequestOK
<1>3. \A id : /\ Due(id)' = IF req[i].id = id THEN Due(id) \cup {i} ELSE Due(id)
              /\ i \notin Due(id)
              /\ At(topic, id)' = At(topic, id)
  BY <1>1 DEF IInv, TypeOK, Due, At
<1>4. ASSUME NEW id
      PROVE  /\ Cardinality(At(cutOvers, id)') = Cardinality(At(cutOvers, id))
                                                 + (IF req[i].id = id THEN 1 ELSE 0)
             /\ Cardinality(At(cutOvers, id)) \in Nat
  <2>1. At(cutOvers, id)' = At(Append(cutOvers, req[i]), id)
    BY <1>1 DEF At
  <2> QED BY <1>2, <2>1, AtAppend, AtFinite
<1>5. ASSUME NEW id \in SnapshotIds
      PROVE  /\ IsFiniteSet(Due(id)')
             /\ Cardinality(At(topic, id)') + Cardinality(Due(id)')
                  <= Cardinality(At(cutOvers, id)')
  <2>1. /\ IsFiniteSet(Due(id)) /\ Cardinality(Due(id)) \in Nat
        /\ Cardinality(At(topic, id)) + Cardinality(Due(id)) <= Cardinality(At(cutOvers, id))
    BY FS_CardinalityType DEF Told
  <2>2. Cardinality(At(topic, id)) \in Nat
    BY AtFinite DEF IInv, TypeOK
  <2>3. /\ IsFiniteSet(Due(id)')
        /\ Cardinality(Due(id)') = Cardinality(Due(id)) + (IF req[i].id = id THEN 1 ELSE 0)
    BY <1>3, <2>1, FS_AddElement
  <2> QED BY <1>3, <1>4, <2>1, <2>2, <2>3
<1>6. ASSUME NEW id \in dlq' PROVE Cardinality(At(cutOvers, id)') > 0
  BY <1>1, <1>4 DEF Told
<1> QED BY <1>5, <1>6 DEF Told

\* Whatever becomes of the event, it is no longer due.
LEMMA EmitTold == ASSUME IInv, Told, NEW i \in Ingesters, emit(i) PROVE Told'
<1> DEFINE event == [id |-> req[i].id, changeType |-> req[i].changeType]
<1>1. /\ pc[i] = "emit" /\ pc' = [pc EXCEPT ![i] = "record"]
      /\ UNCHANGED <<req, cutOvers>>
      /\ topic' \in {topic, Append(topic, event)} /\ dlq' \in {dlq, dlq \cup {req[i].id}}
  BY DEF emit, Goto
<1>2. /\ req[i] \in Snapshot /\ req[i].id \in SnapshotIds
      /\ topic \in Seq([id : SnapshotIds, changeType : ChangeTypes])
      /\ event \in [id : SnapshotIds, changeType : ChangeTypes] /\ event.id = req[i].id
  BY <1>1 DEF IInv, TypeOK, RequestOK, Snapshot
<1>3. \A id : /\ Due(id)' = Due(id) \ {i} /\ (i \in Due(id) <=> req[i].id = id)
              /\ At(cutOvers, id)' = At(cutOvers, id)
  BY <1>1 DEF IInv, TypeOK, Due, At
<1>4. ASSUME NEW id
      PROVE  /\ Cardinality(At(topic, id)') <= Cardinality(At(topic, id))
                                               + (IF req[i].id = id THEN 1 ELSE 0)
             /\ Cardinality(At(topic, id)) \in Nat /\ Cardinality(At(topic, id)') \in Nat
  <2>1. At(topic, id)' = At(topic', id)
    BY DEF At
  <2>2. Cardinality(At(topic, id)) \in Nat
    BY <1>2, AtFinite
  <2>3. CASE topic' = topic
    BY <2>1, <2>2, <2>3
  <2>4. CASE topic' = Append(topic, event)
    <3> HIDE DEF event
    <3>1. Cardinality(At(Append(topic, event), id))
            = Cardinality(At(topic, id)) + (IF event.id = id THEN 1 ELSE 0)
      BY <1>2, AtAppend
    <3> QED BY <1>2, <2>1, <2>2, <2>4, <3>1
  <2> QED BY <1>1, <2>3, <2>4
<1>5. ASSUME NEW id \in SnapshotIds
      PROVE  /\ IsFiniteSet(Due(id)')
             /\ Cardinality(At(topic, id)') + Cardinality(Due(id)')
                  <= Cardinality(At(cutOvers, id))
  <2>1. /\ IsFiniteSet(Due(id)) /\ Cardinality(Due(id)) \in Nat
        /\ Cardinality(At(topic, id)) + Cardinality(Due(id)) <= Cardinality(At(cutOvers, id))
    BY FS_CardinalityType DEF Told
  <2>2. Cardinality(At(cutOvers, id)) \in Nat
    BY AtFinite DEF IInv, TypeOK
  <2>3. /\ IsFiniteSet(Due(id)')
        /\ Cardinality(Due(id)') = Cardinality(Due(id)) - (IF req[i].id = id THEN 1 ELSE 0)
    BY <1>3, <2>1, FS_RemoveElement
  <2> QED BY <1>4, <2>1, <2>2, <2>3
<1>6. ASSUME NEW id \in dlq' PROVE Cardinality(At(cutOvers, id)) > 0
  <2>1. CASE id \in dlq
    BY <2>1 DEF Told
  <2>2. CASE id = req[i].id
    <3>1. /\ IsFiniteSet(Due(id)) /\ Due(id) # {} /\ id \in SnapshotIds
          /\ Cardinality(At(topic, id)) + Cardinality(Due(id)) <= Cardinality(At(cutOvers, id))
      BY <1>2, <1>3, <2>2 DEF Told
    <3>2. Cardinality(Due(id)) \in Nat \ {0}
      BY <3>1, FS_CardinalityType, FS_EmptySet
    <3>3. Cardinality(At(cutOvers, id)) \in Nat
      BY AtFinite DEF IInv, TypeOK
    <3> QED BY <1>4, <3>1, <3>2, <3>3
  <2> QED BY <1>1, <2>1, <2>2
<1> QED BY <1>3, <1>5, <1>6 DEF Told

LEMMA InitTold == Init => Told
<1> SUFFICES ASSUME Init PROVE Told
  OBVIOUS
<1>1. \A id \in SnapshotIds : Due(id) = {} /\ At(topic, id) = {} /\ At(cutOvers, id) = {}
  BY DEF Init, Due, At
<1>2. dlq = {} /\ IsFiniteSet({}) /\ Cardinality({}) = 0
  BY FS_EmptySet DEF Init
<1> QED BY <1>1, <1>2 DEF Told

LEMMA ToldStep == ASSUME IInv, Told, [Next]_vars PROVE Told'
<1> DEFINE Quiet == /\ UNCHANGED <<topic, dlq, cutOvers>>
                    /\ \A i \in Ingesters : pc'[i] \in {"evict", "emit"} =>
                         pc[i] \in {"evict", "emit"} /\ req'[i] = req[i]
<1>1. Quiet => Told'
  BY DueShrinks
<1>2. ASSUME NEW i \in Ingesters, Fail(i) PROVE Quiet
  BY <1>2 DEF Fail, Return, Goto, IInv, TypeOK
<1>3. ASSUME NEW i \in Ingesters, Begin(i) PROVE Quiet
  <2>1. /\ pc' = [pc EXCEPT ![i] = "write"] /\ UNCHANGED <<topic, dlq, cutOvers>>
        /\ \E r : req' = [req EXCEPT ![i] = r]
    BY <1>3 DEF Begin, Goto
  <2> QED BY <2>1 DEF IInv, TypeOK
<1>4. ASSUME NEW i \in Ingesters, writeSnapshot(i) PROVE Quiet
  BY <1>4 DEF writeSnapshot
<1>5. ASSUME NEW i \in Ingesters, InTx(i) PROVE Quiet
  <2>1. pc'[i] \in TxPhases => pc'[i] \notin {"evict", "emit"}
    BY DEF TxPhases
  <2> QED BY <1>5, <2>1, InTxFrame DEF IInv
<1>6. ASSUME NEW i \in Ingesters, evict(i) PROVE Quiet
  BY <1>6, EvictFrame DEF IInv
<1>12. ASSUME NEW i \in Ingesters, recordEventId(i) PROVE Quiet
  BY <1>12 DEF recordEventId, Return, Goto, IInv, TypeOK
<1>7. ASSUME Reaper PROVE Quiet
  BY <1>7 DEF Reaper, readKnown, scanGraph, reap
<1>8. ASSUME Crash PROVE Quiet
  BY <1>8 DEF Crash
<1>9. ASSUME UNCHANGED vars PROVE Quiet
  BY <1>9 DEF vars
<1> HIDE DEF Quiet
<1>10. ASSUME NEW i \in Ingesters, Step(i) PROVE Told'
  BY <1>1, <1>2, <1>4, <1>5, <1>6, <1>10, <1>12, CommitTold, EmitTold
     DEF Step, DeadlockDetected, InTx
<1>11. ASSUME NEW i \in Ingesters, GraphFails(i) \/ DatabaseFails(i) \/ SerializeFails(i)
       PROVE  Told'
  BY <1>1, <1>2, <1>11 DEF GraphFails, DatabaseFails, SerializeFails
<1> QED BY <1>1, <1>3, <1>7, <1>8, <1>9, <1>10, <1>11 DEF Next

\* Whatever the topic refuses and wherever the process dies, consumers hear of
\* a snapshot only after its cut-over, and at most once for each.
THEOREM EventsFollowCutOversCorrect == Spec => []EventsFollowCutOvers
<1>1. Init => Told
  BY InitTold
<1>2. IInv /\ Told /\ [Next]_vars => Told'
  BY ToldStep
<1>3. ASSUME IInv, Told PROVE EventsFollowCutOvers
  <2>1. ASSUME NEW id \in SnapshotIds
        PROVE  Cardinality(At(topic, id)) <= Cardinality(At(cutOvers, id))
    <3>1. /\ Cardinality(At(topic, id)) \in Nat /\ Cardinality(At(cutOvers, id)) \in Nat
          /\ Cardinality(Due(id)) \in Nat
      BY <1>3, AtFinite, FS_CardinalityType DEF IInv, TypeOK, Told
    <3> QED BY <1>3, <3>1 DEF Told
  <2> QED BY <1>3, <2>1 DEF EventsFollowCutOvers, Told, At
<1> QED BY <1>1, <1>2, <1>3, Inductive, PTL DEF Spec

-----------------------------------------------------------------------------
(* The graph, if no producer supplies ids.                                 *)

CutOverIds == {cutOvers[n].id : n \in DOMAIN cutOvers}
Whole(s)   == Stamped(s.id) = s.nodes /\ Linked(s.id) = s.links

\* A request cuts over to an id once, and evicts the one snapshot it found, the
\* row of which it deletes.
Single(i) ==
  /\ pc[i] \in Pending => req[i].id \notin CutOverIds
  /\ pc[i] \in {"idle", "write", "find", "delete"} => gone[i] = {}
  /\ gone[i] \subseteq found[i]
  /\ \A s, t \in found[i] : s = t

\* Stamps are ids that were handed out, and what the table retains was cut over
\* to.
Stamps ==
  /\ \A o \in Objects : vertex[o] \in minted \cup {NoSnapshot}
  /\ \A l \in Links : edge[l] \in minted \cup {NoSnapshot}
  /\ allSnapshotIds \subseteq CutOverIds /\ CutOverIds \subseteq minted
  /\ \A i \in Ingesters : Single(i)

\* An ingest that is alone has written what it no longer has to write, and what
\* is current when it does not write is whole.
Alone ==
  ~disturbed =>
    /\ reaper = "done" \/ (rows = {} /\ \A i \in Ingesters : pc[i] = "idle")
    /\ \A i, j \in Ingesters : "idle" \notin {pc[i], pc[j]} => i = j
    /\ \A i \in Ingesters :
         /\ pc[i] = "write" => /\ left[i] \subseteq req[i].nodes \cup req[i].links
                               /\ Stamped(req[i].id) = req[i].nodes \ left[i]
                               /\ Linked(req[i].id) = req[i].links \ left[i]
         /\ pc[i] \in TxPhases => Whole(req[i])
    /\ SettledCurrentIsWhole

\* A step of one request, or of none, that neither commits nor stamps a vertex
\* or an edge with an id that was not handed out.
LEMMA StampsKept ==
  ASSUME Stamps, UNCHANGED <<rows, cutOvers>>, minted \subseteq minted',
         \A o \in Objects : vertex'[o] \in {vertex[o]} \cup minted' \cup {NoSnapshot},
         \A l \in Links : edge'[l] \in {edge[l]} \cup minted' \cup {NoSnapshot},
         \A j \in Ingesters : \/ Single(j)'
                              \/ /\ pc'[j] = pc[j] /\ req'[j] = req[j]
                                 /\ gone'[j] = gone[j] /\ found'[j] = found[j]
  PROVE  Stamps'
<1>1. allSnapshotIds' = allSnapshotIds /\ CutOverIds' = CutOverIds
  BY DEF allSnapshotIds, CutOverIds
<1>2. \A j \in Ingesters : Single(j)'
  BY <1>1 DEF Stamps, Single
<1> QED BY <1>1, <1>2 DEF Stamps

LEMMA StampsReturn ==
  ASSUME IInv, Stamps, NEW i \in Ingesters, Return(i),
         UNCHANGED <<rows, vertex, edge, cutOvers, minted>>
  PROVE  Stamps'
<1> USE DEF IInv, TypeOK, Return, Goto
<1>1. Single(i)'
  BY DEF Single, Pending, TxPhases
<1>2. \A j \in Ingesters \ {i} : /\ pc'[j] = pc[j] /\ req'[j] = req[j]
                                 /\ gone'[j] = gone[j] /\ found'[j] = found[j]
  OBVIOUS
<1> QED BY <1>1, <1>2, StampsKept

LEMMA StampsBegin == ASSUME IInv, Stamps, NEW i \in Ingesters, Begin(i), Supplied = {}
                     PROVE  Stamps'
<1>1. PICK id, r : /\ id \in Minted \ minted /\ minted' = minted \cup {id}
                   /\ req' = [req EXCEPT ![i] = r] /\ r.id = id
  <2>1. PICK new \in (Minted \ minted) \cup Supplied, f \in Files,
             hint \in {"none", "incremental"} :
          /\ minted' = minted \cup ({new} \cap Minted)
          /\ req' = [req EXCEPT ![i] =
                       [id |-> new, nodes |-> f.nodes, links |-> f.links,
                        changeType |-> resolveChangeType(hint, isFirstIngest)]]
          /\ left' = [left EXCEPT ![i] = f.nodes \cup f.links]
    BY DEF Begin
  <2>2. new \in Minted \ minted /\ {new} \cap Minted = {new}
    BY <2>1
  <2> QED BY <2>1, <2>2
<1>2. /\ pc[i] = "idle" /\ pc' = [pc EXCEPT ![i] = "write"]
      /\ UNCHANGED <<rows, vertex, edge, cutOvers, found, gone>>
  BY DEF Begin, Goto
<1>3. id \notin CutOverIds /\ CutOverIds' = CutOverIds
  BY <1>1, <1>2 DEF Stamps, CutOverIds
<1>4. Single(i)'
  BY <1>1, <1>2, <1>3 DEF IInv, TypeOK, Stamps, Single
<1>5. \A j \in Ingesters \ {i} : /\ pc'[j] = pc[j] /\ req'[j] = req[j]
                                 /\ gone'[j] = gone[j] /\ found'[j] = found[j]
  BY <1>1, <1>2 DEF IInv, TypeOK
<1> QED BY <1>1, <1>2, <1>4, <1>5, StampsKept

LEMMA StampsWrite == ASSUME IInv, Stamps, NEW i \in Ingesters, writeSnapshot(i), Supplied = {}
                     PROVE  Stamps'
<1>1. req[i].id \in minted
  <2>1. pc[i] = "write"
    BY DEF writeSnapshot
  <2> QED BY <2>1 DEF IInv, RequestOK, Pending, Snapshot, SnapshotIds
<1>2. /\ \A o \in Objects : vertex'[o] \in {vertex[o], req[i].id}
      /\ \A l \in Links : edge'[l] \in {edge[l], req[i].id}
  BY DEF writeSnapshot, IInv, TypeOK
<1>3. UNCHANGED <<rows, cutOvers, minted, pc, req, gone, found>>
  BY DEF writeSnapshot
<1> QED BY <1>1, <1>2, <1>3, StampsKept

LEMMA StampsEvict == ASSUME IInv, Stamps, NEW i \in Ingesters, evict(i) PROVE Stamps'
<1>1. Single(i)'
  BY EvictFrame DEF IInv, Stamps, Single, Pending, TxPhases, CutOverIds
<1> QED BY <1>1, EvictFrame, StampsKept DEF IInv

LEMMA StampsReaper == ASSUME IInv, Stamps, Reaper PROVE Stamps'
<1>1. /\ \A o \in Objects : vertex'[o] \in {vertex[o], NoSnapshot}
      /\ \A l \in Links : edge'[l] \in {edge[l], NoSnapshot}
  BY DeleteClears DEF Reaper, readKnown, scanGraph, reap, IInv, graphVars
<1>2. UNCHANGED <<rows, cutOvers, minted, pc, req, gone, found>>
  BY DEF Reaper, readKnown, scanGraph, reap
<1> QED BY <1>1, <1>2, StampsKept

LEMMA StampsInTx == ASSUME IInv, Stamps, NEW i \in Ingesters, InTx(i) PROVE Stamps'
<1>1. /\ \A j \in Ingesters \ {i} : /\ pc'[j] = pc[j] /\ gone'[j] = gone[j]
                                    /\ found'[j] = found[j]
      /\ pc[i] \in Pending /\ UNCHANGED <<rows, vertex, edge, cutOvers, minted, req>>
  BY InTxFrame DEF IInv
<1>2. /\ gone'[i] \subseteq found'[i] /\ \A s, t \in found'[i] : s = t
      /\ pc'[i] \in {"idle", "write", "find", "delete"} => gone'[i] = {}
  <2>1. Single(i)
    BY DEF Stamps
  <2>2. CASE findPreviousSnapshotId(i)
    <3>1. /\ pc[i] = "find" /\ found'[i] = Ids("previous") /\ gone' = gone
      BY <2>2 DEF findPreviousSnapshotId, IInv, TypeOK
    <3>2. \A s, t \in Ids("previous") : s = t
      BY DEF IInv, TableOK, Ids
    <3> QED BY <2>1, <3>1, <3>2 DEF Single
  <2>3. CASE deleteBySnapshotId(i)
    <3>1. /\ gone'[i] = found[i] \cap allSnapshotIds /\ found' = found /\ pc'[i] = "demote"
      BY <2>3 DEF deleteBySnapshotId, Goto, IInv, TypeOK
    <3> QED BY <2>1, <3>1 DEF Single
  <2>4. CASE StartCutOver(i)
    BY <2>1, <2>4 DEF StartCutOver, Single
  <2>5. CASE demoteCurrentToPrevious(i) \/ resumeDemote(i)
             \/ ((checkPrevious(i) \/ insert(i)) /\ ~Fail(i))
    <3>1. /\ gone' = gone /\ found' = found
          /\ pc'[i] \in {"index", "wait", "insert", "commit"}
      BY <2>5 DEF demoteCurrentToPrevious, resumeDemote, checkPrevious, insert, Goto,
                  IInv, TypeOK
    <3> QED BY <2>1, <3>1 DEF Single
  <2> QED BY <2>2, <2>3, <2>4, <2>5 DEF InTx
<1>3. CutOverIds' = CutOverIds
  BY <1>1 DEF CutOverIds
<1>4. Single(i)'
  BY <1>1, <1>2, <1>3 DEF Stamps, Single
<1> QED BY <1>1, <1>4, StampsKept

\* The commit adds its own id to those cut over to.
LEMMA CommitIds ==
  ASSUME IInv, NEW i \in Ingesters, commitCutOver(i)
  PROVE  CutOverIds' = CutOverIds \cup {req[i].id}
<1>1. /\ cutOvers' = Append(cutOvers, req[i]) /\ cutOvers \in Seq(Snapshot)
      /\ req[i] \in Snapshot
  BY CommitFacts DEF commitCutOver, IInv, TypeOK
<1>2. /\ DOMAIN cutOvers = 1..Len(cutOvers) /\ Len(cutOvers) \in Nat
      /\ DOMAIN cutOvers' = 1..Len(cutOvers) + 1
      /\ \A k \in 1..Len(cutOvers) : cutOvers'[k] = cutOvers[k]
      /\ cutOvers'[Len(cutOvers) + 1] = req[i]
  BY <1>1, AppendProperties, LenProperties
<1> QED BY <1>2 DEF CutOverIds

LEMMA StampsCommit == ASSUME IInv, Stamps, NEW i \in Ingesters, commitCutOver(i), Supplied = {}
                      PROVE  Stamps'
<1>1. /\ pc[i] = "commit" /\ gone' = [gone EXCEPT ![i] = {}]
      /\ \E p \in {"evict", "emit"} : pc' = [pc EXCEPT ![i] = p]
      /\ UNCHANGED <<vertex, edge, minted, req, found>>
  BY DEF commitCutOver, Goto
<1>2. req[i].id \in minted
  BY <1>1, CommitFacts DEF Snapshot, SnapshotIds
<1>3. allSnapshotIds' \subseteq CutOverIds' /\ CutOverIds' \subseteq minted'
  BY <1>1, <1>2, CommitTable, CommitIds DEF Stamps
<1>4. Single(i)'
  BY <1>1 DEF IInv, TypeOK, Stamps, Single, Pending, TxPhases
<1>5. ASSUME NEW j \in Ingesters \ {i} PROVE Single(j)'
  <2>1. Single(j) /\ Apart(i, j) /\ RequestOK(j)
    BY DEF IInv, Stamps
  <2>2. pc'[j] = pc[j] /\ req'[j] = req[j] /\ gone'[j] = gone[j] /\ found'[j] = found[j]
    BY <1>1 DEF IInv, TypeOK
  <2>3. pc[j] \in Pending => req[j].id # req[i].id
    BY <1>1, <1>2, <2>1 DEF Apart, Pending, TxPhases, IInv, TypeOK
  <2> QED BY <2>1, <2>2, <2>3, CommitIds DEF Single
<1>6. \A j \in Ingesters : Single(j)'
  BY <1>4, <1>5
<1> QED BY <1>1, <1>3, <1>6 DEF Stamps

LEMMA StampsStep == ASSUME IInv, Stamps, [Next]_vars, Supplied = {} PROVE Stamps'
<1>1. ASSUME NEW i \in Ingesters, Fail(i) PROVE Stamps'
  BY <1>1, StampsReturn DEF Fail
<1>2. ASSUME NEW i \in Ingesters, emit(i) \/ recordEventId(i) PROVE Stamps'
  <2>1. CASE emit(i)
    <3>1. /\ pc[i] = "emit" /\ pc'[i] = "record"
          /\ \A j \in Ingesters \ {i} : pc'[j] = pc[j]
          /\ UNCHANGED <<rows, vertex, edge, cutOvers, minted, req, gone, found>>
      BY <2>1 DEF emit, Goto, IInv, TypeOK
    <3>2. Single(i)'
      <4>1. Single(i)
        BY DEF Stamps
      <4>2. "record" \notin Pending /\ "record" \notin {"idle", "write", "find", "delete"}
        BY DEF Pending, TxPhases
      <4> QED BY <3>1, <4>1, <4>2 DEF Single
    <3> QED BY <3>1, <3>2, StampsKept
  <2>2. CASE recordEventId(i)
    BY <2>2, StampsReturn DEF recordEventId
  <2> QED BY <1>2, <2>1, <2>2
<1>3. ASSUME NEW i \in Ingesters, Step(i) PROVE Stamps'
  BY <1>1, <1>2, <1>3, StampsWrite, StampsInTx, StampsCommit, StampsEvict
     DEF Step, DeadlockDetected, InTx
<1>4. ASSUME NEW i \in Ingesters, GraphFails(i) \/ DatabaseFails(i) \/ SerializeFails(i)
      PROVE  Stamps'
  BY <1>1, <1>4 DEF GraphFails, DatabaseFails, SerializeFails
<1>5. CASE Crash
  <2>1. \A j \in Ingesters : Single(j)'
    BY <1>5 DEF Crash, Single, Pending, TxPhases
  <2> QED BY <1>5, <2>1, StampsKept DEF Crash
<1>6. CASE UNCHANGED vars
  BY <1>6, StampsKept DEF vars
<1> QED BY <1>3, <1>4, <1>5, <1>6, StampsBegin, StampsReaper DEF Next

\* What is whole stays whole as long as the graph is left alone.
LEMMA WholeKept ==
  ASSUME UNCHANGED <<rows, vertex, edge>>
  PROVE  /\ CurrentIsWhole' <=> CurrentIsWhole
         /\ \A s : /\ Whole(s)' <=> Whole(s)
                   /\ Stamped(s)' = Stamped(s) /\ Linked(s)' = Linked(s)
BY DEF CurrentIsWhole, Whole, Stamped, Linked

\* An ingest that begins alone writes under an id that marks nothing yet.
LEMMA AloneBegin ==
  ASSUME IInv, Stamps, NEW i \in Ingesters, Begin(i), Supplied = {}
  PROVE  Alone'
<1> SUFFICES ASSUME ~disturbed' PROVE Alone'
  BY DEF Alone
<1>1. PICK id \in (Minted \ minted) \cup Supplied, f \in Files,
           hint \in {"none", "incremental"} :
        /\ req' = [req EXCEPT ![i] =
                     [id |-> id, nodes |-> f.nodes, links |-> f.links,
                      changeType |-> resolveChangeType(hint, isFirstIngest)]]
        /\ left' = [left EXCEPT ![i] = f.nodes \cup f.links]
  BY DEF Begin
<1>2. /\ reaper' = "done" /\ \A j \in Ingesters : pc[j] = "idle"
      /\ pc' = [pc EXCEPT ![i] = "write"] /\ UNCHANGED <<rows, vertex, edge>>
  BY DEF Begin, Goto
<1>3. /\ pc'[i] = "write" /\ \A j \in Ingesters \ {i} : pc'[j] = "idle"
      /\ req'[i].id = id /\ req'[i].nodes = f.nodes /\ req'[i].links = f.links
      /\ left'[i] = f.nodes \cup f.links
  BY <1>1, <1>2 DEF IInv, TypeOK
<1>4. Stamped(id)' = {} /\ Linked(id)' = {}
  <2>1. id \notin minted \cup {NoSnapshot}
    BY IdsAssumption DEF SnapshotIds
  <2> QED BY <1>2, <2>1 DEF Stamps, Stamped, Linked
<1>5. /\ left[i]' \subseteq req[i].nodes' \cup req[i].links'
      /\ Stamped(req[i].id)' = req[i].nodes' \ left[i]'
      /\ Linked(req[i].id)' = req[i].links' \ left[i]'
  BY <1>3, <1>4 DEF Stamped, Linked
<1> QED BY <1>2, <1>3, <1>5 DEF Alone, SettledCurrentIsWhole, TxPhases

\* Each statement of its graph write takes one vertex or edge off the list.
LEMMA AloneWrite ==
  ASSUME IInv, Alone, NEW i \in Ingesters, writeSnapshot(i)
  PROVE  Alone'
<1> SUFFICES ASSUME ~disturbed PROVE Alone'
  BY DEF writeSnapshot, Alone
<1>1. /\ pc[i] = "write" /\ reaper = "done"
      /\ UNCHANGED <<rows, disturbed, reaper, pc, req>>
      /\ \A j \in Ingesters : pc[j] # "idle" => j = i
  BY DEF writeSnapshot, Alone
<1>2. /\ left[i] \subseteq req[i].nodes \cup req[i].links
      /\ Stamped(req[i].id) = req[i].nodes \ left[i]
      /\ Linked(req[i].id) = req[i].links \ left[i]
  BY <1>1 DEF Alone
<1>3. /\ req[i].nodes \subseteq Objects /\ req[i].links \subseteq Links
      /\ Objects \cap Links = {}
  BY <1>1, LinksAssumption DEF IInv, RequestOK, Snapshot
<1>4. /\ left'[i] \subseteq req[i].nodes \cup req[i].links
      /\ Stamped(req[i].id)' = req[i].nodes \ left'[i]
      /\ Linked(req[i].id)' = req[i].links \ left'[i]
  <2>1. ASSUME NEW o \in left[i] \cap Objects, vertex' = [vertex EXCEPT ![o] = req[i].id],
               left' = [left EXCEPT ![i] = @ \ {o}], edge' = edge
        PROVE  <1>4!:
    <3>1. o \in req[i].nodes /\ o \notin req[i].links /\ left'[i] = left[i] \ {o}
      BY <1>2, <1>3, <2>1 DEF IInv, TypeOK
    <3>2. Stamped(req[i].id)' = Stamped(req[i].id) \cup {o}
      BY <1>1, <2>1 DEF IInv, TypeOK, Stamped
    <3>3. Linked(req[i].id)' = Linked(req[i].id)
      BY <1>1, <2>1 DEF Linked
    <3> QED BY <1>2, <3>1, <3>2, <3>3
  <2>2. ASSUME NEW l \in left[i], left[i] \cap Objects = {},
               edge' = [edge EXCEPT ![l] = req[i].id],
               left' = [left EXCEPT ![i] = @ \ {l}], vertex' = vertex
        PROVE  <1>4!:
    <3>1. l \in req[i].links /\ l \notin req[i].nodes /\ left'[i] = left[i] \ {l}
      BY <1>2, <1>3, <2>2 DEF IInv, TypeOK
    <3>2. Linked(req[i].id)' = Linked(req[i].id) \cup {l}
      BY <1>1, <1>3, <2>2, <3>1 DEF IInv, TypeOK, Linked
    <3>3. Stamped(req[i].id)' = Stamped(req[i].id)
      BY <1>1, <2>2 DEF Stamped
    <3> QED BY <1>2, <3>1, <3>2, <3>3
  <2> QED BY <2>1, <2>2 DEF writeSnapshot
<1> QED BY <1>1, <1>4 DEF Alone, SettledCurrentIsWhole, TxPhases

LEMMA AloneInTx == ASSUME IInv, Alone, NEW i \in Ingesters, InTx(i) PROVE Alone'
<1>1. /\ pc[i] \in Pending /\ pc'[i] \in TxPhases /\ (pc[i] = "write" => left[i] = {})
      /\ \A j \in Ingesters \ {i} : pc'[j] = pc[j]
      /\ UNCHANGED <<rows, vertex, edge, disturbed, req, left, reaper>>
  BY InTxFrame DEF IInv
<1> SUFFICES ASSUME ~disturbed PROVE Alone'
  BY <1>1 DEF Alone
<1>2. /\ pc[i] # "idle" /\ pc'[i] \notin {"idle", "write", "evict", "emit", "record"}
  BY <1>1 DEF Pending, TxPhases
<1>3. reaper = "done" /\ \A j \in Ingesters \ {i} : pc[j] = "idle"
  BY <1>2 DEF Alone
<1>4. Whole(req[i])
  <2>1. CASE pc[i] = "write"
    BY <1>1, <2>1 DEF Alone, Whole
  <2>2. CASE pc[i] # "write"
    BY <1>1, <2>2 DEF Alone, Pending
  <2> QED BY <2>1, <2>2
<1>5. Whole(req[i])'
  BY <1>1, <1>4 DEF Whole, Stamped, Linked
<1> QED BY <1>1, <1>2, <1>3, <1>5 DEF Alone, SettledCurrentIsWhole, TxPhases

\* The commit makes current what has just been written, and nothing else.
LEMMA AloneCommit == ASSUME IInv, Alone, NEW i \in Ingesters, commitCutOver(i) PROVE Alone'
<1>1. /\ pc[i] = "commit" /\ \E p \in {"evict", "emit"} : pc' = [pc EXCEPT ![i] = p]
      /\ UNCHANGED <<vertex, edge, disturbed, req, reaper>>
  BY DEF commitCutOver, Goto
<1> SUFFICES ASSUME ~disturbed PROVE Alone'
  BY <1>1 DEF Alone
<1>2. reaper = "done" /\ \A j \in Ingesters \ {i} : pc[j] = "idle"
  BY <1>1 DEF Alone
<1>3. pc'[i] \in {"evict", "emit"} /\ \A j \in Ingesters \ {i} : pc'[j] = "idle"
  BY <1>1, <1>2 DEF IInv, TypeOK
<1>4. Whole(req[i])
  BY <1>1 DEF Alone, TxPhases
<1>5. CurrentIsWhole'
  BY <1>1, <1>4, CommitTable DEF CurrentIsWhole, Whole, Stamped, Linked
<1> QED BY <1>1, <1>2, <1>3, <1>5 DEF Alone, SettledCurrentIsWhole, TxPhases

\* The deletion of another snapshot takes nothing from a whole one: the ends of
\* its edges are vertices of its own.
LEMMA WholeSurvives ==
  ASSUME TypeOK, NEW s \in Snapshot, NEW e, NEW d, Whole(s), e # s.id,
         deleteVertex(e, d)
  PROVE  Whole(s)'
<1>1. /\ s.links \subseteq Links /\ s.id # NoSnapshot
      /\ \A l \in s.links : l[1] \in s.nodes /\ l[2] \in s.nodes
  BY IdsAssumption DEF Snapshot, Files
<1>2. Stamped(s.id)' = Stamped(s.id)
  BY <1>1 DEF deleteVertex, Stamped, TypeOK
<1>3. \A l \in s.links : vertex[l[1]] = s.id /\ vertex[l[2]] = s.id
  BY <1>1 DEF Whole, Stamped
<1>4. Linked(s.id)' = Linked(s.id)
  <2>1. \A l \in Links : edge'[l] = s.id => edge[l] = s.id
    BY <1>1 DEF deleteVertex
  <2>2. \A l \in Links : edge[l] = s.id => edge'[l] = s.id
    BY <1>3 DEF deleteVertex, Whole, Linked
  <2> QED BY <2>1, <2>2 DEF Linked
<1> QED BY <1>2, <1>4 DEF Whole

LEMMA AloneEvict ==
  ASSUME IInv, Alone, NEW i \in Ingesters, evict(i), Supplied = {}
  PROVE  Alone'
<1>1. /\ pc[i] = "evict" /\ pc'[i] \in {"evict", "emit"}
      /\ UNCHANGED <<rows, disturbed, req, reaper>>
  BY EvictFrame DEF IInv
<1> SUFFICES ASSUME ~disturbed PROVE Alone'
  BY <1>1 DEF Alone
<1>2. reaper = "done" /\ \A j \in Ingesters \ {i} : pc[j] = "idle"
  BY <1>1 DEF Alone
<1>3. \A j \in Ingesters \ {i} : pc'[j] = "idle"
  BY <1>2, EvictFrame DEF IInv
<1>4. CurrentIsWhole
  BY <1>1, <1>2 DEF Alone, SettledCurrentIsWhole
<1>5. CurrentIsWhole'
  <2>1. CASE UNCHANGED graphVars
    BY <1>1, <1>4, <2>1 DEF graphVars, CurrentIsWhole, Stamped, Linked
  <2>2. ASSUME NEW s \in found[i], NEW o, deleteVertex(s, o) PROVE CurrentIsWhole'
    <3>1. s \notin allSnapshotIds
      BY <1>1 DEF IInv, TypeOK, RequestOK, SnapshotIds
    <3>2. ASSUME NEW r \in rows, r.status = "current" PROVE Whole(r.snap)'
      <4>1. r.snap \in Snapshot /\ r.snap.id # s
        BY <3>1 DEF IInv, TypeOK, Row, allSnapshotIds
      <4>2. Whole(r.snap)
        BY <1>4, <3>2 DEF CurrentIsWhole, Whole
      <4> QED BY <2>2, <4>1, <4>2, WholeSurvives DEF IInv
    <3> QED BY <1>1, <3>2 DEF CurrentIsWhole, Whole, Stamped, Linked
  <2>3. CASE UNCHANGED <<vertex, edge, left>>
    BY <2>1, <2>3 DEF graphVars
  <2> QED BY <2>1, <2>2, <2>3 DEF evict
<1> QED BY <1>1, <1>2, <1>3, <1>5 DEF Alone, SettledCurrentIsWhole, TxPhases

LEMMA AloneEmit ==
  ASSUME IInv, Alone, NEW i \in Ingesters, emit(i) \/ recordEventId(i)
  PROVE  Alone'
<1>1. /\ pc[i] \in {"emit", "record"}
      /\ \E p \in {"record", "idle"} : pc' = [pc EXCEPT ![i] = p]
      /\ UNCHANGED <<rows, vertex, edge, disturbed, reaper>>
  BY DEF emit, recordEventId, Return, Goto
<1> SUFFICES ASSUME ~disturbed PROVE Alone'
  BY <1>1 DEF Alone
<1>2. reaper = "done" /\ \A j \in Ingesters \ {i} : pc[j] = "idle"
  BY <1>1 DEF Alone
<1>3. /\ pc'[i] \in {"record", "idle"} /\ \A j \in Ingesters \ {i} : pc'[j] = "idle"
  BY <1>1, <1>2 DEF IInv, TypeOK
<1>4. CurrentIsWhole'
  BY <1>1, <1>2, WholeKept DEF Alone, SettledCurrentIsWhole
<1> QED BY <1>1, <1>2, <1>3, <1>4 DEF Alone, SettledCurrentIsWhole, TxPhases

\* The reaper only meets an undisturbed service before its first ingest.
LEMMA AloneReaper == ASSUME Alone, Reaper PROVE Alone'
<1>1. reaper # "done" /\ UNCHANGED <<rows, disturbed, pc>>
  BY DEF Reaper, readKnown, scanGraph, reap
<1> SUFFICES ASSUME ~disturbed PROVE Alone'
  BY <1>1 DEF Alone
<1>2. rows' = {} /\ \A i \in Ingesters : pc'[i] = "idle"
  BY <1>1 DEF Alone
<1> QED BY <1>2 DEF Alone, SettledCurrentIsWhole, CurrentIsWhole, TxPhases

LEMMA AloneStep == ASSUME IInv, Stamps, Alone, [Next]_vars, Supplied = {} PROVE Alone'
<1>1. ASSUME NEW i \in Ingesters, Fail(i) PROVE Alone'
  BY <1>1 DEF Fail, Alone
<1>2. ASSUME NEW i \in Ingesters, Step(i) PROVE Alone'
  BY <1>1, <1>2, AloneWrite, AloneInTx, AloneCommit, AloneEvict, AloneEmit
     DEF Step, DeadlockDetected, InTx
<1>3. ASSUME NEW i \in Ingesters, GraphFails(i) \/ DatabaseFails(i) \/ SerializeFails(i)
      PROVE  Alone'
  BY <1>1, <1>3 DEF GraphFails, DatabaseFails, SerializeFails
<1>4. CASE Crash
  BY <1>4 DEF Crash, Alone
<1>5. CASE UNCHANGED vars
  BY <1>5 DEF vars, Alone, SettledCurrentIsWhole, CurrentIsWhole, Whole, Stamped, Linked
<1> QED BY <1>2, <1>3, <1>4, <1>5, AloneBegin, AloneReaper DEF Next

LEMMA InitGraph == Init => Stamps /\ Alone
<1> SUFFICES ASSUME Init PROVE Stamps /\ Alone
  OBVIOUS
<1>1. Stamps
  BY DEF Init, Stamps, Single, allSnapshotIds, CutOverIds, Pending, TxPhases
<1>2. Alone
  BY DEF Init, Alone, SettledCurrentIsWhole, CurrentIsWhole, TxPhases
<1> QED BY <1>1, <1>2

\* As long as ids are minted here, an ingest that nobody disturbs leaves a
\* current snapshot whose graph is exactly its file, whatever earlier ingests,
\* failures and restarts have left behind.
THEOREM SettledCurrentIsWholeCorrect ==
  ASSUME Supplied = {}
  PROVE  Spec => []SettledCurrentIsWhole
<1>1. Init => Stamps /\ Alone
  BY InitGraph
<1>2. IInv /\ Stamps /\ Alone /\ [Next]_vars => Stamps' /\ Alone'
  BY StampsStep, AloneStep
<1>3. Alone => SettledCurrentIsWhole
  BY DEF Alone, SettledCurrentIsWhole
<1> QED BY <1>1, <1>2, <1>3, Inductive, PTL DEF Spec

-----------------------------------------------------------------------------
(* The vertices of evicted snapshots, if no nGQL statement fails.          *)

\* An evicted snapshot that has vertices, and that nobody is about to delete, is
\* an orphan to the reaper.
Orphaned ==
  \A s \in Evicted : Stamped(s) # {} =>
    \/ \E i \in Ingesters : pc[i] = "evict" /\ s \in found[i] /\ Stamped(s) \subseteq left[i]
    \/ reaper = "known"
    \/ /\ reaper = "scan" /\ s \notin known
       /\ Stamped(s) \subseteq unread \/ {s} \X Objects \subseteq doomed
    \/ reaper = "reap" /\ {s} \X Stamped(s) \subseteq doomed

\* A step that evicts nothing, stamps no vertex with a snapshot that was cut over
\* to and gives up no eviction.
LEMMA OrphansKept ==
  ASSUME Orphaned, UNCHANGED <<rows, cutOvers, reaper, known, unread, doomed>>,
         \A o \in Objects : vertex'[o] \in CutOverIds => vertex'[o] = vertex[o],
         \A i \in Ingesters : pc[i] = "evict" =>
           pc'[i] = "evict" /\ found'[i] = found[i] /\ left'[i] = left[i]
  PROVE  Orphaned'
<1>1. Evicted' = Evicted /\ Evicted \subseteq CutOverIds
  BY DEF Evicted, allSnapshotIds, CutOverIds
<1>2. \A s \in Evicted : Stamped(s)' \subseteq Stamped(s)
  BY <1>1 DEF Stamped
<1> QED BY <1>1, <1>2 DEF Orphaned

\* The request that evicted a snapshot takes its vertices one by one.
LEMMA OrphansEvict ==
  ASSUME IInv, Stamps, Orphaned, NEW i \in Ingesters, evict(i), "graph" \notin Faults
  PROVE  Orphaned'
<1>1. Evicted' = Evicted /\ NoSnapshot \notin Evicted
  <2>1. CutOverIds \subseteq SnapshotIds
    BY DEF Stamps, IInv, TypeOK, SnapshotIds
  <2> QED BY <2>1, EvictFrame, IdsAssumption DEF IInv, Evicted, allSnapshotIds, CutOverIds
<1>2. \A s \in Evicted : Stamped(s)' \subseteq Stamped(s)
  BY <1>1, EvictFrame DEF IInv, Stamped
<1>3. ASSUME NEW s \in Evicted, s \in found[i], Stamped(s) \subseteq left[i],
             Stamped(s)' # {}
      PROVE  pc'[i] = "evict" /\ Stamped(s)' \subseteq left'[i]
  <2>1. pc[i] = "evict" /\ left[i] # {}
    BY <1>2, <1>3, EvictFrame DEF IInv
  <2>2. PICK e \in found[i], o \in left[i] :
          deleteVertex(e, o) /\ left' = [left EXCEPT ![i] = @ \ {o}] /\ pc' = pc
    BY <2>1 DEF evict
  <2>3. e = s
    BY <1>3 DEF Stamps, Single
  <2>4. o \notin Stamped(s)'
    BY <1>1, <2>2, <2>3 DEF deleteVertex, Stamped, IInv, TypeOK
  <2> QED BY <1>2, <1>3, <2>1, <2>2, <2>4 DEF IInv, TypeOK
<1>4. ASSUME NEW s \in Evicted, Stamped(s)' # {}
      PROVE  \/ \E j \in Ingesters : /\ pc'[j] = "evict" /\ s \in found'[j]
                                     /\ Stamped(s)' \subseteq left'[j]
             \/ reaper = "known"
             \/ /\ reaper = "scan" /\ s \notin known
                /\ Stamped(s)' \subseteq unread \/ {s} \X Objects \subseteq doomed
             \/ reaper = "reap" /\ {s} \X Stamped(s)' \subseteq doomed
  <2>1. Stamped(s) # {}
    BY <1>2, <1>4
  <2>2. CASE \E j \in Ingesters : pc[j] = "evict" /\ s \in found[j] /\ Stamped(s) \subseteq left[j]
    <3>1. PICK j \in Ingesters : pc[j] = "evict" /\ s \in found[j] /\ Stamped(s) \subseteq left[j]
      BY <2>2
    <3>2. found'[j] = found[j]
      BY EvictFrame DEF IInv
    <3>3. CASE j = i
      BY <1>3, <1>4, <3>1, <3>2, <3>3
    <3>4. CASE j # i
      BY <1>2, <3>1, <3>2, <3>4, EvictFrame DEF IInv
    <3> QED BY <3>3, <3>4
  <2> QED BY <1>2, <2>1, <2>2 DEF Orphaned
<1> QED BY <1>1, <1>4, EvictFrame DEF IInv, Orphaned

\* The commit evicts the row it deletes, and goes on to delete its graph.
LEMMA OrphansCommit ==
  ASSUME IInv, Stamps, Orphaned, NEW i \in Ingesters, commitCutOver(i)
  PROVE  Orphaned'
<1>1. /\ pc[i] = "commit"
      /\ pc' = [pc EXCEPT ![i] = IF found[i] = {} THEN "emit" ELSE "evict"]
      /\ left' = [left EXCEPT ![i] = IF found[i] = {} THEN {} ELSE Objects]
      /\ UNCHANGED <<vertex, found, reaper, known, unread, doomed>>
  BY DEF commitCutOver, Goto
<1>2. Evicted' \subseteq Evicted \cup gone[i]
  <2>1. /\ Evicted = CutOverIds \ allSnapshotIds
        /\ Evicted' = CutOverIds' \ allSnapshotIds'
    BY DEF Evicted, CutOverIds
  <2> QED BY <2>1, CommitTable, CommitIds
<1>3. /\ pc'[i] = IF found[i] = {} THEN "emit" ELSE "evict"
      /\ left'[i] = IF found[i] = {} THEN {} ELSE Objects
      /\ \A j \in Ingesters \ {i} : pc'[j] = pc[j] /\ left'[j] = left[j]
  BY <1>1 DEF IInv, TypeOK
<1>4. gone[i] \subseteq found[i]
  BY DEF Stamps, Single
<1>5. \A s : Stamped(s)' = Stamped(s) /\ Stamped(s) \subseteq Objects
  BY <1>1 DEF Stamped
<1> QED BY <1>1, <1>2, <1>3, <1>4, <1>5 DEF Orphaned

\* The reaper reads the table before it scans the graph: what it has known when
\* it was evicted is deleted by the request that evicted it.
LEMMA OrphansReaper ==
  ASSUME IInv, Stamps, Orphaned, Reaper, "graph" \notin Faults
  PROVE  Orphaned'
<1>1. /\ UNCHANGED <<rows, cutOvers, pc, found>>
      /\ \A o \in Objects : vertex'[o] \in {vertex[o], NoSnapshot}
  BY DeleteClears DEF Reaper, readKnown, scanGraph, reap, IInv, graphVars
<1>2. Evicted' = Evicted /\ NoSnapshot \notin Evicted
  <2>1. CutOverIds \subseteq SnapshotIds
    BY DEF Stamps, IInv, TypeOK, SnapshotIds
  <2> QED BY <1>1, <2>1, IdsAssumption DEF Evicted, allSnapshotIds, CutOverIds
<1>3. \A s \in Evicted : Stamped(s)' \subseteq Stamped(s)
  BY <1>1, <1>2 DEF Stamped
<1>7. left' = left
  BY DEF Reaper, readKnown, scanGraph, reap
<1>4. CASE readKnown
  BY <1>1, <1>2, <1>3, <1>7, <1>4 DEF readKnown, Orphaned, Evicted, Stamped
<1>5. CASE scanGraph
  <2>1. CASE unread = {} /\ UNCHANGED <<unread, doomed>> /\ reaper' = "reap"
    <3>1. reaper = "scan" /\ \A s \in Evicted : Stamped(s) \subseteq Objects
      BY <1>5 DEF scanGraph, Stamped
    <3> QED BY <1>1, <1>2, <1>3, <1>7, <2>1, <3>1 DEF Orphaned
  <2>2. ASSUME NEW o \in unread, unread' = unread \ {o}, UNCHANGED <<reaper, known>>,
               doomed' = doomed \cup (({vertex[o]} \ (known \cup {NoSnapshot})) \X Objects)
        PROVE  Orphaned'
    <3>1. ASSUME NEW s \in Evicted, s \notin known, Stamped(s) \subseteq unread
          PROVE  Stamped(s)' \subseteq unread' \/ {s} \X Objects \subseteq doomed'
      <4>1. CASE o \in Stamped(s)
        BY <1>2, <2>2, <3>1, <4>1 DEF Stamped
      <4>2. CASE o \notin Stamped(s)
        BY <1>3, <2>2, <3>1, <4>2
      <4> QED BY <4>1, <4>2
    <3>2. reaper = "scan" /\ doomed \subseteq doomed'
      BY <1>5, <2>2 DEF scanGraph
    <3> QED BY <1>1, <1>2, <1>3, <1>7, <2>2, <3>1, <3>2 DEF Orphaned
  <2> QED BY <1>5, <2>1, <2>2 DEF scanGraph
<1>6. CASE reap
  <2>1. CASE doomed = {}
    <3>1. reaper = "reap" /\ UNCHANGED <<vertex, edge, doomed>>
      BY <1>6, <2>1 DEF reap
    <3>2. ASSUME NEW s \in Evicted, {s} \X Stamped(s) \subseteq doomed PROVE Stamped(s) = {}
      <4>1. \A o \in Stamped(s) : <<s, o>> \in doomed
        BY <3>2
      <4> QED BY <2>1, <4>1
    <3> QED BY <1>1, <1>2, <1>3, <1>7, <3>1, <3>2 DEF Orphaned
  <2>2. ASSUME NEW d \in doomed, deleteVertex(d[1], d[2]), doomed' = doomed \ {d},
               reaper' = reaper
        PROVE  Orphaned'
    <3>1. reaper = "reap" /\ d = <<d[1], d[2]>>
      BY <1>6 DEF reap, IInv, TypeOK
    <3>2. ASSUME NEW s \in Evicted, {s} \X Stamped(s) \subseteq doomed
          PROVE  {s} \X Stamped(s)' \subseteq doomed'
      <4>1. s = d[1] => d[2] \notin Stamped(s)'
        BY <1>2, <2>2 DEF deleteVertex, Stamped, IInv, TypeOK
      <4>2. ASSUME NEW o \in Stamped(s)' PROVE <<s, o>> \in doomed'
        <5>1. <<s, o>> \in doomed
          BY <1>3, <3>2
        <5>2. <<s, o>> # d
          BY <3>1, <4>1
        <5> QED BY <2>2, <5>1, <5>2
      <4> QED BY <4>2
    <3>3. ASSUME NEW s \in Evicted, Stamped(s)' # {}
          PROVE  \/ \E i \in Ingesters : /\ pc[i] = "evict" /\ s \in found[i]
                                         /\ Stamped(s)' \subseteq left[i]
                 \/ {s} \X Stamped(s)' \subseteq doomed'
      <4>1. Stamped(s) # {} /\ Stamped(s)' \subseteq Stamped(s)
        BY <1>3, <3>3
      <4>2. \/ \E i \in Ingesters : /\ pc[i] = "evict" /\ s \in found[i]
                                    /\ Stamped(s) \subseteq left[i]
            \/ {s} \X Stamped(s) \subseteq doomed
        BY <3>1, <4>1 DEF Orphaned
      <4> QED BY <3>2, <4>1, <4>2
    <3> QED BY <1>1, <1>2, <1>7, <2>2, <3>1, <3>3 DEF Orphaned
  <2> QED BY <1>6, <2>1, <2>2 DEF reap
<1> QED BY <1>4, <1>5, <1>6 DEF Reaper

LEMMA OrphansStep ==
  ASSUME IInv, Stamps, Orphaned, [Next]_vars, Supplied = {}, "graph" \notin Faults,
         BootstrapOnStartup \/ "crash" \notin Faults
  PROVE  Orphaned'
<1>1. ASSUME NEW i \in Ingesters, Fail(i), pc[i] # "evict" PROVE Orphaned'
  <2>1. /\ \A j \in Ingesters \ {i} :
             pc'[j] = pc[j] /\ found'[j] = found[j] /\ left'[j] = left[j]
        /\ UNCHANGED <<rows, vertex, cutOvers, reaper, known, unread, doomed>>
    BY <1>1 DEF Fail, Return, Goto, IInv, TypeOK
  <2> QED BY <1>1, <2>1, OrphansKept
<1>2. ASSUME NEW i \in Ingesters, Begin(i) PROVE Orphaned'
  <2>1. /\ pc[i] = "idle" /\ pc' = [pc EXCEPT ![i] = "write"]
        /\ UNCHANGED <<rows, vertex, cutOvers, found, reaper, known, unread, doomed>>
    BY <1>2 DEF Begin, Goto
  <2>2. \A j \in Ingesters : pc[j] = "evict" => pc'[j] = "evict" /\ left'[j] = left[j]
    <3>1. \E L : left' = [left EXCEPT ![i] = L]
      BY <1>2 DEF Begin
    <3> QED BY <2>1, <3>1 DEF IInv, TypeOK
  <2> QED BY <2>1, <2>2, OrphansKept
<1>3. ASSUME NEW i \in Ingesters, writeSnapshot(i) PROVE Orphaned'
  <2>1. /\ pc[i] = "write" /\ req[i].id \notin CutOverIds
        /\ UNCHANGED <<rows, cutOvers, pc, found, reaper, known, unread, doomed>>
    BY <1>3 DEF writeSnapshot, Stamps, Single, Pending
  <2>2. \A o \in Objects : vertex'[o] \in {vertex[o], req[i].id}
    BY <1>3 DEF writeSnapshot, IInv, TypeOK
  <2>3. \A j \in Ingesters \ {i} : left'[j] = left[j]
    BY <1>3 DEF writeSnapshot, IInv, TypeOK
  <2> QED BY <2>1, <2>2, <2>3, OrphansKept
<1>4. ASSUME NEW i \in Ingesters, InTx(i) PROVE Orphaned'
  <2>1. /\ pc[i] # "evict"
        /\ UNCHANGED <<rows, vertex, cutOvers, left, reaper, known, unread, doomed>>
        /\ \A j \in Ingesters \ {i} : pc'[j] = pc[j] /\ found'[j] = found[j]
    BY <1>4, InTxFrame DEF IInv, Pending, TxPhases
  <2> QED BY <2>1, OrphansKept
<1>5. ASSUME NEW i \in Ingesters, emit(i) \/ recordEventId(i) PROVE Orphaned'
  <2>1. /\ pc[i] # "evict" /\ UNCHANGED <<rows, vertex, cutOvers, reaper, known, unread, doomed>>
        /\ \A j \in Ingesters \ {i} :
             pc'[j] = pc[j] /\ found'[j] = found[j] /\ left'[j] = left[j]
    BY <1>5 DEF emit, recordEventId, Return, Goto, IInv, TypeOK
  <2> QED BY <2>1, OrphansKept
<1>6. ASSUME NEW i \in Ingesters, checkPrevious(i) \/ insert(i), Fail(i) PROVE Orphaned'
  BY <1>1, <1>6 DEF checkPrevious, insert
<1>7. ASSUME NEW i \in Ingesters, DeadlockDetected(i) PROVE Orphaned'
  <2>1. pc[i] # "evict"
    BY <1>7 DEF DeadlockDetected, Blockers
  <2> QED BY <1>1, <1>7, <2>1 DEF DeadlockDetected
<1>8. ASSUME NEW i \in Ingesters, Step(i) PROVE Orphaned'
  BY <1>3, <1>4, <1>5, <1>6, <1>7, <1>8, OrphansCommit, OrphansEvict DEF Step, InTx
<1>9. ASSUME NEW i \in Ingesters, GraphFails(i) \/ DatabaseFails(i) \/ SerializeFails(i)
      PROVE  Orphaned'
  BY <1>1, <1>9 DEF GraphFails, DatabaseFails, SerializeFails, TxPhases
<1>10. CASE Crash
  BY <1>10 DEF Crash, AfterStart, Orphaned
<1>11. CASE UNCHANGED vars
  BY <1>11, OrphansKept DEF vars
<1> QED BY <1>2, <1>8, <1>9, <1>10, <1>11, OrphansReaper DEF Next

\* If ids are minted here, no nGQL statement fails, and the process does not die
\* or else runs the reaper when it starts, then no vertex of an evicted snapshot
\* stays: the request that evicted it, or the reaper, has yet to delete it.
THEOREM EvictedVerticesGoCorrect ==
  ASSUME Supplied = {}, "graph" \notin Faults, BootstrapOnStartup \/ "crash" \notin Faults
  PROVE  Spec => []EvictedVerticesGo
<1>1. Init => Stamps /\ Alone /\ Orphaned
  BY InitGraph DEF Init, Orphaned, Evicted
<1>2. IInv /\ Stamps /\ Orphaned /\ [Next]_vars => Stamps' /\ Orphaned'
  BY StampsStep, OrphansStep
<1>3. ASSUME Orphaned, NEW s \in Evicted, Stamped(s) # {}
      PROVE  reaper # "done" \/ \E i \in Ingesters : pc[i] = "evict" /\ s \in found[i]
  <2>1. \/ \E i \in Ingesters : /\ pc[i] = "evict" /\ s \in found[i]
                                /\ Stamped(s) \subseteq left[i]
        \/ reaper \in {"known", "scan", "reap"}
    BY <1>3 DEF Orphaned
  <2> QED BY <2>1
<1>4. Orphaned => EvictedVerticesGo
  BY <1>3 DEF EvictedVerticesGo
<1> QED BY <1>1, <1>2, <1>4, Inductive, PTL DEF Spec
=============================================================================
