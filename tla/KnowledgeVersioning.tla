------------------------ MODULE KnowledgeVersioning ------------------------
(***************************************************************************)
(* The write path of the Knowledge service: validate, version, commit,     *)
(* publish.  API requests and the startup seeder run concurrently in one   *)
(* JVM against one Postgres database at READ COMMITTED.  A request is one  *)
(* process that advances one SQL statement at a time; what Postgres does   *)
(* with row locks and unique indexes is part of the statements.            *)
(*                                                                         *)
(* Every key of the tables starts with the domain, so one domain is        *)
(* modelled.  A payload is the set of vocabulary tokens it declares (a     *)
(* vocabulary record) or refers to (any other record type).                *)
(***************************************************************************)
EXTENDS Integers, Sequences, FiniteSets, FiniteSetsExt

CONSTANTS Records,     \* record ids of the domain
          Vocab,       \* those that hold a vocabulary
          Tokens,      \* vocabulary tokens
          ApiWriters,  \* concurrent POST / PUT requests
          Seeder,      \* the startup seeder's thread
          SeedPack,    \* the records of seed/core-ip.json, in file order
          MaxRows      \* bound: no request is sent once this many versions exist

Writers == ApiWriters \cup {Seeder}

ASSUME RecordsAssumption == Records # {} /\ Vocab \subseteq Records
ASSUME SeederAssumption  == Seeder \notin ApiWriters
ASSUME SeedPackAssumption ==
         SeedPack \in Seq([rec : Records, payload : SUBSET Tokens])
ASSUME MaxRowsAssumption == MaxRows \in Nat

VARIABLES
  identity,  \* rows of knowledge.record
  rows,      \* rows of knowledge.record_version, without their is_current
  current,   \* the <<record, version>> pairs whose row has is_current = TRUE
  topic,     \* the knowledge.updated events, in the order they were sent
  pc,        \* the statement each writer is about to run
  req,       \* the request each writer serves
  next,      \* the version number its transaction computed
  target,    \* the current versions its UPDATE found to clear
  holds,     \* whether its transaction holds row locks on req.rec
  seedPos    \* how far the seeder has come in SeedPack

dbVars == <<identity, rows, current>>
vars   == <<identity, rows, current, topic, pc, req, next, target, holds, seedPos>>

Author   == {"api", "seed"}
Row      == [rec : Records, n : Nat \ {0}, payload : SUBSET Tokens, author : Author]
Request  == [op : {"create", "update"}, rec : Records, payload : SUBSET Tokens,
             author : Author]
NoRequest == [op |-> "create", rec |-> CHOOSE r \in Records : TRUE, payload |-> {},
              author |-> "api"]
Phases   == {"idle", "validate", "exists", "identity", "max", "clear", "wait",
             "insert", "commit", "publish"}

Versions(r)  == {row.n : row \in {x \in rows : x.rec = r}}
CurrentOf(r) == {n \in Versions(r) : <<r, n>> \in current}

\* The highest version number minted for a record, 0 if none.
maxVersionNumber(r) == IF Versions(r) = {} THEN 0 ELSE Max(Versions(r))

recordExists(r) == r \in identity

\* The tokens of the current vocabulary records.
CurrentTokens ==
  UNION {row.payload : row \in {x \in rows : x.rec \in Vocab /\ <<x.rec, x.n>> \in current}}

\* Another transaction holds uncommitted index entries or row locks on r.
Locked(w, r) == \E v \in Writers \ {w} : holds[v] /\ req[v].rec = r

Goto(w, phase) == pc' = [pc EXCEPT ![w] = phase]

Init ==
  /\ identity = {}  /\ rows = {}  /\ current = {}  /\ topic = <<>>
  /\ pc = [w \in Writers |-> "idle"]
  /\ req = [w \in Writers |-> NoRequest]
  /\ next = [w \in Writers |-> 0]
  /\ target = [w \in Writers |-> {}]
  /\ holds = [w \in Writers |-> FALSE]
  /\ seedPos = 1

-----------------------------------------------------------------------------
(* What ends a process or a request early.                                 *)

\* The JVM dies: every transaction rolls back, unsent events are gone, and
\* the next start runs the seeder from the top of the pack.
Crash ==
  /\ pc' = [w \in Writers |-> "idle"]
  /\ req' = [w \in Writers |-> NoRequest]
  /\ next' = [w \in Writers |-> 0]
  /\ target' = [w \in Writers |-> {}]
  /\ holds' = [w \in Writers |-> FALSE]
  /\ seedPos' = 1
  /\ UNCHANGED <<identity, rows, current, topic>>

\* A request returns and its locals go out of scope.
Return(w) ==
  /\ Goto(w, "idle")
  /\ req' = [req EXCEPT ![w] = NoRequest]
  /\ next' = [next EXCEPT ![w] = 0]
  /\ target' = [target EXCEPT ![w] = {}]

\* An exception leaves the request.  In an API thread it is an error answer
\* and a rollback; out of the seeder's ApplicationRunner it ends the start.
Fail(w) ==
  IF w = Seeder THEN Crash
  ELSE /\ Return(w)
       /\ holds' = [holds EXCEPT ![w] = FALSE]
       /\ UNCHANGED <<identity, rows, current, topic, seedPos>>

-----------------------------------------------------------------------------
(* RecordService: validate, look the record up, choose the write.          *)

\* POST or PUT arrives.
Begin(w) ==
  /\ w \in ApiWriters /\ pc[w] = "idle" /\ Cardinality(rows) < MaxRows
  /\ \E q \in Request :
       /\ q.author = "api"
       /\ req' = [req EXCEPT ![w] = q]
  /\ Goto(w, "validate")
  /\ UNCHANGED <<identity, rows, current, topic, next, target, holds, seedPos>>

\* Mutant: The seeder does not look for the record first.
SeedNext_NoSkip ==
  /\ pc[Seeder] = "idle" /\ seedPos \in DOMAIN SeedPack
  /\ LET s == SeedPack[seedPos] IN
       req' = [req EXCEPT ![Seeder] = [op |-> "create", rec |-> s.rec,
                                       payload |-> s.payload, author |-> "seed"]]
  /\ Goto(Seeder, "validate")
  /\ UNCHANGED <<identity, rows, current, topic, next, target, holds, seedPos>>

\* The seeder skips a record that exists and creates one that does not.
SeedNext ==
  /\ pc[Seeder] = "idle" /\ seedPos \in DOMAIN SeedPack
  /\ LET s == SeedPack[seedPos] IN
       \/ /\ recordExists(s.rec)
          /\ seedPos' = seedPos + 1
          /\ UNCHANGED <<pc, req>>
       \/ /\ ~recordExists(s.rec)
          /\ req' = [req EXCEPT ![Seeder] = [op |-> "create", rec |-> s.rec,
                                             payload |-> s.payload, author |-> "seed"]]
          /\ Goto(Seeder, "validate")
          /\ UNCHANGED seedPos
  /\ UNCHANGED <<identity, rows, current, topic, next, target, holds>>

\* Mutant: References are not checked.
Validate_Skipped(w) ==
  /\ pc[w] = "validate"
  /\ Goto(w, "exists")
  /\ UNCHANGED <<identity, rows, current, topic, req, next, target, holds, seedPos>>

\* Cross-record checks read the current vocabulary, outside the transaction.
Validate(w) ==
  /\ pc[w] = "validate"
  /\ IF req[w].rec \in Vocab \/ req[w].payload \subseteq CurrentTokens
     THEN /\ Goto(w, "exists")
          /\ UNCHANGED <<identity, rows, current, topic, req, next, target, holds, seedPos>>
     ELSE Fail(w)

\* The existence check is also outside the transaction it chooses.
Exists(w) ==
  /\ pc[w] = "exists"
  /\ \/ /\ recordExists(req[w].rec) /\ Goto(w, "max")
        /\ UNCHANGED <<identity, rows, current, topic, req, next, target, holds, seedPos>>
     \/ /\ ~recordExists(req[w].rec) /\ req[w].op = "create" /\ Goto(w, "identity")
        /\ UNCHANGED <<identity, rows, current, topic, req, next, target, holds, seedPos>>
     \/ /\ ~recordExists(req[w].rec) /\ req[w].op = "update" /\ Fail(w)

-----------------------------------------------------------------------------
(* VersioningService: the two transactions, statement by statement.        *)

\* Mutant: A record's first version is 0.
InsertIdentity_FromZero(w) ==
  /\ pc[w] = "identity"
  /\ \/ /\ recordExists(req[w].rec)
        /\ Fail(w)
     \/ /\ ~recordExists(req[w].rec) /\ ~Locked(w, req[w].rec)
        /\ next' = [next EXCEPT ![w] = 0]
        /\ target' = [target EXCEPT ![w] = {}]
        /\ holds' = [holds EXCEPT ![w] = TRUE]
        /\ Goto(w, "insert")
        /\ UNCHANGED <<identity, rows, current, topic, req, seedPos>>

\* INSERT INTO knowledge.record: waits for an uncommitted rival, fails on a
\* committed one.
InsertIdentity(w) ==
  /\ pc[w] = "identity"
  /\ \/ /\ recordExists(req[w].rec)
        /\ Fail(w)
     \/ /\ ~recordExists(req[w].rec) /\ ~Locked(w, req[w].rec)
        /\ next' = [next EXCEPT ![w] = 1]
        /\ target' = [target EXCEPT ![w] = {}]
        /\ holds' = [holds EXCEPT ![w] = TRUE]
        /\ Goto(w, "insert")
        /\ UNCHANGED <<identity, rows, current, topic, req, seedPos>>

ReadMax(w) ==
  /\ pc[w] = "max"
  /\ next' = [next EXCEPT ![w] = maxVersionNumber(req[w].rec) + 1]
  /\ Goto(w, "clear")
  /\ UNCHANGED <<identity, rows, current, topic, req, target, holds, seedPos>>

\* UPDATE ... SET is_current = FALSE: its snapshot finds the current row and
\* locks it, or waits for the transaction that has it locked.
ClearCurrent(w) ==
  /\ pc[w] = "clear"
  /\ target' = [target EXCEPT ![w] = CurrentOf(req[w].rec)]
  /\ IF CurrentOf(req[w].rec) # {} /\ Locked(w, req[w].rec)
     THEN Goto(w, "wait") /\ UNCHANGED holds
     ELSE /\ holds' = [holds EXCEPT ![w] = CurrentOf(req[w].rec) # {}]
          /\ Goto(w, "insert")
  /\ UNCHANGED <<identity, rows, current, topic, req, next, seedPos>>

\* The lock is free: Postgres evaluates the WHERE clause again on the row it
\* waited for, and does not see rows inserted since the statement began.
ResumeClear(w) ==
  /\ pc[w] = "wait" /\ ~Locked(w, req[w].rec)
  /\ LET left == target[w] \cap CurrentOf(req[w].rec) IN
       /\ target' = [target EXCEPT ![w] = left]
       /\ holds' = [holds EXCEPT ![w] = left # {}]
  /\ Goto(w, "insert")
  /\ UNCHANGED <<identity, rows, current, topic, req, next, seedPos>>

\* INSERT INTO knowledge.record_version: UNIQUE (record, version) and the
\* partial unique index on is_current reject it, after waiting for a rival.
DuplicateVersion(w) == next[w] \in Versions(req[w].rec)
SecondCurrent(w)    == ~Locked(w, req[w].rec) /\ CurrentOf(req[w].rec) \ target[w] # {}

\* Mutant: No unique index on the versions of a record.
InsertVersion_NoUniqueIndex(w) ==
  /\ pc[w] = "insert"
  /\ ~Locked(w, req[w].rec)
  /\ holds' = [holds EXCEPT ![w] = TRUE]
  /\ target' = [target EXCEPT ![w] = CurrentOf(req[w].rec)]
  /\ Goto(w, "commit")
  /\ UNCHANGED <<identity, rows, current, topic, req, next, seedPos>>

\* Mutant: The event is sent before the transaction commits.
InsertVersion_PublishInTx(w) ==
  /\ pc[w] = "insert"
  /\ \/ /\ DuplicateVersion(w) \/ SecondCurrent(w)
        /\ Fail(w)
     \/ /\ ~DuplicateVersion(w) /\ ~Locked(w, req[w].rec) /\ ~SecondCurrent(w)
        /\ holds' = [holds EXCEPT ![w] = TRUE]
        /\ topic' = Append(topic, [rec |-> req[w].rec, n |-> next[w]])
        /\ Goto(w, "commit")
        /\ UNCHANGED <<identity, rows, current, req, next, target, seedPos>>

\* Mutant: A refused insert is not an error but is tried again, with the number
\* already computed and in the transaction that has locked the current row.
InsertVersion_RetriesInTx(w) ==
  /\ pc[w] = "insert"
  /\ ~DuplicateVersion(w) /\ ~Locked(w, req[w].rec) /\ ~SecondCurrent(w)
  /\ holds' = [holds EXCEPT ![w] = TRUE]
  /\ Goto(w, "commit")
  /\ UNCHANGED <<identity, rows, current, topic, req, next, target, seedPos>>

InsertVersion(w) ==
  /\ pc[w] = "insert"
  /\ \/ /\ DuplicateVersion(w) \/ SecondCurrent(w)
        /\ Fail(w)
     \/ /\ ~DuplicateVersion(w) /\ ~Locked(w, req[w].rec) /\ ~SecondCurrent(w)
        /\ holds' = [holds EXCEPT ![w] = TRUE]
        /\ Goto(w, "commit")
        /\ UNCHANGED <<identity, rows, current, topic, req, next, target, seedPos>>

\* Mutant: The prior version stays current.
Commit_KeepsPrior(w) ==
  /\ pc[w] = "commit"
  /\ LET q == req[w] IN
       /\ identity' = identity \cup {q.rec}
       /\ rows' = rows \cup {[rec |-> q.rec, n |-> next[w], payload |-> q.payload,
                              author |-> q.author]}
       /\ current' = current \cup {<<q.rec, next[w]>>}
  /\ holds' = [holds EXCEPT ![w] = FALSE]
  /\ Goto(w, "publish")
  /\ UNCHANGED <<topic, req, next, target, seedPos>>

Commit(w) ==
  /\ pc[w] = "commit"
  /\ LET q == req[w] IN
       /\ identity' = identity \cup {q.rec}
       /\ rows' = rows \cup {[rec |-> q.rec, n |-> next[w], payload |-> q.payload,
                              author |-> q.author]}
       /\ current' = (current \ ({q.rec} \X target[w])) \cup {<<q.rec, next[w]>>}
  /\ holds' = [holds EXCEPT ![w] = FALSE]
  /\ Goto(w, "publish")
  /\ UNCHANGED <<topic, req, next, target, seedPos>>

\* afterCommit: the event is sent, or the send fails and is only logged.  The
\* seeder goes on to the next record of its pack.
Publish(w) ==
  /\ pc[w] = "publish"
  /\ \/ topic' = Append(topic, [rec |-> req[w].rec, n |-> next[w]])
     \/ UNCHANGED topic
  /\ Return(w)
  /\ seedPos' = IF w = Seeder THEN seedPos + 1 ELSE seedPos
  /\ UNCHANGED <<identity, rows, current, holds>>

-----------------------------------------------------------------------------
Step(w) ==
  \/ Validate(w) \/ Exists(w) \/ InsertIdentity(w) \/ ReadMax(w) \/ ClearCurrent(w)
  \/ ResumeClear(w) \/ InsertVersion(w) \/ Commit(w) \/ Publish(w)

Next ==
  \/ \E w \in Writers : Begin(w) \/ Step(w)
  \/ SeedNext
  \/ Crash

\* Threads run and the database answers; no request need arrive, no JVM need
\* crash.
Fairness == (\A w \in Writers : WF_vars(Step(w))) /\ WF_vars(SeedNext)

Spec     == Init /\ [][Next]_vars
FairSpec == Spec /\ Fairness
-----------------------------------------------------------------------------
(* Properties.                                                             *)

\* Every variable holds a value of its kind.
TypeOK ==
  /\ identity \subseteq Records
  /\ rows \subseteq Row
  /\ current \subseteq Records \X (Nat \ {0})
  /\ topic \in Seq([rec : Records, n : Nat \ {0}])
  /\ pc \in [Writers -> Phases]
  /\ req \in [Writers -> Request]
  /\ next \in [Writers -> Nat]
  /\ target \in [Writers -> SUBSET (Nat \ {0})]
  /\ holds \in [Writers -> BOOLEAN]
  /\ seedPos \in 1 .. Len(SeedPack) + 1

\* (record, version) is a key of knowledge.record_version.
RowKeyUnique == \A x, y \in rows : x.rec = y.rec /\ x.n = y.n => x = y

\* A record's history is v1 .. vk without a gap and with one row per version,
\* whatever writers race: "next version = v{maxN+1}" is computed before the
\* row that claims it is inserted (VersioningService.writeNewVersion).
VersionHistory ==
  /\ \A r \in Records : Versions(r) = 1 .. maxVersionNumber(r)
  /\ RowKeyUnique

\* A record that exists has exactly one current version and it is the newest;
\* nothing is current for a record that does not (the is_current flip of
\* writeNewVersion against concurrent writers).
CurrentIsLatest ==
  \A r \in Records :
    CurrentOf(r) = IF r \in identity THEN {maxVersionNumber(r)} ELSE {}

\* No consumer hears of a version the database does not hold, nor twice of
\* the same version (publish after commit, event id minted once per change).
EventsOfCommittedVersions ==
  /\ \A i \in DOMAIN topic : topic[i].n \in Versions(topic[i].rec)
  /\ \A i, j \in DOMAIN topic : topic[i] = topic[j] => i = j

\* Every token a stored record refers to stands in some stored version of a
\* vocabulary: the check before the transaction is stale when the row commits,
\* but no version it saw ever goes away (ValidationService, append-only rows).
ReferencesWereDeclared ==
  \A x \in rows : x.rec \notin Vocab =>
    \A t \in x.payload : \E v \in rows : v.rec \in Vocab /\ t \in v.payload

\* However often the service restarts, the seeder writes a record at most once
\* ("idempotent - safe to re-run", SeedLoader).
SeedWritesOnce ==
  \A x, y \in rows : x.author = "seed" /\ y.author = "seed" /\ x.rec = y.rec => x = y

\* Every request is answered: a writer that waits for the row a rival cleared
\* goes on when the rival ends, and if the version it computed before the wait
\* is taken by then, the refusal ends its transaction and its request
\* (@Transactional, VersioningService.writeNewVersion).
RequestsFinish == \A w \in Writers : pc[w] # "idle" ~> pc[w] = "idle"

\* Requests that race statement by statement, restarts and the seeder together
\* do what a register of histories does in one step each: a version is written
\* and becomes current at once (VersioningService.writeNewVersion), and is
\* announced after that.
PayloadOf(r, n) == (CHOOSE x \in rows : x.rec = r /\ x.n = n).payload
Register == INSTANCE VersionedRecords WITH
  Payloads  <- SUBSET Tokens,
  history   <- [r \in Records |-> [n \in Versions(r) |-> PayloadOf(r, n)]],
  answer    <- [r \in Records |-> {PayloadOf(r, n) : n \in CurrentOf(r)}],
  announced <- {<<topic[i].rec, topic[i].n>> : i \in DOMAIN topic}
IsVersionedRegister == Register!Spec

\* Documented: "Keys are the recordId (string) so all versions of a record
\* land on one partition in order" (KafkaProducerConfig).
VersionsLandInOrder ==
  \A i, j \in DOMAIN topic : i < j /\ topic[i].rec = topic[j].rec => topic[i].n < topic[j].n
-----------------------------------------------------------------------------
(* The inductive invariant behind the properties above.                    *)

\* The rows of a record, its current flag and its identity row agree.
Chain ==
  \A r \in Records : \E k \in Versions(r) \cup {0} :
    /\ Versions(r) = 1 .. k
    /\ CurrentOf(r) = IF k = 0 THEN {} ELSE {k}
    /\ r \in identity <=> k # 0

\* At most one transaction holds a record, and what it is about to demote is
\* still what is current.
LockDiscipline ==
  \A w \in Writers :
    /\ holds[w] => /\ pc[w] \in {"insert", "commit"}
                   /\ target[w] = CurrentOf(req[w].rec)
                   /\ ~Locked(w, req[w].rec)
    /\ pc[w] = "commit" => holds[w]
    /\ pc[w] = "insert" /\ ~holds[w] => target[w] = {}

\* A computed version number leaves no gap, and is fresh when it commits.
NextVersion ==
  \A w \in Writers :
    /\ pc[w] \in {"clear", "wait", "insert", "commit", "publish"} =>
         next[w] >= 1 /\ 1 .. next[w] - 1 \subseteq Versions(req[w].rec)
    /\ pc[w] = "commit" => next[w] \notin Versions(req[w].rec)

\* A committed version that is still to be published is published by one
\* request only.
PendingEvents ==
  \A w \in Writers : pc[w] = "publish" =>
    /\ next[w] \in Versions(req[w].rec)
    /\ \A i \in DOMAIN topic : topic[i] # [rec |-> req[w].rec, n |-> next[w]]
    /\ \A v \in Writers \ {w} :
         pc[v] = "publish" => req[v].rec # req[w].rec \/ next[v] # next[w]

\* The vocabulary a request was validated against is still on record.
ValidatedReferences ==
  \A w \in Writers :
    pc[w] \notin {"idle", "validate"} /\ req[w].rec \notin Vocab =>
      \A t \in req[w].payload : \E v \in rows : v.rec \in Vocab /\ t \in v.payload

SeederInPack == pc[Seeder] # "idle" => seedPos \in DOMAIN SeedPack

IInv ==
  /\ TypeOK /\ SeederInPack
  /\ Chain /\ RowKeyUnique /\ LockDiscipline /\ NextVersion
  /\ EventsOfCommittedVersions /\ PendingEvents
  /\ ReferencesWereDeclared /\ ValidatedReferences
=============================================================================
