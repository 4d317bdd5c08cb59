--------------------- MODULE KnowledgeVersioningProofs ---------------------
(***************************************************************************)
(* IInv of KnowledgeVersioning is inductive, for any records, writers and  *)
(* seed pack; the version history, the current pointer, the events and the *)
(* references follow.                                                      *)
(***************************************************************************)
EXTENDS KnowledgeVersioning, SequenceTheorems, TLAPS

\* The reset request is a request.
LEMMA NoRequestType == NoRequest \in Request
BY RecordsAssumption DEF NoRequest, Request, Author

\* The highest version of a gapless history is its length.
LEMMA MaxOfHistory ==
  ASSUME NEW r, NEW k \in Nat, Versions(r) = 1 .. k
  PROVE  maxVersionNumber(r) = k
<1>1. CASE k = 0
  BY <1>1 DEF maxVersionNumber
<1>2. CASE k # 0
  <2>1. k \in 1 .. k /\ \A y \in 1 .. k : k >= y
    BY <1>2
  <2>2. Max(1 .. k) = k
    BY <2>1 DEF Max
  <2> QED BY <1>2, <2>1, <2>2 DEF maxVersionNumber
<1> QED BY <1>1, <1>2

\* The initial state satisfies the invariant.
LEMMA InitInv == Init => IInv
<1> SUFFICES ASSUME Init PROVE IInv
  OBVIOUS
<1>1. \A r : Versions(r) = {} /\ CurrentOf(r) = {}
  BY DEF Init, Versions, CurrentOf
<1>2. TypeOK
  BY NoRequestType, SeedPackAssumption DEF Init, TypeOK, Phases
<1>3. SeederInPack /\ RowKeyUnique /\ ReferencesWereDeclared
  <2>1. Seeder \in Writers
    BY DEF Writers
  <2> QED BY <2>1 DEF Init, SeederInPack, RowKeyUnique, ReferencesWereDeclared
<1>4. Chain
  <2> SUFFICES ASSUME NEW r \in Records
               PROVE  \E k \in Versions(r) \cup {0} :
                        /\ Versions(r) = 1 .. k
                        /\ CurrentOf(r) = IF k = 0 THEN {} ELSE {k}
                        /\ r \in identity <=> k # 0
    BY DEF Chain
  <2>1. Versions(r) = 1 .. 0 /\ CurrentOf(r) = {} /\ r \notin identity
    BY <1>1 DEF Init
  <2> QED BY <2>1
<1>5. LockDiscipline /\ NextVersion /\ PendingEvents /\ ValidatedReferences
  BY DEF Init, LockDiscipline, NextVersion, PendingEvents, ValidatedReferences
<1>6. EventsOfCommittedVersions
  BY DEF Init, EventsOfCommittedVersions
<1> QED BY <1>2, <1>3, <1>4, <1>5, <1>6 DEF IInv

-----------------------------------------------------------------------------
(* Per-writer reading of the invariant, for steps that leave the tables and *)
(* the topic alone and move one writer.                                     *)

InTx(w) == pc[w] \in {"clear", "wait", "insert", "commit", "publish"}

WriterOK(w) ==
  /\ holds[w] => pc[w] \in {"insert", "commit"} /\ target[w] = CurrentOf(req[w].rec)
  /\ pc[w] = "commit" => holds[w] /\ next[w] \notin Versions(req[w].rec)
  /\ pc[w] = "insert" /\ ~holds[w] => target[w] = {}
  /\ InTx(w) => next[w] >= 1 /\ 1 .. next[w] - 1 \subseteq Versions(req[w].rec)
  /\ pc[w] = "publish" => /\ next[w] \in Versions(req[w].rec)
                          /\ \A i \in DOMAIN topic :
                               topic[i] # [rec |-> req[w].rec, n |-> next[w]]
  /\ pc[w] \notin {"idle", "validate"} /\ req[w].rec \notin Vocab =>
       \A t \in req[w].payload : \E v \in rows : v.rec \in Vocab /\ t \in v.payload

LEMMA WriterView ==
  (LockDiscipline /\ NextVersion /\ PendingEvents /\ ValidatedReferences)
    => /\ \A w \in Writers : WriterOK(w)
       /\ \A v, w \in Writers :
            v # w /\ holds[v] /\ holds[w] => req[v].rec # req[w].rec
       /\ \A v, w \in Writers :
            v # w /\ pc[v] = "publish" /\ pc[w] = "publish"
              => req[v].rec # req[w].rec \/ next[v] # next[w]
BY DEF LockDiscipline, NextVersion, PendingEvents, ValidatedReferences, WriterOK, InTx, Locked

\* A step that moves writer w only, and neither publishes nor touches the
\* tables, preserves the invariant if w ends well and takes no lock another
\* writer has.
LEMMA LocalStep ==
  ASSUME IInv, NEW w \in Writers,
         UNCHANGED <<identity, rows, current, topic>>,
         TypeOK', SeederInPack',
         \A v \in Writers \ {w} :
           /\ pc'[v] = pc[v] /\ req'[v] = req[v] /\ next'[v] = next[v]
           /\ target'[v] = target[v] /\ holds'[v] = holds[v],
         WriterOK(w)', pc'[w] # "publish",
         holds'[w] => ~Locked(w, req'[w].rec)
  PROVE  IInv'
<1>1. /\ \A r : Versions(r)' = Versions(r) /\ CurrentOf(r)' = CurrentOf(r)
  BY DEF Versions, CurrentOf
<1>2. Chain' /\ RowKeyUnique' /\ EventsOfCommittedVersions' /\ ReferencesWereDeclared'
  BY <1>1 DEF IInv, Chain, RowKeyUnique, EventsOfCommittedVersions, ReferencesWereDeclared
<1>3. /\ \A v \in Writers : WriterOK(v)
      /\ \A u, v \in Writers :
           u # v /\ holds[u] /\ holds[v] => req[u].rec # req[v].rec
      /\ \A u, v \in Writers :
           u # v /\ pc[u] = "publish" /\ pc[v] = "publish"
             => req[u].rec # req[v].rec \/ next[u] # next[v]
  BY WriterView DEF IInv
<1>4. ASSUME NEW v \in Writers PROVE WriterOK(v)'
  <2>1. CASE v = w
    BY <2>1
  <2>2. CASE v # w
    BY <1>1, <1>3, <2>2 DEF WriterOK, InTx
  <2> QED BY <2>1, <2>2
<1>5. \A u, v \in Writers :
        u # v /\ holds'[u] /\ holds'[v] => req'[u].rec # req'[v].rec
  BY <1>3 DEF Locked
<1>6. \A u, v \in Writers :
        u # v /\ pc'[u] = "publish" /\ pc'[v] = "publish"
          => req'[u].rec # req'[v].rec \/ next'[u] # next'[v]
  BY <1>3
<1>7. (LockDiscipline /\ NextVersion /\ PendingEvents /\ ValidatedReferences)'
  <2>1. LockDiscipline'
    BY <1>4, <1>5 DEF LockDiscipline, WriterOK, Locked
  <2>2. NextVersion' /\ ValidatedReferences'
    BY <1>4 DEF NextVersion, ValidatedReferences, WriterOK, InTx
  <2>3. PendingEvents'
    BY <1>4, <1>6 DEF PendingEvents, WriterOK
  <2> QED BY <2>1, <2>2, <2>3
<1> QED BY <1>2, <1>7 DEF IInv
-----------------------------------------------------------------------------
(* Steps that end a request, and the crash.                                *)

LEMMA CrashStep == ASSUME IInv, Crash PROVE IInv'
<1> USE DEF Crash
<1>1. /\ \A r : Versions(r)' = Versions(r) /\ CurrentOf(r)' = CurrentOf(r)
  BY DEF Versions, CurrentOf
<1>2. Seeder \in Writers
  BY DEF Writers
<1>3. TypeOK'
  BY NoRequestType, SeedPackAssumption DEF IInv, TypeOK, Phases
<1>4. SeederInPack'
  BY <1>2 DEF SeederInPack
<1>5. Chain' /\ RowKeyUnique' /\ EventsOfCommittedVersions' /\ ReferencesWereDeclared'
  BY <1>1 DEF IInv, Chain, RowKeyUnique, EventsOfCommittedVersions, ReferencesWereDeclared
<1>6. LockDiscipline' /\ NextVersion' /\ PendingEvents' /\ ValidatedReferences'
  BY DEF LockDiscipline, NextVersion, PendingEvents, ValidatedReferences
<1> QED BY <1>3, <1>4, <1>5, <1>6 DEF IInv

\* A failed request rolls back; a failed seeder takes the process down.
LEMMA FailStep ==
  ASSUME IInv, NEW w \in Writers, Fail(w) PROVE IInv'
<1>1. CASE w = Seeder
  BY <1>1, CrashStep DEF Fail
<1>2. CASE w # Seeder
  <2> USE <1>2 DEF Fail, Return, Goto
  <2>1. TypeOK'
    <3>1. pc' \in [Writers -> Phases] /\ holds' \in [Writers -> BOOLEAN]
      BY DEF IInv, TypeOK, Phases
    <3>2. req' \in [Writers -> Request]
      BY NoRequestType DEF IInv, TypeOK
    <3>3. next' \in [Writers -> Nat]
      BY DEF IInv, TypeOK
    <3>4. target' \in [Writers -> SUBSET (Nat \ {0})]
      BY DEF IInv, TypeOK
    <3> QED BY <3>1, <3>2, <3>3, <3>4 DEF IInv, TypeOK
  <2>2. SeederInPack'
    BY DEF IInv, TypeOK, SeederInPack, Writers
  <2>3. WriterOK(w)' /\ pc'[w] # "publish" /\ ~holds'[w]
    BY DEF IInv, TypeOK, WriterOK, InTx
  <2>4. \A v \in Writers \ {w} :
           /\ pc'[v] = pc[v] /\ req'[v] = req[v] /\ next'[v] = next[v]
           /\ target'[v] = target[v] /\ holds'[v] = holds[v]
    BY DEF IInv, TypeOK
  <2> QED BY <2>1, <2>2, <2>3, <2>4, LocalStep
<1> QED BY <1>1, <1>2

-----------------------------------------------------------------------------
(* One lemma per statement of a request.                                   *)

LEMMA BeginStep ==
  ASSUME IInv, NEW w \in Writers, Begin(w) PROVE IInv'
<1> USE DEF Begin, Goto
<1>1. TypeOK'
  BY DEF IInv, TypeOK, Phases
<1>2. SeederInPack'
  BY SeederAssumption DEF IInv, TypeOK, SeederInPack, Writers
<1>3. WriterOK(w)' /\ pc'[w] # "publish" /\ ~holds'[w]
  <2>1. ~holds[w]
    BY DEF IInv, TypeOK, LockDiscipline
  <2> QED BY <2>1 DEF IInv, TypeOK, WriterOK, InTx
<1>4. \A v \in Writers \ {w} :
         /\ pc'[v] = pc[v] /\ req'[v] = req[v] /\ next'[v] = next[v]
         /\ target'[v] = target[v] /\ holds'[v] = holds[v]
  BY DEF IInv, TypeOK
<1> QED BY <1>1, <1>2, <1>3, <1>4, LocalStep

LEMMA SeedNextStep == ASSUME IInv, SeedNext PROVE IInv'
<1> DEFINE s == SeedPack[seedPos]
<1> USE DEF SeedNext, Goto
<1>0. Seeder \in Writers
  BY DEF Writers
<1>1. s \in [rec : Records, payload : SUBSET Tokens] /\ seedPos + 1 \in 1 .. Len(SeedPack) + 1
  <2>1. seedPos \in 1 .. Len(SeedPack)
    BY SeedPackAssumption DEF IInv, TypeOK
  <2>2. SeedPack[seedPos] \in [rec : Records, payload : SUBSET Tokens]
    BY <2>1, SeedPackAssumption, ElementOfSeq
  <2>3. Len(SeedPack) \in Nat
    BY SeedPackAssumption
  <2> QED BY <2>1, <2>2, <2>3
<1>2. \A v \in Writers \ {Seeder} :
         /\ pc'[v] = pc[v] /\ req'[v] = req[v] /\ next'[v] = next[v]
         /\ target'[v] = target[v] /\ holds'[v] = holds[v]
  BY DEF IInv, TypeOK
<1>3. ~holds[Seeder]
  BY <1>0 DEF IInv, TypeOK, LockDiscipline
<1>4. CASE recordExists(s.rec)
  <2>1. TypeOK' /\ SeederInPack'
    BY <1>1, <1>4 DEF IInv, TypeOK, SeederInPack
  <2>2. WriterOK(Seeder)' /\ pc'[Seeder] # "publish" /\ ~holds'[Seeder]
    BY <1>0, <1>3, <1>4 DEF IInv, TypeOK, WriterOK, InTx
  <2> QED BY <2>1, <2>2, <1>0, <1>2, LocalStep
<1>5. CASE ~recordExists(s.rec)
  <2>1. [op |-> "create", rec |-> s.rec, payload |-> s.payload, author |-> "seed"] \in Request
    BY <1>1 DEF Request, Author
  <2>2. TypeOK' /\ SeederInPack'
    <3>1. req' \in [Writers -> Request]
      BY <1>5, <2>1 DEF IInv, TypeOK
    <3>2. pc' \in [Writers -> Phases] /\ seedPos' = seedPos
      BY <1>5 DEF IInv, TypeOK, Phases
    <3>3. TypeOK'
      BY <3>1, <3>2 DEF IInv, TypeOK
    <3>4. SeederInPack'
      BY <1>0, <3>2 DEF SeederInPack
    <3> QED BY <3>3, <3>4
  <2>3. WriterOK(Seeder)' /\ pc'[Seeder] # "publish" /\ ~holds'[Seeder]
    BY <1>0, <1>3, <1>5 DEF IInv, TypeOK, WriterOK, InTx
  <2> QED BY <2>2, <2>3, <1>0, <1>2, LocalStep
<1> QED BY <1>4, <1>5

LEMMA ValidateStep ==
  ASSUME IInv, NEW w \in Writers, Validate(w) PROVE IInv'
<1>1. CASE ~(req[w].rec \in Vocab \/ req[w].payload \subseteq CurrentTokens)
  BY <1>1, FailStep DEF Validate
<1>2. CASE req[w].rec \in Vocab \/ req[w].payload \subseteq CurrentTokens
  <2> USE <1>2 DEF Validate, Goto
  <2>1. TypeOK'
    BY DEF IInv, TypeOK, Phases
  <2>2. SeederInPack'
    BY DEF IInv, TypeOK, SeederInPack, Writers
  <2>3. ~holds[w]
    BY DEF IInv, TypeOK, LockDiscipline
  <2>4. req[w].rec \notin Vocab =>
          \A t \in req[w].payload : \E v \in rows : v.rec \in Vocab /\ t \in v.payload
    BY DEF CurrentTokens
  <2>5. WriterOK(w)' /\ pc'[w] # "publish" /\ ~holds'[w]
    BY <2>3, <2>4 DEF IInv, TypeOK, WriterOK, InTx
  <2>6. \A v \in Writers \ {w} :
           /\ pc'[v] = pc[v] /\ req'[v] = req[v] /\ next'[v] = next[v]
           /\ target'[v] = target[v] /\ holds'[v] = holds[v]
    BY DEF IInv, TypeOK
  <2> QED BY <2>1, <2>2, <2>5, <2>6, LocalStep
<1> QED BY <1>1, <1>2

LEMMA ExistsStep ==
  ASSUME IInv, NEW w \in Writers, Exists(w) PROVE IInv'
<1>1. CASE Fail(w)
  BY <1>1, FailStep
<1>2. CASE ~Fail(w)
  <2> USE <1>2 DEF Exists, Goto
  <2>1. TypeOK'
    BY DEF IInv, TypeOK, Phases
  <2>2. SeederInPack'
    BY DEF IInv, TypeOK, SeederInPack, Writers
  <2>3. ~holds[w]
    BY DEF IInv, TypeOK, LockDiscipline
  <2>4. req[w].rec \notin Vocab =>
          \A t \in req[w].payload : \E v \in rows : v.rec \in Vocab /\ t \in v.payload
    BY DEF IInv, ValidatedReferences
  <2>5. WriterOK(w)' /\ pc'[w] # "publish" /\ ~holds'[w]
    BY <2>3, <2>4 DEF IInv, TypeOK, WriterOK, InTx
  <2>6. \A v \in Writers \ {w} :
           /\ pc'[v] = pc[v] /\ req'[v] = req[v] /\ next'[v] = next[v]
           /\ target'[v] = target[v] /\ holds'[v] = holds[v]
    BY DEF IInv, TypeOK
  <2> QED BY <2>1, <2>2, <2>5, <2>6, LocalStep
<1> QED BY <1>1, <1>2

LEMMA InsertIdentityStep ==
  ASSUME IInv, NEW w \in Writers, InsertIdentity(w) PROVE IInv'
<1>1. CASE Fail(w)
  BY <1>1, FailStep
<1>2. CASE ~Fail(w)
  <2> USE <1>2 DEF InsertIdentity, Goto
  <2>1. TypeOK'
    <3>1. pc' \in [Writers -> Phases] /\ holds' \in [Writers -> BOOLEAN]
      BY DEF IInv, TypeOK, Phases
    <3>2. next' \in [Writers -> Nat]
      <4>1. next' = [next EXCEPT ![w] = 1]
        OBVIOUS
      <4>2. next \in [Writers -> Nat]
        BY DEF IInv, TypeOK
      <4> QED BY ONLY <4>1, <4>2
    <3>3. target' \in [Writers -> SUBSET (Nat \ {0})]
      BY DEF IInv, TypeOK
    <3> QED BY <3>1, <3>2, <3>3 DEF IInv, TypeOK
  <2>2. SeederInPack'
    BY DEF IInv, TypeOK, SeederInPack, Writers
  <2>3. CurrentOf(req[w].rec) = {} /\ CurrentOf(req[w].rec)' = {}
    BY DEF IInv, TypeOK, Request, Chain, recordExists, CurrentOf, Versions
  <2>4. req[w].rec \notin Vocab =>
          \A t \in req[w].payload : \E v \in rows : v.rec \in Vocab /\ t \in v.payload
    BY DEF IInv, ValidatedReferences
  <2>5. WriterOK(w)' /\ pc'[w] # "publish" /\ ~Locked(w, req'[w].rec)
    BY <2>3, <2>4 DEF IInv, TypeOK, WriterOK, InTx
  <2>6. \A v \in Writers \ {w} :
           /\ pc'[v] = pc[v] /\ req'[v] = req[v] /\ next'[v] = next[v]
           /\ target'[v] = target[v] /\ holds'[v] = holds[v]
    BY DEF IInv, TypeOK
  <2> QED BY <2>1, <2>2, <2>5, <2>6, LocalStep
<1> QED BY <1>1, <1>2

LEMMA ReadMaxStep ==
  ASSUME IInv, NEW w \in Writers, ReadMax(w) PROVE IInv'
<1> DEFINE r == req[w].rec
<1> USE DEF ReadMax, Goto
<1>1. PICK k \in Versions(r) \cup {0} : Versions(r) = 1 .. k
  BY DEF IInv, TypeOK, Request, Chain
<1>2. k \in Nat /\ maxVersionNumber(r) = k
  <2>1. k \in Nat
    BY <1>1 DEF IInv, TypeOK, Row, Versions
  <2> QED BY <2>1, <1>1, MaxOfHistory
<1>3. TypeOK'
  BY <1>2 DEF IInv, TypeOK, Phases
<1>4. SeederInPack'
  BY DEF IInv, TypeOK, SeederInPack, Writers
<1>5. ~holds[w]
  BY DEF IInv, TypeOK, LockDiscipline
<1>6. r \notin Vocab =>
        \A t \in req[w].payload : \E v \in rows : v.rec \in Vocab /\ t \in v.payload
  BY DEF IInv, ValidatedReferences
<1>7. next'[w] = k + 1 /\ Versions(r)' = 1 .. k
  BY <1>1, <1>2 DEF IInv, TypeOK, Versions
<1>8. WriterOK(w)' /\ pc'[w] # "publish" /\ ~holds'[w]
  BY <1>2, <1>5, <1>6, <1>7 DEF IInv, TypeOK, WriterOK, InTx
<1>9. \A v \in Writers \ {w} :
         /\ pc'[v] = pc[v] /\ req'[v] = req[v] /\ next'[v] = next[v]
         /\ target'[v] = target[v] /\ holds'[v] = holds[v]
  BY DEF IInv, TypeOK
<1> QED BY <1>3, <1>4, <1>8, <1>9, LocalStep

LEMMA ClearCurrentStep ==
  ASSUME IInv, NEW w \in Writers, ClearCurrent(w) PROVE IInv'
<1> DEFINE r == req[w].rec
<1> USE DEF ClearCurrent, Goto
<1>1. CurrentOf(r) \subseteq Nat \ {0}
  BY DEF IInv, TypeOK, Row, CurrentOf, Versions
<1>2. TypeOK'
  BY <1>1 DEF IInv, TypeOK, Phases
<1>3. SeederInPack'
  BY DEF IInv, TypeOK, SeederInPack, Writers
<1>4. ~holds[w]
  BY DEF IInv, TypeOK, LockDiscipline
<1>5. Versions(r)' = Versions(r) /\ CurrentOf(r)' = CurrentOf(r)
  BY DEF Versions, CurrentOf
<1>6. r \notin Vocab =>
        \A t \in req[w].payload : \E v \in rows : v.rec \in Vocab /\ t \in v.payload
  BY DEF IInv, ValidatedReferences
<1>7. next[w] >= 1 /\ 1 .. next[w] - 1 \subseteq Versions(r)
  BY DEF IInv, NextVersion
<1>8. /\ pc'[w] \in {"wait", "insert"} /\ next'[w] = next[w] /\ req'[w] = req[w]
      /\ target'[w] = CurrentOf(r)
      /\ holds'[w] => pc'[w] = "insert" /\ ~Locked(w, r)
      /\ pc'[w] = "insert" /\ ~holds'[w] => target'[w] = {}
  BY <1>4 DEF IInv, TypeOK
<1>9. WriterOK(w)'
  BY <1>5, <1>6, <1>7, <1>8 DEF WriterOK, InTx
<1>10. \A v \in Writers \ {w} :
         /\ pc'[v] = pc[v] /\ req'[v] = req[v] /\ next'[v] = next[v]
         /\ target'[v] = target[v] /\ holds'[v] = holds[v]
  BY DEF IInv, TypeOK
<1> QED BY <1>2, <1>3, <1>8, <1>9, <1>10, LocalStep

LEMMA ResumeClearStep ==
  ASSUME IInv, NEW w \in Writers, ResumeClear(w) PROVE IInv'
<1> DEFINE r == req[w].rec
<1> USE DEF ResumeClear, Goto
<1>1. TypeOK'
  BY DEF IInv, TypeOK, Phases
<1>2. SeederInPack'
  BY DEF IInv, TypeOK, SeederInPack, Writers
<1>3. Versions(r)' = Versions(r) /\ CurrentOf(r)' = CurrentOf(r)
  BY DEF Versions, CurrentOf
<1>4. r \notin Vocab =>
        \A t \in req[w].payload : \E v \in rows : v.rec \in Vocab /\ t \in v.payload
  BY DEF IInv, ValidatedReferences
<1>5. next[w] >= 1 /\ 1 .. next[w] - 1 \subseteq Versions(r)
  BY DEF IInv, NextVersion
<1>6. /\ pc'[w] = "insert" /\ next'[w] = next[w] /\ req'[w] = req[w]
      /\ target'[w] = target[w] \cap CurrentOf(r)
      /\ holds'[w] <=> target'[w] # {}
  BY DEF IInv, TypeOK
<1>7. CurrentOf(r) = {} \/ \E k : CurrentOf(r) = {k}
  BY DEF IInv, TypeOK, Request, Chain
<1>8. WriterOK(w)' /\ ~Locked(w, req'[w].rec)
  BY <1>3, <1>4, <1>5, <1>6, <1>7 DEF WriterOK, InTx
<1>9. \A v \in Writers \ {w} :
         /\ pc'[v] = pc[v] /\ req'[v] = req[v] /\ next'[v] = next[v]
         /\ target'[v] = target[v] /\ holds'[v] = holds[v]
  BY DEF IInv, TypeOK
<1> QED BY <1>1, <1>2, <1>6, <1>8, <1>9, LocalStep

LEMMA InsertVersionStep ==
  ASSUME IInv, NEW w \in Writers, InsertVersion(w) PROVE IInv'
<1> DEFINE r == req[w].rec
<1>1. CASE Fail(w)
  BY <1>1, FailStep
<1>2. CASE ~Fail(w)
  <2> USE <1>2 DEF InsertVersion, Goto
  <2>1. TypeOK'
    BY DEF IInv, TypeOK, Phases
  <2>2. SeederInPack'
    BY DEF IInv, TypeOK, SeederInPack, Writers
  <2>3. Versions(r)' = Versions(r) /\ CurrentOf(r)' = CurrentOf(r)
    BY DEF Versions, CurrentOf
  <2>4. r \notin Vocab =>
          \A t \in req[w].payload : \E v \in rows : v.rec \in Vocab /\ t \in v.payload
    BY DEF IInv, ValidatedReferences
  <2>5. next[w] >= 1 /\ 1 .. next[w] - 1 \subseteq Versions(r)
    BY DEF IInv, NextVersion
  <2>6. ~Locked(w, r) /\ next[w] \notin Versions(r) /\ CurrentOf(r) \subseteq target[w]
    BY DEF DuplicateVersion, SecondCurrent
  <2>7. target[w] = CurrentOf(r)
    BY <2>6 DEF IInv, TypeOK, LockDiscipline
  <2>8. /\ pc'[w] = "commit" /\ holds'[w] /\ next'[w] = next[w] /\ req'[w] = req[w]
        /\ target'[w] = target[w]
    BY DEF IInv, TypeOK
  <2>9. WriterOK(w)'
    BY <2>3, <2>4, <2>5, <2>6, <2>7, <2>8 DEF WriterOK, InTx
  <2>10. \A v \in Writers \ {w} :
           /\ pc'[v] = pc[v] /\ req'[v] = req[v] /\ next'[v] = next[v]
           /\ target'[v] = target[v] /\ holds'[v] = holds[v]
    BY DEF IInv, TypeOK
  <2> QED BY <2>1, <2>2, <2>6, <2>8, <2>9, <2>10, LocalStep
<1> QED BY <1>1, <1>2

\* The row appears and the old current row is demoted: the history grows by
\* exactly its next version, which becomes the only current one.
LEMMA CommitStep ==
  ASSUME IInv, NEW w \in Writers, Commit(w) PROVE IInv'
<1> DEFINE r == req[w].rec
           row == [rec |-> r, n |-> next[w], payload |-> req[w].payload,
                   author |-> req[w].author]
<1> USE DEF Commit, Goto
<1>1. /\ r \in Records /\ req[w] \in Request /\ next[w] \in Nat \ {0} /\ row \in Row
      /\ holds[w] /\ target[w] = CurrentOf(r) /\ ~Locked(w, r)
      /\ 1 .. next[w] - 1 \subseteq Versions(r) /\ next[w] \notin Versions(r)
  <2>1. req[w] \in Request /\ next[w] \in Nat
    BY DEF IInv, TypeOK
  <2>2. r \in Records /\ req[w].payload \in SUBSET Tokens /\ req[w].author \in Author
    BY <2>1 DEF Request
  <2>3. /\ next[w] >= 1 /\ 1 .. next[w] - 1 \subseteq Versions(r)
        /\ next[w] \notin Versions(r)
    BY DEF IInv, NextVersion
  <2>4. holds[w] /\ target[w] = CurrentOf(r) /\ ~Locked(w, r)
    BY DEF IInv, LockDiscipline
  <2>5. row \in Row
    BY <2>1, <2>2, <2>3 DEF Row
  <2> QED BY <2>1, <2>2, <2>3, <2>4, <2>5
<1>2. rows' = rows \cup {row} /\ identity' = identity \cup {r}
      /\ current' = (current \ ({r} \X target[w])) \cup {<<r, next[w]>>}
  OBVIOUS
<1>3. ASSUME NEW q, q # r PROVE Versions(q)' = Versions(q) /\ CurrentOf(q)' = CurrentOf(q)
  <2>1. Versions(q)' = Versions(q)
    BY <1>2, <1>3 DEF Versions
  <2>2. \A n : <<q, n>> \in current' <=> <<q, n>> \in current
    BY <1>2, <1>3
  <2> QED BY <2>1, <2>2 DEF CurrentOf
<1>4. Versions(r)' = Versions(r) \cup {next[w]}
  <2>1. row.rec = r /\ row.n = next[w]
    OBVIOUS
  <2>2. \A n : n \in Versions(r)' <=> \E x \in rows \cup {row} : x.rec = r /\ n = x.n
    BY <1>2 DEF Versions
  <2>3. \A n : n \in Versions(r) <=> \E x \in rows : x.rec = r /\ n = x.n
    BY DEF Versions
  <2> HIDE DEF row
  <2> QED BY <2>1, <2>2, <2>3
<1>5. CurrentOf(r)' = {next[w]}
  <2>1. \A n : <<r, n>> \in current' <=> (<<r, n>> \in current /\ n \notin target[w]) \/ n = next[w]
    BY <1>2
  <2> QED BY <2>1, <1>1, <1>4 DEF CurrentOf
<1>6. PICK k \in Versions(r) \cup {0} :
        Versions(r) = 1 .. k /\ CurrentOf(r) = (IF k = 0 THEN {} ELSE {k})
  BY <1>1 DEF IInv, Chain
<1>7. k \in Nat /\ next[w] = k + 1
  <2>1. k \in Nat
    BY <1>6 DEF IInv, TypeOK, Row, Versions
  <2>2. next[w] \in Int /\ next[w] >= 1
    BY <1>1
  <2>3. ~(next[w] <= k)
    BY <2>1, <2>2, <1>1, <1>6
  <2>4. ~(next[w] > k + 1)
    <3>1. next[w] > k + 1 => k + 1 \in 1 .. next[w] - 1
      BY <2>1, <2>2
    <3>2. k + 1 \notin 1 .. k
      BY <2>1
    <3> QED BY <3>1, <3>2, <1>1, <1>6
  <2> QED BY <2>1, <2>2, <2>3, <2>4
<1>8. TypeOK'
  <2>1. identity' \subseteq Records /\ rows' \subseteq Row
    BY <1>1, <1>2 DEF IInv, TypeOK
  <2>2. current' \subseteq Records \X (Nat \ {0})
    BY <1>1, <1>2 DEF IInv, TypeOK
  <2>3. pc' \in [Writers -> Phases] /\ holds' \in [Writers -> BOOLEAN]
    BY DEF IInv, TypeOK, Phases
  <2> QED BY <2>1, <2>2, <2>3 DEF IInv, TypeOK
<1>9. SeederInPack'
  BY DEF IInv, TypeOK, SeederInPack, Writers
<1>10. Chain'
  <2> SUFFICES ASSUME NEW q \in Records
               PROVE  \E j \in (Versions(q) \cup {0})' :
                        /\ Versions(q)' = 1 .. j
                        /\ CurrentOf(q)' = IF j = 0 THEN {} ELSE {j}
                        /\ q \in identity' <=> j # 0
    BY DEF Chain
  <2>1. CASE q = r
    <3>1. Versions(r)' = 1 .. k + 1
      BY <1>4, <1>6, <1>7
    <3>2. k + 1 \in (Versions(r) \cup {0})' /\ k + 1 # 0 /\ r \in identity'
      BY <3>1, <1>2, <1>7
    <3> QED BY <2>1, <3>1, <3>2, <1>5, <1>7
  <2>2. CASE q # r
    <3>1. q \in identity' <=> q \in identity
      BY <1>2, <2>2
    <3> QED BY <3>1, <2>2, <1>3 DEF IInv, Chain
  <2> QED BY <2>1, <2>2
<1>11. RowKeyUnique'
  BY <1>1, <1>2 DEF IInv, RowKeyUnique, Versions
<1>12. \A q : Versions(q) \subseteq Versions(q)'
  BY <1>3, <1>4
<1>13. EventsOfCommittedVersions'
  BY <1>12 DEF IInv, EventsOfCommittedVersions
<1>14. /\ ReferencesWereDeclared'
       /\ ValidatedReferences'
  <2>1. r \notin Vocab =>
          \A t \in req[w].payload : \E v \in rows : v.rec \in Vocab /\ t \in v.payload
    BY DEF IInv, ValidatedReferences
  <2>2. ReferencesWereDeclared'
    BY <2>1, <1>2 DEF IInv, ReferencesWereDeclared
  <2>3. ASSUME NEW v \in Writers, pc'[v] \notin {"idle", "validate"}
        PROVE  pc[v] \notin {"idle", "validate"}
    BY <2>3 DEF IInv, TypeOK
  <2>4. ValidatedReferences'
    BY <2>3, <1>2 DEF IInv, ValidatedReferences
  <2> QED BY <2>2, <2>4
<1>15. \A v \in Writers \ {w} :
         pc'[v] = pc[v] /\ holds'[v] = holds[v] /\ (holds[v] => req[v].rec # r)
  BY <1>1 DEF IInv, TypeOK, Locked
<1>16. pc'[w] = "publish" /\ ~holds'[w]
  BY DEF IInv, TypeOK
<1>17. LockDiscipline'
  <2> SUFFICES ASSUME NEW v \in Writers
               PROVE  /\ holds'[v] => /\ pc'[v] \in {"insert", "commit"}
                                      /\ target'[v] = CurrentOf(req[v].rec)'
                                      /\ ~Locked(v, req[v].rec)'
                      /\ pc'[v] = "commit" => holds'[v]
                      /\ pc'[v] = "insert" /\ ~holds'[v] => target'[v] = {}
    BY DEF LockDiscipline
  <2>1. CASE v = w
    BY <2>1, <1>16
  <2>2. CASE v # w
    <3>1. ~Locked(v, req[v].rec) => ~Locked(v, req[v].rec)'
      BY <1>15, <1>16 DEF Locked
    <3> QED BY <2>2, <3>1, <1>3, <1>15 DEF IInv, LockDiscipline
  <2> QED BY <2>1, <2>2
<1>18. NextVersion'
  <2> SUFFICES ASSUME NEW v \in Writers
               PROVE  /\ pc'[v] \in {"clear", "wait", "insert", "commit", "publish"} =>
                           next[v] >= 1 /\ 1 .. next[v] - 1 \subseteq Versions(req[v].rec)'
                      /\ pc'[v] = "commit" => next[v] \notin Versions(req[v].rec)'
    BY DEF NextVersion
  <2>1. CASE v = w
    BY <2>1, <1>1, <1>12, <1>16
  <2>2. CASE v # w
    <3>1. pc[v] = "commit" => req[v].rec # r
      BY <2>2, <1>15 DEF IInv, LockDiscipline
    <3> QED BY <2>2, <3>1, <1>3, <1>12, <1>15 DEF IInv, NextVersion
  <2> QED BY <2>1, <2>2
<1>19. PendingEvents'
  <2>1. \A i \in DOMAIN topic : topic[i] # [rec |-> r, n |-> next[w]]
    BY <1>1 DEF IInv, EventsOfCommittedVersions
  <2>2. \A v \in Writers \ {w} : pc[v] = "publish" => req[v].rec # r \/ next[v] # next[w]
    BY <1>1 DEF IInv, PendingEvents
  <2>3. next[w] \in Versions(r)'
    BY <1>4
  <2> SUFFICES ASSUME NEW v \in Writers, pc'[v] = "publish"
               PROVE  /\ next[v] \in Versions(req[v].rec)'
                      /\ \A i \in DOMAIN topic : topic[i] # [rec |-> req[v].rec, n |-> next[v]]
                      /\ \A u \in Writers \ {v} :
                           pc'[u] = "publish" => req[u].rec # req[v].rec \/ next[u] # next[v]
    BY DEF PendingEvents
  <2>4. CASE v = w
    BY <2>1, <2>2, <2>3, <2>4, <1>15
  <2>5. CASE v # w
    BY <2>2, <2>5, <1>12, <1>15 DEF IInv, PendingEvents
  <2> QED BY <2>4, <2>5
<1> QED BY <1>8, <1>9, <1>10, <1>11, <1>13, <1>14, <1>17, <1>18, <1>19 DEF IInv

\* The event of a committed version is sent, or lost.
LEMMA PublishStep ==
  ASSUME IInv, NEW w \in Writers, Publish(w) PROVE IInv'
<1> DEFINE event == [rec |-> req[w].rec, n |-> next[w]]
<1> USE DEF Publish, Return, Goto
<1>1. /\ event \in [rec : Records, n : Nat \ {0}]
      /\ next[w] \in Versions(req[w].rec) /\ \A i \in DOMAIN topic : topic[i] # event
  BY DEF IInv, TypeOK, Request, NextVersion, PendingEvents
<1>2. topic' = topic \/ topic' = Append(topic, event)
  OBVIOUS
<1>3. topic \in Seq([rec : Records, n : Nat \ {0}])
  BY DEF IInv, TypeOK
<1> HIDE DEF event
<1>4. topic' = topic
      \/ /\ DOMAIN topic' = 1 .. Len(topic) + 1 /\ DOMAIN topic = 1 .. Len(topic)
         /\ Len(topic) \in Nat
         /\ \A i \in 1 .. Len(topic) : topic'[i] = topic[i]
         /\ topic'[Len(topic) + 1] = event
  BY <1>1, <1>2, <1>3, AppendProperties, LenProperties
<1>5. /\ \A r : Versions(r)' = Versions(r) /\ CurrentOf(r)' = CurrentOf(r)
  BY DEF Versions, CurrentOf
<1>6. TypeOK'
  <2>1. topic' \in Seq([rec : Records, n : Nat \ {0}])
    <3>1. Append(topic, event) \in Seq([rec : Records, n : Nat \ {0}])
      BY <1>1, <1>3, AppendProperties
    <3> QED BY <3>1, <1>2, <1>3
  <2>2. pc' \in [Writers -> Phases]
    BY DEF IInv, TypeOK, Phases
  <2>3. req' \in [Writers -> Request]
    BY NoRequestType DEF IInv, TypeOK
  <2>4. next' \in [Writers -> Nat] /\ target' \in [Writers -> SUBSET (Nat \ {0})]
    BY DEF IInv, TypeOK
  <2>5. seedPos' \in 1 .. Len(SeedPack) + 1
    <3>1. w = Seeder => seedPos \in 1 .. Len(SeedPack)
      BY SeedPackAssumption DEF IInv, SeederInPack
    <3>2. Len(SeedPack) \in Nat
      BY SeedPackAssumption
    <3> QED BY <3>1, <3>2 DEF IInv, TypeOK
  <2> QED BY <2>1, <2>2, <2>3, <2>4, <2>5 DEF IInv, TypeOK
<1>7. SeederInPack'
  BY DEF IInv, TypeOK, SeederInPack
<1>8. Chain' /\ RowKeyUnique' /\ ReferencesWereDeclared'
  BY <1>5 DEF IInv, Chain, RowKeyUnique, ReferencesWereDeclared
<1>9. EventsOfCommittedVersions'
  <2>1. event.rec = req[w].rec /\ event.n = next[w]
    BY DEF event
  <2>2. /\ \A i \in DOMAIN topic : topic[i].n \in Versions(topic[i].rec)
        /\ \A i, j \in DOMAIN topic : topic[i] = topic[j] => i = j
    BY DEF IInv, EventsOfCommittedVersions
  <2>3. CASE topic' = topic
    BY <2>2, <2>3, <1>5 DEF EventsOfCommittedVersions
  <2>4. CASE topic' # topic
    <3>1. \A i \in DOMAIN topic' :
            \/ i \in DOMAIN topic /\ topic'[i] = topic[i]
            \/ i = Len(topic) + 1 /\ topic'[i] = event
      <4>1. \A L \in Nat : \A i \in 1 .. L + 1 : i \in 1 .. L \/ i = L + 1
        OBVIOUS
      <4>2. DOMAIN topic' = 1 .. Len(topic) + 1 /\ DOMAIN topic = 1 .. Len(topic)
        BY <1>4, <2>4
      <4>3. Len(topic) \in Nat /\ topic'[Len(topic) + 1] = event
            /\ \A i \in 1 .. Len(topic) : topic'[i] = topic[i]
        BY <1>4, <2>4
      <4> QED BY ONLY <4>1, <4>2, <4>3
    <3>2. \A i \in DOMAIN topic' : topic'[i].n \in Versions(topic'[i].rec)
      BY <3>1, <2>1, <2>2, <1>1
    <3>3. \A i, j \in DOMAIN topic' : topic'[i] = topic'[j] => i = j
      BY <3>1, <2>2, <1>1
    <3> QED BY <3>2, <3>3, <1>5 DEF EventsOfCommittedVersions
  <2> QED BY <2>3, <2>4
<1>10. /\ pc'[w] = "idle" /\ ~holds'[w]
       /\ \A v \in Writers \ {w} :
           /\ pc'[v] = pc[v] /\ req'[v] = req[v] /\ next'[v] = next[v]
           /\ target'[v] = target[v] /\ holds'[v] = holds[v]
  BY DEF IInv, TypeOK, LockDiscipline
<1>11. LockDiscipline'
  BY <1>5, <1>10 DEF IInv, LockDiscipline, Locked
<1>12. NextVersion' /\ ValidatedReferences'
  BY <1>5, <1>10 DEF IInv, NextVersion, ValidatedReferences
<1>13. PendingEvents'
  <2> SUFFICES ASSUME NEW v \in Writers \ {w}, pc[v] = "publish"
               PROVE  /\ next[v] \in Versions(req[v].rec)
                      /\ \A i \in DOMAIN topic' : topic'[i] # [rec |-> req[v].rec, n |-> next[v]]
                      /\ \A u \in Writers \ {v, w} :
                           pc[u] = "publish" => req[u].rec # req[v].rec \/ next[u] # next[v]
    BY <1>5, <1>10 DEF PendingEvents
  <2>1. event # [rec |-> req[v].rec, n |-> next[v]]
    BY DEF IInv, PendingEvents, event
  <2> QED BY SMTT(60), <2>1, <1>4 DEF IInv, PendingEvents
<1> QED BY <1>6, <1>7, <1>8, <1>9, <1>11, <1>12, <1>13 DEF IInv

-----------------------------------------------------------------------------
LEMMA StutterStep == ASSUME IInv, UNCHANGED vars PROVE IInv'
<1> USE DEF vars
<1>1. /\ \A r : Versions(r)' = Versions(r) /\ CurrentOf(r)' = CurrentOf(r)
  BY DEF Versions, CurrentOf
<1>2. TypeOK' /\ SeederInPack' /\ RowKeyUnique' /\ ReferencesWereDeclared' /\ ValidatedReferences'
  BY DEF IInv, TypeOK, SeederInPack, RowKeyUnique, ReferencesWereDeclared, ValidatedReferences
<1>3. Chain' /\ EventsOfCommittedVersions' /\ NextVersion' /\ PendingEvents'
  BY <1>1 DEF IInv, Chain, EventsOfCommittedVersions, NextVersion, PendingEvents
<1>4. LockDiscipline'
  BY <1>1 DEF IInv, LockDiscipline, Locked
<1> QED BY <1>2, <1>3, <1>4 DEF IInv

\* The invariant is inductive.
THEOREM Inductive == Spec => []IInv
<1>1. Init => IInv
  BY InitInv
<1>2. IInv /\ [Next]_vars => IInv'
  BY BeginStep, SeedNextStep, CrashStep, ValidateStep, ExistsStep, InsertIdentityStep,
     ReadMaxStep, ClearCurrentStep, ResumeClearStep, InsertVersionStep, CommitStep,
     PublishStep, StutterStep
  DEF Next, Step
<1> QED BY <1>1, <1>2, PTL DEF Spec

\* Every variable keeps its type.
THEOREM TypeCorrect == Spec => []TypeOK
BY Inductive, PTL DEF IInv

\* A gapless history with one row per version, for any number of writers.
THEOREM HistoryCorrect == Spec => []VersionHistory
<1>1. IInv => VersionHistory
  <2> SUFFICES ASSUME IInv, NEW r \in Records
               PROVE  Versions(r) = 1 .. maxVersionNumber(r)
    BY DEF VersionHistory, IInv
  <2>1. PICK k \in Versions(r) \cup {0} : Versions(r) = 1 .. k
    BY DEF IInv, Chain
  <2>2. k \in Nat
    BY <2>1 DEF IInv, TypeOK, Row, Versions
  <2> QED BY <2>1, <2>2, MaxOfHistory
<1> QED BY <1>1, Inductive, PTL

\* Exactly one current version, the newest.
THEOREM CurrentCorrect == Spec => []CurrentIsLatest
<1>1. IInv => CurrentIsLatest
  <2> SUFFICES ASSUME IInv, NEW r \in Records
               PROVE  CurrentOf(r) = IF r \in identity THEN {maxVersionNumber(r)} ELSE {}
    BY DEF CurrentIsLatest
  <2>1. PICK k \in Versions(r) \cup {0} :
          /\ Versions(r) = 1 .. k /\ CurrentOf(r) = IF k = 0 THEN {} ELSE {k}
          /\ r \in identity <=> k # 0
    BY DEF IInv, Chain
  <2>2. k \in Nat
    BY <2>1 DEF IInv, TypeOK, Row, Versions
  <2> QED BY <2>1, <2>2, MaxOfHistory
<1> QED BY <1>1, Inductive, PTL

\* No event of an uncommitted version, none twice.
THEOREM EventsCorrect == Spec => []EventsOfCommittedVersions
BY Inductive, PTL DEF IInv

\* No stored reference was ever undeclared.
THEOREM ReferencesCorrect == Spec => []ReferencesWereDeclared
BY Inductive, PTL DEF IInv

-----------------------------------------------------------------------------
(* The seeder.                                                             *)

\* From the moment the seeder has found a record missing to its own commit, the
\* record has no row of the seeder's; all rows written meanwhile are the API's.
SeedPending ==
  /\ \A w \in ApiWriters : req[w].author = "api"
  /\ pc[Seeder] \notin {"idle", "publish"} =>
       \A x \in rows : x.author = "seed" => x.rec # req[Seeder].rec
  /\ SeedWritesOnce

\* A step that writes no row and leaves the seeder where it was, or ends it.
LEMMA SeedQuiet ==
  ASSUME SeedPending, UNCHANGED rows,
         \A w \in ApiWriters : req'[w] = req[w] \/ req'[w].author = "api",
         \/ pc'[Seeder] \in {"idle", "publish"}
         \/ pc[Seeder] \notin {"idle", "publish"} /\ req'[Seeder] = req[Seeder]
  PROVE  SeedPending'
BY DEF SeedPending, SeedWritesOnce

LEMMA SeedCommit == ASSUME IInv, SeedPending, NEW w \in Writers, Commit(w) PROVE SeedPending'
<1> DEFINE new == [rec |-> req[w].rec, n |-> next[w], payload |-> req[w].payload,
                   author |-> req[w].author]
<1>1. /\ pc[w] = "commit" /\ pc' = [pc EXCEPT ![w] = "publish"]
      /\ rows' = rows \cup {new} /\ UNCHANGED req
  BY DEF Commit, Goto
<1>2. \A v \in Writers : pc'[v] = IF v = w THEN "publish" ELSE pc[v]
  BY <1>1 DEF IInv, TypeOK
<1>3. Seeder \in Writers
  BY DEF Writers
<1>4. CASE w = Seeder
  <2>1. \A x \in rows : x.author = "seed" => x.rec # new.rec
    BY <1>1, <1>4 DEF SeedPending
  <2>2. SeedWritesOnce'
    BY <1>1, <2>1 DEF SeedPending, SeedWritesOnce
  <2> QED BY <1>1, <1>2, <1>3, <1>4, <2>2 DEF SeedPending
<1>5. CASE w # Seeder
  <2>1. w \in ApiWriters /\ new.author = "api"
    BY <1>5 DEF Writers, SeedPending
  <2>2. \A x \in rows' : x.author = "seed" => x \in rows
    BY <1>1, <2>1
  <2>3. SeedWritesOnce'
    BY <2>2 DEF SeedPending, SeedWritesOnce
  <2> QED BY <1>1, <1>2, <1>3, <1>5, <2>2, <2>3 DEF SeedPending
<1> QED BY <1>4, <1>5

LEMMA SeedFinds == ASSUME IInv, SeedPending, SeedNext PROVE SeedPending'
<1> DEFINE r == SeedPack[seedPos].rec
<1>1. Seeder \in Writers /\ Seeder \notin ApiWriters /\ r \in Records
      /\ pc[Seeder] = "idle"
  <2>0. seedPos \in 1 .. Len(SeedPack)
    BY SeedPackAssumption DEF SeedNext
  <2>1. SeedPack[seedPos] \in [rec : Records, payload : SUBSET Tokens]
    BY <2>0, SeedPackAssumption, ElementOfSeq
  <2> QED BY <2>1, SeederAssumption DEF SeedNext, Writers
<1>2. CASE recordExists(r)
  BY <1>1, <1>2, SeedQuiet DEF SeedNext
<1>3. CASE ~recordExists(r)
  <2>1. /\ UNCHANGED rows
        /\ req' = [req EXCEPT ![Seeder] = [op |-> "create", rec |-> r,
                                           payload |-> SeedPack[seedPos].payload,
                                           author |-> "seed"]]
    BY <1>3 DEF SeedNext
  <2>2. /\ req'[Seeder].rec = r
        /\ \A w \in ApiWriters : req'[w] = req[w]
    BY <1>1, <2>1 DEF IInv, TypeOK, Writers
  <2>3. Versions(r) = {}
    BY <1>1, <1>3 DEF IInv, Chain, recordExists
  <2>4. \A x \in rows : x.rec # r
    BY <2>3 DEF Versions
  <2> QED BY <2>1, <2>2, <2>4 DEF SeedPending, SeedWritesOnce
<1> QED BY <1>2, <1>3

\* However often the service restarts and whoever writes meanwhile, a record has
\* at most one version of the seeder's.
THEOREM SeedWritesOnceCorrect == Spec => []SeedWritesOnce
<1>1. Init => SeedPending
  BY DEF Init, SeedPending, SeedWritesOnce, NoRequest, Writers
<1>2. ASSUME IInv, SeedPending, [Next]_vars PROVE SeedPending'
  <2> USE <1>2
  <2>1. Seeder \in Writers /\ Seeder \notin ApiWriters /\ ApiWriters \subseteq Writers
        /\ NoRequest.author = "api"
    BY SeederAssumption DEF Writers, NoRequest
  <2>2. CASE Crash
    BY <2>1, <2>2, SeedQuiet DEF Crash
  <2>3. ASSUME NEW w \in Writers, Fail(w) PROVE SeedPending'
    <3>1. CASE w = Seeder
      BY <2>2, <2>3, <3>1 DEF Fail
    <3>2. CASE w # Seeder
      <4>1. /\ req' = [req EXCEPT ![w] = NoRequest] /\ pc' = [pc EXCEPT ![w] = "idle"]
            /\ UNCHANGED rows
        BY <2>3, <3>2 DEF Fail, Return, Goto
      <4>2. /\ pc'[Seeder] = pc[Seeder] /\ req'[Seeder] = req[Seeder]
            /\ \A v \in ApiWriters : req'[v] \in {req[v], NoRequest}
        BY <2>1, <3>2, <4>1 DEF IInv, TypeOK
      <4> QED BY <2>1, <4>1, <4>2, SeedQuiet
    <3> QED BY <3>1, <3>2
  <2>4. ASSUME NEW w \in Writers, Begin(w) PROVE SeedPending'
    <3>1. PICK q \in Request : q.author = "api" /\ req' = [req EXCEPT ![w] = q]
      BY <2>4 DEF Begin
    <3>2. /\ w # Seeder /\ pc' = [pc EXCEPT ![w] = "validate"] /\ UNCHANGED rows
      BY <2>1, <2>4 DEF Begin, Goto
    <3>3. /\ pc'[Seeder] = pc[Seeder] /\ req'[Seeder] = req[Seeder]
          /\ \A v \in ApiWriters : req'[v] \in {req[v], q}
      BY <2>1, <3>1, <3>2 DEF IInv, TypeOK
    <3> QED BY <3>1, <3>2, <3>3, SeedQuiet
  <2>5. ASSUME NEW w \in Writers,
               \/ (Validate(w) \/ Exists(w) \/ InsertIdentity(w) \/ InsertVersion(w)) /\ ~Fail(w)
               \/ ReadMax(w) \/ ClearCurrent(w) \/ ResumeClear(w)
        PROVE  SeedPending'
    <3>1. /\ pc[w] \notin {"idle", "publish"} /\ \E p : pc' = [pc EXCEPT ![w] = p]
          /\ UNCHANGED <<rows, req>>
      BY <2>5 DEF Validate, Exists, InsertIdentity, InsertVersion, ReadMax, ClearCurrent,
                  ResumeClear, Goto
    <3>2. pc[Seeder] \in {"idle", "publish"} => pc'[Seeder] = pc[Seeder]
      BY <2>1, <3>1 DEF IInv, TypeOK
    <3> QED BY <3>1, <3>2, SeedQuiet
  <2>6. ASSUME NEW w \in Writers, Publish(w) PROVE SeedPending'
    <3>1. /\ pc[w] = "publish" /\ req' = [req EXCEPT ![w] = NoRequest]
          /\ pc' = [pc EXCEPT ![w] = "idle"] /\ UNCHANGED rows
      BY <2>6 DEF Publish, Return, Goto
    <3>2. /\ pc'[Seeder] = IF w = Seeder THEN "idle" ELSE pc[Seeder]
          /\ w # Seeder => req'[Seeder] = req[Seeder]
          /\ \A v \in ApiWriters : req'[v] \in {req[v], NoRequest}
      BY <2>1, <3>1 DEF IInv, TypeOK
    <3> QED BY <2>1, <3>1, <3>2, SeedQuiet
  <2>7. CASE UNCHANGED vars
    BY <2>7 DEF vars, SeedPending, SeedWritesOnce
  <2>8. ASSUME NEW w \in Writers, Step(w) PROVE SeedPending'
    BY <2>3, <2>5, <2>6, <2>8, SeedCommit DEF Step
  <2> QED BY <2>2, <2>4, <2>7, <2>8, SeedFinds DEF Next
<1>3. SeedPending => SeedWritesOnce
  BY DEF SeedPending
<1> QED BY <1>1, <1>2, <1>3, Inductive, PTL DEF Spec

-----------------------------------------------------------------------------
(* Knowledge implements the register of histories.  A commit is a write,   *)
(* a publish that reaches the broker an announcement, all else a stutter.  *)

\* The row a key belongs to is the one PayloadOf chooses.
LEMMA KeyedRow ==
  ASSUME NEW S, NEW x \in S,
         \A y, z \in S : y.rec = z.rec /\ y.n = z.n => y = z
  PROVE  (CHOOSE y \in S : y.rec = x.rec /\ y.n = x.n).payload = x.payload
<1> DEFINE c == CHOOSE y \in S : y.rec = x.rec /\ y.n = x.n
<1>1. c \in S /\ c.rec = x.rec /\ c.n = x.n
  OBVIOUS
<1> QED BY <1>1

\* The versions of a record that the commit of w leaves alone.
LEMMA OtherRecord ==
  ASSUME IInv, NEW w \in Writers, Commit(w), NEW q \in Records, q # req[w].rec
  PROVE  /\ Versions(q)' = Versions(q) /\ CurrentOf(q)' = CurrentOf(q)
         /\ \A n \in Versions(q) : PayloadOf(q, n)' = PayloadOf(q, n)
<1> DEFINE row == [rec |-> req[w].rec, n |-> next[w], payload |-> req[w].payload,
                   author |-> req[w].author]
<1>1. rows' = rows \cup {row}
  BY DEF Commit
<1>2. Versions(q)' = Versions(q)
  BY <1>1 DEF Versions
<1>3. CurrentOf(q)' = CurrentOf(q)
  BY <1>2 DEF Commit, CurrentOf
<1>4. ASSUME NEW n \in Versions(q) PROVE PayloadOf(q, n)' = PayloadOf(q, n)
  <2>1. PICK x \in rows : x.rec = q /\ x.n = n
    BY <1>4 DEF Versions
  <2>2. PayloadOf(q, n) = x.payload
    BY <2>1, KeyedRow DEF PayloadOf, IInv, RowKeyUnique
  <2>3. RowKeyUnique'
    BY CommitStep DEF IInv
  <2>4. PayloadOf(q, n)' = x.payload
    BY <1>1, <2>1, <2>3, KeyedRow DEF PayloadOf, RowKeyUnique
  <2> QED BY <2>2, <2>4
<1> QED BY <1>2, <1>3, <1>4

LEMMA CommitWrites ==
  ASSUME IInv, NEW w \in Writers, Commit(w),
         NEW r, r = req[w].rec, NEW p, p = req[w].payload
  PROVE  Register!Write(r, p) /\ r \in Records /\ p \in SUBSET Tokens
<1> DEFINE H    == [q \in Records |-> [n \in Versions(q) |-> PayloadOf(q, n)]]
           A    == [q \in Records |-> {PayloadOf(q, n) : n \in CurrentOf(q)}]
           row  == [rec |-> r, n |-> next[w], payload |-> p, author |-> req[w].author]
<1>1. r \in Records /\ p \in SUBSET Tokens
  BY DEF IInv, TypeOK, Request
<1>2. PICK k \in Nat : Versions(r) = 1 .. k /\ CurrentOf(r) = IF k = 0 THEN {} ELSE {k}
  <2>1. Versions(r) \subseteq Nat
    BY DEF IInv, TypeOK, Row, Versions
  <2>2. PICK k \in Versions(r) \cup {0} : Versions(r) = 1 .. k /\ CurrentOf(r) = IF k = 0 THEN {} ELSE {k}
    BY <1>1 DEF IInv, Chain
  <2> QED BY <2>1, <2>2
<1>3. next[w] = k + 1
  <2>1. next[w] \in Nat /\ next[w] >= 1 /\ 1 .. next[w] - 1 \subseteq 1 .. k /\ next[w] \notin 1 .. k
    BY <1>2 DEF Commit, IInv, TypeOK, NextVersion
  <2>2. CASE next[w] > k + 1
    BY <2>1, <2>2, <1>2
  <2> QED BY <2>1, <2>2, <1>2
<1>4. rows' = rows \cup {row} /\ row.rec = r /\ row.n = next[w] /\ row.payload = p
  BY DEF Commit
<1>5. Versions(r)' = 1 .. k + 1
  <2>1. Versions(r)' = Versions(r) \cup {next[w]}
    BY <1>4 DEF Versions
  <2> QED BY <2>1, <1>2, <1>3
<1>6. CurrentOf(r)' = {k + 1}
  <2>1. target[w] = CurrentOf(r)
    BY DEF Commit, IInv, LockDiscipline
  <2>2. current' = (current \ ({r} \X target[w])) \cup {<<r, next[w]>>}
    BY DEF Commit
  <2>3. \A n : <<r, n>> \in {r} \X target[w] <=> n \in CurrentOf(r)
    BY <2>1
  <2> QED BY <2>2, <2>3, <1>2, <1>3, <1>5 DEF CurrentOf
<1>7. RowKeyUnique /\ RowKeyUnique'
  BY CommitStep DEF IInv
<1>8. PayloadOf(r, k + 1)' = p
  <2>1. row \in rows'
    BY <1>4
  <2> HIDE DEF row
  <2>2. (CHOOSE y \in rows' : y.rec = row.rec /\ y.n = row.n).payload = row.payload
    BY <2>1, <1>7, KeyedRow DEF RowKeyUnique
  <2> QED BY <2>2, <1>3, <1>4 DEF PayloadOf
<1>9. ASSUME NEW n \in 1 .. k PROVE PayloadOf(r, n)' = PayloadOf(r, n)
  <2>1. PICK x \in rows : x.rec = r /\ x.n = n
    BY <1>2, <1>9 DEF Versions
  <2>2. PayloadOf(r, n) = x.payload
    BY <2>1, <1>7, KeyedRow DEF PayloadOf, RowKeyUnique
  <2>3. PayloadOf(r, n)' = x.payload
    BY <2>1, <1>4, <1>7, KeyedRow DEF PayloadOf, RowKeyUnique
  <2> QED BY <2>2, <2>3
<1>10. H[r]' = Append(H[r], p)
  <2>1. H[r] = [n \in 1 .. k |-> PayloadOf(r, n)]
    BY <1>1, <1>2
  <2>2. H[r]' = [n \in 1 .. k + 1 |-> PayloadOf(r, n)']
    BY <1>1, <1>5
  <2> DEFINE s == [n \in 1 .. k |-> PayloadOf(r, n)]
             t == [n \in 1 .. k + 1 |-> PayloadOf(r, n)']
  <2>3. Len(s) = k /\ \A n \in 1 .. k : s[n] = PayloadOf(r, n)
    BY <1>2
  <2>4. Append(s, p) = [n \in 1 .. k + 1 |-> IF n <= k THEN s[n] ELSE p]
    BY <2>3, <1>2
  <2>5. ASSUME NEW n \in 1 .. k + 1
        PROVE  t[n] = IF n <= k THEN s[n] ELSE p
    <3>1. CASE n \in 1 .. k
      BY <3>1, <2>3, <1>9, <1>2
    <3>2. CASE n = k + 1
      BY <3>2, <1>8, <1>2
    <3> QED BY <3>1, <3>2, <1>2
  <2>6. t = Append(s, p)
    BY <2>4, <2>5
  <2> QED BY <2>1, <2>2, <2>6
<1>11. H' = [H EXCEPT ![r] = Append(@, p)]
  <2>1. ASSUME NEW q \in Records, q # r PROVE H[q]' = H[q]
    BY <2>1, OtherRecord
  <2> QED BY <2>1, <1>10, <1>1
<1>12. A' = [A EXCEPT ![r] = {p}]
  <2>1. ASSUME NEW q \in Records, q # r PROVE A[q]' = A[q]
    BY <2>1, OtherRecord DEF CurrentOf
  <2>2. A[r]' = {p}
    BY <1>1, <1>6, <1>8
  <2> QED BY <2>1, <2>2, <1>1
<1>13. UNCHANGED {<<topic[i].rec, topic[i].n>> : i \in DOMAIN topic}
  BY DEF Commit
<1> QED BY <1>1, <1>11, <1>12, <1>13 DEF Register!Write

LEMMA QuietStutters ==
  ASSUME UNCHANGED <<rows, current, topic>> PROVE UNCHANGED Register!vars
BY DEF Register!vars, Versions, CurrentOf, PayloadOf

LEMMA PublishAnnounces ==
  ASSUME IInv, NEW w \in Writers, Publish(w),
         NEW r, r = req[w].rec, NEW v, v = next[w]
  PROVE  Register!Next \/ UNCHANGED Register!vars
<1> DEFINE Event == [rec : Records, n : Nat \ {0}]
           e == [rec |-> r, n |-> v]
           H == [q \in Records |-> [n \in Versions(q) |-> PayloadOf(q, n)]]
           A == [q \in Records |-> {PayloadOf(q, n) : n \in CurrentOf(q)}]
           T == {<<topic[i].rec, topic[i].n>> : i \in DOMAIN topic}
<1>1. CASE UNCHANGED topic
  BY <1>1, QuietStutters DEF Publish
<1>2. CASE topic' = Append(topic, e)
  <2>1. r \in Records /\ v \in Versions(r) /\ \A i \in DOMAIN topic : topic[i] # e
    BY DEF IInv, TypeOK, Request, PendingEvents, Publish
  <2>2. topic \in Seq(Event) /\ e \in Event
    BY <2>1 DEF IInv, TypeOK, Versions, Row
  <2>3. UNCHANGED <<H, A>>
    BY DEF Publish, Versions, CurrentOf, PayloadOf
  <2>4. DOMAIN topic' = DOMAIN topic \cup {Len(topic) + 1}
    BY <1>2, <2>2
  <2>5. topic'[Len(topic) + 1] = e /\ \A i \in DOMAIN topic : topic'[i] = topic[i]
    BY <1>2, <2>2
  <2>6. T' = T \cup {<<r, v>>}
    BY <2>4, <2>5
  <2>7. <<r, v>> \notin T
    <3>1. ASSUME NEW i \in DOMAIN topic, <<topic[i].rec, topic[i].n>> = <<r, v>>
          PROVE  FALSE
      <4>1. topic[i] \in Event
        <5> HIDE DEF Event, T, e
        <5> QED BY <3>1, <2>2
      <4>2. topic[i] = e
        BY <3>1, <4>1
      <4> QED BY <4>2, <2>1
    <3> QED BY <3>1
  <2>8. v \in DOMAIN H[r]
    BY <2>1
  <2>9. Register!Announce(r, v)
    BY <2>3, <2>6, <2>7, <2>8 DEF Register!Announce
  <2> QED BY <2>1, <2>8, <2>9 DEF Register!Next
<1> QED BY <1>1, <1>2 DEF Publish

\* The service implements the register of histories, for any number of
\* requests, records and restarts.
THEOREM RegisterImplemented == Spec => IsVersionedRegister
<1>1. Init => Register!Init
  <2> SUFFICES ASSUME Init PROVE Register!Init
    OBVIOUS
  <2>1. \A r \in Records : Versions(r) = {} /\ CurrentOf(r) = {}
    BY DEF Init, Versions, CurrentOf
  <2>2. [r \in Records |-> [n \in Versions(r) |-> PayloadOf(r, n)]] = [r \in Records |-> <<>>]
    BY <2>1
  <2>3. {<<topic[i].rec, topic[i].n>> : i \in DOMAIN topic} = {}
    BY DEF Init
  <2> QED BY <2>1, <2>2, <2>3 DEF Register!Init
<1>2. ASSUME IInv, [Next]_vars PROVE [Register!Next]_(Register!vars)
  <2>1. CASE UNCHANGED vars
    BY <2>1, QuietStutters DEF vars
  <2>2. CASE SeedNext \/ Crash
    BY <2>2, QuietStutters DEF SeedNext, Crash
  <2>3. ASSUME NEW w \in Writers, Begin(w) \/ Step(w)
        PROVE  Register!Next \/ UNCHANGED Register!vars
    <3>1. CASE Fail(w)
      BY <3>1, QuietStutters DEF Fail, Crash
    <3>2. CASE Begin(w) \/ Validate(w) \/ Exists(w) \/ InsertIdentity(w)
      BY <3>1, <3>2, QuietStutters DEF Begin, Validate, Exists, InsertIdentity
    <3>3. CASE ReadMax(w) \/ ClearCurrent(w) \/ ResumeClear(w) \/ InsertVersion(w)
      BY <3>1, <3>3, QuietStutters DEF ReadMax, ClearCurrent, ResumeClear, InsertVersion
    <3>4. CASE Commit(w)
      BY <3>4, <1>2, CommitWrites DEF Register!Next
    <3>5. CASE Publish(w)
      BY <3>5, <1>2, PublishAnnounces
    <3> QED BY <2>3, <3>2, <3>3, <3>4, <3>5 DEF Step
  <2> QED BY <1>2, <2>1, <2>2, <2>3 DEF Next
<1> QED BY <1>1, <1>2, Inductive, PTL DEF Spec, Register!Spec, IsVersionedRegister
=============================================================================
