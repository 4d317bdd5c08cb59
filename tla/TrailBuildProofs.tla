-------------------------- MODULE TrailBuildProofs --------------------------
(***************************************************************************)
(* Proofs about TrailBuild, for any number of snapshots, threads, rebuilds *)
(* and restarts, any retention and any faults.                             *)
(*                                                                         *)
(* IInv says what a build may rely on at each of its statements.  That the *)
(* store keeps to its retention needs more (Crowded): a transaction keeps  *)
(* to it as far as it can see when it selects, and what it cannot see are  *)
(* the builds of others that have selected before and commit after it, one *)
(* of each thread.  The order of the selects is in no variable; it is      *)
(* quantified in the invariant.                                            *)
(***************************************************************************)
EXTENDS TrailBuild, FiniteSetTheorems, SequenceTheorems, WellFoundedInduction,
        TLAPS

\* Announced snapshots have been cut over to.
Announced ==
  /\ unsent \subseteq 1..current
  /\ \A n \in DOMAIN topic : topic[n] <= current

\* A build is of a snapshot that was cut over to, reads no older one, and has
\* rows of its own in its transaction only; what it announces is stored, and what
\* it marks was announced or lost.
BuildOK(b) ==
  /\ pc[b] # "idle" => snap[b] \in 1..current
  /\ pc[b] \in {"idle", "seen", "policy"} => seen[b] = {}
  /\ \A s \in seen[b] : s >= snap[b]
  /\ pc[b] \in TxPhases => at[b] \in 1..clock
  /\ \A r \in mine[b] : /\ pc[b] \in TxPhases
                         /\ r.snap = snap[b] /\ r.at = at[b] /\ r.read = seen[b]
  /\ pc[b] \in {"emit", "mark"} => snap[b] \in persisted
  /\ pc[b] = "mark" => snap[b] \in out \cup lost

\* A stamp belongs to one build.
Stamped ==
  /\ \A r \in store : r.at <= clock /\ \A b \in Builders : pc[b] \in TxPhases => r.at # at[b]
  /\ \A r, s \in store : r.at = s.at => r.snap = s.snap
  /\ \A b, j \in Builders : b # j /\ {pc[b], pc[j]} \subseteq TxPhases => at[b] # at[j]

IInv ==
  /\ TypeOK
  /\ Announced
  /\ \A b \in Builders : BuildOK(b)
  /\ Stamped
  /\ ClaimsAreBacked /\ ProcessedIsNotRebuilt /\ SliceIsNotOlder

-----------------------------------------------------------------------------
Selected == {b \in Builders : pc[b] \in {"prune", "commit"}}
SnapsOf(rows) == {r.snap : r \in rows}

\* What is stored once b has pruned and committed.
Kept(b) ==
  {r \in Visible(b) : /\ pc[b] = "prune" => r.snap \notin stale[b]
                      /\ pc[b] = "commit" => r \notin target[b] \/ r \in mine[b]}

\* Each of a crowd but one has stored a snapshot beside the retained ones.
Beside(rows, crowd) == Cardinality(SnapsOf(rows)) < Retention + Cardinality(crowd)

\* The selects are ranked as they come, up to now; last is the rank of the latest
\* one that was committed.  Those who have committed since the select of b are in
\* crowd[b], with b; those who have since that latest one, with its own builder,
\* are in crowded.  Whoever selected before is not there yet.
Crowded(rank, now, last, crowd, crowded) ==
  /\ last <= now
  /\ Beside(store, crowded)
  /\ \A b \in Selected :
       /\ rank[b] <= now /\ rank[b] # last
       /\ rank[b] < last => b \notin crowded
       /\ rank[b] > last => Beside(Kept(b), crowd[b])
       /\ \A j \in Selected \ {b} : rank[j] # rank[b] /\ (rank[j] < rank[b] => j \notin crowd[b])
  /\ ~overlapped => /\ Cardinality(crowded) = 1
                    /\ \A b \in Selected : rank[b] > last /\ crowd[b] = {b}

Retained ==
  \E rank \in [Builders -> Nat], now \in Nat, last \in Nat,
     crowd \in [Builders -> SUBSET Builders], crowded \in SUBSET Builders :
       Crowded(rank, now, last, crowd, crowded)

-----------------------------------------------------------------------------
(* Types.                                                                  *)

\* The insert meets no trail that repeats its own.
Inserted(b) ==
  /\ mine' = [mine EXCEPT ![b] = @ \cup {TheRow(b)}]
  /\ todo' = [todo EXCEPT ![b] = Tail(@)]
  /\ UNCHANGED <<current, unsent, topic, polled, committed, alive, processed, dlq,
                 store, out, clock, pc, snap, seen, at, target, dropped, stale, crashes,
                 history>>

LEMMA ElementOf ==
  ASSUME NEW S, NEW q \in Seq(S), NEW n \in Nat, n < Len(q)
  PROVE  q[n + 1] \in S /\ n + 1 \in DOMAIN q
OBVIOUS

LEMMA ElementsOf ==
  ASSUME NEW S, NEW q \in Seq(S)
  PROVE  \A n \in DOMAIN q : q[n] \in S
OBVIOUS

LEMMA ElementsOfAppend ==
  ASSUME NEW S, NEW q \in Seq(S), NEW x \in S
  PROVE  \A n \in DOMAIN Append(q, x) : Append(q, x)[n] = x \/ (n \in DOMAIN q /\ Append(q, x)[n] = q[n])
<1>1. /\ Append(q, x) \in Seq(S) /\ Len(Append(q, x)) = Len(q) + 1 /\ Len(q) \in Nat
      /\ Append(q, x)[Len(q) + 1] = x /\ \A n \in 1..Len(q) : Append(q, x)[n] = q[n]
  BY AppendProperties
<1>2. DOMAIN q = 1..Len(q) /\ DOMAIN Append(q, x) = 1..(Len(q) + 1)
  BY <1>1
<1>3. \A n \in 1..(Len(q) + 1) : n = Len(q) + 1 \/ n \in 1..Len(q)
  BY <1>1
<1> QED
  BY <1>1, <1>2, <1>3

LocalsOK ==
  /\ pc \in [Builders -> Phases]
  /\ snap \in [Builders -> 0 .. MaxSnapshots]
  /\ seen \in [Builders -> SUBSET Snapshots]
  /\ at \in [Builders -> Nat]
  /\ todo \in [Builders -> Seq(Trails)]
  /\ target \in [Builders -> SUBSET Row]
  /\ dropped \in [Builders -> SUBSET Row]
  /\ mine \in [Builders -> SUBSET Row]
  /\ stale \in [Builders -> SUBSET Snapshots]

\* A build that ends leaves nothing behind.
LEMMA ReturnTyped ==
  ASSUME TypeOK, NEW b \in Builders, Return(b)
  PROVE  LocalsOK'
<1>1. "idle" \in Phases /\ 0 \in 0..MaxSnapshots
  BY BoundsAssumption DEF Phases
<1>2. pc' \in [Builders -> Phases] /\ snap' \in [Builders -> 0..MaxSnapshots]
  BY <1>1 DEF TypeOK, Return, Forget, Goto
<1>3. seen' \in [Builders -> SUBSET Snapshots] /\ at' \in [Builders -> Nat]
      /\ todo' \in [Builders -> Seq(Trails)]
  <2>1. <<>> \in Seq(Trails)
    OBVIOUS
  <2> QED
    BY <2>1 DEF TypeOK, Return, Forget
<1>4. target' \in [Builders -> SUBSET Row] /\ dropped' \in [Builders -> SUBSET Row]
  BY DEF TypeOK, Return, Forget
<1>5. mine' \in [Builders -> SUBSET Row] /\ stale' \in [Builders -> SUBSET Snapshots]
  BY DEF TypeOK, Return, Forget
<1> QED
  BY <1>2, <1>3, <1>4, <1>5 DEF LocalsOK

LEMMA FailTyped ==
  ASSUME TypeOK, NEW b \in Builders, Fail(b)
  PROVE  TypeOK'
<1>1. LocalsOK'
  BY ReturnTyped DEF Fail
<1>2. alive' \in BOOLEAN
  BY DEF TypeOK, Fail
<1>3. committed' \in 0..polled'
  <2>1. Len(topic) \in Nat
    BY DEF TypeOK
  <2> QED
    BY <2>1 DEF TypeOK, Fail
<1> QED
  BY <1>1, <1>2, <1>3 DEF LocalsOK, TypeOK, Fail, history

\* Every step keeps to the types.
LEMMA TypeSteps ==
  ASSUME IInv, [Next]_vars
  PROVE  TypeOK'
<1>0. TypeOK /\ Announced
  BY DEF IInv
<1> USE DEF TypeOK
<1>1. CASE CutOver
  BY <1>0, <1>1, BoundsAssumption DEF CutOver, txVars, history, Snapshots
<1>2. CASE Announce
  <2>1. PICK s \in unsent : unsent' = unsent \ {s} /\ topic' = Append(topic, s)
    BY <1>2 DEF Announce
  <2>2. topic' \in Seq(0..MaxSnapshots) /\ Len(topic') = Len(topic) + 1
    BY <1>0, <2>1 DEF Snapshots
  <2> QED
    BY <1>0, <1>2, <2>1, <2>2 DEF Announce, txVars, history
<1>3. CASE poll
  <2>1. topic[polled + 1] \in 0..MaxSnapshots /\ polled + 1 \in DOMAIN topic
    <3>1. polled \in Nat /\ polled < Len(topic) /\ topic \in Seq(0..MaxSnapshots)
      BY <1>0, <1>3 DEF poll
    <3> QED
      BY <3>1, ElementOf
  <2> QED
    BY <1>0, <1>3, <2>1 DEF poll, Goto, Phases, Builders, txVars, history
<1>4. CASE dedupe
  <2>1. CASE Return(Consumer)
    <3>1. LocalsOK'
      BY <1>0, <2>1, ReturnTyped DEF Builders
    <3> QED
      BY <1>0, <1>4, <3>1 DEF dedupe, LocalsOK, history
  <2>2. CASE ~Return(Consumer)
    BY <1>0, <1>4, <2>2 DEF dedupe, Goto, Phases, BuildPhases, txVars, history
  <2> QED
    BY <2>1, <2>2
<1>5. CASE mark_processed
  <2>1. snap[Consumer] \in Snapshots
    BY <1>5 DEF mark_processed, IInv, BuildOK, Builders, Snapshots
  <2>2. LocalsOK'
    BY <1>0, <1>5, ReturnTyped DEF mark_processed, Builders
  <2> QED
    BY <1>0, <1>5, <2>1, <2>2 DEF mark_processed, LocalsOK, history
<1>6. CASE autoCommit
  BY <1>0, <1>6 DEF autoCommit, txVars, history
<1>7. ASSUME NEW b \in Builders, rebuild(b)
      PROVE  TypeOK'
  <2>1. PICK s \in 1..current : snap' = [snap EXCEPT ![b] = s]
    BY <1>7 DEF rebuild
  <2>2. s \in 0..MaxSnapshots /\ "policy" \in Phases
    BY <1>0, BoundsAssumption DEF Phases, BuildPhases
  <2> QED
    BY <1>0, <1>7, <2>1, <2>2 DEF rebuild, Goto, txVars, history
<1>8. ASSUME NEW b \in Builders, Step(b)
      PROVE  TypeOK'
  <2>0. BuildOK(b)
    BY DEF IInv
  <2>1. CASE get_policy(b)
    BY <1>0, <2>1 DEF get_policy, Goto, Phases, BuildPhases, txVars, history
  <2>2. CASE fetch_slice(b)
    <3>1. current \in Snapshots
      BY <1>0, <2>0, <2>2 DEF fetch_slice, _get, BuildOK, Snapshots
    <3> QED
      BY <1>0, <2>2, <3>1 DEF fetch_slice, _get, txVars, history
  <2>3. CASE compute(b)
    <3>1. TrailsOf[seen[b]] \in Seq(Trails)
      BY <1>0, TrailsAssumption DEF Snapshots
    <3> QED
      BY <1>0, <2>3, <3>1 DEF compute, Goto, Phases, BuildPhases, TxPhases, history
  <2>4. CASE supersede(b)
    BY <1>0, <2>4 DEF supersede, Goto, Phases, BuildPhases, TxPhases, history
  <2>5. CASE deleteRow(b)
    BY <1>0, <2>5 DEF deleteRow, history
  <2>6. CASE insert(b)
    <3>0. todo[b] \in Seq(Trails) /\ todo[b] # <<>>
      BY <1>0, <2>6 DEF insert
    <3>1. TheRow(b) \in Row /\ Tail(todo[b]) \in Seq(Trails)
      BY <1>0, <2>0, <2>6, <3>0 DEF insert, BuildOK, TheRow, Row, TxPhases, Snapshots
    <3>2. CASE Fail(b)
      BY <1>0, <3>2, FailTyped
    <3>3. CASE Inserted(b)
      BY <1>0, <3>1, <3>3 DEF Inserted, history
    <3> QED
      BY <2>6, <3>2, <3>3 DEF insert, Inserted
  <2>7. CASE select(b)
    <3>1. _prune_old_snapshots(Visible(b), Retention) \in SUBSET Snapshots
      BY <1>0 DEF _prune_old_snapshots, Visible, Row
    <3> QED
      BY <1>0, <2>7, <3>1 DEF select, Goto, Phases, BuildPhases, TxPhases, history
  <2>8. CASE prune(b)
    BY <1>0, <2>8 DEF prune, Goto, Phases, BuildPhases, TxPhases, history
  <2>10. CASE commit(b)
    <3>1. snap[b] \in Snapshots
      BY <1>0, <2>0, <2>10 DEF commit, BuildOK, Snapshots
    <3> QED
      BY <1>0, <2>10, <3>1 DEF commit, Visible, Goto, Phases, BuildPhases, history
  <2>11. CASE emit(b)
    <3>1. snap[b] \in Snapshots
      BY <1>0, <2>0, <2>11 DEF emit, BuildOK, Snapshots
    <3>2. Return(b) => LocalsOK'
      BY <1>0, ReturnTyped
    <3> QED
      BY <1>0, <2>11, <3>1, <3>2 DEF emit, Goto, Phases, txVars, LocalsOK, history
  <2>12. CASE deadlockDetected(b)
    BY <1>0, <2>12, FailTyped DEF deadlockDetected
  <2> QED
    BY <1>8, <2>1, <2>2, <2>3, <2>4, <2>5, <2>6, <2>7, <2>8, <2>10, <2>11, <2>12 DEF Step
<1>9. ASSUME NEW b \in Builders, dependencyFails(b)
      PROVE  TypeOK'
  <2>1. snap[b] \in Snapshots
    BY <1>0, <1>9 DEF dependencyFails, IInv, BuildOK, Snapshots
  <2>2. LocalsOK'
    BY <1>0, <1>9, ReturnTyped DEF dependencyFails
  <2> QED
    BY <1>0, <1>9, <2>1, <2>2 DEF dependencyFails, LocalsOK, history
<1>10. ASSUME NEW b \in Builders, raises(b)
       PROVE  TypeOK'
  BY <1>0, <1>10, FailTyped DEF raises
<1>11. CASE Crash
  <2>1. LocalsOK'
    <3>1. <<>> \in Seq(Trails)
      OBVIOUS
    <3> QED
      BY <1>11, <3>1, BoundsAssumption DEF Crash, LocalsOK, Phases
  <2>2. alive' \in BOOLEAN
    BY <1>11 DEF Crash
  <2>3. polled' \in 0..Len(topic') /\ committed' \in 0..polled'
    <3>1. Len(topic) \in Nat
      BY <1>0
    <3> QED
      BY <1>0, <1>11, <3>1 DEF Crash
  <2>4. crashes' \in 0..MaxCrashes
    BY <1>0, <1>11, BoundsAssumption DEF Crash
  <2> QED
    BY <1>0, <1>11, <2>1, <2>2, <2>3, <2>4 DEF Crash, LocalsOK, history
<1>12. CASE UNCHANGED vars
  BY <1>0, <1>12 DEF vars, txVars, history
<1>13. CASE _to_dlq_raises
  <2>1. polled' \in 0..Len(topic') /\ committed' \in 0..polled'
    <3>1. Len(topic) \in Nat
      BY <1>0
    <3> QED
      BY <1>0, <1>13, <3>1 DEF _to_dlq_raises
  <2> QED
    BY <1>0, <1>13, <2>1 DEF _to_dlq_raises, txVars, history
<1> QED
  BY <1>1, <1>2, <1>3, <1>4, <1>5, <1>6, <1>7, <1>8, <1>9, <1>10, <1>11, <1>12, <1>13
  DEF Next, Handle

-----------------------------------------------------------------------------
(* What builds rely on.                                                    *)

Same(j) ==
  /\ pc'[j] = pc[j] /\ snap'[j] = snap[j] /\ seen'[j] = seen[j]
  /\ at'[j] = at[j] /\ mine'[j] = mine[j]

LEMMA InitInv == Init => IInv
<1> SUFFICES ASSUME Init PROVE IInv
  OBVIOUS
<1>1. TypeOK
  <2>1. topic \in Seq(0..MaxSnapshots)
    BY BacklogAssumption, BoundsAssumption DEF Init
  <2>2. /\ pc \in [Builders -> Phases] /\ snap \in [Builders -> 0..MaxSnapshots]
        /\ at \in [Builders -> Nat] /\ current \in 0..MaxSnapshots /\ crashes \in 0..MaxCrashes
    BY BoundsAssumption DEF Init, Phases
  <2>3. LocalsOK
    <3>1. <<>> \in Seq(Trails)
      OBVIOUS
    <3> QED
      BY <2>2, <3>1 DEF Init, LocalsOK
  <2>4. alive \in BOOLEAN /\ overlapped \in BOOLEAN
    BY DEF Init
  <2>5. polled \in 0..Len(topic) /\ committed \in 0..polled
    BY <2>1 DEF Init
  <2> QED
    BY <2>1, <2>2, <2>3, <2>4, <2>5 DEF Init, TypeOK, LocalsOK
<1>2. Announced
  BY BacklogAssumption DEF Init, Announced
<1>3. ASSUME NEW b \in Builders PROVE BuildOK(b)
  BY DEF Init, BuildOK, TxPhases
<1>4. Stamped
  BY DEF Init, Stamped, TxPhases
<1> QED
  BY <1>1, <1>2, <1>3, <1>4
  DEF IInv, Init, ClaimsAreBacked, ProcessedIsNotRebuilt, SliceIsNotOlder, BuildPhases, TxPhases, Builders

\* What a build relies on, others do not take away.
LEMMA OthersOK ==
  ASSUME IInv, TypeOK', NEW j \in Builders, Same(j),
         current <= current', clock <= clock', persisted \subseteq persisted',
         out \cup lost \subseteq (out \cup lost)'
  PROVE  BuildOK(j)'
<1>1. BuildOK(j) /\ current \in Nat /\ current' \in Nat /\ clock \in Nat /\ clock' \in Nat
  BY DEF IInv, TypeOK
<1>2. pc'[j] # "idle" => snap'[j] \in 1..current'
  BY <1>1 DEF BuildOK, Same
<1>3. pc'[j] \in TxPhases => at'[j] \in 1..clock'
  BY <1>1 DEF BuildOK, Same
<1> QED
  BY <1>1, <1>2, <1>3 DEF BuildOK, Same

\* A step of one build that stores nothing and takes no stamp.
LEMMA BuilderStep ==
  ASSUME IInv, TypeOK', NEW b \in Builders, \A j \in Builders \ {b} : Same(j),
         UNCHANGED <<current, unsent, topic, store, persisted, clock>>, BuildOK(b)',
         out \cup lost \subseteq (out \cup lost)',
         pc'[b] \in TxPhases => pc[b] \in TxPhases /\ at'[b] = at[b],
         ClaimsAreBacked', ProcessedIsNotRebuilt'
  PROVE  IInv'
<1>1. Announced' /\ SliceIsNotOlder'
  BY DEF IInv, Announced, SliceIsNotOlder
<1>2. ASSUME NEW j \in Builders PROVE BuildOK(j)'
  <2>1. current <= current' /\ clock <= clock'
    BY DEF IInv, TypeOK
  <2> QED
    BY <2>1, OthersOK
<1>3. \A j \in Builders : pc'[j] \in TxPhases => pc[j] \in TxPhases /\ at'[j] = at[j]
  BY DEF Same
<1>4. Stamped'
  BY <1>3 DEF IInv, Stamped
<1> QED
  BY <1>1, <1>2, <1>4 DEF IInv

\* A build that ends has no part in the invariant.
LEMMA ReturnStep ==
  ASSUME IInv, TypeOK', NEW b \in Builders, Return(b),
         UNCHANGED <<current, unsent, topic, store, persisted, clock>>, ClaimsAreBacked',
         out \cup lost \subseteq (out \cup lost)',
         b # Consumer => UNCHANGED processed
  PROVE  IInv'
<1>1. /\ pc'[b] = "idle" /\ seen'[b] = {} /\ mine'[b] = {}
      /\ \A j \in Builders \ {b} : Same(j)
  BY DEF IInv, TypeOK, Return, Forget, Goto, Same
<1>2. BuildOK(b)'
  BY <1>1 DEF BuildOK, TxPhases
<1>3. ProcessedIsNotRebuilt'
  BY <1>1 DEF IInv, ProcessedIsNotRebuilt, BuildPhases, TxPhases, Same, Builders
<1> QED
  BY <1>1, <1>2, <1>3, BuilderStep DEF TxPhases

LEMMA FailStep ==
  ASSUME IInv, TypeOK', NEW b \in Builders, Fail(b)
  PROVE  IInv'
BY ReturnStep DEF Fail, history, IInv, ClaimsAreBacked

\* Each statement of a build keeps what builds rely on.
LEMMA StepInv ==
  ASSUME IInv, TypeOK', NEW b \in Builders, Step(b)
  PROVE  IInv'
<1>0. /\ TypeOK /\ Stamped /\ SliceIsNotOlder /\ ClaimsAreBacked /\ ProcessedIsNotRebuilt
      /\ BuildOK(b)
  BY DEF IInv
<1>1. CASE get_policy(b)
  <2>1. BuildOK(b)'
    BY <1>0, <1>1 DEF get_policy, BuildOK, TypeOK, Goto, TxPhases, txVars, history
  <2>2. ProcessedIsNotRebuilt'
    BY <1>0, <1>1 DEF get_policy, ProcessedIsNotRebuilt, Goto, BuildPhases, TypeOK
  <2> QED
    BY <1>0, <1>1, <2>1, <2>2, BuilderStep
    DEF get_policy, Goto, Same, TypeOK, TxPhases, ClaimsAreBacked, txVars, history
<1>2. CASE fetch_slice(b)
  <2>1. BuildOK(b)'
    BY <1>0, <1>2 DEF fetch_slice, _get, BuildOK, TypeOK, TxPhases, txVars, history
  <2> QED
    BY <1>0, <1>2, <2>1, BuilderStep
    DEF fetch_slice, _get, Same, TypeOK, TxPhases, ClaimsAreBacked, ProcessedIsNotRebuilt, txVars, history
<1>3. CASE compute(b)
  <2>1. /\ \A j \in Builders \ {b} : Same(j)
        /\ pc'[b] = "supersede" /\ at'[b] = clock + 1 /\ clock' = clock + 1
    BY <1>0, <1>3 DEF compute, Goto, Same, TypeOK, txVars
  <2>2. BuildOK(b)'
    BY <1>0, <1>3, <2>1 DEF compute, BuildOK, TypeOK, TxPhases, txVars, history
  <2>3. current <= current' /\ clock <= clock' /\ persisted \subseteq persisted'
        /\ out \cup lost \subseteq (out \cup lost)'
    BY <1>0, <1>3 DEF compute, TypeOK, history
  <2>4. \A j \in Builders : BuildOK(j)'
    BY <2>1, <2>2, <2>3, OthersOK
  <2>5. Stamped'
    <3>1. clock \in Nat /\ store' = store
      BY <1>0, <1>3 DEF compute, TypeOK
    <3>2. \A r \in store : r.at \in Nat /\ r.at <= clock
      BY <1>0 DEF Stamped, TypeOK, Row
    <3>3. \A j \in Builders \ {b} : /\ pc'[j] = pc[j] /\ at'[j] = at[j]
                                    /\ pc[j] \in TxPhases => at[j] \in 1..clock
      BY <2>1 DEF Same, IInv, BuildOK
    <3>4. \A r \in store : r.at <= clock' /\ \A j \in Builders : pc'[j] \in TxPhases => r.at # at'[j]
      BY <1>0, <2>1, <3>1, <3>2, <3>3 DEF Stamped
    <3>5. \A i, j \in Builders : i # j /\ {pc'[i], pc'[j]} \subseteq TxPhases => at'[i] # at'[j]
      BY <1>0, <2>1, <3>1, <3>3 DEF Stamped
    <3> QED
      BY <1>0, <3>1, <3>4, <3>5 DEF Stamped
  <2>6. ProcessedIsNotRebuilt'
    BY <1>0, <1>3 DEF compute, ProcessedIsNotRebuilt, Goto, BuildPhases, TypeOK
  <2> QED
    BY <1>0, <1>3, <2>4, <2>5, <2>6
    DEF compute, IInv, Announced, SliceIsNotOlder, ClaimsAreBacked, history
<1>4. CASE supersede(b)
  <2>1. BuildOK(b)'
    BY <1>0, <1>4 DEF supersede, BuildOK, TypeOK, Goto, TxPhases, history
  <2>2. ProcessedIsNotRebuilt'
    BY <1>0, <1>4 DEF supersede, ProcessedIsNotRebuilt, Goto, BuildPhases, TxPhases, TypeOK
  <2> QED
    BY <1>0, <1>4, <2>1, <2>2, BuilderStep
    DEF supersede, Goto, Same, TypeOK, TxPhases, ClaimsAreBacked, history
<1>5. CASE deleteRow(b)
  <2>1. BuildOK(b)'
    BY <1>0, <1>5 DEF deleteRow, BuildOK, history
  <2>2. ProcessedIsNotRebuilt'
    BY <1>0, <1>5 DEF deleteRow, ProcessedIsNotRebuilt
  <2> QED
    BY <1>0, <1>5, <2>1, <2>2, BuilderStep DEF deleteRow, Same, ClaimsAreBacked, history
<1>6. CASE insert(b)
  <2>1. CASE Fail(b)
    BY <2>1, FailStep
  <2>2. CASE Inserted(b) /\ pc[b] = "insert"
    <3>1. BuildOK(b)'
      <4>1. \A r \in mine'[b] : r \in mine[b] \/ r = TheRow(b)
        BY <1>0, <2>2 DEF Inserted, TypeOK
      <4>2. TheRow(b).snap = snap[b] /\ TheRow(b).at = at[b] /\ TheRow(b).read = seen[b]
        BY DEF TheRow
      <4> QED
        BY <1>0, <2>2, <4>1, <4>2 DEF Inserted, BuildOK, TxPhases, history
    <3>2. ProcessedIsNotRebuilt'
      BY <1>0, <2>2 DEF Inserted, ProcessedIsNotRebuilt
    <3> QED
      BY <1>0, <2>2, <3>1, <3>2, BuilderStep
      DEF Inserted, Same, TypeOK, ClaimsAreBacked, history
  <2> QED
    BY <1>6, <2>1, <2>2 DEF insert, Inserted
<1>7. CASE select(b)
  <2>1. BuildOK(b)'
    BY <1>0, <1>7 DEF select, BuildOK, TypeOK, Goto, TxPhases, history
  <2>2. ProcessedIsNotRebuilt'
    BY <1>0, <1>7 DEF select, ProcessedIsNotRebuilt, Goto, BuildPhases, TxPhases, TypeOK
  <2> QED
    BY <1>0, <1>7, <2>1, <2>2, BuilderStep
    DEF select, Goto, Same, TypeOK, TxPhases, ClaimsAreBacked, history
<1>8. CASE prune(b)
  <2>1. BuildOK(b)'
    BY <1>0, <1>8 DEF prune, BuildOK, TypeOK, Goto, TxPhases, history
  <2>2. ProcessedIsNotRebuilt'
    BY <1>0, <1>8 DEF prune, ProcessedIsNotRebuilt, Goto, BuildPhases, TxPhases, TypeOK
  <2> QED
    BY <1>0, <1>8, <2>1, <2>2, BuilderStep
    DEF prune, Goto, Same, TypeOK, TxPhases, ClaimsAreBacked, history
<1>10. CASE commit(b)
  <2>1. /\ \A j \in Builders \ {b} : Same(j)
        /\ pc[b] = "commit" /\ pc'[b] = "emit" /\ mine'[b] = {}
        /\ UNCHANGED <<snap, seen, at, clock, current, unsent, topic>>
    BY <1>0, <1>10 DEF commit, Goto, Same, TypeOK
  <2>2. persisted' = persisted \cup {snap[b]} /\ UNCHANGED <<processed, out, lost>>
    BY <1>10 DEF commit
  <2>3. BuildOK(b)'
    BY <1>0, <2>1, <2>2 DEF BuildOK, TxPhases
  <2>4. \A j \in Builders : BuildOK(j)'
    <3>1. current <= current' /\ clock <= clock'
      BY <1>0, <2>1 DEF TypeOK
    <3> QED
      BY <2>1, <2>2, <2>3, <3>1, OthersOK
  <2>5. \A r \in store' : r \in store \/ (r.snap = snap[b] /\ r.at = at[b] /\ r.read = seen[b])
    BY <1>0, <1>10 DEF commit, Visible, BuildOK
  <2>6. at[b] \in 1..clock /\ \A s \in seen[b] : s >= snap[b]
    BY <1>0, <2>1 DEF BuildOK, TxPhases
  <2>7. Stamped'
    <3>1. \A j \in Builders : pc'[j] \in TxPhases => pc[j] \in TxPhases /\ j # b /\ at'[j] = at[j]
      BY <2>1 DEF Same, TxPhases
    <3>2. pc[b] \in TxPhases
      BY <2>1 DEF TxPhases
    <3>3. ASSUME NEW r \in store'
          PROVE  r.at <= clock' /\ \A j \in Builders : pc'[j] \in TxPhases => r.at # at'[j]
      <4>1. CASE r \in store
        BY <1>0, <2>1, <3>1, <4>1 DEF Stamped
      <4>2. CASE r.at = at[b]
        BY <1>0, <2>1, <2>6, <3>1, <3>2, <4>2 DEF Stamped
      <4> QED
        BY <2>5, <4>1, <4>2
    <3>4. \A r, s \in store' : r.at = s.at => r.snap = s.snap
      BY <1>0, <2>5, <3>2 DEF Stamped
    <3>5. \A i, j \in Builders : i # j /\ {pc'[i], pc'[j]} \subseteq TxPhases => at'[i] # at'[j]
      BY <1>0, <3>1 DEF Stamped
    <3> QED
      BY <3>3, <3>4, <3>5 DEF Stamped
  <2>8. SliceIsNotOlder'
    BY <1>0, <2>5, <2>6 DEF SliceIsNotOlder
  <2>9. ClaimsAreBacked'
    BY <1>0, <2>2 DEF ClaimsAreBacked
  <2>10. ProcessedIsNotRebuilt'
    BY <1>0, <2>1, <2>2 DEF ProcessedIsNotRebuilt, BuildPhases, TxPhases, Same, Builders
  <2> QED
    BY <2>1, <2>4, <2>7, <2>8, <2>9, <2>10 DEF IInv, Announced
<1>11. CASE emit(b)
  <2>0. (out \cup lost)' = out \cup lost \cup {snap[b]}
    BY <1>11 DEF emit
  <2>1. ClaimsAreBacked'
    BY <1>0, <1>11, <2>0 DEF emit, ClaimsAreBacked, BuildOK
  <2>2. CASE Return(b)
    BY <1>11, <2>0, <2>1, <2>2, ReturnStep DEF emit
  <2>3. CASE ~Return(b)
    <3>1. b = Consumer /\ pc' = [pc EXCEPT ![b] = "mark"] /\ UNCHANGED <<snap, seen, at, txVars>>
      BY <1>11, <2>3 DEF emit, Goto
    <3>2. BuildOK(b)'
      BY <1>0, <1>11, <2>0, <3>1 DEF emit, BuildOK, TypeOK, TxPhases, txVars
    <3>3. ProcessedIsNotRebuilt'
      BY <1>0, <3>1 DEF ProcessedIsNotRebuilt, BuildPhases, TxPhases, TypeOK
    <3>4. \A j \in Builders \ {b} : Same(j)
      BY <1>0, <3>1 DEF Same, TypeOK, txVars
    <3> QED
      BY <1>0, <1>11, <2>0, <2>1, <3>1, <3>2, <3>3, <3>4, BuilderStep DEF emit, TypeOK, TxPhases
  <2> QED
    BY <2>2, <2>3
<1>12. CASE deadlockDetected(b)
  BY <1>12, FailStep DEF deadlockDetected
<1> QED
  BY <1>1, <1>2, <1>3, <1>4, <1>5, <1>6, <1>7, <1>8, <1>10, <1>11, <1>12 DEF Step

\* Every step keeps what builds rely on.
LEMMA BuildSteps ==
  ASSUME IInv, TypeOK', [Next]_vars
  PROVE  IInv'
<1>0. TypeOK /\ Stamped /\ SliceIsNotOlder /\ ClaimsAreBacked /\ ProcessedIsNotRebuilt
  BY DEF IInv
<1>1. CASE CutOver
  <2>1. \A j \in Builders : Same(j)
    BY <1>1 DEF CutOver, Same, txVars
  <2>2. current <= current' /\ clock <= clock' /\ persisted \subseteq persisted'
        /\ out \cup lost \subseteq (out \cup lost)'
    BY <1>0, <1>1 DEF CutOver, TypeOK, history
  <2>3. \A j \in Builders : BuildOK(j)'
    BY <2>1, <2>2, OthersOK
  <2>4. Announced'
    <3>1. \A n \in DOMAIN topic : topic[n] \in 0..MaxSnapshots
      BY <1>0, ElementsOf DEF TypeOK
    <3>2. current \in Nat /\ current' = current + 1 /\ topic' = topic
      BY <1>0, <1>1 DEF CutOver, TypeOK
    <3> QED
      BY <1>1, <3>1, <3>2 DEF CutOver, IInv, Announced
  <2> QED
    BY <1>1, <2>1, <2>3, <2>4
    DEF CutOver, IInv, Stamped, SliceIsNotOlder, ClaimsAreBacked, ProcessedIsNotRebuilt, Same, history
<1>2. CASE Announce
  <2>1. \A j \in Builders : Same(j)
    BY <1>2 DEF Announce, Same, txVars
  <2>2. current <= current' /\ clock <= clock' /\ persisted \subseteq persisted'
        /\ out \cup lost \subseteq (out \cup lost)'
    BY <1>0, <1>2 DEF Announce, TypeOK, history
  <2>3. \A j \in Builders : BuildOK(j)'
    BY <2>1, <2>2, OthersOK
  <2>4. Announced'
    <3>1. PICK s \in unsent : unsent' = unsent \ {s} /\ topic' = Append(topic, s)
      BY <1>2 DEF Announce
    <3>2. \A n \in DOMAIN topic' : topic'[n] = s \/ (n \in DOMAIN topic /\ topic'[n] = topic[n])
      <4>1. topic \in Seq(0..MaxSnapshots) /\ s \in 0..MaxSnapshots
        BY <1>0 DEF TypeOK, Snapshots
      <4> QED
        BY <3>1, <4>1, ElementsOfAppend
    <3> QED
      BY <1>0, <1>2, <3>1, <3>2 DEF Announce, IInv, Announced, TypeOK
  <2> QED
    BY <1>2, <2>1, <2>3, <2>4
    DEF Announce, IInv, Stamped, SliceIsNotOlder, ClaimsAreBacked, ProcessedIsNotRebuilt, Same, history
<1>3. CASE poll
  <2>1. topic[polled + 1] \in 0..current
    <3>1. polled \in Nat /\ polled < Len(topic) /\ topic \in Seq(0..MaxSnapshots)
      BY <1>0, <1>3 DEF poll, TypeOK
    <3>2. topic[polled + 1] \in 0..MaxSnapshots /\ polled + 1 \in DOMAIN topic
      BY <3>1, ElementOf
    <3> QED
      BY <1>0, <3>2 DEF IInv, Announced, TypeOK
  <2>2. BuildOK(Consumer)
    BY DEF IInv, Builders
  <2>3. BuildOK(Consumer)'
    BY <1>0, <1>3, <2>1, <2>2 DEF poll, BuildOK, TypeOK, Goto, TxPhases, txVars, history, Builders
  <2>4. /\ \A j \in Builders \ {Consumer} : Same(j)
        /\ pc'[Consumer] \in {"idle", "seen"}
    BY <1>0, <1>3 DEF poll, Goto, Same, TypeOK, txVars, Builders
  <2>5. ClaimsAreBacked' /\ ProcessedIsNotRebuilt'
    BY <1>0, <1>3, <2>4 DEF poll, ClaimsAreBacked, ProcessedIsNotRebuilt, BuildPhases, TxPhases, history
  <2> QED
    BY <1>3, <2>3, <2>4, <2>5, BuilderStep DEF poll, TxPhases, history, Builders
<1>4. CASE dedupe
  <2>1. CASE Return(Consumer)
    BY <1>0, <1>4, <2>1, ReturnStep DEF dedupe, ClaimsAreBacked, history, Builders
  <2>2. CASE ~Return(Consumer)
    <3>1. BuildOK(Consumer)
      BY DEF IInv, Builders
    <3>2. /\ pc' = [pc EXCEPT ![Consumer] = "policy"] /\ UNCHANGED <<snap, seen, at, txVars>>
          /\ snap[Consumer] \notin processed
      BY <1>4, <2>2 DEF dedupe, Goto
    <3>3. BuildOK(Consumer)'
      BY <1>0, <1>4, <3>1, <3>2 DEF dedupe, BuildOK, TypeOK, TxPhases, txVars, history, Builders
    <3>4. \A j \in Builders \ {Consumer} : Same(j)
      BY <1>0, <3>2 DEF Same, TypeOK, txVars, Builders
    <3>5. ClaimsAreBacked' /\ ProcessedIsNotRebuilt'
      BY <1>0, <1>4, <3>2 DEF dedupe, ClaimsAreBacked, ProcessedIsNotRebuilt, history
    <3> QED
      BY <1>0, <1>4, <3>2, <3>3, <3>4, <3>5, BuilderStep DEF dedupe, TxPhases, history, Builders, TypeOK
  <2> QED
    BY <2>1, <2>2
<1>5. CASE mark_processed
  <2>1. snap[Consumer] \in persisted /\ snap[Consumer] \in out \cup lost
    BY <1>5 DEF mark_processed, IInv, BuildOK, Builders
  <2>2. ClaimsAreBacked'
    BY <1>0, <1>5, <2>1 DEF mark_processed, ClaimsAreBacked, history
  <2> QED
    BY <1>5, <2>2, ReturnStep DEF mark_processed, history, Builders
<1>6. CASE autoCommit
  <2>1. \A j \in Builders : Same(j) /\ BuildOK(j)'
    <3>1. \A j \in Builders : Same(j)
      BY <1>6 DEF autoCommit, Same, txVars
    <3>2. current <= current' /\ clock <= clock' /\ persisted \subseteq persisted'
          /\ out \cup lost \subseteq (out \cup lost)'
      BY <1>0, <1>6 DEF autoCommit, TypeOK, history
    <3> QED
      BY <3>1, <3>2, OthersOK
  <2> QED
    BY <1>6, <2>1
    DEF autoCommit, IInv, Announced, Stamped, SliceIsNotOlder, ClaimsAreBacked,
        ProcessedIsNotRebuilt, Same, history
<1>7. ASSUME NEW b \in Builders, rebuild(b)
      PROVE  IInv'
  <2>1. PICK s \in 1..current : snap' = [snap EXCEPT ![b] = s]
    BY <1>7 DEF rebuild
  <2>2. BuildOK(b) /\ b # Consumer
    BY <1>7, BuildersAssumption DEF IInv, rebuild
  <2>3. BuildOK(b)'
    BY <1>0, <1>7, <2>1, <2>2 DEF rebuild, BuildOK, TypeOK, Goto, TxPhases, txVars, history
  <2>4. (\A j \in Builders \ {b} : Same(j)) /\ pc'[b] = "policy"
    BY <1>0, <1>7, <2>1 DEF rebuild, Goto, Same, TypeOK, txVars
  <2>5. ClaimsAreBacked' /\ ProcessedIsNotRebuilt'
    BY <1>0, <1>7, <2>2, <2>4 DEF rebuild, ClaimsAreBacked, ProcessedIsNotRebuilt, Same, history, Builders
  <2> QED
    BY <1>7, <2>3, <2>4, <2>5, BuilderStep DEF rebuild, TxPhases, history
<1>8. ASSUME NEW b \in Builders, Step(b)
      PROVE  IInv'
  BY <1>8, StepInv
<1>9. ASSUME NEW b \in Builders, dependencyFails(b)
      PROVE  IInv'
  BY <1>0, <1>9, ReturnStep DEF dependencyFails, ClaimsAreBacked
<1>10. ASSUME NEW b \in Builders, raises(b)
       PROVE  IInv'
  BY <1>10, FailStep DEF raises
<1>11. CASE Crash
  <2>1. \A j \in Builders : pc'[j] = "idle" /\ seen'[j] = {} /\ mine'[j] = {}
    BY <1>11 DEF Crash
  <2>2. \A j \in Builders : BuildOK(j)'
    BY <2>1 DEF BuildOK, TxPhases
  <2>3. Announced'
    BY <1>11 DEF Crash, IInv, Announced
  <2>4. Stamped'
    BY <1>0, <1>11, <2>1 DEF Crash, Stamped, TxPhases
  <2> QED
    BY <1>0, <1>11, <2>1, <2>2, <2>3, <2>4
    DEF Crash, IInv, SliceIsNotOlder, ClaimsAreBacked, ProcessedIsNotRebuilt, BuildPhases, TxPhases,
        history, Builders
<1>12. CASE UNCHANGED vars
  <2>1. \A j \in Builders : BuildOK(j)'
    BY <1>12 DEF vars, txVars, history, IInv, BuildOK
  <2> QED
    BY <1>12, <2>1
    DEF vars, txVars, history, IInv, Announced, Stamped, SliceIsNotOlder, ClaimsAreBacked,
        ProcessedIsNotRebuilt
<1>13. CASE _to_dlq_raises
  <2>1. \A j \in Builders : Same(j)
    BY <1>13 DEF _to_dlq_raises, Same, txVars
  <2>2. current <= current' /\ clock <= clock' /\ persisted \subseteq persisted'
        /\ out \cup lost \subseteq (out \cup lost)'
    BY <1>0, <1>13 DEF _to_dlq_raises, TypeOK, history
  <2>3. \A j \in Builders : BuildOK(j)'
    BY <2>1, <2>2, OthersOK
  <2> QED
    BY <1>13, <2>1, <2>3
    DEF _to_dlq_raises, IInv, Announced, Stamped, SliceIsNotOlder, ClaimsAreBacked,
        ProcessedIsNotRebuilt, Same, history
<1> QED
  BY <1>1, <1>2, <1>3, <1>4, <1>5, <1>6, <1>7, <1>8, <1>9, <1>10, <1>11, <1>12, <1>13
  DEF Next, Handle

-----------------------------------------------------------------------------
(* Retention.                                                              *)

\* A bounded set of numbers that is not empty has a greatest and a least element.
LEMMA LeastIn ==
  ASSUME NEW S \in SUBSET Nat, S # {}
  PROVE  \E n \in S : \A m \in S : n <= m
<1> DEFINE R == {p \in Nat \X Nat : p[1] < p[2]}
<1>1. IsWellFoundedOn(R, Nat)
  BY NatLessThanWellFounded DEF OpToRel
<1>2. PICK n \in S : \A m \in S : <<m, n>> \notin R
  <2> HIDE DEF R
  <2> QED
    BY <1>1, WFMin
<1>3. ASSUME NEW m \in S
      PROVE  n <= m
  <2>1. m \in Nat /\ n \in Nat
    OBVIOUS
  <2>2. ~(m < n)
    BY <1>2, <2>1
  <2> QED
    BY <2>1, <2>2
<1> QED
  BY <1>3

LEMMA MaxIn ==
  ASSUME NEW S \in SUBSET Nat, S # {}, NEW n \in Nat, \A m \in S : m <= n
  PROVE  Max(S) \in S /\ \A m \in S : m <= Max(S)
<1> DEFINE D == {n - m : m \in S}
<1>1. D \in SUBSET Nat /\ D # {}
  <2>1. \A m \in S : n - m \in Nat
    OBVIOUS
  <2>2. \A d \in D : d \in Nat
    BY <2>1
  <2>3. PICK m \in S : TRUE
    OBVIOUS
  <2>4. n - m \in D
    OBVIOUS
  <2> QED
    BY <2>2, <2>4
<1>2. PICK d \in D : \A e \in D : d <= e
  BY <1>1, LeastIn
<1>3. PICK k \in S : d = n - k
  OBVIOUS
<1>4. \A m \in S : k >= m
  <2> TAKE m \in S
  <2>1. n - k <= n - m
    BY <1>2, <1>3
  <2> QED
    BY <2>1
<1> QED
  BY <1>4 DEF Max

LEMMA FiniteBuilders == IsFiniteSet(Builders) /\ Cardinality(Builders) \in Nat
BY BuildersAssumption, FS_AddElement, FS_CardinalityType DEF Builders

LEMMA FiniteSnaps ==
  ASSUME NEW rows \in SUBSET Row
  PROVE  SnapsOf(rows) \subseteq Snapshots /\ IsFiniteSet(SnapsOf(rows))
         /\ Cardinality(SnapsOf(rows)) \in Nat
<1>1. SnapsOf(rows) \subseteq Snapshots
  BY DEF SnapsOf, Row
<1>2. IsFiniteSet(Snapshots)
  BY FS_Interval, BoundsAssumption DEF Snapshots
<1> QED
  BY <1>1, <1>2, FS_Subset, FS_CardinalityType

\* Pruning keeps the snapshots built last, and no more of them than it is told to.
LEMMA PruneKeeps ==
  ASSUME NEW rows \in SUBSET Row, NEW n \in Nat, \A r \in rows : r.at <= n,
         \A r, s \in rows : r.at = s.at => r.snap = s.snap, NEW keep \in Nat \ {0}
  PROVE  Cardinality(SnapsOf(rows) \ _prune_old_snapshots(rows, keep)) <= keep
<1> DEFINE BuiltAt(s) == Max({r.at : r \in {x \in rows : x.snap = s}})
           All        == SnapsOf(rows)
           Later(s)   == {t \in All : BuiltAt(t) > BuiltAt(s)}
           K          == All \ _prune_old_snapshots(rows, keep)
<1>1. K = {s \in All : ~(Cardinality(Later(s)) >= keep)}
  BY DEF _prune_old_snapshots, SnapsOf
<1>2. ASSUME NEW s \in All
      PROVE  \E r \in rows : r.snap = s /\ r.at = BuiltAt(s) /\ BuiltAt(s) \in Nat
  <2> DEFINE S == {r.at : r \in {x \in rows : x.snap = s}}
  <2>1. S \in SUBSET Nat /\ S # {} /\ \A m \in S : m <= n
    BY DEF SnapsOf, Row
  <2>2. Max(S) \in S
    BY <2>1, MaxIn
  <2> QED
    BY <2>1, <2>2
<1>3. \A s, t \in All : BuiltAt(s) = BuiltAt(t) => s = t
  BY <1>2
<1>4. IsFiniteSet(All) /\ IsFiniteSet(K) /\ Cardinality(K) \in Nat
  BY FiniteSnaps, FS_Subset, FS_CardinalityType
<1> HIDE DEF BuiltAt, K
<1>5. CASE K = {}
  BY <1>5, FS_EmptySet DEF K
<1>6. CASE K # {}
  <2> DEFINE Times == {BuiltAt(t) : t \in K}
  <2>1. Times \in SUBSET Nat /\ Times # {}
    <3>1. \A t \in K : BuiltAt(t) \in Nat
      BY <1>1, <1>2
    <3>2. \A c \in Times : c \in Nat
      BY <3>1
    <3>3. PICK t \in K : TRUE
      BY <1>6
    <3>4. BuiltAt(t) \in Times
      OBVIOUS
    <3> QED
      BY <3>2, <3>4
  <2>2. PICK a \in Times : \A c \in Times : a <= c
    BY <2>1, LeastIn
  <2>3. PICK s \in K : a = BuiltAt(s)
    OBVIOUS
  <2>4. K \ {s} \subseteq Later(s)
    <3> SUFFICES ASSUME NEW t \in K \ {s} PROVE t \in Later(s)
      OBVIOUS
    <3>1. t \in All /\ s \in All /\ BuiltAt(s) <= BuiltAt(t)
      BY <1>1, <2>2, <2>3
    <3> QED
      BY <1>2, <1>3, <3>1
  <2>5. IsFiniteSet(Later(s)) /\ Cardinality(Later(s)) \in Nat
    BY <1>4, FS_Subset, FS_CardinalityType
  <2>6. Cardinality(Later(s)) < keep
    BY <1>1, <2>5
  <2>7. Cardinality(K \ {s}) <= Cardinality(Later(s))
    BY <2>4, <2>5, FS_Subset
  <2>8. Cardinality(K \ {s}) = Cardinality(K) - 1
    BY <1>4, FS_RemoveElement
  <2> QED
    BY <1>4, <2>5, <2>6, <2>7, <2>8 DEF K
<1> QED
  BY <1>5, <1>6

LEMMA BesideShrinks ==
  ASSUME NEW rows \in SUBSET Row, NEW crowd \in SUBSET Builders, Beside(rows, crowd),
         NEW fewer \in SUBSET Row, SnapsOf(fewer) \subseteq SnapsOf(rows)
  PROVE  Beside(fewer, crowd)
<1>1. /\ IsFiniteSet(SnapsOf(rows)) /\ Cardinality(SnapsOf(rows)) \in Nat
      /\ Cardinality(SnapsOf(fewer)) \in Nat
  BY FiniteSnaps
<1>2. Cardinality(SnapsOf(fewer)) <= Cardinality(SnapsOf(rows))
  BY <1>1, FS_Subset
<1>3. Cardinality(crowd) \in Nat
  BY FiniteBuilders, FS_Subset, FS_CardinalityType
<1> QED
  BY <1>1, <1>2, <1>3, RetentionAssumption DEF Beside

\* One more of the crowd makes room for one more snapshot.
LEMMA BesideGrows ==
  ASSUME NEW rows \in SUBSET Row, NEW crowd \in SUBSET Builders, Beside(rows, crowd),
         NEW more \in SUBSET Row, NEW s, SnapsOf(more) \subseteq SnapsOf(rows) \cup {s},
         NEW b \in Builders \ crowd
  PROVE  Beside(more, crowd \cup {b})
<1>1. /\ IsFiniteSet(SnapsOf(rows)) /\ Cardinality(SnapsOf(rows)) \in Nat
      /\ Cardinality(SnapsOf(more)) \in Nat
  BY FiniteSnaps
<1>2. /\ IsFiniteSet(SnapsOf(rows) \cup {s})
      /\ Cardinality(SnapsOf(rows) \cup {s}) \in {Cardinality(SnapsOf(rows)), Cardinality(SnapsOf(rows)) + 1}
  BY <1>1, FS_AddElement
<1>3. Cardinality(SnapsOf(more)) <= Cardinality(SnapsOf(rows) \cup {s})
  BY <1>2, FS_Subset
<1>4. IsFiniteSet(crowd) /\ Cardinality(crowd) \in Nat
  BY FiniteBuilders, FS_Subset, FS_CardinalityType
<1>5. Cardinality(crowd \cup {b}) = Cardinality(crowd) + 1
  BY <1>4, FS_AddElement
<1> QED
  BY <1>1, <1>2, <1>3, <1>4, <1>5, RetentionAssumption DEF Beside

LEMMA KeptRows ==
  ASSUME TypeOK, NEW b \in Builders
  PROVE  Visible(b) \in SUBSET Row /\ Kept(b) \in SUBSET Row /\ SnapsOf(Kept(b)) \subseteq SnapsOf(Visible(b))
BY DEF TypeOK, Visible, Kept, SnapsOf

\* A step that stores nothing and after which nobody keeps more than before.
LEMMA QuietCrowd ==
  ASSUME TypeOK, TypeOK', Retained, UNCHANGED <<store, overlapped>>,
         \A b \in Selected' : b \in Selected /\ SnapsOf(Kept(b)') \subseteq SnapsOf(Kept(b))
  PROVE  Retained'
<1>1. PICK rank \in [Builders -> Nat], now \in Nat, last \in Nat,
           crowd \in [Builders -> SUBSET Builders], crowded \in SUBSET Builders :
             Crowded(rank, now, last, crowd, crowded)
  BY DEF Retained
<1>2. ASSUME NEW b \in Selected', rank[b] > last
      PROVE  Beside(Kept(b)', crowd[b])
  <2>1. b \in Builders /\ b \in Selected /\ Beside(Kept(b), crowd[b])
    BY <1>1, <1>2 DEF Crowded, Selected
  <2>2. Kept(b) \in SUBSET Row
    BY <2>1, KeptRows
  <2>3. Kept(b)' \in SUBSET Row
    BY <2>1 DEF TypeOK, Visible, Kept
  <2> QED
    BY <2>1, <2>2, <2>3, BesideShrinks
<1>3. Crowded(rank, now, last, crowd, crowded)'
  BY <1>1, <1>2 DEF Crowded, Beside, SnapsOf
<1> QED
  BY <1>3 DEF Retained

LEMMA SelectCrowd ==
  ASSUME IInv, TypeOK', Retained, NEW b \in Builders, select(b)
  PROVE  Retained'
<1>1. PICK rank \in [Builders -> Nat], now \in Nat, last \in Nat,
           crowd \in [Builders -> SUBSET Builders], crowded \in SUBSET Builders :
             Crowded(rank, now, last, crowd, crowded)
  BY DEF Retained
<1>2. /\ TypeOK /\ pc[b] = "insert" /\ UNCHANGED <<store, overlapped, dropped, mine, target>>
      /\ stale' = [stale EXCEPT ![b] = _prune_old_snapshots(Visible(b), Retention)]
      /\ pc' = [pc EXCEPT ![b] = "prune"]
  BY DEF IInv, select, Goto, history
<1>3. Selected' = Selected \cup {b} /\ b \notin Selected
  BY <1>2 DEF Selected, TypeOK
<1>4. ASSUME NEW j \in Selected
      PROVE  Kept(j)' = Kept(j)
  BY <1>2, <1>3 DEF Kept, Visible, TypeOK, Selected
<1>5. Cardinality(SnapsOf(Kept(b)')) <= Retention
  <2>1. SnapsOf(Kept(b)') = SnapsOf(Visible(b)) \ _prune_old_snapshots(Visible(b), Retention)
    BY <1>2 DEF Kept, Visible, SnapsOf, TypeOK
  <2>2. /\ \A r \in Visible(b) : r \in store \/ (r.snap = snap[b] /\ r.at = at[b])
        /\ at[b] \in 1..clock /\ clock \in Nat /\ pc[b] \in TxPhases
    BY <1>2 DEF IInv, BuildOK, TypeOK, Visible, TxPhases
  <2>3. \A r \in Visible(b) : r.at <= clock
    BY <2>2 DEF IInv, Stamped
  <2>4. \A r, s \in Visible(b) : r.at = s.at => r.snap = s.snap
    BY <2>2 DEF IInv, Stamped
  <2> QED
    BY <1>2, <2>1, <2>2, <2>3, <2>4, PruneKeeps, KeptRows, RetentionAssumption
<1> DEFINE rank1  == [rank EXCEPT ![b] = now + 1]
           crowd1 == [crowd EXCEPT ![b] = {b}]
<1>6. rank1 \in [Builders -> Nat] /\ crowd1 \in [Builders -> SUBSET Builders] /\ now + 1 \in Nat
  OBVIOUS
<1>7. \A j \in Builders : /\ rank1[j] = IF j = b THEN now + 1 ELSE rank[j]
                          /\ crowd1[j] = IF j = b THEN {b} ELSE crowd[j]
  OBVIOUS
<1>8. Beside(Kept(b)', {b})
  <2>1. Cardinality({b}) = 1
    BY FS_Singleton
  <2>2. Kept(b)' \in SUBSET Row
    BY DEF TypeOK, Visible, Kept
  <2>3. Cardinality(SnapsOf(Kept(b)')) \in Nat
    BY <2>2, FiniteSnaps
  <2> QED
    BY <1>5, <2>1, <2>3, RetentionAssumption DEF Beside
<1> HIDE DEF rank1, crowd1
<1>9. last <= now + 1 /\ Beside(store', crowded)
  BY <1>1, <1>2 DEF Crowded
<1>10. ASSUME NEW i \in Selected'
       PROVE  /\ rank1[i] <= now + 1 /\ rank1[i] # last
              /\ rank1[i] < last => i \notin crowded
              /\ rank1[i] > last => Beside(Kept(i)', crowd1[i])
              /\ \A j \in Selected' \ {i} :
                   rank1[j] # rank1[i] /\ (rank1[j] < rank1[i] => j \notin crowd1[i])
  <2>0. Selected' \subseteq Builders /\ rank \in [Builders -> Nat] /\ last <= now
    BY <1>1 DEF Selected, Crowded
  <2>1. CASE i = b
    <3>1. rank1[i] = now + 1 /\ crowd1[i] = {b}
      BY <1>7, <2>1
    <3>2. \A j \in Selected' \ {i} : rank1[j] = rank[j] /\ rank[j] <= now /\ rank[j] \in Nat
      BY <1>1, <1>3, <1>7, <2>0, <2>1 DEF Crowded
    <3> QED
      BY <1>8, <2>0, <2>1, <3>1, <3>2
  <2>2. CASE i # b
    <3>1. i \in Selected /\ rank1[i] = rank[i] /\ crowd1[i] = crowd[i] /\ rank[i] \in Nat
      BY <1>3, <1>7, <2>0, <2>2
    <3>2. /\ rank[i] <= now /\ rank[i] # last
          /\ rank[i] < last => i \notin crowded
          /\ rank[i] > last => Beside(Kept(i), crowd[i])
          /\ \A j \in Selected \ {i} : rank[j] # rank[i] /\ (rank[j] < rank[i] => j \notin crowd[i])
      BY <1>1, <3>1 DEF Crowded
    <3>3. ASSUME NEW j \in Selected' \ {i}
          PROVE  rank1[j] # rank1[i] /\ (rank1[j] < rank1[i] => j \notin crowd1[i])
      <4>1. CASE j = b
        BY <1>7, <2>0, <3>1, <3>2, <4>1
      <4>2. CASE j # b
        <5>1. j \in Selected \ {i} /\ rank1[j] = rank[j]
          BY <1>3, <1>7, <2>0, <4>2
        <5> QED
          BY <3>1, <3>2, <5>1
      <4> QED
        BY <4>1, <4>2
    <3> QED
      BY <1>4, <3>1, <3>2, <3>3
  <2> QED
    BY <2>1, <2>2
<1>11. ~overlapped' => /\ Cardinality(crowded) = 1
                       /\ \A i \in Selected' : rank1[i] > last /\ crowd1[i] = {i}
  BY <1>1, <1>2, <1>3, <1>7 DEF Crowded, Selected
<1>12. Crowded(rank1, now + 1, last, crowd1, crowded)'
  BY <1>9, <1>10, <1>11 DEF Crowded, Beside, SnapsOf
<1> QED
  BY <1>6, <1>12 DEF Retained

LEMMA CommitCrowd ==
  ASSUME IInv, TypeOK', Retained, NEW b \in Builders, commit(b)
  PROVE  Retained'
<1>1. PICK rank \in [Builders -> Nat], now \in Nat, last \in Nat,
           crowd \in [Builders -> SUBSET Builders], crowded \in SUBSET Builders :
             Crowded(rank, now, last, crowd, crowded)
  BY DEF Retained
<1>2. /\ TypeOK /\ pc[b] = "commit" /\ store' = Visible(b) /\ target[b] = {}
      /\ \A r \in mine[b] : r.snap = snap[b]
      /\ pc' = [pc EXCEPT ![b] = "emit"] /\ UNCHANGED <<target, stale>>
      /\ \A j \in Builders \ {b} : dropped'[j] = dropped[j] /\ mine'[j] = mine[j]
  BY DEF IInv, BuildOK, TypeOK, commit, Goto
<1>3. Selected' = Selected \ {b} /\ b \in Selected
  BY <1>2 DEF Selected, TypeOK
<1>4. Visible(b) = Kept(b) /\ store \in SUBSET Row /\ store' \in SUBSET Row
  BY <1>2 DEF Kept, TypeOK
<1>5. SnapsOf(store') \subseteq SnapsOf(store) \cup {snap[b]}
  BY <1>2 DEF Visible, SnapsOf
<1>6. ASSUME NEW j \in Selected'
      PROVE  /\ Kept(j) \in SUBSET Row /\ Kept(j)' \in SUBSET Row
             /\ SnapsOf(Kept(j)') \subseteq SnapsOf(Kept(j)) \cup {snap[b]}
  <2>1. j \in Builders \ {b} /\ pc'[j] = pc[j]
    BY <1>2, <1>3 DEF Selected, TypeOK
  <2>2. Kept(j) \in SUBSET Row /\ Kept(j)' \in SUBSET Row
    BY <1>2, <2>1 DEF TypeOK, Visible, Kept
  <2>3. \A r \in Kept(j)' : r \in Kept(j) \/ r.snap = snap[b]
    BY <1>2, <2>1 DEF Kept, Visible
  <2> QED
    BY <2>2, <2>3 DEF SnapsOf
<1>7. /\ rank[b] \in Nat /\ rank[b] <= now /\ rank[b] # last
      /\ rank[b] < last => b \notin crowded
      /\ rank[b] > last => Beside(Kept(b), crowd[b])
  BY <1>1, <1>3 DEF Crowded
<1>8. ASSUME NEW j \in Selected'
      PROVE  /\ j \in Builders \ {b} /\ j \in Selected /\ rank[j] \in Nat /\ rank[j] <= now
             /\ rank[j] # rank[b] /\ rank[j] # last
             /\ rank[j] < rank[b] => j \notin crowd[b]
             /\ rank[j] < last => j \notin crowded
             /\ rank[b] < rank[j] => b \notin crowd[j]
             /\ \A i \in Selected' \ {j} : rank[i] # rank[j] /\ (rank[i] < rank[j] => i \notin crowd[j])
  BY <1>1, <1>3 DEF Crowded, Selected
<1> DEFINE crowd1 == [j \in Builders |-> IF rank[j] > rank[b] THEN crowd[j] \cup {b} ELSE crowd[j]]
           last1  == IF rank[b] > last THEN rank[b] ELSE last
           crowded1 == IF rank[b] > last THEN crowd[b] ELSE crowded \cup {b}
<1>9. /\ crowd1 \in [Builders -> SUBSET Builders] /\ last1 \in Nat
      /\ crowded1 \in SUBSET Builders
  BY <1>1, <1>7
<1>10. \A j \in Builders :
         crowd1[j] = IF rank[j] > rank[b] THEN crowd[j] \cup {b} ELSE crowd[j]
  OBVIOUS
<1> HIDE DEF crowd1
<1>11. last1 <= now /\ Beside(store', crowded1)
  <2>1. last <= now /\ Beside(store, crowded)
    BY <1>1 DEF Crowded
  <2>2. CASE rank[b] > last
    BY <1>2, <1>4, <1>7, <2>2
  <2>3. CASE rank[b] < last
    <3>1. Beside(store', crowded \cup {b})
      BY <1>4, <1>5, <1>7, <2>1, <2>3, BesideGrows
    <3> QED
      BY <1>7, <2>1, <2>3, <3>1
  <2> QED
    BY <1>7, <2>2, <2>3
<1>12. ASSUME NEW j \in Selected'
       PROVE  /\ rank[j] <= now /\ rank[j] # last1
              /\ rank[j] < last1 => j \notin crowded1
              /\ rank[j] > last1 => Beside(Kept(j)', crowd1[j])
              /\ \A i \in Selected' \ {j} : rank[i] # rank[j] /\ (rank[i] < rank[j] => i \notin crowd1[j])
  <2>1. rank[j] <= now /\ rank[j] # last1
    BY <1>7, <1>8
  <2>2. rank[j] < last1 => j \notin crowded1
    BY <1>7, <1>8
  <2>3. ASSUME rank[j] > last1
        PROVE  Beside(Kept(j)', crowd1[j])
    <3>1. rank[j] > last /\ rank[j] > rank[b]
      BY <1>7, <1>8, <2>3
    <3>2. Beside(Kept(j), crowd[j]) /\ crowd1[j] = crowd[j] \cup {b} /\ b \in Builders \ crowd[j]
      BY <1>1, <1>8, <1>10, <3>1 DEF Crowded
    <3> QED
      <4>1. /\ Kept(j) \in SUBSET Row /\ Kept(j)' \in SUBSET Row
            /\ SnapsOf(Kept(j)') \subseteq SnapsOf(Kept(j)) \cup {snap[b]}
        BY <1>6
      <4>2. crowd[j] \in SUBSET Builders
        BY <1>1, <1>8
      <4>3. Beside(Kept(j)', crowd[j] \cup {b})
        BY <3>2, <4>1, <4>2, BesideGrows
      <4> QED
        BY <3>2, <4>3
  <2>4. ASSUME NEW i \in Selected' \ {j}
        PROVE  rank[i] # rank[j] /\ (rank[i] < rank[j] => i \notin crowd1[j])
    BY <1>8, <1>10, <2>4
  <2> QED
    BY <2>1, <2>2, <2>3, <2>4
<1>13. ASSUME ~overlapped'
       PROVE  /\ Cardinality(crowded1) = 1
              /\ \A j \in Selected' : rank[j] > last1 /\ crowd1[j] = {j}
  <2>1. ~overlapped /\ \A j \in Builders \ {b} : pc[j] \notin TxPhases
    BY <1>13 DEF commit
  <2>2. Selected' = {}
    BY <1>2, <2>1 DEF Selected, TypeOK, TxPhases
  <2>3. rank[b] > last /\ crowd[b] = {b}
    BY <1>1, <1>3, <2>1 DEF Crowded
  <2>4. Cardinality({b}) = 1
    BY FS_Singleton
  <2> QED
    BY <2>2, <2>3, <2>4
<1> HIDE DEF last1, crowded1
<1>14. Crowded(rank, now, last1, crowd1, crowded1)'
  BY <1>11, <1>12, <1>13 DEF Crowded, Beside, SnapsOf
<1> QED
  BY <1>9, <1>14 DEF Retained

\* Every step keeps the crowd accounted for.
LEMMA CrowdSteps ==
  ASSUME IInv, TypeOK', Retained, [Next]_vars
  PROVE  Retained'
<1>0. TypeOK
  BY DEF IInv
<1>1. ASSUME NEW b \in Builders, Return(b), UNCHANGED <<store, overlapped>>
      PROVE  Retained'
  <2>1. \A j \in Selected' : j \in Selected /\ Kept(j)' = Kept(j)
    BY <1>0, <1>1 DEF Return, Forget, Goto, Selected, Kept, Visible, TypeOK
  <2> QED
    BY <1>0, <1>1, <2>1, QuietCrowd
<1>2. ASSUME NEW b \in Builders, Fail(b)
      PROVE  Retained'
  BY <1>1, <1>2 DEF Fail, history
<1>3. CASE CutOver \/ Announce \/ _to_dlq_raises \/ autoCommit \/ UNCHANGED vars
  <2>1. UNCHANGED <<pc, store, overlapped, dropped, mine, target, stale>>
    BY <1>3 DEF CutOver, Announce, _to_dlq_raises, autoCommit, vars, txVars, history
  <2>2. \A j \in Selected' : j \in Selected /\ Kept(j)' = Kept(j)
    BY <2>1 DEF Selected, Kept, Visible
  <2> QED
    BY <1>0, <2>1, <2>2, QuietCrowd
<1>4. CASE poll
  <2>1. UNCHANGED <<store, overlapped, dropped, mine, target, stale>>
        /\ (pc' = pc \/ pc' = [pc EXCEPT ![Consumer] = "seen"])
    BY <1>4 DEF poll, Goto, txVars, history
  <2>2. \A j \in Selected' : j \in Selected /\ Kept(j)' = Kept(j)
    BY <1>0, <2>1 DEF Selected, Kept, Visible, TypeOK
  <2> QED
    BY <1>0, <2>1, <2>2, QuietCrowd
<1>5. CASE dedupe
  <2>1. CASE Return(Consumer)
    BY <1>1, <1>5, <2>1 DEF dedupe, history, Builders
  <2>2. CASE ~Return(Consumer)
    <3>1. UNCHANGED <<store, overlapped, dropped, mine, target, stale>>
          /\ pc' = [pc EXCEPT ![Consumer] = "policy"]
      BY <1>5, <2>2 DEF dedupe, Goto, txVars, history
    <3>2. \A j \in Selected' : j \in Selected /\ Kept(j)' = Kept(j)
      BY <1>0, <3>1 DEF Selected, Kept, Visible, TypeOK
    <3> QED
      BY <1>0, <3>1, <3>2, QuietCrowd
  <2> QED
    BY <2>1, <2>2
<1>6. CASE mark_processed
  BY <1>1, <1>6 DEF mark_processed, history, Builders
<1>7. ASSUME NEW b \in Builders, rebuild(b) \/ get_policy(b) \/ fetch_slice(b) \/ compute(b)
                                 \/ supersede(b) \/ (Inserted(b) /\ pc[b] = "insert")
      PROVE  Retained'
  <2>1. /\ UNCHANGED <<store, overlapped, stale>>
        /\ \A j \in Builders \ {b} : /\ pc'[j] = pc[j] /\ dropped'[j] = dropped[j]
                                     /\ mine'[j] = mine[j] /\ target'[j] = target[j]
        /\ pc'[b] \notin {"prune", "commit"}
    <3>1. CASE rebuild(b)
      BY <1>0, <3>1 DEF rebuild, Goto, TypeOK, txVars, history
    <3>2. CASE get_policy(b)
      BY <1>0, <3>2 DEF get_policy, Goto, TypeOK, txVars, history
    <3>3. CASE fetch_slice(b)
      BY <1>0, <3>3 DEF fetch_slice, _get, TypeOK, txVars, history
    <3>4. CASE compute(b)
      BY <1>0, <3>4 DEF compute, Goto, TypeOK, history
    <3>5. CASE supersede(b)
      BY <1>0, <3>5 DEF supersede, Goto, TypeOK, history
    <3>7. CASE Inserted(b) /\ pc[b] = "insert"
      BY <1>0, <3>7 DEF Inserted, TypeOK, history
    <3> QED
      BY <1>7, <3>1, <3>2, <3>3, <3>4, <3>5, <3>7
  <2>2. \A j \in Selected' : j \in Selected /\ Kept(j)' = Kept(j)
    BY <1>0, <2>1 DEF Selected, Kept, Visible, TypeOK
  <2> QED
    BY <1>0, <2>1, <2>2, QuietCrowd
<1>8. ASSUME NEW b \in Builders, insert(b)
      PROVE  Retained'
  BY <1>2, <1>7, <1>8 DEF insert, Inserted
<1>9. ASSUME NEW b \in Builders, prune(b) \/ deleteRow(b)
      PROVE  Retained'
  <2>1. UNCHANGED <<store, overlapped>>
    BY <1>9 DEF prune, deleteRow, history
  <2>2. \A j \in Selected' : j \in Selected /\ Kept(j)' \subseteq Kept(j)
    <3>1. CASE prune(b)
      BY <1>0, <3>1 DEF prune, Goto, Selected, Kept, Visible, TypeOK
    <3>2. CASE deleteRow(b)
      <4>1. PICK r \in target[b] : /\ target' = [target EXCEPT ![b] = @ \ {r}]
                                   /\ dropped' = [dropped EXCEPT ![b] = @ \cup ({r} \cap store)]
        BY <3>2 DEF deleteRow
      <4>2. UNCHANGED <<pc, store, mine, stale>>
        BY <3>2 DEF deleteRow
      <4> QED
        BY <1>0, <4>1, <4>2 DEF Selected, Kept, Visible, TypeOK
    <3> QED
      BY <1>9, <3>1, <3>2
  <2>3. \A j \in Selected' : SnapsOf(Kept(j)') \subseteq SnapsOf(Kept(j))
    BY <2>2 DEF SnapsOf
  <2> QED
    BY <1>0, <2>1, <2>2, <2>3, QuietCrowd
<1>10. ASSUME NEW b \in Builders, emit(b)
       PROVE  Retained'
  <2>1. CASE Return(b)
    BY <1>1, <1>10, <2>1 DEF emit, history
  <2>2. CASE ~Return(b)
    <3>1. UNCHANGED <<store, overlapped, dropped, mine, target, stale>>
          /\ pc' = [pc EXCEPT ![b] = "mark"]
      BY <1>10, <2>2 DEF emit, Goto, txVars, history
    <3>2. \A j \in Selected' : j \in Selected /\ Kept(j)' = Kept(j)
      BY <1>0, <3>1 DEF Selected, Kept, Visible, TypeOK
    <3> QED
      BY <1>0, <3>1, <3>2, QuietCrowd
  <2> QED
    BY <2>1, <2>2
<1>11. ASSUME NEW b \in Builders, Step(b)
       PROVE  Retained'
  BY <1>2, <1>7, <1>8, <1>9, <1>10, <1>11, SelectCrowd, CommitCrowd DEF Step, deadlockDetected
<1>12. ASSUME NEW b \in Builders, dependencyFails(b) \/ raises(b)
       PROVE  Retained'
  BY <1>1, <1>2, <1>12 DEF dependencyFails, raises
<1>13. CASE Crash
  <2>1. Selected' = {} /\ UNCHANGED <<store, overlapped>>
    BY <1>13 DEF Crash, Selected, history
  <2> QED
    BY <1>0, <2>1, QuietCrowd
<1> QED
  BY <1>3, <1>4, <1>5, <1>6, <1>7, <1>11, <1>12, <1>13 DEF Next, Handle

LEMMA CrowdInit == Init => Retained
<1> SUFFICES ASSUME Init PROVE Retained
  OBVIOUS
<1> DEFINE rank  == [b \in Builders |-> 0]
           crowd == [b \in Builders |-> {b}]
<1>1. Selected = {} /\ SnapsOf(store) = {}
  BY DEF Init, Selected, SnapsOf
<1>2. Cardinality({Consumer}) = 1 /\ Cardinality({}) = 0
  BY FS_Singleton, FS_EmptySet
<1>3. Crowded(rank, 0, 0, crowd, {Consumer})
  BY <1>1, <1>2, RetentionAssumption DEF Crowded, Beside
<1>4. rank \in [Builders -> Nat] /\ crowd \in [Builders -> SUBSET Builders] /\ {Consumer} \in SUBSET Builders
  BY DEF Builders
<1> HIDE DEF rank, crowd
<1> QED
  BY <1>3, <1>4 DEF Retained

\* A crowd is no larger than the set of builders.
LEMMA CrowdBound == TypeOK /\ Retained => RetentionHolds
<1> SUFFICES ASSUME TypeOK, Retained PROVE RetentionHolds
  OBVIOUS
<1>1. PICK crowded \in SUBSET Builders :
        Beside(store, crowded) /\ (~overlapped => Cardinality(crowded) = 1)
  BY DEF Retained, Crowded
<1>2. Cardinality(crowded) \in Nat /\ Cardinality(crowded) <= Cardinality(Builders)
      /\ Cardinality(Builders) \in Nat
  BY FiniteBuilders, FS_Subset, FS_CardinalityType
<1>3. Cardinality(SnapsOf(store)) \in Nat
  BY FiniteSnaps DEF TypeOK
<1> QED
  BY <1>1, <1>2, <1>3, RetentionAssumption DEF RetentionHolds, Beside, SnapsOf

-----------------------------------------------------------------------------
(* Theorems.                                                               *)

\* The invariant holds in every reachable state.
THEOREM Inductive == Spec => [](IInv /\ Retained)
<1>1. Init => IInv /\ Retained
  BY InitInv, CrowdInit
<1>2. IInv /\ Retained /\ [Next]_vars => (IInv /\ Retained)'
  BY TypeSteps, BuildSteps, CrowdSteps
<1> QED
  BY <1>1, <1>2, PTL DEF Spec

\* Offsets, rows and builds are well formed.
THEOREM TypeCorrect == Spec => []TypeOK
<1>1. IInv => TypeOK
  BY DEF IInv
<1> QED
  BY <1>1, Inductive, PTL

\* Nothing is marked processed or announced that was never stored.
THEOREM ClaimsBacked == Spec => []ClaimsAreBacked
<1>1. IInv => ClaimsAreBacked
  BY DEF IInv
<1> QED
  BY <1>1, Inductive, PTL

\* A processed event is not built again, however often it is redelivered.
THEOREM ProcessedOnce == Spec => []ProcessedIsNotRebuilt
<1>1. IInv => ProcessedIsNotRebuilt
  BY DEF IInv
<1> QED
  BY <1>1, Inductive, PTL

\* Trails are never computed from a graph older than the snapshot they are stored under.
THEOREM SlicesAreRecent == Spec => []SliceIsNotOlder
<1>1. IInv => SliceIsNotOlder
  BY DEF IInv
<1> QED
  BY <1>1, Inductive, PTL

\* The store holds the retained snapshots, and one more for each other builder
\* if transactions have overlapped.
THEOREM RetentionKept == Spec => []RetentionHolds
<1>1. IInv /\ Retained => RetentionHolds
  BY CrowdBound DEF IInv
<1> QED
  BY <1>1, Inductive, PTL
=============================================================================
