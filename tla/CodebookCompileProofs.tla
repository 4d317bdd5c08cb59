------------------------ MODULE CodebookCompileProofs ------------------------
(***************************************************************************)
(* IInv of CodebookCompile is inductive, for any instances, any topic and  *)
(* any outcomes of its events: whatever instances crash or lose the        *)
(* partition, a snapshot has one active codebook, an event one codebook,   *)
(* only stored codebooks are announced and no offset passes an unsettled   *)
(* message.                                                                *)
(***************************************************************************)
EXTENDS CodebookCompile, FiniteSetTheorems, SequenceTheorems, TLAPS

StoredIds == {c.id : c \in codebooks}
IdsOf(s)  == {c.id : c \in {x \in codebooks : x.snap = s}}
Building  == {"demote", "wait", "insert", "commit"}

\* What holds of an instance at each place in the code: its message, the id it
\* minted, the rows it demoted, and what the checks of the INSERT excluded.
InstanceOK(i) ==
  /\ pc[i] # "idle" => msg[i] \in DOMAIN Messages
  /\ owner = i /\ pc[i] # "idle" => msg[i] = position
  /\ pc[i] \in Building => book[i] \in 1 .. minted /\ book[i] \notin StoredIds
  /\ pc[i] \in Building \ {"demote"} => target[i] \subseteq IdsOf(SnapshotOf(i))
  /\ pc[i] = "commit" => /\ get_active(SnapshotOf(i)) \subseteq target[i]
                         /\ already_processed(EventOf(i)) = {}
  /\ pc[i] = "emit" => \E c \in codebooks : c.id = book[i] /\ c.event = EventOf(i)
  /\ pc[i] = "ack" => Settled(msg[i])

\* Two instances never mint one id, and never insert for one snapshot.
Apart ==
  \A i, j \in Instances : i # j =>
    /\ pc[i] \in Building /\ pc[j] \in Building => book[i] # book[j]
    /\ pc[i] = "commit" /\ pc[j] = "commit" => SnapshotOf(i) # SnapshotOf(j)

StoreOK ==
  /\ \A c, d \in codebooks : c.id = d.id => c = d
  /\ \A c, d \in codebooks : c.event = d.event => c = d
  /\ \A s : IdsOf(s) # {} => \E b : get_active(s) = {b}

\* Behind the committed offset everything is settled; behind the owner's
\* position everything but the message it handles.
Handled ==
  /\ \A n \in 1 .. committed : Settled(n)
  /\ owner \in Instances =>
       \A n \in 1 .. position : Settled(n) \/ (pc[owner] # "idle" /\ n = msg[owner])

IInv ==
  /\ TypeOK
  /\ \A i \in Instances : InstanceOK(i)
  /\ Apart
  /\ StoreOK
  /\ AnnouncedIsStored
  /\ Handled

-----------------------------------------------------------------------------
(* Data.                                                                   *)

\* What is said of the stored codebooks depends on the store alone.
LEMMA StoreUnchanged ==
  ASSUME UNCHANGED storeVars
  PROVE  /\ StoredIds' = StoredIds
         /\ \A x : IdsOf(x)' = IdsOf(x) /\ get_active(x)' = get_active(x)
         /\ \A x : already_processed(x)' = already_processed(x)
         /\ StoreOK => StoreOK'
<1>1. codebooks' = codebooks /\ active' = active
  BY DEF storeVars
<1>2. \A x : IdsOf(x)' = IdsOf(x) /\ get_active(x)' = get_active(x)
  BY <1>1 DEF IdsOf, get_active
<1>3. StoredIds' = StoredIds /\ \A x : already_processed(x)' = already_processed(x)
  BY <1>1 DEF StoredIds, already_processed
<1>4. ASSUME StoreOK PROVE StoreOK'
  BY <1>1, <1>2, <1>4 DEF StoreOK
<1> QED BY <1>2, <1>3, <1>4

\* The topic is a sequence of messages.
LEMMA MessageFacts ==
  /\ Len(Messages) \in Nat /\ DOMAIN Messages = 1 .. Len(Messages)
  /\ \A n \in DOMAIN Messages : /\ Messages[n].event \in Events
                                /\ Messages[n].snap \in Snapshots
<1>1. Messages \in Seq([event : Events, snap : Snapshots])
  BY MessagesAssumption
<1>2. \A n \in 1 .. Len(Messages) : Messages[n] \in [event : Events, snap : Snapshots]
  BY <1>1, ElementOfSeq
<1>3. Len(Messages) \in Nat /\ DOMAIN Messages = 1 .. Len(Messages)
  BY <1>1
<1> QED BY <1>2, <1>3

\* What is settled stays settled: no row and no record is ever taken back.
LEMMA SettledGrows ==
  ASSUME codebooks \subseteq codebooks', announced \subseteq announced',
         announceDlq \subseteq announceDlq', dlq \subseteq dlq', lost \subseteq lost',
         NEW n, Settled(n)
  PROVE  Settled(n)'
BY DEF Settled

\* The initial state satisfies the invariant.
LEMMA InitInv == Init => IInv
<1> SUFFICES ASSUME Init PROVE IInv
  OBVIOUS
<1> USE DEF Init
<1>1. TypeOK
  BY MessageFacts, BoundsAssumption DEF TypeOK, Phases
<1>2. \A i \in Instances : InstanceOK(i)
  BY DEF InstanceOK, Building
<1>3. Apart /\ StoreOK /\ AnnouncedIsStored
  BY DEF Apart, StoreOK, AnnouncedIsStored, IdsOf, Building
<1>4. Handled
  BY NoInstanceAssumption DEF Handled
<1> QED BY <1>1, <1>2, <1>3, <1>4 DEF IInv

-----------------------------------------------------------------------------
(* Steps that write no codebook.                                           *)

\* A step of instance i that leaves the tables alone preserves the invariant
\* if i ends well, apart from the others, and i gives the partition to none.
LEMMA QuietStep ==
  ASSUME IInv, NEW i \in Instances, TypeOK',
         UNCHANGED storeVars,
         minted' >= minted, announced \subseteq announced',
         announceDlq \subseteq announceDlq', dlq \subseteq dlq', lost \subseteq lost',
         \A j \in Instances \ {i} :
           /\ pc'[j] = pc[j] /\ msg'[j] = msg[j]
           /\ book'[j] = book[j] /\ target'[j] = target[j]
           /\ owner' = j => owner = j /\ position' = position,
         InstanceOK(i)',
         \A j \in Instances \ {i} :
           /\ pc'[i] \in Building /\ pc[j] \in Building => book'[i] # book[j]
           /\ pc'[i] = "commit" /\ pc[j] = "commit"
                => SnapshotOf(i)' # SnapshotOf(j),
         AnnouncedIsStored', Handled'
  PROVE  IInv'
<1>1. \A s : IdsOf(s)' = IdsOf(s) /\ get_active(s)' = get_active(s)
  BY DEF IdsOf, get_active, storeVars
<1>2. \A e : already_processed(e)' = already_processed(e)
  BY DEF already_processed, storeVars
<1>3. StoredIds' = StoredIds
  BY DEF StoredIds, storeVars
<1>4. \A n : Settled(n) => Settled(n)'
  BY SettledGrows DEF storeVars
<1>5. ASSUME NEW j \in Instances, j # i PROVE InstanceOK(j)'
  <2>1. InstanceOK(j) /\ minted \in Nat /\ minted' \in Nat
    BY DEF IInv, TypeOK
  <2>2. EventOf(j)' = EventOf(j) /\ SnapshotOf(j)' = SnapshotOf(j)
    BY <1>5 DEF EventOf, SnapshotOf
  <2>3. codebooks' = codebooks
    BY DEF storeVars
  <2> QED BY <1>1, <1>2, <1>3, <1>4, <1>5, <2>1, <2>2, <2>3 DEF InstanceOK, Building
<1>6. Apart'
  <2> SUFFICES ASSUME NEW j \in Instances, NEW k \in Instances, j # k
               PROVE  /\ pc'[j] \in Building /\ pc'[k] \in Building
                           => book'[j] # book'[k]
                      /\ pc'[j] = "commit" /\ pc'[k] = "commit"
                           => SnapshotOf(j)' # SnapshotOf(k)'
    BY DEF Apart, Building
  <2>1. \A m \in Instances \ {i} : SnapshotOf(m)' = SnapshotOf(m)
    BY DEF SnapshotOf
  <2>2. CASE i \notin {j, k}
    BY <2>1, <2>2 DEF IInv, Apart
  <2>3. CASE i = j
    BY <2>1, <2>3
  <2>4. CASE i = k
    BY <2>1, <2>4
  <2> QED BY <2>2, <2>3, <2>4
<1>7. StoreOK'
  BY <1>1 DEF IInv, StoreOK, storeVars
<1> QED BY <1>5, <1>6, <1>7 DEF IInv

\* Handled, for a step of i that keeps its message, or leaves the group.
LEMMA HandledKept ==
  ASSUME IInv, NEW i \in Instances, TypeOK',
         codebooks \subseteq codebooks', announced \subseteq announced',
         announceDlq \subseteq announceDlq', dlq \subseteq dlq', lost \subseteq lost',
         UNCHANGED <<position, committed>>,
         \A j \in Instances \ {i} : pc'[j] = pc[j] /\ msg'[j] = msg[j],
         \/ owner' = NoInstance
         \/ owner' = owner /\ (owner # i \/ (pc'[i] # "idle" /\ msg'[i] = msg[i]))
  PROVE  Handled'
<1>1. \A n : Settled(n) => Settled(n)'
  BY SettledGrows
<1>2. \A n \in 1 .. committed' : Settled(n)'
  BY <1>1 DEF IInv, Handled
<1>3. ASSUME owner' \in Instances, NEW n \in 1 .. position'
      PROVE  Settled(n)' \/ (pc'[owner'] # "idle" /\ n = msg'[owner'])
  BY <1>1, <1>3, NoInstanceAssumption DEF IInv, Handled
<1> QED BY <1>2, <1>3 DEF Handled

-----------------------------------------------------------------------------
(* The group, and the end of an instance.                                  *)

LEMMA ExitStep ==
  ASSUME IInv, NEW i \in Instances, Exit(i), failures' \in 0 .. MaxFailures
  PROVE  IInv'
<1> USE DEF Exit, Forget, Goto
<1>1. TypeOK'
  BY DEF IInv, TypeOK, Phases, topicVars, storeVars, Codebook
<1>2. pc'[i] = "idle" /\ InstanceOK(i)'
  BY DEF IInv, TypeOK, InstanceOK, Building
<1>3. AnnouncedIsStored'
  BY DEF IInv, AnnouncedIsStored, topicVars, storeVars
<1>4. Handled'
  <2>1. \A j \in Instances \ {i} : pc'[j] = pc[j] /\ msg'[j] = msg[j]
    BY DEF IInv, TypeOK
  <2>2. owner' = NoInstance \/ (owner' = owner /\ owner # i)
    OBVIOUS
  <2> QED BY <1>1, <2>1, <2>2, HandledKept DEF topicVars, storeVars
<1>5. \A j \in Instances \ {i} :
        /\ pc'[j] = pc[j] /\ msg'[j] = msg[j]
        /\ book'[j] = book[j] /\ target'[j] = target[j]
        /\ owner' = j => owner = j /\ position' = position
  BY NoInstanceAssumption DEF IInv, TypeOK
<1>6. minted' >= minted
  BY DEF IInv, TypeOK
<1> QED BY <1>1, <1>2, <1>3, <1>4, <1>5, <1>6, QuietStep DEF topicVars, Building

LEMMA FailStep == ASSUME IInv, NEW i \in Instances, Fail(i) PROVE IInv'
<1>1. MaxFailures \in Nat /\ failures \in 0 .. MaxFailures
  BY BoundsAssumption DEF IInv, TypeOK
<1>2. failures' \in 0 .. MaxFailures /\ Exit(i)
  BY <1>1 DEF Fail
<1> QED BY <1>2, ExitStep

LEMMA RaiseStep == ASSUME IInv, NEW i \in Instances, Raise(i) PROVE IInv'
BY ExitStep DEF Raise, IInv, TypeOK

LEMMA StartStep == ASSUME IInv, NEW i \in Instances, Start(i) PROVE IInv'
<1> USE DEF Start, groupVars, localVars, storeVars, topicVars, bounds
<1>1. TypeOK'
  BY DEF IInv, TypeOK, Codebook
<1>2. \A j \in Instances : InstanceOK(j)'
  BY DEF IInv, InstanceOK, Building, StoredIds, IdsOf, SnapshotOf, EventOf, get_active,
         already_processed, Settled
<1>3. Apart' /\ StoreOK' /\ AnnouncedIsStored'
  <2>1. Apart'
    BY DEF IInv, Apart, Building, SnapshotOf
  <2>2. StoreOK'
    BY StoreUnchanged DEF IInv
  <2>3. AnnouncedIsStored'
    BY DEF IInv, AnnouncedIsStored
  <2> QED BY <2>1, <2>2, <2>3
<1>4. Handled'
  BY DEF IInv, Handled, Settled
<1> QED BY <1>1, <1>2, <1>3, <1>4 DEF IInv

LEMMA AssignStep == ASSUME IInv, NEW i \in Instances, Assign(i) PROVE IInv'
<1> USE DEF Assign, localVars, storeVars, topicVars, bounds
<1>1. TypeOK'
  BY DEF IInv, TypeOK, Codebook
<1>2. InstanceOK(i)'
  BY DEF InstanceOK, Building
<1>3. AnnouncedIsStored'
  BY DEF IInv, AnnouncedIsStored
<1>4. Handled'
  BY DEF IInv, Handled, Settled
<1>5. minted' >= minted
  BY DEF IInv, TypeOK
<1> QED BY <1>1, <1>2, <1>3, <1>4, <1>5, QuietStep DEF Building

LEMMA ExpelStep == ASSUME IInv, Expel PROVE IInv'
<1> USE DEF Expel, localVars, storeVars, topicVars
<1>1. PICK i \in Instances : owner = i
  BY DEF IInv, TypeOK
<1>2. TypeOK'
  <2>1. MaxRebalances \in Nat /\ rebalances \in 0 .. MaxRebalances
    BY BoundsAssumption DEF IInv, TypeOK
  <2>2. rebalances' \in 0 .. MaxRebalances
    BY <2>1
  <2> QED BY <2>2 DEF IInv, TypeOK, Codebook
<1>3. InstanceOK(i)'
  BY <1>1, NoInstanceAssumption
     DEF IInv, InstanceOK, Building, StoredIds, IdsOf, SnapshotOf, EventOf, get_active,
         already_processed, Settled
<1>4. AnnouncedIsStored'
  BY DEF IInv, AnnouncedIsStored
<1>5. Handled'
  BY NoInstanceAssumption DEF IInv, Handled, Settled
<1>6. minted' >= minted
  BY DEF IInv, TypeOK
<1>7. \A j \in Instances \ {i} :
        /\ owner' = j => owner = j /\ position' = position
        /\ pc'[i] \in Building /\ pc[j] \in Building => book'[i] # book[j]
        /\ pc'[i] = "commit" /\ pc[j] = "commit" => SnapshotOf(i)' # SnapshotOf(j)
  BY <1>1, NoInstanceAssumption DEF IInv, Apart, SnapshotOf
<1> QED BY <1>1, <1>2, <1>3, <1>4, <1>5, <1>6, <1>7, QuietStep

-----------------------------------------------------------------------------
(* The handler.                                                            *)

\* The owner takes the next message: it is the one exception behind its position.
LEMMA PollStep == ASSUME IInv, NEW i \in Instances, poll(i) PROVE IInv'
<1> USE DEF poll, Goto, storeVars, topicVars, bounds
<1>1. TypeOK'
  BY MessageFacts DEF IInv, TypeOK, Phases, Codebook
<1>2. InstanceOK(i)'
  BY MessageFacts DEF IInv, TypeOK, InstanceOK, Building
<1>3. AnnouncedIsStored'
  BY DEF IInv, AnnouncedIsStored
<1>4. Handled'
  <2>1. \A n : Settled(n)' <=> Settled(n)
    BY DEF Settled
  <2>2. msg'[i] = position + 1 /\ pc'[i] = "handle" /\ owner' = i
    BY DEF IInv, TypeOK
  <2>3. \A n \in 1 .. position : Settled(n)
    BY DEF IInv, Handled
  <2>4. \A n \in 1 .. position' : Settled(n)' \/ n = msg'[i]
    BY <2>1, <2>2, <2>3 DEF IInv, TypeOK
  <2> QED BY <2>1, <2>2, <2>4 DEF IInv, Handled
<1>5. minted' >= minted
  BY DEF IInv, TypeOK
<1>6. \A j \in Instances \ {i} : pc'[j] = pc[j] /\ msg'[j] = msg[j] /\ owner' # j
  BY DEF IInv, TypeOK
<1>7. pc'[i] \notin Building
  BY DEF IInv, TypeOK, Building
<1> QED BY <1>1, <1>2, <1>3, <1>4, <1>5, <1>6, <1>7, QuietStep DEF Building

LEMMA RouteStep ==
  ASSUME IInv, NEW i \in Instances, pc[i] # "idle", route(i) PROVE IInv'
<1> USE DEF route, Goto, groupVars, localVars, storeVars, bounds
<1>1. msg[i] \in DOMAIN Messages
  BY DEF IInv, InstanceOK
<1>2. TypeOK'
  BY <1>1 DEF IInv, TypeOK, Phases, Codebook
<1>3. InstanceOK(i)'
  BY DEF IInv, TypeOK, InstanceOK, Building, Settled
<1>4. AnnouncedIsStored'
  BY DEF IInv, AnnouncedIsStored
<1>5. minted' >= minted
  BY DEF IInv, TypeOK
<1>6. \A j \in Instances \ {i} : pc'[j] = pc[j] /\ msg'[j] = msg[j]
  BY DEF IInv, TypeOK
<1>7. pc'[i] = "ack"
  BY DEF IInv, TypeOK
<1>8. Handled'
  BY <1>2, <1>6, <1>7, HandledKept
<1> QED BY <1>2, <1>3, <1>4, <1>5, <1>6, <1>7, <1>8, QuietStep DEF Building

LEMMA HandleStep == ASSUME IInv, NEW i \in Instances, handle(i) PROVE IInv'
<1>1. CASE route(i)
  BY <1>1, RouteStep DEF handle
<1>2. CASE ~route(i)
  <2> USE DEF Goto, groupVars, storeVars, topicVars, bounds
  <2>1. /\ pc[i] = "handle"
        /\ UNCHANGED <<groupVars, up, msg, target, storeVars, minted, topicVars, bounds>>
        /\ \/ /\ \E c \in already_processed(EventOf(i)) : book' = [book EXCEPT ![i] = c]
              /\ pc' = [pc EXCEPT ![i] = "emit"]
           \/ pc' = [pc EXCEPT ![i] = "compile"] /\ UNCHANGED book
    BY <1>2 DEF handle
  <2>2. \A e : already_processed(e) \subseteq 1 .. minted
    BY DEF IInv, TypeOK, already_processed, Codebook
  <2>3. TypeOK'
    <3>1. book \in [Instances -> 0 .. minted] /\ minted \in Nat
      BY DEF IInv, TypeOK
    <3>2. \A c \in already_processed(EventOf(i)) : c \in 0 .. minted
      BY <2>2, <3>1
    <3>3. book' \in [Instances -> 0 .. minted]
      BY <2>1, <3>1, <3>2
    <3>4. pc' \in [Instances -> Phases]
      BY <2>1 DEF IInv, TypeOK, Phases
    <3> QED BY <2>1, <3>3, <3>4 DEF IInv, TypeOK, Codebook
  <2>4. InstanceOK(i)'
    BY <2>1 DEF IInv, TypeOK, InstanceOK, Building, already_processed, EventOf
  <2>5. AnnouncedIsStored'
    BY <2>1 DEF IInv, AnnouncedIsStored
  <2>6. minted' >= minted
    BY <2>1 DEF IInv, TypeOK
  <2>7. \A j \in Instances \ {i} :
          pc'[j] = pc[j] /\ msg'[j] = msg[j] /\ book'[j] = book[j]
    BY <2>1 DEF IInv, TypeOK
  <2>8. pc'[i] \in {"emit", "compile"}
    BY <2>1 DEF IInv, TypeOK
  <2>9. Handled'
    BY <2>1, <2>3, <2>7, <2>8, HandledKept
  <2> QED BY <2>1, <2>3, <2>4, <2>5, <2>6, <2>7, <2>8, <2>9, QuietStep DEF Building
<1> QED BY <1>1, <1>2

LEMMA CompileStep == ASSUME IInv, NEW i \in Instances, compile(i) PROVE IInv'
<1>1. CASE route(i)
  BY <1>1, RouteStep DEF compile
<1>2. CASE Raise(i)
  BY <1>2, RaiseStep
<1>3. CASE ~route(i) /\ ~Raise(i)
  <2> USE DEF Goto, groupVars, storeVars, topicVars, bounds
  <2>1. /\ pc[i] = "compile" /\ minted' = minted + 1
        /\ book' = [book EXCEPT ![i] = minted + 1]
        /\ pc' = [pc EXCEPT ![i] = "demote"]
        /\ UNCHANGED <<groupVars, up, msg, target, storeVars, topicVars, bounds>>
    BY <1>3 DEF compile
  <2>2. /\ minted \in Nat /\ 1 .. minted \subseteq 1 .. minted'
        /\ 0 .. minted \subseteq 0 .. minted' /\ minted + 1 \in 1 .. minted'
    BY <2>1 DEF IInv, TypeOK
  <2>3. TypeOK'
    <3>1. book' \in [Instances -> 0 .. minted']
      BY <2>1, <2>2 DEF IInv, TypeOK
    <3>2. target' \in [Instances -> SUBSET (1 .. minted')]
      BY <2>1, <2>2 DEF IInv, TypeOK
    <3>3. codebooks' \subseteq Codebook'
      BY <2>1, <2>2 DEF IInv, TypeOK, Codebook
    <3>4. pc' \in [Instances -> Phases]
      BY <2>1 DEF IInv, TypeOK, Phases
    <3>5. /\ owner' \in Instances \cup {NoInstance}
          /\ position' \in 0 .. Len(Messages) /\ committed' \in 0 .. position'
          /\ up' \subseteq Instances /\ msg' \in [Instances -> 0 .. Len(Messages)]
          /\ dlq' \subseteq DOMAIN Messages /\ lost' \subseteq DOMAIN Messages
          /\ failures' \in 0 .. MaxFailures /\ rebalances' \in 0 .. MaxRebalances
      BY <2>1 DEF IInv, TypeOK
    <3>6. /\ minted' \in Nat /\ active' \subseteq 1 .. minted'
          /\ announced' \subseteq 1 .. minted' /\ announceDlq' \subseteq 1 .. minted'
      BY <2>1, <2>2 DEF IInv, TypeOK
    <3> QED BY <3>1, <3>2, <3>3, <3>4, <3>5, <3>6 DEF TypeOK
  <2>4. StoredIds \subseteq 1 .. minted
    BY DEF IInv, TypeOK, Codebook, StoredIds
  <2>5. InstanceOK(i)'
    <3>1. pc'[i] = "demote" /\ book'[i] = minted + 1 /\ minted + 1 \notin 1 .. minted
      BY <2>1, <2>2 DEF IInv, TypeOK
    <3>2. StoredIds' = StoredIds
      BY <2>1 DEF StoredIds
    <3>3. book'[i] \notin StoredIds'
      BY <2>4, <3>1, <3>2
    <3> QED BY <2>1, <2>2, <3>1, <3>3 DEF IInv, InstanceOK, Building
  <2>6. AnnouncedIsStored'
    BY <2>1 DEF IInv, AnnouncedIsStored
  <2>7. \A j \in Instances \ {i} :
          pc'[j] = pc[j] /\ msg'[j] = msg[j] /\ book'[j] = book[j]
    BY <2>1 DEF IInv, TypeOK
  <2>8. pc'[i] = "demote"
    BY <2>1 DEF IInv, TypeOK
  <2>9. Handled'
    BY <2>1, <2>3, <2>7, <2>8, HandledKept
  <2>10. \A j \in Instances \ {i} : pc[j] \in Building => book'[i] # book[j]
    <3>1. \A j \in Instances : book[j] \in 0 .. minted
      BY DEF IInv, TypeOK
    <3> QED BY <2>1, <2>2, <3>1 DEF IInv, TypeOK
  <2> QED BY <2>1, <2>2, <2>3, <2>5, <2>6, <2>7, <2>8, <2>9, <2>10, QuietStep
<1> QED BY <1>1, <1>2, <1>3

-----------------------------------------------------------------------------
(* The store transaction.                                                  *)

\* A step of the transaction that only moves i and its target preserves the
\* invariant if what i may assume of the rows still holds.
LEMMA TransactionStep ==
  ASSUME IInv, NEW i \in Instances, pc[i] \in Building, pc'[i] \in Building,
         NEW p \in Building, pc' = [pc EXCEPT ![i] = p],
         NEW T \in SUBSET (1 .. minted), target' = [target EXCEPT ![i] = T],
         p # "demote" => T \subseteq IdsOf(SnapshotOf(i)),
         p = "commit" => /\ get_active(SnapshotOf(i)) \subseteq T
                         /\ already_processed(EventOf(i)) = {}
                         /\ \A j \in Instances \ {i} :
                              pc[j] = "commit" => SnapshotOf(i) # SnapshotOf(j),
         UNCHANGED <<groupVars, up, msg, book, storeVars, minted, topicVars, bounds>>
  PROVE  IInv'
<1> USE DEF groupVars, storeVars, topicVars, bounds
<1>1. TypeOK'
  <2>1. pc' \in [Instances -> Phases] /\ target' \in [Instances -> SUBSET (1 .. minted)]
    BY DEF IInv, TypeOK, Phases, Building
  <2> QED BY <2>1 DEF IInv, TypeOK, Codebook
<1>2. pc'[i] = p /\ target'[i] = T
  BY DEF IInv, TypeOK
<1>3. InstanceOK(i)'
  <2>1. /\ SnapshotOf(i)' = SnapshotOf(i) /\ EventOf(i)' = EventOf(i)
        /\ msg'[i] = msg[i] /\ book'[i] = book[i] /\ position' = position /\ minted' = minted
    BY DEF SnapshotOf, EventOf
  <2>2. InstanceOK(i)
    BY DEF IInv
  <2> QED BY <1>2, <2>1, <2>2, StoreUnchanged DEF InstanceOK, Building
<1>4. AnnouncedIsStored'
  BY DEF IInv, AnnouncedIsStored
<1>5. minted' >= minted
  BY DEF IInv, TypeOK
<1>6. \A j \in Instances \ {i} :
        pc'[j] = pc[j] /\ target'[j] = target[j]
  BY DEF IInv, TypeOK
<1>7. pc[i] # "idle" /\ pc'[i] # "idle"
  BY DEF Building
<1>8. Handled'
  BY <1>1, <1>6, <1>7, HandledKept
<1>9. \A j \in Instances \ {i} :
        /\ pc[j] \in Building => book'[i] # book[j]
        /\ pc'[i] = "commit" /\ pc[j] = "commit" => SnapshotOf(i)' # SnapshotOf(j)
  BY <1>2 DEF IInv, Apart, SnapshotOf
<1> QED BY <1>1, <1>3, <1>4, <1>5, <1>6, <1>8, <1>9, QuietStep

\* What is active for a snapshot has a row of it.
LEMMA ActiveHaveRows == \A s : get_active(s) \subseteq IdsOf(s)
BY DEF get_active, IdsOf

LEMMA DemoteStep ==
  ASSUME IInv, NEW i \in Instances, demote(i) \/ resumeDemote(i) PROVE IInv'
<1>1. CASE demote(i)
  <2> DEFINE T == get_active(SnapshotOf(i))
  <2>1. T \subseteq 1 .. minted /\ T \subseteq IdsOf(SnapshotOf(i))
    BY ActiveHaveRows DEF IInv, TypeOK, get_active
  <2>2. PICK p \in {"wait", "insert"} : pc' = [pc EXCEPT ![i] = p]
    BY <1>1 DEF demote, Goto
  <2>3. pc[i] \in Building /\ p \in Building /\ p \notin {"demote", "commit"}
    BY <1>1, <2>2 DEF demote, Building
  <2>4. pc'[i] \in Building
    BY <2>2, <2>3 DEF IInv, TypeOK
  <2>5. /\ target' = [target EXCEPT ![i] = T]
        /\ UNCHANGED <<groupVars, up, msg, book, storeVars, minted, topicVars, bounds>>
    BY <1>1 DEF demote
  <2> HIDE DEF T
  <2> QED BY <2>1, <2>2, <2>3, <2>4, <2>5, TransactionStep
<1>2. CASE resumeDemote(i)
  <2> DEFINE T == target[i] \cap active
  <2>1. target[i] \subseteq 1 .. minted /\ target[i] \subseteq IdsOf(SnapshotOf(i))
    BY <1>2 DEF IInv, TypeOK, InstanceOK, resumeDemote, Building
  <2>2. pc' = [pc EXCEPT ![i] = "insert"]
    BY <1>2 DEF resumeDemote, Goto
  <2>3. pc[i] \in Building /\ "insert" \in Building
    BY <1>2 DEF resumeDemote, Building
  <2>4. pc'[i] \in Building
    BY <2>2, <2>3 DEF IInv, TypeOK
  <2>5. /\ target' = [target EXCEPT ![i] = T]
        /\ UNCHANGED <<groupVars, up, msg, book, storeVars, minted, topicVars, bounds>>
    BY <1>2 DEF resumeDemote
  <2>6. T \in SUBSET (1 .. minted) /\ T \subseteq IdsOf(SnapshotOf(i))
    BY <2>1
  <2> HIDE DEF T
  <2> QED BY <2>2, <2>3, <2>4, <2>5, <2>6, TransactionStep
<1> QED BY <1>1, <1>2

LEMMA InsertStep == ASSUME IInv, NEW i \in Instances, insert(i) PROVE IInv'
<1>1. CASE Raise(i)
  BY <1>1, RaiseStep
<1>2. CASE ~Raise(i)
  <2>1. /\ pc[i] = "insert" /\ ~Refused(i)
        /\ pc' = [pc EXCEPT ![i] = "commit"]
        /\ UNCHANGED <<groupVars, up, localVars, storeVars, minted, topicVars, bounds>>
    BY <1>2 DEF insert, Goto
  <2>2. /\ get_active(SnapshotOf(i)) \subseteq target[i]
        /\ already_processed(EventOf(i)) = {}
    BY <2>1 DEF Refused
  <2>3. \A j \in Instances \ {i} : pc[j] = "commit" => SnapshotOf(i) # SnapshotOf(j)
    BY <1>2 DEF insert, Inserting
  <2>4. pc[i] \in Building /\ "commit" \in Building
    BY <2>1 DEF Building
  <2>5. /\ target[i] \in SUBSET (1 .. minted) /\ target[i] \subseteq IdsOf(SnapshotOf(i))
        /\ pc'[i] \in Building
    BY <2>1, <2>4 DEF IInv, TypeOK, InstanceOK, Building
  <2>6. /\ target' = [target EXCEPT ![i] = target[i]]
        /\ UNCHANGED <<groupVars, up, msg, book, storeVars, minted, topicVars, bounds>>
    BY <2>1 DEF localVars, IInv, TypeOK
  <2> QED BY <2>1, <2>2, <2>3, <2>4, <2>5, <2>6, TransactionStep
<1> QED BY <1>1, <1>2

\* The commit: the rows i demoted are all that was active for its snapshot, and
\* nobody else is about to commit for it.
LEMMA CommitStep == ASSUME IInv, NEW i \in Instances, commit(i) PROVE IInv'
<1> USE DEF Goto, groupVars, localVars, topicVars, bounds
<1> DEFINE row == [id |-> book[i], event |-> EventOf(i), snap |-> SnapshotOf(i)]
<1>1. /\ pc[i] = "commit" /\ pc' = [pc EXCEPT ![i] = "emit"]
      /\ codebooks' = codebooks \cup {row}
      /\ active' = (active \ target[i]) \cup {book[i]}
      /\ UNCHANGED <<groupVars, up, localVars, minted, topicVars, bounds>>
  BY DEF commit
<1>2. /\ msg[i] \in DOMAIN Messages /\ book[i] \in 1 .. minted /\ book[i] \notin StoredIds
      /\ target[i] \subseteq IdsOf(SnapshotOf(i))
      /\ get_active(SnapshotOf(i)) \subseteq target[i]
      /\ already_processed(EventOf(i)) = {}
  BY <1>1 DEF IInv, InstanceOK, Building
<1>3. row \in Codebook
  BY <1>2, MessageFacts DEF EventOf, SnapshotOf, Codebook
<1>4. TypeOK'
  <2>1. pc' \in [Instances -> Phases]
    BY <1>1 DEF IInv, TypeOK, Phases
  <2>2. codebooks' \subseteq Codebook' /\ active' \subseteq 1 .. minted'
    BY <1>1, <1>2, <1>3 DEF IInv, TypeOK, Codebook
  <2> QED BY <1>1, <2>1, <2>2 DEF IInv, TypeOK
<1>5. \A c \in codebooks : c.id # book[i] /\ c.event # EventOf(i)
  BY <1>2 DEF StoredIds, already_processed
<1>6. \A s : s # SnapshotOf(i) => IdsOf(s)' = IdsOf(s) /\ get_active(s)' = get_active(s)
  <2> SUFFICES ASSUME NEW s, s # SnapshotOf(i)
               PROVE  IdsOf(s)' = IdsOf(s) /\ get_active(s)' = get_active(s)
    OBVIOUS
  <2>1. IdsOf(s)' = IdsOf(s)
    BY <1>1 DEF IdsOf
  <2>2. book[i] \notin IdsOf(s)
    BY <1>5 DEF IdsOf
  <2>3. target[i] \cap IdsOf(s) = {}
    BY <1>2 DEF IdsOf, IInv, StoreOK
  <2>4. get_active(s) = IdsOf(s) \cap active /\ get_active(s)' = IdsOf(s)' \cap active'
    BY DEF get_active, IdsOf
  <2> QED BY <1>1, <2>1, <2>2, <2>3, <2>4
<1>7. /\ IdsOf(SnapshotOf(i))' = IdsOf(SnapshotOf(i)) \cup {book[i]}
      /\ get_active(SnapshotOf(i))' = {book[i]}
  <2>0. SnapshotOf(i)' = SnapshotOf(i)
    BY <1>1 DEF SnapshotOf
  <2>1. IdsOf(SnapshotOf(i))' = IdsOf(SnapshotOf(i)) \cup {book[i]}
    <3>1. \A x : x \in IdsOf(SnapshotOf(i))'
                  <=> \E c \in codebooks' : c.snap = SnapshotOf(i) /\ x = c.id
      BY <2>0 DEF IdsOf
    <3>2. \A x : x \in IdsOf(SnapshotOf(i))
                  <=> \E c \in codebooks : c.snap = SnapshotOf(i) /\ x = c.id
      BY DEF IdsOf
    <3>3. row.id = book[i] /\ row.snap = SnapshotOf(i)
      OBVIOUS
    <3> HIDE DEF row
    <3>4. \A x : x \in IdsOf(SnapshotOf(i))'
                  <=> x \in IdsOf(SnapshotOf(i)) \/ x = book[i]
      BY <1>1, <3>1, <3>2, <3>3
    <3> QED BY <3>4
  <2>2. /\ get_active(SnapshotOf(i)) = IdsOf(SnapshotOf(i)) \cap active
        /\ get_active(SnapshotOf(i))' = IdsOf(SnapshotOf(i))' \cap active'
    BY DEF get_active, IdsOf
  <2> QED BY <1>1, <1>2, <2>1, <2>2
<1>8. \A n : Settled(n) => Settled(n)'
  BY <1>1, SettledGrows
<1>9. SnapshotOf(i)' = SnapshotOf(i) /\ EventOf(i)' = EventOf(i)
  BY <1>1 DEF SnapshotOf, EventOf
<1> HIDE DEF row
<1>10. StoreOK'
  <2>1. \A c, d \in codebooks' : c.id = d.id => c = d
    BY <1>1, <1>5 DEF IInv, StoreOK, row
  <2>2. \A c, d \in codebooks' : c.event = d.event => c = d
    BY <1>1, <1>5 DEF IInv, StoreOK, row
  <2>3. ASSUME NEW s, IdsOf(s)' # {} PROVE \E b : get_active(s)' = {b}
    <3>1. CASE s = SnapshotOf(i)
      BY <1>7, <1>9, <3>1
    <3>2. CASE s # SnapshotOf(i)
      BY <1>6, <2>3, <3>2 DEF IInv, StoreOK
    <3> QED BY <3>1, <3>2
  <2> QED BY <2>1, <2>2, <2>3 DEF StoreOK
<1>11. InstanceOK(i)'
  <2>1. pc'[i] = "emit" /\ book'[i] = book[i] /\ msg'[i] = msg[i]
    BY <1>1 DEF IInv, TypeOK
  <2>2. row \in codebooks' /\ row.id = book[i] /\ row.event = EventOf(i)
    BY <1>1 DEF row
  <2>3. owner' = i => msg'[i] = position'
    BY <1>1, <2>1 DEF IInv, InstanceOK
  <2> QED BY <1>2, <1>9, <2>1, <2>2, <2>3 DEF InstanceOK, Building
<1>12. ASSUME NEW j \in Instances, j # i PROVE InstanceOK(j)'
  <2>1. /\ pc'[j] = pc[j] /\ msg'[j] = msg[j] /\ book'[j] = book[j]
        /\ target'[j] = target[j] /\ owner' = owner /\ position' = position
        /\ minted' = minted
        /\ SnapshotOf(j)' = SnapshotOf(j) /\ EventOf(j)' = EventOf(j)
    BY <1>1, <1>12 DEF IInv, TypeOK, SnapshotOf, EventOf
  <2>2. InstanceOK(j)
    BY DEF IInv
  <2>3. pc[j] \in Building => book[j] # book[i]
    BY <1>1, <1>12 DEF IInv, Apart, Building
  <2>4. StoredIds' \subseteq StoredIds \cup {book[i]}
    <3>1. row.id = book[i]
      BY DEF row
    <3>2. \A x \in StoredIds' : \E c \in codebooks' : x = c.id
      BY DEF StoredIds
    <3>3. \A c \in codebooks : c.id \in StoredIds
      BY DEF StoredIds
    <3> QED BY <1>1, <3>1, <3>2, <3>3
  <2>5. IdsOf(SnapshotOf(j)) \subseteq IdsOf(SnapshotOf(j))'
    BY <1>6, <1>7, <1>9, <2>1
  <2>6. pc[j] = "commit" =>
          /\ get_active(SnapshotOf(j))' = get_active(SnapshotOf(j))
          /\ already_processed(EventOf(j))' = already_processed(EventOf(j))
    <3> SUFFICES ASSUME pc[j] = "commit"
                 PROVE  /\ get_active(SnapshotOf(j))' = get_active(SnapshotOf(j))
                        /\ already_processed(EventOf(j))' = already_processed(EventOf(j))
      OBVIOUS
    <3>1. SnapshotOf(j) # SnapshotOf(i)
      BY <1>1, <1>12 DEF IInv, Apart
    <3>2. EventOf(j) # EventOf(i)
      <4>1. msg[j] \in DOMAIN Messages
        BY <2>2 DEF InstanceOK
      <4> QED BY <1>2, <3>1, <4>1, EventsAssumption DEF EventOf, SnapshotOf
    <3>3. already_processed(EventOf(j))' = already_processed(EventOf(j))
      BY <1>1, <2>1, <3>2 DEF already_processed, row
    <3>4. get_active(SnapshotOf(j))' = get_active(SnapshotOf(j))
      BY <1>6, <2>1, <3>1
    <3> QED BY <3>3, <3>4
  <2>7. codebooks \subseteq codebooks'
    BY <1>1
  <2> QED BY <1>8, <2>1, <2>2, <2>3, <2>4, <2>5, <2>6, <2>7 DEF InstanceOK, Building
<1>13. Apart'
  BY <1>1 DEF IInv, TypeOK, Apart, Building, SnapshotOf
<1>14. AnnouncedIsStored'
  BY <1>1 DEF IInv, AnnouncedIsStored
<1>15. Handled'
  <2>1. \A j \in Instances \ {i} : pc'[j] = pc[j] /\ msg'[j] = msg[j]
    BY <1>1 DEF IInv, TypeOK
  <2>2. pc'[i] # "idle" /\ msg'[i] = msg[i]
    BY <1>1 DEF IInv, TypeOK
  <2> QED BY <1>1, <1>4, <2>1, <2>2, HandledKept
<1> QED BY <1>4, <1>10, <1>11, <1>12, <1>13, <1>14, <1>15 DEF IInv

-----------------------------------------------------------------------------
(* Announcement and offset.                                                *)

LEMMA EmitStep == ASSUME IInv, NEW i \in Instances, emit(i) PROVE IInv'
<1>1. CASE Fail(i)
  BY <1>1, FailStep
<1>2. CASE ~Fail(i)
  <2> USE DEF Goto, groupVars, localVars, storeVars, bounds
  <2>1. /\ pc[i] = "emit" /\ pc' = [pc EXCEPT ![i] = "ack"]
        /\ UNCHANGED <<groupVars, up, localVars, storeVars, minted, dlq, bounds>>
        /\ \/ announced' = announced \cup {book[i]} /\ UNCHANGED <<announceDlq, lost>>
           \/ lost' = lost \cup {msg[i]} /\ UNCHANGED <<announced, announceDlq>>
           \/ announceDlq' = announceDlq \cup {book[i]} /\ UNCHANGED <<announced, lost>>
    BY <1>2 DEF emit
  <2>2. /\ msg[i] \in DOMAIN Messages
        /\ \E c \in codebooks : c.id = book[i] /\ c.event = EventOf(i)
    BY <2>1 DEF IInv, InstanceOK
  <2>3. book[i] \in StoredIds /\ book[i] \in 1 .. minted
    BY <2>2 DEF StoredIds, IInv, TypeOK, Codebook
  <2>4. TypeOK'
    <3>1. pc' \in [Instances -> Phases]
      BY <2>1 DEF IInv, TypeOK, Phases
    <3> QED BY <2>1, <2>2, <2>3, <3>1 DEF IInv, TypeOK, Codebook
  <2>5. pc'[i] = "ack"
    BY <2>1 DEF IInv, TypeOK
  <2>6. InstanceOK(i)'
    <3>1. Settled(msg[i])'
      BY <2>1, <2>2 DEF Settled, EventOf
    <3> QED BY <2>1, <2>5, <3>1 DEF IInv, InstanceOK, Building, Settled
  <2>7. AnnouncedIsStored'
    BY <2>1, <2>3 DEF IInv, AnnouncedIsStored, StoredIds
  <2>8. minted' >= minted
    BY <2>1 DEF IInv, TypeOK
  <2>9. \A j \in Instances \ {i} : pc'[j] = pc[j] /\ msg'[j] = msg[j]
    BY <2>1 DEF IInv, TypeOK
  <2>10. /\ announced \subseteq announced' /\ announceDlq \subseteq announceDlq'
         /\ dlq \subseteq dlq' /\ lost \subseteq lost'
    BY <2>1
  <2>11. Handled'
    BY <2>1, <2>4, <2>5, <2>9, <2>10, HandledKept
  <2> QED BY <2>1, <2>4, <2>5, <2>6, <2>7, <2>8, <2>9, <2>10, <2>11, QuietStep
          DEF Building
<1> QED BY <1>1, <1>2

LEMMA AckStep == ASSUME IInv, NEW i \in Instances, ack(i) PROVE IInv'
<1> USE DEF ack, Forget, Goto, storeVars, topicVars, bounds
<1>1. msg[i] \in DOMAIN Messages /\ Settled(msg[i]) /\ (owner = i => msg[i] = position)
  BY DEF IInv, InstanceOK
<1>2. committed' = committed \/ (owner = i /\ committed' = position)
  BY <1>1
<1>3. TypeOK'
  <2>1. committed' \in 0 .. position'
    BY <1>2 DEF IInv, TypeOK
  <2> QED BY <2>1 DEF IInv, TypeOK, Phases, Codebook
<1>4. pc'[i] = "idle" /\ InstanceOK(i)'
  BY DEF IInv, TypeOK, InstanceOK, Building
<1>5. AnnouncedIsStored'
  BY DEF IInv, AnnouncedIsStored
<1>6. minted' >= minted
  BY DEF IInv, TypeOK
<1>7. \A j \in Instances \ {i} :
        /\ pc'[j] = pc[j] /\ msg'[j] = msg[j]
        /\ book'[j] = book[j] /\ target'[j] = target[j]
  BY DEF IInv, TypeOK
<1>8. Handled'
  <2>1. \A n : Settled(n)' <=> Settled(n)
    BY DEF Settled
  <2>2. owner = i => \A n \in 1 .. position : Settled(n)
    BY <1>1 DEF IInv, Handled
  <2>3. \A n \in 1 .. committed' : Settled(n)
    BY <1>2, <2>2 DEF IInv, Handled
  <2>4. ASSUME owner \in Instances, NEW n \in 1 .. position
        PROVE  Settled(n) \/ (pc'[owner] # "idle" /\ n = msg'[owner])
    BY <1>7, <2>2, <2>4 DEF IInv, Handled
  <2> QED BY <2>1, <2>3, <2>4 DEF Handled
<1> QED BY <1>3, <1>4, <1>5, <1>6, <1>7, <1>8, QuietStep DEF Building

-----------------------------------------------------------------------------
(* The theorems.                                                           *)

\* IInv is an invariant: it holds at first, and every step keeps it.
THEOREM Inductive == Spec => []IInv
<1>1. ASSUME IInv, [Next]_vars PROVE IInv'
  <2>1. CASE UNCHANGED vars
    <3> USE <2>1 DEF vars, groupVars, localVars, storeVars, topicVars, bounds
    <3>1. TypeOK' /\ AnnouncedIsStored'
      BY <1>1 DEF IInv, TypeOK, Codebook, AnnouncedIsStored
    <3>2. Apart' /\ StoreOK'
      <4>1. Apart'
        BY <1>1 DEF IInv, Apart, Building, SnapshotOf
      <4>2. StoreOK'
        BY <1>1, StoreUnchanged DEF IInv
      <4> QED BY <4>1, <4>2
    <3>3. Handled'
      BY <1>1 DEF IInv, Handled, Settled
    <3>4. \A j \in Instances : InstanceOK(j)'
      <4>1. /\ StoredIds' = StoredIds
            /\ \A x : IdsOf(x)' = IdsOf(x) /\ get_active(x)' = get_active(x)
            /\ \A x : already_processed(x)' = already_processed(x)
            /\ \A n : Settled(n)' = Settled(n)
        BY StoreUnchanged DEF Settled
      <4>2. \A j \in Instances : SnapshotOf(j)' = SnapshotOf(j) /\ EventOf(j)' = EventOf(j)
        BY DEF SnapshotOf, EventOf
      <4> QED BY <1>1, <4>1, <4>2 DEF IInv, InstanceOK
    <3> QED BY <3>1, <3>2, <3>3, <3>4 DEF IInv
  <2>2. ASSUME NEW i \in Instances,
               Step(i) \/ Assign(i) \/ databaseFails(i) \/ Crash(i) \/ Start(i)
        PROVE  IInv'
    BY <1>1, <2>2, PollStep, HandleStep, CompileStep, DemoteStep, InsertStep, CommitStep,
       EmitStep, AckStep, AssignStep, FailStep, StartStep
       DEF Step, databaseFails, Crash
  <2>3. CASE Expel
    BY <1>1, <2>3, ExpelStep
  <2> QED BY <1>1, <2>1, <2>2, <2>3 DEF Next
<1> QED BY <1>1, InitInv, PTL DEF Spec

\* Every variable keeps its kind, and the committed offset never passes what
\* the owner has polled.
THEOREM TypeCorrect == Spec => []TypeOK
<1>1. IInv => TypeOK
  BY DEF IInv
<1> QED BY <1>1, Inductive, PTL

\* A snapshot that has a codebook has exactly one active codebook.
THEOREM OneActiveCorrect == Spec => []OneActive
<1>1. IInv => OneActive
  <2> SUFFICES ASSUME IInv, NEW s \in Snapshots, NEW c \in codebooks, c.snap = s
               PROVE  Cardinality(get_active(s)) = 1
    BY DEF OneActive
  <2>1. c.id \in IdsOf(s)
    BY DEF IdsOf
  <2>2. PICK b : get_active(s) = {b}
    BY <2>1 DEF IInv, StoreOK
  <2> QED BY <2>2, FS_Singleton
<1> QED BY <1>1, Inductive, PTL

\* An event yields one codebook, however often it is delivered.
THEOREM CompiledOnceCorrect == Spec => []CompiledOnce
<1>1. IInv => CompiledOnce
  BY DEF IInv, StoreOK, CompiledOnce
<1> QED BY <1>1, Inductive, PTL

\* Only stored codebooks are announced.
THEOREM AnnouncedIsStoredCorrect == Spec => []AnnouncedIsStored
<1>1. IInv => AnnouncedIsStored
  BY DEF IInv
<1> QED BY <1>1, Inductive, PTL

\* The committed offset passes no message that is not settled.
THEOREM NothingIsSkippedCorrect == Spec => []NothingIsSkipped
<1>1. IInv => NothingIsSkipped
  BY DEF IInv, Handled, NothingIsSkipped
<1> QED BY <1>1, Inductive, PTL
=============================================================================
