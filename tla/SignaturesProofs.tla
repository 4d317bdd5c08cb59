-------------------------- MODULE SignaturesProofs --------------------------
(***************************************************************************)
(* Proofs about Signatures, for every graph and set of records, however    *)
(* the world changes meanwhile: a signature is the cascade of its origin,  *)
(* and no origin is skipped.                                               *)
(*                                                                         *)
(* The invariant of a propagation in progress (Walking) says that what the *)
(* templates raise from a state looked at is either in the signature or    *)
(* about to be raised, and that every symptom has been looked at or waits  *)
(* in the agenda.  With an empty agenda this is a cascade.  Finished       *)
(* scenarios stay cascades because the records they were computed from do  *)
(* not change once the first scenario is complete (Settled).               *)
(*                                                                         *)
(* Covering follows the objects of the fault-origin types through the      *)
(* listing, the traversals and the tagging into the store.                 *)
(***************************************************************************)
EXTENDS Signatures, FiniteSetTheorems, TLAPS

IsSeq(s) == \E S : s \in Seq(S)

Kinds == IsSeq(symptoms) /\ IsSeq(agenda) /\ IsSeq(scenarios)

Asking  == step \in {"idle", "origins", "templates", "vocabulary"}
Settled == Asking => scenarios = <<>>

Walking ==
  step \in {"propagate", "tag"} =>
    /\ symptoms # <<>> /\ symptoms[1] = Seed(Head(nodes))
    /\ \A n \in DOMAIN agenda : Holds(symptoms, agenda[n])
    /\ \A n \in DOMAIN symptoms : symptoms[n] \in processed \/ Holds(agenda, symptoms[n])
    /\ \A s \in processed : \A m \in Matches(closure, s) :
         m \in matches \/ Holds(symptoms, Raised(closure, m))
    /\ \A m \in matches : \E s : Holds(symptoms, s) /\ m \in Matches(closure, s)
    /\ \A n \in DOMAIN symptoms \ {1} :
         \E k \in 1 .. n - 1 : \E m \in Matches(closure, symptoms[k]) :
           symptoms[n] = Raised(closure, m)
    /\ \A k, n \in DOMAIN symptoms : symptoms[k] = symptoms[n] => k = n
Walked == step = "tag" => matches = {} /\ agenda = <<>>

SInv == Kinds /\ Settled /\ Walking /\ Walked /\ SignaturesAreCascades
-----------------------------------------------------------------------------
\* A sequence and what is appended to it.
LEMMA Appended ==
  ASSUME NEW s, IsSeq(s), NEW x
  PROVE  /\ IsSeq(Append(s, x)) /\ Append(s, x) # <<>>
         /\ Len(s) \in Nat /\ DOMAIN s = 1 .. Len(s)
         /\ DOMAIN Append(s, x) = 1 .. Len(s) + 1
         /\ \A i \in 1 .. Len(s) : Append(s, x)[i] = s[i]
         /\ Append(s, x)[Len(s) + 1] = x
<1>1. PICK T : s \in Seq(T)
  BY DEF IsSeq
<1> DEFINE U == {x} \cup T
<1>2. s \in Seq(U) /\ x \in U
  BY <1>1
<1> HIDE DEF U
<1>3. Append(s, x) \in Seq(U) /\ Len(s) \in Nat /\ Len(Append(s, x)) = Len(s) + 1
  BY <1>2
<1>4. DOMAIN s = 1 .. Len(s) /\ DOMAIN Append(s, x) = 1 .. Len(s) + 1
  BY <1>2, <1>3
<1>5. Append(s, x) # <<>>
  BY <1>3
<1>6. (\A i \in 1 .. Len(s) : Append(s, x)[i] = s[i]) /\ Append(s, x)[Len(s) + 1] = x
  BY <1>2
<1> QED
  BY <1>3, <1>4, <1>5, <1>6 DEF IsSeq

LEMMA Tailed ==
  ASSUME NEW s, IsSeq(s), s # <<>>
  PROVE  /\ IsSeq(Tail(s))
         /\ Head(s) = s[1] /\ 1 \in DOMAIN s
         /\ \A n \in DOMAIN Tail(s) : n + 1 \in DOMAIN s /\ Tail(s)[n] = s[n + 1]
         /\ \A n \in DOMAIN s \ {1} : n - 1 \in DOMAIN Tail(s) /\ Tail(s)[n - 1] = s[n]
<1>1. PICK T : s \in Seq(T)
  BY DEF IsSeq
<1> QED
  BY <1>1 DEF IsSeq

\* What a sequence holds after its end, or its beginning, has changed.
LEMMA HoldsAppended ==
  ASSUME NEW s, IsSeq(s), NEW x
  PROVE  \A y : Holds(Append(s, x), y) <=> Holds(s, y) \/ y = x
<1>1. PICK t : t = Append(s, x)
  OBVIOUS
<1>2. PICK n \in Nat : n = Len(s)
  BY Appended
<1>3. /\ DOMAIN s = 1 .. n /\ DOMAIN t = 1 .. n + 1
      /\ \A i \in 1 .. n : t[i] = s[i]
      /\ t[n + 1] = x
  BY <1>1, <1>2, Appended
<1>4. \A i \in 1 .. n + 1 : i \in 1 .. n \/ i = n + 1
  BY <1>2
<1>5. n + 1 \in 1 .. n + 1 /\ 1 .. n \subseteq 1 .. n + 1
  BY <1>2
<1>6. \A y : Holds(t, y) <=> Holds(s, y) \/ y = x
  BY <1>3, <1>4, <1>5, Zenon DEF Holds
<1> QED
  BY <1>1, <1>6

LEMMA HoldsTailed ==
  ASSUME NEW s, IsSeq(s), s # <<>>
  PROVE  \A y : Holds(s, y) <=> Holds(Tail(s), y) \/ y = Head(s)
<1>1. PICK t : t = Tail(s)
  OBVIOUS
<1>2. /\ Head(s) = s[1] /\ 1 \in DOMAIN s
      /\ \A n \in DOMAIN t : n + 1 \in DOMAIN s /\ t[n] = s[n + 1]
      /\ \A n \in DOMAIN s \ {1} : n - 1 \in DOMAIN t /\ t[n - 1] = s[n]
  BY <1>1, Tailed
<1>3. \A y : Holds(s, y) <=> Holds(t, y) \/ y = Head(s)
  BY <1>2 DEF Holds
<1> QED
  BY <1>1, <1>3
-----------------------------------------------------------------------------
LEMMA ReadyInv == Ready => SInv
<1> SUFFICES ASSUME Ready PROVE SInv
  OBVIOUS
<1>1. symptoms = <<>> /\ agenda = <<>> /\ scenarios = <<>> /\ step = "idle"
  BY DEF Ready
<1>2. IsSeq(<<>>)
  <2>1. <<>> \in Seq({})
    OBVIOUS
  <2> QED
    BY <2>1 DEF IsSeq
<1> QED
  BY <1>1, <1>2 DEF SInv, Kinds, Settled, Walking, Walked, SignaturesAreCascades

\* A step that leaves the propagation, its records and the scenarios alone, or
\* one after which no propagation is under way.
LEMMA QuietStep ==
  ASSUME SInv,
         UNCHANGED <<symptoms, agenda, scenarios>>,
         UNCHANGED knowledge \/ scenarios = <<>>,
         Asking' => scenarios = <<>>,
         step' \notin {"propagate", "tag"} \/ (step' = step /\ UNCHANGED <<knowledge, nodes, walking>>)
  PROVE  SInv'
<1>1. Kinds' /\ Settled'
  BY DEF SInv, Kinds, Settled
<1>2. Walking' /\ Walked'
  <2>1. CASE step' \notin {"propagate", "tag"}
    BY <2>1 DEF Walking, Walked
  <2>2. CASE step' = step /\ UNCHANGED <<knowledge, nodes, walking>>
    <3>1. Seed(Head(nodes))' = Seed(Head(nodes))
      BY <2>2 DEF Seed, SeedRecords
    <3>2. /\ \A s : Matches(closure, s)' = Matches(closure, s)
          /\ \A m : Raised(closure, m)' = Raised(closure, m)
          /\ \A n : Matches(closure, symptoms[n])' = Matches(closure, symptoms[n])
      BY <2>2 DEF walking, Matches, Raised
    <3>3. UNCHANGED <<symptoms, agenda, matches, processed>>
      BY <2>2 DEF walking
    <3> QED
      BY <2>2, <3>1, <3>2, <3>3 DEF SInv, Walking, Walked, Holds
  <2> QED
    BY <2>1, <2>2
<1>3. SignaturesAreCascades'
  <2>1. CASE UNCHANGED knowledge
    BY <2>1 DEF SInv, SignaturesAreCascades, IsCascade, Seed, SeedRecords, Holds, Matches, Raised
  <2>2. CASE scenarios = <<>>
    BY <2>2 DEF SignaturesAreCascades
  <2> QED
    BY <2>1, <2>2
<1> QED
  BY <1>1, <1>2, <1>3 DEF SInv

\* The records do not change: neither do seeds, matches and what they raise.
LEMMA SameRecords ==
  ASSUME SInv, UNCHANGED <<knowledge, scenarios>>
  PROVE  /\ SignaturesAreCascades'
         /\ \A o : Seed(o)' = Seed(o)
         /\ \A edges, s : Matches(edges, s)' = Matches(edges, s)
         /\ \A edges, m : Raised(edges, m)' = Raised(edges, m)
BY DEF SInv, SignaturesAreCascades, IsCascade, Seed, SeedRecords, Holds, Matches, Raised

\* A propagation begins: its seed alone.
LEMMA TraverseInv == ASSUME SInv, Traverse PROVE SInv'
<1>1. CASE step' \in {"rejected", "raised"} /\ UNCHANGED walking
  BY <1>1, QuietStep DEF Traverse, Asking, walking
<1>2. CASE step' = "propagate" /\ Begins(Seed(Head(nodes)))
  <2>1. PICK x : x = Seed(Head(nodes))
    OBVIOUS
  <2>2. /\ symptoms' = <<x>> /\ agenda' = <<x>> /\ processed' = {} /\ matches' = {}
        /\ UNCHANGED <<nodes, knowledge, scenarios>>
    BY <1>2, <2>1 DEF Begins, Traverse
  <2>3. IsSeq(<<x>>) /\ DOMAIN <<x>> = {1} /\ <<x>>[1] = x /\ <<x>> # <<>>
    <3>1. <<x>> \in Seq({x}) /\ Len(<<x>>) = 1
      OBVIOUS
    <3>2. DOMAIN <<x>> = {1}
      OBVIOUS
    <3>3. <<x>>[1] = x /\ <<x>> # <<>>
      OBVIOUS
    <3> QED
      BY <3>1, <3>2, <3>3 DEF IsSeq
  <2>4. Kinds' /\ Settled' /\ Walked'
    BY <1>2, <2>2, <2>3 DEF SInv, Kinds, Settled, Asking, Walked
  <2>5. Seed(Head(nodes))' = x
    BY <2>1, <2>2 DEF Seed, SeedRecords
  <2>6. Walking'
    BY <2>2, <2>3, <2>5 DEF Walking, Holds
  <2>7. SignaturesAreCascades'
    BY <2>2, SameRecords
  <2> QED
    BY <2>4, <2>6, <2>7 DEF SInv
<1> QED
  BY <1>1, <1>2 DEF Traverse, Answered

LEMMA PopInv == ASSUME SInv, Pop PROVE SInv'
<1>1. /\ step = "propagate" /\ matches = {} /\ agenda # <<>> /\ agenda' = Tail(agenda)
      /\ processed' = processed \cup {Head(agenda)}
      /\ matches' = IF Head(agenda) \in processed THEN {} ELSE Matches(closure, Head(agenda))
      /\ UNCHANGED <<step, nodes, closure, symptoms, knowledge, scenarios>>
  BY DEF Pop
<1>2. Seed(Head(nodes))' = Seed(Head(nodes)) /\ SignaturesAreCascades'
  BY <1>1, SameRecords DEF Seed, SeedRecords
<1>3. \A s : Matches(closure, s)' = Matches(closure, s)
  BY <1>1 DEF Matches
<1>4. \A m : Raised(closure, m)' = Raised(closure, m)
  BY <1>1 DEF Raised
<1>5. IsSeq(agenda) /\ IsSeq(agenda') /\ Kinds'
  BY <1>1, Tailed DEF SInv, Kinds
<1>6. \A y : Holds(agenda, y) <=> Holds(agenda', y) \/ y = Head(agenda)
  BY <1>1, <1>5, HoldsTailed
<1>7. \A y : Holds(symptoms', y) <=> Holds(symptoms, y)
  BY <1>1
<1>8. Walking
  BY DEF SInv
<1>9. Holds(symptoms, Head(agenda))
  BY <1>1, <1>5, <1>8, Tailed DEF Walking
<1>10. \A n \in DOMAIN agenda' : Holds(symptoms', agenda'[n])
  <2> SUFFICES ASSUME NEW n \in DOMAIN agenda' PROVE Holds(symptoms', agenda'[n])
    OBVIOUS
  <2>1. Holds(agenda, agenda'[n])
    BY <1>6 DEF Holds
  <2> QED
    BY <1>1, <1>8, <2>1 DEF Walking, Holds
<1>11. \A n \in DOMAIN symptoms' : symptoms'[n] \in processed' \/ Holds(agenda', symptoms'[n])
  BY <1>1, <1>6, <1>8 DEF Walking
<1>12. \A s \in processed' : \A m \in Matches(closure, s)' :
         m \in matches' \/ Holds(symptoms', Raised(closure, m)')
  <2> SUFFICES ASSUME NEW s \in processed', NEW m \in Matches(closure, s)
               PROVE  m \in matches' \/ Holds(symptoms', Raised(closure, m))
    BY <1>3, <1>4
  <2>1. CASE s \in processed
    BY <1>1, <1>8, <2>1 DEF Walking
  <2>2. CASE s \notin processed
    BY <1>1, <2>2
  <2> QED
    BY <2>1, <2>2
<1>13. \A m \in matches' : \E s : Holds(symptoms', s) /\ m \in Matches(closure, s)'
  BY <1>1, <1>3, <1>9
<1>14. Walking'
  BY <1>1, <1>2, <1>3, <1>4, <1>8, <1>10, <1>11, <1>12, <1>13 DEF Walking
<1> QED
  BY <1>1, <1>2, <1>5, <1>14 DEF SInv, Settled, Asking, Walked

LEMMA EmitInv == ASSUME SInv, Emit PROVE SInv'
<1>1. PICK m0 \in matches, x \in {Raised(closure, m) : m \in matches} :
        /\ x = Raised(closure, m0)
        /\ step = "propagate"
        /\ symptoms' = IF Holds(symptoms, x) THEN symptoms ELSE Append(symptoms, x)
        /\ agenda' = Append(agenda, x)
        /\ matches' = matches \ {m0}
        /\ UNCHANGED <<step, nodes, closure, processed, knowledge, scenarios>>
  BY DEF Emit
<1>2. Seed(Head(nodes))' = Seed(Head(nodes)) /\ SignaturesAreCascades'
  BY <1>1, SameRecords DEF Seed, SeedRecords
<1>3. \A s : Matches(closure, s)' = Matches(closure, s)
  BY <1>1 DEF Matches
<1>4. \A m : Raised(closure, m)' = Raised(closure, m)
  BY <1>1 DEF Raised
<1>5. IsSeq(agenda) /\ IsSeq(symptoms) /\ Kinds'
  BY <1>1, Appended DEF SInv, Kinds
<1>6. \A y : Holds(agenda', y) <=> Holds(agenda, y) \/ y = x
  BY <1>1, <1>5, HoldsAppended
<1>7. \A y : Holds(symptoms', y) <=> Holds(symptoms, y) \/ y = x
  BY <1>1, <1>5, HoldsAppended
<1>8. Walking
  BY DEF SInv
<1>9. PICK N \in Nat : /\ DOMAIN symptoms = 1 .. N
                       /\ \A i \in 1 .. N : i \in DOMAIN symptoms' /\ symptoms'[i] = symptoms[i]
                       /\ DOMAIN symptoms' \subseteq 1 .. N + 1
                       /\ Holds(symptoms, x) => DOMAIN symptoms' = 1 .. N
                       /\ ~Holds(symptoms, x) => symptoms'[N + 1] = x
                       /\ symptoms' # <<>>
  <2>1. CASE Holds(symptoms, x)
    <3>1. symptoms # <<>>
      BY <1>1, <1>8 DEF Walking
    <3>2. Len(symptoms) \in Nat /\ DOMAIN symptoms = 1 .. Len(symptoms)
      BY <1>5, Appended
    <3>3. symptoms' = symptoms
      BY <1>1, <2>1
    <3>4. PICK N \in Nat : N = Len(symptoms)
      BY <3>2
    <3>5. DOMAIN symptoms = 1 .. N /\ DOMAIN symptoms' = 1 .. N /\ 1 .. N \subseteq 1 .. N + 1
      BY <3>2, <3>3, <3>4
    <3> QED
      BY <2>1, <3>1, <3>3, <3>5
  <2>2. CASE ~Holds(symptoms, x)
    <3>1. PICK s : s = symptoms
      OBVIOUS
    <3>2. symptoms' = Append(s, x) /\ IsSeq(s)
      BY <1>1, <1>5, <2>2, <3>1
    <3> QED
      BY <2>2, <3>1, <3>2, Appended
  <2> QED
    BY <2>1, <2>2
<1>10. 1 \in 1 .. N /\ symptoms'[1] = symptoms[1]
  <2>1. N # 0
    <3>1. PICK s : Holds(symptoms, s)
      BY <1>1, <1>8 DEF Walking
    <3> QED
      BY <1>9, <3>1 DEF Holds
  <2> QED
    BY <1>9, <2>1
<1>11. \A n \in DOMAIN agenda' : Holds(symptoms', agenda'[n])
  <2> SUFFICES ASSUME NEW n \in DOMAIN agenda' PROVE Holds(symptoms', agenda'[n])
    OBVIOUS
  <2>1. Holds(agenda, agenda'[n]) \/ agenda'[n] = x
    BY <1>6 DEF Holds
  <2>2. Holds(agenda, agenda'[n]) => Holds(symptoms, agenda'[n])
    <3>1. \A y : Holds(agenda, y) => Holds(symptoms, y)
      <4>1. \A i \in DOMAIN agenda : Holds(symptoms, agenda[i])
        BY <1>1, <1>8 DEF Walking
      <4> QED
        BY <4>1 DEF Holds
    <3> QED
      BY <3>1
  <2> QED
    BY <1>7, <2>1, <2>2
<1>12. \A n \in DOMAIN symptoms' : symptoms'[n] \in processed' \/ Holds(agenda', symptoms'[n])
  <2> SUFFICES ASSUME NEW n \in DOMAIN symptoms'
               PROVE  symptoms'[n] \in processed \/ Holds(agenda', symptoms'[n])
    BY <1>1
  <2>1. Holds(symptoms, symptoms'[n]) \/ symptoms'[n] = x
    BY <1>7 DEF Holds
  <2>2. \A y : Holds(symptoms, y) => y \in processed \/ Holds(agenda, y)
    <3>1. \A i \in DOMAIN symptoms : symptoms[i] \in processed \/ Holds(agenda, symptoms[i])
      BY <1>1, <1>8 DEF Walking
    <3>2. ASSUME NEW y, Holds(symptoms, y) PROVE y \in processed \/ Holds(agenda, y)
      <4>1. PICK i \in DOMAIN symptoms : symptoms[i] = y
        BY <3>2 DEF Holds
      <4> QED
        BY <3>1, <4>1
    <3> QED
      BY <3>2
  <2> QED
    BY <1>6, <2>1, <2>2
<1>13. \A s \in processed' : \A m \in Matches(closure, s)' :
         m \in matches' \/ Holds(symptoms', Raised(closure, m)')
  BY <1>1, <1>3, <1>4, <1>7, <1>8 DEF Walking
<1>14. \A m \in matches' : \E s : Holds(symptoms', s) /\ m \in Matches(closure, s)'
  BY <1>1, <1>3, <1>7, <1>8 DEF Walking
<1>15. \A n \in DOMAIN symptoms' \ {1} :
         \E k \in 1 .. n - 1 : \E m \in Matches(closure, symptoms[k])' :
           symptoms'[k] = symptoms[k] /\ symptoms'[n] = Raised(closure, m)'
  <2> SUFFICES ASSUME NEW n \in DOMAIN symptoms' \ {1}
               PROVE  \E k \in 1 .. n - 1 : \E m \in Matches(closure, symptoms[k]) :
                        symptoms'[k] = symptoms[k] /\ symptoms'[n] = Raised(closure, m)
    BY <1>3, <1>4
  <2>1. CASE n \in 1 .. N
    <3>1. PICK k \in 1 .. n - 1 : \E m \in Matches(closure, symptoms[k]) :
            symptoms[n] = Raised(closure, m)
      BY <1>1, <1>8, <1>9, <2>1 DEF Walking
    <3>2. k \in 1 .. N
      BY <2>1, <3>1
    <3> QED
      BY <1>9, <2>1, <3>1, <3>2
  <2>2. CASE n \notin 1 .. N
    <3>1. n = N + 1 /\ ~Holds(symptoms, x)
      BY <1>9, <2>2
    <3>2. PICK s : Holds(symptoms, s) /\ m0 \in Matches(closure, s)
      BY <1>1, <1>8 DEF Walking
    <3>3. PICK k \in 1 .. N : symptoms[k] = s
      BY <1>9, <3>2 DEF Holds
    <3>4. k \in 1 .. n - 1 /\ symptoms'[k] = symptoms[k] /\ symptoms'[n] = x
      BY <1>9, <3>1, <3>3
    <3> QED
      BY <1>1, <3>2, <3>3, <3>4
  <2> QED
    BY <2>1, <2>2
<1>16. \A k, n \in DOMAIN symptoms' : symptoms'[k] = symptoms'[n] => k = n
  <2> SUFFICES ASSUME NEW k \in DOMAIN symptoms', NEW n \in DOMAIN symptoms',
                      symptoms'[k] = symptoms'[n]
               PROVE  k = n
    OBVIOUS
  <2>1. k \in 1 .. N + 1 /\ n \in 1 .. N + 1
    BY <1>9
  <2>2. CASE k \in 1 .. N /\ n \in 1 .. N
    BY <1>1, <1>8, <1>9, <2>2 DEF Walking
  <2>3. CASE k \notin 1 .. N \/ n \notin 1 .. N
    <3>1. ~Holds(symptoms, x)
      BY <1>9, <2>3
    <3>2. \A i \in 1 .. N : symptoms'[i] # x
      BY <1>9, <3>1 DEF Holds
    <3>3. symptoms'[N + 1] = x
      BY <1>9, <3>1
    <3> QED
      BY <2>1, <2>3, <3>2, <3>3
  <2> QED
    BY <2>2, <2>3
<1>17. Walking'
  <2>1. symptoms' # <<>> /\ symptoms'[1] = Seed(Head(nodes))'
    BY <1>1, <1>2, <1>8, <1>9, <1>10 DEF Walking
  <2>2. \A n \in DOMAIN symptoms' \ {1} :
          \E k \in 1 .. n - 1 : \E m \in Matches(closure, symptoms[k])' :
            symptoms'[n] = Raised(closure, m)'
    BY <1>15
  <2> QED
    BY <1>11, <1>12, <1>13, <1>14, <1>16, <2>1, <2>2 DEF Walking
<1> QED
  BY <1>1, <1>2, <1>5, <1>17 DEF SInv, Settled, Asking, Walked

\* The scenario is complete: what was walked is a cascade.
LEMMA AppendInv == ASSUME SInv, AppendScenario PROVE SInv'
<1>1. PICK x : /\ x = [origin |-> Head(nodes), symptoms |-> symptoms, tags |-> tags, over |-> closure]
               /\ scenarios' = Append(scenarios, x)
  BY DEF AppendScenario
<1>2. /\ step = "tag" /\ step' \in {"list", "traverse"}
      /\ UNCHANGED <<knowledge, symptoms, agenda, closure, processed, matches>>
  BY DEF AppendScenario, Answered, walking
<1>3. IsSeq(scenarios) /\ Kinds'
  BY <1>1, <1>2, Appended DEF SInv, Kinds
<1>4. /\ DOMAIN scenarios = 1 .. Len(scenarios) /\ Len(scenarios) \in Nat
      /\ DOMAIN scenarios' = 1 .. Len(scenarios) + 1
      /\ \A n \in 1 .. Len(scenarios) : scenarios'[n] = scenarios[n]
      /\ scenarios'[Len(scenarios) + 1] = x
  BY <1>1, <1>3, Appended
<1>5. IsCascade(symptoms, closure, Seed(Head(nodes)))
  <2>1. matches = {} /\ agenda = <<>> /\ Walking
    BY <1>2 DEF SInv, Walked
  <2>2. \A n \in DOMAIN symptoms : symptoms[n] \in processed
    BY <1>2, <2>1 DEF Walking, Holds
  <2>3. \A k \in DOMAIN symptoms : \A m \in Matches(closure, symptoms[k]) :
          Holds(symptoms, Raised(closure, m))
    BY <1>2, <2>1, <2>2 DEF Walking
  <2> QED
    BY <1>2, <2>1, <2>3 DEF Walking, IsCascade
<1>6. /\ \A o : Seed(o)' = Seed(o)
      /\ \A s, edges, seed : IsCascade(s, edges, seed)' <=> IsCascade(s, edges, seed)
  BY <1>2 DEF Seed, SeedRecords, IsCascade, Matches, Raised
<1>7. SignaturesAreCascades'
  <2> SUFFICES ASSUME NEW n \in DOMAIN scenarios', NEW y, y = scenarios'[n]
               PROVE  IsCascade(y.symptoms, y.over, Seed(y.origin))
    <3>1. \A n \in DOMAIN scenarios' : \E y : y = scenarios'[n] /\ IsCascade(y.symptoms, y.over, Seed(y.origin))'
      BY <1>6
    <3> QED
      BY <3>1 DEF SignaturesAreCascades
  <2>1. CASE n \in DOMAIN scenarios
    BY <1>4, <2>1 DEF SInv, SignaturesAreCascades
  <2>2. CASE n \notin DOMAIN scenarios
    <3>1. y = x
      BY <1>4, <2>2
    <3> QED
      BY <1>1, <1>5, <3>1
  <2> QED
    BY <2>1, <2>2
<1> QED
  BY <1>2, <1>3, <1>7 DEF SInv, Settled, Asking, Walking, Walked
-----------------------------------------------------------------------------
LEMMA StepInv == ASSUME SInv, [Next]_vars PROVE SInv'
<1> USE DEF Answered, Asking, walking
<1>1. ASSUME Begin \/ GetFaultOriginTypes \/ GetPropagationTemplates \/ GetAlarmTypeVocabulary PROVE SInv'
  <2>1. scenarios = <<>>
    BY <1>1 DEF SInv, Settled, Begin, GetFaultOriginTypes, GetPropagationTemplates, GetAlarmTypeVocabulary
  <2>2. UNCHANGED <<symptoms, agenda, scenarios>> /\ step' \notin {"propagate", "tag"}
    BY <1>1 DEF Begin, GetFaultOriginTypes, GetPropagationTemplates, GetAlarmTypeVocabulary
  <2> QED
    BY <2>1, <2>2, QuietStep
<1>2. CASE RequestFails
  BY <1>2, QuietStep DEF RequestFails, SInv, Settled
<1>3. CASE ListObjectsByType
  BY <1>3, QuietStep DEF ListObjectsByType
<1>4. CASE Propagated
  <2>1. Kinds' /\ Settled' /\ SignaturesAreCascades'
    BY <1>4, SameRecords DEF Propagated, SInv, Kinds, Settled
  <2>2. Seed(Head(nodes))' = Seed(Head(nodes))
    BY <1>4 DEF Propagated, Seed, SeedRecords
  <2>3. /\ \A s : Matches(closure, s)' = Matches(closure, s)
        /\ \A m : Raised(closure, m)' = Raised(closure, m)
        /\ \A n : Matches(closure, symptoms[n])' = Matches(closure, symptoms[n])
    BY <1>4 DEF Propagated, Matches, Raised
  <2>4. UNCHANGED <<symptoms, agenda, matches, processed>> /\ step = "propagate" /\ step' = "tag"
        /\ matches = {} /\ agenda = <<>>
    BY <1>4 DEF Propagated
  <2>5. Walking' /\ Walked'
    BY <2>2, <2>3, <2>4 DEF SInv, Walking, Walked, Holds
  <2> QED
    BY <2>1, <2>5 DEF SInv
<1>5. CASE GetTrailsForObject
  BY <1>5, QuietStep DEF GetTrailsForObject
<1>6. CASE Validate
  BY <1>6, QuietStep DEF Validate
<1>7. CASE CutOver
  BY <1>7, QuietStep DEF CutOver, SInv, Settled
<1>8. CASE Publish \/ PersistBuild
  BY <1>8, QuietStep DEF Publish, PersistBuild, SInv, Settled
<1>9. CASE UNCHANGED vars
  BY <1>9, QuietStep DEF vars, SInv, Settled
<1> QED
  BY <1>1, <1>2, <1>3, <1>4, <1>5, <1>6, <1>7, <1>8, <1>9, TraverseInv, PopInv, EmitInv, AppendInv
  DEF Next, Compile

\* The invariant of a compile.
THEOREM Inductive == Spec => []SInv
<1>1. Init => SInv
  BY ReadyInv DEF Init
<1> QED
  BY <1>1, StepInv, PTL DEF Spec

\* Every finished scenario is the cascade of its origin over its closure: what
\* the templates raise, each symptom once and after a cause of it.
THEOREM CascadesCorrect == Spec => []SignaturesAreCascades
<1>1. SInv => SignaturesAreCascades
  BY DEF SInv
<1> QED
  BY <1>1, Inductive, PTL
-----------------------------------------------------------------------------
(* What Topology lists.                                                    *)

LEMMA AsSeq ==
  ASSUME NEW n \in Nat, NEW s, s = [k \in 1 .. n |-> s[k]]
  PROVE  IsSeq(s) /\ DOMAIN s = 1 .. n
<1>1. s \in [1 .. n -> {s[k] : k \in 1 .. n}]
  OBVIOUS
<1>2. s \in Seq({s[k] : k \in 1 .. n})
  BY <1>1
<1> QED
  BY <1>1, <1>2 DEF IsSeq

\* How many of a set are less than x tells x from the others.
LEMMA RankDiffers ==
  ASSUME NEW S, S \subseteq Nat, IsFiniteSet(S), NEW x \in S, NEW z \in S, x < z
  PROVE  Cardinality({y \in S : y < x}) < Cardinality({y \in S : y < z})
<1>1. PICK A, B : A = {y \in S : y < x} /\ B = {y \in S : y < z}
  OBVIOUS
<1>2. IsFiniteSet(B)
  BY <1>1, FS_Subset
<1>3. A \subseteq B /\ x \in B /\ x \notin A
  <2>1. x \in Nat /\ \A y \in S : y \in Nat
    OBVIOUS
  <2>2. \A y \in S : y < x => y < z
    BY <2>1
  <2>3. ~(x < x)
    BY <2>1
  <2> QED
    BY <1>1, <2>2, <2>3
<1>4. IsFiniteSet(A) /\ Cardinality(A) <= Cardinality(B) /\ Cardinality(A) # Cardinality(B)
  BY <1>2, <1>3, FS_Subset
<1>5. Cardinality(A) \in Nat /\ Cardinality(B) \in Nat
  BY <1>2, <1>4, FS_CardinalityType
<1> QED
  BY <1>1, <1>4, <1>5

\* Sorted leaves nothing out.
LEMMA SortedHolds ==
  ASSUME NEW S, S \subseteq Nat, IsFiniteSet(S)
  PROVE  IsSeq(Sorted(S)) /\ \A x \in S : Holds(Sorted(S), x)
<1> DEFINE rank == [x \in S |-> Cardinality({y \in S : y < x}) + 1]
<1>1. PICK c \in Nat : c = Cardinality(S)
  BY FS_CardinalityType
<1>2. ASSUME NEW x \in S
      PROVE  Cardinality({y \in S : y < x}) \in Nat /\ Cardinality({y \in S : y < x}) < c
  <2>1. PICK A : A = {y \in S : y < x}
    OBVIOUS
  <2>2. A \subseteq S /\ x \notin A
    BY <2>1
  <2>3. IsFiniteSet(A) /\ Cardinality(A) <= Cardinality(S) /\ Cardinality(A) # Cardinality(S)
    BY <2>2, FS_Subset
  <2>4. Cardinality(A) \in Nat
    BY <2>3, FS_CardinalityType
  <2> QED
    BY <1>1, <2>1, <2>3, <2>4
<1>3. \A x \in S : rank[x] \in 1 .. c
  BY <1>2
<1>4. ASSUME NEW x \in S, NEW z \in S, rank[x] = rank[z]
      PROVE  x = z
  <2>1. Cardinality({y \in S : y < x}) = Cardinality({y \in S : y < z})
    BY <1>2, <1>4
  <2>2. PICK a \in Nat, b \in Nat : /\ a = Cardinality({y \in S : y < x})
                                   /\ b = Cardinality({y \in S : y < z})
    BY <1>2
  <2>3. ~(x < z)
    <3>1. x < z => a < b
      BY <2>2, RankDiffers
    <3> QED
      BY <2>1, <2>2, <3>1
  <2>4. ~(z < x)
    <3>1. z < x => b < a
      BY <2>2, RankDiffers
    <3> QED
      BY <2>1, <2>2, <3>1
  <2>5. x \in Nat /\ z \in Nat
    OBVIOUS
  <2> QED
    BY <2>3, <2>4, <2>5
<1> DEFINE I == 1 .. c
<1>5. IsFiniteSet(I) /\ Cardinality(I) = c
  BY FS_Interval
<1>6. rank \in Injection(S, I)
  BY <1>3, <1>4 DEF Injection, IsInjective
<1> HIDE DEF rank, I
<1>7. rank \in Surjection(S, I)
  BY <1>1, <1>5, <1>6, FS_Injection
<1> USE DEF rank, I
<1>8. \A n \in 1 .. c : \E x \in S : rank[x] = n
  BY <1>7 DEF Surjection
<1>9. PICK s : s = Sorted(S)
  OBVIOUS
<1>10. s = [n \in 1 .. c |-> CHOOSE x \in S : Cardinality({y \in S : y < x}) = n - 1]
  BY <1>1, <1>9 DEF Sorted
<1>11. ASSUME NEW n \in 1 .. c, NEW x \in S, rank[x] = n
       PROVE  s[n] = x
  <2>1. \A z \in S : Cardinality({y \in S : y < z}) = n - 1 <=> rank[z] = n
    BY <1>2
  <2>2. \A z \in S : Cardinality({y \in S : y < z}) = n - 1 <=> z = x
    BY <1>4, <1>11, <2>1
  <2>3. (CHOOSE z \in S : Cardinality({y \in S : y < z}) = n - 1) = x
    BY <2>2
  <2> QED
    BY <1>10, <2>3
<1>12. IsSeq(s) /\ DOMAIN s = 1 .. c
  BY <1>10, AsSeq
<1>13. \A x \in S : Holds(s, x)
  BY <1>3, <1>11, <1>12 DEF Holds
<1> QED
  BY <1>9, <1>12, <1>13
-----------------------------------------------------------------------------
(* Every cause has its scenario.                                           *)

\* What the world outside may hold.
Assumed ==
  /\ Objects \subseteq Nat /\ IsFiniteSet(Objects)
  /\ Later \subseteq Graph
  /\ 1 \in DOMAIN Records
  /\ \A v \in DOMAIN Records : Records[v].origins \in Seq(Origin)

Shapes ==
  /\ snapshot.nodes \subseteq Objects /\ current.nodes \subseteq Objects
  /\ version \in DOMAIN Records
  /\ DOMAIN knowledge = {"origins", "templates", "vocabulary"}
  /\ knowledge.origins = <<>> \/ \E v \in DOMAIN Records : knowledge.origins = Records[v].origins
  /\ IsSeq(types) /\ IsSeq(nodes)

Places ==
  /\ Asking \/ step = "list" => nodes = <<>>
  /\ step \in {"traverse", "propagate", "tag"} => nodes # <<>>

\* An object that may be a cause: of a fault-origin type, and in the snapshot of
\* the event as in what is current.
Causes == {o \in snapshot.nodes \cap current.nodes :
             \E k \in DOMAIN knowledge.origins : Type[o] = knowledge.origins[k].type}

HasScenario(o) == \E n \in DOMAIN scenarios : scenarios[n].origin = o

\* Its type is to be listed yet, or it is listed, or it has its scenario.
Listing ==
  step \in {"list", "traverse", "propagate", "tag"} =>
    \A o \in Causes : Holds(types, Type[o]) \/ Holds(nodes, o) \/ HasScenario(o)

ObjectsOf(seq)   == {seq[n].object : n \in DOMAIN seq}

\* Every trail of the things that has always been there, and none that never was.
Tagged(those, things) ==
  TrailsOf(always, things) \subseteq those /\ those \subseteq TrailsOf(ever, things)

Tagging ==
  /\ step # "idle" => always \subseteq store /\ store \subseteq ever
  /\ step = "tag" => asked \subseteq ObjectsOf(symptoms) /\ Tagged(tags, asked)
  /\ \A n \in DOMAIN scenarios :
       IsSeq(scenarios[n].symptoms) /\ Tagged(scenarios[n].tags, ObjectsOf(scenarios[n].symptoms))

Storing ==
  step = "stored" =>
    /\ stored = scenarios
    /\ \A n \in DOMAIN scenarios : Valid(scenarios[n])
    /\ \A o \in Causes : HasScenario(o)

Covering == Shapes /\ Places /\ Listing /\ Tagging /\ Storing

LEMMA Empty == ASSUME NEW s, s = <<>> PROVE IsSeq(s) /\ DOMAIN s = {}
<1>1. s \in Seq({})
  OBVIOUS
<1>2. DOMAIN s = {}
  OBVIOUS
<1> QED
  BY <1>1, <1>2 DEF IsSeq

LEMMA CoveringBegins == ASSUME Assumed, Ready, snapshot.nodes \subseteq Objects PROVE Covering
<1>1. /\ step = "idle" /\ scenarios = <<>> /\ types = <<>> /\ nodes = <<>>
      /\ current = snapshot /\ knowledge = Nothing
  BY DEF Ready
<1>2. version \in DOMAIN Records
  BY DEF Ready, Assumed
<1>3. IsSeq(types) /\ IsSeq(nodes) /\ DOMAIN scenarios = {}
  BY <1>1, Empty
<1>4. DOMAIN knowledge = {"origins", "templates", "vocabulary"} /\ knowledge.origins = <<>>
  BY <1>1 DEF Nothing
<1> QED
  BY <1>1, <1>2, <1>3, <1>4 DEF Covering, Shapes, Places, Listing, Tagging, Storing, Asking

\* The sequence that takes the place of the types or the nodes.
LEMMA ShapesStep == ASSUME Assumed, SInv, Covering, [Next]_vars PROVE Shapes'
<1> USE DEF Covering, Shapes
<1>1. CASE GetFaultOriginTypes
  <2>1. knowledge' = [knowledge EXCEPT !.origins = Records[version].origins]
        /\ UNCHANGED <<snapshot, current, version, types, nodes>>
    BY <1>1 DEF GetFaultOriginTypes, world
  <2>2. DOMAIN knowledge' = DOMAIN knowledge /\ knowledge'.origins = Records[version].origins
    BY <2>1
  <2> QED
    BY <2>1, <2>2
<1>2. CASE GetPropagationTemplates
  <2>1. knowledge' = [knowledge EXCEPT !.templates = Records[version].templates]
        /\ UNCHANGED <<snapshot, current, version, types, nodes>>
    BY <1>2 DEF GetPropagationTemplates, world
  <2>2. DOMAIN knowledge' = DOMAIN knowledge /\ knowledge'.origins = knowledge.origins
    BY <2>1
  <2> QED
    BY <2>1, <2>2
<1>3. CASE GetAlarmTypeVocabulary
  <2>1. UNCHANGED <<snapshot, current, version, nodes>>
    BY <1>3 DEF GetAlarmTypeVocabulary, world
  <2>2. CASE UNCHANGED <<knowledge, types>>
    BY <2>1, <2>2
  <2>3. CASE /\ knowledge' = [knowledge EXCEPT !.vocabulary = Records[version].vocabulary]
             /\ types' = [k \in DOMAIN knowledge.origins |-> knowledge.origins[k].type]
    <3>1. DOMAIN knowledge' = DOMAIN knowledge /\ knowledge'.origins = knowledge.origins
      BY <2>3
    <3>2. PICK n \in Nat : DOMAIN knowledge.origins = 1 .. n
      <4>1. CASE knowledge.origins = <<>>
        <5>1. DOMAIN knowledge.origins = 1 .. 0
          BY <4>1, Empty
        <5> QED
          BY <5>1
      <4>2. CASE \E v \in DOMAIN Records : knowledge.origins = Records[v].origins
        <5>1. knowledge.origins \in Seq(Origin)
          BY <4>2 DEF Assumed
        <5> QED
          BY <5>1
      <4> QED
        BY <4>1, <4>2
    <3>3. types' = [k \in 1 .. n |-> types'[k]]
      BY <2>3, <3>2
    <3>4. IsSeq(types')
      BY <3>3, AsSeq
    <3> QED
      BY <2>1, <3>1, <3>4
  <2> QED
    BY <1>3, <2>2, <2>3 DEF GetAlarmTypeVocabulary
<1>4. CASE ListObjectsByType
  <2>1. /\ UNCHANGED <<snapshot, current, version, knowledge>> /\ types # <<>>
        /\ types' = Tail(types)
    BY <1>4 DEF ListObjectsByType, world
  <2>2. PICK S : S = {o \in current.nodes : Type[o] = Head(types)} /\ nodes' = Sorted(S)
    BY <1>4 DEF ListObjectsByType
  <2>3. S \subseteq Objects
    BY <2>2
  <2>4. S \subseteq Nat /\ IsFiniteSet(S)
    BY <2>3, FS_Subset DEF Assumed
  <2>5. IsSeq(nodes') /\ IsSeq(types')
    BY <2>1, <2>2, <2>4, SortedHolds, Tailed
  <2> QED
    BY <2>1, <2>5
<1>5. CASE AppendScenario
  <2>1. /\ UNCHANGED <<snapshot, current, version, knowledge, types>>
        /\ nodes' = Tail(nodes) /\ nodes # <<>>
    BY <1>5 DEF AppendScenario, world, Places
  <2>2. IsSeq(nodes')
    BY <2>1, Tailed
  <2> QED
    BY <2>1, <2>2
<1>6. CASE CutOver
  <2>1. current' \in Graph /\ UNCHANGED <<snapshot, version, knowledge, types, nodes>>
    BY <1>6 DEF CutOver, Assumed
  <2> QED
    BY <2>1 DEF Graph
<1>7. CASE Publish \/ PersistBuild
  BY <1>7 DEF Publish, PersistBuild
<1>8. CASE Begin \/ RequestFails \/ Traverse \/ Pop \/ Emit \/ Propagated \/ GetTrailsForObject
           \/ Validate \/ UNCHANGED vars
  BY <1>8 DEF Begin, RequestFails, Traverse, Pop, Emit, Propagated, GetTrailsForObject, Validate, vars,
    world
<1> QED
  BY <1>1, <1>2, <1>3, <1>4, <1>5, <1>6, <1>7, <1>8 DEF Next, Compile

LEMMA PlacesStep == ASSUME Assumed, SInv, Covering, [Next]_vars PROVE Places'
<1> USE DEF Covering, Places, Asking, Answered
<1>1. CASE Begin \/ GetFaultOriginTypes \/ GetPropagationTemplates \/ GetAlarmTypeVocabulary
  BY <1>1 DEF Begin, GetFaultOriginTypes, GetPropagationTemplates, GetAlarmTypeVocabulary
<1>2. CASE RequestFails
  BY <1>2 DEF RequestFails
<1>3. CASE ListObjectsByType
  BY <1>3 DEF ListObjectsByType
<1>4. CASE Traverse
  BY <1>4 DEF Traverse
<1>5. CASE Pop \/ Emit \/ Propagated \/ GetTrailsForObject
  BY <1>5 DEF Pop, Emit, Propagated, GetTrailsForObject
<1>6. CASE AppendScenario
  BY <1>6 DEF AppendScenario
<1>7. CASE Validate
  BY <1>7 DEF Validate
<1>8. CASE CutOver \/ Publish \/ PersistBuild \/ UNCHANGED vars
  BY <1>8 DEF CutOver, Publish, PersistBuild, vars
<1> QED
  BY <1>1, <1>2, <1>3, <1>4, <1>5, <1>6, <1>7, <1>8 DEF Next, Compile

\* Causes are looked for and kept, or none is added to them.
LEMMA ListingKept ==
  ASSUME Listing, step \in {"list", "traverse", "propagate", "tag"}, Causes' \subseteq Causes,
         UNCHANGED <<types, nodes, scenarios>>
  PROVE  Listing'
BY DEF Listing, Holds, HasScenario

LEMMA ListingStep == ASSUME Assumed, SInv, Covering, [Next]_vars PROVE Listing'
<1> USE DEF Covering
<1>1. CASE Begin \/ GetFaultOriginTypes \/ GetPropagationTemplates \/ Validate
  BY <1>1 DEF Begin, GetFaultOriginTypes, GetPropagationTemplates, Validate, Answered, Listing
<1>2. CASE GetAlarmTypeVocabulary
  <2>1. CASE step' = "raised"
    BY <2>1 DEF Listing
  <2>2. CASE /\ knowledge' = [knowledge EXCEPT !.vocabulary = Records[version].vocabulary]
             /\ types' = [k \in DOMAIN knowledge.origins |-> knowledge.origins[k].type]
    <3>1. knowledge'.origins = knowledge.origins
      BY <2>2 DEF Shapes
    <3>2. \A k \in DOMAIN knowledge'.origins :
            k \in DOMAIN types' /\ types'[k] = knowledge'.origins[k].type
      BY <2>2, <3>1
    <3>3. \A o \in Causes' : Holds(types', Type[o])
      BY <3>2 DEF Causes, Holds
    <3> QED
      BY <3>3 DEF Listing
  <2> QED
    BY <1>2, <2>1, <2>2 DEF GetAlarmTypeVocabulary, Answered
<1>3. CASE ListObjectsByType
  <2>1. /\ step = "list" /\ types # <<>> /\ types' = Tail(types) /\ nodes = <<>>
        /\ UNCHANGED <<snapshot, current, knowledge, scenarios>>
    BY <1>3 DEF ListObjectsByType, world, Places
  <2>2. PICK S : S = {o \in current.nodes : Type[o] = Head(types)} /\ nodes' = Sorted(S)
    BY <1>3 DEF ListObjectsByType
  <2>3. S \subseteq Objects
    BY <2>2 DEF Shapes
  <2>4. S \subseteq Nat /\ IsFiniteSet(S)
    BY <2>3, FS_Subset DEF Assumed
  <2>5. \A x \in S : Holds(nodes', x)
    BY <2>2, <2>4, SortedHolds
  <2>6. \A y : Holds(types, y) => Holds(types', y) \/ y = Head(types)
    BY <2>1, HoldsTailed DEF Shapes
  <2>7. \A y : ~Holds(nodes, y)
    BY <2>1, Empty DEF Holds
  <2>8. Causes' = Causes
    BY <2>1 DEF Causes
  <2>9. ASSUME NEW o \in Causes PROVE Holds(types', Type[o]) \/ Holds(nodes', o) \/ HasScenario(o)'
    <3>1. Holds(types, Type[o]) \/ HasScenario(o)
      BY <2>1, <2>7 DEF Listing
    <3>2. Type[o] = Head(types) => o \in S
      BY <2>2 DEF Causes
    <3>3. HasScenario(o) => HasScenario(o)'
      BY <2>1 DEF HasScenario
    <3> QED
      BY <2>5, <2>6, <3>1, <3>2, <3>3
  <2> QED
    BY <2>8, <2>9 DEF Listing
<1>4. CASE AppendScenario
  <2>1. PICK x : x.origin = Head(nodes) /\ scenarios' = Append(scenarios, x)
    BY <1>4 DEF AppendScenario
  <2>2. /\ step = "tag" /\ nodes # <<>> /\ nodes' = Tail(nodes)
        /\ UNCHANGED <<snapshot, current, knowledge, types>>
    BY <1>4 DEF AppendScenario, world, Places
  <2>3. \A y : Holds(nodes, y) => Holds(nodes', y) \/ y = Head(nodes)
    BY <2>2, HoldsTailed DEF Shapes
  <2>4. \A o : HasScenario(o) \/ o = Head(nodes) => HasScenario(o)'
    <3>1. PICK t : t = scenarios'
      OBVIOUS
    <3>2. /\ Len(scenarios) \in Nat
          /\ DOMAIN scenarios = 1 .. Len(scenarios) /\ DOMAIN t = 1 .. Len(scenarios) + 1
          /\ \A i \in 1 .. Len(scenarios) : t[i] = scenarios[i]
          /\ t[Len(scenarios) + 1] = x
      BY <2>1, <3>1, Appended DEF SInv, Kinds
    <3>3. \A n \in DOMAIN scenarios : n \in DOMAIN t /\ t[n] = scenarios[n]
      BY <3>2
    <3>4. \E n \in DOMAIN t : t[n] = x
      BY <3>2
    <3> QED
      BY <2>1, <3>1, <3>3, <3>4 DEF HasScenario
  <2>5. Causes' = Causes
    BY <2>2 DEF Causes
  <2>6. \A o \in Causes : Holds(types', Type[o]) \/ Holds(nodes', o) \/ HasScenario(o)'
    BY <2>2, <2>3, <2>4 DEF Listing
  <2> QED
    BY <2>5, <2>6 DEF Listing
<1>5. CASE RequestFails
  <2>1. UNCHANGED <<snapshot, current, knowledge, types, nodes, scenarios>>
    BY <1>5 DEF RequestFails, world
  <2>2. step' = step \/ step' = "rejected"
    BY <1>5 DEF RequestFails, Answered
  <2> QED
    BY <2>1, <2>2, ListingKept DEF Listing, Causes
<1>6. CASE CutOver
  <2>1. current = snapshot /\ UNCHANGED <<snapshot, knowledge, types, nodes, scenarios, step>>
    BY <1>6 DEF CutOver
  <2>2. Causes' \subseteq Causes
    BY <2>1 DEF Causes
  <2> QED
    BY <2>1, <2>2, ListingKept DEF Listing
<1>7. CASE Publish
  BY <1>7 DEF Publish, Listing
<1>10. CASE PersistBuild
  <2>1. UNCHANGED <<snapshot, current, knowledge, types, nodes, scenarios, step>>
    BY <1>10 DEF PersistBuild
  <2> QED
    BY <2>1, ListingKept DEF Listing, Causes
<1>8. CASE Traverse \/ Pop \/ Emit \/ Propagated \/ GetTrailsForObject
  <2>1. /\ UNCHANGED <<snapshot, current, knowledge, types, nodes, scenarios>>
        /\ step \in {"list", "traverse", "propagate", "tag"}
    BY <1>8 DEF Traverse, Pop, Emit, Propagated, GetTrailsForObject, world
  <2> QED
    BY <2>1, ListingKept DEF Causes
<1>9. CASE UNCHANGED vars
  <2>1. UNCHANGED <<snapshot, current, knowledge, types, nodes, scenarios, step>>
    BY <1>9 DEF vars, world
  <2> QED
    BY <2>1, ListingKept DEF Listing, Causes
<1> QED
  BY <1>1, <1>2, <1>3, <1>4, <1>5, <1>6, <1>7, <1>8, <1>9, <1>10 DEF Next, Compile

\* Scenarios stay, no object is asked about, and trails may come and go.
LEMMA TaggingKept ==
  ASSUME Tagging, step # "idle", scenarios' = scenarios,
         UNCHANGED held \/ (/\ always' = always \cap store' /\ ever' = ever \cup store'),
         step' # "tag" \/ (step' = step /\ UNCHANGED <<asked, tags, symptoms>>)
  PROVE  Tagging'
<1>1. always' \subseteq always /\ ever \subseteq ever'
  BY DEF held
<1>2. always' \subseteq store' /\ store' \subseteq ever'
  BY DEF held, Tagging
<1>3. \A those, things : Tagged(those, things) => Tagged(those, things)'
  BY <1>1 DEF Tagged, TrailsOf
<1>4. step' = "tag" => asked' \subseteq ObjectsOf(symptoms') /\ Tagged(tags, asked)'
  <2> SUFFICES ASSUME step' = "tag" PROVE asked' \subseteq ObjectsOf(symptoms') /\ Tagged(tags, asked)'
    OBVIOUS
  <2>1. step = "tag" /\ UNCHANGED <<asked, tags, symptoms>>
    OBVIOUS
  <2> QED
    BY <1>1, <2>1 DEF Tagging, Tagged, TrailsOf, ObjectsOf
<1>5. \A n \in DOMAIN scenarios' :
        IsSeq(scenarios'[n].symptoms) /\ Tagged(scenarios[n].tags, ObjectsOf(scenarios[n].symptoms))'
  BY <1>1 DEF Tagging, Tagged, TrailsOf, ObjectsOf
<1> QED
  BY <1>2, <1>4, <1>5 DEF Tagging

\* Before a compile has begun no scenario has trails.
LEMMA TaggingWaits ==
  ASSUME SInv, step = "idle", scenarios' = scenarios, step' # "tag",
         step' = "idle" \/ (always' = store' /\ ever' = store')
  PROVE  Tagging'
<1>1. scenarios = <<>>
  BY DEF SInv, Settled, Asking
<1>2. DOMAIN scenarios' = {}
  BY <1>1, Empty
<1> QED
  BY <1>2 DEF Tagging

LEMMA TaggingStep == ASSUME Assumed, SInv, Covering, [Next]_vars PROVE Tagging'
<1> USE DEF Covering
<1>1. CASE GetFaultOriginTypes \/ GetPropagationTemplates \/ GetAlarmTypeVocabulary
           \/ ListObjectsByType \/ Traverse \/ Validate
  <2>1. UNCHANGED <<held, scenarios>> /\ step # "idle" /\ step' # "tag"
    BY <1>1 DEF GetFaultOriginTypes, GetPropagationTemplates, GetAlarmTypeVocabulary,
      ListObjectsByType, Traverse, Validate, Answered, world
  <2> QED
    BY <2>1, TaggingKept
<1>2. CASE Begin
  <2>1. step = "idle" /\ step' = "origins" /\ always' = store' /\ ever' = store' /\ scenarios' = scenarios
    BY <1>2 DEF Begin, Answered
  <2> QED
    BY <2>1, TaggingWaits
<1>3. CASE RequestFails \/ Pop \/ Emit \/ CutOver \/ Publish
  <2>1. /\ UNCHANGED <<held, scenarios>> /\ step # "idle"
        /\ step' # "tag" \/ (step' = step /\ UNCHANGED <<asked, tags, symptoms>>)
    BY <1>3 DEF RequestFails, InRequest, Requests, Pop, Emit, CutOver, Publish, Answered, world, walking,
      tagging
  <2> QED
    BY <2>1, TaggingKept
<1>4. CASE PersistBuild
  <2>1. /\ UNCHANGED <<step, scenarios, asked, tags, symptoms>>
        /\ always' = always \cap store' /\ ever' = ever \cup store'
    BY <1>4 DEF PersistBuild, walking, tagging
  <2>2. CASE step = "idle"
    BY <2>1, <2>2, TaggingWaits
  <2>3. CASE step # "idle"
    BY <2>1, <2>3, TaggingKept
  <2> QED
    BY <2>2, <2>3
<1>5. CASE UNCHANGED vars
  <2>1. UNCHANGED <<held, step, scenarios, asked, tags, symptoms>>
    BY <1>5 DEF vars, world, walking, tagging
  <2>2. CASE step = "idle"
    BY <2>1, <2>2, TaggingWaits
  <2>3. CASE step # "idle"
    BY <2>1, <2>3, TaggingKept
  <2> QED
    BY <2>2, <2>3
<1>6. CASE Propagated
  <2>1. asked' = {} /\ tags' = {} /\ UNCHANGED <<held, scenarios>> /\ step # "idle"
    BY <1>6 DEF Propagated, world
  <2> QED
    BY <2>1 DEF Tagging, Tagged, TrailsOf, ObjectsOf, held
<1>7. CASE GetTrailsForObject
  <2>1. PICK n \in DOMAIN symptoms :
          /\ asked' = asked \cup {symptoms[n].object}
          /\ tags' = tags \cup {t \in store : symptoms[n].object \in t.members}
    BY <1>7 DEF GetTrailsForObject, Untagged
  <2>2. step = "tag" /\ UNCHANGED <<held, scenarios, symptoms>>
    BY <1>7 DEF GetTrailsForObject, world, walking
  <2>3. always \subseteq store /\ store \subseteq ever /\ asked \subseteq ObjectsOf(symptoms)
        /\ Tagged(tags, asked)
    BY <2>2 DEF Tagging
  <2>4. asked' \subseteq ObjectsOf(symptoms)
    BY <2>1, <2>3 DEF ObjectsOf
  <2>5. TrailsOf(always, asked') \subseteq tags'
    BY <2>1, <2>3 DEF Tagged, TrailsOf
  <2>6. tags' \subseteq TrailsOf(ever, asked')
    BY <2>1, <2>3 DEF Tagged, TrailsOf
  <2> QED
    BY <2>2, <2>3, <2>4, <2>5, <2>6 DEF Tagging, Tagged, TrailsOf, ObjectsOf, held
<1>8. CASE AppendScenario
  <2>1. PICK x : /\ x.symptoms = symptoms /\ x.tags = tags
                 /\ scenarios' = Append(scenarios, x)
    BY <1>8 DEF AppendScenario
  <2>2. /\ step = "tag" /\ Untagged = {} /\ UNCHANGED held
        /\ step' # "tag"
    BY <1>8 DEF AppendScenario, Answered, world
  <2>3. asked = ObjectsOf(symptoms)
    BY <2>2 DEF Tagging, Untagged, ObjectsOf
  <2>4. IsSeq(x.symptoms) /\ Tagged(x.tags, ObjectsOf(x.symptoms))
    BY <2>1, <2>2, <2>3 DEF Tagging, SInv, Kinds
  <2>5. PICK t : t = scenarios'
    OBVIOUS
  <2>6. /\ Len(scenarios) \in Nat
        /\ DOMAIN scenarios = 1 .. Len(scenarios) /\ DOMAIN t = 1 .. Len(scenarios) + 1
        /\ \A i \in 1 .. Len(scenarios) : t[i] = scenarios[i]
        /\ t[Len(scenarios) + 1] = x
    BY <2>1, <2>5, Appended DEF SInv, Kinds
  <2>7. \A n \in DOMAIN t : (n \in DOMAIN scenarios /\ t[n] = scenarios[n]) \/ t[n] = x
    BY <2>6
  <2>8. \A n \in DOMAIN t :
          IsSeq(t[n].symptoms) /\ Tagged(t[n].tags, ObjectsOf(t[n].symptoms))
    BY <2>4, <2>7 DEF Tagging
  <2>9. \A n \in DOMAIN t :
          IsSeq(t[n].symptoms) /\ TrailsOf(always', ObjectsOf(t[n].symptoms)) \subseteq t[n].tags
          /\ t[n].tags \subseteq TrailsOf(ever', ObjectsOf(t[n].symptoms))
    BY <2>2, <2>8 DEF Tagged, held
  <2>10. always' \subseteq store' /\ store' \subseteq ever'
    BY <2>2 DEF Tagging, held
  <2> QED
    BY <2>2, <2>5, <2>9, <2>10 DEF Tagging, Tagged, TrailsOf, ObjectsOf
<1> QED
  BY <1>1, <1>2, <1>3, <1>4, <1>5, <1>6, <1>7, <1>8 DEF Next, Compile

LEMMA StoringStep == ASSUME Assumed, SInv, Covering, [Next]_vars PROVE Storing'
<1> USE DEF Covering
<1>1. CASE Validate
  <2>1. CASE step' = "rejected"
    BY <2>1 DEF Storing
  <2>2. CASE stored' = scenarios /\ \A n \in DOMAIN scenarios : Valid(scenarios[n])
    <3>1. /\ step = "list" /\ types = <<>> /\ nodes = <<>>
          /\ UNCHANGED <<snapshot, current, knowledge, scenarios>>
      BY <1>1 DEF Validate, world, Places
    <3>2. \A y : ~Holds(types, y) /\ ~Holds(nodes, y)
      BY <3>1, Empty DEF Holds
    <3>3. \A o \in Causes : HasScenario(o)
      BY <3>1, <3>2 DEF Listing
    <3> QED
      BY <2>2, <3>1, <3>3 DEF Storing, Causes, HasScenario, Valid
  <2> QED
    BY <1>1, <2>1, <2>2 DEF Validate, Answered
<1>2. CASE UNCHANGED vars
  BY <1>2 DEF vars, world, Storing, Causes, HasScenario, Valid
<1>3. CASE Begin \/ RequestFails \/ GetFaultOriginTypes \/ GetPropagationTemplates
           \/ GetAlarmTypeVocabulary \/ ListObjectsByType \/ Traverse \/ Pop \/ Emit \/ Propagated
           \/ GetTrailsForObject \/ AppendScenario \/ CutOver \/ Publish \/ PersistBuild
  <2>1. step' # "stored"
    BY <1>3 DEF Begin, RequestFails, GetFaultOriginTypes, GetPropagationTemplates,
      GetAlarmTypeVocabulary, ListObjectsByType, Traverse, Pop, Emit, Propagated,
      GetTrailsForObject, AppendScenario, CutOver, Publish, PersistBuild, Answered, Over, InRequest,
      Requests
  <2> QED
    BY <2>1 DEF Storing
<1> QED
  BY <1>1, <1>2, <1>3 DEF Next, Compile

LEMMA CoveringStep == ASSUME Assumed, SInv, Covering, [Next]_vars PROVE Covering'
BY ShapesStep, PlacesStep, ListingStep, TaggingStep, StoringStep DEF Covering

\* Before a compile has begun, trails come and go.
LEMMA CoveringWaits ==
  ASSUME SInv, Covering, step = "idle",
         UNCHANGED <<snapshot, current, version, step, knowledge, types, nodes, scenarios>>
  PROVE  Covering'
<1>1. scenarios = <<>>
  BY DEF SInv, Settled, Asking
<1>2. DOMAIN scenarios' = {}
  BY <1>1, Empty
<1>3. Tagging'
  BY TaggingWaits
<1> QED
  BY <1>2, <1>3 DEF Covering, Shapes, Places, Listing, Storing, Asking

\* The trails of a signature, and the token of its cause: the origin's own alarm
\* comes first.
LEMMA RootIsSeed ==
  ASSUME SInv, Covering, NEW n \in DOMAIN scenarios
  PROVE  /\ RootCause(scenarios[n]) = Seed(scenarios[n].origin).alarm
         /\ scenarios[n].origin \in ObjectsOf(scenarios[n].symptoms)
<1> DEFINE s == scenarios[n]
           From(seq, i) == /\ seq[i].object = s.origin
                           /\ \A k \in DOMAIN seq : seq[k].object = s.origin => i <= k
<1>1. PICK seq : seq = s.symptoms
  OBVIOUS
<1>2. seq # <<>> /\ seq[1] = Seed(s.origin)
  BY <1>1 DEF SInv, SignaturesAreCascades, IsCascade
<1>3. DOMAIN seq = 1 .. Len(seq) /\ Len(seq) \in Nat /\ Len(seq) # 0
  <2>1. PICK T : seq \in Seq(T)
    BY <1>1 DEF Covering, Tagging, IsSeq
  <2> QED
    BY <1>2, <2>1
<1>4. 1 \in DOMAIN seq /\ \A i \in DOMAIN seq : i \in Nat /\ 1 <= i
  BY <1>3
<1>5. seq[1].object = s.origin /\ seq[1].alarm = Seed(s.origin).alarm
  BY <1>2 DEF Seed, State
<1>6. \A i \in DOMAIN seq : From(seq, i) <=> i = 1
  <2>1. From(seq, 1)
    BY <1>4, <1>5
  <2>2. ASSUME NEW i \in DOMAIN seq, From(seq, i) PROVE i = 1
    <3>1. i <= 1
      BY <1>4, <1>5, <2>2
    <3> QED
      BY <1>4, <3>1
  <2> QED
    BY <2>1, <2>2
<1>7. (CHOOSE i \in DOMAIN seq : From(seq, i)) = 1
  <2> HIDE DEF From
  <2> QED
    BY <1>4, <1>6
<1>8. RootCause(s) = seq[CHOOSE i \in DOMAIN seq : From(seq, i)].alarm
  BY <1>1 DEF RootCause
<1>9. RootCause(s) = Seed(s.origin).alarm
  BY <1>5, <1>7, <1>8
<1>10. s.origin \in ObjectsOf(s.symptoms)
  BY <1>1, <1>4, <1>5 DEF ObjectsOf
<1> QED
  BY <1>9, <1>10

\* Where every cause is on a trail, what is stored has the signatures of all.
LEMMA Projected ==
  ASSUME SInv, Covering,
         \A o \in Causes : \E t \in announced : o \in t.members
  PROVE  CausesAreProjected
<1> SUFFICES ASSUME step = "stored", NEW k \in DOMAIN knowledge.origins,
                    NEW o \in snapshot.nodes \cap current.nodes,
                    Type[o] = knowledge.origins[k].type
             PROVE  \E n \in DOMAIN stored :
                      /\ stored[n].origin = o
                      /\ LET signatures == Project(stored[n])
                             tagged     == {p.trail : p \in signatures}
                             objects    == {stored[n].symptoms[i].object : i \in DOMAIN stored[n].symptoms}
                         IN /\ TrailsOf(always, objects) \subseteq tagged
                            /\ tagged \subseteq TrailsOf(ever, objects)
                            /\ announced \subseteq always =>
                                 \E t \in tagged \cap announced : o \in t.members
                            /\ \A p \in signatures :
                                 /\ p.rootCauseAlarmType = Seed(o).alarm
                                 /\ \A i \in DOMAIN p.expectedSymptoms :
                                      p.expectedSymptoms[i].alarm \in knowledge.vocabulary
  BY DEF CausesAreProjected
<1>1. o \in Causes
  BY DEF Causes
<1>2. stored = scenarios
  BY DEF Covering, Storing
<1>3. PICK n \in DOMAIN scenarios : scenarios[n].origin = o
  BY <1>1 DEF Covering, Storing, HasScenario
<1> DEFINE s == scenarios[n]
           objects == {s.symptoms[i].object : i \in DOMAIN s.symptoms}
<1>4. objects = ObjectsOf(s.symptoms)
  BY DEF ObjectsOf
<1>5. TrailsOf(always, objects) \subseteq s.tags /\ s.tags \subseteq TrailsOf(ever, objects)
  BY <1>4 DEF Covering, Tagging, Tagged
<1>6. Valid(s)
  BY DEF Covering, Storing
<1>7. RootCause(s) = Seed(o).alarm /\ o \in objects
  BY <1>3, <1>4, RootIsSeed
<1>8. PICK t \in announced : o \in t.members
  BY <1>1
<1>9. announced \subseteq always => t \in s.tags
  BY <1>5, <1>7, <1>8 DEF TrailsOf
<1> DEFINE Of(u) == [trail |-> u, rootCauseAlarmType |-> RootCause(s), expectedSymptoms |-> s.symptoms]
<1>10. Project(s) = {Of(u) : u \in s.tags}
  BY DEF Project
<1>11. \A u \in s.tags : Of(u).trail = u /\ Of(u).rootCauseAlarmType = RootCause(s)
                         /\ Of(u).expectedSymptoms = s.symptoms
  OBVIOUS
<1> HIDE DEF Of
<1>12. {p.trail : p \in Project(s)} = s.tags
  BY <1>10, <1>11
<1>13. announced \subseteq always => \E u \in s.tags \cap announced : o \in u.members
  BY <1>8, <1>9
<1>14. \A p \in Project(s) : /\ p.rootCauseAlarmType = Seed(o).alarm
                             /\ \A i \in DOMAIN p.expectedSymptoms :
                                  p.expectedSymptoms[i].alarm \in knowledge.vocabulary
  BY <1>6, <1>7, <1>10, <1>11 DEF Valid
<1> HIDE DEF s, objects
<1>15. /\ TrailsOf(always, objects) \subseteq {p.trail : p \in Project(s)}
       /\ {p.trail : p \in Project(s)} \subseteq TrailsOf(ever, objects)
       /\ announced \subseteq always =>
            \E u \in {p.trail : p \in Project(s)} \cap announced : o \in u.members
       /\ \A p \in Project(s) : /\ p.rootCauseAlarmType = Seed(o).alarm
                                /\ \A i \in DOMAIN p.expectedSymptoms :
                                     p.expectedSymptoms[i].alarm \in knowledge.vocabulary
  BY <1>5, <1>12, <1>13, <1>14
<1>16. n \in DOMAIN stored /\ stored[n] = s /\ stored[n].origin = o
  BY <1>2, <1>3 DEF s
<1> n \in DOMAIN stored
  BY <1>16
<1> WITNESS n \in DOMAIN stored
<1> QED
  BY <1>15, <1>16 DEF objects
=============================================================================
