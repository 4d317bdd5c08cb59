------------------------- MODULE FaultCascadeProofs -------------------------
(***************************************************************************)
(* Proofs about FaultCascade, for every graph, every set of templates and  *)
(* whatever scenarios are injected one after the other.                    *)
(*                                                                         *)
(* The invariant relates the alarms raised so far to the walk: the         *)
(* affected objects are those that were put in the frontier (Reach), an    *)
(* edge of an affected object has had its effects or is still to be looked *)
(* at (Complete), and no edge still to be looked at has had any (Fresh).   *)
(* The last two give, once the frontier is empty, each effect exactly      *)
(* once.                                                                   *)
(***************************************************************************)
EXTENDS FaultCascade, TLAPS

IsSeq(s)    == \E S : s \in Seq(S)
IsFun(f, n) == \E S : f \in [1..n -> S]

\* An edge's effects have been raised; or it is still to be looked at.
Raised(o, k) ==
  \A t \in DOMAIN Templates[Edges[o][k].relation] : \E n \in Children :
    /\ alarms[n].object = Edges[o][k].target
    /\ alarms[n].type = Templates[Edges[o][k].relation][t]
    /\ alarms[n].via = <<o, k, t>>
Pending(o, k) == \E j \in DOMAIN frontier : frontier[j] = o /\ (j = 1 => edge <= k)

Types ==
  /\ IsSeq(alarms) /\ root \in 0..Len(alarms)
  /\ frontier \in Seq(Objects) /\ edge \in Nat \ {0}
  /\ lastAt \in Int
Resting  == root = 0 => frontier = <<>>
Timed    == root # 0 => \A n \in root..Len(alarms) :
                          alarms[n].at \in Int /\ alarms[n].at <= lastAt
Reach    == root # 0 => Affected = emittedOn
OnceOnly == /\ \A j \in DOMAIN frontier : frontier[j] \in emittedOn
            /\ \A i, j \in DOMAIN frontier : frontier[i] = frontier[j] => i = j
Complete == root # 0 => \A o \in emittedOn : \A k \in DOMAIN Edges[o] :
                          Follows(Edges[o][k]) => Raised(o, k) \/ Pending(o, k)
Fresh    == root # 0 => \A n \in Children : \A j \in DOMAIN frontier :
                          alarms[n].via[1] = frontier[j] => j = 1 /\ alarms[n].via[2] < edge
Distinct == root # 0 => \A m, n \in Children : alarms[m].via = alarms[n].via => m = n
Vias     == root # 0 => \A n \in Children : alarms[n].via \in Objects \X (Nat \ {0}) \X (Nat \ {0})

CInv == Types /\ Resting /\ Timed /\ Reach /\ OnceOnly /\ Complete /\ Fresh /\ Distinct /\ Vias
        /\ CausesComeFirst
-----------------------------------------------------------------------------
LEMMA ElementIn == ASSUME NEW S, NEW s \in Seq(S), NEW i \in DOMAIN s PROVE s[i] \in S
OBVIOUS

\* A sequence followed by another one.
LEMMA Extended ==
  ASSUME NEW s, IsSeq(s), NEW n \in Nat, NEW f, IsFun(f, n)
  PROVE  /\ IsSeq(s \o f) /\ Len(s) \in Nat /\ Len(s \o f) = Len(s) + n
         /\ \A i \in 1..Len(s) : (s \o f)[i] = s[i]
         /\ \A i \in Len(s) + 1..Len(s) + n : (s \o f)[i] = f[i - Len(s)]
<1>1. PICK S, T : s \in Seq(T) /\ f \in [1..n -> S]
  BY DEF IsSeq, IsFun
<1> DEFINE U == S \cup T
<1>2. s \in Seq(U) /\ f \in Seq(U) /\ Len(f) = n
  BY <1>1
<1> HIDE DEF U
<1>3. s \o f \in Seq(U) /\ Len(s \o f) = Len(s) + n /\ Len(s) \in Nat
  BY <1>2
<1>4. \A i \in 1..Len(s) : (s \o f)[i] = s[i]
  BY <1>2
<1>5. \A i \in Len(s) + 1..Len(s) + n : (s \o f)[i] = f[i - Len(s)]
  BY <1>2
<1> QED
  BY <1>3, <1>4, <1>5 DEF IsSeq

LEMMA Appended ==
  ASSUME NEW s, IsSeq(s), NEW x
  PROVE  /\ IsSeq(Append(s, x)) /\ Len(s) \in Nat /\ Len(Append(s, x)) = Len(s) + 1
         /\ \A i \in 1..Len(s) : Append(s, x)[i] = s[i]
         /\ Append(s, x)[Len(s) + 1] = x
<1>1. PICK T : s \in Seq(T)
  BY DEF IsSeq
<1> DEFINE U == {x} \cup T
<1>2. s \in Seq(U) /\ x \in U
  BY <1>1
<1> HIDE DEF U
<1> QED
  BY <1>2 DEF IsSeq

LEMMA InitInv == CascadeInit => CInv
<1> SUFFICES ASSUME CascadeInit PROVE CInv
  OBVIOUS
<1>1. Types
  <2>1. <<>> \in Seq({})
    OBVIOUS
  <2> QED
    BY <2>1 DEF CascadeInit, Types, IsSeq
<1> QED
  BY <1>1 DEF CascadeInit, CInv, Resting, Timed, Reach, OnceOnly, Complete, Fresh, Distinct, Vias,
    CausesComeFirst

\* A new cascade: its root alone.
LEMMA InjectInv ==
  ASSUME CInv, NEW s, NEW relations, NEW o \in Objects, NEW type, NEW at \in Int,
         Inject(s, relations, o, type, at)
  PROVE  CInv'
<1> DEFINE a == Alarm(s, o, type, at, <<>>)
<1>0. a.object = o /\ a.at = at
  BY DEF Alarm
<1> HIDE DEF a
<1>1. /\ IsSeq(alarms') /\ Len(alarms) \in Nat /\ Len(alarms') = Len(alarms) + 1
      /\ alarms'[Len(alarms) + 1] = a
  BY Appended DEF Inject, a, CInv, Types
<1>2. root' = Len(alarms') /\ root' # 0 /\ root' \in Nat
  BY <1>1 DEF Inject
<1>3. frontier' = <<o>> /\ frontier' \in Seq(Objects) /\ DOMAIN frontier' = {1} /\ frontier'[1] = o
      /\ edge' = 1 /\ emittedOn' = {o} /\ lastAt' = at
  BY DEF Inject
<1>4. root'..Len(alarms') = {root'} /\ Children' = {}
  BY <1>1, <1>2 DEF Children
<1>5. alarms'[root'] = a
  BY <1>1, <1>2
<1>6. Types'
  BY <1>1, <1>2, <1>3 DEF Types
<1>7. Timed' /\ Reach'
  BY <1>0, <1>3, <1>4, <1>5 DEF Timed, Reach, Affected
<1>8. OnceOnly'
  BY <1>3 DEF OnceOnly
<1>9. Complete'
  <2>1. ASSUME NEW k \in DOMAIN Edges[o]
        PROVE  Pending(o, k)'
    <3>1. k \in Nat /\ 1 <= k
      BY GraphAssumption
    <3> QED
      BY <1>3, <3>1 DEF Pending
  <2> QED
    BY <1>3, <2>1 DEF Complete
<1> QED
  BY <1>2, <1>4, <1>6, <1>7, <1>8, <1>9
  DEF CInv, Resting, Fresh, Distinct, Vias, CausesComeFirst

\* The edge in turn is looked at without effect.
LEMMA PassEdgeInv == ASSUME CInv, PassEdge PROVE CInv'
<1> USE DEF PassEdge
<1>1. Types' /\ Resting' /\ Timed' /\ OnceOnly'
  BY DEF CInv, Types, Resting, Timed, OnceOnly
<1>2. Reach' /\ Distinct' /\ Vias' /\ CausesComeFirst'
  BY DEF CInv, Reach, Affected, Distinct, Vias, CausesComeFirst, Children
<1>3. Fresh'
  <2>1. edge \in Nat
    BY DEF CInv, Types
  <2>2. ASSUME root # 0, NEW n \in Children, NEW j \in DOMAIN frontier,
               alarms[n].via[1] = frontier[j]
        PROVE  j = 1 /\ alarms[n].via[2] < edge + 1
    <3>1. alarms[n].via[2] \in Nat
      BY <2>2 DEF CInv, Vias
    <3> QED
      BY <2>1, <2>2, <3>1 DEF CInv, Fresh
  <2> QED
    BY <2>2 DEF Fresh, Children
<1>4. Complete'
  <2> SUFFICES ASSUME root # 0, NEW o \in emittedOn, NEW k \in DOMAIN Edges[o],
                      Follows(Edges[o][k])'
               PROVE  Raised(o, k)' \/ Pending(o, k)'
    BY DEF Complete
  <2>1. Follows(Edges[o][k])
    BY DEF Follows
  <2>2. CASE Raised(o, k)
    BY <2>2 DEF Raised, Children
  <2>3. CASE Pending(o, k)
    <3>1. PICK j \in DOMAIN frontier : frontier[j] = o /\ (j = 1 => edge <= k)
      BY <2>3 DEF Pending
    <3>2. frontier \in Seq(Objects) /\ edge \in Nat /\ o \in Objects
      BY <3>1 DEF CInv, Types
    <3>3. k \in Nat
      BY <3>2, GraphAssumption
    <3>4. j = 1 => k # edge
      BY <2>1, <3>1, <3>2 DEF Turn, HasTurn
    <3> QED
      BY <3>1, <3>2, <3>3, <3>4 DEF Pending
  <2> QED
    BY <2>1, <2>2, <2>3 DEF CInv, Complete
<1> QED
  BY <1>1, <1>2, <1>3, <1>4 DEF CInv

\* All edges of the first object have been looked at.
LEMMA NextObjectInv == ASSUME CInv, NextObject PROVE CInv'
<1> USE DEF NextObject
<1>1. /\ frontier \in Seq(Objects) /\ frontier # <<>> /\ edge \in Nat \ {0}
      /\ frontier' \in Seq(Objects) /\ Len(frontier') = Len(frontier) - 1
      /\ \A j \in DOMAIN frontier' : j + 1 \in DOMAIN frontier /\ frontier'[j] = frontier[j + 1]
      /\ \A j \in DOMAIN frontier : j # 1 => j - 1 \in DOMAIN frontier' /\ frontier'[j - 1] = frontier[j]
      /\ \A j \in DOMAIN frontier' : j \in Nat \ {0}
      /\ DOMAIN frontier = 1..Len(frontier)
  BY DEF CInv, Types
<1>2. Types' /\ Resting' /\ Timed'
  BY <1>1 DEF CInv, Types, Resting, Timed
<1>3. Reach' /\ Distinct' /\ Vias' /\ CausesComeFirst'
  BY DEF CInv, Reach, Affected, Distinct, Vias, CausesComeFirst, Children
<1>4. OnceOnly'
  <2>1. ASSUME NEW i \in DOMAIN frontier', NEW j \in DOMAIN frontier', frontier'[i] = frontier'[j]
        PROVE  i = j
    <3>1. i + 1 = j + 1
      BY <1>1, <2>1 DEF CInv, OnceOnly
    <3> QED
      BY <1>1, <3>1
  <2> QED
    BY <1>1, <2>1 DEF CInv, OnceOnly
<1>5. Fresh'
  <2>1. ASSUME root # 0, NEW n \in Children, NEW j \in DOMAIN frontier',
               alarms[n].via[1] = frontier'[j]
        PROVE  FALSE
    <3>1. j + 1 = 1
      BY <1>1, <2>1 DEF CInv, Fresh
    <3> QED
      BY <1>1, <3>1
  <2> QED
    BY <2>1 DEF Fresh, Children
<1>6. Complete'
  <2> SUFFICES ASSUME root # 0, NEW o \in emittedOn, NEW k \in DOMAIN Edges[o],
                      Follows(Edges[o][k])'
               PROVE  Raised(o, k)' \/ Pending(o, k)'
    BY DEF Complete
  <2>1. Follows(Edges[o][k])
    BY DEF Follows
  <2>2. CASE Raised(o, k)
    BY <2>2 DEF Raised, Children
  <2>3. CASE Pending(o, k)
    <3>1. PICK j \in DOMAIN frontier : frontier[j] = o /\ (j = 1 => edge <= k)
      BY <2>3 DEF Pending
    <3>2. o \in Objects
      BY <1>1, <3>1
    <3>3. DOMAIN Edges[o] = 1..Len(Edges[o]) /\ Len(Edges[o]) \in Nat
      BY <3>2, GraphAssumption
    <3>4. j # 1
      <4>1. ASSUME j = 1 PROVE FALSE
        <5>1. Head(frontier) = o
          BY <1>1, <3>1, <4>1
        <5>2. edge \in DOMAIN Edges[o]
          BY <1>1, <3>1, <3>3, <4>1
        <5> QED
          BY <1>1, <5>1, <5>2 DEF HasTurn
      <4> QED
        BY <4>1
    <3>5. j - 1 \in DOMAIN frontier' /\ frontier'[j - 1] = o
      BY <1>1, <3>1, <3>4
    <3>6. 1 <= k
      BY <3>3
    <3> QED
      BY <3>5, <3>6 DEF Pending
  <2> QED
    BY <2>1, <2>2, <2>3 DEF CInv, Complete
<1> QED
  BY <1>2, <1>3, <1>4, <1>5, <1>6 DEF CInv

LEMMA Multiples ==
  ASSUME NEW d \in Nat, NEW m \in Nat, NEW t \in 0..m
  PROVE  t * d \in Nat /\ t * d <= m * d
<1>1. t * d \in Nat /\ (m - t) * d \in Nat
  OBVIOUS
<1>2. m * d = t * d + (m - t) * d
  OBVIOUS
<1>3. m * d \in Nat
  OBVIOUS
<1> QED
  BY <1>1, <1>2, <1>3

\* A child's origin, and how long after its parent it is raised.
Mark(o, k, t) == <<o, k, t>>
Shift(t, d)   == t * d

LEMMA MarkParts ==
  ASSUME NEW o, NEW k, NEW t
  PROVE  Mark(o, k, t)[1] = o /\ Mark(o, k, t)[2] = k /\ Mark(o, k, t)[3] = t
BY DEF Mark

LEMMA MarkType ==
  ASSUME NEW o \in Objects, NEW k \in Nat \ {0}, NEW t \in Nat \ {0}
  PROVE  Mark(o, k, t) \in Objects \X (Nat \ {0}) \X (Nat \ {0})
BY DEF Mark

\* What FollowEdge does, in terms of the first object h, its edge k, the delay
\* d and the effects T of the edge's relation.
LEMMA Followed ==
  ASSUME CInv, NEW draws \in SUBSET Int, FollowEdge(draws)
  PROVE  \E h \in Objects, k \in Nat \ {0}, d \in Nat, T \in Seq(AlarmTypes) :
           /\ h = frontier[1] /\ frontier # <<>> /\ k = edge /\ k \in DOMAIN Edges[h]
           /\ Edges[h][k].target \in Objects
           /\ T = Templates[Edges[h][k].relation] /\ DOMAIN T = 1..Len(T)
           /\ IsSeq(alarms') /\ Len(alarms) \in Nat /\ Len(alarms') = Len(alarms) + Len(T)
           /\ \A n \in 1..Len(alarms) : alarms'[n] = alarms[n]
           /\ \A n \in Len(alarms) + 1..Len(alarms) + Len(T) :
                /\ alarms'[n].object = Edges[h][k].target
                /\ alarms'[n].type = T[n - Len(alarms)]
                /\ alarms'[n].at = lastAt + Shift(n - Len(alarms), d)
                /\ alarms'[n].via = Mark(h, k, n - Len(alarms))
           /\ lastAt' = lastAt + Shift(Len(T), d)
           /\ Len(T) # 0
<1>1. PICK j \in draws : /\ alarms' = alarms \o Effects(Turn, Delay(j))
                         /\ lastAt' = lastAt + Len(Templates[Turn.relation]) * Delay(j)
  BY DEF FollowEdge
<1>2. PICK d : d = Delay(j)
  OBVIOUS
<1>3. d \in Nat
  BY <1>2, DelayAssumption DEF Delay
<1>4. PICK h, k : h = Head(frontier) /\ k = edge
  OBVIOUS
<1>5. frontier # <<>> /\ k \in DOMAIN Edges[h] /\ k \in Nat \ {0} /\ Turn = Edges[h][k]
  BY <1>4 DEF FollowEdge, HasTurn, Turn, CInv, Types
<1>6. h = frontier[1] /\ h \in Objects
  BY <1>4, <1>5 DEF CInv, Types
<1>7. Turn.relation \in Relations /\ Turn.target \in Objects
  <2>1. PICK s : s = Edges[h]
    OBVIOUS
  <2>2. s \in Seq([relation : Relations, target : Objects])
    BY <1>6, <2>1, GraphAssumption
  <2>3. Turn = s[k] /\ k \in DOMAIN s
    BY <1>5, <2>1
  <2>4. s[k] \in [relation : Relations, target : Objects]
    BY <2>2, <2>3, ElementIn
  <2> QED
    BY <2>3, <2>4
<1>8. PICK T : T = Templates[Turn.relation]
  OBVIOUS
<1>9. T \in Seq(AlarmTypes) /\ DOMAIN T = 1..Len(T) /\ Len(T) \in Nat /\ T # <<>> /\ Len(T) # 0
  <2>1. T # <<>>
    BY <1>8 DEF FollowEdge, Follows
  <2> QED
    BY <1>7, <1>8, <2>1, TemplatesAssumption
<1>10. PICK f : f = Effects(Turn, d)
  OBVIOUS
<1>11. \A t \in 1..Len(T) :
         /\ f[t].object = Turn.target /\ f[t].type = T[t] /\ f[t].at = lastAt + Shift(t, d)
         /\ f[t].via = Mark(h, k, t)
  BY <1>4, <1>8, <1>9, <1>10 DEF Effects, Alarm, Mark, Shift
<1>12. IsFun(f, Len(T))
  <2>1. f \in [1..Len(T) -> {f[t] : t \in 1..Len(T)}]
    BY <1>8, <1>9, <1>10 DEF Effects
  <2> QED
    BY <2>1 DEF IsFun
<1>13. /\ IsSeq(alarms') /\ Len(alarms) \in Nat /\ Len(alarms') = Len(alarms) + Len(T)
       /\ \A n \in 1..Len(alarms) : alarms'[n] = alarms[n]
       /\ \A n \in Len(alarms) + 1..Len(alarms) + Len(T) : alarms'[n] = f[n - Len(alarms)]
  <2>1. IsSeq(alarms) /\ alarms' = alarms \o f
    BY <1>1, <1>2, <1>10 DEF CInv, Types
  <2>2. PICK n, a : n = Len(T) /\ a = alarms
    OBVIOUS
  <2>3. n \in Nat /\ IsSeq(a) /\ IsFun(f, n) /\ alarms' = a \o f
    BY <1>9, <1>12, <2>1, <2>2
  <2>4. /\ IsSeq(a \o f) /\ Len(a) \in Nat /\ Len(a \o f) = Len(a) + n
        /\ \A i \in 1..Len(a) : (a \o f)[i] = a[i]
        /\ \A i \in Len(a) + 1..Len(a) + n : (a \o f)[i] = f[i - Len(a)]
    BY <2>3, Extended
  <2> QED
    BY <2>2, <2>3, <2>4
<1>14. \A n \in Len(alarms) + 1..Len(alarms) + Len(T) :
         /\ alarms'[n].object = Edges[h][k].target
         /\ alarms'[n].type = T[n - Len(alarms)]
         /\ alarms'[n].at = lastAt + Shift(n - Len(alarms), d)
         /\ alarms'[n].via = Mark(h, k, n - Len(alarms))
  <2> SUFFICES ASSUME NEW n \in Len(alarms) + 1..Len(alarms) + Len(T)
               PROVE  /\ alarms'[n].object = Edges[h][k].target
                      /\ alarms'[n].type = T[n - Len(alarms)]
                      /\ alarms'[n].at = lastAt + Shift(n - Len(alarms), d)
                      /\ alarms'[n].via = Mark(h, k, n - Len(alarms))
    OBVIOUS
  <2>1. PICK t : t = n - Len(alarms)
    OBVIOUS
  <2>2. t \in 1..Len(T) /\ alarms'[n] = f[t]
    BY <1>9, <1>13, <2>1
  <2> QED
    BY <1>5, <1>11, <2>1, <2>2
<1>15. lastAt' = lastAt + Shift(Len(T), d) /\ T = Templates[Edges[h][k].relation]
       /\ Edges[h][k].target \in Objects
  BY <1>1, <1>2, <1>5, <1>7, <1>8 DEF Shift
<1> QED
  BY <1>3, <1>4, <1>5, <1>6, <1>9, <1>13, <1>14, <1>15

LEMMA FollowEdgeInv ==
  ASSUME CInv, NEW draws \in SUBSET Int, FollowEdge(draws)
  PROVE  CInv'
<1>1. PICK h \in Objects, k \in Nat \ {0}, d \in Nat, T \in Seq(AlarmTypes) :
           /\ h = frontier[1] /\ frontier # <<>> /\ k = edge /\ k \in DOMAIN Edges[h]
           /\ Edges[h][k].target \in Objects
           /\ T = Templates[Edges[h][k].relation] /\ DOMAIN T = 1..Len(T)
           /\ IsSeq(alarms') /\ Len(alarms) \in Nat /\ Len(alarms') = Len(alarms) + Len(T)
           /\ \A n \in 1..Len(alarms) : alarms'[n] = alarms[n]
           /\ \A n \in Len(alarms) + 1..Len(alarms) + Len(T) :
                /\ alarms'[n].object = Edges[h][k].target
                /\ alarms'[n].type = T[n - Len(alarms)]
                /\ alarms'[n].at = lastAt + Shift(n - Len(alarms), d)
                /\ alarms'[n].via = Mark(h, k, n - Len(alarms))
           /\ lastAt' = lastAt + Shift(Len(T), d)
           /\ Len(T) # 0
  BY Followed
<1>22. h = frontier[1] /\ frontier # <<>> /\ k = edge /\ k \in DOMAIN Edges[h]
  BY <1>1
<1>23. T = Templates[Edges[h][k].relation] /\ DOMAIN T = 1..Len(T) /\ Len(T) # 0
  BY <1>1
<1>24. root \in 0..Len(alarms) /\ lastAt \in Int /\ frontier \in Seq(Objects)
  BY DEF CInv, Types
<1>25. root # 0 /\ Turn = Edges[h][k]
  <2>1. Head(frontier) = h
    BY <1>22, <1>24
  <2>2. Turn = Edges[h][k]
    BY <1>22, <2>1 DEF Turn
  <2> QED
    BY <1>22, <2>2 DEF CInv, Resting
<1>26. Len(alarms) \in Nat /\ Edges[h][k].target \in Objects /\ Len(T) \in Nat \ {0}
  BY <1>1, <1>23
<1>2. PICK N \in Nat, L \in Nat \ {0}, g \in Objects, r \in Nat, last \in Int :
         N = Len(alarms) /\ L = Len(T) /\ g = Edges[h][k].target /\ r = root /\ last = lastAt
  <2>1. PICK N \in Nat, L \in Nat \ {0} : N = Len(alarms) /\ L = Len(T)
    BY <1>26
  <2>2. PICK g \in Objects : g = Edges[h][k].target
    BY <1>26
  <2>3. PICK r \in Nat, last \in Int : r = root /\ last = lastAt
    BY <1>24, <1>26
  <2> QED
    BY <2>1, <2>2, <2>3
<1>27. lastAt' = last + Shift(L, d) /\ IsSeq(alarms')
  BY <1>1, <1>2
<1>3. root # 0 /\ r \in 1..N /\ root' = r /\ edge' = k + 1 /\ emittedOn' = emittedOn \cup {g}
      /\ allowed' = allowed
  <2>1. root' = root /\ edge' = edge + 1 /\ emittedOn' = emittedOn \cup {Turn.target} /\ allowed' = allowed
    BY DEF FollowEdge
  <2> QED
    BY <1>2, <1>22, <1>24, <1>25, <2>1
<1>4. /\ Len(alarms) = N /\ Len(alarms') = N + L
      /\ \A n \in 1..N : alarms'[n] = alarms[n]
      /\ \A n \in N + 1..N + L : /\ alarms'[n].object = g /\ alarms'[n].type = T[n - N]
                                 /\ alarms'[n].at = last + Shift(n - N, d)
                                 /\ alarms'[n].via = Mark(h, k, n - N)
  BY <1>1, <1>2
<1>5. /\ \A n \in r..N + L : n \in r..N \/ n \in N + 1..N + L
      /\ \A n \in r + 1..N + L : n \in r + 1..N \/ n \in N + 1..N + L
  BY <1>2, <1>3
<1>6. \A n \in N + 1..N + L : n \in r + 1..N + L /\ n - N \in 1..L /\ n - N \in Nat \ {0} /\ n \in r..N + L
  BY <1>2, <1>3
<1>7. r..N \subseteq 1..N /\ r + 1..N \subseteq r..N + L /\ r + 1..N \subseteq 1..N /\ r..N \subseteq r..N + L
  BY <1>2, <1>3
<1>8. /\ frontier \in Seq(Objects) /\ frontier' \in Seq(Objects)
      /\ DOMAIN frontier \subseteq DOMAIN frontier'
      /\ \A j \in DOMAIN frontier : frontier'[j] = frontier[j]
      /\ g \in emittedOn => frontier' = frontier
      /\ g \notin emittedOn =>
           \A j \in DOMAIN frontier' : j \in DOMAIN frontier \/ (frontier'[j] = g /\ j = Len(frontier) + 1)
      /\ g \notin emittedOn => Len(frontier) + 1 \in DOMAIN frontier' /\ frontier'[Len(frontier) + 1] = g
      /\ Len(frontier) \in Nat \ {0} /\ DOMAIN frontier = 1..Len(frontier)
  <2>1. frontier \in Seq(Objects) /\ frontier # <<>>
    BY <1>22, <1>24
  <2>2. frontier' = IF g \in emittedOn THEN frontier ELSE Append(frontier, g)
    BY <1>2, <1>25 DEF FollowEdge, Reached
  <2> QED
    BY <2>1, <2>2
<1>9. Children = r + 1..N /\ Children' = r + 1..N + L
  BY <1>2, <1>3, <1>4 DEF Children
<1>10. Types' /\ Resting'
  <2>1. Shift(L, d) \in Nat
    BY DEF Shift
  <2>2. lastAt' \in Int
    BY <1>27, <2>1
  <2> QED
    BY <1>2, <1>3, <1>4, <1>8, <1>27, <2>2 DEF Types, Resting
<1>11. Shift(L, d) \in Nat /\ \A t \in 1..L : Shift(t, d) \in Nat /\ Shift(t, d) <= Shift(L, d)
  <2>1. ASSUME NEW t \in 0..L PROVE Shift(t, d) \in Nat /\ Shift(t, d) <= Shift(L, d)
    BY Multiples DEF Shift
  <2> QED
    BY <2>1
<1>12. Timed'
  <2>1. lastAt' = last + Shift(L, d) /\ Shift(L, d) \in Nat
    BY <1>11, <1>27
  <2>2. ASSUME NEW n \in r..N PROVE alarms'[n].at \in Int /\ alarms'[n].at <= lastAt'
    <3>1. alarms[n].at \in Int /\ alarms[n].at <= last /\ alarms'[n] = alarms[n]
      BY <1>2, <1>3, <1>4, <1>7 DEF CInv, Timed
    <3> QED
      BY <2>1, <3>1
  <2>3. ASSUME NEW n \in N + 1..N + L PROVE alarms'[n].at \in Int /\ alarms'[n].at <= lastAt'
    <3>1. alarms'[n].at = last + Shift(n - N, d)
      BY <1>4
    <3>2. Shift(n - N, d) \in Nat /\ Shift(n - N, d) <= Shift(L, d)
      BY <1>6, <1>11
    <3> QED
      BY <2>1, <3>1, <3>2
  <2>4. ASSUME NEW n \in r..N + L PROVE alarms'[n].at \in Int /\ alarms'[n].at <= lastAt'
    BY <1>5, <2>2, <2>3
  <2> QED
    BY <1>3, <1>4, <2>4 DEF Timed
<1>13. Reach'
  <2>1. Affected = {alarms[n].object : n \in r..N}
    BY <1>2 DEF Affected
  <2>2. Affected' = {alarms'[n].object : n \in r..N + L}
    BY <1>3, <1>4 DEF Affected
  <2>3. Affected = emittedOn
    BY <1>3 DEF CInv, Reach
  <2>4. N + 1 \in r..N + L /\ alarms'[N + 1].object = g
    BY <1>3, <1>4
  <2>5. \A n \in r..N : n \in r..N + L /\ alarms'[n].object = alarms[n].object
    BY <1>4, <1>7
  <2>6. \A n \in r..N + L : n \in r..N \/ alarms'[n].object = g
    BY <1>4, <1>5
  <2>7. Affected' = Affected \cup {g}
    BY <2>1, <2>2, <2>4, <2>5, <2>6
  <2> QED
    BY <1>3, <2>3, <2>7 DEF Reach
<1>14. OnceOnly'
  BY <1>3, <1>8 DEF CInv, OnceOnly
<1>15. Vias'
  <2>1. ASSUME NEW n \in r + 1..N + L
        PROVE  alarms'[n].via \in Objects \X (Nat \ {0}) \X (Nat \ {0})
    <3>1. CASE n \in r + 1..N
      BY <1>3, <1>4, <1>7, <1>9, <3>1 DEF CInv, Vias
    <3>2. CASE n \in N + 1..N + L
      <4>1. alarms'[n].via = Mark(h, k, n - N) /\ n - N \in Nat \ {0}
        BY <1>4, <1>6, <3>2
      <4> QED
        BY <4>1, MarkType
    <3> QED
      BY <1>5, <3>1, <3>2
  <2> QED
    BY <1>9, <2>1 DEF Vias
<1>16. \A n \in r + 1..N : alarms'[n] = alarms[n] /\ n \in Children /\
         \A j \in DOMAIN frontier : alarms[n].via[1] = frontier[j] =>
           j = 1 /\ alarms[n].via[2] \in Nat /\ alarms[n].via[2] < k
  <2> SUFFICES ASSUME NEW n \in r + 1..N
               PROVE  /\ alarms'[n] = alarms[n] /\ n \in Children
                      /\ \A j \in DOMAIN frontier : alarms[n].via[1] = frontier[j] =>
                           j = 1 /\ alarms[n].via[2] \in Nat /\ alarms[n].via[2] < k
    OBVIOUS
  <2>1. alarms'[n] = alarms[n] /\ n \in Children
    BY <1>4, <1>7, <1>9
  <2>2. alarms[n].via \in Objects \X (Nat \ {0}) \X (Nat \ {0})
    BY <1>3, <2>1 DEF CInv, Vias
  <2>3. alarms[n].via[2] \in Nat
    BY <2>2
  <2>4. \A j \in DOMAIN frontier : alarms[n].via[1] = frontier[j] => j = 1 /\ alarms[n].via[2] < k
    BY <1>3, <1>22, <2>1 DEF CInv, Fresh
  <2> QED
    BY <2>1, <2>3, <2>4
<1>18. Fresh'
  <2>1. ASSUME NEW n \in r + 1..N + L, NEW j \in DOMAIN frontier', alarms'[n].via[1] = frontier'[j]
        PROVE  j = 1 /\ alarms'[n].via[2] < k + 1
    <3>1. CASE n \in r + 1..N
      <4>1. j \in DOMAIN frontier
        <5>1. ASSUME j \notin DOMAIN frontier PROVE FALSE
          <6>1. g \notin emittedOn /\ alarms[n].via[1] = g
            BY <1>8, <1>16, <2>1, <3>1, <5>1
          <6>2. alarms[n].via[1] \in emittedOn
            <7>1. PICK m \in r..n - 1 : alarms[m].object = alarms[n].via[1]
              BY <1>2, <1>3, <1>16, <3>1 DEF CInv, CausesComeFirst
            <7>2. m \in root..Len(alarms)
              BY <1>2, <3>1, <7>1
            <7>3. Affected = emittedOn
              BY <1>3 DEF CInv, Reach
            <7> QED
              BY <7>1, <7>2, <7>3 DEF Affected
          <6> QED
            BY <6>1, <6>2
        <5> QED
          BY <5>1
      <4> QED
        BY <1>8, <1>16, <2>1, <3>1, <4>1
    <3>2. CASE n \in N + 1..N + L
      <4>2. alarms'[n].via = Mark(h, k, n - N)
        BY <1>4, <3>2
      <4>3. alarms'[n].via[1] = h /\ alarms'[n].via[2] = k
        BY <4>2, MarkParts
      <4>4. 1 \in DOMAIN frontier' /\ frontier'[1] = h
        BY <1>8, <1>22
      <4>5. j = 1
        BY <1>14, <2>1, <4>3, <4>4 DEF OnceOnly
      <4> QED
        BY <4>3, <4>5
    <3> QED
      BY <1>5, <3>1, <3>2
  <2> QED
    BY <1>3, <1>9, <2>1 DEF Fresh
<1>19. Distinct'
  <2>1. \A n \in N + 1..N + L :
          alarms'[n].via[1] = h /\ alarms'[n].via[2] = k /\ alarms'[n].via[3] = n - N
    BY <1>4, MarkParts
  <2>2. \A m \in r + 1..N : \A n \in N + 1..N + L : alarms'[m].via # alarms'[n].via
    <3>1. ASSUME NEW m \in r + 1..N, NEW n \in N + 1..N + L, alarms'[m].via = alarms'[n].via
          PROVE  FALSE
      <4>1. alarms[m].via[1] = h /\ alarms[m].via[2] = k
        BY <1>16, <2>1, <3>1
      <4>2. 1 \in DOMAIN frontier /\ frontier[1] = h
        BY <1>8, <1>22
      <4> QED
        BY <1>16, <4>1, <4>2
    <3> QED
      BY <3>1
  <2>3. \A m, n \in r + 1..N : alarms'[m].via = alarms'[n].via => m = n
    BY <1>3, <1>16 DEF CInv, Distinct
  <2>4. \A m, n \in N + 1..N + L : alarms'[m].via = alarms'[n].via => m = n
    <3> SUFFICES ASSUME NEW m \in N + 1..N + L, NEW n \in N + 1..N + L,
                        alarms'[m].via = alarms'[n].via
                 PROVE  m = n
      OBVIOUS
    <3>1. m - N = n - N
      BY <2>1
    <3> QED
      BY <3>1
  <2>5. \A m, n \in r + 1..N + L : alarms'[m].via = alarms'[n].via => m = n
    BY <1>5, <2>2, <2>3, <2>4
  <2> QED
    BY <1>9, <2>5 DEF Distinct
<1>20. Complete'
  <2> SUFFICES ASSUME NEW o \in emittedOn', NEW i \in DOMAIN Edges[o], Follows(Edges[o][i])'
               PROVE  Raised(o, i)' \/ Pending(o, i)'
    BY DEF Complete
  <2>1. Follows(Edges[o][i])
    BY <1>3 DEF Follows
  <2>2. CASE o = h /\ i = k
    <3>1. ASSUME NEW t \in DOMAIN Templates[Edges[o][i].relation]
          PROVE  \E n \in Children' : /\ alarms'[n].object = Edges[o][i].target
                                      /\ alarms'[n].type = Templates[Edges[o][i].relation][t]
                                      /\ alarms'[n].via = <<o, i, t>>
      <4>1. t \in 1..L
        BY <1>2, <1>23, <2>2, <3>1
      <4>3. PICK n : n = N + t
        OBVIOUS
      <4>4. n \in N + 1..N + L /\ n - N = t
        BY <4>1, <4>3
      <4>5. n \in Children' /\ alarms'[n].via = Mark(h, k, t) /\ alarms'[n].object = g
            /\ alarms'[n].type = T[t]
        BY <1>4, <1>6, <1>9, <4>4
      <4>2. n \in Children' /\ alarms'[n].via = <<h, k, t>> /\ alarms'[n].object = g
            /\ alarms'[n].type = T[t]
        BY <4>5 DEF Mark
      <4> QED
        BY <1>2, <1>23, <2>2, <4>2
    <3> QED
      BY <3>1 DEF Raised
  <2>3. CASE o \in emittedOn /\ ~(o = h /\ i = k)
    <3>1. CASE Raised(o, i)
      <4>1. ASSUME NEW t \in DOMAIN Templates[Edges[o][i].relation]
            PROVE  \E n \in Children' : /\ alarms'[n].object = Edges[o][i].target
                                        /\ alarms'[n].type = Templates[Edges[o][i].relation][t]
                                        /\ alarms'[n].via = <<o, i, t>>
        <5>1. PICK n \in r + 1..N : /\ alarms[n].object = Edges[o][i].target
                                    /\ alarms[n].type = Templates[Edges[o][i].relation][t]
                                    /\ alarms[n].via = <<o, i, t>>
          BY <1>9, <3>1, <4>1 DEF Raised
        <5> QED
          BY <1>9, <1>16, <1>2, <5>1
      <4> QED
        BY <4>1 DEF Raised
    <3>2. CASE Pending(o, i)
      <4>1. PICK j \in DOMAIN frontier : frontier[j] = o /\ (j = 1 => edge <= i)
        BY <3>2 DEF Pending
      <4>2. j \in DOMAIN frontier' /\ frontier'[j] = o
        BY <1>8, <4>1
      <4>3. o \in Objects
        BY <1>8, <4>1
      <4>4. i \in Nat
        BY <4>3, GraphAssumption
      <4>5. j = 1 => k + 1 <= i
        BY <1>22, <2>3, <4>1, <4>4
      <4> QED
        BY <1>3, <4>2, <4>5 DEF Pending
    <3> QED
      BY <1>3, <2>1, <2>3, <3>1, <3>2 DEF CInv, Complete
  <2>4. CASE o \notin emittedOn
    <3>1. o = g
      BY <1>3, <2>4
    <3>2. i \in Nat /\ 1 <= i
      BY <3>1, GraphAssumption
    <3>3. Len(frontier) + 1 \in DOMAIN frontier' /\ frontier'[Len(frontier) + 1] = o
          /\ Len(frontier) + 1 # 1
      BY <1>8, <2>4, <3>1
    <3> QED
      BY <3>3 DEF Pending
  <2> QED
    BY <2>2, <2>3, <2>4
<1>21. CausesComeFirst'
  <2>1. ASSUME NEW n \in r + 1..N + L
        PROVE  \E m \in r..n - 1 : alarms'[m].object = alarms'[n].via[1] /\ alarms'[m].at <= alarms'[n].at
    <3>1. CASE n \in r + 1..N
      <4>1. PICK m \in r..n - 1 : alarms[m].object = alarms[n].via[1] /\ alarms[m].at <= alarms[n].at
        BY <1>2, <1>3, <1>16, <3>1 DEF CInv, CausesComeFirst
      <4>2. m \in 1..N
        BY <1>3, <3>1, <4>1
      <4> QED
        BY <1>4, <1>16, <3>1, <4>1, <4>2
    <3>2. CASE n \in N + 1..N + L
      <4>1. n \in Int /\ N < n
        BY <3>2
      <4>2. alarms'[n].via = Mark(h, k, n - N) /\ alarms'[n].at = last + Shift(n - N, d)
            /\ Shift(n - N, d) \in Nat
        BY <1>4, <1>6, <1>11, <3>2
      <4>7. alarms'[n].via[1] = h
        BY <4>2, MarkParts
      <4>8. 1 \in DOMAIN frontier
        BY <1>8
      <4>3. h \in emittedOn
        BY <1>22, <4>8 DEF CInv, OnceOnly
      <4>9. h \in Affected
        BY <1>3, <4>3 DEF CInv, Reach
      <4>4. PICK m \in r..N : alarms[m].object = h
        BY <1>2, <4>9 DEF Affected
      <4>5. alarms[m].at \in Int /\ alarms[m].at <= last
        BY <1>2, <1>3 DEF CInv, Timed
      <4>6. alarms'[m] = alarms[m] /\ m \in r..n - 1
        BY <1>4, <1>7, <4>1
      <4>10. alarms'[m].at <= alarms'[n].at
        BY <4>2, <4>5, <4>6
      <4> QED
        BY <4>4, <4>6, <4>7, <4>10
    <3> QED
      BY <1>5, <3>1, <3>2
  <2> QED
    BY <1>3, <1>9, <2>1 DEF CausesComeFirst
<1> QED
  BY <1>10, <1>12, <1>13, <1>14, <1>15, <1>18, <1>19, <1>20, <1>21 DEF CInv
-----------------------------------------------------------------------------
\* The walk keeps the invariant, whatever jitter is drawn.
LEMMA PropagateInv ==
  ASSUME CInv, NEW draws \in SUBSET Int, Propagate(draws)
  PROVE  CInv'
BY FollowEdgeInv, PassEdgeInv, NextObjectInv DEF Propagate

LEMMA StutterInv == ASSUME CInv, UNCHANGED cascade PROVE CInv'
<1> USE DEF cascade
<1>1. Types' /\ Resting' /\ Timed' /\ OnceOnly'
  BY DEF CInv, Types, Resting, Timed, OnceOnly
<1>2. Reach' /\ Distinct' /\ Vias' /\ Fresh' /\ CausesComeFirst'
  BY DEF CInv, Reach, Affected, Distinct, Vias, Fresh, CausesComeFirst, Children
<1>3. Complete'
  <2>1. \A o, k : Raised(o, k)' <=> Raised(o, k)
    BY DEF Raised, Children
  <2>2. \A o, k : Pending(o, k)' <=> Pending(o, k)
    BY DEF Pending
  <2>3. \A e : Follows(e)' <=> Follows(e)
    BY DEF Follows
  <2> QED
    BY <2>1, <2>2, <2>3 DEF CInv, Complete
<1> QED
  BY <1>1, <1>2, <1>3 DEF CInv

\* With an empty frontier nothing is pending.
LEMMA InvOnce == CInv => EveryEffectOnce
<1> SUFFICES ASSUME CInv, root # 0, frontier = <<>>
             PROVE  /\ \A o \in Affected : \A k \in DOMAIN Edges[o] : Follows(Edges[o][k]) => Raised(o, k)
                    /\ Distinct
  BY DEF EveryEffectOnce, Raised, Distinct
<1>1. \A o, k : ~Pending(o, k)
  BY DEF Pending
<1> QED
  BY <1>1 DEF CInv, Reach, Complete

\* The invariant of a run of cascades.
THEOREM Inductive == CascadeSpec => []CInv
<1>1. ASSUME CInv, [CascadeNext]_cascade PROVE CInv'
  <2>1. CASE \E s \in Instances, o \in Objects, type \in AlarmTypes,
                relations \in SUBSET Relations, at \in Int : Inject(s, relations, o, type, at)
    BY <1>1, <2>1, InjectInv
  <2>2. CASE Propagate(Jitters)
    BY <1>1, <2>2, DelayAssumption, PropagateInv
  <2>3. CASE UNCHANGED cascade
    BY <1>1, <2>3, StutterInv
  <2> QED
    BY <1>1, <2>1, <2>2, <2>3 DEF CascadeNext
<1> QED
  BY <1>1, InitInv, PTL DEF CascadeSpec

\* No effect is raised before its cause, in any graph and with any jitter.
THEOREM CausesCorrect == CascadeSpec => []CausesComeFirst
<1>1. CInv => CausesComeFirst
  BY DEF CInv
<1> QED
  BY <1>1, Inductive, PTL

\* A finished cascade has raised each effect of each edge exactly once.
THEOREM EffectsCorrect == CascadeSpec => []EveryEffectOnce
BY InvOnce, Inductive, PTL
=============================================================================
