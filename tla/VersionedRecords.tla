-------------------------- MODULE VersionedRecords --------------------------
(***************************************************************************)
(* What the Knowledge service promises whoever reads it: a record has a    *)
(* history that only grows, a read of the record gives its newest version, *)
(* and a version is announced after it can be read, once at most.          *)
(***************************************************************************)
EXTENDS Naturals, Sequences

CONSTANTS Records, Payloads

VARIABLES
  history,   \* the versions of each record, oldest first
  answer,    \* what a read of the record finds: one payload, or none
  announced  \* the <<record, version>> pairs announced

vars == <<history, answer, announced>>

Init ==
  /\ history = [r \in Records |-> <<>>]
  /\ answer = [r \in Records |-> {}]
  /\ announced = {}

Write(r, p) ==
  /\ history' = [history EXCEPT ![r] = Append(@, p)]
  /\ answer' = [answer EXCEPT ![r] = {p}]
  /\ UNCHANGED announced

Announce(r, n) ==
  /\ n \in DOMAIN history[r] /\ <<r, n>> \notin announced
  /\ announced' = announced \cup {<<r, n>>}
  /\ UNCHANGED <<history, answer>>

Next ==
  \E r \in Records : \/ \E p \in Payloads : Write(r, p)
                     \/ \E n \in DOMAIN history[r] : Announce(r, n)

Spec == Init /\ [][Next]_vars
=============================================================================
