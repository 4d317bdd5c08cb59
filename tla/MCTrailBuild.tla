---------------------------- MODULE MCTrailBuild ----------------------------
(* Instances of TrailBuild: the consumer beside one rebuild request.       *)
EXTENDS TrailBuild, TLC

CONSTANTS consumer, r1, t, u, v

\* The graphs of two snapshots share trails, in different orders; a slice mixed of
\* both has one of them and one of its own.
SharedTrails == [g \in SUBSET (1 .. MaxSnapshots) |->
                   CASE g = {1} -> <<t, u>> [] g = {2} -> <<u, t>> [] OTHER -> <<u, v>>]

\* The graphs of both snapshots have the same trail, a mixed slice another one.
SingleTrails == [g \in SUBSET (1 .. MaxSnapshots) |-> IF Cardinality(g) = 1 THEN <<t>> ELSE <<u>>]

NoBacklog == <<>>
OnePoison == <<0>>
=============================================================================
