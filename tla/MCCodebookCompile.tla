------------------------- MODULE MCCodebookCompile --------------------------
(* Instances of CodebookCompile: two processes of the consumer group.      *)
EXTENDS CodebookCompile, TLC

CONSTANTS e1, e2, e3, s1

M(e) == [event |-> e, snap |-> s1]

\* One snapshot built twice, the first event sent twice, and an event whose
\* compile is rejected.
Rebuilt == <<M(e1), M(e2), M(e1), M(e3)>>
Rejects == (e1 :> "compiles" @@ e2 :> "compiles" @@ e3 :> "rejected")
=============================================================================
