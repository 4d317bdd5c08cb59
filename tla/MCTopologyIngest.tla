-------------------------- MODULE MCTopologyIngest --------------------------
(* Instances of TopologyIngest: a router, a port and the link between them. *)
EXTENDS TopologyIngest, TLC

CONSTANTS router, port, s1, s2, s3, s4

NoObjects == {}
Router    == {router}
Both      == {router, port}
OneLink   == {<<router, port>>}
Symmetry  == Permutations(Ingesters) \cup Permutations(Minted)
=============================================================================
