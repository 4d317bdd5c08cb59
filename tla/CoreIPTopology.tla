--------------------------- MODULE CoreIPTopology ---------------------------
(***************************************************************************)
(* The Simulator's Core-IP domain pack: the network build_topology makes   *)
(* for a number of nodes, interfaces per port and sites, and the pack's    *)
(* propagation templates and fault scenarios.                              *)
(*                                                                         *)
(* Nodes stand in a chain.  Each hosts a line card, a port and interfaces; *)
(* between two neighbours run an IP link, its fiber, an IGP adjacency and  *)
(* an LSP that serves one of five VPNs; links are paired into risk groups. *)
(* A managed object <<type, n, k>> stands for "type:id"; attributes        *)
(* (vendors, capacities, coordinates, IGP areas) are left out.             *)
(***************************************************************************)
EXTENDS Integers, Sequences

CONSTANTS NodeCount, InterfacesPerPort, SiteCount

Chain == 0..NodeCount - 1   \* the nodes
Spans == 0..NodeCount - 2   \* span i joins node i and node i + 1

\* Of each pair of adjacent links, the group is named after half their number;
\* an odd link out stays alone.
Paired == {i \in Spans : 2 * (i \div 2) + 1 \in Spans}
Groups == {i \div 2 : i \in Paired}

At(type, n)   == <<type, n, 0>>
Interface(n)  == At("Interface", n)   \* the first one of the node's port
ObjectType(o) == o[1]

Managed ==
  ({"Node", "LineCard", "Port"} \X Chain \X {0})
  \cup ({"Interface"} \X Chain \X (0..InterfacesPerPort - 1))
  \cup ({"IPLink", "FiberSpan", "IGPAdjacency", "LSP"} \X Spans \X {0})
  \cup ({"VPNService"} \X (0..4) \X {0})
  \cup ({"SRLG"} \X Groups \X {0})
  \cup ({"Site"} \X (0..SiteCount - 1) \X {0})

Edge(relation, target) == [relation |-> relation, target |-> target]

\* Where the links, adjacency and risk groups of a chain hang on the chain; the
\* order is that in which the edges were added.
InterfaceEdges(n, k) ==
  IF k # 0 THEN <<>>
  ELSE (IF n - 1 \in Spans THEN <<Edge("TERMINATES", At("IPLink", n - 1))>> ELSE <<>>)
       \o (IF n \in Spans THEN <<Edge("TERMINATES", At("IPLink", n)),
                                Edge("ADJACENCY_OVER", At("IGPAdjacency", n))>> ELSE <<>>)

LinkEdges(n) ==
  <<Edge("ADJACENCY_OVER", At("IGPAdjacency", n)), Edge("TRAVERSES", At("LSP", n))>>
  \o (IF n \in Paired THEN <<Edge("MEMBER_OF", At("SRLG", n \div 2))>> ELSE <<>>)

\* The out-edges of an object, in the order in which they were added.
Out(o) ==
  LET n == o[2] IN
  CASE o[1] = "Node"      -> <<Edge("LOCATED_AT", At("Site", n % SiteCount)),
                               Edge("HOSTED_ON", At("LineCard", n))>>
    [] o[1] = "LineCard"  -> <<Edge("HOSTED_ON", At("Port", n))>>
    [] o[1] = "Port"      -> [k \in 1..InterfacesPerPort |->
                                Edge("HOSTS", <<"Interface", n, k - 1>>)]
    [] o[1] = "Interface" -> InterfaceEdges(n, o[3])
    [] o[1] = "FiberSpan" -> <<Edge("RIDES_ON", At("IPLink", n))>>
    [] o[1] = "IPLink"    -> LinkEdges(n)
    [] o[1] = "LSP"       -> <<Edge("SERVES", At("VPNService", n % 5))>>
    [] o[1] = "SRLG"      -> <<Edge("MEMBER_OF", At("IPLink", 2 * n)),
                               Edge("MEMBER_OF", At("IPLink", 2 * n + 1))>>
    [] OTHER              -> <<>>

Network == [o \in Managed |-> Out(o)]

ServiceTail == <<"FRRSwitchover", "TETunnelDown", "RouteFlap", "ReachabilityLoss",
                 "VPNReachabilityLoss", "ServiceDegraded", "Congestion", "QueueDrop",
                 "HighLatency">>

\* PROPAGATION_TEMPLATES, by the relation they are authored for; no alarm is
\* raised, and the cascade does not go on, along a relation without one.
PackTemplates ==
  [RIDES_ON       |-> <<"LOS", "LOF", "OpticalPowerLow", "LinkDown">>,
   HOSTED_ON      |-> <<"PortDown", "PortFlapping">>,
   HOSTS          |-> <<"InterfaceDown", "CRCErrors", "InterfaceErrors">>,
   TERMINATES     |-> <<"IPLinkDown", "LinkDown", "LinkBundleDegraded">>,
   ADJACENCY_OVER |-> <<"ISISAdjacencyDown", "OSPFAdjacencyDown", "AdjDown",
                        "BGPPeerDown", "RouteFlap", "LDPSessionDown">>,
   TRAVERSES      |-> <<"LSPDown", "FRRSwitchover", "TETunnelDown">>,
   SERVES         |-> ServiceTail,
   MEMBER_OF      |-> <<"LinkBundleDegraded">>,
   LOCATED_AT     |-> <<>>]

\* SCENARIO_LIBRARY: the type a fault starts on, its own alarm and the
\* relations its cascade follows.
Tail4 == {"TERMINATES", "ADJACENCY_OVER", "TRAVERSES", "SERVES"}

Fault(origin, alarm, relations) == [origin |-> origin, alarm |-> alarm, relations |-> relations]

PackScenarios == <<"fiberCut", "lineCard", "port", "interface", "node", "ipLink", "lspTe",
                   "routing", "srlg">>

ScenarioLibrary ==
  [fiberCut     |-> Fault("FiberSpan", "FiberFault", {"RIDES_ON"} \cup Tail4),
   lineCard     |-> Fault("LineCard", "LineCardFault", {"HOSTED_ON", "HOSTS"} \cup Tail4),
   port         |-> Fault("Port", "PortDown", {"HOSTS"} \cup Tail4),
   interface    |-> Fault("Interface", "InterfaceDown", Tail4),
   node         |-> Fault("Node", "LOS", {"HOSTED_ON", "HOSTS"} \cup Tail4),
   ipLink       |-> Fault("IPLink", "IPLinkDown",
                          {"ADJACENCY_OVER", "MEMBER_OF", "TRAVERSES", "SERVES"}),
   lspTe        |-> Fault("LSP", "LSPDown", {"TRAVERSES", "SERVES"}),
   routing      |-> Fault("Interface", "InterfaceDown", Tail4),
   srlg         |-> Fault("FiberSpan", "FiberFault",
                          {"RIDES_ON", "MEMBER_OF", "ADJACENCY_OVER", "TRAVERSES", "SERVES"})]
=============================================================================
