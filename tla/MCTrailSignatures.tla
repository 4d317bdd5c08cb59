------------------------- MODULE MCTrailSignatures -------------------------
(* Slices of the shape of an IP core, and what Knowledge knows of it.  Two *)
(* interfaces end three IP links, an LSP rides the links and a VPN service *)
(* rides the LSP.  Links may be missing, the second interface may be of    *)
(* the same area, of another, or of none, and the links share two risk     *)
(* groups.  Ids sort by object type: IPLink:, Interface:, LSP:, SRLG: and  *)
(* VPNService:.                                                            *)
EXTENDS TrailSignatures, FiniteSets

ip1 == 1    ip2 == 2    ip3 == 3      \* IP links
if1 == 4    if2 == 5                  \* interfaces
lsp == 6
srlg1 == 7  srlg2 == 8
vpn == 9

IpCore == 1 .. 9

MCType == [n \in IpCore |->
  CASE n \in {ip1, ip2, ip3} -> "IPLink" [] n \in {if1, if2} -> "Interface" [] n = lsp -> "LSP"
    [] n \in {srlg1, srlg2}  -> "SRLG"   [] n = vpn -> "VPNService"]

Always    == {<<if1, ip1>>, <<if2, ip2>>, <<vpn, lsp>>}
Sometimes == {<<if1, ip2>>, <<if2, ip3>>, <<lsp, ip1>>, <<lsp, ip2>>, <<lsp, ip3>>, <<if1, if2>>}

\* Without risk groups; two that share a link; and one recorded both ways.
RiskEdges ==
  {{},
   {<<ip1, srlg1>>, <<ip2, srlg1>>, <<ip2, srlg2>>, <<ip3, srlg2>>},
   {<<ip1, srlg1>>, <<ip3, srlg1>>, <<srlg1, ip1>>, <<srlg1, ip3>>, <<ip1, srlg2>>, <<srlg2, ip1>>}}

SliceOf(a, L, R) ==
  [area     |-> [n \in IpCore |-> IF n = if1 THEN 1 ELSE IF n = if2 THEN a ELSE NoArea],
   risk     |-> {srlg1, srlg2},
   links    |-> Always \cup L,
   memberOf |-> R]

IpCoreSlices ==
  {SliceOf(a, L, R) : a \in Areas \cup {NoArea}, L \in SUBSET Sometimes, R \in RiskEdges}

\* The edges of an answer, in the direction of the dictionary.
Edge(r, m, n) == [source |-> m, relation |-> r, target |-> n]
Answer == <<Edge("TERMINATES", if1, ip1), Edge("TERMINATES", if2, ip2), Edge("TERMINATES", if1, ip2),
            Edge("TERMINATES", if2, ip3), Edge("TRAVERSES", ip1, lsp), Edge("TRAVERSES", ip2, lsp),
            Edge("TRAVERSES", ip3, lsp), Edge("SERVES", lsp, vpn), Edge("ADJACENT", if1, if2),
            Edge("ADJACENT", if2, if1), Edge("MEMBER_OF", ip1, srlg1), Edge("MEMBER_OF", srlg1, ip3)>>

Bears(s, e) == \E p \in s.links \cup s.memberOf : p \in {<<e.source, e.target>>, <<e.target, e.source>>}
GraphOf(s) == LET Borne(e) == Bears(s, e) IN [nodes |-> IpCore, edges |-> SelectSeq(Answer, Borne)]
MCGraphs == [s \in IpCoreSlices |-> GraphOf(s)]

\* The snapshot after a link was taken out.
MCLater ==
  LET Left(e) == ip1 \notin {e.source, e.target}
  IN  {[nodes |-> IpCore \ {ip1}, edges |-> SelectSeq(Answer, Left)]}

\* A trail of the snapshot before, and what a build of the one after persists, both
\* over objects of the slice.
MCRetained == {[members |-> {if1, ip1, lsp, vpn}, of |-> 1]}
MCBuilt    == {{[members |-> {if2, ip3, lsp}, of |-> 2]}}

\* Compiled are the slices with two areas and overlapping risk groups whose LSP
\* rides the first link.
MCCompiled == {s \in IpCoreSlices : s.area[if2] = 2 /\ <<lsp, ip1>> \in s.links /\ <<ip2, srlg2>> \in s.memberOf}

\* Knowledge publishes while Topology cuts over, and the Trail Builder builds.
Publishing == {s \in MCCompiled : s.links = Always \cup (Sometimes \ {<<lsp, ip2>>})}
Rebuilding == {s \in MCCompiled : s.links = Always \cup {<<lsp, ip1>>, <<if1, if2>>}}
MCChanging ==
  [topology |-> Publishing \cup Rebuilding, knowledge |-> Publishing, trails |-> Rebuilding]

\* Knowledge's versions: Core-IP as seeded; with an LSP's type among the
\* origins; with templates that raise each other in a circle; with a token
\* that the vocabulary lacks; with an origin type that has no alarm; without
\* a vocabulary; without templates.
T(r, from, a, to, b) ==
  [relation |-> r, trigger |-> [type |-> from, alarm |-> a], effect |-> [type |-> to, alarm |-> b]]
Seeded1 ==
  [origins    |-> <<[type |-> "Interface", alarm |-> "InterfaceDown"], [type |-> "IPLink", alarm |-> "LinkDown"]>>,
   templates  |-> <<T("TERMINATES", "Interface", "InterfaceDown", "IPLink", "LinkDown"),
                    T("TERMINATES", "Interface", "InterfaceDown", "IPLink", "IPLinkDown"),
                    T("TRAVERSES", "IPLink", "LinkDown", "LSP", "LSPDown"),
                    T("TRAVERSES", "IPLink", "LinkDown", "LSP", "FRRSwitchover"),
                    T("SERVES", "LSP", "LSPDown", "VPNService", "ReachabilityLoss"),
                    T("SERVES", "LSP", "FRRSwitchover", "VPNService", "Congestion")>>,
   vocabulary |-> {"InterfaceDown", "LinkDown", "IPLinkDown", "LSPDown", "FRRSwitchover",
                   "ReachabilityLoss", "Congestion", "AdjDown", "InterfaceErrors"}]
Circle == <<T("ADJACENT", "Interface", "InterfaceDown", "Interface", "AdjDown"),
            T("ADJACENT", "Interface", "AdjDown", "Interface", "InterfaceErrors"),
            T("ADJACENT", "Interface", "InterfaceErrors", "Interface", "AdjDown"),
            T("TERMINATES", "Interface", "AdjDown", "IPLink", "LinkDown"),
            T("TRAVERSES", "IPLink", "LinkDown", "LSP", "LSPDown")>>
MCRecords ==
  <<Seeded1,
    [Seeded1 EXCEPT !.origins = @ \o <<[type |-> "LSP", alarm |-> "LSPDown"]>>],
    [Seeded1 EXCEPT !.templates = Circle],
    [Seeded1 EXCEPT !.vocabulary = @ \ {"LSPDown"}],
    [Seeded1 EXCEPT !.origins = <<[type |-> "Interface", alarm |-> NoRecord], [type |-> "LSP", alarm |-> "LSPDown"]>>],
    [Seeded1 EXCEPT !.vocabulary = NoRecord],
    [Seeded1 EXCEPT !.templates = <<>>]>>
=============================================================================
