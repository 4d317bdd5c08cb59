--------------------------- MODULE MCSimulatorRun ---------------------------
(* The Simulator's process over its Core-IP network.                       *)
EXTENDS SimulatorRun

CONSTANTS NodeCount, InterfacesPerPort, SiteCount

\* What the configuration accepts: 10 to 200 nodes, 1 to 8 interfaces, sites
\* of the catalogue of 12 and never more of them than nodes.
ASSUME SizesAssumption ==
  /\ NodeCount \in 10..200
  /\ InterfacesPerPort \in 1..8
  /\ SiteCount \in 1..12 /\ SiteCount <= NodeCount

Pack == INSTANCE CoreIPTopology

MCObjects   == Pack!Managed
MCEdges     == Pack!Network
MCTemplates == Pack!PackTemplates
MCRelations == DOMAIN MCTemplates
MCTypes     == UNION {Range(MCTemplates[r]) : r \in MCRelations}
MCLibrary   == Pack!ScenarioLibrary
MCScenarioTypes == Pack!PackScenarios
MCInstances == (DOMAIN MCLibrary) \X (0..1)

\* Half of the draws of a jitter wider than the base interval are clamped.
MCJitters == {-600, 0}

Plain == [phase |-> "", alias |-> "", ingest |-> FALSE, given |-> {}, unknown |-> FALSE,
          help |-> FALSE, dry |-> FALSE]
Small == [nodes |-> NodeCount, interfaces |-> InterfacesPerPort, sites |-> SiteCount,
          instances |-> 1, background |-> 0, noise |-> 0, kafka |-> TRUE]
Run(a, e) == [args |-> a @@ Plain, env |-> e @@ Small, faults |-> {}]
Troubled(run, f) == [run EXCEPT !.faults = f]

\* Every way to call the program, in a dry run.
Calls ==
  {<<Run([phase |-> p, alias |-> m, ingest |-> i, given |-> g, dry |-> TRUE], Small)>> :
     p \in {"", "p1", "p2"}, m \in {"", "p1", "p2", "p3"}, i \in BOOLEAN,
     g \in {{}, {"topology"}, {"alarms"}, {"alarms", "labels"}, {"export"}}}
  \cup {<<Run([help |-> h, unknown |-> TRUE], Small)>> : h \in BOOLEAN}

\* Settings at a limit and beyond it.
Configurations ==
  {<<Run([phase |-> "p2", dry |-> TRUE], e)>> :
     e \in {[nodes |-> 9], [nodes |-> 201], [sites |-> 13], [nodes |-> 10, sites |-> 11],
            [devices |-> 0], [devices |-> 1], [interfaces |-> 9], [areas |-> 0],
            [jitter |-> -1], [between |-> 0],
            [noise |-> 101], [background |-> 60, noise |-> 60, total |-> 2000000],
            [instances |-> 0], [scenarios |-> <<"unheard">>], [api |-> "real"],
            [knowledge |-> "real"], [knowledge |-> "real", knowledgeUrl |-> TRUE], [total |-> 0],
            [kafka |-> FALSE], [window |-> 0], [total |-> 224], [total |-> 225],
            [profile |-> "p2demo"], [profile |-> "p2demo", total |-> 10],
            [profile |-> "unheard"]}}

Uploads ==
  {<<Troubled(Run([phase |-> "p1", ingest |-> i, given |-> {"topology"}],
                  [api |-> a, url |-> TRUE]), {"topology", "late", "kill"})>> :
     i \in BOOLEAN, a \in {"mock", "real"}}

\* Each scenario by itself, without jitter and, for the two shortest, with it;
\* and two cascades of one scenario.
Cascades ==
  {<<Run([phase |-> "p2"], [scenarios |-> <<s>>, jitter |-> 0])>> : s \in DOMAIN MCLibrary}
  \cup {<<Run([phase |-> "p2"], [scenarios |-> <<s>>])>> : s \in {"lspTe", "fiberCut"}}
  \cup {<<Run([phase |-> "p2"], [scenarios |-> <<"lspTe">>, instances |-> 2, jitter |-> 0])>>}

\* A run that exports a cascade with background and noise, and one that ingests
\* what it exported.
Ingest == Run([phase |-> "p3", ingest |-> TRUE, given |-> {"alarms", "labels"}], [kafka |-> FALSE])
RoundTrips ==
  {<<Troubled(Run([phase |-> "p2", given |-> {"export"}],
                  [scenarios |-> <<"lspTe">>, background |-> 5, noise |-> 5]),
              {"broker", "kill"}),
     Ingest>>}

\* Options that contradict each other, with the files at hand.
Conflicts ==
  {<<Run([phase |-> "p3", ingest |-> TRUE, given |-> {"alarms", "labels", "export"}], Small)>>}

\* What may lie on disk: nothing, what is refused, what makes the loader fail, and
\* what another generator wrote.
Corpora    == {NoFile, Malformed, Undecodable, <<2, 1>>}
LabelFiles == {NoFile, Malformed, {[id |-> <<"port", 0>>, root |-> 2, children |-> {1}]}}

Files(s, c, l) == [snapshot |-> s, corpus |-> c, labels |-> l]
Blank          == Files(NoFile, NoFile, NoFile)

MCSessions ==
  [runs : Calls \cup Configurations \cup Cascades \cup RoundTrips, files : {Blank}]
  \cup [runs : Uploads,
        files : {Files(s, NoFile, NoFile) : s \in {NoFile, Malformed, Undecodable, "network"}}]
  \cup [runs : {<<Ingest>>} \cup Conflicts,
        files : {Files(NoFile, c, l) : c \in Corpora, l \in LabelFiles}]
=============================================================================
