---------------------------- MODULE SimulatorRun ----------------------------
(***************************************************************************)
(* The Simulator's process: argument and settings checks, the upload of a  *)
(* snapshot (phase p1), and the synthesis or ingestion of an alarm stream  *)
(* and its replay to Kafka (p2 to alarms.history, p3 to alarms.live), with *)
(* the corpus and label files that one run exports and another ingests.    *)
(*                                                                         *)
(* An alarm is its id, its position in the run that synthesized it.        *)
(* Fractions are percentages.  librdkafka, the Topology Service and        *)
(* whoever stops the process are the environment.                          *)
(***************************************************************************)
EXTENDS FaultCascade, FiniteSets, SequencesExt

CONSTANTS Library,      \* the pack's scenarios: origin type, alarm, relations
          ScenarioTypes,  \* their names, in the pack's order
          Sessions,     \* runs started one after the other, each with what goes
                        \*   wrong then ("topology", "late", "broker", "kill"),
                        \*   and the files on disk before the first
          Moments,      \* when scenarios start and noise is raised
          NoFile,       \* nothing on disk
          Malformed,    \* what a loader refuses
          Undecodable,  \* what it stumbles over: no text, a line that is no object
          Unset,        \* of a setting without a default
          MaxAttempts,  \* of an upload
          QueueLimit,   \* queue.buffering.max.messages
          MaxUndelivered,
          MaxOvertaking  \* how far behind a delivered message one may still wait

ASSUME LimitsAssumption  == MaxAttempts \in Nat \ {0} /\ QueueLimit \in Nat \ {0}
ASSUME MomentsAssumption == Moments \subseteq Int
ASSUME FilesAssumption   == \A s \in Sessions : {"corpus", "labels"} \subseteq DOMAIN s.files

VARIABLES
  runs,      \* the runs of the session, the one in progress first
  pc,
  conf,      \* its settings
  exits,     \* the exit codes of the runs before
  files,     \* snapshot, corpus and labels files
  posts,     \* attempts of the upload
  late,      \* posts that timed out here and that Topology still works on
  ingested,  \* posts whose snapshot Topology took, the last is current
  reported,  \* the post whose snapshot id was read
  labels,    \* the label store
  turn,      \* scenario instances synthesized
  stream,    \* the alarms to replay
  produced,  \* alarms handed to the producer
  tape,      \* records of the corpus writer
  queue,     \* the producer's local queue, as positions in produced
  wire,      \* the positions delivered: three partitions, no key and so no order
  healthy    \* KafkaProducer._healthy: set here, read by nobody

upload == <<posts, late, ingested, reported>>
kafka  == <<queue, wire, healthy>>
replay == <<stream, produced, tape, kafka>>
synth  == <<cascade, labels, turn>>
vars   == <<runs, pc, conf, exits, files, upload, synth, replay>>

args == Head(runs).args
env  == Head(runs).env
Faults == Head(runs).faults
-----------------------------------------------------------------------------
(* cli.build_plan and config/settings.                                     *)

Phase(a) == IF a.phase # "" THEN a.phase ELSE a.alias

UsageError(a) ==
  \/ a.unknown
  \/ Phase(a) = ""
  \/ a.alias # "" /\ Phase(a) # a.alias
  \/ a.ingest /\ "export" \in a.given
  \/ a.ingest /\ Phase(a) = "p1" /\ "topology" \notin a.given
  \/ a.ingest /\ Phase(a) # "p1" /\ ~({"alarms", "labels"} \subseteq a.given)

Plan(a) ==
  [ran |-> ~a.dry, phase |-> Phase(a), ingest |-> a.ingest, export |-> "export" \in a.given]

Default ==
  [nodes |-> 20, sites |-> 3, interfaces |-> 1, areas |-> 3, total |-> Unset, instances |-> 8,
   scenarios |-> ScenarioTypes, devices |-> Unset, base |-> 400, jitter |-> 300, between |-> 2000,
   background |-> 30, noise |-> 20, hard |-> 40, window |-> 86400, profile |-> "",
   api |-> "mock", url |-> FALSE, knowledge |-> "local", knowledgeUrl |-> FALSE, kafka |-> FALSE]

DemoProfile ==
  [p1demo |-> [nodes |-> 50, sites |-> 10, interfaces |-> 2, areas |-> 3],
   p2demo |-> [nodes |-> 50, sites |-> 10, interfaces |-> 2, areas |-> 3, total |-> 1000,
               noise |-> 20, hard |-> 40, background |-> 25],
   p3demo |-> [nodes |-> 50, sites |-> 10, interfaces |-> 2, areas |-> 3, total |-> 500,
               noise |-> 20, hard |-> 40, background |-> 25]]

Over(f, g) == [x \in DOMAIN f \cup DOMAIN g |-> IF x \in DOMAIN f THEN f[x] ELSE g[x]]

\* What the operator sets wins over the profile, the profile over the default.
Settings(e) ==
  LET set == Over(e, Default)
  IN  IF set.profile \in DOMAIN DemoProfile
        THEN Over(Over(e, DemoProfile[set.profile]), Default) ELSE set

\* The share of the stream that is not background or noise, at least 1e-6, in
\* millionths.
SignalShare(s) ==
  IF s.background + s.noise < 100 THEN (100 - s.background - s.noise) * 10000 ELSE 1

MinableFloor(s) ==
  (25 * Len(IF s.scenarios = <<>> THEN <<0>> ELSE s.scenarios) * 1000000) \div SignalShare(s)

Percent == 0..100

Valid(s, phase, ingest) ==
  /\ s.profile \in DOMAIN DemoProfile \cup {""}
  /\ s.nodes \in 10..200
  /\ s.sites \in 1..12 /\ s.sites <= s.nodes
  /\ s.devices # Unset => s.devices >= 1
  /\ s.interfaces \in 1..8 /\ s.areas \in 1..8
  /\ s.jitter >= 0 /\ s.base > 0 /\ s.between > 0
  /\ {s.noise, s.background, s.hard} \subseteq Percent
  /\ s.instances \in Nat /\ s.instances >= 1
  /\ s.scenarios \in Seq(DOMAIN Library)
  /\ s.api = "real" => s.url
  /\ s.knowledge = "real" => s.knowledgeUrl
  /\ phase # "p1" /\ ~ingest => s.kafka
  /\ phase = "p2" /\ ~ingest => s.window > 0
  /\ s.total # Unset => s.total >= MinableFloor(s)
-----------------------------------------------------------------------------
(* The files of a session.  The labels are those of the latest run that    *)
(* synthesized, of its labels-<runId>.jsonl, which the operator passes on. *)

\* No child stands in a sequence of alarms before its root.
Causal(seq, ls) ==
  \A l \in ls : \A n \in DOMAIN seq :
    seq[n] \in l.children => \E m \in 1..n - 1 : seq[m] = l.root

\* Every labelled alarm is in it.
Covers(seq, ls) == \A l \in ls : {l.root} \cup l.children \subseteq Range(seq)

\* What load_snapshot, load_corpus and load_from_file accept.
Unreadable       == {NoFile, Malformed, Undecodable}
LoadsSnapshot(f) == f.snapshot \notin Unreadable
LoadsCorpus(f)   == f.corpus \notin Unreadable
LoadsLabels(f)   == f.labels \notin Unreadable
Readable(f)      == LoadsCorpus(f) /\ LoadsLabels(f)

\* The exit code for a file that does not load: only the validation errors of a
\* snapshot or a corpus are told from other failures.
Refused(file) == IF file = Undecodable THEN 4 ELSE 3

\* A run that synthesizes and exports labels, but no corpus.
Unexported(a) == ~a.dry /\ Phase(a) # "p1" /\ ~a.ingest /\ "export" \notin a.given

\* Labels are ingested with the corpus of their own run: nobody synthesizes
\* without a corpus and ingests an older one after that.
Orderly(r) ==
  \A k \in DOMAIN r : Unexported(r[k].args) => \A m \in k + 1..Len(r) : ~r[m].args.ingest

\* The first files are those of a generator that keeps what ReplayIsCausal asks:
\* that property says what the runs make of them.
ASSUME SessionsAssumption ==
  \A s \in Sessions :
    /\ s.runs \in Seq(Range(s.runs)) \ {<<>>} /\ Orderly(s.runs)
    /\ Readable(s.files) =>
         /\ s.files.corpus \in Seq(Range(s.files.corpus))
         /\ Causal(s.files.corpus, s.files.labels) /\ Covers(s.files.corpus, s.files.labels)
-----------------------------------------------------------------------------
(* main.                                                                   *)

NoRun == [ran |-> FALSE]

Init ==
  /\ \E s \in Sessions : runs = s.runs /\ files = s.files
  /\ pc = "start"
  /\ conf = NoRun
  /\ exits = <<>>
  /\ posts = 0 /\ late = {} /\ ingested = <<>> /\ reported = 0
  /\ CascadeInit
  /\ labels = {} /\ turn = 0
  /\ stream = <<>> /\ produced = <<>> /\ tape = <<>>
  /\ queue = {} /\ wire = {} /\ healthy = TRUE

Exit(code) == pc' = "exited" /\ exits' = Append(exits, code)
Goto(l)    == pc' = l /\ UNCHANGED exits

BuildPlan ==
  /\ pc = "start"
  /\ CASE args.help        -> Exit(0)
       [] UsageError(args) /\ ~args.help -> Exit(2)
       [] OTHER            -> Goto("settings")
  /\ UNCHANGED <<runs, conf, files, upload, synth, replay>>

\* load_settings; a dry run ends here, its inputs unread.
LoadSettings ==
  /\ pc = "settings"
  /\ IF ~Valid(Settings(env), Phase(args), args.ingest) THEN Exit(3) /\ UNCHANGED conf
     ELSE /\ conf' = Over(Plan(args), Settings(env))
          /\ IF args.dry THEN Exit(0)
             ELSE Goto(IF Phase(args) = "p1" THEN "snapshot" ELSE "open")
  /\ UNCHANGED <<runs, files, upload, synth, replay>>

\* The operator starts the next run: a new process, the files as they lie.  What
\* Topology still works on is left out: no session has a run after an upload.
NextRun ==
  /\ pc = "exited" /\ Len(runs) > 1
  /\ runs' = Tail(runs)
  /\ Goto("start")
  /\ conf' = NoRun
  /\ posts' = 0 /\ ingested' = <<>> /\ reported' = 0 /\ late' = {}
  /\ alarms' = <<>> /\ root' = 0 /\ allowed' = {} /\ frontier' = <<>> /\ edge' = 1
  /\ emittedOn' = {} /\ lastAt' = 0
  /\ labels' = {} /\ turn' = 0
  /\ stream' = <<>> /\ produced' = <<>> /\ tape' = <<>> /\ wire' = {} /\ healthy' = TRUE
  /\ UNCHANGED <<queue, files>>
-----------------------------------------------------------------------------
(* run_p1: the snapshot and its upload.                                    *)

\* snapshot_writer's checks: a type in front of every id, no dangling edge.
WellFormed == \A o \in Objects : \A k \in DOMAIN Edges[o] : Edges[o][k].target \in Objects

WriteSnapshot ==
  IF WellFormed THEN Goto("upload") /\ files' = [files EXCEPT !.snapshot = "network"]
                ELSE Exit(4) /\ UNCHANGED files

Snapshot ==
  /\ pc = "snapshot"
  /\ IF ~conf.ingest THEN WriteSnapshot
     ELSE /\ IF LoadsSnapshot(files) THEN Goto("upload") ELSE Exit(Refused(files.snapshot))
          /\ UNCHANGED files
  /\ UNCHANGED <<runs, conf, upload, synth, replay>>

\* The mock answers by itself; it asks nobody.
MockUpload ==
  /\ pc = "upload" /\ conf.api = "mock"
  /\ posts' = 1 /\ reported' = 1
  /\ Exit(0)
  /\ UNCHANGED <<runs, conf, files, late, ingested, synth, replay>>

\* A 200 whose body names the snapshot ends the upload.
Post ==
  /\ pc = "upload" /\ conf.api = "real"
  /\ posts' = posts + 1
  /\ ingested' = Append(ingested, posts')
  /\ reported' = posts'
  /\ Exit(0)
  /\ UNCHANGED <<runs, conf, files, late, synth, replay>>

\* Mutant: One attempt more than max_attempts.
PostAgain_OneMore == IF posts' > MaxAttempts THEN Exit(4) ELSE Goto("upload")

\* The last attempt is not repeated.
PostAgain == IF posts' = MaxAttempts THEN Exit(4) ELSE Goto("upload")

\* Another status or a transport error: Topology may have taken the snapshot
\* nevertheless, or may take it after the client has given up waiting.
PostFails ==
  /\ pc = "upload" /\ conf.api = "real" /\ "topology" \in Faults
  /\ posts' = posts + 1
  /\ \/ UNCHANGED <<late, ingested>>
     \/ ingested' = Append(ingested, posts') /\ UNCHANGED late
     \/ "late" \in Faults /\ late' = late \cup {posts'} /\ UNCHANGED ingested
  /\ PostAgain
  /\ UNCHANGED <<runs, conf, files, reported, synth, replay>>

\* A 200 with another body is a KeyError, which is not retried.
PostGarbled ==
  /\ pc = "upload" /\ conf.api = "real" /\ "topology" \in Faults
  /\ posts' = posts + 1
  /\ ingested' = Append(ingested, posts')
  /\ Exit(4)
  /\ UNCHANGED <<runs, conf, files, late, reported, synth, replay>>

\* Topology takes a snapshot whose client no longer waits.
Land ==
  /\ \E p \in late : ingested' = Append(ingested, p) /\ late' = late \ {p}
  /\ UNCHANGED <<runs, pc, conf, exits, files, posts, reported, synth, replay>>
-----------------------------------------------------------------------------
(* run_replay_phase: where the alarms come from.                           *)

\* CorpusWriter opens its file for writing, which empties it, records what is
\* emitted, and writes it when it is closed.
OpenCorpus  == files' = IF conf.export THEN [files EXCEPT !.corpus = <<>>] ELSE files
Tap(alarm)  == tape' = IF conf.export THEN Append(tape, alarm) ELSE tape
WriteCorpus == files' = IF conf.export THEN [files EXCEPT !.corpus = tape] ELSE files

\* The finally clause closes the corpus, whatever ends the run.
Close(code) == Exit(code) /\ WriteCorpus

Open ==
  /\ pc = "open"
  /\ Goto(IF conf.ingest THEN "load" ELSE "synth")
  /\ OpenCorpus
  /\ UNCHANGED <<runs, conf, upload, synth, replay>>

\* The corpus is read as a whole, then the labels, before anything is emitted;
\* nothing that is wrong with the labels is an IngestValidationError.
Load ==
  /\ pc = "load"
  /\ IF Readable(files)
       THEN /\ Goto("replay")
            /\ stream' = files.corpus
            /\ labels' = files.labels
            /\ UNCHANGED files
       ELSE /\ Close(IF LoadsCorpus(files) THEN 4 ELSE Refused(files.corpus))
            /\ UNCHANGED <<stream, labels>>
  /\ UNCHANGED <<runs, conf, upload, cascade, turn, produced, tape, kafka>>

\* synthesize, one scenario instance after the other.
Scenario   == conf.scenarios[turn \div conf.instances + 1]
InstanceId == <<Scenario, turn % conf.instances>>
Unlabelled == <<>>   \* of no scenario
Synthesized == turn = Len(conf.scenarios) * conf.instances

\* A fault strikes a random object of the scenario's origin type.
InjectFault ==
  /\ pc = "synth" /\ ~Synthesized /\ root = 0
  /\ \E o \in Objects, at \in Moments :
       /\ o[1] = Library[Scenario].origin
       /\ Inject(InstanceId, Library[Scenario].relations, o, Library[Scenario].alarm, at)
  /\ UNCHANGED <<runs, pc, conf, exits, files, upload, labels, turn, replay>>

Cascade ==
  /\ pc = "synth" /\ Propagate(IF conf.jitter > 0 THEN Jitters ELSE {0})
  /\ UNCHANGED <<runs, pc, conf, exits, files, upload, labels, turn, replay>>

\* Mutant: A label's children are all alarms since the first cascade.
Label_Unbounded == [id |-> InstanceId, root |-> root, children |-> 2..Len(alarms)]

Label == [id |-> InstanceId, root |-> root, children |-> Children]

\* The label store holds one label per scenario id, the latest.
RecordLabel ==
  /\ pc = "synth" /\ root # 0 /\ frontier = <<>>
  /\ labels' = {l \in labels : l.id # InstanceId} \cup {Label}
  /\ turn' = turn + 1
  /\ root' = 0
  /\ UNCHANGED <<runs, pc, conf, exits, files, upload, replay>>
  /\ UNCHANGED <<alarms, allowed, frontier, edge, emittedOn, lastAt>>

\* Python rounds a half to the even neighbour.
Rounded(a, b) ==
  LET q == a \div b IN
  IF 2 * (a % b) > b \/ (2 * (a % b) = b /\ q % 2 = 1) THEN q + 1 ELSE q

\* How many alarms are a percentage of the stream the signal is the rest of.
Count(percent) == Rounded(Len(alarms) * percent * 10000, SignalShare(conf))

\* Mutant: Alarms of a time are sorted from the last generated to the first.
Earlier_Unstable(m, n) ==
  alarms'[m].at < alarms'[n].at \/ (alarms'[m].at = alarms'[n].at /\ m > n)

\* The sort is stable.
Earlier(m, n) == alarms'[m].at < alarms'[n].at \/ (alarms'[m].at = alarms'[n].at /\ m < n)

\* The alarms of the run in the order of their times.
Sorted ==
  LET place == [m \in DOMAIN alarms' |-> Cardinality({k \in DOMAIN alarms' : Earlier(k, m)}) + 1]
  IN  [n \in DOMAIN alarms' |-> CHOOSE m \in DOMAIN alarms' : place[m] = n]

\* Background and noise: alarms of any object, at any time.
GenerateNoise(at) ==
  [k \in DOMAIN at |-> Alarm(Unlabelled, "any", "any", at[k], <<>>)]

\* Background and noise alarms, then the sort, then the export of the labels.
Blend ==
  /\ pc = "synth" /\ Synthesized /\ root = 0
  /\ \E at \in [1..Count(conf.background) + Count(conf.noise) -> Moments] :
       /\ alarms' = alarms \o GenerateNoise(at)
       /\ stream' = Sorted
  /\ files' = [files EXCEPT !.labels = labels]
  /\ Goto("replay")
  /\ UNCHANGED <<runs, conf, upload, labels, turn, produced, tape, kafka>>
  /\ UNCHANGED <<root, allowed, frontier, edge, emittedOn, lastAt>>
-----------------------------------------------------------------------------
(* replay, and librdkafka beside it.                                       *)

Unqueued == Len(produced) < Len(stream)
Full     == Cardinality(queue) = QueueLimit
Drained  == produced = stream /\ queue = {}

Produce ==
  /\ pc = "replay" /\ Unqueued /\ ~Full
  /\ LET alarm == stream[Len(produced) + 1] IN
       /\ produced' = Append(produced, alarm)
       /\ queue' = queue \cup {Len(produced) + 1}
       /\ Tap(alarm)
  /\ UNCHANGED <<runs, pc, conf, exits, files, upload, synth, stream, wire, healthy>>

\* Mutant: A full queue ends the replay, not the run.
QueueFull_Swallowed ==
  /\ pc = "replay" /\ Unqueued /\ Full
  /\ Close(0)
  /\ queue' = {}
  /\ UNCHANGED <<runs, conf, upload, synth, stream, produced, tape, wire, healthy>>

\* The local queue is full: BufferError ends the run; what is queued is lost.
QueueFull ==
  /\ pc = "replay" /\ Unqueued /\ Full
  /\ Close(4)
  /\ queue' = {}
  /\ UNCHANGED <<runs, conf, upload, synth, stream, produced, tape, wire, healthy>>

\* Mutant: The run ends without waiting for the queue.
Flush_NoWait ==
  /\ pc = "replay" /\ produced = stream
  /\ Close(0)
  /\ queue' = {}
  /\ UNCHANGED <<runs, conf, upload, synth, stream, produced, tape, wire, healthy>>

\* Mutant: The run waits until everything is delivered.
Flush_UntilDelivered ==
  /\ pc = "replay" /\ produced = stream /\ wire = DOMAIN stream
  /\ Close(0)
  /\ UNCHANGED <<runs, conf, upload, synth, replay>>

\* flush returns when nothing is queued any more, delivered or not.
Flush ==
  /\ pc = "replay" /\ Drained
  /\ Close(0)
  /\ UNCHANGED <<runs, conf, upload, synth, replay>>

\* Messages without a key go to any partition: the queue is not emptied in turn.
Deliver ==
  /\ \E n \in queue :
       /\ \A m \in queue : n - m <= MaxOvertaking
       /\ wire' = wire \cup {n} /\ queue' = queue \ {n}
  /\ UNCHANGED <<runs, pc, conf, exits, files, upload, synth, stream, produced, tape, healthy>>

Undelivered == DOMAIN produced \ (queue \cup wire)

\* A message runs into its timeout; the callback makes a note of it.
DeliveryFails ==
  /\ "broker" \in Faults /\ Cardinality(Undelivered) < MaxUndelivered
  /\ \E n \in queue : queue' = queue \ {n}
  /\ healthy' = FALSE
  /\ UNCHANGED <<runs, pc, conf, exits, files, upload, synth, stream, produced, tape, wire>>

\* close() and export_to_file write line after line: a kill leaves the first
\* records, or one that is cut short.
CutCorpus ==
  /\ pc = "replay" /\ conf.export /\ (Drained \/ (Unqueued /\ Full))
  /\ \E left \in {Malformed} \cup {SubSeq(tape, 1, n) : n \in 0..Len(tape)} :
       files' = [files EXCEPT !.corpus = left]
CutLabels ==
  /\ pc = "synth" /\ Synthesized /\ root = 0
  /\ \E left \in {Malformed} \cup SUBSET labels : files' = [files EXCEPT !.labels = left]

\* The process is stopped from outside; no finally clause runs.
Kill ==
  /\ "kill" \in Faults /\ pc \notin {"start", "exited"}
  /\ UNCHANGED files \/ CutCorpus \/ CutLabels
  /\ Exit(137)
  /\ queue' = {}
  /\ UNCHANGED <<runs, conf, upload, synth, stream, produced, tape, wire, healthy>>

Step ==
  \/ BuildPlan \/ LoadSettings
  \/ Snapshot \/ MockUpload \/ Post \/ PostFails \/ PostGarbled
  \/ Open \/ Load \/ InjectFault \/ Cascade \/ RecordLabel \/ Blend
  \/ Produce \/ QueueFull \/ Flush

Next == Step \/ NextRun \/ Land \/ Deliver \/ DeliveryFails \/ Kill

\* The process goes on by itself, and librdkafka gives up what it cannot
\* deliver; Topology need not finish what nobody waits for.
Fairness == WF_vars(Step) /\ WF_vars(Deliver \/ DeliveryFails)

Spec     == Init /\ [][Next]_vars
FairSpec == Spec /\ Fairness
-----------------------------------------------------------------------------
(* Properties.                                                             *)

Ended(codes)  == pc = "exited" /\ conf.ran /\ exits[Len(exits)] \in codes
Replayed      == conf.phase # "p1"
Unbroken      == \A n \in DOMAIN exits : exits[n] = 0

\* The exit code tells what was done: 2 and 3 promise that nothing was emitted
\* or uploaded; 0 that an upload was answered or every alarm was handed over.
ExitCodesTell ==
  pc = "exited" =>
    /\ exits[Len(exits)] \in {2, 3} => produced = <<>> /\ posts = 0
    /\ Ended({0}) => IF Replayed THEN produced = stream ELSE reported = posts /\ posts > 0

\* However its answers are lost or late, an upload is posted MaxAttempts times
\* at most, each post leaves one snapshot at most, and the reported id is that
\* of one which Topology took.
UploadsAreCounted ==
  /\ posts <= MaxAttempts
  /\ \A m, n \in DOMAIN ingested : ingested[m] = ingested[n] => m = n
  /\ Range(ingested) \cup late \subseteq 1..posts
  /\ Range(ingested) \cap late = {}
  /\ reported # 0 /\ conf.api = "real" => reported \in Range(ingested)

\* The corpus of a run that ended by itself, even with an error, is what was
\* produced, in the order of its production ("emit order", corpus_writer.py:4);
\* and if the run succeeded and no delivery failed, all of it is on the topic,
\* in whatever order: "exactly what went on the wire" (line 5) but for that.
CorpusIsTheReplay ==
  Ended({0, 4}) /\ Replayed /\ conf.export =>
    files.corpus = produced /\ (exits[Len(exits)] = 0 /\ healthy => wire = DOMAIN produced)

\* The labels on disk and of the run divide up the signal: every alarm of a
\* cascade is the root or a child in its own scenario's label, and background
\* and noise are in none ("identifiable as noise solely by that absence"),
\* provided that no scenario was selected twice.
LabelsDivideTheSignal ==
  Ended({0}) /\ Replayed /\ ~conf.ingest /\ IsInjective(conf.scenarios) =>
    /\ files.labels = labels
    /\ \A n \in DOMAIN alarms :
         {l.id : l \in {k \in labels : n = k.root \/ n \in k.children}} =
           IF alarms[n].scenario = Unlabelled THEN {} ELSE {alarms[n].scenario}

\* No child goes out before its root, in a run that synthesizes or in one that
\* replays its files; and every labelled alarm goes out, if both runs succeed.
ReplayIsCausal ==
  /\ Causal(produced, labels)
  /\ Ended({0}) /\ Replayed /\ Unbroken => Covers(produced, labels)

\* Every run exits.
RunsEnd == pc = "start" ~> pc = "exited"
=============================================================================
