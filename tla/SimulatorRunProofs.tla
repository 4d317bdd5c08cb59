------------------------- MODULE SimulatorRunProofs -------------------------
(***************************************************************************)
(* Proofs about SimulatorRun, for every pack, session and fault: what the  *)
(* cascades of FaultCascade promise, they keep in the process that runs    *)
(* them; uploads are counted, exit codes tell the truth, the corpus is     *)
(* what was sent and labels divide up the signal.                          *)
(*                                                                         *)
(* Three invariants stand side by side: that of the cascade (CInv, from    *)
(* FaultCascadeProofs), Uploading and Exiting.  The last two say what each *)
(* place in the code may rely on: nothing is posted before "upload" nor    *)
(* produced before "replay", and a phase keeps to its places.  On top of   *)
(* them Taping follows the corpus, Dividing the labels, Starting what the  *)
(* runs of a session may count on, and Streaming the alarms on their way   *)
(* from the sort through the files of one run to the replay of the next.   *)
(***************************************************************************)
EXTENDS SimulatorRun, FaultCascadeProofs, FiniteSetTheorems, SequenceTheorems

Preparing == {"start", "settings"}
Posting   == {"snapshot", "upload"}
Loading   == {"open", "load", "synth"}

Uploading ==
  /\ posts \in Nat /\ IsSeq(ingested)
  /\ pc \in Preparing \cup Loading \cup {"snapshot", "replay"} =>
       posts = 0 /\ late = {} /\ ingested = <<>> /\ reported = 0
  /\ pc = "upload" => posts < MaxAttempts /\ reported = 0
  /\ pc = "upload" /\ conf.api # "real" => posts = 0 /\ late = {} /\ ingested = <<>>
  /\ UploadsAreCounted

Exiting ==
  /\ IsSeq(exits)
  /\ pc \in Preparing => conf = NoRun
  /\ pc \in Posting => conf.phase = "p1"
  /\ pc \in Loading \cup {"replay"} => conf.phase # "p1"
  /\ pc \in Loading => {conf.background, conf.noise} \subseteq Percent
  /\ pc \in Preparing \cup Posting \cup Loading => produced = <<>>
  /\ ExitCodesTell

RInv == CInv /\ Uploading /\ Exiting
-----------------------------------------------------------------------------
(* The cascade.                                                            *)

\* Between cascades alarms may be added, and the next root is awaited.
LEMMA BetweenInv ==
  ASSUME CInv, frontier = <<>>, root' = 0, IsSeq(alarms'),
         UNCHANGED <<frontier, edge, emittedOn, lastAt>>
  PROVE  CInv'
<1>1. Len(alarms') \in Nat
  <2>1. PICK S : alarms' \in Seq(S)
    BY DEF IsSeq
  <2> QED
    BY <2>1
<1>2. Types' /\ Resting' /\ OnceOnly'
  BY <1>1 DEF CInv, Types, Resting, OnceOnly
<1> QED
  BY <1>2 DEF CInv, Timed, Reach, Complete, Fresh, Distinct, Vias, CausesComeFirst

\* A whole number of background and noise alarms is added.
LEMMA CountIsInteger ==
  ASSUME RInv, pc = "synth", NEW p \in Percent
  PROVE  Count(p) \in Int
<1>1. conf.background \in 0..100 /\ conf.noise \in 0..100
  BY DEF RInv, Exiting, Loading, Percent
<1>2. PICK b \in Nat \ {0} : b = SignalShare(conf)
  <2>1. PICK x \in 0..100, y \in 0..100 : x = conf.background /\ y = conf.noise
    BY <1>1
  <2>2. (IF x + y < 100 THEN (100 - x - y) * 10000 ELSE 1) \in Nat \ {0}
    OBVIOUS
  <2> QED
    BY <2>1, <2>2 DEF SignalShare
<1>3. Len(alarms) \in Nat
  BY DEF RInv, CInv, Types, IsSeq
<1>4. PICK a \in Int : a = Len(alarms) * p * 10000
  BY <1>3 DEF Percent
<1>5. a \div b \in Int
  OBVIOUS
<1>6. Rounded(a, b) \in Int
  BY <1>5 DEF Rounded
<1> QED
  BY <1>2, <1>4, <1>6 DEF Count

LEMMA BlendInv == ASSUME RInv, Blend PROVE CInv'
<1>1. conf.background \in Percent /\ conf.noise \in Percent /\ pc = "synth" /\ root = 0
  BY DEF RInv, Exiting, Loading, Blend
<1>2. PICK c \in Int : c = Count(conf.background) + Count(conf.noise)
  BY <1>1, CountIsInteger
<1>3. PICK at \in [1..c -> Moments] :
        alarms' = alarms \o GenerateNoise(at)
  BY <1>2 DEF Blend
<1>4. PICK f : f = GenerateNoise(at)
  OBVIOUS
<1>5. PICK n \in Nat : 1..c = 1..n
  <2>1. CASE c >= 0
    BY <2>1
  <2>2. CASE c < 0
    <3>1. 1..c = 1..0
      BY <2>2
    <3> QED
      BY <3>1
  <2> QED
    BY <2>1, <2>2
<1>6. IsFun(f, n)
  <2>1. f \in [1..n -> {f[k] : k \in 1..n}]
    BY <1>4, <1>5 DEF GenerateNoise
  <2> QED
    BY <2>1 DEF IsFun
<1>7. IsSeq(alarms) /\ alarms' = alarms \o f
  BY <1>3, <1>4 DEF RInv, CInv, Types
<1>8. IsSeq(alarms')
  BY <1>6, <1>7, Extended
<1>9. frontier = <<>> /\ root' = 0 /\ UNCHANGED <<frontier, edge, emittedOn, lastAt>>
  BY <1>1 DEF Blend, RInv, CInv, Resting
<1> QED
  BY <1>8, <1>9, BetweenInv DEF RInv

LEMMA CascadeStep == ASSUME RInv, [Next]_vars PROVE CInv'
<1> USE DEF RInv
<1>1. CASE InjectFault
  BY <1>1, InjectInv, MomentsAssumption DEF InjectFault
<1>2. CASE Cascade
  <2>1. (IF conf.jitter > 0 THEN Jitters ELSE {0}) \in SUBSET Int
    BY DelayAssumption
  <2> QED
    BY <1>2, <2>1, PropagateInv DEF Cascade
<1>3. CASE RecordLabel
  BY <1>3, BetweenInv DEF RecordLabel, CInv, Types
<1>4. CASE Blend
  BY <1>4, BlendInv
<1>5. CASE NextRun
  <2>1. CascadeInit'
    BY <1>5 DEF NextRun, CascadeInit
  <2>2. CascadeInit' => CInv'
    BY InitInv, PTL
  <2> QED
    BY <2>1, <2>2
<1>6. CASE UNCHANGED cascade
  BY <1>6, StutterInv
<1>7. CASE BuildPlan \/ LoadSettings \/ Snapshot \/ MockUpload \/ Post \/ PostFails \/ PostGarbled
           \/ Open \/ Load \/ Produce \/ QueueFull \/ Flush \/ Land \/ Deliver \/ DeliveryFails
           \/ Kill \/ UNCHANGED vars
  <2>1. UNCHANGED cascade
    BY <1>7 DEF BuildPlan, LoadSettings, Snapshot, MockUpload, Post, PostFails, PostGarbled, Open,
      Load, Produce, QueueFull, Flush, Land, Deliver, DeliveryFails, Kill, vars, synth, cascade
  <2> QED
    BY <2>1, StutterInv
<1> QED
  BY <1>1, <1>2, <1>3, <1>4, <1>5, <1>7 DEF Next, Step
-----------------------------------------------------------------------------
(* Exit codes.                                                             *)

LEMMA LastAppended ==
  ASSUME NEW s, IsSeq(s), NEW x
  PROVE  IsSeq(Append(s, x)) /\ Append(s, x)[Len(Append(s, x))] = x
<1>1. PICK t : t = Append(s, x)
  OBVIOUS
<1>2. IsSeq(t) /\ Len(t) = Len(s) + 1 /\ t[Len(s) + 1] = x
  BY <1>1, Appended
<1> QED
  BY <1>1, <1>2

\* A step by which the process exits, and one by which it does not.
LEMMA ExitStep ==
  ASSUME Exiting, NEW code, Exit(code),
         code \in {2, 3} => produced' = <<>> /\ posts' = 0,
         code = 0 /\ conf'.ran =>
           IF conf'.phase # "p1" THEN produced' = stream' ELSE reported' = posts' /\ posts' > 0
  PROVE  Exiting'
<1>1. IsSeq(exits') /\ exits'[Len(exits')] = code /\ pc' = "exited"
  BY LastAppended DEF Exiting, Exit
<1> QED
  BY <1>1 DEF Exiting, Preparing, Posting, Loading, ExitCodesTell, Ended, Replayed

\* Places other than the last are passed on with what they rely on.
LEMMA StayStep ==
  ASSUME Exiting, UNCHANGED <<exits, conf>>, pc # "exited", pc' # "exited",
         pc' \in Preparing => pc \in Preparing,
         pc' \in Posting => pc \in Posting,
         pc' \in Loading \cup {"replay"} => pc \in Loading \cup {"replay"},
         pc' \in Loading => pc \in Loading,
         pc' \in Preparing \cup Posting \cup Loading => produced' = <<>>
  PROVE  Exiting'
BY DEF Exiting, ExitCodesTell, Ended, Replayed

\* Every setting has a value.
LEMMA SettingsComplete ==
  ASSUME NEW e
  PROVE  {"background", "noise", "instances", "scenarios"} \subseteq DOMAIN Settings(e)
<1> DEFINE Keys == {"background", "noise", "instances", "scenarios"}
<1>1. Keys \subseteq DOMAIN Default
  BY DEF Default
<1>2. \A f : Keys \subseteq DOMAIN Over(f, Default)
  BY <1>1 DEF Over
<1> QED
  BY <1>2 DEF Settings

\* What a run may rely on in its settings.
LEMMA PlannedConf ==
  ASSUME Valid(Settings(env), Phase(args), args.ingest),
         conf' = Over(Plan(args), Settings(env))
  PROVE  /\ conf'.phase = Phase(args)
         /\ conf'.ran = ~args.dry
         /\ conf'.ingest = args.ingest
         /\ conf'.export = ("export" \in args.given)
         /\ {conf'.background, conf'.noise} \subseteq Percent
         /\ conf'.instances \in Nat \ {0}
         /\ conf'.scenarios \in Seq(DOMAIN Library)
<1>1. PICK r : r = Plan(args)
  OBVIOUS
<1>2. PICK s : s = Settings(env)
  OBVIOUS
<1>3. DOMAIN r = {"ran", "phase", "ingest", "export"} /\ r["ran"] = ~args.dry
      /\ r["phase"] = Phase(args)
      /\ r["ingest"] = args.ingest /\ r["export"] = ("export" \in args.given)
  BY <1>1 DEF Plan
<1>4. {"background", "noise", "instances", "scenarios"} \subseteq DOMAIN s
  BY <1>2, SettingsComplete
<1>5. /\ {s["background"], s["noise"]} \subseteq Percent
      /\ s["instances"] \in Nat /\ s["instances"] >= 1
      /\ s["scenarios"] \in Seq(DOMAIN Library)
  BY <1>2 DEF Valid
<1>6. conf' = [x \in DOMAIN r \cup DOMAIN s |-> IF x \in DOMAIN r THEN r[x] ELSE s[x]]
  BY <1>1, <1>2 DEF Over
<1>7. /\ conf'["phase"] = r["phase"] /\ conf'["ran"] = r["ran"]
      /\ conf'["ingest"] = r["ingest"] /\ conf'["export"] = r["export"]
  BY <1>3, <1>6
<1>8. \A x \in {"background", "noise", "instances", "scenarios"} : conf'[x] = s[x]
  BY <1>3, <1>4, <1>6
<1> QED
  BY <1>3, <1>5, <1>7, <1>8

LEMMA ExitingStep == ASSUME RInv, [Next]_vars PROVE Exiting'
<1> USE DEF RInv, Preparing, Posting, Loading
<1> Exiting
  OBVIOUS
<1>1. CASE BuildPlan
  <2>1. produced = <<>> /\ posts = 0 /\ conf = NoRun /\ UNCHANGED <<produced, posts, conf>>
    BY <1>1 DEF BuildPlan, Exiting, Uploading, upload, replay
  <2>2. ~conf'.ran
    BY <2>1 DEF NoRun
  <2>3. CASE Goto("settings")
    BY <1>1, <2>1, <2>3, StayStep DEF BuildPlan, Goto
  <2> QED
    BY <1>1, <2>1, <2>2, <2>3, ExitStep DEF BuildPlan
<1>2. CASE LoadSettings
  <2>1. produced = <<>> /\ posts = 0 /\ conf = NoRun /\ UNCHANGED <<produced, posts>>
    BY <1>2 DEF LoadSettings, Exiting, Uploading, upload, replay
  <2>2. CASE Exit(3) /\ UNCHANGED conf
    BY <2>1, <2>2, ExitStep
  <2>3. ASSUME Valid(Settings(env), Phase(args), args.ingest),
               conf' = Over(Plan(args), Settings(env))
        PROVE  /\ conf'.phase = Phase(args)
               /\ conf'.ran = ~args.dry
               /\ {conf'.background, conf'.noise} \subseteq Percent
    BY <2>3, PlannedConf
  <2>4. CASE /\ Valid(Settings(env), Phase(args), args.ingest)
             /\ conf' = Over(Plan(args), Settings(env))
             /\ args.dry /\ Exit(0)
    <3>1. conf'.ran = FALSE
      BY <2>3, <2>4
    <3> QED
      BY <2>1, <2>4, <3>1, ExitStep
  <2>5. CASE /\ Valid(Settings(env), Phase(args), args.ingest)
             /\ conf' = Over(Plan(args), Settings(env))
             /\ Goto(IF Phase(args) = "p1" THEN "snapshot" ELSE "open")
    <3>1. /\ conf'.phase = Phase(args) /\ {conf'.background, conf'.noise} \subseteq Percent
          /\ pc' = IF Phase(args) = "p1" THEN "snapshot" ELSE "open"
          /\ UNCHANGED exits
      BY <2>3, <2>5 DEF Goto
    <3> QED
      BY <2>1, <3>1 DEF Exiting, ExitCodesTell, Ended, Replayed
  <2> QED
    BY <1>2, <2>2, <2>4, <2>5 DEF LoadSettings
<1>3. CASE NextRun
  BY <1>3 DEF NextRun, Goto, Exiting, ExitCodesTell, Ended, Replayed
<1>4. CASE Snapshot
  <2>1. produced = <<>> /\ posts = 0 /\ UNCHANGED <<produced, posts, conf>>
    BY <1>4 DEF Snapshot, Exiting, Uploading, upload, replay
  <2>2. CASE Goto("upload")
    BY <1>4, <2>1, <2>2, StayStep DEF Snapshot, WriteSnapshot, Goto
  <2> QED
    BY <1>4, <2>1, <2>2, ExitStep DEF Snapshot, WriteSnapshot, Refused
<1>5. CASE MockUpload \/ Post
  <2>1. conf.phase = "p1" /\ UNCHANGED conf /\ Exit(0) /\ reported' = posts' /\ posts' > 0
    BY <1>5 DEF MockUpload, Post, Exiting, Uploading
  <2> QED
    BY <2>1, ExitStep
<1>6. CASE PostFails \/ PostGarbled
  <2>1. produced = <<>> /\ UNCHANGED <<produced, conf>> /\ pc = "upload"
    BY <1>6 DEF PostFails, PostGarbled, Exiting, replay
  <2>2. CASE Goto("upload")
    BY <2>1, <2>2, StayStep DEF Goto
  <2>3. CASE Exit(4)
    BY <2>3, ExitStep
  <2> QED
    BY <1>6, <2>2, <2>3 DEF PostFails, PostGarbled, PostAgain
<1>7. CASE Open \/ InjectFault \/ Cascade \/ RecordLabel \/ Blend
  <2>1. /\ produced = <<>> /\ UNCHANGED <<produced, conf, exits>>
        /\ pc \in {"open", "synth"} /\ pc' \in {"load", "synth", "replay"}
    BY <1>7 DEF Open, InjectFault, Cascade, RecordLabel, Blend, Goto, Exiting, replay
  <2> QED
    BY <2>1, StayStep
<1>8. CASE Load
  <2>1. produced = <<>> /\ posts = 0 /\ UNCHANGED <<produced, posts, conf>> /\ pc = "load"
    BY <1>8 DEF Load, Exiting, Uploading, upload
  <2>2. CASE Goto("replay")
    BY <2>1, <2>2, StayStep DEF Goto
  <2>3. CASE Exit(3) \/ Exit(4)
    BY <2>1, <2>3, ExitStep
  <2> QED
    BY <1>8, <2>2, <2>3 DEF Load, Close, Refused
<1>9. CASE Produce
  BY <1>9, StayStep DEF Produce
<1>10. CASE QueueFull
  BY <1>10, ExitStep DEF QueueFull, Close
<1>11. CASE Flush
  <2>1. conf.phase # "p1" /\ UNCHANGED conf /\ produced' = stream' /\ Exit(0)
    BY <1>11 DEF Flush, Drained, Close, Exiting, replay, synth
  <2> QED
    BY <2>1, ExitStep
<1>12. CASE Kill
  BY <1>12, ExitStep DEF Kill
<1>13. CASE Land \/ Deliver \/ DeliveryFails \/ UNCHANGED vars
  <2>1. UNCHANGED <<pc, conf, exits, posts, reported, produced, stream>>
    BY <1>13 DEF Land, Deliver, DeliveryFails, vars, upload, replay
  <2> QED
    BY <2>1 DEF Exiting, ExitCodesTell, Ended, Replayed
<1> QED
  BY <1>1, <1>2, <1>3, <1>4, <1>5, <1>6, <1>7, <1>8, <1>9, <1>10, <1>11, <1>12, <1>13 DEF Next, Step
-----------------------------------------------------------------------------
(* Uploads.                                                                *)

Quiet == <<posts, late, ingested, reported>>

\* A step that leaves the uploads alone.
LEMMA QuietStep ==
  ASSUME Uploading, UNCHANGED Quiet,
         reported # 0 => UNCHANGED <<conf>>,
         pc' \in Preparing \cup Loading \cup {"snapshot", "replay"} =>
           pc \in Preparing \cup Loading \cup {"snapshot", "replay"},
         pc' = "upload" => pc \in {"snapshot", "upload"} /\ UNCHANGED conf
  PROVE  Uploading'
BY LimitsAssumption DEF Uploading, UploadsAreCounted, Quiet, Preparing, Loading, Range

\* A post of which Topology took the snapshot, or will, or never heard.
LEMMA PostStep ==
  ASSUME Uploading, pc = "upload", conf.api = "real", posts' = posts + 1,
         pc' = "upload" => posts' # MaxAttempts,
         pc' \in {"upload", "exited"},
         \/ UNCHANGED <<late, ingested>>
         \/ ingested' = Append(ingested, posts') /\ UNCHANGED late
         \/ late' = late \cup {posts'} /\ UNCHANGED ingested,
         UNCHANGED conf,
         \/ reported' = 0
         \/ pc' = "exited" /\ reported' = posts' /\ ingested' = Append(ingested, posts')
  PROVE  Uploading'
<1>1. PICK p \in Nat : p = posts /\ p < MaxAttempts /\ posts' = p + 1
  BY DEF Uploading
<1>2. /\ \A m, n \in DOMAIN ingested : ingested[m] = ingested[n] => m = n
      /\ \A m \in DOMAIN ingested : ingested[m] \in 1..p /\ ingested[m] \notin late
      /\ late \subseteq 1..p
  BY <1>1 DEF Uploading, UploadsAreCounted, Range
<1>3. IsSeq(ingested)
  BY DEF Uploading
<1>4. CASE ingested' = Append(ingested, p + 1) /\ UNCHANGED late
  <2>1. PICK t : t = Append(ingested, p + 1)
    OBVIOUS
  <2>2. /\ IsSeq(t) /\ Len(ingested) \in Nat /\ Len(t) = Len(ingested) + 1
        /\ \A i \in 1..Len(ingested) : t[i] = ingested[i]
        /\ t[Len(ingested) + 1] = p + 1
    BY <2>1, <1>3, Appended
  <2>3. DOMAIN t = 1..Len(t) /\ DOMAIN ingested = 1..Len(ingested)
    BY <1>3, <2>2 DEF IsSeq
  <2>4. /\ \A m, n \in DOMAIN t : t[m] = t[n] => m = n
        /\ \A m \in DOMAIN t : t[m] \in 1..p + 1 /\ t[m] \notin late
        /\ \E m \in DOMAIN t : t[m] = p + 1
    BY <1>2, <2>2, <2>3
  <2> QED
    BY <1>1, <1>2, <1>4, <2>1, <2>2, <2>4, LimitsAssumption
    DEF Uploading, UploadsAreCounted, Range, Preparing, Loading
<1>5. CASE UNCHANGED ingested /\ late' \in {late, late \cup {p + 1}} /\ (conf.api = "real" => reported' = 0)
  BY <1>1, <1>2, <1>3, <1>5, LimitsAssumption
  DEF Uploading, UploadsAreCounted, Range, Preparing, Loading
<1>6. ingested' = Append(ingested, p + 1) => ingested' # ingested
  BY <1>3, Appended
<1> QED
  BY <1>1, <1>4, <1>5, <1>6

LEMMA LandStep == ASSUME Uploading, Land PROVE Uploading'
<1>1. PICK p \in late : ingested' = Append(ingested, p) /\ late' = late \ {p}
  BY DEF Land
<1>2. /\ \A m, n \in DOMAIN ingested : ingested[m] = ingested[n] => m = n
      /\ \A m \in DOMAIN ingested : ingested[m] \in 1..posts /\ ingested[m] \notin late
      /\ late \subseteq 1..posts
      /\ IsSeq(ingested)
  BY DEF Uploading, UploadsAreCounted, Range
<1>3. PICK t : t = Append(ingested, p)
  OBVIOUS
<1>4. /\ IsSeq(t) /\ Len(ingested) \in Nat /\ Len(t) = Len(ingested) + 1
      /\ \A i \in 1..Len(ingested) : t[i] = ingested[i]
      /\ t[Len(ingested) + 1] = p
  BY <1>2, <1>3, Appended
<1>5. DOMAIN t = 1..Len(t) /\ DOMAIN ingested = 1..Len(ingested)
  BY <1>2, <1>4 DEF IsSeq
<1>6. /\ \A m, n \in DOMAIN t : t[m] = t[n] => m = n
      /\ \A m \in DOMAIN t : t[m] \in 1..posts /\ t[m] \notin late \ {p}
      /\ \A m \in DOMAIN ingested : \E n \in DOMAIN t : t[n] = ingested[m]
  BY <1>2, <1>4, <1>5
<1>7. UNCHANGED <<pc, posts, reported, conf>> /\ late # {}
  BY DEF Land, upload
<1>8. ingested' = t /\ late' = late \ {p}
  BY <1>1, <1>3
<1>9. /\ \A m, n \in DOMAIN ingested' : ingested'[m] = ingested'[n] => m = n
      /\ Range(ingested') \subseteq 1..posts /\ Range(ingested') \cap late' = {}
      /\ late' \subseteq 1..posts
  BY <1>2, <1>6, <1>8 DEF Range
<1>10. Range(ingested) \subseteq Range(ingested')
  BY <1>6, <1>8 DEF Range
<1>11. UploadsAreCounted'
  BY <1>7, <1>9, <1>10 DEF Uploading, UploadsAreCounted
<1>12. posts \in Nat /\ IsSeq(ingested')
  BY <1>4, <1>8 DEF Uploading
<1>13. pc \notin Preparing \cup Loading \cup {"snapshot", "replay"}
       /\ (pc = "upload" => conf.api = "real" /\ posts < MaxAttempts /\ reported = 0)
  BY <1>7 DEF Uploading
<1> QED
  BY <1>7, <1>11, <1>12, <1>13 DEF Uploading

LEMMA UploadingStep == ASSUME RInv, [Next]_vars PROVE Uploading'
<1> Uploading
  BY DEF RInv
<1>1. CASE BuildPlan \/ LoadSettings \/ Snapshot \/ Open \/ Load \/ InjectFault \/ Cascade \/ RecordLabel
           \/ Blend \/ Produce \/ QueueFull \/ Flush \/ Deliver \/ DeliveryFails \/ Kill \/ UNCHANGED vars
  <2>1. UNCHANGED Quiet
    BY <1>1 DEF BuildPlan, LoadSettings, Snapshot, Open, Load, InjectFault, Cascade, RecordLabel, Blend,
      Produce, QueueFull, Flush, Deliver, DeliveryFails, Kill, vars, upload, Quiet
  <2>2. reported # 0 => UNCHANGED conf
    BY <1>1 DEF BuildPlan, LoadSettings, Snapshot, Open, Load, InjectFault, Cascade, RecordLabel, Blend,
      Produce, QueueFull, Flush, Deliver, DeliveryFails, Kill, vars, Uploading, Preparing
  <2>3. /\ pc' \in Preparing \cup Loading \cup {"snapshot", "replay"} =>
             pc \in Preparing \cup Loading \cup {"snapshot", "replay"}
        /\ pc' = "upload" => pc \in {"snapshot", "upload"} /\ UNCHANGED conf
    BY <1>1 DEF BuildPlan, LoadSettings, Snapshot, Open, Load, InjectFault, Cascade, RecordLabel, Blend,
      Produce, QueueFull, Flush, Deliver, DeliveryFails, Kill, vars, Preparing, Loading, Exit, Goto, Close
  <2> QED
    BY <2>1, <2>2, <2>3, QuietStep
<1>2. CASE NextRun
  BY <1>2, LimitsAssumption DEF NextRun, Goto, Uploading, UploadsAreCounted, Range, IsSeq
<1>3. CASE MockUpload
  <2>1. /\ posts' = 1 /\ reported' = 1 /\ late' = {} /\ ingested' = <<>> /\ conf'.api = "mock"
        /\ pc' = "exited"
    BY <1>3 DEF MockUpload, Exit, Uploading
  <2>2. IsSeq(ingested')
    BY <2>1 DEF IsSeq
  <2> QED
    BY <2>1, <2>2, LimitsAssumption DEF Uploading, UploadsAreCounted, Range, Preparing, Loading
<1>4. CASE Post \/ PostFails \/ PostGarbled
  <2>1. /\ pc = "upload" /\ conf.api = "real" /\ posts' = posts + 1
        /\ pc' \in {"upload", "exited"} /\ UNCHANGED conf
        /\ pc' = "upload" => posts' # MaxAttempts
    BY <1>4 DEF Post, PostFails, PostGarbled, PostAgain, Exit, Goto
  <2>2. \/ UNCHANGED <<late, ingested>>
        \/ ingested' = Append(ingested, posts') /\ UNCHANGED late
        \/ late' = late \cup {posts'} /\ UNCHANGED ingested
    BY <1>4 DEF Post, PostFails, PostGarbled
  <2>3. reported' = 0 \/ (pc' = "exited" /\ reported' = posts' /\ ingested' = Append(ingested, posts'))
    BY <1>4 DEF Post, PostFails, PostGarbled, Exit, Uploading
  <2> QED
    BY <2>1, <2>2, <2>3, PostStep
<1>5. CASE Land
  BY <1>5, LandStep
<1> QED
  BY <1>1, <1>2, <1>3, <1>4, <1>5 DEF Next, Step
-----------------------------------------------------------------------------
(* The theorems.                                                           *)

LEMMA RunInit == Init => RInv
<1> SUFFICES ASSUME Init PROVE RInv
  OBVIOUS
<1>1. CInv
  BY InitInv DEF Init
<1>2. Uploading
  BY LimitsAssumption DEF Init, Uploading, UploadsAreCounted, Range, IsSeq
<1>3. Exiting
  BY DEF Init, Exiting, Preparing, Posting, Loading, ExitCodesTell, Ended, IsSeq
<1> QED
  BY <1>1, <1>2, <1>3 DEF RInv

\* The three invariants hold in every state of every session.
THEOREM RunInductive == Spec => []RInv
<1>1. RInv /\ [Next]_vars => RInv'
  BY CascadeStep, ExitingStep, UploadingStep DEF RInv
<1> QED
  BY <1>1, RunInit, PTL DEF Spec

\* In the process, too, no alarm of a cascade precedes the one it comes from.
THEOREM RunCausesCorrect == Spec => []CausesComeFirst
<1>1. RInv => CausesComeFirst
  BY DEF RInv, CInv
<1> QED
  BY <1>1, RunInductive, PTL

\* Cascades of a run, one after the other, raise each effect once.
THEOREM RunEffectsCorrect == Spec => []EveryEffectOnce
<1>1. RInv => EveryEffectOnce
  BY InvOnce DEF RInv
<1> QED
  BY <1>1, RunInductive, PTL

\* An upload makes MaxAttempts posts at most, each leaves one snapshot at most,
\* and the reported one was taken.
THEOREM UploadsCorrect == Spec => []UploadsAreCounted
<1>1. RInv => UploadsAreCounted
  BY DEF RInv, Uploading
<1> QED
  BY <1>1, RunInductive, PTL

\* An exit code never says more, or less, than what was done.
THEOREM ExitCodesCorrect == Spec => []ExitCodesTell
<1>1. RInv => ExitCodesTell
  BY DEF RInv, Exiting
<1> QED
  BY <1>1, RunInductive, PTL
-----------------------------------------------------------------------------
(* What was produced, what is on the wire and what the corpus holds: without a *)
(* failed delivery, what was produced is on the wire or on its way.            *)

Taping ==
  /\ {"corpus", "labels"} \subseteq DOMAIN files
  /\ IsSeq(produced)
  /\ pc \in Preparing \cup Posting \cup Loading => tape = <<>> /\ queue = {} /\ wire = {}
  /\ queue # {} => pc = "replay"
  /\ pc = "replay" /\ conf.export => tape = produced
  /\ pc = "replay" /\ healthy => DOMAIN produced = wire \cup queue
  /\ CorpusIsTheReplay

LEMMA EmptyIsSeq == ASSUME NEW s, s = <<>> PROVE IsSeq(s) /\ Len(s) = 0
<1>1. s \in Seq({})
  OBVIOUS
<1>2. Len(s) = 0
  OBVIOUS
<1> QED
  BY <1>1, <1>2 DEF IsSeq

LEMMA Tailed ==
  ASSUME NEW s, IsSeq(s), s # <<>>
  PROVE  /\ IsSeq(Tail(s)) /\ Head(s) = s[1]
         /\ Len(s) \in Nat \ {0} /\ Len(Tail(s)) = Len(s) - 1
         /\ \A n \in 1..Len(s) - 1 : Tail(s)[n] = s[n + 1]
<1>1. PICK T : s \in Seq(T)
  BY DEF IsSeq
<1> QED
  BY <1>1 DEF IsSeq

\* A run that ends with the corpus written.
LEMMA ClosedStep ==
  ASSUME RInv, Taping, NEW code, Close(code), UNCHANGED <<produced, wire, conf, healthy>>,
         queue' = {}, conf.export => tape = produced,
         code = 0 /\ healthy => wire = DOMAIN produced
  PROVE  Taping'
<1>1. exits'[Len(exits')] = code /\ pc' = "exited"
  BY LastAppended DEF RInv, Exiting, Close, Exit
<1>2. /\ DOMAIN files' = DOMAIN files
      /\ conf.export => files'.corpus = produced
  BY DEF Close, WriteCorpus, Taping
<1>3. CorpusIsTheReplay'
  BY <1>1, <1>2 DEF CorpusIsTheReplay, Ended
<1> QED
  BY <1>1, <1>2, <1>3 DEF Taping, Preparing, Posting, Loading

\* A step before the replay, to a place that is not the end, or to the end of a
\* run that has no corpus.
LEMMA BlankStep ==
  ASSUME RInv, Taping, pc \in Preparing \cup Posting \cup Loading, UNCHANGED <<produced, tape, kafka>>,
         DOMAIN files' = DOMAIN files,
         pc' = "exited" => ~conf'.ran \/ conf'.phase = "p1"
  PROVE  Taping'
<1>1. produced = <<>> /\ tape = <<>> /\ queue = {} /\ wire = {}
  BY DEF RInv, Exiting, Taping
<1>2. DOMAIN produced' = wire' \cup queue'
  BY <1>1 DEF kafka
<1>3. CorpusIsTheReplay'
  BY DEF CorpusIsTheReplay, Ended, Replayed
<1> QED
  BY <1>1, <1>2, <1>3, EmptyIsSeq DEF Taping, kafka

LEMMA TapingStep == ASSUME RInv, Taping, [Next]_vars PROVE Taping'
<1>1. CASE BuildPlan \/ LoadSettings
  <2>1. /\ pc \in Preparing /\ UNCHANGED <<produced, tape, kafka, files>>
        /\ conf = NoRun
    BY <1>1 DEF BuildPlan, LoadSettings, Preparing, replay, RInv, Exiting
  <2>2. pc' = "exited" => ~conf'.ran
    <3>1. CASE UNCHANGED conf
      BY <2>1, <3>1 DEF NoRun
    <3>2. CASE /\ LoadSettings /\ args.dry /\ Valid(Settings(env), Phase(args), args.ingest)
               /\ conf' = Over(Plan(args), Settings(env))
      BY <3>2, PlannedConf
    <3>3. CASE pc' \in {"snapshot", "open"}
      BY <3>3
    <3> QED
      BY <1>1, <3>1, <3>2, <3>3 DEF BuildPlan, LoadSettings, Goto
  <2> QED
    BY <2>1, <2>2, BlankStep
<1>2. CASE Snapshot \/ MockUpload \/ Post \/ PostFails \/ PostGarbled
  <2>1. pc \in Posting /\ UNCHANGED <<produced, tape, kafka, conf>> /\ DOMAIN files' = DOMAIN files
    BY <1>2 DEF Snapshot, WriteSnapshot, MockUpload, Post, PostFails, PostGarbled,
                Posting, replay
  <2>2. conf.phase = "p1"
    BY <2>1 DEF RInv, Exiting
  <2> QED
    BY <2>1, <2>2, BlankStep
<1>3. CASE NextRun
  <2>1. /\ produced' = <<>> /\ tape' = <<>> /\ queue' = queue /\ wire' = {} /\ files' = files
        /\ pc = "exited" /\ pc' = "start"
    BY <1>3 DEF NextRun, Goto
  <2>2. CorpusIsTheReplay'
    BY <2>1 DEF CorpusIsTheReplay, Ended
  <2> QED
    BY <2>1, <2>2, EmptyIsSeq DEF Taping
<1>4. CASE Open \/ InjectFault \/ Cascade \/ RecordLabel \/ Blend
  <2>1. /\ pc \in Loading /\ UNCHANGED <<produced, tape, kafka>> /\ DOMAIN files' = DOMAIN files
        /\ pc' # "exited"
    BY <1>4 DEF Open, OpenCorpus, InjectFault, Cascade, RecordLabel, Blend, Loading, replay, Goto
  <2> QED
    BY <2>1, BlankStep
<1>5. CASE Load
  <2>1. pc \in Loading /\ UNCHANGED <<produced, tape, kafka, conf>>
    BY <1>5 DEF Load, Loading
  <2>2. tape = <<>> /\ queue = {} /\ wire = {} /\ produced = <<>>
    BY <2>1 DEF RInv, Exiting, Taping
  <2>3. CASE Close(3) \/ Close(4)
    BY <2>1, <2>2, <2>3, ClosedStep DEF kafka
  <2>4. CASE Goto("replay") /\ UNCHANGED files
    BY <2>1, <2>4, BlankStep DEF Goto
  <2> QED
    BY <1>5, <2>3, <2>4 DEF Load, Refused
<1>6. CASE Produce
  <2>1. PICK a : /\ produced' = Append(produced, a)
                 /\ queue' = queue \cup {Len(produced) + 1}
                 /\ tape' = IF conf.export THEN Append(tape, a) ELSE tape
    BY <1>6 DEF Produce, Tap
  <2>2. pc = "replay" /\ UNCHANGED <<pc, conf, wire, healthy, files>>
    BY <1>6 DEF Produce
  <2>3. IsSeq(produced') /\ DOMAIN produced' = DOMAIN produced \cup {Len(produced) + 1}
    <3>1. PICK p : p = Append(produced, a)
      OBVIOUS
    <3>2. IsSeq(p) /\ Len(produced) \in Nat /\ Len(p) = Len(produced) + 1
      BY <3>1, Appended DEF Taping
    <3>3. DOMAIN p = 1..Len(p) /\ DOMAIN produced = 1..Len(produced)
      BY <3>2 DEF Taping, IsSeq
    <3> QED
      BY <2>1, <3>1, <3>2, <3>3
  <2>4. conf'.export => tape' = produced'
    BY <2>1, <2>2 DEF Taping
  <2>5. healthy' => DOMAIN produced' = wire' \cup queue'
    BY <2>1, <2>2, <2>3 DEF Taping
  <2>6. CorpusIsTheReplay'
    BY <2>2 DEF CorpusIsTheReplay, Ended
  <2> QED
    BY <2>2, <2>3, <2>4, <2>5, <2>6 DEF Taping, Preparing, Posting, Loading
<1>7. CASE QueueFull
  <2>1. /\ pc = "replay" /\ Close(4) /\ queue' = {}
        /\ UNCHANGED <<produced, wire, conf, healthy>>
    BY <1>7 DEF QueueFull
  <2> QED
    BY <2>1, ClosedStep DEF Taping
<1>8. CASE Flush
  <2>1. /\ pc = "replay" /\ Close(0) /\ queue = {} /\ queue' = {}
        /\ UNCHANGED <<produced, wire, conf, healthy>>
    BY <1>8 DEF Flush, Drained, replay, kafka
  <2> QED
    BY <2>1, ClosedStep DEF Taping
<1>9. CASE Deliver \/ DeliveryFails
  <2>1. /\ pc = "replay" /\ UNCHANGED <<pc, conf, files, produced, tape>>
    BY <1>9 DEF Deliver, DeliveryFails, Taping
  <2>2. healthy' => healthy /\ wire' \cup queue' = wire \cup queue
    BY <1>9 DEF Deliver, DeliveryFails
  <2>3. CorpusIsTheReplay'
    BY <2>1 DEF CorpusIsTheReplay, Ended
  <2> QED
    BY <2>1, <2>2, <2>3 DEF Taping, Preparing, Posting, Loading
<1>10. CASE Kill
  <2>1. /\ UNCHANGED <<produced, wire>> /\ queue' = {}
        /\ DOMAIN files' = DOMAIN files
        /\ pc' = "exited" /\ exits'[Len(exits')] = 137
    BY <1>10, LastAppended DEF Kill, CutCorpus, CutLabels, Exit, RInv, Exiting
  <2>2. CorpusIsTheReplay'
    BY <2>1 DEF CorpusIsTheReplay, Ended
  <2> QED
    BY <2>1, <2>2 DEF Taping, Preparing, Posting, Loading
<1>11. CASE Land \/ UNCHANGED vars
  <2>1. UNCHANGED <<pc, conf, exits, files, produced, tape, queue, wire, healthy>>
    BY <1>11 DEF Land, vars, replay, kafka
  <2> QED
    BY <2>1 DEF Taping, CorpusIsTheReplay, Ended, Replayed
<1> QED
  BY <1>1, <1>2, <1>3, <1>4, <1>5, <1>6, <1>7, <1>8, <1>9, <1>10, <1>11 DEF Next, Step

LEMMA TapingInit == Init => Taping
<1> SUFFICES ASSUME Init PROVE Taping
  OBVIOUS
<1>1. pc = "start" /\ produced = <<>> /\ tape = <<>> /\ queue = {} /\ wire = {}
  BY DEF Init
<1>2. {"corpus", "labels"} \subseteq DOMAIN files
  BY FilesAssumption DEF Init
<1>3. IsSeq(produced)
  BY <1>1, EmptyIsSeq
<1> QED
  BY <1>1, <1>2, <1>3 DEF Taping, CorpusIsTheReplay, Ended

\* The corpus of a run that ended by itself is what the run produced, in that
\* order: whatever breaks, nothing is recorded that was not handed over, nor the
\* other way round.  If the run succeeded and no delivery failed, all of it is on
\* the topic; of the order there the theorem says nothing, as the code sets no key.
THEOREM CorpusCorrect == Spec => []CorpusIsTheReplay
<1>1. RInv /\ Taping /\ [Next]_vars => Taping'
  BY TapingStep
<1>2. Taping => CorpusIsTheReplay
  BY DEF Taping
<1> QED
  BY <1>1, <1>2, TapingInit, RunInductive, PTL DEF Spec
-----------------------------------------------------------------------------
(* What the labels say of the alarms.                                      *)

\* The id of the k-th scenario instance.
IdAt(k) == <<conf.scenarios[k \div conf.instances + 1], k % conf.instances>>

\* The alarms of finished cascades, and the labels one of them is in.
Finished  == 1..(IF root = 0 THEN Len(alarms) ELSE root - 1)
Owners(n) == {l.id : l \in {k \in labels : n = k.root \/ n \in k.children}}

\* While cascades are synthesized: a label is of an earlier instance and of
\* finished cascades, and an alarm of a finished cascade is in its own alone.
Labelling ==
  /\ turn \in Nat /\ turn <= Len(conf.scenarios) * conf.instances
  /\ root # 0 => turn # Len(conf.scenarios) * conf.instances
  /\ \A n \in Finished : alarms[n].scenario # Unlabelled /\ Owners(n) = {alarms[n].scenario}
  /\ root # 0 => \A n \in root..Len(alarms) : alarms[n].scenario = InstanceId
  /\ \A l \in labels : /\ l.root \in Finished /\ l.children \subseteq Finished
                       /\ \E k \in Nat : k < turn /\ l.id = IdAt(k)

\* Once noise and background are among the alarms.
Divided ==
  /\ files.labels = labels
  /\ \A n \in DOMAIN alarms :
       Owners(n) = IF alarms[n].scenario = Unlabelled THEN {} ELSE {alarms[n].scenario}

Dividing ==
  /\ pc \in Preparing \cup Posting \cup {"open"} =>
       alarms = <<>> /\ root = 0 /\ labels = {} /\ turn = 0
  /\ pc \in Loading => conf.instances \in Nat \ {0} /\ conf.scenarios \in Seq(DOMAIN Library)
  /\ pc = "load" => conf.ingest
  /\ pc = "synth" /\ IsInjective(conf.scenarios) => Labelling
  /\ pc = "replay" /\ ~conf.ingest /\ IsInjective(conf.scenarios) => Divided
  /\ LabelsDivideTheSignal

LEMMA DivMod ==
  ASSUME NEW a \in Nat, NEW c \in Nat \ {0}
  PROVE  a \div c \in Nat /\ a % c \in 0..c - 1 /\ a = (a \div c) * c + (a % c)
<1>1. a % c \in 0..c - 1
  OBVIOUS
<1>2. a \div c \in Int
  OBVIOUS
<1>3. a = c * (a \div c) + (a % c)
  OBVIOUS
<1> DEFINE q == a \div c
<1>4. q >= 0
  OBVIOUS
<1> QED
  BY <1>1, <1>2, <1>3, <1>4

LEMMA Places ==
  ASSUME NEW c \in Nat \ {0}, NEW m \in Nat, NEW a \in Nat, a < m * c
  PROVE  a \div c + 1 \in 1..m
<1>1. PICK q \in Nat, r \in Nat : q = a \div c /\ a = q * c + r
  BY DivMod
<1>2. ASSUME q >= m PROVE FALSE
  <2>1. m * c <= q * c
    BY <1>2, Multiples
  <2>2. q * c \in Nat /\ m * c \in Nat
    OBVIOUS
  <2> QED
    BY <2>1, <2>2, <1>1
<1> QED
  BY <1>1, <1>2

\* No two instances of a run have the same id.
LEMMA IdsDiffer ==
  ASSUME conf.instances \in Nat \ {0}, conf.scenarios \in Seq(DOMAIN Library),
         IsInjective(conf.scenarios), NEW a \in Nat, NEW b \in Nat, a < b,
         b < Len(conf.scenarios) * conf.instances
  PROVE  IdAt(a) # IdAt(b)
<1>1. PICK c \in Nat \ {0}, m \in Nat : c = conf.instances /\ m = Len(conf.scenarios)
  OBVIOUS
<1>2. PICK x \in Nat, y \in Nat : x = a \div c /\ y = b \div c
  BY DivMod
<1>3. a < m * c /\ b < m * c
  <2>1. m * c \in Nat /\ b < m * c
    BY <1>1
  <2> QED
    BY <2>1
<1>4. x + 1 \in 1..m /\ y + 1 \in 1..m
  BY <1>2, <1>3, Places
<1>5. DOMAIN conf.scenarios = 1..m
  BY <1>1
<1>6. ASSUME IdAt(a) = IdAt(b) PROVE FALSE
  <2>1. conf.scenarios[x + 1] = conf.scenarios[y + 1] /\ a % c = b % c
    BY <1>1, <1>2, <1>6 DEF IdAt
  <2>2. x + 1 = y + 1
    BY <1>4, <1>5, <2>1 DEF IsInjective
  <2>3. a = (a \div c) * c + (a % c) /\ b = (b \div c) * c + (b % c) /\ a % c \in Int
    <3>1. \A i \in Nat : i = (i \div c) * c + (i % c) /\ i % c \in 0..c - 1
      BY DivMod
    <3>2. 0..c - 1 \subseteq Int
      OBVIOUS
    <3> QED
      BY <3>1, <3>2
  <2>4. PICK r \in Int : r = a % c
    BY <2>3
  <2>5. a = x * c + r /\ b = y * c + r
    BY <1>2, <2>1, <2>3, <2>4
  <2>6. a = b
    BY <2>2, <2>5
  <2> QED
    BY <2>6
<1> QED
  BY <1>6

\* A cascade begins.
LEMMA LabellingInject ==
  ASSUME RInv, Dividing, Labelling, InjectFault
  PROVE  Labelling'
<1>1. PICK o, at : Inject(InstanceId, Library[Scenario].relations, o, Library[Scenario].alarm, at)
  BY DEF InjectFault
<1>2. PICK a : a = Alarm(InstanceId, o, Library[Scenario].alarm, at, <<>>)
  OBVIOUS
<1>3. a.scenario = InstanceId
  BY <1>2 DEF Alarm
<1>4. alarms' = Append(alarms, a) /\ root' = Len(alarms) + 1
  BY <1>1, <1>2 DEF Inject
<1>5. PICK n \in Nat : n = Len(alarms)
  BY Appended DEF RInv, CInv, Types
<1>6. /\ Len(alarms') = n + 1 /\ \A i \in 1..n : alarms'[i] = alarms[i]
      /\ alarms'[n + 1] = a
  BY <1>4, <1>5, Appended DEF RInv, CInv, Types
<1>7. /\ root = 0 /\ turn # Len(conf.scenarios) * conf.instances
      /\ UNCHANGED <<conf, labels, turn>>
  BY DEF InjectFault, Synthesized
<1>8. Finished = 1..n /\ Finished' = 1..n /\ root' = n + 1
  BY <1>4, <1>5, <1>7 DEF Finished
<1>9. \A i \in Finished' : alarms'[i].scenario # Unlabelled /\ Owners(i)' = {alarms'[i].scenario}
  BY <1>6, <1>7, <1>8 DEF Labelling, Owners
<1>10. \A i \in root'..Len(alarms') : alarms'[i].scenario = InstanceId'
  <2>1. root'..Len(alarms') = {n + 1}
    BY <1>6, <1>8
  <2>2. InstanceId' = InstanceId
    BY <1>7 DEF InstanceId, Scenario
  <2> QED
    BY <1>3, <1>6, <2>1, <2>2
<1>11. \A l \in labels' : /\ l.root \in Finished' /\ l.children \subseteq Finished'
                          /\ \E k \in Nat : k < turn' /\ l.id = IdAt(k)'
  BY <1>7, <1>8 DEF Labelling, IdAt
<1> QED
  BY <1>7, <1>9, <1>10, <1>11 DEF Labelling

\* It goes on: what it raises is of the instance of its root.
LEMMA LabellingCascade ==
  ASSUME RInv, Dividing, Labelling, Cascade
  PROVE  Labelling'
<1>1. UNCHANGED <<conf, labels, turn, root>>
  BY DEF Cascade, Propagate, FollowEdge, PassEdge, NextObject
<1>2. CASE UNCHANGED alarms
  BY <1>1, <1>2 DEF Labelling, Finished, Owners, IdAt, InstanceId, Scenario
<1>3. CASE \E draws : FollowEdge(draws)
  <2>1. PICK draws, j : HasTurn /\ Follows(Turn) /\ alarms' = alarms \o Effects(Turn, Delay(j))
    BY <1>3 DEF FollowEdge
  <2>2. PICK d : d = Delay(j)
    OBVIOUS
  <2>3. root # 0 /\ root \in 1..Len(alarms) /\ IsSeq(alarms) /\ Head(frontier) \in Objects
    BY <2>1, Appended DEF HasTurn, RInv, CInv, Types, Resting
  <2>4. Turn \in [relation : Relations, target : Objects]
    <3>1. Edges[Head(frontier)] \in Seq([relation : Relations, target : Objects])
      BY <2>3, GraphAssumption
    <3> QED
      BY <2>1, <3>1, ElementIn DEF Turn, HasTurn
  <2>5. Templates[Turn.relation] \in Seq(AlarmTypes)
    BY <2>4, TemplatesAssumption
  <2>6. PICK m \in Nat : m = Len(Templates[Turn.relation]) /\ DOMAIN Templates[Turn.relation] = 1..m
    BY <2>5
  <2>7. PICK f : f = Effects(Turn, d)
    OBVIOUS
  <2>8. IsFun(f, m) /\ \A t \in 1..m : f[t].scenario = alarms[root].scenario
    <3>1. f \in [1..m -> {f[t] : t \in 1..m}]
      BY <2>6, <2>7 DEF Effects
    <3> QED
      BY <2>6, <2>7, <3>1 DEF Effects, Alarm, IsFun
  <2>9. PICK n \in Nat : n = Len(alarms)
    BY <2>3, Appended
  <2>10. /\ Len(alarms') = n + m
         /\ \A i \in 1..n : alarms'[i] = alarms[i]
         /\ \A i \in n + 1..n + m : alarms'[i] = f[i - n]
    <3>1. alarms' = alarms \o f
      BY <2>1, <2>2, <2>7
    <3> QED
      BY <2>3, <2>8, <2>9, <3>1, Extended
  <2>11. alarms[root].scenario = InstanceId /\ InstanceId' = InstanceId
    BY <1>1, <2>3, <2>9 DEF Labelling, InstanceId, Scenario
  <2>12. ASSUME NEW i \in root'..Len(alarms')
         PROVE  alarms'[i].scenario = InstanceId'
    <3>1. CASE i \in 1..n
      BY <1>1, <2>3, <2>9, <2>10, <2>11, <2>12, <3>1 DEF Labelling
    <3>2. CASE i \in n + 1..n + m
      <4>1. i - n \in 1..m
        BY <3>2
      <4> QED
        BY <2>8, <2>10, <2>11, <3>2, <4>1
    <3> QED
      BY <1>1, <2>3, <2>9, <2>10, <2>12, <3>1, <3>2
  <2>13. Finished' = Finished /\ \A i \in Finished : i \in 1..n
    BY <1>1, <2>3, <2>9 DEF Finished
  <2>14. \A i \in Finished' : alarms'[i].scenario # Unlabelled /\ Owners(i)' = {alarms'[i].scenario}
    BY <1>1, <2>10, <2>13 DEF Labelling, Owners
  <2>15. \A l \in labels' : /\ l.root \in Finished' /\ l.children \subseteq Finished'
                            /\ \E k \in Nat : k < turn' /\ l.id = IdAt(k)'
    BY <1>1, <2>13 DEF Labelling, IdAt
  <2> QED
    BY <1>1, <2>12, <2>14, <2>15 DEF Labelling
<1> QED
  BY <1>2, <1>3 DEF Cascade, Propagate, PassEdge, NextObject

\* It ends: no label has its instance's id, and none its alarms.
LEMMA LabellingRecord ==
  ASSUME RInv, Dividing, IsInjective(conf.scenarios), Labelling, RecordLabel
  PROVE  Labelling'
<1>1. /\ root # 0 /\ root' = 0 /\ turn' = turn + 1 /\ UNCHANGED <<conf, alarms>>
      /\ labels' = {l \in labels : l.id # InstanceId} \cup {Label}
      /\ pc = "synth"
  BY DEF RecordLabel
<1>2. PICK n \in Nat, r \in Nat \ {0}, t \in Nat :
        n = Len(alarms) /\ r = root /\ t = turn /\ r <= n
  BY <1>1, Appended DEF RInv, CInv, Types, Labelling
<1>3. conf.instances \in Nat \ {0} /\ conf.scenarios \in Seq(DOMAIN Library)
  BY <1>1 DEF Dividing, Loading
<1>4. PICK m \in Nat : m = Len(conf.scenarios) * conf.instances
  BY <1>3
<1>5. t < m
  BY <1>1, <1>2, <1>4 DEF Labelling
<1>6. InstanceId = IdAt(t)
  BY <1>2 DEF InstanceId, Scenario, IdAt
<1>7. \A l \in labels : l.id # InstanceId
  <2>1. \A k \in Nat : k < t => IdAt(k) # IdAt(t)
    BY <1>3, <1>4, <1>5, IdsDiffer
  <2> QED
    BY <1>2, <1>6, <2>1 DEF Labelling
<1>8. PICK new : new = Label
  OBVIOUS
<1>9. labels' = labels \cup {new}
  BY <1>1, <1>7, <1>8
<1>10. new.id = InstanceId /\ new.root = r /\ new.children = r + 1..n
  BY <1>2, <1>8 DEF Label, Children
<1>11. Finished = 1..r - 1 /\ Finished' = 1..n
  BY <1>1, <1>2 DEF Finished
<1>12. \A l \in labels : l.root \in 1..r - 1 /\ l.children \subseteq 1..r - 1
  BY <1>11 DEF Labelling
<1>13. ASSUME NEW i \in 1..r - 1
       PROVE  alarms'[i].scenario # Unlabelled /\ Owners(i)' = {alarms'[i].scenario}
  <2>1. i # new.root /\ i \notin new.children
    BY <1>2, <1>10
  <2>2. Owners(i)' = Owners(i)
    BY <1>9, <2>1 DEF Owners
  <2> QED
    BY <1>1, <1>11, <2>2 DEF Labelling
<1>14. ASSUME NEW i \in r..n
       PROVE  alarms'[i].scenario # Unlabelled /\ Owners(i)' = {alarms'[i].scenario}
  <2>1. i = new.root \/ i \in new.children
    BY <1>2, <1>10
  <2>2. \A l \in labels : i # l.root /\ i \notin l.children
    BY <1>2, <1>12
  <2>3. {k \in labels' : i = k.root \/ i \in k.children} = {new}
    BY <1>9, <2>1, <2>2
  <2>4. Owners(i)' = {new.id}
    BY <2>3 DEF Owners
  <2>5. alarms'[i].scenario = InstanceId
    BY <1>1, <1>2 DEF Labelling
  <2>6. InstanceId # Unlabelled
    BY DEF InstanceId, Unlabelled
  <2> QED
    BY <1>10, <2>4, <2>5, <2>6
<1>15. \A i \in Finished' : alarms'[i].scenario # Unlabelled /\ Owners(i)' = {alarms'[i].scenario}
  BY <1>2, <1>11, <1>13, <1>14
<1>16. ASSUME NEW l \in labels'
       PROVE  /\ l.root \in Finished' /\ l.children \subseteq Finished'
              /\ \E k \in Nat : k < turn' /\ l.id = IdAt(k)'
  <2>1. \A k : IdAt(k)' = IdAt(k)
    BY <1>1 DEF IdAt
  <2>2. CASE l \in labels
    <3>1. PICK k \in Nat : k < t /\ l.id = IdAt(k)
      BY <1>2, <2>2 DEF Labelling
    <3>2. k < t + 1
      BY <3>1
    <3>3. 1..r - 1 \subseteq 1..n
      BY <1>2
    <3> QED
      BY <1>1, <1>2, <1>11, <1>12, <2>1, <2>2, <3>1, <3>2, <3>3
  <2>3. CASE l = new
    <3>1. t < t + 1 /\ r \in 1..n /\ r + 1..n \subseteq 1..n
      BY <1>2
    <3> QED
      BY <1>1, <1>2, <1>6, <1>10, <1>11, <2>1, <2>3, <3>1
  <2> QED
    BY <1>9, <2>2, <2>3
<1>17. turn' \in Nat /\ turn' <= Len(conf.scenarios) * conf.instances
  BY <1>1, <1>2, <1>4, <1>5
<1> QED
  BY <1>1, <1>15, <1>16, <1>17 DEF Labelling

\* Background and noise come behind, outside of every label.
LEMMA DividedBlend ==
  ASSUME RInv, Taping, Dividing, Labelling, Blend
  PROVE  Divided'
<1>1. /\ pc = "synth" /\ root = 0 /\ UNCHANGED <<conf, labels>>
      /\ files' = [files EXCEPT !.labels = labels]
  BY DEF Blend
<1>2. files'.labels = labels'
  BY <1>1 DEF Taping
<1>3. conf.background \in Percent /\ conf.noise \in Percent
  BY <1>1 DEF RInv, Exiting, Loading
<1>4. PICK c \in Int : c = Count(conf.background) + Count(conf.noise)
  BY <1>1, <1>3, CountIsInteger
<1>5. PICK at \in [1..c -> Moments] :
        alarms' = alarms \o GenerateNoise(at)
  BY <1>4 DEF Blend
<1>6. PICK m \in Nat : 1..c = 1..m
  <2>1. CASE c >= 0
    BY <2>1
  <2>2. CASE c < 0
    <3>1. 1..c = 1..0
      BY <2>2
    <3> QED
      BY <3>1
  <2> QED
    BY <2>1, <2>2
<1>7. PICK f : f = GenerateNoise(at)
  OBVIOUS
<1>8. IsFun(f, m) /\ \A k \in 1..m : f[k].scenario = Unlabelled
  <2>1. f \in [1..m -> {f[k] : k \in 1..m}]
    BY <1>6, <1>7 DEF GenerateNoise
  <2> QED
    BY <1>6, <1>7, <2>1 DEF GenerateNoise, Alarm, IsFun
<1>9. PICK n \in Nat : n = Len(alarms)
  BY Appended DEF RInv, CInv, Types
<1>10. /\ IsSeq(alarms') /\ Len(alarms') = n + m
       /\ \A i \in 1..n : alarms'[i] = alarms[i]
       /\ \A i \in n + 1..n + m : alarms'[i] = f[i - n]
  <2>1. alarms' = alarms \o f /\ IsSeq(alarms)
    BY <1>5, <1>7 DEF RInv, CInv, Types
  <2> QED
    BY <1>8, <1>9, <2>1, Extended
<1>11. DOMAIN alarms' = 1..n + m
  BY <1>9, <1>10 DEF IsSeq
<1>12. Finished = 1..n
  BY <1>1, <1>9 DEF Finished
<1>13. \A i : Owners(i)' = Owners(i)
  BY <1>1 DEF Owners
<1>14. ASSUME NEW i \in 1..n
       PROVE  Owners(i)' = IF alarms'[i].scenario = Unlabelled THEN {} ELSE {alarms'[i].scenario}
  BY <1>10, <1>12, <1>13 DEF Labelling
<1>15. ASSUME NEW i \in n + 1..n + m
       PROVE  Owners(i)' = IF alarms'[i].scenario = Unlabelled THEN {} ELSE {alarms'[i].scenario}
  <2>1. i - n \in 1..m
    OBVIOUS
  <2>2. alarms'[i].scenario = Unlabelled
    BY <1>8, <1>10, <2>1
  <2>3. \A l \in labels : i # l.root /\ i \notin l.children
    BY <1>12 DEF Labelling
  <2>4. Owners(i) = {}
    BY <2>3 DEF Owners
  <2> QED
    BY <1>13, <2>2, <2>4
<1>16. \A i \in DOMAIN alarms' :
         Owners(i)' = IF alarms'[i].scenario = Unlabelled THEN {} ELSE {alarms'[i].scenario}
  <2>1. \A i \in DOMAIN alarms' : i \in 1..n \/ i \in n + 1..n + m
    BY <1>11
  <2> QED
    BY <2>1, <1>14, <1>15
<1> QED
  BY <1>2, <1>16 DEF Divided

\* A run ends well with the labels it had, or not.
LEMMA DividingEnds ==
  ASSUME Dividing, UNCHANGED <<conf, alarms, root, labels, turn>>, pc' = "exited",
         exits'[Len(exits')] # 0 \/ (pc = "replay" /\ files'.labels = files.labels)
  PROVE  Dividing'
<1>1. LabelsDivideTheSignal'
  BY DEF Dividing, Divided, Owners, LabelsDivideTheSignal, Ended
<1> QED
  BY <1>1 DEF Dividing, Preparing, Posting, Loading

LEMMA DividingStep == ASSUME RInv, Taping, Dividing, [Next]_vars PROVE Dividing'
<1> USE DEF Preparing, Posting, Loading
<1>1. CASE BuildPlan
  <2>1. /\ UNCHANGED <<conf, alarms, root, labels, turn>> /\ conf = NoRun /\ pc \in Preparing
        /\ pc' \in {"exited", "settings"}
    BY <1>1 DEF BuildPlan, Exit, Goto, synth, cascade, RInv, Exiting
  <2>2. LabelsDivideTheSignal'
    BY <2>1 DEF LabelsDivideTheSignal, Ended, NoRun
  <2> QED
    BY <2>1, <2>2 DEF Dividing
<1>2. CASE LoadSettings
  <2>1. /\ UNCHANGED <<alarms, root, labels, turn>> /\ conf = NoRun /\ pc \in Preparing
    BY <1>2 DEF LoadSettings, synth, cascade, RInv, Exiting
  <2>2. CASE pc' = "exited" /\ UNCHANGED conf
    <3>1. LabelsDivideTheSignal'
      BY <2>1, <2>2 DEF LabelsDivideTheSignal, Ended, NoRun
    <3> QED
      BY <2>1, <2>2, <3>1 DEF Dividing
  <2>3. CASE /\ Valid(Settings(env), Phase(args), args.ingest)
             /\ conf' = Over(Plan(args), Settings(env))
             /\ args.dry /\ pc' = "exited"
    <3>1. ~conf'.ran
      BY <2>3, PlannedConf
    <3>2. LabelsDivideTheSignal'
      BY <3>1 DEF LabelsDivideTheSignal, Ended
    <3> QED
      BY <2>1, <2>3, <3>2 DEF Dividing
  <2>4. CASE /\ Valid(Settings(env), Phase(args), args.ingest)
             /\ conf' = Over(Plan(args), Settings(env))
             /\ pc' \in {"snapshot", "open"}
    <3>1. conf'.instances \in Nat \ {0} /\ conf'.scenarios \in Seq(DOMAIN Library)
      BY <2>4, PlannedConf
    <3>2. LabelsDivideTheSignal'
      BY <2>4 DEF LabelsDivideTheSignal, Ended
    <3> QED
      BY <2>1, <2>4, <3>1, <3>2 DEF Dividing
  <2> QED
    BY <1>2, <2>2, <2>3, <2>4 DEF LoadSettings, Exit, Goto
<1>3. CASE Snapshot \/ MockUpload \/ Post \/ PostFails \/ PostGarbled
  <2>1. /\ UNCHANGED <<alarms, root, labels, turn, conf>> /\ pc \in Posting
        /\ pc' \in {"upload", "exited"}
    BY <1>3 DEF Snapshot, WriteSnapshot, MockUpload, Post, PostFails, PostGarbled,
                PostAgain, Exit, Goto, synth, cascade
  <2>2. conf.phase = "p1"
    BY <2>1 DEF RInv, Exiting
  <2>3. LabelsDivideTheSignal'
    BY <2>1, <2>2 DEF LabelsDivideTheSignal, Replayed
  <2> QED
    BY <2>1, <2>3 DEF Dividing
<1>4. CASE NextRun
  <2>1. pc' = "start" /\ alarms' = <<>> /\ root' = 0 /\ labels' = {} /\ turn' = 0
    BY <1>4 DEF NextRun, Goto
  <2> QED
    BY <2>1 DEF Dividing, LabelsDivideTheSignal, Ended
<1>5. CASE Open
  <2>1. /\ UNCHANGED <<alarms, root, labels, turn, conf>> /\ pc = "open"
        /\ pc' = IF conf.ingest THEN "load" ELSE "synth"
    BY <1>5 DEF Open, Goto, synth, cascade
  <2>2. alarms = <<>> /\ root = 0 /\ labels = {} /\ turn = 0
    BY <2>1 DEF Dividing
  <2>3. conf.instances \in Nat \ {0} /\ conf.scenarios \in Seq(DOMAIN Library)
    BY <2>1 DEF Dividing
  <2>4. Labelling'
    <3>1. PICK m \in Nat : m = Len(conf.scenarios) * conf.instances
      BY <2>3
    <3>2. Finished' = {}
      <4>1. Len(alarms') = 0
        BY <2>1, <2>2, EmptyIsSeq
      <4> QED
        BY <2>1, <2>2, <4>1 DEF Finished
    <3> QED
      BY <2>1, <2>2, <3>1, <3>2 DEF Labelling
  <2>5. LabelsDivideTheSignal'
    BY <2>1 DEF LabelsDivideTheSignal, Ended
  <2> QED
    BY <2>1, <2>3, <2>4, <2>5 DEF Dividing
<1>6. CASE Load
  <2>1. conf.ingest /\ UNCHANGED conf /\ pc' \in {"exited", "replay"}
    BY <1>6 DEF Load, Close, Exit, Goto, Dividing
  <2>2. LabelsDivideTheSignal'
    BY <2>1 DEF LabelsDivideTheSignal
  <2> QED
    BY <2>1, <2>2 DEF Dividing
<1>7. CASE InjectFault \/ Cascade \/ RecordLabel
  <2>1. pc = "synth" /\ UNCHANGED <<pc, conf>>
    BY <1>7 DEF InjectFault, Cascade, RecordLabel
  <2>2. IsInjective(conf.scenarios) => Labelling'
    BY <1>7, <2>1, LabellingInject, LabellingCascade, LabellingRecord DEF Dividing
  <2>3. LabelsDivideTheSignal'
    BY <2>1 DEF LabelsDivideTheSignal, Ended
  <2> QED
    BY <2>1, <2>2, <2>3 DEF Dividing
<1>8. CASE Blend
  <2>1. pc = "synth" /\ pc' = "replay" /\ UNCHANGED conf
    BY <1>8 DEF Blend, Goto
  <2>2. IsInjective(conf.scenarios) => Divided'
    BY <1>8, <2>1, DividedBlend DEF Dividing
  <2>3. LabelsDivideTheSignal'
    BY <2>1 DEF LabelsDivideTheSignal, Ended
  <2> QED
    BY <2>1, <2>2, <2>3 DEF Dividing
<1>9. CASE Produce \/ Deliver \/ DeliveryFails \/ UNCHANGED vars
  <2>1. UNCHANGED <<pc, conf, exits, files, alarms, root, labels, turn>>
    BY <1>9 DEF Produce, Deliver, DeliveryFails, vars, synth, cascade
  <2>2. LabelsDivideTheSignal'
    BY <2>1 DEF Dividing, LabelsDivideTheSignal, Ended, Replayed
  <2> QED
    BY <2>1, <2>2 DEF Dividing, Labelling, Divided, Owners, Finished, IdAt, InstanceId, Scenario
<1>10. CASE Land
  <2>1. UNCHANGED <<pc, conf, exits, files, alarms, root, labels, turn>>
    BY <1>10 DEF Land, synth, cascade
  <2>2. LabelsDivideTheSignal'
    BY <2>1 DEF Dividing, LabelsDivideTheSignal, Ended, Replayed
  <2> QED
    BY <2>1, <2>2 DEF Dividing, Labelling, Divided, Owners, Finished, IdAt, InstanceId, Scenario
<1>11. CASE QueueFull \/ Flush
  <2>1. /\ UNCHANGED <<conf, alarms, root, labels, turn>> /\ pc = "replay" /\ pc' = "exited"
        /\ \E code : Close(code)
    BY <1>11 DEF QueueFull, Flush, Close, Exit, synth, cascade
  <2>2. files'.labels = files.labels
    BY <2>1 DEF Close, WriteCorpus, Taping
  <2> QED
    BY <2>1, <2>2, DividingEnds
<1>12. CASE Kill
  <2>1. /\ UNCHANGED <<conf, alarms, root, labels, turn>> /\ pc' = "exited"
        /\ exits'[Len(exits')] = 137
    BY <1>12, LastAppended DEF Kill, Exit, synth, cascade, RInv, Exiting
  <2> QED
    BY <2>1, DividingEnds
<1> QED
  BY <1>1, <1>2, <1>3, <1>4, <1>5, <1>6, <1>7, <1>8, <1>9, <1>10, <1>11, <1>12 DEF Next, Step

LEMMA DividingInit == Init => Dividing
BY DEF Init, CascadeInit, Dividing, LabelsDivideTheSignal, Ended, Preparing, Posting, Loading

\* Labels divide up the signal: each alarm of a cascade is in the label of its
\* own scenario and in no other, noise is in none, and the file says what the
\* run knows, for any number of scenarios and instances.
THEOREM LabelsCorrect == Spec => []LabelsDivideTheSignal
<1>1. RInv /\ Taping /\ Dividing /\ [Next]_vars => Taping' /\ Dividing'
  BY TapingStep, DividingStep
<1>2. Dividing => LabelsDivideTheSignal
  BY DEF Dividing
<1> QED
  BY <1>1, <1>2, TapingInit, DividingInit, RunInductive, PTL DEF Spec
-----------------------------------------------------------------------------
(* The sort.                                                               *)

Before(f, m, n) == f[m].at < f[n].at \/ (f[m].at = f[n].at /\ m < n)

\* A place in the order is by how many are before.
PlaceOf(f, c, m) == Cardinality({k \in 1..c : Before(f, k, m)}) + 1

LEMMA PlacesIn ==
  ASSUME NEW c \in Nat, NEW f, \A n \in 1..c : f[n].at \in Int, NEW m \in 1..c
  PROVE  PlaceOf(f, c, m) \in 1..c
<1>1. PICK A : A = {k \in 1..c : Before(f, k, m)}
  OBVIOUS
<1>2. A \subseteq 1..c /\ m \notin A
  BY <1>1 DEF Before
<1>3. IsFiniteSet(1..c) /\ Cardinality(1..c) = c
  BY FS_Interval
<1>4. IsFiniteSet(A) /\ Cardinality(A) <= c /\ Cardinality(A) # c
  BY <1>2, <1>3, FS_Subset
<1>5. PICK a \in Nat : a = Cardinality(A)
  BY <1>4, FS_CardinalityType
<1> QED
  BY <1>1, <1>4, <1>5 DEF PlaceOf

LEMMA PlacesOrdered ==
  ASSUME NEW c \in Nat, NEW f, \A n \in 1..c : f[n].at \in Int,
         NEW m \in 1..c, NEW n \in 1..c, Before(f, m, n)
  PROVE  PlaceOf(f, c, m) < PlaceOf(f, c, n)
<1>1. PICK A, B : A = {k \in 1..c : Before(f, k, m)} /\ B = {k \in 1..c : Before(f, k, n)}
  OBVIOUS
<1>2. m \in B /\ m \notin A
  BY <1>1 DEF Before
<1>3. A \subseteq B
  <2>1. ASSUME NEW k \in 1..c, Before(f, k, m) PROVE Before(f, k, n)
    <3>1. f[k].at \in Int /\ f[m].at \in Int /\ f[n].at \in Int
      OBVIOUS
    <3> QED
      BY <2>1, <3>1 DEF Before
  <2> QED
    BY <1>1, <2>1
<1>4. IsFiniteSet(B)
  <2>1. B \subseteq 1..c /\ IsFiniteSet(1..c)
    BY <1>1, FS_Interval
  <2> QED
    BY <2>1, FS_Subset
<1>5. IsFiniteSet(A) /\ Cardinality(A) <= Cardinality(B) /\ Cardinality(A) # Cardinality(B)
  BY <1>2, <1>3, <1>4, FS_Subset
<1>6. PICK a \in Nat, b \in Nat : a = Cardinality(A) /\ b = Cardinality(B)
  BY <1>4, <1>5, FS_CardinalityType
<1> QED
  BY <1>1, <1>5, <1>6 DEF PlaceOf

\* Every place is taken, by one alone.
LEMMA PlacesTaken ==
  ASSUME NEW c \in Nat, NEW f, \A n \in 1..c : f[n].at \in Int
  PROVE  /\ \A i \in 1..c : \E m \in 1..c : PlaceOf(f, c, m) = i
         /\ \A m, n \in 1..c : PlaceOf(f, c, m) = PlaceOf(f, c, n) => m = n
<1> DEFINE D == 1..c
           place == [m \in D |-> PlaceOf(f, c, m)]
<1>1. \A m \in D : place[m] \in D
  BY PlacesIn
<1>2. ASSUME NEW m \in D, NEW n \in D, place[m] = place[n]
      PROVE  m = n
  <2>1. PICK a \in Nat, b \in Nat : a = PlaceOf(f, c, m) /\ b = PlaceOf(f, c, n)
    BY PlacesIn
  <2>2. a = b
    BY <1>2, <2>1
  <2>3. ~Before(f, m, n) /\ ~Before(f, n, m)
    <3>1. Before(f, m, n) => a < b
      BY <2>1, PlacesOrdered
    <3>2. Before(f, n, m) => b < a
      BY <2>1, PlacesOrdered
    <3> QED
      BY <2>2, <3>1, <3>2
  <2>4. f[m].at \in Int /\ f[n].at \in Int /\ m \in Int /\ n \in Int
    OBVIOUS
  <2> QED
    BY <2>3, <2>4 DEF Before
<1>3. IsFiniteSet(D) /\ Cardinality(D) = c
  BY FS_Interval
<1>4. place \in Injection(D, D)
  BY <1>1, <1>2 DEF Injection, IsInjective
<1> HIDE DEF D, place
<1>5. place \in Surjection(D, D)
  BY <1>3, <1>4, FS_Injection
<1> USE DEF D, place
<1>6. \A i \in D : \E m \in D : place[m] = i
  BY <1>5 DEF Surjection
<1> QED
  BY <1>2, <1>6

\* A sort by time loses no alarm and keeps the order of what it is given.
LEMMA Sorting ==
  ASSUME NEW c \in Nat, NEW f, \A n \in 1..c : f[n].at \in Int,
         NEW s, \A i \in 1..c : s[i] \in 1..c /\ PlaceOf(f, c, s[i]) = i
  PROVE  /\ \A m \in 1..c : \E i \in 1..c : s[i] = m
         /\ \A i \in 1..c : s[i] \in 1..c
         /\ \A i, j \in 1..c : Before(f, s[i], s[j]) => i < j
<1>1. ASSUME NEW i \in 1..c
      PROVE  s[i] \in 1..c /\ PlaceOf(f, c, s[i]) = i
  OBVIOUS
<1>2. ASSUME NEW m \in 1..c
      PROVE  \E i \in 1..c : s[i] = m
  <2>1. PICK i \in 1..c : i = PlaceOf(f, c, m)
    BY PlacesIn
  <2>2. s[i] \in 1..c /\ PlaceOf(f, c, s[i]) = PlaceOf(f, c, m)
    BY <1>1, <2>1
  <2> QED
    BY <2>2, PlacesTaken
<1>3. ASSUME NEW i \in 1..c, NEW j \in 1..c, Before(f, s[i], s[j])
      PROVE  i < j
  <2>1. PICK m \in 1..c, n \in 1..c : m = s[i] /\ n = s[j]
    BY <1>1
  <2>2. PlaceOf(f, c, m) = i /\ PlaceOf(f, c, n) = j
    BY <1>1, <2>1
  <2> QED
    BY <1>3, <2>1, <2>2, PlacesOrdered
<1> QED
  BY <1>1, <1>2, <1>3
-----------------------------------------------------------------------------
(* Causes go out before their effects.                                     *)

\* A label's children come after its root, and are not raised before it.
Timely ==
  /\ \A n \in 1..Len(alarms) : alarms[n].at \in Int
  /\ \A l \in labels :
       /\ l.root \in 1..Len(alarms)
       /\ \A n \in l.children : n \in l.root + 1..Len(alarms) /\ alarms[l.root].at <= alarms[n].at
  /\ root # 0 => \A n \in root..Len(alarms) : alarms[root].at <= alarms[n].at

\* A cascade begins.
LEMMA TimelyInject == ASSUME RInv, Timely, InjectFault PROVE Timely'
<1>1. PICK o, at : at \in Moments /\ Inject(InstanceId, Library[Scenario].relations, o,
                                            Library[Scenario].alarm, at)
  BY DEF InjectFault
<1>2. PICK a : a = Alarm(InstanceId, o, Library[Scenario].alarm, at, <<>>)
  OBVIOUS
<1>3. a.at \in Int
  BY <1>1, <1>2, MomentsAssumption DEF Alarm
<1>4. alarms' = Append(alarms, a) /\ root' = Len(alarms) + 1 /\ UNCHANGED labels
  BY <1>1, <1>2 DEF Inject, InjectFault
<1>5. PICK c \in Nat : c = Len(alarms)
  BY Appended DEF RInv, CInv, Types
<1>6. /\ Len(alarms') = c + 1 /\ \A i \in 1..c : alarms'[i] = alarms[i]
      /\ alarms'[c + 1] = a
  BY <1>4, <1>5, Appended DEF RInv, CInv, Types
<1>7. \A n \in 1..Len(alarms') : alarms'[n].at \in Int
  BY <1>3, <1>5, <1>6 DEF Timely
<1>8. \A n \in root'..Len(alarms') : alarms'[root'].at <= alarms'[n].at
  BY <1>3, <1>4, <1>5, <1>6
<1>9. ASSUME NEW l \in labels'
      PROVE  /\ l.root \in 1..Len(alarms')
             /\ \A n \in l.children :
                  n \in l.root + 1..Len(alarms') /\ alarms'[l.root].at <= alarms'[n].at
  BY <1>4, <1>5, <1>6 DEF Timely
<1> QED
  BY <1>7, <1>8, <1>9 DEF Timely

\* It goes on: what it raises is not earlier than the latest alarm.
LEMMA TimelyCascade == ASSUME RInv, Timely, Cascade PROVE Timely'
<1>1. UNCHANGED <<labels, root>>
  BY DEF Cascade, Propagate, FollowEdge, PassEdge, NextObject
<1>2. CASE UNCHANGED alarms
  BY <1>1, <1>2 DEF Timely
<1>3. CASE FollowEdge(IF conf.jitter > 0 THEN Jitters ELSE {0})
  <2>1. (IF conf.jitter > 0 THEN Jitters ELSE {0}) \in SUBSET Int
    BY DelayAssumption
  <2>2. PICK k \in Nat, d \in Nat :
          /\ Len(alarms') = Len(alarms) + k
          /\ \A n \in 1..Len(alarms) : alarms'[n] = alarms[n]
          /\ \A n \in Len(alarms) + 1..Len(alarms) + k :
               alarms'[n].at = lastAt + Shift(n - Len(alarms), d)
    <3>1. PICK draws \in SUBSET Int : FollowEdge(draws)
      BY <1>3, <2>1
    <3>2. PICK d \in Nat, T \in Seq(AlarmTypes) :
            /\ Len(alarms') = Len(alarms) + Len(T)
            /\ \A n \in 1..Len(alarms) : alarms'[n] = alarms[n]
            /\ \A n \in Len(alarms) + 1..Len(alarms) + Len(T) :
                 alarms'[n].at = lastAt + Shift(n - Len(alarms), d)
      BY <3>1, Followed DEF RInv
    <3>3. PICK k \in Nat : k = Len(T)
      OBVIOUS
    <3> QED
      BY <3>2, <3>3
  <2>3. PICK c \in Nat : c = Len(alarms)
    BY Appended DEF RInv, CInv, Types
  <2>4. root \in 1..c /\ lastAt \in Int /\ alarms[root].at \in Int /\ alarms[root].at <= lastAt
    <3>1. root # 0 /\ root \in 0..c /\ lastAt \in Int
      BY <1>3, <2>3 DEF RInv, CInv, Types, Resting, FollowEdge, HasTurn
    <3>2. root \in root..c
      BY <3>1
    <3> QED
      BY <2>3, <3>1, <3>2 DEF RInv, CInv, Timed
  <2>5. ASSUME NEW n \in c + 1..c + k
        PROVE  alarms'[n].at \in Int /\ lastAt <= alarms'[n].at
    <3>1. PICK i \in Nat : i = n - c
      OBVIOUS
    <3>2. PICK s \in Nat : s = Shift(i, d)
      BY Multiples DEF Shift
    <3>3. alarms'[n].at = lastAt + s
      BY <2>2, <2>3, <3>1, <3>2
    <3> QED
      BY <2>4, <3>3
  <2>6. \A n \in 1..c : alarms'[n] = alarms[n] /\ alarms[n].at \in Int
    BY <2>2, <2>3 DEF Timely
  <2>7. Len(alarms') = c + k
    BY <2>2, <2>3
  <2>8. \A n \in 1..Len(alarms') : alarms'[n].at \in Int
    BY <2>5, <2>6, <2>7
  <2>9. ASSUME NEW n \in root..Len(alarms')
        PROVE  alarms'[root].at <= alarms'[n].at
    <3>1. CASE n \in root..c
      BY <2>3, <2>4, <2>6, <3>1 DEF Timely
    <3>2. CASE n \in c + 1..c + k
      BY <2>4, <2>5, <2>6, <3>2
    <3> QED
      BY <2>4, <2>7, <3>1, <3>2
  <2>10. ASSUME NEW l \in labels
         PROVE  /\ l.root \in 1..Len(alarms')
                /\ \A n \in l.children :
                     n \in l.root + 1..Len(alarms') /\ alarms'[l.root].at <= alarms'[n].at
    <3>1. /\ l.root \in 1..c
          /\ \A n \in l.children : n \in l.root + 1..c /\ alarms[l.root].at <= alarms[n].at
      BY <2>3 DEF Timely
    <3> QED
      BY <2>6, <2>7, <3>1
  <2> QED
    BY <1>1, <2>8, <2>9, <2>10 DEF Timely
<1> QED
  BY <1>2, <1>3 DEF Cascade, Propagate, PassEdge, NextObject

\* It ends.
LEMMA TimelyRecord == ASSUME RInv, Timely, RecordLabel PROVE Timely'
<1>1. /\ root # 0 /\ root' = 0 /\ UNCHANGED alarms
      /\ labels' \subseteq labels \cup {Label}
  BY DEF RecordLabel
<1>2. PICK c \in Nat : c = Len(alarms)
  BY Appended DEF RInv, CInv, Types
<1>3. root \in 1..c
  BY <1>1, <1>2 DEF RInv, CInv, Types
<1>4. PICK l : l = Label
  OBVIOUS
<1>5. l.root = root /\ l.children = root + 1..c
  BY <1>2, <1>4 DEF Label, Children
<1>6. /\ l.root \in 1..c
      /\ \A n \in l.children : n \in l.root + 1..c /\ alarms[l.root].at <= alarms[n].at
  BY <1>1, <1>2, <1>3, <1>5 DEF Timely
<1> QED
  BY <1>1, <1>2, <1>4, <1>6 DEF Timely

\* Noise comes in between, but the sort keeps roots before their children.
LEMMA BlendCausal ==
  ASSUME RInv, Timely, Blend
  PROVE  IsSeq(stream') /\ Causal(stream', labels') /\ Covers(stream', labels')
<1>1. conf.background \in Percent /\ conf.noise \in Percent /\ pc = "synth" /\ UNCHANGED labels
  BY DEF RInv, Exiting, Loading, Blend
<1>2. PICK z \in Int : z = Count(conf.background) + Count(conf.noise)
  BY <1>1, CountIsInteger
<1>3. PICK at \in [1..z -> Moments] : alarms' = alarms \o GenerateNoise(at)
  BY <1>2 DEF Blend
<1>4. PICK k \in Nat : 1..z = 1..k
  <2>1. CASE z >= 0
    BY <2>1
  <2>2. CASE z < 0
    <3>1. 1..z = 1..0
      BY <2>2
    <3> QED
      BY <3>1
  <2> QED
    BY <2>1, <2>2
<1>5. PICK f : f = GenerateNoise(at)
  OBVIOUS
<1>6. IsFun(f, k) /\ \A i \in 1..k : f[i].at \in Int
  <2>1. f \in [1..k -> {f[i] : i \in 1..k}]
    BY <1>4, <1>5 DEF GenerateNoise
  <2>2. \A i \in 1..k : f[i].at = at[i] /\ at[i] \in Moments
    BY <1>4, <1>5 DEF GenerateNoise, Alarm
  <2> QED
    BY <2>1, <2>2, MomentsAssumption DEF IsFun
<1>7. PICK c \in Nat : c = Len(alarms)
  BY Appended DEF RInv, CInv, Types
<1>8. /\ IsSeq(alarms') /\ Len(alarms') = c + k
      /\ \A i \in 1..c : alarms'[i] = alarms[i]
      /\ \A i \in c + 1..c + k : alarms'[i] = f[i - c]
  <2>1. alarms' = alarms \o f /\ IsSeq(alarms)
    BY <1>3, <1>5 DEF RInv, CInv, Types
  <2> QED
    BY <1>6, <1>7, <2>1, Extended
<1>9. PICK t \in Nat : t = c + k
  OBVIOUS
<1>10. DOMAIN alarms' = 1..t
  BY <1>8, <1>9 DEF IsSeq
<1>11. \A n \in 1..t : alarms'[n].at \in Int
  <2>1. \A n \in 1..c : alarms'[n].at \in Int
    BY <1>7, <1>8 DEF Timely
  <2>2. \A n \in c + 1..c + k : n - c \in 1..k
    OBVIOUS
  <2>3. \A n \in c + 1..c + k : alarms'[n].at \in Int
    BY <1>6, <1>8, <2>2
  <2>4. \A n \in 1..t : n \in 1..c \/ n \in c + 1..c + k
    BY <1>9
  <2> QED
    BY <2>1, <2>3, <2>4
<1>12. PICK g, s : g = alarms' /\ s = stream'
  OBVIOUS
<1>13. /\ DOMAIN s = 1..t
       /\ \A i \in 1..t : s[i] \in 1..t /\ PlaceOf(g, t, s[i]) = i
  <2>1. PICK place : place = [m \in 1..t |-> PlaceOf(g, t, m)]
    OBVIOUS
  <2>2. place = [m \in 1..t |-> Cardinality({j \in 1..t : Earlier(j, m)}) + 1]
    BY <1>12, <2>1 DEF PlaceOf, Before, Earlier
  <2>3. s = [i \in 1..t |-> CHOOSE m \in 1..t : place[m] = i]
    <3>1. s = Sorted
      BY <1>12 DEF Blend
    <3> QED
      BY <1>10, <2>2, <3>1 DEF Sorted
  <2>4. \A i \in 1..t : \E m \in 1..t : place[m] = i
    <3>1. \A n \in 1..t : g[n].at \in Int
      BY <1>11, <1>12
    <3>2. \A i \in 1..t : \E m \in 1..t : PlaceOf(g, t, m) = i
      BY <3>1, PlacesTaken
    <3> QED
      BY <2>1, <3>2
  <2>5. \A i \in 1..t : s[i] \in 1..t /\ place[s[i]] = i
    BY <2>3, <2>4
  <2> QED
    BY <2>1, <2>3, <2>5
<1>14. /\ \A m \in 1..t : \E i \in 1..t : s[i] = m
       /\ \A i \in 1..t : s[i] \in 1..t
       /\ \A i, j \in 1..t : Before(g, s[i], s[j]) => i < j
  <2>1. \A n \in 1..t : g[n].at \in Int
    BY <1>11, <1>12
  <2> QED
    BY <1>13, <2>1, Sorting
<1>15. s \in [1..t -> 1..t] /\ DOMAIN s = 1..t
  <2>1. s = [i \in 1..t |-> s[i]]
    BY <1>10, <1>12 DEF Blend, Sorted
  <2> QED
    BY <1>13, <2>1
<1>16. IsSeq(s)
  <2>1. s \in Seq(1..t)
    BY <1>15
  <2> QED
    BY <2>1 DEF IsSeq
<1>17. ASSUME NEW l \in labels
       PROVE  /\ l.root \in 1..t
              /\ \A n \in l.children : n \in 1..t /\ Before(g, l.root, n)
  <2>1. /\ l.root \in 1..c
        /\ \A n \in l.children : n \in l.root + 1..c /\ alarms[l.root].at <= alarms[n].at
    BY <1>7 DEF Timely
  <2>2. ASSUME NEW n \in l.children
        PROVE  n \in 1..t /\ Before(g, l.root, n)
    <3>1. n \in 1..c /\ l.root < n /\ alarms[l.root].at <= alarms[n].at
      BY <2>1
    <3>2. g[n] = alarms[n] /\ g[l.root] = alarms[l.root]
      BY <1>8, <1>12, <2>1, <3>1
    <3>3. alarms[n].at \in Int /\ alarms[l.root].at \in Int
      BY <1>7, <2>1, <3>1 DEF Timely
    <3>4. g[l.root].at < g[n].at \/ g[l.root].at = g[n].at
      BY <3>1, <3>2, <3>3
    <3> QED
      BY <1>9, <3>1, <3>4 DEF Before
  <2> QED
    BY <1>9, <2>1, <2>2
<1>18. Causal(s, labels)
  <2>1. ASSUME NEW l \in labels, NEW n \in 1..t, s[n] \in l.children
        PROVE  \E m \in 1..n - 1 : s[m] = l.root
    <3>1. PICK m \in 1..t : s[m] = l.root
      BY <1>14, <1>17
    <3>2. Before(g, s[m], s[n])
      BY <1>17, <2>1, <3>1
    <3>3. m < n
      BY <1>14, <3>2
    <3> QED
      BY <3>1, <3>3
  <2> QED
    BY <1>15, <2>1 DEF Causal
<1>19. Covers(s, labels)
  BY <1>14, <1>15, <1>17 DEF Covers, Range
<1> QED
  BY <1>1, <1>12, <1>16, <1>18, <1>19
-----------------------------------------------------------------------------
(* The runs of a session, and what a run has set out to do.                *)

NoIngest == \A k \in DOMAIN runs : ~runs[k].args.ingest

Planned ==
  /\ conf.phase = Phase(args) /\ conf.ingest = args.ingest /\ ~args.dry
  /\ conf.export = ("export" \in args.given)
  /\ ~(conf.ingest /\ conf.export)

Starting ==
  /\ IsSeq(runs) /\ runs # <<>> /\ Orderly(runs)
  /\ pc = "settings" => ~UsageError(args)
  /\ pc \notin Preparing \cup {"exited"} => Planned

\* What is said of the runs to come is said of those that remain.
LEMMA StartingNext == ASSUME Starting, NextRun PROVE Starting' /\ (NoIngest => NoIngest')
<1>1. pc' = "start" /\ runs' = Tail(runs) /\ Len(runs) > 1 /\ IsSeq(runs) /\ runs # <<>>
  BY DEF NextRun, Goto, Starting
<1>2. PICK c \in Nat : c = Len(runs)
  BY <1>1, Tailed
<1>3. PICK r : r = Tail(runs)
  OBVIOUS
<1>4. IsSeq(r) /\ Len(r) = c - 1 /\ \A n \in 1..c - 1 : r[n] = runs[n + 1]
  BY <1>1, <1>2, <1>3, Tailed
<1>5. DOMAIN runs = 1..c /\ DOMAIN r = 1..c - 1 /\ c > 1
  BY <1>1, <1>2, <1>4 DEF IsSeq
<1>6. r # <<>>
  BY <1>4, <1>5, EmptyIsSeq
<1>7. Orderly(r)
  <2>1. ASSUME NEW k \in 1..c - 1, Unexported(r[k].args), NEW m \in k + 1..c - 1
        PROVE  ~r[m].args.ingest
    <3>1. k + 1 \in 1..c /\ m + 1 \in (k + 1) + 1..c /\ m \in 1..c - 1
      BY <1>5
    <3>2. r[k] = runs[k + 1] /\ r[m] = runs[m + 1]
      BY <1>4, <3>1
    <3> QED
      BY <1>2, <1>5, <2>1, <3>1, <3>2 DEF Starting, Orderly
  <2> QED
    BY <1>4, <1>5, <2>1 DEF Orderly
<1>8. ASSUME NoIngest, NEW k \in 1..c - 1 PROVE ~r[k].args.ingest
  <2>1. k + 1 \in 1..c
    BY <1>5
  <2> QED
    BY <1>4, <1>5, <1>8, <2>1 DEF NoIngest
<1> QED
  BY <1>1, <1>3, <1>4, <1>5, <1>6, <1>7, <1>8 DEF Starting, Preparing, NoIngest

LEMMA StartingStep == ASSUME Starting, [Next]_vars PROVE Starting' /\ (NoIngest => NoIngest')
<1>1. CASE NextRun
  BY <1>1, StartingNext
<1>2. CASE BuildPlan
  BY <1>2 DEF BuildPlan, Exit, Goto, Starting, NoIngest, Preparing, args, UsageError, Phase
<1>3. CASE LoadSettings
  <2>1. UNCHANGED runs /\ pc = "settings" /\ ~UsageError(args)
    BY <1>3 DEF LoadSettings, Starting
  <2>2. CASE pc' = "exited"
    BY <2>1, <2>2 DEF Starting, NoIngest
  <2>3. CASE /\ Valid(Settings(env), Phase(args), args.ingest)
             /\ conf' = Over(Plan(args), Settings(env))
             /\ ~args.dry
    <3>1. /\ conf'.phase = Phase(args) /\ conf'.ingest = args.ingest
          /\ conf'.export = ("export" \in args.given)
      BY <2>3, PlannedConf
    <3>2. ~(conf'.ingest /\ conf'.export)
      BY <2>1, <3>1 DEF UsageError
    <3>3. pc' # "settings"
      BY <1>3 DEF LoadSettings, Exit, Goto
    <3> QED
      BY <2>1, <2>3, <3>1, <3>2, <3>3 DEF Starting, NoIngest, Planned, args, Phase
  <2> QED
    BY <1>3, <2>2, <2>3 DEF LoadSettings, Exit
<1>4. CASE \/ Snapshot \/ MockUpload \/ Post \/ PostFails \/ PostGarbled \/ Open \/ Load
           \/ InjectFault \/ Cascade \/ RecordLabel \/ Blend \/ Produce \/ QueueFull \/ Flush
           \/ Kill
  <2>1. UNCHANGED <<runs, conf>>
    BY <1>4 DEF Snapshot, MockUpload, Post, PostFails, PostGarbled, Open, Load, InjectFault, Cascade,
      RecordLabel, Blend, Produce, QueueFull, Flush, Kill
  <2>2. pc' = "exited" \/ (pc \notin Preparing \cup {"exited"} /\ pc' # "settings")
    BY <1>4 DEF Snapshot, WriteSnapshot, MockUpload, Post, PostFails, PostGarbled,
                PostAgain, Open, Load, Close,
      InjectFault, Cascade, RecordLabel, Blend, Produce, QueueFull, Flush, Kill, Exit, Goto, Preparing
  <2> QED
    BY <2>1, <2>2 DEF Starting, NoIngest, Planned, args, Phase
<1>5. CASE Land \/ Deliver \/ DeliveryFails \/ UNCHANGED vars
  <2>1. UNCHANGED <<runs, pc, conf>>
    BY <1>5 DEF Land, Deliver, DeliveryFails, vars
  <2> QED
    BY <2>1 DEF Starting, NoIngest, Planned, args, Phase, UsageError
<1> QED
  BY <1>1, <1>2, <1>3, <1>4, <1>5 DEF Next, Step
-----------------------------------------------------------------------------
(* What a run replays, and what it leaves for the next one to ingest.      *)

Exporting == pc \in {"synth", "replay"} /\ conf.export

\* Files that can be ingested are worth it.
Disk ==
  Readable(files) =>
    /\ IsSeq(files.corpus)
    /\ Causal(files.corpus, files.labels)
    /\ Unbroken /\ ~Exporting => Covers(files.corpus, files.labels)

Streaming ==
  /\ IsSeq(stream) /\ Len(produced) <= Len(stream)
  /\ \A n \in 1..Len(produced) : produced[n] = stream[n]
  /\ Causal(stream, labels)
  /\ pc \in Preparing \cup Posting \cup Loading => stream = <<>>
  /\ pc = "synth" => ~conf.ingest /\ Timely
  /\ pc = "replay" => /\ Unbroken => Covers(stream, labels)
                      /\ ~conf.ingest => files.labels = labels
  /\ Exporting => files.corpus = <<>>
  /\ NoIngest \/ Disk
  /\ ReplayIsCausal

\* Once a run has failed, the session is broken.
LEMMA BrokenBy ==
  ASSUME IsSeq(exits), NEW code, Exit(code)
  PROVE  Unbroken' => Unbroken /\ code = 0
<1>1. PICK e : e = exits'
  OBVIOUS
<1>2. PICK c \in Nat : c = Len(exits)
  BY Appended
<1>3. Len(e) = c + 1 /\ (\A i \in 1..c : e[i] = exits[i]) /\ e[c + 1] = code /\ IsSeq(e)
  BY <1>1, <1>2, Appended DEF Exit
<1>4. DOMAIN e = 1..c + 1 /\ DOMAIN exits = 1..c
  BY <1>2, <1>3 DEF IsSeq
<1>5. ASSUME \A n \in 1..c + 1 : e[n] = 0
      PROVE  (\A n \in 1..c : exits[n] = 0) /\ code = 0
  BY <1>3, <1>5
<1> QED
  BY <1>1, <1>4, <1>5 DEF Unbroken

LEMMA CausalEmpty == ASSUME NEW s, s = <<>>, NEW ls PROVE Causal(s, ls)
<1>1. DOMAIN s = {}
  OBVIOUS
<1> QED
  BY <1>1 DEF Causal

\* What has gone out so far is the beginning of what is to go out.
LEMMA CausalSoFar ==
  ASSUME NEW p, NEW s, NEW ls, IsSeq(p), IsSeq(s), Len(p) <= Len(s),
         \A n \in 1..Len(p) : p[n] = s[n], Causal(s, ls)
  PROVE  Causal(p, ls)
<1>1. PICK a \in Nat, b \in Nat : a = Len(p) /\ b = Len(s)
  BY Appended
<1>2. DOMAIN p = 1..a /\ DOMAIN s = 1..b /\ a <= b
  BY <1>1 DEF IsSeq
<1>3. ASSUME NEW l \in ls, NEW n \in 1..a, p[n] \in l.children
      PROVE  \E m \in 1..n - 1 : p[m] = l.root
  <2>1. n \in 1..b /\ s[n] \in l.children
    BY <1>1, <1>2, <1>3
  <2>2. PICK m \in 1..n - 1 : s[m] = l.root
    BY <1>2, <2>1 DEF Causal
  <2>3. m \in 1..a
    OBVIOUS
  <2> QED
    BY <1>1, <2>2, <2>3
<1> QED
  BY <1>2, <1>3 DEF Causal

LEMMA DiskKept ==
  ASSUME NoIngest \/ Disk, NoIngest => NoIngest',
         files'.corpus = files.corpus, files'.labels = files.labels,
         Unbroken' /\ ~Exporting' => Unbroken /\ ~Exporting
  PROVE  NoIngest' \/ Disk'
BY DEF Disk, Readable, LoadsCorpus, LoadsLabels

\* Before the alarms are there.
LEMMA StreamingIdle ==
  ASSUME RInv, Streaming, UNCHANGED <<stream, produced, labels>>, NoIngest => NoIngest',
         pc \in Preparing \cup Posting \cup {"open", "load"},
         pc' \in Preparing \cup Posting \cup {"open", "exited"},
         files'.corpus = files.corpus, files'.labels = files.labels, Unbroken' => Unbroken,
         pc' = "exited" => ~conf'.ran \/ conf'.phase = "p1" \/ ~Unbroken'
  PROVE  Streaming'
<1> USE DEF Preparing, Posting, Loading
<1>1. stream = <<>> /\ produced = <<>> /\ ~Exporting /\ ~Exporting'
  BY DEF RInv, Exiting, Streaming, Exporting
<1>2. NoIngest' \/ Disk'
  BY <1>1, DiskKept DEF Streaming
<1>3. ReplayIsCausal'
  BY <1>1, CausalEmpty DEF ReplayIsCausal, Ended, Replayed
<1> QED
  BY <1>1, <1>2, <1>3 DEF Streaming

\* Labels without a corpus: no run will ingest them.
LEMMA NothingIngested ==
  ASSUME RInv, Starting, pc = "synth", ~conf.ingest, ~conf.export
  PROVE  NoIngest
<1>1. Planned /\ conf.phase # "p1"
  BY DEF Starting, RInv, Exiting, Preparing, Loading
<1>2. Unexported(args) /\ ~args.ingest
  BY <1>1 DEF Planned, Unexported
<1>3. PICK c \in Nat \ {0} : c = Len(runs) /\ DOMAIN runs = 1..c /\ Head(runs) = runs[1]
  BY Tailed DEF Starting, IsSeq
<1>4. \A m \in 1 + 1..c : ~runs[m].args.ingest
  BY <1>2, <1>3 DEF Starting, Orderly, args
<1>5. \A m \in 1..c : ~runs[m].args.ingest
  BY <1>2, <1>3, <1>4 DEF args
<1> QED
  BY <1>3, <1>5 DEF NoIngest

\* The alarms are there.
LEMMA StreamingBlend ==
  ASSUME RInv, Taping, Starting, Streaming, Blend
  PROVE  Streaming'
<1>1. /\ pc = "synth" /\ pc' = "replay" /\ UNCHANGED <<runs, conf, exits, labels, produced>>
      /\ files' = [files EXCEPT !.labels = labels]
  BY DEF Blend, Goto
<1>2. files'.corpus = files.corpus /\ files'.labels = labels
  BY <1>1 DEF Taping
<1>3. /\ IsSeq(stream') /\ Causal(stream', labels') /\ Covers(stream', labels')
  BY <1>1, BlendCausal DEF Streaming
<1>4. produced' = <<>> /\ Len(produced') = 0
  BY <1>1, EmptyIsSeq DEF RInv, Exiting, Loading
<1>5. Len(stream') \in Nat
  BY <1>3, Appended
<1>6. NoIngest' \/ Disk'
  <2>1. CASE conf.export
    <3>1. files.corpus = <<>> /\ Exporting'
      BY <1>1, <2>1 DEF Streaming, Exporting
    <3> QED
      BY <1>2, <3>1, CausalEmpty, EmptyIsSeq DEF Disk
  <2>2. CASE ~conf.export
    BY <1>1, <2>2, NothingIngested DEF Streaming, NoIngest
  <2> QED
    BY <2>1, <2>2
<1>7. Exporting' => files'.corpus = <<>>
  BY <1>1, <1>2 DEF Streaming, Exporting
<1>8. ReplayIsCausal'
  BY <1>1, <1>4, CausalEmpty DEF ReplayIsCausal, Ended
<1> QED
  BY <1>1, <1>2, <1>3, <1>4, <1>5, <1>6, <1>7, <1>8 DEF Streaming, Preparing, Posting, Loading

\* What is ingested is what is on disk.
LEMMA StreamingLoad ==
  ASSUME RInv, Taping, Dividing, Starting, Streaming, Load
  PROVE  Streaming'
<1>1. pc = "load" /\ conf.ingest /\ UNCHANGED <<runs, conf, produced>>
  BY DEF Load, Dividing
<1>2. ~conf.export /\ args.ingest
  BY <1>1 DEF Starting, Planned, Preparing
<1>3. CASE UNCHANGED <<stream, labels>> /\ (Close(3) \/ Close(4))
  <2>1. pc' = "exited" /\ UNCHANGED files /\ \E code \in {3, 4} : Exit(code)
    BY <1>2, <1>3 DEF Close, WriteCorpus, Exit
  <2>2. ~Unbroken'
    BY <2>1, BrokenBy DEF RInv, Exiting
  <2> QED
    BY <1>1, <1>3, <2>1, <2>2, StreamingIdle DEF NoIngest
<1>4. CASE /\ Readable(files) /\ Goto("replay")
           /\ stream' = files.corpus /\ labels' = files.labels /\ UNCHANGED files
  <2>1. ~NoIngest
    <3>1. PICK c \in Nat \ {0} : c = Len(runs) /\ DOMAIN runs = 1..c /\ Head(runs) = runs[1]
      BY Tailed DEF Starting, IsSeq
    <3>2. runs[1].args.ingest /\ 1 \in 1..c
      BY <1>2, <3>1 DEF args
    <3> QED
      BY <3>1, <3>2 DEF NoIngest
  <2>2. ~Exporting /\ ~Exporting'
    BY <1>1, <1>2 DEF Exporting
  <2>3. /\ IsSeq(files.corpus) /\ Causal(files.corpus, files.labels)
        /\ Unbroken => Covers(files.corpus, files.labels)
    BY <1>4, <2>1, <2>2 DEF Streaming, Disk
  <2>4. produced' = <<>> /\ Len(produced') = 0 /\ Len(stream') \in Nat
    BY <1>1, <1>4, <2>3, EmptyIsSeq, Appended DEF RInv, Exiting, Loading
  <2>5. Unbroken' = Unbroken /\ pc' = "replay"
    BY <1>4 DEF Goto, Unbroken
  <2>6. NoIngest' \/ Disk'
    BY <1>1, <1>4, <2>2, <2>5, DiskKept DEF Streaming, NoIngest
  <2>7. ReplayIsCausal'
    BY <2>4, <2>5, CausalEmpty DEF ReplayIsCausal, Ended
  <2> QED
    BY <1>1, <1>4, <2>2, <2>3, <2>4, <2>5, <2>6, <2>7
    DEF Streaming, Preparing, Posting, Loading
<1> QED
  BY <1>3, <1>4 DEF Load, Refused

\* The file of an export is emptied, and cascades are synthesized.
LEMMA StreamingSynth ==
  ASSUME RInv, Taping, Dividing, Starting, Streaming,
         Open \/ InjectFault \/ Cascade \/ RecordLabel
  PROVE  Streaming'
<1>1. /\ pc \in {"open", "synth"} /\ pc' \in {"load", "synth"}
      /\ pc' = "synth" => ~conf.ingest
      /\ UNCHANGED <<runs, conf, exits, stream, produced>>
  BY DEF Open, InjectFault, Cascade, RecordLabel, Goto, replay, Streaming
<1>2. stream = <<>> /\ produced = <<>> /\ stream' = <<>> /\ produced' = <<>>
  BY <1>1 DEF Streaming, RInv, Exiting, Preparing, Posting, Loading
<1>3. pc' = "synth" => Timely'
  <2>1. CASE Open
    <3>1. alarms' = <<>> /\ root' = 0 /\ labels' = {}
      BY <2>1 DEF Open, Dividing, synth, cascade
    <3> QED
      BY <3>1, EmptyIsSeq DEF Timely
  <2>2. CASE InjectFault \/ Cascade \/ RecordLabel
    <3>1. Timely
      BY <2>2 DEF InjectFault, Cascade, RecordLabel, Streaming
    <3> QED
      BY <2>2, <3>1, TimelyInject, TimelyCascade, TimelyRecord
  <2> QED
    BY <2>1, <2>2
<1>4. Unbroken' = Unbroken
  BY <1>1 DEF Unbroken
<1>5. (Exporting' => files'.corpus = <<>>) /\ (NoIngest' \/ Disk')
  <2>1. CASE UNCHANGED files /\ pc = "synth"
    <3>1. Exporting' = Exporting
      BY <1>1, <2>1 DEF Exporting, Open, InjectFault, Cascade, RecordLabel
    <3> QED
      BY <1>1, <1>4, <2>1, <3>1, DiskKept DEF Streaming, NoIngest
  <2>2. CASE Open /\ conf.export
    <3>1. files'.corpus = <<>>
      BY <2>2 DEF Open, OpenCorpus, Taping
    <3>2. ~conf.ingest
      BY <2>2 DEF Open, Starting, Planned, Preparing
    <3>3. Exporting'
      BY <1>1, <2>2, <3>2 DEF Open, Goto, Exporting
    <3> QED
      BY <3>1, <3>3, CausalEmpty, EmptyIsSeq DEF Disk
  <2>3. CASE Open /\ ~conf.export
    <3>1. UNCHANGED files /\ ~Exporting /\ ~Exporting'
      BY <1>1, <2>3 DEF Open, OpenCorpus, Exporting
    <3> QED
      BY <1>1, <1>4, <3>1, DiskKept DEF Streaming, NoIngest
  <2> QED
    BY <1>1, <2>1, <2>2, <2>3 DEF InjectFault, Cascade, RecordLabel
<1>6. ReplayIsCausal'
  BY <1>1, <1>2, CausalEmpty DEF ReplayIsCausal, Ended
<1>7. IsSeq(stream') /\ Len(produced') = 0 /\ Len(stream') = 0
  BY <1>2, EmptyIsSeq
<1> QED
  BY <1>1, <1>2, <1>3, <1>4, <1>5, <1>6, <1>7, CausalEmpty DEF Streaming, Preparing, Posting, Loading

\* The next alarm goes out.
LEMMA StreamingProduce ==
  ASSUME RInv, Taping, Streaming, Produce
  PROVE  Streaming'
<1>1. /\ pc = "replay" /\ UNCHANGED <<runs, pc, conf, exits, files, stream, labels>>
      /\ produced' = Append(produced, stream[Len(produced) + 1])
      /\ Len(produced) < Len(stream)
  BY DEF Produce, Unqueued, synth
<1>2. PICK p : p = produced'
  OBVIOUS
<1>3. PICK a \in Nat, b \in Nat : a = Len(produced) /\ b = Len(stream)
  BY Appended DEF Taping, Streaming
<1>4. /\ Len(p) = a + 1 /\ (\A n \in 1..a : p[n] = produced[n])
      /\ p[a + 1] = stream[a + 1] /\ IsSeq(p)
  BY <1>1, <1>2, <1>3, Appended DEF Taping
<1>5. Len(p) <= Len(stream) /\ \A n \in 1..Len(p) : p[n] = stream[n]
  BY <1>1, <1>3, <1>4 DEF Streaming
<1>6. Causal(p, labels)
  BY <1>4, <1>5, CausalSoFar DEF Streaming
<1>7. ReplayIsCausal'
  BY <1>1, <1>2, <1>6 DEF ReplayIsCausal, Ended
<1>8. Unbroken' = Unbroken /\ Exporting' = Exporting
  BY <1>1 DEF Unbroken, Exporting
<1>9. NoIngest' \/ Disk'
  BY <1>1, <1>8, DiskKept DEF Streaming, NoIngest
<1> QED
  BY <1>1, <1>2, <1>5, <1>7, <1>8, <1>9 DEF Streaming, Preparing, Posting, Loading

\* The replay ends, complete or not, and the corpus is written.
LEMMA StreamingEnd ==
  ASSUME RInv, Taping, Starting, Streaming, QueueFull \/ Flush
  PROVE  Streaming'
<1>1. PICK code : Close(code) /\ (code = 0 => produced = stream)
  BY DEF QueueFull, Flush, Drained
<1>2. /\ pc = "replay" /\ pc' = "exited" /\ Exit(code)
      /\ UNCHANGED <<runs, conf, produced, stream, labels>>
      /\ files' = IF conf.export THEN [files EXCEPT !.corpus = tape] ELSE files
  BY <1>1 DEF QueueFull, Flush, Close, WriteCorpus, Exit, synth, replay
<1>3. Unbroken' => Unbroken /\ code = 0
  BY <1>2, BrokenBy DEF RInv, Exiting
<1>4. ~Exporting'
  BY <1>2 DEF Exporting
<1>5. Causal(produced, labels) /\ IsSeq(produced)
  BY CausalSoFar DEF Streaming, Taping
<1>6. Unbroken' => Covers(produced, labels)
  BY <1>1, <1>2, <1>3 DEF Streaming
<1>7. NoIngest' \/ Disk'
  <2>1. CASE conf.export
    <3>1. files'.corpus = produced /\ files'.labels = labels
      <4>1. ~conf.ingest
        BY <1>2, <2>1 DEF Starting, Planned, Preparing
      <4> QED
        BY <1>2, <2>1, <4>1 DEF Taping, Streaming
    <3> QED
      BY <1>5, <1>6, <3>1 DEF Disk
  <2>2. CASE ~conf.export
    <3>1. UNCHANGED files /\ ~Exporting
      BY <1>2, <2>2 DEF Exporting
    <3> QED
      BY <1>2, <1>3, <3>1, DiskKept DEF Streaming, NoIngest
  <2> QED
    BY <2>1, <2>2
<1>8. ReplayIsCausal'
  BY <1>2, <1>5, <1>6 DEF ReplayIsCausal
<1> QED
  BY <1>2, <1>4, <1>7, <1>8 DEF Streaming, Preparing, Posting, Loading

\* The beginning of a sequence.
LEMMA Begun ==
  ASSUME NEW s, IsSeq(s), NEW n \in 0..Len(s)
  PROVE  /\ IsSeq(SubSeq(s, 1, n)) /\ Len(SubSeq(s, 1, n)) = n /\ n <= Len(s)
         /\ \A i \in 1..n : SubSeq(s, 1, n)[i] = s[i]
<1>1. PICK T : s \in Seq(T)
  BY DEF IsSeq
<1>2. Len(s) \in Nat /\ n \in Nat /\ n <= Len(s)
  BY <1>1
<1>3. PICK p : p = SubSeq(s, 1, n)
  OBVIOUS
<1>4. p \in Seq(T) /\ Len(p) = n /\ \A i \in 1..n : p[i] = s[i]
  <2>1. \A i \in 1..n : s[i] \in T
    BY <1>1, <1>2
  <2>2. /\ p \in Seq(T) /\ Len(p) = IF 1 <= n THEN n - 1 + 1 ELSE 0
        /\ \A i \in 1..n - 1 + 1 : p[i] = s[1 + i - 1]
    BY <1>2, <1>3, <2>1, SubSeqProperties
  <2> QED
    BY <1>2, <2>2
<1> QED
  BY <1>2, <1>3, <1>4 DEF IsSeq

\* A kill may cut the file that is just written: a corpus to its first records,
\* or labels that no run goes on to ingest with a corpus of their own.
LEMMA StreamingKill ==
  ASSUME RInv, Taping, Starting, Streaming, Kill
  PROVE  Streaming'
<1>1. /\ pc' = "exited" /\ Exit(137) /\ pc # "start"
      /\ UNCHANGED <<runs, conf, produced, stream, labels>>
  BY DEF Kill, Exit, synth
<1>2. ~Unbroken' /\ ~Exporting'
  BY <1>1, BrokenBy DEF Exporting, RInv, Exiting
<1>3. NoIngest' \/ Disk'
  <2>1. CASE UNCHANGED files
    BY <1>1, <1>2, <2>1, DiskKept DEF Streaming, NoIngest
  <2>2. CASE CutCorpus
    <3>1. PICK left \in {Malformed} \cup {SubSeq(tape, 1, n) : n \in 0..Len(tape)} :
            files' = [files EXCEPT !.corpus = left]
      BY <2>2 DEF CutCorpus
    <3>2. files'.corpus = left /\ files'.labels = files.labels
      BY <3>1 DEF Taping
    <3>3. pc = "replay" /\ conf.export /\ ~conf.ingest
      BY <2>2 DEF CutCorpus, Starting, Planned, Preparing
    <3>4. tape = produced /\ files.labels = labels
      BY <3>3 DEF Taping, Streaming
    <3>5. CASE left = Malformed
      BY <3>2, <3>5 DEF Disk, Readable, LoadsCorpus, Unreadable
    <3>6. CASE left \in {SubSeq(tape, 1, n) : n \in 0..Len(tape)}
      <4>1. PICK n \in 0..Len(produced) : left = SubSeq(produced, 1, n)
        BY <3>4, <3>6
      <4>2. /\ IsSeq(left) /\ Len(left) <= Len(produced)
            /\ \A i \in 1..Len(left) : left[i] = produced[i]
        BY <4>1, Begun DEF Taping
      <4>3. Causal(produced, labels) /\ IsSeq(produced)
        BY CausalSoFar DEF Streaming, Taping
      <4>4. Causal(left, labels)
        BY <4>2, <4>3, CausalSoFar
      <4> QED
        BY <1>2, <3>2, <3>4, <4>2, <4>4 DEF Disk
    <3> QED
      BY <3>1, <3>5, <3>6
  <2>3. CASE CutLabels
    <3>1. pc = "synth" /\ ~conf.ingest /\ files'.corpus = files.corpus
      BY <2>3 DEF CutLabels, Streaming, Taping
    <3>2. CASE conf.export
      <4>1. files'.corpus = <<>>
        BY <3>1, <3>2 DEF Streaming, Exporting
      <4> QED
        BY <1>2, <4>1, CausalEmpty, EmptyIsSeq DEF Disk
    <3>3. CASE ~conf.export
      BY <1>1, <3>1, <3>3, NothingIngested DEF NoIngest
    <3> QED
      BY <3>2, <3>3
  <2> QED
    BY <2>1, <2>2, <2>3 DEF Kill
<1>4. ReplayIsCausal'
  BY <1>1, <1>2 DEF Streaming, ReplayIsCausal
<1> QED
  BY <1>1, <1>2, <1>3, <1>4 DEF Streaming, Preparing, Posting, Loading

LEMMA StreamingStep ==
  ASSUME RInv, Taping, Dividing, Starting, Streaming, [Next]_vars
  PROVE  Streaming'
<1>1. NoIngest => NoIngest'
  BY StartingStep
<1>2. IsSeq(exits)
  BY DEF RInv, Exiting
<1>3. CASE \/ BuildPlan \/ LoadSettings \/ Snapshot \/ MockUpload \/ Post \/ PostFails
           \/ PostGarbled
  <2>1. /\ UNCHANGED <<stream, produced, labels>> /\ pc \in Preparing \cup Posting
        /\ pc' \in Preparing \cup Posting \cup {"open", "exited"}
    BY <1>3 DEF BuildPlan, LoadSettings, Snapshot, WriteSnapshot, MockUpload, Post,
                PostFails, PostGarbled, PostAgain,
      Exit, Goto, Preparing, Posting, replay, synth
  <2>2. files'.corpus = files.corpus /\ files'.labels = files.labels
    BY <1>3 DEF BuildPlan, LoadSettings, Snapshot, WriteSnapshot, MockUpload, Post,
                PostFails, PostGarbled, Taping
  <2>3. (\E code : Exit(code)) \/ UNCHANGED exits
    BY <1>3 DEF BuildPlan, LoadSettings, Snapshot, WriteSnapshot, MockUpload, Post,
                PostFails, PostGarbled, PostAgain,
      Goto
  <2>4. Unbroken' => Unbroken
    BY <1>2, <2>3, BrokenBy DEF Unbroken
  <2>5. pc' = "exited" => ~conf'.ran \/ conf'.phase = "p1"
    <3>1. CASE \/ Snapshot \/ MockUpload \/ Post \/ PostFails \/ PostGarbled
      BY <3>1 DEF Snapshot, MockUpload, Post, PostFails, PostGarbled, Posting, RInv, Exiting
    <3>2. CASE (BuildPlan \/ LoadSettings) /\ UNCHANGED conf
      BY <3>2 DEF BuildPlan, LoadSettings, Preparing, RInv, Exiting, NoRun
    <3>3. CASE /\ LoadSettings /\ Valid(Settings(env), Phase(args), args.ingest)
               /\ conf' = Over(Plan(args), Settings(env))
      <4>1. conf'.ran = ~args.dry
        BY <3>3, PlannedConf
      <4> QED
        BY <3>3, <4>1 DEF LoadSettings, Goto
    <3> QED
      BY <1>3, <3>1, <3>2, <3>3 DEF BuildPlan, LoadSettings
  <2> QED
    BY <1>1, <2>1, <2>2, <2>4, <2>5, StreamingIdle
<1>4. CASE NextRun
  <2>1. /\ pc' = "start" /\ labels' = {} /\ stream' = <<>> /\ produced' = <<>>
        /\ UNCHANGED <<exits, files>> /\ pc = "exited"
    BY <1>4 DEF NextRun, Goto
  <2>2. IsSeq(stream') /\ Len(produced') = 0 /\ Len(stream') = 0
    BY <2>1, EmptyIsSeq
  <2>3. ~Exporting /\ ~Exporting' /\ Unbroken' = Unbroken
    BY <2>1 DEF Exporting, Unbroken
  <2>4. NoIngest' \/ Disk'
    BY <1>1, <2>1, <2>3, DiskKept DEF Streaming
  <2>5. ReplayIsCausal'
    BY <2>1 DEF ReplayIsCausal, Ended, Causal
  <2> QED
    BY <2>1, <2>2, <2>3, <2>4, <2>5 DEF Streaming, Causal
<1>5. CASE Open \/ InjectFault \/ Cascade \/ RecordLabel
  BY <1>5, StreamingSynth
<1>6. CASE Load
  BY <1>6, StreamingLoad
<1>7. CASE Blend
  BY <1>7, StreamingBlend
<1>8. CASE Produce
  BY <1>8, StreamingProduce
<1>9. CASE QueueFull \/ Flush
  BY <1>9, StreamingEnd
<1>10. CASE Kill
  BY <1>10, StreamingKill
<1>11. CASE Land \/ Deliver \/ DeliveryFails \/ UNCHANGED vars
  <2>1. UNCHANGED <<runs, pc, conf, exits, files, alarms, root, labels, stream, produced>>
    BY <1>11 DEF Land, Deliver, DeliveryFails, vars, synth, cascade, replay
  <2>2. Unbroken' = Unbroken /\ Exporting' = Exporting
    BY <2>1 DEF Unbroken, Exporting
  <2>3. NoIngest' \/ Disk'
    BY <1>1, <2>1, <2>2, DiskKept DEF Streaming
  <2>4. ReplayIsCausal'
    BY <2>1, <2>2 DEF Streaming, ReplayIsCausal, Ended, Replayed
  <2> QED
    BY <2>1, <2>2, <2>3, <2>4 DEF Streaming, Timely
<1> QED
  BY <1>3, <1>4, <1>5, <1>6, <1>7, <1>8, <1>9, <1>10, <1>11 DEF Next, Step

LEMMA SessionBegins == Init => Starting /\ Streaming
<1> SUFFICES ASSUME Init PROVE Starting /\ Streaming
  OBVIOUS
<1>1. /\ pc = "start" /\ stream = <<>> /\ produced = <<>> /\ labels = {} /\ exits = <<>>
  BY DEF Init
<1>2. PICK s \in Sessions : runs = s.runs /\ files = s.files
  BY DEF Init
<1>3. IsSeq(runs) /\ runs # <<>> /\ Orderly(runs)
  BY <1>2, SessionsAssumption DEF IsSeq
<1>4. Disk
  <2>1. ASSUME Readable(files)
        PROVE  /\ files.corpus \in Seq(Range(files.corpus))
               /\ Causal(files.corpus, files.labels) /\ Covers(files.corpus, files.labels)
    BY <1>2, <2>1, SessionsAssumption
  <2> QED
    BY <2>1 DEF Disk, IsSeq
<1>5. IsSeq(stream) /\ Len(produced) = 0 /\ Len(stream) = 0
  BY <1>1, EmptyIsSeq
<1>6. ReplayIsCausal
  BY <1>1 DEF ReplayIsCausal, Causal, Ended
<1> QED
  BY <1>1, <1>3, <1>4, <1>5, <1>6 DEF Starting, Streaming, Preparing, Exporting, Causal

\* No effect goes out before its cause, nor is one of a scenario's alarms lost
\* on the way through sort, export, file and ingest: for any pack, noise, fault
\* and number of runs, provided that the operator ingests what belongs together.
THEOREM ReplayCorrect == Spec => []ReplayIsCausal
<1>1. RInv /\ Taping /\ Dividing /\ Starting /\ Streaming /\ [Next]_vars
        => Taping' /\ Dividing' /\ Starting' /\ Streaming'
  BY TapingStep, DividingStep, StartingStep, StreamingStep
<1>2. Streaming => ReplayIsCausal
  BY DEF Streaming
<1> QED
  BY <1>1, <1>2, TapingInit, DividingInit, SessionBegins, RunInductive, PTL DEF Spec
=============================================================================
