SPECIFICATION FairSpec
CONSTANTS
  NodeCount = 10
  InterfacesPerPort = 1
  SiteCount = 3
  BaseInterval = 400
  QueueLimit = 2
  MaxAttempts = 4
  MaxUndelivered = 1
  MaxOvertaking = 1
  NoFile = NoFile
  Malformed = Malformed
  Undecodable = Undecodable
  Unset = Unset
  Moments = {0, 1000}
  Objects <- MCObjects
  Relations <- MCRelations
  Edges <- MCEdges
  AlarmTypes <- MCTypes
  Templates <- MCTemplates
  Instances <- MCInstances
  Jitters <- MCJitters
  ScenarioTypes <- MCScenarioTypes
  Library <- MCLibrary
  Sessions <- MCSessions
INVARIANTS
  CausesComeFirst
  EveryEffectOnce
  ExitCodesTell
  UploadsAreCounted
  CorpusIsTheReplay
  LabelsDivideTheSignal
  ReplayIsCausal
PROPERTIES
  RunsEnd
CHECK_DEADLOCK FALSE
