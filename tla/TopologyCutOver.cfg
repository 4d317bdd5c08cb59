SPECIFICATION FairSpec
CONSTANTS
  router = router
  port = port
  s1 = s1
  s2 = s2
  s3 = s3
  s4 = s4
  NoSnapshot = NoSnapshot
  Objects <- NoObjects
  Links = {}
  Minted = {s1, s2}
  Supplied = {s4}
  Ingesters = {i1, i2}
  Faults = {"graph", "database", "codec"}
  BootstrapOnStartup = FALSE
  MaxIngests = 3
INVARIANTS
  OneCurrentOnePrevious
  EventsFollowCutOvers
  EvictedIsNotRetained
PROPERTIES
  RequestsFinish
CHECK_DEADLOCK FALSE
