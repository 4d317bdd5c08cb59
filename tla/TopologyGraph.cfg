SPECIFICATION Spec
CONSTANTS
  router = router
  port = port
  s1 = s1
  s2 = s2
  s3 = s3
  s4 = s4
  NoSnapshot = NoSnapshot
  Objects <- Both
  Links <- OneLink
  Minted = {s1, s2, s3}
  Supplied = {}
  Ingesters = {i1}
  Faults = {"broker", "crash"}
  BootstrapOnStartup = TRUE
  MaxIngests = 3
SYMMETRY Symmetry
INVARIANTS
  SettledCurrentIsWhole
  EvictedVerticesGo
CHECK_DEADLOCK FALSE
