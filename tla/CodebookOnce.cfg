SPECIFICATION FairSpec
CONSTANTS
  e1 = e1
  e2 = e2
  e3 = e3
  s1 = s1
  Instances = {c1, c2}
  Events = {e1, e2, e3}
  Snapshots = {s1}
  Messages <- Rebuilt
  Outcome <- Rejects
  Faults = {"database", "offset", "broker"}
  NoInstance = NoInstance
  MaxFailures = 1
  MaxRebalances = 1
INVARIANTS
  OneActive
  CompiledOnce
  AnnouncedIsStored
  NothingIsSkipped
PROPERTIES
  EventuallySettled
CHECK_DEADLOCK FALSE
