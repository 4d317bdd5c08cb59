SPECIFICATION FairSpec
CONSTANTS
  consumer = consumer
  r1 = r1
  t = t
  u = u
  v = v
  Consumer = consumer
  Rebuilders = {r1}
  Trails = {t, u, v}
  TrailsOf <- SingleTrails
  Retention = 1
  Faults = {"integration", "exception", "broker", "mark"}
  MaxSnapshots = 2
  Backlog <- NoBacklog
  MaxRebuilds = 1
  MaxCrashes = 1
INVARIANTS
  ClaimsAreBacked
  ProcessedIsNotRebuilt
  RetentionHolds
  SliceIsNotOlder
PROPERTIES
  EventsAreTaken
CHECK_DEADLOCK FALSE
