SPECIFICATION FairSpec
CONSTANTS
  consumer = consumer
  r1 = r1
  t = t
  u = u
  v = v
  Consumer = consumer
  Rebuilders = {r1}
  Trails = {t, u, v}
  TrailsOf <- SharedTrails
  Retention = 2
  Faults = {"integration"}
  MaxSnapshots = 1
  Backlog <- NoBacklog
  MaxRebuilds = 1
  MaxCrashes = 1
PROPERTIES
  HeldIsRetried
CHECK_DEADLOCK FALSE
