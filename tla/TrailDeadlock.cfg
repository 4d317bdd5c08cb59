SPECIFICATION FairSpec
CONSTANTS
  consumer = consumer
  r1 = r1
  t = t
  u = u
  v = v
  Consumer = consumer
  Rebuilders = {r1}
  Trails = {t, u, v}
  TrailsOf <- SharedTrails
  Retention = 1
  Faults = {"dlq"}
  MaxSnapshots = 2
  Backlog <- OnePoison
  MaxRebuilds = 3
  MaxCrashes = 0
PROPERTIES
  BuildsFinish
CHECK_DEADLOCK FALSE
