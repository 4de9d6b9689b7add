SPECIFICATION Spec
CONSTANTS
  t1 = t1
  t2 = t2
  t3 = t3
  r1 = r1
  r2 = r2
  r3 = r3
  r4 = r4
  Tasks = {t1, t2}
  Releases = {r1, r2}
  MaxRetries = 1
  MaxMissing = 2
  MaxRows = 2
  MaxStarts = 1
  MaxManual = 0
  MaxSweeps = 1
  MaxDeaths = 1
CHECK_DEADLOCK FALSE
INVARIANTS MonitoredApart
PROPERTIES WorkflowsSettle
