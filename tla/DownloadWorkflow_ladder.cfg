SPECIFICATION Spec
CONSTANTS
  t1 = t1
  t2 = t2
  t3 = t3
  r1 = r1
  r2 = r2
  r3 = r3
  r4 = r4
  Tasks = {t1, t2}
  Releases = {r1, r2, r3}
  MaxRetries = 1
  MaxMissing = 1
  MaxRows = 3
  MaxStarts = 1
  MaxManual = 1
  MaxSweeps = 1
  MaxDeaths = 0
CHECK_DEADLOCK FALSE
INVARIANTS LadderSound SettledUndisturbed
PROPERTIES ImprovementStands
SYMMETRY Alike
