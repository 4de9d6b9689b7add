SPECIFICATION Spec
CONSTANTS
  Jobs = {j1, j2}
  Kinds = {k1}
  Clients = {c1, c2}
  None = None
  MaxCancels = 2
  MaxRestarts = 1
  MaxFaults = 1
INVARIANTS OneWorkPerKind RowsHonest
PROPERTIES JobsEnd ImplementsLifecycle
CHECK_DEADLOCK FALSE
