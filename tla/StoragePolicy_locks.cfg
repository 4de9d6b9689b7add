SPECIFICATION Spec
CONSTANTS
  c1 = c1
  c2 = c2
  c3 = c3
  c4 = c4
  c5 = c5
  Calls = {c1, c2, c3, c4, c5}
  Paths = {1, 2, 3, 4}
  KeysOf <- MCKeysOf
  Replacing = {c1, c2}
  Writing = {c1, c2, c3}
  OnNas = {c1, c2, c3, c4}
  Size <- MCSize
  MaxConcurrent = 1
  MaxReplacements = 1
  MaxWrite = 4
  MaxFaults = 1
  MaxCancels = 0
  MaxRestarts = 0
CHECK_DEADLOCK FALSE
INVARIANTS PathsExclusive ConcurrencyKept
PROPERTY CallsSettle
