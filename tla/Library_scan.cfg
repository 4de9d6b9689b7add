SPECIFICATION Spec
CONSTANTS
  m1 = m1
  m2 = m2
  a1 = a1
  b1 = b1
  a2 = a2
  d1 = d1
  d2 = d2
  Movies = {m1, m2}
  Paths = {a1, b1, a2}
  Owner <- McOwner
  Position <- McPosition
  Films <- McFilms
  FirstStates <- McFirstStates
  Scanners = {s1, s2}
  UseBin = TRUE
  Folders = {d1, d2}
  Folder <- McFolder
  None = None
  MaxPreviewed = 1
  MaxScans = 2
  MaxReplacements = 1
  MaxCleanups = 1
  MaxFaults = 1
SYMMETRY Symmetric
CHECK_DEADLOCK FALSE
INVARIANTS BeliefsSound
PROPERTIES ScanFollowsDisk BestCopyKept BinKeepsOtherMovies
