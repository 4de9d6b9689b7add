SPECIFICATION Spec
CONSTANTS
  d1 = d1
  d2 = d2
  d3 = d3
  mkv = mkv
  mp4 = mp4
  Downloads = {d1, d2, d3}
  Exts = {mkv, mp4}
  ExtOf <- MCExtOf
  LibraryExt = mkv
  BackupNames = {0, 1, 2, 3}
  Orig = Orig
  NoFile = NoFile
  Partial = Partial
  None = None
  LibraryOnNas = FALSE
  CrossDevice = FALSE
  MaxFaults = 2
  BinChoices = {TRUE, FALSE}
  Serialised = TRUE
  OriginalMissing = FALSE
  PurgeBin = FALSE
  MaxInterrupts = 1
INVARIANTS AlwaysLocated OutcomesSound OneFaultIsSurvived
PROPERTIES ReplacementEnds
