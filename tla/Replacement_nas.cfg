SPECIFICATION Spec
CONSTANTS
  d1 = d1
  d2 = d2
  d3 = d3
  mkv = mkv
  mp4 = mp4
  Downloads = {d1, d2, d3}
  Exts = {mkv, mp4}
  ExtOf <- MCExtOf
  LibraryExt = mkv
  BackupNames = {0, 1, 2, 3}
  Orig = Orig
  NoFile = NoFile
  Partial = Partial
  None = None
  LibraryOnNas = TRUE
  CrossDevice = TRUE
  MaxFaults = 1
  BinChoices = {TRUE, FALSE}
  Serialised = TRUE
  OriginalMissing = FALSE
  PurgeBin = TRUE
  MaxInterrupts = 1
PROPERTIES LastCopyOnlyPurged
