SPECIFICATION Spec
CONSTANTS
  Movies = {m1, m2}
  Runners = {pulse, job}
  Pulses = {pulse}
  Requests = {r1}
  Indexers = {i1}
  Prowlarr = prowlarr
  UseProwlarr = TRUE
  None = None
  MaxDownloads = 1
  FailLimit = 1
  MaxSearches = 2
  MaxCycles = 2
  MaxManual = 1
SYMMETRY Symmetric
CHECK_DEADLOCK FALSE
INVARIANTS CyclesSound OneDownloadPerMovie ComparedWithInstalled ChosenIsStarted
PROPERTIES StopsHeeded
