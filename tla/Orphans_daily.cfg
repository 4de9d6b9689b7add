SPECIFICATION Spec
CONSTANTS
  Jobs = {j1}
  Requests = {r1, r2}
  NoJob = NoJob
  MaxRestarts = 1
CHECK_DEADLOCK FALSE
INVARIANTS TrackedNotRecorded FolderFindable
PROPERTIES OldOrphanGoes
