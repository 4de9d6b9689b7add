------------------------ MODULE MCDownloadWorkflow ------------------------
(* Instances of DownloadWorkflow for TLC.                                  *)
EXTENDS DownloadWorkflow, TLC

CONSTANTS t1, t2, t3, r1, r2, r3, r4

Alike == Permutations({t1, t2}) \cup Permutations({r1, r2, r3, r4})
=============================================================================
