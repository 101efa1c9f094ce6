--------------------------- MODULE MCBatchUpload ---------------------------
(* Instances of BatchUpload for TLC. *)
EXTENDS BatchUpload

CONSTANTS j1, j2, r1, r2, r3, f1, f2, Foreign

\* Two or three processes on one state file; two processes on two.
OneJob == [r \in {r1, r2} |-> j1]
OneJob3 == [r \in {r1, r2, r3} |-> j1]
TwoJobs == [r \in {r1, r2} |-> IF r = r1 THEN j1 ELSE j2]

TwoFiles == <<f1, f2>>
OneFile == <<f1>>
=============================================================================
