---------------------------- MODULE MCBatchAudit ----------------------------
(* Instances of BatchAudit for TLC: two frozen files, one that is expected   *)
(* besides them and one that is not, in a listing of pages of two.           *)
EXTENDS BatchAudit

CONSTANTS j1, r1, r2, f1, f2, x, y

MCJobOf == [r \in Runners |-> j1]
MCFiles == <<f1, f2>>
MCOrder == <<f1, x, f2, y>>
=============================================================================
