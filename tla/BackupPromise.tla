--------------------------- MODULE BackupPromise ---------------------------
(***************************************************************************)
(* What a panpack backup promises, independent of processes, staging files *)
(* and restarts: the manifest [0, size) is cut once and for all into       *)
(* consecutive volumes; each volume is delivered to the remote directory;  *)
(* the backup is finished only when the whole manifest is delivered.       *)
(* BackupRun is shown to implement this module.                            *)
(***************************************************************************)
EXTENDS Integers, Sequences

VARIABLES size,      \* length of the manifest, fixed when the snapshot is taken
          ledger,    \* the volumes cut so far, in order
          delivered, \* indices of the volumes known to be stored remotely
          finished   \* the backup has been declared complete

pvars == <<size, ledger, delivered, finished>>

\* Where the next volume starts.
Frontier(l) == IF l = <<>> THEN 0 ELSE l[Len(l)].to

PInit == /\ size \in Nat
         /\ ledger = <<>>
         /\ delivered = {}
         /\ finished = FALSE

\* Volumes are numbered from 0 and never empty.
Cut == \E to \in Frontier(ledger) + 1 .. size :
         /\ ledger' = Append(ledger, [index |-> Len(ledger),
                                      from |-> Frontier(ledger), to |-> to])
         /\ UNCHANGED <<size, delivered, finished>>

Deliver == \E i \in (0 .. Len(ledger) - 1) \ delivered :
             /\ delivered' = delivered \union {i}
             /\ UNCHANGED <<size, ledger, finished>>

Finish == /\ Frontier(ledger) = size
          /\ delivered = 0 .. Len(ledger) - 1
          /\ finished' = TRUE
          /\ UNCHANGED <<size, ledger, delivered>>

PNext == Cut \/ Deliver \/ Finish

PSpec == PInit /\ [][PNext]_pvars
=============================================================================
