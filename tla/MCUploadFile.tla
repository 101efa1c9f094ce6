---------------------------- MODULE MCUploadFile ----------------------------
(* Instances of UploadFile for TLC. *)
EXTENDS UploadFile

MCSlice == 4 * MiB

\* 20 MiB for each worker: a tight container, one full of page cache, one with
\* all of its memory pinned, and a large host with part of a CPU.
MCHosts ==
  {[limit |-> 100 * MiB, current |-> 90 * MiB, inactive |-> 0, cpu |-> <<2, 1>>],
   [limit |-> 400 * MiB, current |-> 390 * MiB, inactive |-> 395 * MiB,
    cpu |-> <<2, 1>>],
   [limit |-> 64 * MiB, current |-> 64 * MiB, inactive |-> 0, cpu |-> <<1, 1>>],
   [limit |-> 1000 * MiB, current |-> 0, inactive |-> 0, cpu |-> <<1, 3>>]}
=============================================================================
