---------------------------- MODULE ResourcePlan ----------------------------
(***************************************************************************)
(* resource.Plan: what a host's free disk, memory and CPU allow.  Amounts  *)
(* are bytes.  The reserve fraction and the CPU quota, float64 in the      *)
(* code, are ratios <<n, d>>.  User-given sizes are taken to be small      *)
(* enough that twice a volume and three slices stay below 2^63.            *)
(***************************************************************************)
EXTENDS Integers

Smaller(a, b) == IF a < b THEN a ELSE b
Larger(a, b) == IF a > b THEN a ELSE b

MiB == 1048576

-----------------------------------------------------------------------------
(* Disk: l are the Limits, free and total the file system's bytes. *)

Reserve(l, total) ==
  Larger(l.minFree, (total * l.fraction[1]) \div l.fraction[2])

Usable(l, free, total) == free - Reserve(l, total)

\* One sealed volume plus one volume being written.
SafeVolume(l, free, total) == Usable(l, free, total) \div 2

\* Plan returns a policy, not an error.  A requested volume of 0 is "auto".
PlanFits(l, free, total) ==
  /\ Usable(l, free, total) >= 2 * l.minVolume
  /\ l.requested <= SafeVolume(l, free, total)

\* Mutant: a volume may fill all usable space.
MutVolumeBytes(l, free, total) ==
  LET v == Larger(Smaller(Usable(l, free, total), l.maxVolume), l.minVolume)
  IN  v - (v % 512)

\* The volume size of a policy, cut to whole tar blocks.
VolumeBytes(l, free, total) ==
  LET wish == IF l.requested > 0 THEN l.requested ELSE SafeVolume(l, free, total)
      v == Larger(Smaller(wish, l.maxVolume), l.minVolume)
  IN  v - (v % 512)

-----------------------------------------------------------------------------
(* Memory and CPU. *)

\* cgroupMemoryAvailable: headroom and inactive file pages, at most the limit.
CgroupAvailable(limit, current, inactive) ==
  Smaller(limit, Larger(0, limit - current) + Smaller(inactive, current))

\* Three slices and 8 MiB for each active worker.
PerWorker(slice) == 3 * slice + 8 * MiB

\* detectMemory's three figures as Plan uses them; 512 MiB when they say nothing.
PlanMemory(available, limit, current) ==
  IF available > 0 THEN available
  ELSE IF limit > current THEN limit - current ELSE 512 * MiB

CeilDiv(a, b) == (a + b - 1) \div b

\* Never more than a third of memory for upload buffers, sixteen requests for
\* each CPU, and at least one worker.
MaxConcurrency(memory, slice, cpu, cap) ==
  Smaller(cap, Smaller(Larger(1, (memory \div 3) \div PerWorker(slice)),
                       Larger(1, CeilDiv(16 * cpu[1], cpu[2]))))

InitialConcurrency(max) == Smaller(max, 4)
=============================================================================
