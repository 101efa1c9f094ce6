----------------------------- MODULE BackupDisk -----------------------------
(***************************************************************************)
(* BackupRun on a disk of limited size.  backup.Run asks resource.Plan for *)
(* a policy when it starts, before it uploads what an earlier run left on  *)
(* the disk, and again before each volume, which is then no larger than    *)
(* the policy says.  One position of the manifest packs to Unit bytes;     *)
(* other programs neither take nor free space, and the few files of the    *)
(* state directory are not counted.                                        *)
(***************************************************************************)
EXTENDS BackupRun, ResourcePlan, FiniteSetsExt

CONSTANTS Unit,  \* bytes one position packs to
          Rooms, \* <<free, total>> bytes of a disk with nothing staged
          Limits \* resource.Limits a user may give

\* PackNext takes no target below 64 KiB.
ASSUME DiskAssumption ==
  /\ Unit \in Nat \ {0}
  /\ Rooms \subseteq Nat \X Nat
  /\ \A l \in Limits :
       /\ l.minFree \in Nat /\ l.requested \in Nat
       /\ l.minVolume \in Nat /\ l.maxVolume \in Nat
       /\ l.fraction \in Nat \X (Nat \ {0})
       /\ l.minVolume >= 65536 /\ l.maxVolume >= l.minVolume

VARIABLES room,     \* the disk
          limits,   \* the limits, the same in every run
          tmpUnits, \* how far the .tmp in the staging directory has grown
          target    \* target bytes of the volume being packed, 0 between

diskVars == <<room, limits, tmpUnits, target>>

Length(v) == v.to - v.from

\* Bytes in the staging directory.
Used == Unit * (MapThenSumSet(Length, staged) + tmpUnits)

\* What Detect finds free.
DiskFree == room[1] - Used

PolicyFits == PlanFits(limits, DiskFree, room[2])

DiskInit == /\ Init
            /\ room \in Rooms /\ limits \in Limits
            /\ tmpUnits = 0 /\ target = 0

-----------------------------------------------------------------------------
\* Plan returns an error, and Run with it: at the start, or as backpressure.
PlanRefuses == /\ pc = "open" \/ (pc = "loop" /\ ~store.done)
               /\ ~PolicyFits
               /\ Halt
               /\ UNCHANGED <<size, disk, staged, tmps, remote, remoteMeta,
                              catalog, faults, diskVars>>

PlannedOpen == PolicyFits /\ Open /\ UNCHANGED diskVars

PlannedPackRefused == PolicyFits /\ PackRefused /\ UNCHANGED diskVars

\* The stale .tmp was on the disk when Plan looked, and is gone now.
PlannedPackStart ==
  /\ PolicyFits
  /\ PackStart
  /\ target' = VolumeBytes(limits, DiskFree, room[2])
  /\ tmpUnits' = 0
  /\ UNCHANGED <<room, limits>>

\* The .tmp is renamed or removed.
NoTmp == tmpUnits' = 0 /\ target' = 0 /\ UNCHANGED <<room, limits>>

PackNothingSized == PackNothing /\ NoTmp

PackSealSized == PackSeal /\ Unit * Length(vol') <= target /\ NoTmp

PackFailsSized == PackFails /\ NoTmp

\* A packer that is killed leaves as much of its .tmp as it has written.
InterruptSized ==
  /\ Interrupt
  /\ IF pc = "packing" THEN tmpUnits' \in 0 .. target \div Unit
                       ELSE UNCHANGED tmpUnits
  /\ target' = 0
  /\ UNCHANGED <<room, limits>>

-----------------------------------------------------------------------------
DiskStep ==
  \/ PlanRefuses \/ PlannedOpen \/ PlannedPackRefused \/ PlannedPackStart
  \/ PackNothingSized \/ PackSealSized
  \/ Start /\ UNCHANGED diskVars
  \/ PendingUploaded /\ UNCHANGED diskVars
  \/ PendingUpload /\ UNCHANGED diskVars
  \/ PendingEnd /\ UNCHANGED diskVars
  \/ LoopDone /\ UNCHANGED diskVars
  \/ MarkArchiveDone /\ UNCHANGED diskVars
  \/ AddSealed /\ UNCHANGED diskVars
  \/ IncrementAttempt /\ UNCHANGED diskVars
  \/ UploadVolume /\ UNCHANGED diskVars
  \/ MarkUploaded /\ UNCHANGED diskVars
  \/ RemoveStaged /\ UNCHANGED diskVars
  \/ UploadMetadata /\ UNCHANGED diskVars
  \/ MarkComplete /\ UNCHANGED diskVars
  \/ Exit /\ UNCHANGED diskVars

DiskNext ==
  \/ DiskStep
  \/ InterruptSized \/ PackFailsSized
  \/ UploadFails /\ UNCHANGED diskVars
  \/ MetadataFails /\ UNCHANGED diskVars

DiskSpec == DiskInit /\ [][DiskNext]_<<vars, diskVars>>

\* As FairSpec: the process goes on, and an interrupted backup is run again.
DiskFairSpec == DiskSpec /\ WF_<<vars, diskVars>>(DiskStep)

-----------------------------------------------------------------------------
\* The reserve is never touched, whatever earlier runs have left on the disk:
\* while a volume is packed there is room above the reserve for it and for
\* another one of its size, and between volumes what is staged fits.
ReserveKept ==
  LET above == DiskFree - Reserve(limits, room[2])
  IN  /\ pc = "packing" => above >= 2 * target
      /\ Used > 0 => above >= 0

\* The next run finds a volume that the packer sealed and never recorded.
Orphan == pc = "down" /\ \E f \in staged : f.index = disk.next

\* A disk on which Plan still agrees beside the largest volume it would ask for.
Roomy == PlanFits(limits, room[1] - VolumeBytes(limits, room[1], room[2]), room[2])

\* On a roomy disk a backup that is interrupted (finitely often) and run again
\* and again is completed, unless it was stopped between sealing a volume and
\* recording it.
ResumesIfRoomy == Roomy => <>(disk.completed \/ Orphan)

\* What the README promises of resuming, on any disk Plan agreed to at first.
ResumesWhereItFits == PlanFits(limits, room[1], room[2]) => <>(disk.completed)
=============================================================================
