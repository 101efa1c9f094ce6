-------------------------- MODULE BackupDiskProofs --------------------------
(***************************************************************************)
(* Proofs about BackupDisk: a disk of limited size takes nothing from what *)
(* BackupRunProofs establishes, and what a backup leaves on the disk never *)
(* reaches into the reserve of resource.Plan.                              *)
(***************************************************************************)
EXTENDS BackupDisk, BackupRunProofs

-----------------------------------------------------------------------------
(* Every step of the sized disk is one of BackupRun or ends the run as     *)
(* PlanRefuses does.                                                       *)

Kept == <<size, disk, staged, tmps, remote, remoteMeta, catalog, faults>>

LEMMA DiskSteps ==
  [DiskNext]_<<vars, diskVars>> => [Next]_vars \/ (Halt /\ UNCHANGED Kept)
  BY DEF DiskNext, DiskStep, PlanRefuses, PlannedOpen, PlannedPackRefused,
         PlannedPackStart, PackNothingSized, PackSealSized, InterruptSized,
         PackFailsSized, Next, Step, Faults, Kept

LEMMA HaltKeeps ==
  IInv /\ Staging /\ Halt /\ UNCHANGED Kept => IInv' /\ Staging'
  <1> SUFFICES ASSUME IInv, Staging, Halt, UNCHANGED Kept
               PROVE  IInv' /\ Staging'
    OBVIOUS
  <1>1. TypeInv'
    BY HaltType, ConstantsAssumption DEF IInv, TypeInv, TypeOK, Kept, Running
  <1>2. DataInv'
    BY DataKept DEF IInv, DataInv, Kept
  <1>3. (Control /\ MetadataSent)'
    BY DEF Halt, Control, MetadataSent
  <1>4. Staging'
    BY DEF Halt, Staging, Delivery, Kept
  <1> QED BY <1>1, <1>2, <1>3, <1>4 DEF IInv, DataInv

LEMMA RunInvariant == DiskSpec => [](IInv /\ Staging)
  <1>1. DiskInit => IInv /\ Staging
    BY IInvInit, StagingInit DEF DiskInit
  <1>2. IInv /\ Staging /\ [DiskNext]_<<vars, diskVars>> => IInv' /\ Staging'
    BY DiskSteps, HaltKeeps, IInvStep, StagingStep
  <1> QED BY <1>1, <1>2, PTL DEF DiskSpec

-----------------------------------------------------------------------------
(* The sum of the lengths of the staged volumes, which are one at most.    *)

LEMMA SumNone == MapThenSumSet(Length, {}) = 0
  <1> DEFINE Sum(g) == g = [s \in SUBSET {} |->
                              IF s = {} THEN 0
                              ELSE LET x == CHOOSE x \in s : TRUE
                                   IN  Length(x) + g[s \ {x}]]
             h == [s \in SUBSET {} |-> 0]
             G == CHOOSE g : Sum(g)
  <1>1. Sum(h)
    OBVIOUS
  <1>2. Sum(G)
    <2> HIDE DEF Sum
    <2> QED BY <1>1, Zenon
  <1>3. G[{}] = 0
    <2> HIDE DEF G
    <2> QED BY <1>2
  <1> QED BY <1>3, Zenon DEF MapThenSumSet, MapThenFoldSet

LEMMA SumOne ==
  ASSUME NEW v \in Volume
  PROVE  MapThenSumSet(Length, {v}) = Length(v)
  <1> DEFINE pick(s) == CHOOSE x \in s : TRUE
             Sum(g) == g = [s \in SUBSET {v} |->
                              IF s = {} THEN 0
                              ELSE LET x == pick(s)
                                   IN  Length(x) + g[s \ {x}]]
             h == [s \in SUBSET {v} |-> IF s = {} THEN 0 ELSE Length(v)]
             G == CHOOSE g : Sum(g)
  <1>0. Length(v) \in Int
    BY DEF Length, Volume
  <1>1. pick({v}) = v /\ {v} \ {v} = {}
    OBVIOUS
  <1>2. ASSUME NEW s \in SUBSET {v}
        PROVE  h[s] = IF s = {} THEN 0
                      ELSE LET x == pick(s) IN Length(x) + h[s \ {x}]
    <2>1. CASE s = {}
      BY <2>1
    <2>2. CASE s = {v}
      <3>1. h[s] = Length(v) /\ h[{}] = 0
        BY <2>2
      <3>2. pick(s) = v /\ s \ {pick(s)} = {}
        BY <2>2, <1>1
      <3> HIDE DEF pick, h
      <3>3. Length(v) + 0 = Length(v)
        BY <1>0
      <3> QED BY <2>2, <3>1, <3>2, <3>3
    <2> QED BY <2>1, <2>2
  <1>3. Sum(h)
    BY <1>2, Zenon
  <1>4. Sum(G)
    <2> HIDE DEF Sum
    <2> QED BY <1>3, Zenon
  <1>5. G[{v}] = Length(v) + G[{}] /\ G[{}] = 0
    <2> HIDE DEF G
    <2>1. ASSUME NEW s \in SUBSET {v}
          PROVE  G[s] = IF s = {} THEN 0
                        ELSE Length(pick(s)) + G[s \ {pick(s)}]
      BY <1>4, Zenon
    <2> HIDE DEF pick, Sum
    <2>2. G[{}] = 0
      BY <2>1
    <2>3. G[{v}] = Length(v) + G[{v} \ {v}]
      BY <2>1, <1>1
    <2> QED BY <2>2, <2>3, <1>1
  <1>6. MapThenSumSet(Length, {v}) = G[{v}]
    BY Zenon DEF MapThenSumSet, MapThenFoldSet
  <1> QED
    <2> HIDE DEF G
    <2> QED BY <1>0, <1>5, <1>6
-----------------------------------------------------------------------------
(* What Plan asks for.                                                      *)

LEMMA ReserveIsNat ==
  ASSUME NEW l \in Limits, NEW total \in Nat
  PROVE  Reserve(l, total) \in Nat
  <1>1. /\ l.minFree \in Nat
        /\ l.fraction[1] \in Nat /\ l.fraction[2] \in Nat \ {0}
    BY DiskAssumption
  <1>2. total * l.fraction[1] \in Nat
    BY <1>1
  <1>3. (total * l.fraction[1]) \div l.fraction[2] \in Nat
    <2> DEFINE m == total * l.fraction[1]
    <2> HIDE DEF m
    <2> QED BY <1>1, <1>2 DEF m
  <1> QED BY <1>1, <1>3 DEF Reserve, Larger

\* A policy leaves room above the reserve for two volumes of the size it asks.
LEMMA PolicyLeavesTwo ==
  ASSUME NEW l \in Limits, NEW free \in Int, NEW total \in Nat,
         PlanFits(l, free, total)
  PROVE  /\ VolumeBytes(l, free, total) \in Nat
         /\ 2 * VolumeBytes(l, free, total) <= Usable(l, free, total)
  <1> DEFINE u == Usable(l, free, total)
             safe == SafeVolume(l, free, total)
             wish == IF l.requested > 0 THEN l.requested ELSE safe
             v == Larger(Smaller(wish, l.maxVolume), l.minVolume)
  <1>0. /\ l.requested \in Nat /\ l.minVolume \in Nat /\ l.maxVolume \in Nat
        /\ l.minVolume <= l.maxVolume
    BY DiskAssumption
  <1>1. u \in Int
    BY ReserveIsNat DEF Usable
  <1>2. 2 * l.minVolume <= u /\ safe \in Int /\ 2 * safe <= u
        /\ l.requested <= safe /\ l.minVolume <= safe
    <2>1. 2 * l.minVolume <= u /\ l.requested <= safe
      BY DEF PlanFits
    <2>2. safe = u \div 2
      BY DEF SafeVolume
    <2> HIDE DEF u, safe
    <2> QED BY <1>0, <1>1, <2>1, <2>2
  <1>3. v \in Nat /\ v <= safe
    <2> HIDE DEF safe
    <2>1. wish \in Int /\ wish <= safe
      BY <1>0, <1>2
    <2> HIDE DEF wish
    <2> QED BY <1>0, <1>2, <2>1 DEF Larger, Smaller
  <1>4. VolumeBytes(l, free, total) = v - (v % 512)
    BY DEF VolumeBytes
  <1> HIDE DEF u, safe, v
  <1>5. v % 512 \in 0 .. v
    BY <1>3
  <1>6. VolumeBytes(l, free, total) \in Nat /\ VolumeBytes(l, free, total) <= safe
    BY <1>2, <1>3, <1>4, <1>5
  <1> QED BY <1>1, <1>2, <1>6 DEF u

\* Arithmetic used below: products are kept in Nat and in order.
LEMMA Times ==
  ASSUME NEW a \in Nat, NEW b \in Nat
  PROVE  /\ a * b \in Nat
         /\ \A c \in Nat : b <= c => a * b <= a * c
  OBVIOUS

\* What fits in the half fits in the whole.
LEMMA HalfFits ==
  ASSUME NEW m \in Nat, NEW t \in Nat, NEW a \in Int, m <= t, 2 * t <= a
  PROVE  m <= a
  OBVIOUS

LEMMA TwoFit ==
  ASSUME NEW t \in Nat, NEW u \in Int, NEW a \in Int, 2 * t <= u, u <= a
  PROVE  2 * t <= a
  OBVIOUS

LEMMA QuotientFits ==
  ASSUME NEW t \in Nat, NEW u \in Nat \ {0}, NEW n \in 0 .. t \div u
  PROVE  n \in Nat /\ u * n \in Nat /\ u * n <= t
  <1>1. t \div u \in Nat /\ u * (t \div u) <= t
    OBVIOUS
  <1>2. n \in Nat /\ n <= t \div u
    BY <1>1
  <1> DEFINE q == t \div u
  <1> HIDE DEF q
  <1>3. u * n \in Nat /\ u * n <= u * q /\ u * q \in Nat
    BY <1>1, <1>2, Times DEF q
  <1> DEFINE a == u * n
             b == u * q
  <1>4. b <= t /\ b \in Nat
    BY <1>1, <1>3 DEF q
  <1> HIDE DEF a, b
  <1>5. a <= t /\ a \in Nat
    BY <1>3, <1>4 DEF a, b
  <1> QED BY <1>2, <1>5 DEF a

-----------------------------------------------------------------------------
(* What is on the disk.  Above is what an empty staging directory leaves    *)
(* above the reserve; what lies there was planned with at least twice its   *)
(* size to spare, or is a part of something that was.                       *)

Above == room[1] - Reserve(limits, room[2])

DiskType == /\ room \in Nat \X Nat /\ limits \in Limits
            /\ tmpUnits \in Nat /\ target \in Nat

Spared ==
  /\ pc = "packing" => tmpUnits = 0 /\ 2 * target <= Above
  /\ tmpUnits > 0 => staged = {} /\ Unit * tmpUnits <= Above
  /\ \A f \in staged : /\ Length(f) \in Nat
                        /\ Unit * Length(f) <= Above

DiskIInv == DiskType /\ Spared
LEMMA AboveIsInt == DiskType => Above \in Int
  BY ReserveIsNat DEF DiskType, Above

\* What is used, in the two states the directory can be in.
LEMMA UsedIs ==
  ASSUME IInv, Staging, DiskType, Spared
  PROVE  /\ staged = {} => Used = Unit * tmpUnits
         /\ \A f \in staged : Used = Unit * Length(f)
         /\ Used \in Nat
  <1>u. Unit \in Nat \ {0} /\ tmpUnits \in Nat
    BY DiskAssumption DEF DiskType
  <1>1. ASSUME staged = {} PROVE Used = Unit * tmpUnits
    <2>1. MapThenSumSet(Length, staged) = 0
      BY <1>1, SumNone
    <2> QED BY <1>u, <2>1 DEF Used
  <1>2. ASSUME NEW f \in staged
        PROVE  Used = Unit * Length(f) /\ Length(f) \in Nat
    <2>1. staged = {f} /\ f \in Volume
      BY DEF Staging, IInv, TypeInv, TypeOK
    <2>2. MapThenSumSet(Length, staged) = Length(f)
      BY <2>1, SumOne
    <2>3. tmpUnits = 0 /\ Length(f) \in Nat
      BY <1>u DEF Spared
    <2> QED BY <2>2, <2>3 DEF Used
  <1>3. Used \in Nat
    <2>1. CASE staged = {}
      BY <1>u, <1>1, <2>1
    <2>2. CASE staged # {}
      BY <1>u, <1>2, <2>2
    <2> QED BY <2>1, <2>2
  <1> QED BY <1>1, <1>2, <1>3

\* Nothing that a step other than these does can add to what is on the disk.
LEMMA SparedStays ==
  ASSUME DiskType, Spared, staged' \subseteq staged, UNCHANGED diskVars,
         pc' = "packing" => pc = "packing"
  PROVE  DiskType' /\ Spared'
  BY DEF DiskType, Spared, Above, diskVars

LEMMA DiskStepKeeps ==
  IInv /\ Staging /\ DiskIInv /\ [DiskNext]_<<vars, diskVars>> => DiskIInv'
  <1> SUFFICES ASSUME IInv, Staging, DiskType, Spared,
                      [DiskNext]_<<vars, diskVars>>
               PROVE  DiskType' /\ Spared'
    BY DEF DiskIInv
  <1>i. Above \in Int
    BY AboveIsInt
  <1>u. Unit \in Nat \ {0}
    BY DiskAssumption
  <1>a. store \in Backup /\ size \in Nat
    BY ConstantsAssumption DEF IInv, TypeInv, TypeOK
  <1>1. CASE PlannedPackStart
    <2>1. staged = {} /\ UNCHANGED staged
      <3>1. /\ pc = "loop" /\ store = disk /\ staged \subseteq Volume
            /\ UNCHANGED staged
        BY <1>1 DEF PlannedPackStart, PackStart, IInv, Control, TypeInv, TypeOK
      <3>2. ASSUME NEW f \in staged PROVE FALSE
        <4>1. f.index \in Nat /\ disk.next \in Nat
          BY <1>a, <3>1 DEF Volume, Backup
        <4>2. f.index >= disk.next /\ f.index <= disk.next
          BY <3>1 DEF Staging
        <4>3. f.index # disk.next
          BY <1>1, <3>1 DEF PlannedPackStart, PackStart
        <4> QED BY <4>1, <4>2, <4>3
      <3> QED BY <3>1, <3>2
    <2>2. Used \in Nat
      BY UsedIs
    <2>3. room[1] \in Int /\ room[2] \in Nat /\ limits \in Limits
      BY DEF DiskType
    <2>4. DiskFree \in Int /\ PlanFits(limits, DiskFree, room[2])
      BY <1>1, <2>2, <2>3 DEF DiskFree, PlannedPackStart, PolicyFits
    <2>5. target' \in Nat /\ 2 * target' <= Usable(limits, DiskFree, room[2])
      BY <1>1, <2>3, <2>4, PolicyLeavesTwo DEF PlannedPackStart
    <2>6. Usable(limits, DiskFree, room[2]) <= Above
      BY <1>i, <2>2, <2>3, ReserveIsNat DEF Usable, DiskFree, Above
    <2>7. 2 * target' <= Above
      <3>1. Usable(limits, DiskFree, room[2]) \in Int
        BY <2>3, <2>4, ReserveIsNat DEF Usable
      <3> QED BY <1>i, <2>5, <2>6, <3>1, TwoFit
    <2> QED BY <1>1, <2>1, <2>5, <2>7
            DEF PlannedPackStart, DiskType, Spared, Above
  <1>2. CASE PackSealSized
    <2>1. PICK to \in store.pos + 1 .. size :
            /\ vol' = [index |-> store.next, from |-> store.pos, to |-> to]
            /\ staged' = Put(staged, vol')
      BY <1>2 DEF PackSealSized, PackSeal
    <2>2. pc = "packing" /\ staged = {} /\ 2 * target <= Above
      BY <1>2 DEF PackSealSized, PackSeal, Staging, Spared
    <2>3. staged' = {vol'} /\ Length(vol') \in Nat
      BY <1>a, <2>1, <2>2 DEF Put, Without, Length, Backup
    <2>4. Unit * Length(vol') <= target
      BY <1>2 DEF PackSealSized
    <2>5. Unit * Length(vol') \in Nat /\ target \in Nat
      BY <1>u, <2>3 DEF DiskType
    <2>6. Unit * Length(vol') <= Above
      BY <1>i, <2>2, <2>4, <2>5, HalfFits
    <2> QED BY <1>2, <2>3, <2>6
            DEF PackSealSized, PackSeal, NoTmp, DiskType, Spared, Above
  <1>3. CASE InterruptSized
    <2>1. pc' = "down" /\ UNCHANGED staged /\ target' = 0
          /\ UNCHANGED <<room, limits>>
      BY <1>3 DEF InterruptSized, Interrupt, Fault, Halt
    <2>2. CASE pc = "packing"
      <3>1. /\ tmpUnits' \in 0 .. target \div Unit
            /\ staged = {} /\ 2 * target <= Above /\ target \in Nat
        BY <1>3, <2>2 DEF InterruptSized, Staging, Spared, DiskType
      <3>2. /\ tmpUnits' \in Nat /\ Unit * tmpUnits' \in Nat
            /\ Unit * tmpUnits' <= target
        BY <1>u, <3>1, QuotientFits
      <3>3. Unit * tmpUnits' <= Above
        BY <1>i, <3>1, <3>2, HalfFits
      <3> QED BY <2>1, <3>1, <3>2, <3>3 DEF DiskType, Spared, Above
    <2>3. CASE pc # "packing"
      BY <1>3, <2>1, <2>3 DEF InterruptSized, DiskType, Spared, Above
    <2> QED BY <2>2, <2>3
  <1>4. CASE PackNothingSized \/ PackFailsSized
    BY <1>4 DEF PackNothingSized, PackFailsSized, PackNothing, PackFails,
                Fault, Halt, NoTmp, DiskType, Spared, Above
  <1>5. ASSUME UNCHANGED diskVars, UNCHANGED staged, pc' # "packing"
        PROVE  DiskType' /\ Spared'
    BY <1>5, SparedStays
  <1>6. CASE (PendingUploaded \/ RemoveStaged) /\ UNCHANGED diskVars
    <2>1. staged' \subseteq staged /\ pc' # "packing"
      BY <1>6 DEF PendingUploaded, RemoveStaged, Without
    <2> QED BY <1>6, <2>1, SparedStays
  <1>7. CASE UNCHANGED <<vars, diskVars>>
    BY <1>7, SparedStays DEF vars
  <1>8. CASE (PlanRefuses \/ PlannedOpen \/ PlannedPackRefused)
    BY <1>5, <1>8 DEF PlanRefuses, PlannedOpen, PlannedPackRefused, Open,
                      PackRefused, Halt, diskVars
  <1>9. CASE /\ \/ Start \/ PendingUpload \/ PendingEnd \/ LoopDone
                \/ MarkArchiveDone \/ AddSealed \/ IncrementAttempt
                \/ UploadVolume \/ MarkUploaded \/ UploadMetadata
                \/ MarkComplete \/ Exit \/ UploadFails \/ MetadataFails
             /\ UNCHANGED diskVars
    <2>1. UNCHANGED staged /\ pc' # "packing"
      BY <1>9 DEF Start, PendingUpload, PendingEnd, LoopDone, MarkArchiveDone,
                  AddSealed, IncrementAttempt, UploadVolume, MarkUploaded,
                  UploadMetadata, MarkComplete, Exit, UploadFails,
                  MetadataFails, Fault, Halt
    <2> QED BY <1>5, <1>9, <2>1
  <1> QED BY <1>1, <1>2, <1>3, <1>4, <1>6, <1>7, <1>8, <1>9
          DEF DiskNext, DiskStep

LEMMA DiskInvariant == DiskSpec => [](IInv /\ Staging /\ DiskIInv)
  <1>1. DiskInit => DiskIInv
    BY DiskAssumption DEF DiskInit, Init, DiskIInv, DiskType, Spared
  <1>2. ASSUME IInv, Staging, DiskIInv, [DiskNext]_<<vars, diskVars>>
        PROVE  DiskIInv'
    BY <1>2, DiskStepKeeps
  <1> QED BY <1>1, <1>2, RunInvariant, PTL DEF DiskSpec

-----------------------------------------------------------------------------
\* The reserve is kept for every disk, every limits and every size of a
\* position: while a volume is packed there is room above the reserve for it
\* and for a second of its size (backup.Run's resource.Plan before each
\* volume), and what is staged between two volumes fits above it.
THEOREM ReserveIsKept == DiskSpec => []ReserveKept
  <1>1. IInv /\ Staging /\ DiskIInv => ReserveKept
    <2> SUFFICES ASSUME IInv, Staging, DiskType, Spared PROVE ReserveKept
      BY DEF DiskIInv
    <2>1. Above \in Int /\ Used \in Nat /\ target \in Nat
      BY AboveIsInt, UsedIs DEF DiskType
    <2>2. room[1] \in Int /\ Reserve(limits, room[2]) \in Int
      BY ReserveIsNat DEF DiskType
    <2>3. DiskFree - Reserve(limits, room[2]) = Above - Used
      BY <2>1, <2>2 DEF DiskFree, Above
    <2>4. pc = "packing" => Above - Used >= 2 * target
      <3>1. pc = "packing" => Used = 0 /\ 2 * target <= Above
        BY UsedIs, DiskAssumption DEF Staging, Spared
      <3> QED BY <2>1, <3>1
    <2>5. Used > 0 => Above - Used >= 0
      <3>1. CASE staged = {}
        BY <2>1, <3>1, UsedIs, DiskAssumption DEF Spared, DiskType
      <3>2. CASE staged # {}
        BY <2>1, <3>2, UsedIs DEF Spared
      <3> QED BY <3>1, <3>2
    <2> QED BY <2>3, <2>4, <2>5 DEF ReserveKept
  <1> QED BY <1>1, DiskInvariant, PTL

\* Running out of disk, which ends a run at any volume, takes nothing from
\* what a backup guarantees: all of it holds on a disk of any size.
THEOREM DiskTakesNothing ==
  DiskSpec => [](/\ TypeOK /\ VolumesTileManifest /\ NothingLost
                 /\ CatalogIsComplete /\ SuccessIsRestorable /\ OneVolumeOnDisk)
  <1>1. IInv => TypeOK
    BY DEF IInv, TypeInv
  <1> QED BY <1>1, RunInvariant, Safe, StagingIsOne, PTL

\* The sized disk still implements the promise of a backup.
THEOREM DiskKeepsPromise == DiskSpec => KeepsPromise
  <1>1. Halt /\ UNCHANGED Kept => [Promise!PNext]_Promise!pvars
    BY DEF Kept, Promise!pvars
  <1>2. IInv /\ [DiskNext]_<<vars, diskVars>> => [Promise!PNext]_Promise!pvars
    BY <1>1, DiskSteps, PromiseStep
  <1>3. DiskInit => Promise!PInit
    BY PromiseInit DEF DiskInit
  <1> QED BY <1>2, <1>3, RunInvariant, PTL
          DEF DiskSpec, KeepsPromise, Promise!PSpec
=============================================================================
