-------------------------- MODULE BackupRunProofs --------------------------
(***************************************************************************)
(* Theorems about BackupRun, for every set of manifest sizes, every bound  *)
(* on faults and either value of SealGapFaults.                            *)
(***************************************************************************)
EXTENDS BackupRun, FiniteSetTheorems, TLAPS

-----------------------------------------------------------------------------
LEMMA FreshIsBackup == Fresh \in Backup /\ NoVolume \in Volume
  BY DEF Fresh, Backup, NoVolume, Volume

LEMMA PutType ==
  ASSUME NEW files \in SUBSET Volume, NEW v \in Volume
  PROVE  Put(files, v) \subseteq Volume
  BY DEF Put, Without

LEMMA WithoutType ==
  ASSUME NEW files \in SUBSET Volume, NEW i
  PROVE  Without(files, i) \subseteq Volume
  BY DEF Without

LEMMA WithSealedType ==
  ASSUME NEW b \in Backup, NEW v \in Volume, size \in Nat
  PROVE  /\ WithSealed(b, v) \in Backup
         /\ WithSealed(b, v).vols = Append(b.vols, v)
         /\ WithSealed(b, v).uploaded = b.uploaded
         /\ WithSealed(b, v).next = v.index + 1
         /\ WithSealed(b, v).pos = v.to
         /\ WithSealed(b, v).done = (v.to >= size)
         /\ WithSealed(b, v).completed = b.completed
  <1>1. Append(b.vols, v) \in Seq(Volume)
    BY DEF Backup
  <1>2. (v.to >= size) \in BOOLEAN
    OBVIOUS
  <1>3. WithSealed(b, v) \in Backup
    BY <1>1, <1>2 DEF WithSealed, Backup, Volume
  <1>4. WithSealed(b, v).done = (v.to >= size)
    BY Zenon DEF WithSealed
  <1> QED BY <1>3, <1>4 DEF WithSealed

\* TypeOK is inductive once three local facts are added: the volume being
\* committed ends inside the manifest, uploadPending counts from 1, and the
\* metadata loop stops after three files.
TypeInv == /\ TypeOK
           /\ pc = "sealed" => vol.to <= size
           /\ pc = "pending" => pend > 0
           /\ sent < 3 \/ pc \in {"complete", "done"}

\* What Halt leaves in the process's variables.
LEMMA HaltType ==
  ASSUME Halt
  PROVE  /\ store' \in Backup /\ store'.pos = 0 /\ vol' \in Volume
         /\ pend' = 0 /\ sent' = 0 /\ pc' = "down"
  BY FreshIsBackup DEF Halt, Fresh

\* Types are kept by every step.
LEMMA TypeStep == TypeInv /\ [Next]_vars => TypeInv'
  <1> SUFFICES ASSUME TypeInv, [Next]_vars PROVE TypeInv'
    OBVIOUS
  <1> USE ConstantsAssumption DEF TypeInv, TypeOK, Running
  <1>0. size \in Nat
    OBVIOUS
  <1>1. CASE Start
    BY <1>1 DEF Start
  <1>2. CASE Open
    BY <1>2 DEF Open
  <1>3. CASE PendingUploaded
    <2>1. staged' \subseteq Volume
      BY <1>3, WithoutType DEF PendingUploaded
    <2> QED BY <1>3, <2>1 DEF PendingUploaded
  <1>4. CASE PendingUpload
    <2>1. store.vols[pend] \in Volume
      BY <1>4 DEF PendingUpload, Backup
    <2> QED BY <1>4, <2>1 DEF PendingUpload
  <1>5. CASE PendingEnd
    BY <1>5 DEF PendingEnd
  <1>6. CASE LoopDone
    BY <1>6 DEF LoopDone
  <1>7. CASE PackRefused
    BY <1>0, <1>7, HaltType DEF PackRefused
  <1>8. CASE PackStart
    BY <1>8 DEF PackStart, Backup
  <1>9. CASE PackNothing
    BY <1>9 DEF PackNothing
  <1>10. CASE MarkArchiveDone
    BY <1>10 DEF MarkArchiveDone, Save, Backup
  <1>11. CASE PackSeal
    <2>1. PICK to \in store.pos + 1 .. size :
            /\ vol' = [index |-> store.next, from |-> store.pos, to |-> to]
            /\ staged' = Put(staged, vol')
      BY <1>11 DEF PackSeal
    <2>2. vol' \in Volume /\ vol'.to <= size
      BY <1>0, <2>1 DEF Volume, Backup
    <2>3. staged' \subseteq Volume
      BY <2>1, <2>2, PutType
    <2> QED BY <1>11, <2>2, <2>3 DEF PackSeal
  <1>12. CASE AddSealed
    <2>1. store' = WithSealed(store, vol) /\ disk' = WithSealed(store, vol)
      BY <1>12 DEF AddSealed, Save
    <2>2. store' \in Backup /\ store'.pos <= size
      BY <1>0, <1>12, <2>1, WithSealedType DEF AddSealed
    <2> QED BY <1>12, <2>1, <2>2 DEF AddSealed
  <1>13. CASE IncrementAttempt
    BY <1>13 DEF IncrementAttempt, Save
  <1>14. CASE UploadVolume
    BY <1>14, PutType DEF UploadVolume
  <1>15. CASE MarkUploaded
    <2>1. [store EXCEPT !.uploaded = @ \union {vol.index}] \in Backup
      BY DEF Backup, Volume
    <2> QED BY <1>15, <2>1 DEF MarkUploaded, Save, Backup
  <1>16. CASE RemoveStaged
    <2>1. staged' \subseteq Volume /\ vol' \in Volume
      BY <1>16, WithoutType, FreshIsBackup DEF RemoveStaged
    <2> QED BY <1>16, <2>1 DEF RemoveStaged
  <1>17. CASE UploadMetadata
    <2>1. store.vols \in Seq(Volume)
      BY DEF Backup
    <2>2. sent \in 0 .. 2
      BY <1>17 DEF UploadMetadata
    <2>3. Metadata[sent + 1] \in {"manifest", "snapshot", "index"}
      BY <2>2 DEF Metadata
    <2>4. Len(Metadata) = 3
      BY DEF Metadata
    <2>5. catalog' \in Seq(Volume)
      BY <1>17, <2>1 DEF UploadMetadata
    <2>6. remoteMeta' \subseteq {"manifest", "snapshot", "index"}
      BY <1>17, <2>3 DEF UploadMetadata
    <2>7. sent' = sent + 1 /\ (sent' = 3 <=> pc' = "complete")
      BY <1>17, <2>2, <2>4 DEF UploadMetadata
    <2> QED BY <1>17, <2>2, <2>5, <2>6, <2>7 DEF UploadMetadata
  <1>18. CASE MarkComplete
    BY <1>18 DEF MarkComplete, Save, Backup
  <1>19. CASE Exit
    BY <1>0, <1>19, HaltType DEF Exit
  <1>20. CASE Interrupt
    BY <1>0, <1>20, HaltType DEF Interrupt, Fault
  <1>21. CASE PackFails
    <2>1. tmps' \subseteq Nat
      BY <1>21 DEF PackFails
    <2> QED BY <1>0, <1>21, <2>1, HaltType DEF PackFails, Fault
  <1>22. CASE UploadFails
    <2>1. remote' \subseteq Volume
      BY <1>22, PutType, WithoutType DEF UploadFails
    <2> QED BY <1>0, <1>22, <2>1, HaltType DEF UploadFails, Fault
  <1>23. CASE MetadataFails
    <2>1. store.vols \in Seq(Volume)
      BY DEF Backup
    <2>2. sent \in 0 .. 2
      BY <1>23 DEF MetadataFails
    <2>3. Metadata[sent + 1] \in {"manifest", "snapshot", "index"}
      BY <2>2 DEF Metadata
    <2>4. /\ remoteMeta' \subseteq {"manifest", "snapshot", "index"}
          /\ catalog' \in Seq(Volume)
      BY <1>23, <2>1, <2>3 DEF MetadataFails
    <2> QED BY <1>0, <1>23, <2>4, HaltType DEF MetadataFails, Fault
  <1>24. CASE UNCHANGED vars
    BY <1>24 DEF vars
  <1> QED BY <1>1, <1>2, <1>3, <1>4, <1>5, <1>6, <1>7, <1>8, <1>9, <1>10,
             <1>11, <1>12, <1>13, <1>14, <1>15, <1>16, <1>17, <1>18, <1>19,
             <1>20, <1>21, <1>22, <1>23, <1>24 DEF Next, Step, Faults

LEMMA TypeInit == Init => TypeInv
  BY ConstantsAssumption, FreshIsBackup DEF Init, TypeInv, TypeOK, Running, Fresh

LEMMA TypeAlways == Spec => []TypeInv
  BY TypeInit, TypeStep, PTL DEF Spec

\* TypeOK holds in every state of every behaviour.
THEOREM TypeCorrect == Spec => []TypeOK
  <1>1. TypeInv => TypeOK
    BY DEF TypeInv
  <1> QED BY <1>1, TypeAlways, PTL

-----------------------------------------------------------------------------
(* The inductive invariant.  The safety properties of BackupRun say what   *)
(* the files hold between two steps; to be kept by every step they need    *)
(* what Run knows at each point of its code.                               *)

\* The volume Run is delivering is one the state file records as pending.
Delivering == /\ \E i \in 1 .. Len(disk.vols) : disk.vols[i] = vol
              /\ vol.index \notin disk.uploaded

\* What Run knows at each point.
Control ==
  /\ pc \notin {"down", "open"} => store = disk
  /\ pc \in {"packing", "eof", "sealed"} => ~disk.done
  /\ pc = "eof" => disk.pos = size
  /\ pc = "sealed" => /\ vol \in staged
                      /\ vol.index = disk.next
                      /\ vol.from = disk.pos
                      /\ vol.from < vol.to
  /\ pc \in {"attempt", "upload", "verified"} => Delivering
  /\ pc = "verified" => vol \in remote
  /\ pc = "remove" => vol.index \in disk.uploaded
  /\ pc \in {"metadata", "complete"} => disk.done

\* Only recorded volumes are marked uploaded.
UploadedKnown == disk.uploaded \subseteq 0 .. Len(disk.vols) - 1

\* A remote index was written from this state after its last volume.
CatalogIsState == "index" \in remoteMeta => /\ catalog = disk.vols
                                            /\ disk.done
                                            /\ AllUploaded(disk)

\* The metadata files this run has uploaded are in place.
MetadataSent ==
  /\ sent >= 1 => "manifest" \in remoteMeta
  /\ sent >= 2 => "snapshot" \in remoteMeta
  /\ sent >= 3 => "index" \in remoteMeta
  /\ pc \in {"complete", "done"} => sent = 3
  /\ pc = "done" => disk.completed

IInv == /\ TypeInv
        /\ VolumesTileManifest
        /\ NothingLost
        /\ Control
        /\ UploadedKnown
        /\ CatalogIsState
        /\ MetadataSent

-----------------------------------------------------------------------------
(* Lemmas on the operators. *)

LEMMA KeepsOthers ==
  ASSUME NEW files, NEW v, NEW i, NEW f \in files
  PROVE  /\ f.index # i => f \in Without(files, i)
         /\ f.index # v.index => f \in Put(files, v)
         /\ v \in Put(files, v)
  BY DEF Without, Put

LEMMA TilesAppend ==
  ASSUME NEW vs \in Seq(Volume), NEW v \in Volume, Tiles(vs),
         v.index = Len(vs), v.from = End(vs), v.from < v.to
  PROVE  /\ Tiles(Append(vs, v))
         /\ End(Append(vs, v)) = v.to
         /\ Len(Append(vs, v)) = Len(vs) + 1
         /\ \A i \in 1 .. Len(vs) : Append(vs, v)[i] = vs[i]
  <1>1. /\ Len(Append(vs, v)) = Len(vs) + 1
        /\ \A i \in 1 .. Len(vs) : Append(vs, v)[i] = vs[i]
        /\ Append(vs, v)[Len(vs) + 1] = v
        /\ Len(vs) \in Nat
    OBVIOUS
  <1>2. End(vs) = IF Len(vs) = 0 THEN 0 ELSE vs[Len(vs)].to
    BY DEF End
  <1>3. End(Append(vs, v)) = v.to
    BY <1>1 DEF End
  <1>4. ASSUME NEW i \in 1 .. Len(vs) + 1
        PROVE  /\ Append(vs, v)[i].index = i - 1
               /\ Append(vs, v)[i].from =
                    IF i = 1 THEN 0 ELSE Append(vs, v)[i - 1].to
               /\ Append(vs, v)[i].from < Append(vs, v)[i].to
    <2>1. CASE i \in 1 .. Len(vs)
      BY <1>1, <2>1 DEF Tiles
    <2>2. CASE i = Len(vs) + 1
      <3>1. Append(vs, v)[i] = v
        BY <1>1, <2>2
      <3>2. CASE Len(vs) = 0
        BY <1>2, <2>2, <3>1, <3>2
      <3>3. CASE Len(vs) > 0
        <4>1. Append(vs, v)[i - 1] = vs[Len(vs)]
          BY <1>1, <2>2, <3>3
        <4> QED BY <1>2, <2>2, <3>1, <3>3, <4>1
      <3> QED BY <1>1, <3>2, <3>3
    <2> QED BY <1>1, <2>1, <2>2
  <1>5. Tiles(Append(vs, v))
    BY <1>1, <1>4 DEF Tiles
  <1> QED BY <1>1, <1>3, <1>5

-----------------------------------------------------------------------------
(* Each part of IInv is kept by every step. *)

\* The part of IInv about files.
DataInv == /\ VolumesTileManifest
           /\ NothingLost
           /\ UploadedKnown
           /\ CatalogIsState

LEMMA DataKept ==
  ASSUME DataInv, UNCHANGED <<size, disk, staged, remote, remoteMeta, catalog>>
  PROVE  DataInv'
  BY DEF DataInv, VolumesTileManifest, NothingLost, UploadedKnown,
         CatalogIsState, AllUploaded, Tiles, End

\* A change of the staged and remote files that keeps every recorded volume
\* where it is needed.
LEMMA FilesMoved ==
  ASSUME DataInv, NothingLost',
         UNCHANGED <<size, disk, remoteMeta, catalog>>
  PROVE  DataInv'
  BY DEF DataInv, VolumesTileManifest, UploadedKnown, CatalogIsState,
         AllUploaded, Tiles, End

\* Volumes are told apart by their index.
LEMMA IndexOf ==
  ASSUME TypeInv, DataInv, NEW i \in 1 .. Len(disk.vols)
  PROVE  /\ disk.vols[i] \in Volume
         /\ disk.vols[i].index = i - 1
         /\ disk.vols[i].index < disk.next
         /\ \A j \in 1 .. Len(disk.vols) :
              disk.vols[j].index = disk.vols[i].index => j = i
  <1>1. Len(disk.vols) \in Nat /\ disk.vols[i] \in Volume
    BY DEF TypeInv, TypeOK, Backup
  <1>2. \A j \in 1 .. Len(disk.vols) : disk.vols[j].index = j - 1
    BY DEF DataInv, VolumesTileManifest, Tiles
  <1> QED BY <1>1, <1>2 DEF DataInv, VolumesTileManifest

\* The file part is kept by every step.
LEMMA DataStep == IInv /\ [Next]_vars => DataInv'
  <1> SUFFICES ASSUME IInv, [Next]_vars PROVE DataInv'
    OBVIOUS
  <1>0. TypeInv /\ DataInv /\ Control /\ MetadataSent
    BY DEF IInv, DataInv
  <1>t. /\ size \in Nat /\ vol \in Volume /\ disk.vols \in Seq(Volume)
        /\ disk.next \in Nat /\ disk.uploaded \subseteq Nat
        /\ Len(disk.vols) \in Nat
    BY <1>0, ConstantsAssumption DEF TypeInv, TypeOK, Backup
  \* The steps that change none of these files.
  <1>1. CASE UNCHANGED <<size, disk, staged, remote, remoteMeta, catalog>>
    BY <1>0, <1>1, DataKept
  <1>2. CASE PendingUploaded
    <2>1. store = disk /\ pend \in 1 .. Len(disk.vols)
      BY <1>0, <1>2 DEF PendingUploaded, Control, TypeInv, TypeOK
    <2>2. NothingLost'
      <3> SUFFICES ASSUME NEW i \in 1 .. Len(disk.vols)
                   PROVE  IF disk.vols[i].index \in disk.uploaded
                            THEN disk.vols[i] \in remote'
                            ELSE disk.vols[i] \in staged'
        BY <1>2 DEF PendingUploaded, NothingLost
      <3>1. disk.vols[i].index \notin disk.uploaded
              => disk.vols[i].index # disk.vols[pend].index
        BY <1>2, <2>1 DEF PendingUploaded
      <3> QED BY <1>0, <1>2, <2>1, <3>1, KeepsOthers
              DEF PendingUploaded, DataInv, NothingLost
    <2> QED BY <1>0, <1>2, <2>2, FilesMoved DEF PendingUploaded
  <1>3. CASE MarkArchiveDone
    <2>1. /\ store = disk /\ disk.pos = size
          /\ disk' = [disk EXCEPT !.done = TRUE]
      BY <1>0, <1>3 DEF MarkArchiveDone, Save, Control
    <2>2. /\ disk'.vols = disk.vols /\ disk'.uploaded = disk.uploaded
          /\ disk'.next = disk.next /\ disk'.pos = disk.pos /\ disk'.done
      BY <1>0, <2>1 DEF TypeInv, TypeOK, Backup
    <2> QED BY <1>0, <1>3, <2>1, <2>2
            DEF MarkArchiveDone, DataInv, VolumesTileManifest, NothingLost,
                UploadedKnown, CatalogIsState, AllUploaded, Tiles, End
  <1>4. CASE PackSeal
    <2>1. PICK v : v.index = disk.next /\ staged' = Put(staged, v)
      BY <1>0, <1>4 DEF PackSeal, Control
    <2>2. NothingLost'
      <3> SUFFICES ASSUME NEW i \in 1 .. Len(disk.vols)
                   PROVE  IF disk.vols[i].index \in disk.uploaded
                            THEN disk.vols[i] \in remote'
                            ELSE disk.vols[i] \in staged'
        BY <1>4 DEF PackSeal, NothingLost
      <3>1. disk.vols[i].index # v.index
        BY <1>0, <1>t, <2>1, IndexOf DEF Volume
      <3> QED BY <1>0, <1>4, <2>1, <3>1, KeepsOthers
              DEF PackSeal, DataInv, NothingLost
    <2> QED BY <1>0, <1>4, <2>2, FilesMoved DEF PackSeal
  <1>5. CASE AddSealed
    <2>1. /\ disk' = WithSealed(disk, vol) /\ ~disk.done
          /\ vol \in staged /\ vol.index = disk.next /\ vol.from = disk.pos
          /\ vol.from < vol.to /\ vol.to <= size
      BY <1>0, <1>5 DEF AddSealed, Save, Control, TypeInv
    <2>2. /\ disk'.vols = Append(disk.vols, vol)
          /\ disk'.uploaded = disk.uploaded
          /\ disk'.next = vol.index + 1 /\ disk'.pos = vol.to
          /\ disk'.done = (vol.to >= size)
      BY <1>0, <1>t, <2>1, WithSealedType DEF TypeInv, TypeOK
    <2>3. Tiles(disk.vols) /\ vol.index = Len(disk.vols) /\ vol.from = End(disk.vols)
      BY <1>0, <2>1 DEF DataInv, VolumesTileManifest
    <2>4. /\ Tiles(disk'.vols) /\ End(disk'.vols) = vol.to
          /\ Len(disk'.vols) = Len(disk.vols) + 1
          /\ \A i \in 1 .. Len(disk.vols) : disk'.vols[i] = disk.vols[i]
          /\ disk'.vols[Len(disk.vols) + 1] = vol
      BY <1>t, <2>1, <2>2, <2>3, TilesAppend
    <2>5. vol.index \notin disk.uploaded
      BY <1>0, <1>t, <2>3 DEF DataInv, UploadedKnown, Volume
    <2>6. VolumesTileManifest'
      <3>1. size' = size /\ vol.to \in Nat
        BY <1>5, <1>t DEF AddSealed, Volume
      <3>2. Tiles(disk.vols)' /\ End(disk.vols)' = vol.to
        BY <2>4 DEF Tiles, End
      <3>3. disk'.next = Len(disk'.vols)
        BY <2>2, <2>3, <2>4
      <3>4. disk'.done => disk'.pos = size
        <4>1. disk'.done => vol.to >= size
          BY <2>2, Zenon
        <4> QED BY <1>t, <2>1, <2>2, <3>1, <4>1
      <3> QED BY <2>2, <3>1, <3>2, <3>3, <3>4 DEF VolumesTileManifest
    <2>7. NothingLost'
      <3> SUFFICES ASSUME NEW i \in 1 .. Len(disk.vols) + 1
                   PROVE  IF disk'.vols[i].index \in disk.uploaded
                            THEN disk'.vols[i] \in remote
                            ELSE disk'.vols[i] \in staged
        BY <1>5, <2>2, <2>4 DEF AddSealed, NothingLost
      <3>1. CASE i \in 1 .. Len(disk.vols)
        BY <1>0, <2>4, <3>1 DEF DataInv, NothingLost
      <3>2. CASE i = Len(disk.vols) + 1
        BY <2>1, <2>4, <2>5, <3>2
      <3> QED BY <1>t, <3>1, <3>2
    <2>8. UploadedKnown'
      BY <1>0, <1>t, <2>2, <2>4 DEF DataInv, UploadedKnown
    <2>9. CatalogIsState'
      BY <1>0, <1>5, <2>1 DEF AddSealed, DataInv, CatalogIsState
    <2> QED BY <2>6, <2>7, <2>8, <2>9 DEF DataInv
  <1>6. CASE UploadVolume \/ UploadFails
    <2>1. /\ remote' \in {remote, Put(remote, vol), Without(remote, vol.index)}
          /\ UNCHANGED <<size, disk, staged, remoteMeta, catalog>>
          /\ Delivering
      BY <1>0, <1>6 DEF UploadVolume, UploadFails, Control
    <2>2. NothingLost'
      <3> SUFFICES ASSUME NEW i \in 1 .. Len(disk.vols)
                   PROVE  IF disk.vols[i].index \in disk.uploaded
                            THEN disk.vols[i] \in remote'
                            ELSE disk.vols[i] \in staged'
        BY <2>1 DEF NothingLost
      <3>1. disk.vols[i].index \in disk.uploaded
              => disk.vols[i].index # vol.index
        BY <2>1 DEF Delivering
      <3> QED BY <1>0, <2>1, <3>1, KeepsOthers DEF DataInv, NothingLost
    <2> QED BY <1>0, <2>1, <2>2, FilesMoved
  <1>7. CASE MarkUploaded
    <2>1. /\ disk' = [disk EXCEPT !.uploaded = @ \union {vol.index}]
          /\ vol \in remote /\ Delivering
      BY <1>0, <1>7 DEF MarkUploaded, Save, Control
    <2>2. /\ disk'.vols = disk.vols /\ disk'.next = disk.next
          /\ disk'.uploaded = disk.uploaded \union {vol.index}
          /\ disk'.pos = disk.pos /\ disk'.done = disk.done
      BY <1>0, <2>1 DEF TypeInv, TypeOK, Backup
    <2>3. PICK k \in 1 .. Len(disk.vols) : disk.vols[k] = vol
      BY <2>1 DEF Delivering
    <2>4. VolumesTileManifest'
      BY <1>0, <1>7, <2>2
         DEF MarkUploaded, DataInv, VolumesTileManifest, Tiles, End
    <2>5. NothingLost'
      <3> SUFFICES ASSUME NEW i \in 1 .. Len(disk.vols)
                   PROVE  IF disk.vols[i].index \in disk.uploaded \union {vol.index}
                            THEN disk.vols[i] \in remote
                            ELSE disk.vols[i] \in staged
        BY <1>7, <2>2 DEF MarkUploaded, NothingLost
      <3>1. CASE disk.vols[i].index = vol.index
        BY <1>0, <2>1, <2>3, <3>1, IndexOf
      <3>2. CASE disk.vols[i].index # vol.index
        BY <1>0, <3>2 DEF DataInv, NothingLost
      <3> QED BY <3>1, <3>2
    <2>6. UploadedKnown'
      BY <1>0, <1>t, <2>2, <2>3, IndexOf DEF DataInv, UploadedKnown
    <2>7. CatalogIsState'
      BY <1>0, <1>7, <2>2 DEF MarkUploaded, DataInv, CatalogIsState, AllUploaded
    <2> QED BY <2>4, <2>5, <2>6, <2>7 DEF DataInv
  <1>8. CASE RemoveStaged
    <2>1. vol.index \in disk.uploaded
      BY <1>0, <1>8 DEF RemoveStaged, Control
    <2>2. NothingLost'
      BY <1>0, <1>8, <2>1, KeepsOthers DEF RemoveStaged, DataInv, NothingLost
    <2> QED BY <1>0, <1>8, <2>2, FilesMoved DEF RemoveStaged
  <1>9. CASE UploadMetadata \/ MetadataFails
    <2>1. store = disk /\ disk.done
      BY <1>0, <1>9 DEF UploadMetadata, MetadataFails, Control
    <2>2. UNCHANGED <<size, disk, staged, remote>>
      BY <1>9 DEF UploadMetadata, MetadataFails
    <2>3. \/ UNCHANGED <<remoteMeta, catalog>>
          \/ AllUploaded(disk) /\ catalog' = disk.vols
          \/ remoteMeta' \subseteq remoteMeta /\ UNCHANGED catalog
          \/ /\ UNCHANGED catalog
             /\ "index" \in remoteMeta' => "index" \in remoteMeta
      BY <1>9, <2>1 DEF UploadMetadata, MetadataFails
    <2>4. CatalogIsState'
      BY <1>0, <2>1, <2>2, <2>3 DEF DataInv, CatalogIsState, AllUploaded
    <2> QED BY <1>0, <2>2, <2>4
            DEF DataInv, VolumesTileManifest, NothingLost, UploadedKnown,
                Tiles, End
  <1>10. CASE MarkComplete
    <2>1. store = disk /\ disk' = [disk EXCEPT !.completed = TRUE]
      BY <1>0, <1>10 DEF MarkComplete, Save, Control
    <2>2. /\ disk'.vols = disk.vols /\ disk'.uploaded = disk.uploaded
          /\ disk'.next = disk.next /\ disk'.pos = disk.pos
          /\ disk'.done = disk.done
      BY <1>0, <2>1 DEF TypeInv, TypeOK, Backup
    <2> QED BY <1>0, <1>10, <2>2
            DEF MarkComplete, DataInv, VolumesTileManifest, NothingLost,
                UploadedKnown, CatalogIsState, AllUploaded, Tiles, End
  <1>11. CASE IncrementAttempt
    BY <1>0, <1>11, DataKept DEF IncrementAttempt, Save, Control
  <1> QED BY <1>1, <1>2, <1>3, <1>4, <1>5, <1>6, <1>7, <1>8, <1>9, <1>10, <1>11
          DEF Next, Step, Faults, vars, Start, Open, PendingUpload, PendingEnd,
              LoopDone, PackRefused, PackStart, PackNothing, Exit, Interrupt,
              PackFails

\* What Run knows is kept true by every step.
LEMMA ControlStep == IInv /\ [Next]_vars => (Control /\ MetadataSent)'
  <1> SUFFICES ASSUME IInv, [Next]_vars PROVE (Control /\ MetadataSent)'
    OBVIOUS
  <1>0. TypeInv /\ DataInv /\ Control /\ MetadataSent
    BY DEF IInv, DataInv
  <1>t. /\ size \in Nat /\ vol \in Volume /\ disk.vols \in Seq(Volume)
        /\ disk.next \in Nat /\ disk.pos \in Nat /\ disk.uploaded \subseteq Nat
        /\ Len(disk.vols) \in Nat /\ sent \in 0 .. 3 /\ pend \in Nat
        /\ disk \in Backup
    BY <1>0, ConstantsAssumption DEF TypeInv, TypeOK, Backup
  <1> USE DEF Control, MetadataSent, Delivering
  <1>1. CASE Start
    BY <1>0, <1>1 DEF Start, TypeInv
  <1>2. CASE Open
    BY <1>0, <1>2 DEF Open, TypeInv
  <1>3. CASE PendingUploaded
    BY <1>0, <1>3 DEF PendingUploaded, TypeInv
  <1>4. CASE PendingUpload
    <2>1. store = disk /\ pend \in 1 .. Len(disk.vols)
      BY <1>0, <1>4 DEF PendingUpload, TypeInv, TypeOK
    <2> QED BY <1>0, <1>4, <2>1 DEF PendingUpload, TypeInv
  <1>5. CASE PendingEnd
    BY <1>0, <1>5 DEF PendingEnd, TypeInv
  <1>6. CASE LoopDone
    BY <1>0, <1>6 DEF LoopDone, TypeInv
  <1>7. CASE PackStart
    BY <1>0, <1>7 DEF PackStart, TypeInv
  <1>8. CASE PackNothing
    BY <1>0, <1>8 DEF PackNothing, TypeInv
  <1>9. CASE MarkArchiveDone
    BY <1>0, <1>t, <1>9 DEF MarkArchiveDone, Save, TypeInv, Backup
  <1>10. CASE PackSeal
    <2>1. PICK to \in store.pos + 1 .. size :
            /\ vol' = [index |-> store.next, from |-> store.pos, to |-> to]
            /\ staged' = Put(staged, vol')
      BY <1>10 DEF PackSeal
    <2>2. /\ vol'.index = disk.next /\ vol'.from = disk.pos
          /\ vol'.from < vol'.to /\ vol' \in staged'
      BY <1>0, <1>t, <1>10, <2>1 DEF PackSeal, Put
    <2> QED BY <1>0, <1>10, <2>2 DEF PackSeal, TypeInv
  <1>11. CASE AddSealed
    <2>1. /\ store' = disk' /\ disk' = WithSealed(disk, vol)
          /\ vol.index = Len(disk.vols)
      BY <1>0, <1>11 DEF AddSealed, Save, DataInv, VolumesTileManifest
    <2>2. disk'.vols = Append(disk.vols, vol) /\ disk'.uploaded = disk.uploaded
      BY <1>t, <2>1, WithSealedType
    <2>3. vol.index \notin disk.uploaded
      BY <1>0, <1>t, <2>1 DEF DataInv, UploadedKnown
    <2>4. disk'.vols[Len(disk.vols) + 1] = vol
          /\ Len(disk'.vols) = Len(disk.vols) + 1
      BY <1>t, <2>2
    <2>5. Delivering'
      BY <1>11, <1>t, <2>2, <2>3, <2>4 DEF AddSealed
    <2> QED BY <1>0, <1>11, <2>1, <2>5 DEF AddSealed, TypeInv
  <1>12. CASE IncrementAttempt
    BY <1>0, <1>12 DEF IncrementAttempt, Save, TypeInv
  <1>13. CASE UploadVolume
    <2>1. vol \in remote'
      BY <1>13 DEF UploadVolume, Put
    <2> QED BY <1>0, <1>13, <2>1 DEF UploadVolume, TypeInv
  <1>14. CASE MarkUploaded
    BY <1>0, <1>t, <1>14 DEF MarkUploaded, Save, TypeInv, Backup
  <1>15. CASE RemoveStaged
    BY <1>0, <1>15 DEF RemoveStaged, TypeInv
  <1>16. CASE UploadMetadata
    <2>1. sent \in 0 .. 2 /\ store = disk
      BY <1>0, <1>t, <1>16 DEF UploadMetadata, TypeInv
    <2>2. /\ Metadata[1] = "manifest" /\ Metadata[2] = "snapshot"
          /\ Metadata[3] = "index" /\ Len(Metadata) = 3
      BY DEF Metadata
    <2>3. CASE sent = 0
      BY <1>0, <1>16, <2>1, <2>2, <2>3 DEF UploadMetadata
    <2>4. CASE sent = 1
      BY <1>0, <1>16, <2>1, <2>2, <2>4 DEF UploadMetadata
    <2>5. CASE sent = 2
      BY <1>0, <1>16, <2>1, <2>2, <2>5 DEF UploadMetadata
    <2> QED BY <2>1, <2>3, <2>4, <2>5
  <1>17. CASE MarkComplete
    BY <1>0, <1>t, <1>17 DEF MarkComplete, Save, TypeInv, Backup
  <1>18. CASE Halt
    BY <1>18 DEF Halt
  <1>19. CASE UNCHANGED vars
    BY <1>0, <1>19 DEF vars
  <1> QED BY <1>1, <1>2, <1>3, <1>4, <1>5, <1>6, <1>7, <1>8, <1>9, <1>10,
             <1>11, <1>12, <1>13, <1>14, <1>15, <1>16, <1>17, <1>18, <1>19
          DEF Next, Step, Faults, PackRefused, Exit, Fault, Interrupt,
              PackFails, UploadFails, MetadataFails

-----------------------------------------------------------------------------
LEMMA IInvInit == Init => IInv
  <1> SUFFICES ASSUME Init PROVE IInv
    OBVIOUS
  <1>1. disk.vols = <<>> /\ disk.uploaded = {} /\ disk.next = 0 /\ disk.pos = 0
        /\ ~disk.done
    BY DEF Init, Fresh
  <1> QED BY <1>1, TypeInit
          DEF Init, IInv, VolumesTileManifest, NothingLost, Control,
              UploadedKnown, CatalogIsState, MetadataSent, Tiles, End

LEMMA IInvStep == IInv /\ [Next]_vars => IInv'
  BY TypeStep, DataStep, ControlStep DEF IInv, DataInv

LEMMA IInvAlways == Spec => []IInv
  BY IInvInit, IInvStep, PTL DEF Spec

-----------------------------------------------------------------------------
\* What the inductive invariant says to the user of a backup.
LEMMA Safe == IInv => /\ VolumesTileManifest
                      /\ NothingLost
                      /\ CatalogIsComplete
                      /\ SuccessIsRestorable
  <1> SUFFICES ASSUME IInv
               PROVE  CatalogIsComplete /\ SuccessIsRestorable
    BY DEF IInv
  <1>1. CatalogIsComplete
    BY DEF IInv, CatalogIsState, CatalogIsComplete, VolumesTileManifest,
           NothingLost, AllUploaded
  <1>2. ASSUME pc = "done"
        PROVE  remoteMeta = {"manifest", "snapshot", "index"}
    <2>1. {"manifest", "snapshot", "index"} \subseteq remoteMeta
      BY <1>2 DEF IInv, MetadataSent
    <2>2. remoteMeta \subseteq {"manifest", "snapshot", "index"}
      BY DEF IInv, TypeInv, TypeOK
    <2> QED BY <2>1, <2>2
  <1>3. SuccessIsRestorable
    BY <1>2 DEF IInv, MetadataSent, CatalogIsState, SuccessIsRestorable
  <1> QED BY <1>1, <1>3

\* The recorded volumes tile the manifest up to the cursor (state.AddSealed,
\* packer cursors), whatever interruptions there were.
THEOREM VolumesTile == Spec => []VolumesTileManifest
  BY Safe, IInvAlways, PTL

\* A recorded volume is in the remote directory if marked uploaded and in the
\* staging directory if not (uploadOne's order: verify, record, remove).
THEOREM NothingIsLost == Spec => []NothingLost
  BY Safe, IInvAlways, PTL

\* An index that can be read remotely lists the whole backup, all of it there
\* (uploadMetadata uploads the index last, after the last volume).
THEOREM CatalogComplete == Spec => []CatalogIsComplete
  BY Safe, IInvAlways, PTL

\* A run that returns nil leaves a restorable backup (Run's last steps).
THEOREM SuccessRestorable == Spec => []SuccessIsRestorable
  BY Safe, IInvAlways, PTL

-----------------------------------------------------------------------------
(* The staging directory.  A volume is only packed when no other is there,  *)
(* which takes Run's loops to say: uploadPending has removed what an        *)
(* earlier run recorded, uploadOne the volume before, and PackNext stops    *)
(* at one that was sealed and not recorded.                                 *)

Delivery == {"attempt", "upload", "verified", "remove"}

Staging ==
  /\ tmps \subseteq {disk.next}
  /\ tmps # {} => staged = {}
  /\ \A f, g \in staged : f = g
  /\ \A f \in staged : f.index <= disk.next
  /\ pend > 0 => /\ pc \in {"pending"} \union Delivery
                 /\ \A f \in staged : f.index >= pend - 1
  /\ pc \in Delivery => IF pend > 0 THEN vol.index = pend - 1
                                    ELSE \A f \in staged : f.index = vol.index
  /\ pc = "loop" => \A f \in staged : f.index >= disk.next
  /\ pc \in {"packing", "eof"} => staged = {}

LEMMA StagingInit == Init => Staging
  BY DEF Init, Staging, Delivery, NoVolume

LEMMA StagingStep == IInv /\ Staging /\ [Next]_vars => Staging'
  <1> SUFFICES ASSUME IInv, Staging, [Next]_vars PROVE Staging'
    OBVIOUS
  <1>0. TypeInv /\ DataInv /\ Control
    BY DEF IInv, DataInv
  <1>t. /\ vol \in Volume /\ disk.vols \in Seq(Volume) /\ staged \subseteq Volume
        /\ disk.next \in Nat /\ Len(disk.vols) \in Nat /\ pend \in Nat
        /\ disk \in Backup /\ disk.next = Len(disk.vols)
        /\ pc = "pending" => pend > 0
        /\ \A f \in staged : f.index \in Nat
    BY <1>0 DEF TypeInv, TypeOK, Backup, Volume, DataInv, VolumesTileManifest
  <1>s. pc \notin {"down", "open"} => store = disk
    BY <1>0 DEF Control
  <1> USE DEF Staging, Delivery
  <1>1. CASE Start \/ LoopDone
    BY <1>1 DEF Start, LoopDone
  <1>2. CASE Open
    BY <1>t, <1>2 DEF Open
  <1>3. CASE PendingUploaded
    <2>1. /\ pend \in 1 .. Len(disk.vols) /\ disk.vols[pend].index = pend - 1
          /\ staged' = Without(staged, pend - 1) /\ pend' = pend + 1
      BY <1>0, <1>t, <1>s, <1>3, IndexOf DEF PendingUploaded
    <2>2. \A f \in staged' : f \in staged /\ f.index # pend - 1
      BY <2>1 DEF Without
    <2>3. UNCHANGED <<disk, tmps, pc, vol>> /\ pc = "pending"
      BY <1>3 DEF PendingUploaded
    <2>4. \A f \in staged' : f.index >= pend' - 1
      BY <1>t, <2>1, <2>2
    <2> QED BY <2>2, <2>3, <2>4
  <1>4. CASE PendingUpload
    <2>1. /\ pend \in 1 .. Len(disk.vols) /\ vol' = disk.vols[pend]
          /\ vol'.index = pend - 1
      BY <1>0, <1>t, <1>s, <1>4, IndexOf DEF PendingUpload
    <2> QED BY <1>4, <2>1 DEF PendingUpload
  <1>5. CASE PendingEnd
    <2>1. \A f \in staged : f.index >= disk.next
      BY <1>t, <1>s, <1>5 DEF PendingEnd
    <2> QED BY <1>5, <2>1 DEF PendingEnd
  <1>6. CASE PackStart
    <2>1. staged = {}
      BY <1>t, <1>s, <1>6 DEF PackStart
    <2> QED BY <1>s, <1>6, <2>1 DEF PackStart
  <1>7. CASE PackNothing
    BY <1>7 DEF PackNothing
  <1>8. CASE MarkArchiveDone
    BY <1>t, <1>s, <1>8 DEF MarkArchiveDone, Save, Backup
  <1>9. CASE PackSeal
    <2>1. PICK to \in store.pos + 1 .. size :
            /\ vol' = [index |-> store.next, from |-> store.pos, to |-> to]
            /\ staged' = Put(staged, vol')
      BY <1>9 DEF PackSeal
    <2>2. staged' = {vol'} /\ vol'.index = disk.next
      BY <1>s, <1>9, <2>1 DEF PackSeal, Put, Without
    <2>3. tmps' = {}
      BY <1>s, <1>9 DEF PackSeal
    <2> QED BY <1>t, <1>9, <2>2, <2>3 DEF PackSeal
  <1>10. CASE AddSealed
    <2>1. /\ vol \in staged /\ vol.index = disk.next /\ pend = 0
          /\ UNCHANGED <<staged, tmps, vol, pend>>
      BY <1>0, <1>t, <1>10 DEF AddSealed, Control
    <2>2. disk'.next = disk.next + 1 /\ pc' = "attempt"
      BY <1>t, <1>s, <1>10, <2>1 DEF AddSealed, Save, WithSealed
    <2>3. tmps = {} /\ \A f \in staged : f = vol
      BY <2>1
    <2> QED BY <1>t, <2>1, <2>2, <2>3
  <1>11. CASE IncrementAttempt \/ UploadVolume
    BY <1>s, <1>11 DEF IncrementAttempt, Save, UploadVolume
  <1>12. CASE MarkUploaded
    <2>1. disk'.next = disk.next
      BY <1>t, <1>s, <1>12 DEF MarkUploaded, Save, Backup
    <2> QED BY <1>12, <2>1 DEF MarkUploaded
  <1>13. CASE RemoveStaged
    <2>1. /\ \A f \in staged' : f \in staged /\ f.index # vol.index
          /\ UNCHANGED <<disk, tmps>>
      BY <1>13 DEF RemoveStaged, Without
    <2>2. CASE pend > 0
      <3>1. pc' = "pending" /\ pend' = pend + 1 /\ vol.index = pend - 1
        BY <1>13, <2>2 DEF RemoveStaged
      <3>2. \A f \in staged' : f.index >= pend' - 1
        BY <1>t, <2>1, <2>2, <3>1
      <3> QED BY <2>1, <3>1, <3>2
    <2>3. CASE pend = 0
      <3>1. pc' = "loop" /\ pend' = 0 /\ staged' = {}
        BY <1>13, <2>1, <2>3 DEF RemoveStaged
      <3> QED BY <2>1, <3>1
    <2> QED BY <1>t, <2>2, <2>3
  <1>14. CASE UploadMetadata
    BY <1>14 DEF UploadMetadata
  <1>15. CASE MarkComplete
    <2>1. disk'.next = disk.next
      BY <1>t, <1>s, <1>15 DEF MarkComplete, Save, Backup
    <2> QED BY <1>15, <2>1 DEF MarkComplete
  <1>16. ASSUME Halt, UNCHANGED <<disk, staged>>, tmps' \subseteq tmps
         PROVE  Staging'
    BY <1>16 DEF Halt
  <1>17. CASE UNCHANGED vars
    BY <1>17 DEF vars
  <1> QED BY <1>1, <1>2, <1>3, <1>4, <1>5, <1>6, <1>7, <1>8, <1>9, <1>10, <1>11,
             <1>12, <1>13, <1>14, <1>15, <1>16, <1>17
          DEF Next, Step, Faults, PackRefused, Exit, Fault, Interrupt, PackFails,
              UploadFails, MetadataFails

LEMMA StagingIsOne == Staging => OneVolumeOnDisk
  <1> SUFFICES ASSUME Staging PROVE OneVolumeOnDisk
    OBVIOUS
  <1>e. Cardinality({}) = 0
    BY FS_EmptySet
  <1>1. CASE staged = {}
    <2>1. CASE tmps = {}
      BY <1>1, <1>e, <2>1 DEF OneVolumeOnDisk
    <2>2. CASE tmps # {}
      <3>1. tmps = {disk.next}
        BY <2>2 DEF Staging
      <3>2. Cardinality(tmps) = 1
        BY <3>1, FS_Singleton
      <3> QED BY <1>1, <1>e, <3>2 DEF OneVolumeOnDisk
    <2> QED BY <2>1, <2>2
  <1>2. CASE staged # {}
    <2>1. PICK f \in staged : TRUE
      BY <1>2
    <2>2. staged = {f}
      BY <2>1 DEF Staging
    <2>3. Cardinality(staged) = 1
      BY <2>2, FS_Singleton
    <2>4. tmps = {}
      BY <1>2 DEF Staging
    <2> QED BY <1>e, <2>3, <2>4 DEF OneVolumeOnDisk
  <1> QED BY <1>1, <1>2

\* The staging directory never holds two volumes, sealed or being written: the
\* disk budget of resource.Plan, one of each, is never exceeded by leftovers.
THEOREM OneVolume == Spec => []OneVolumeOnDisk
  <1>1. Init => Staging
    BY StagingInit
  <1>2. IInv /\ Staging /\ [Next]_vars => Staging'
    BY StagingStep
  <1> QED BY <1>1, <1>2, StagingIsOne, IInvAlways, PTL DEF Spec

-----------------------------------------------------------------------------
(* Refinement of BackupPromise. *)

LEMMA PromiseInit == Init => Promise!PInit
  <1> SUFFICES ASSUME Init PROVE Promise!PInit
    OBVIOUS
  <1>1. /\ disk.vols = <<>> /\ disk.uploaded = {} /\ disk.completed = FALSE
        /\ size \in Nat
    BY ConstantsAssumption DEF Init, Fresh
  <1> QED BY <1>1 DEF Promise!PInit

\* Sealing a volume cuts, recording an upload delivers, completing finishes;
\* every other step leaves the durable state alone or only ends the archive.
LEMMA PromiseStep == IInv /\ [Next]_vars => [Promise!PNext]_Promise!pvars
  <1> SUFFICES ASSUME IInv, [Next]_vars
               PROVE  [Promise!PNext]_Promise!pvars
    OBVIOUS
  <1>0. TypeInv /\ DataInv /\ Control
    BY DEF IInv, DataInv
  <1>t. /\ size \in Nat /\ vol \in Volume /\ disk.vols \in Seq(Volume)
        /\ Len(disk.vols) \in Nat /\ disk \in Backup
    BY <1>0, ConstantsAssumption DEF TypeInv, TypeOK, Backup
  <1>1. CASE AddSealed
    <2>1. /\ disk' = WithSealed(disk, vol) /\ vol.index = Len(disk.vols)
          /\ vol.from = Promise!Frontier(disk.vols)
          /\ vol.from < vol.to /\ vol.to <= size
      BY <1>0, <1>1
         DEF AddSealed, Save, Control, TypeInv, DataInv, VolumesTileManifest,
             End, Promise!Frontier
    <2>2. /\ disk'.vols = Append(disk.vols, vol)
          /\ disk'.uploaded = disk.uploaded
          /\ disk'.completed = disk.completed
      BY <1>t, <2>1, WithSealedType
    <2>3. vol = [index |-> Len(disk.vols),
                 from |-> Promise!Frontier(disk.vols), to |-> vol.to]
      BY <1>t, <2>1 DEF Volume
    <2>4. vol.to \in Promise!Frontier(disk.vols) + 1 .. size
      BY <1>t, <2>1 DEF Volume
    <2>5. Promise!Cut
      BY <1>1, <2>2, <2>3, <2>4 DEF Promise!Cut, AddSealed
    <2> QED BY <2>5 DEF Promise!PNext
  <1>2. CASE MarkUploaded
    <2>1. /\ disk' = [disk EXCEPT !.uploaded = @ \union {vol.index}]
          /\ Delivering
      BY <1>0, <1>2 DEF MarkUploaded, Save, Control
    <2>2. /\ disk'.vols = disk.vols /\ disk'.completed = disk.completed
          /\ disk'.uploaded = disk.uploaded \union {vol.index}
      BY <1>t, <2>1 DEF Backup
    <2>3. vol.index \in (0 .. Len(disk.vols) - 1) \ disk.uploaded
      BY <1>0, <1>t, <2>1, IndexOf DEF Delivering
    <2>4. Promise!Deliver
      BY <1>2, <2>2, <2>3 DEF Promise!Deliver, MarkUploaded
    <2> QED BY <2>4 DEF Promise!PNext
  <1>3. CASE MarkComplete
    <2>1. /\ disk' = [disk EXCEPT !.completed = TRUE]
          /\ AllUploaded(disk) /\ disk.done
      BY <1>0, <1>3 DEF MarkComplete, Save, Control
    <2>2. /\ disk'.vols = disk.vols /\ disk'.completed = TRUE
          /\ disk'.uploaded = disk.uploaded
      BY <1>t, <2>1 DEF Backup
    <2>3. Promise!Frontier(disk.vols) = size
      BY <1>0, <2>1 DEF DataInv, VolumesTileManifest, End, Promise!Frontier
    <2>4. disk.uploaded = 0 .. Len(disk.vols) - 1
      <3>1. ASSUME NEW k \in 0 .. Len(disk.vols) - 1 PROVE k \in disk.uploaded
        <4>1. k + 1 \in 1 .. Len(disk.vols)
          BY <1>t
        <4>2. disk.vols[k + 1].index = k
          BY <1>0, <1>t, <4>1, IndexOf
        <4> QED BY <2>1, <4>1, <4>2 DEF AllUploaded
      <3> QED BY <1>0, <3>1 DEF DataInv, UploadedKnown
    <2>5. Promise!Finish
      BY <1>3, <2>2, <2>3, <2>4 DEF Promise!Finish, MarkComplete
    <2> QED BY <2>5 DEF Promise!PNext
  <1>4. CASE MarkArchiveDone
    <2>1. disk' = [disk EXCEPT !.done = TRUE]
      BY <1>0, <1>4 DEF MarkArchiveDone, Save, Control
    <2>2. /\ disk'.vols = disk.vols /\ disk'.completed = disk.completed
          /\ disk'.uploaded = disk.uploaded
      BY <1>t, <2>1 DEF Backup
    <2> QED BY <1>4, <2>2 DEF MarkArchiveDone, Promise!pvars
  <1>5. CASE IncrementAttempt
    BY <1>0, <1>5 DEF IncrementAttempt, Save, Control, Promise!pvars
  <1>6. CASE UNCHANGED <<size, disk>>
    BY <1>6 DEF Promise!pvars
  <1> QED BY <1>1, <1>2, <1>3, <1>4, <1>5, <1>6
          DEF Next, Step, Faults, vars, Start, Open, PendingUploaded,
              PendingUpload, PendingEnd, LoopDone, PackRefused, PackStart,
              PackNothing, PackSeal, UploadVolume, RemoveStaged,
              UploadMetadata, Exit, Interrupt, PackFails, UploadFails,
              MetadataFails

\* The resumable backup implements the promise.
THEOREM KeepsThePromise == Spec => KeepsPromise
  BY PromiseInit, PromiseStep, IInvAlways, PTL
     DEF Spec, KeepsPromise, Promise!PSpec
=============================================================================
