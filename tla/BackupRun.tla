----------------------------- MODULE BackupRun -----------------------------
(***************************************************************************)
(* One resumable backup: backup.Run driving the persistent state.Store,    *)
(* the packer and the uploader, through interruptions and re-runs.         *)
(*                                                                         *)
(* Abstractions.  A cursor (ManifestOffset, FileOffset) is a position in   *)
(* 0..size, size being the end of the manifest.  A volume's bytes are its  *)
(* index and the half-open extent of positions it packs; the adaptive      *)
(* target size makes every non-empty extent possible.  An absent           *)
(* backup-state.json is the Fresh value Open writes for it.  Remote files  *)
(* are the intact ones: a truncated or wrong object counts as absent.      *)
(* At most one process works on the state directory (the run receipt's     *)
(* lock), and a rename is durable once it returns.                         *)
(***************************************************************************)
EXTENDS Integers, Sequences, FiniteSets

CONSTANTS Sizes,         \* manifest sizes the source tree may give
          MaxFaults,     \* bound on interruptions, failed steps and uploads
          SealGapFaults  \* may a fault hit between sealing a volume and
                         \* committing it to the state?

ASSUME ConstantsAssumption == /\ Sizes \subseteq Nat
                              /\ MaxFaults \in Nat
                              /\ SealGapFaults \in BOOLEAN

VARIABLES size,       \* manifest size of the committed snapshot
          disk,       \* backup-state.json
          store,      \* the process's state.Store
          staged,     \* sealed volumes in the staging directory
          tmps,       \* indices of the volume .tmp files there
          remote,     \* intact volumes in the remote directory
          remoteMeta, \* intact metadata files in the remote directory
          catalog,    \* volumes listed by the remote index file
          pc,         \* where Run is; "down" when no process runs
          vol,        \* the volume Run holds between two calls
          pend,       \* position in uploadPending's loop, 0 once it is over
          sent,       \* metadata files uploaded by this run
          faults

vars == <<size, disk, store, staged, tmps, remote, remoteMeta, catalog,
          pc, vol, pend, sent, faults>>

-----------------------------------------------------------------------------
Volume == [index : Nat, from : Nat, to : Nat]
NoVolume == [index |-> 0, from |-> 0, to |-> 0]

Backup == [vols : Seq(Volume), uploaded : SUBSET Nat,
           next : Nat, pos : Nat, done : BOOLEAN, completed : BOOLEAN]

Fresh == [vols |-> <<>>, uploaded |-> {}, next |-> 0, pos |-> 0,
          done |-> FALSE, completed |-> FALSE]

\* Mutant: the index file is forgotten.
MutMetadata == <<"manifest", "snapshot">>

\* The order in which uploadMetadata uploads: the index comes last.
Metadata == <<"manifest", "snapshot", "index">>

Running == {"open", "pending", "loop", "packing", "eof", "sealed", "attempt",
            "upload", "verified", "remove", "metadata", "complete"}

\* Mutant: removing a file silently does nothing.
MutWithout(files, i) == files

\* A file name is a volume's index: writing replaces, removing drops it.
Without(files, i) == {f \in files : f.index # i}
Put(files, v) == Without(files, v.index) \union {v}

AllUploaded(b) == \A i \in 1 .. Len(b.vols) : b.vols[i].index \in b.uploaded

\* Changing the store and saving it.  A save that fails leaves disk as it was
\* and ends the run (Interrupt).
Save(b) == store' = b /\ disk' = b

\* The process ends, by an error return or by being killed.
Halt == /\ pc' = "down"
        /\ store' = Fresh
        /\ vol' = NoVolume
        /\ pend' = 0
        /\ sent' = 0

-----------------------------------------------------------------------------
Init == /\ size \in Sizes
        /\ disk = Fresh /\ store = Fresh
        /\ staged = {} /\ tmps = {}
        /\ remote = {} /\ remoteMeta = {} /\ catalog = <<>>
        /\ pc = "down" /\ vol = NoVolume /\ pend = 0 /\ sent = 0
        /\ faults = 0

\* panpack backup is started, or started again: the snapshot is loaded.
Start == /\ pc = "down"
         /\ pc' = "open"
         /\ UNCHANGED <<size, disk, store, staged, tmps, remote, remoteMeta,
                        catalog, vol, pend, sent, faults>>

\* Mutant: the state file is not read back.
MutOpen == /\ pc = "open"
           /\ store' = Fresh
           /\ pend' = 1
           /\ pc' = "pending"
           /\ UNCHANGED <<size, disk, staged, tmps, remote, remoteMeta,
                          catalog, vol, sent, faults>>

Open == /\ pc = "open"
        /\ store' = disk
        /\ pend' = 1
        /\ pc' = "pending"
        /\ UNCHANGED <<size, disk, staged, tmps, remote, remoteMeta, catalog,
                       vol, sent, faults>>

\* A volume already uploaded by an earlier run: drop a left-over local copy.
PendingUploaded ==
  /\ pc = "pending" /\ pend <= Len(store.vols)
  /\ store.vols[pend].index \in store.uploaded
  /\ staged' = Without(staged, store.vols[pend].index)
  /\ pend' = pend + 1
  /\ UNCHANGED <<size, disk, store, tmps, remote, remoteMeta, catalog, pc,
                 vol, sent, faults>>

PendingUpload ==
  /\ pc = "pending" /\ pend <= Len(store.vols)
  /\ store.vols[pend].index \notin store.uploaded
  /\ vol' = store.vols[pend]
  /\ pc' = "attempt"
  /\ UNCHANGED <<size, disk, store, staged, tmps, remote, remoteMeta, catalog,
                 pend, sent, faults>>

PendingEnd ==
  /\ pc = "pending" /\ pend > Len(store.vols)
  /\ pend' = 0
  /\ pc' = "loop"
  /\ UNCHANGED <<size, disk, store, staged, tmps, remote, remoteMeta, catalog,
                 vol, sent, faults>>

-----------------------------------------------------------------------------
\* Mutant: the metadata is published after the first volume.
MutLoopDone ==
  /\ pc = "loop" /\ store.next > 0
  /\ pc' = "metadata"
  /\ UNCHANGED <<size, disk, store, staged, tmps, remote, remoteMeta, catalog,
                 vol, pend, sent, faults>>

LoopDone ==
  /\ pc = "loop" /\ store.done
  /\ pc' = "metadata"
  /\ UNCHANGED <<size, disk, store, staged, tmps, remote, remoteMeta, catalog,
                 vol, pend, sent, faults>>

\* Mutant: a stale .tmp stops the run as a sealed volume does.
MutPackRefused ==
  /\ pc = "loop" /\ ~store.done
  /\ store.next \in tmps \union {f.index : f \in staged}
  /\ Halt
  /\ UNCHANGED <<size, disk, staged, tmps, remote, remoteMeta, catalog, faults>>

\* PackNext stops the run when the name it would seal is taken.
PackRefused ==
  /\ pc = "loop" /\ ~store.done
  /\ \E f \in staged : f.index = store.next
  /\ Halt
  /\ UNCHANGED <<size, disk, staged, tmps, remote, remoteMeta, catalog, faults>>

\* A stale .tmp is removed before the new one is created exclusively.
PackStart ==
  /\ pc = "loop" /\ ~store.done
  /\ \A f \in staged : f.index # store.next
  /\ tmps' = (tmps \ {store.next}) \union {store.next}
  /\ pc' = "packing"
  /\ UNCHANGED <<size, disk, store, staged, remote, remoteMeta, catalog, vol,
                 pend, sent, faults>>

\* No manifest entry is left: PackNext returns io.EOF, its deferred cleanup
\* having removed the .tmp.
PackNothing ==
  /\ pc = "packing" /\ store.pos = size
  /\ tmps' = tmps \ {store.next}
  /\ pc' = "eof"
  /\ UNCHANGED <<size, disk, store, staged, remote, remoteMeta, catalog, vol,
                 pend, sent, faults>>

MarkArchiveDone ==
  /\ pc = "eof"
  /\ Save([store EXCEPT !.done = TRUE])
  /\ pc' = "metadata"
  /\ UNCHANGED <<size, staged, tmps, remote, remoteMeta, catalog, vol, pend,
                 sent, faults>>

\* Packing takes in at least one item, then the .tmp is renamed.
PackSeal ==
  /\ pc = "packing"
  /\ \E to \in store.pos + 1 .. size :
       LET v == [index |-> store.next, from |-> store.pos, to |-> to]
       IN  /\ vol' = v
           /\ staged' = Put(staged, v)
  /\ tmps' = tmps \ {store.next}
  /\ pc' = "sealed"
  /\ UNCHANGED <<size, disk, store, remote, remoteMeta, catalog, pend, sent,
                 faults>>

\* Mutants: the cursor skips an item; the cursor is not advanced.
MutSkip(b, v) ==
  [vols |-> Append(b.vols, v), uploaded |-> b.uploaded, next |-> v.index + 1,
   pos |-> v.to + 1, done |-> v.to >= size, completed |-> b.completed]
MutStay(b, v) ==
  [vols |-> Append(b.vols, v), uploaded |-> b.uploaded, next |-> v.index + 1,
   pos |-> b.pos, done |-> v.to >= size, completed |-> b.completed]

\* The state a backup is in once v is sealed: CursorAfter becomes the cursor.
WithSealed(b, v) ==
  [vols |-> Append(b.vols, v), uploaded |-> b.uploaded, next |-> v.index + 1,
   pos |-> v.to, done |-> v.to >= size, completed |-> b.completed]

AddSealed ==
  /\ pc = "sealed"
  /\ vol.index = store.next
  /\ \A i \in 1 .. Len(store.vols) : store.vols[i].index # vol.index
  /\ Save(WithSealed(store, vol))
  /\ pc' = "attempt"
  /\ UNCHANGED <<size, staged, tmps, remote, remoteMeta, catalog, vol, pend,
                 sent, faults>>

-----------------------------------------------------------------------------
\* UploadAttempts, which nothing reads, is not kept; the save is.
IncrementAttempt ==
  /\ pc = "attempt"
  /\ \E i \in 1 .. Len(store.vols) : store.vols[i].index = vol.index
  /\ Save(store)
  /\ pc' = "upload"
  /\ UNCHANGED <<size, staged, tmps, remote, remoteMeta, catalog, vol, pend,
                 sent, faults>>

\* Mutant: the local file is removed before the state records the upload.
MutUploadVolume ==
  /\ pc = "upload"
  /\ vol \in staged
  /\ remote' = Put(remote, vol)
  /\ staged' = Without(staged, vol.index)
  /\ pc' = "verified"
  /\ UNCHANGED <<size, disk, store, tmps, remoteMeta, catalog, vol, pend, sent,
                 faults>>

\* UploadVolume returns nil: the local file was there with the recorded bytes
\* and the remote file was read back and matches.
UploadVolume ==
  /\ pc = "upload"
  /\ vol \in staged
  /\ remote' = Put(remote, vol)
  /\ pc' = "verified"
  /\ UNCHANGED <<size, disk, store, staged, tmps, remoteMeta, catalog, vol,
                 pend, sent, faults>>

MarkUploaded ==
  /\ pc = "verified"
  /\ \E i \in 1 .. Len(store.vols) : store.vols[i].index = vol.index
  /\ Save([store EXCEPT !.uploaded = @ \union {vol.index}])
  /\ pc' = "remove"
  /\ UNCHANGED <<size, staged, tmps, remote, remoteMeta, catalog, vol, pend,
                 sent, faults>>

\* uploadOne returns to uploadPending's loop or to Run's.
RemoveStaged ==
  /\ pc = "remove"
  /\ staged' = Without(staged, vol.index)
  /\ vol' = NoVolume
  /\ IF pend > 0 THEN pc' = "pending" /\ pend' = pend + 1
                 ELSE pc' = "loop" /\ pend' = pend
  /\ UNCHANGED <<size, disk, store, tmps, remote, remoteMeta, catalog, sent,
                 faults>>

-----------------------------------------------------------------------------
UploadMetadata ==
  /\ pc = "metadata"
  /\ AllUploaded(store)
  /\ remoteMeta' = remoteMeta \union {Metadata[sent + 1]}
  /\ catalog' = IF Metadata[sent + 1] = "index" THEN store.vols ELSE catalog
  /\ sent' = sent + 1
  /\ pc' = IF sent + 1 = Len(Metadata) THEN "complete" ELSE pc
  /\ UNCHANGED <<size, disk, store, staged, tmps, remote, vol, pend, faults>>

MarkComplete ==
  /\ pc = "complete"
  /\ AllUploaded(store)
  /\ store.done
  /\ Save([store EXCEPT !.completed = TRUE])
  /\ pc' = "done"
  /\ UNCHANGED <<size, staged, tmps, remote, remoteMeta, catalog, vol, pend,
                 sent, faults>>

\* Run has returned nil and the process exits; it may be started again.
Exit == /\ pc = "done"
        /\ Halt
        /\ UNCHANGED <<size, disk, staged, tmps, remote, remoteMeta, catalog,
                       faults>>

-----------------------------------------------------------------------------
\* Every fault ends the run and is counted.
Fault == /\ faults < MaxFaults
         /\ faults' = faults + 1
         /\ Halt

\* The process is killed, or the step it was about to take returns an error
\* (a save, a remove, the disk-pressure check), at a point where no file is
\* half changed that matters; a killed packer leaves its .tmp behind.
Interrupt ==
  /\ pc \in Running \ {"upload", "metadata"}
  /\ pc = "sealed" => SealGapFaults
  /\ Fault
  /\ UNCHANGED <<size, disk, staged, tmps, remote, remoteMeta, catalog>>

\* PackNext returns an error (source changed, disk full, volume above target).
PackFails ==
  /\ pc = "packing"
  /\ Fault
  /\ tmps' = tmps \ {store.next}
  /\ UNCHANGED <<size, disk, staged, remote, remoteMeta, catalog>>

\* An upload is cut off or refused: the remote name (uploads overwrite) keeps
\* what it had, holds the new file after all, or holds something broken.
UploadFails ==
  /\ pc = "upload"
  /\ Fault
  /\ remote' \in {remote, Put(remote, vol), Without(remote, vol.index)}
  /\ UNCHANGED <<size, disk, staged, tmps, remoteMeta, catalog>>

\* The metadata phase is cut off: before the first upload, or in one.
MetadataFails ==
  /\ pc = "metadata"
  /\ Fault
  /\ \/ UNCHANGED <<remoteMeta, catalog>>
     \/ /\ AllUploaded(store)
        /\ remoteMeta' = remoteMeta \union {Metadata[sent + 1]}
        /\ catalog' = IF Metadata[sent + 1] = "index" THEN store.vols ELSE catalog
     \/ /\ AllUploaded(store)
        /\ remoteMeta' = remoteMeta \ {Metadata[sent + 1]}
        /\ UNCHANGED catalog
  /\ UNCHANGED <<size, disk, staged, tmps, remote>>

-----------------------------------------------------------------------------
Step == \/ Start \/ Open
        \/ PendingUploaded \/ PendingUpload \/ PendingEnd
        \/ LoopDone \/ PackRefused \/ PackStart
        \/ PackNothing \/ MarkArchiveDone \/ PackSeal \/ AddSealed
        \/ IncrementAttempt \/ UploadVolume \/ MarkUploaded \/ RemoveStaged
        \/ UploadMetadata \/ MarkComplete \/ Exit

Faults == Interrupt \/ PackFails \/ UploadFails \/ MetadataFails

Next == Step \/ Faults

Spec == Init /\ [][Next]_vars

\* A process that runs keeps going, and an interrupted backup is run again.
FairSpec == Spec /\ WF_vars(Step)

-----------------------------------------------------------------------------
\* Everything stays of its type; the cursor never runs past the manifest.
TypeOK ==
  /\ size \in Sizes
  /\ disk \in Backup /\ disk.pos <= size
  /\ store \in Backup /\ store.pos <= size
  /\ staged \subseteq Volume /\ tmps \subseteq Nat /\ remote \subseteq Volume
  /\ remoteMeta \subseteq {"manifest", "snapshot", "index"}
  /\ catalog \in Seq(Volume)
  /\ pc \in Running \union {"down", "done"}
  /\ vol \in Volume
  /\ pend \in Nat
  /\ sent \in 0 .. 3
  /\ faults \in 0 .. MaxFaults

\* The extents of volumes vs, in order, are numbered from 0, non-empty, and
\* each starts where the one before it ended.
Tiles(vs) ==
  \A i \in 1 .. Len(vs) :
    /\ vs[i].index = i - 1
    /\ vs[i].from = IF i = 1 THEN 0 ELSE vs[i - 1].to
    /\ vs[i].from < vs[i].to

End(vs) == IF vs = <<>> THEN 0 ELSE vs[Len(vs)].to

\* No manifest item is packed twice or skipped, however often the backup was
\* interrupted and whatever targets its volumes were packed with: the recorded
\* volumes tile the manifest up to the cursor, and the cursor says done only
\* at the manifest's end.
VolumesTileManifest ==
  /\ Tiles(disk.vols)
  /\ disk.next = Len(disk.vols)
  /\ disk.pos = End(disk.vols)
  /\ disk.done => disk.pos = size

\* Each recorded volume exists, with the recorded bytes, where the state says
\* it does: intact in the remote directory once marked uploaded, sealed in the
\* staging directory until then.
NothingLost ==
  \A i \in 1 .. Len(disk.vols) :
    IF disk.vols[i].index \in disk.uploaded THEN disk.vols[i] \in remote
                                            ELSE disk.vols[i] \in staged

\* Whenever an index file can be read in the remote directory, the volumes it
\* lists are all there and tile the whole manifest: a restore that starts from
\* an index never meets a half-uploaded backup.
CatalogIsComplete ==
  "index" \in remoteMeta => /\ Tiles(catalog)
                            /\ End(catalog) = size
                            /\ \A i \in 1 .. Len(catalog) : catalog[i] \in remote

\* When Run returns nil, the three metadata files are in place, the index is
\* the one of this state, and the state on disk says completed.
SuccessIsRestorable ==
  pc = "done" => /\ remoteMeta = {"manifest", "snapshot", "index"}
                 /\ catalog = disk.vols
                 /\ disk.completed

\* The staging directory never holds two volumes, sealed or being written: the
\* disk budget of resource.Plan is for one of each.
OneVolumeOnDisk == Cardinality(staged) + Cardinality(tmps) <= 1

\* However it is interrupted (finitely often), a backup that is run again and
\* again is completed.
Resumes == <>(disk.completed)

\* The abstract specification, on the durable state.
Promise == INSTANCE BackupPromise
             WITH ledger <- disk.vols, delivered <- disk.uploaded,
                  finished <- disk.completed

\* A backup keeps the promise stated in BackupPromise.
KeepsPromise == Promise!PSpec
=============================================================================
