# A TLA+ verification of panpack

panpack backs up directory trees to Baidu Netdisk: it packs the tree into tar
volumes, uploads them block by block, deletes what has been verified remotely,
and keeps on disk what it needs to resume.  This directory holds TLA+ modules
of its core, the TLC configurations that check them, and TLAPS proofs.  Paths
below are relative to the repository.

## 1. Inventory of the system

| Component | State it keeps | Operations | What is hard |
|---|---|---|---|
| Backup run, `internal/backup/backup.go` | program counter, current volume | `Run`, `uploadPending`, `uploadOne`, `uploadMetadata` | stops between any two steps, resume |
| Backup state, `internal/state/state.go` | `backup-state.json`, its copy in memory | `Open`, `AddSealed`, `IncrementAttempt`, `MarkUploaded`, `MarkArchiveDone`, `MarkComplete` | order of saves against file changes |
| Packer, `internal/archive/packer.go` | `.tmp` and sealed volumes, cursor | `PackNext` | crash before the cursor is saved; byte budgets |
| Uploader, `internal/baidu/uploader.go` | worker pool, adaptive concurrency | `upload`, `uploadBlocks`, `retry`, `RemoteInfo`, `ListDir`, `Metadata`, `Verify`, `feedback` | goroutines, cancellation, lost answers, paging |
| Batch upload, `internal/batchupload/batch.go` | upload state file, its flock, local files | `Run`, `runWithClient`, `loadOrCreateState`, `validateStateFiles` | several processes, deletion of sources, collisions |
| Run receipt, `internal/runreceipt/receipt.go` | receipt file, its flock | `Start`, `Finish`, `VerifySucceeded` | kill, hash of a file others may change |
| Restore, `internal/restore/restore.go` | destination tree, active fragment | `Run`, `extractVolume`, `restoreEntry`, `restoreFragment` | missing or reordered volumes |
| Manifest, `internal/manifest/manifest.go` | manifest, compressed manifest, `snapshot.json` | `Build`, `LoadSnapshot`, `writeJSONAtomic` | three renames, two builders, one name for the temporary file |
| Audit, `internal/audit/audit.go` | none; reads state, listing, metadata, source, receipt | `RunWithClient` | takes no lock: reads beside a running upload, paging |
| Resource plan, `internal/resource/resource.go` | none | `Detect`, `Plan` | what is on the disk already; edges of the arithmetic |
| Credentials, `internal/credentials/*.go` | token file | `Discover`, `DeviceLogin`, `Refresh` | polling |
| Byte sizes, `internal/bytesize` | none | `Parse`, `Format` | - |
| Command line, `cmd/panpack/main.go` | none | one function per command | receipt bracket around the run |

How they interact.  `runBackup` and `runUploadBatch` open a receipt, call
`backup.Run` or `batchupload.Run`, and finish the receipt with their error.
`backup.Run` loads or builds the snapshot, opens the state store, uploads what
an earlier run left sealed, then alternates `resource.Plan`,
`Packer.PackNext`, `Store.AddSealed` and `uploadOne`; when the cursor is done
it uploads manifest, snapshot and index, in that order, and marks the state
complete.  Both kinds of upload end in `Client.upload`: precreate, block pool,
create, verification.  Nothing is shared between processes but files, their
flocks and the remote directory; within a process the only concurrency is the
block pool.

What makes each part correct:
- backup: no manifest entry packed twice, skipped or lost, whatever the
  interruptions; an index is readable remotely only over a complete backup;
  a nil return means restorable; re-running eventually completes;
- block pool: nil only when all blocks are stored; the first error reported;
  no goroutine left; no deadlock;
- batch: a source file is deleted only when recorded and held remotely; records
  are true; the state only grows; foreign files are never replaced; a receipt
  vouches only for a finished upload;
- packer and restore: a round trip restores the tree; volumes within budget;
- uploader: a nil return means that the remote name holds the file, whatever
  the service answered; buffers within memory; every file in the end;
- snapshot: one that can be loaded has its manifests; state, snapshot and
  published index belong together;
- resource plan: the disk reserve is kept, and a backup that fits can resume;
- audit: success only for an exact set, checked against one state.

The hazards, each at its line and with the properties that cover it, are listed
in `PROJECT.json`.

## 2. Modules

### BackupPromise (abstract)
What a backup promises with no process, file or restart in sight: the manifest
`[0, size)` is cut once into consecutive volumes numbered from 0 (`Cut`), each
is delivered (`Deliver`), and the backup is finished (`Finish`) only when the
whole manifest has been cut and delivered.  A ledger entry is never changed.

### BackupRun
One state directory, one remote directory, one process at a time (the flock of
the run receipt), any number of kills, failures and re-runs.

| In the model | In the code |
|---|---|
| `disk`, `store` | `backup-state.json`; the `state.Store` of the process |
| `staged`, `tmps` | sealed volumes and `.tmp` files in the staging directory |
| `remote`, `remoteMeta`, `catalog` | intact remote volumes, intact metadata files, the volumes the remote index lists |
| `pc`, `vol`, `pend`, `sent` | where `Run` is, the volume it holds, position in `uploadPending`'s loop, metadata files uploaded |
| `Start`, `Open` | a new process; `state.Open` |
| `PendingUploaded`, `PendingUpload`, `PendingEnd` | the three ways through `uploadPending`'s loop |
| `PackRefused`, `PackStart`, `PackNothing`, `PackSeal` | `PackNext`: taken name, stale `.tmp` and creation, `io.EOF`, rename |
| `AddSealed`, `IncrementAttempt`, `MarkUploaded`, `MarkArchiveDone`, `MarkComplete` | the `Store` methods, guard, change and save together |
| `UploadVolume`, `RemoveStaged` | the rest of `uploadOne` |
| `UploadMetadata` | one iteration of `uploadMetadata`'s loop |
| `Interrupt`, `PackFails`, `UploadFails`, `MetadataFails` | a kill or an error return at each point |

Abstractions: the cursor `(ManifestOffset, FileOffset)` is one position, a
volume's content is its index and its extent of positions.  The adaptive target
differs from call to call, so `PackSeal` may take any non-empty extent.  A
remote file is in `remote` only while intact, so a failed overwrite can remove
it.  A save that fails and a kill before the save look the same on disk.

Refinement: `Promise == INSTANCE BackupPromise WITH ledger <- disk.vols,
delivered <- disk.uploaded, finished <- disk.completed`.  Only `AddSealed`,
`MarkUploaded` and `MarkComplete` are visible steps; all others, restarts
included, are stutters.

### ResourcePlan
`resource.Plan` as operators: `Reserve`, `Usable`, `SafeVolume`, `PlanFits` (a
policy and no error) and `VolumeBytes` for the disk; `CgroupAvailable`,
`PlanMemory`, `PerWorker`, `MaxConcurrency` and `InitialConcurrency` for memory
and CPU.  Fractions, float64 in the code, are ratios; user-given sizes are taken to be
small enough not to overflow.  `BackupDisk` and `UploadFile` are built on it.

### BackupDisk
`BackupRun` composed with `ResourcePlan` on a disk of limited size.  `room` and
`limits` are the disk and the options; `tmpUnits` is how far a `.tmp` has grown,
`target` the policy's volume size while one is packed.  `Run` asks `Plan` when
it starts, before `uploadPending`, and again before each volume: `PlannedOpen`,
`PlannedPackStart` and `PlannedPackRefused` are `BackupRun`'s actions under
`PolicyFits`, `PlanRefuses` is the other way.  `PackSealSized` holds a volume to
its target, `InterruptSized` leaves a `.tmp` of any length up to it.  All other
actions are `BackupRun`'s, and its properties are checked again here.  Other
programs neither take nor free space.  `PlanRefuses` is not a `BackupRun` step
(it ends a process where `BackupRun` would go on); it changes nothing but the
process, so the promise is checked again rather than inherited.

### UploadBlocks
`Client.uploadBlocks` and the goroutines it starts.  `disp` and `next` are the
dispatching loop, `st`, `held`, `tries`, `why` the workers; `errCh` is the
one-place error channel, `parent` and `work` the two contexts.  The unbuffered
send is the joint step `Send(w)`.  Each Go operation that another goroutine can
observe is an action of its own, so that a worker may be stopped between
putting its error into `errCh` and calling `cancel`, and so that a cancelled
parent context reaches `workCtx` a moment later.  A failing call may have
stored its block (a lost answer).  The `break` in the `select` of the dispatch
loop leaves only the `select`; the loop ends through the check after it, which
then finds `workCtx` cancelled: `SendAborted`.  `wg` is the counter of the wait
group: `Leave` is the deferred `Done` on every way out of a goroutine, and
`Return` looks at the counter alone (`AllDone`), not at the workers.
`NoErrorLost` needs that to be enough: the last `select` does not block, so an
error that comes later would be lost.

### UploadFile
`Client.upload` and its two callers.  A process uploads file after file; a batch
looks at the remote name first (`Look`) and tries each file several times, a
backup does neither.  `Precreate...` are the ways precreate can end: the content
is there already (`PrecreateRapid`), blocks are asked for (`PrecreateSession`),
the call fails with or without effect, the answer is not true (`PrecreateLies`).
`Blocks` is the whole of `uploadBlocks` in one step: by `NilMeansAllStored` and
`NoErrorLost` of `UploadBlocks` a nil return means that all blocks are stored
and no worker has failed or will.  `Create` uses up the session; a repeated create is
answered or refused (`CreateRefused`), which of the two is the service's matter
and not known from this repository, so both are allowed.  `CallFailed` is
`retry`'s accounting, `Feedback` the adaptive concurrency, with the host's
memory and CPU through `ResourcePlan`; a process that starts again may find
another load.  What a listing says of a file is taken to be true.

### BatchUpload
Several processes run `upload-batch`; each works on a job (a state file with its
source directory), several may share one.  `local`, `remote`, `state`,
`stLock`, `receipt`, `recLock` are the files and flocks; `pc`, `mem`, `pos`,
`tries`, `ok`, `digest` are a process.  Actions follow the code from `Start`
(receipt) through `LockState`, `Load`, the per-file steps `SkipUploaded`,
`Hash`, `Attempt`, `Look`, `Put`, `Verify`, `Record`, `Remove`, and `Complete`
to `FinishHash` and `FinishSave`; `Return` is any return of `Run`, which drops
the state lock before the receipt is finished.  Faults: a kill anywhere, an
error return while the lock is held, a request that fails with or without
having created the remote file.  A receipt's digest
is the state it was computed from: the hash of two states is equal exactly when
the modelled parts are, which makes `Accepted` more generous than the code
(timestamps also differ there), so `ReceiptVouches` claims more, not less.

### BatchAudit
Extends `BatchUpload` with `audit-batch`, run beside the uploads of the job and
beside others who use the remote directory.  `apc` is where the audit is;
`hash`, `seen`, `listed`, `vouched` what it has read, `clean` whether it has
noted an issue (the code notes issues and goes on to the end).  `Listing` is
given by ranks: `Place` is where a name comes among those that are there, so that a
name added or removed shifts the later ones, as between two pages.  Actions in the
order of `RunWithClient`: `HashState`, `LoadAudited`, `ListPage` (paging by
`Offset`, again until a short page), `Compare`, `Metadata`, `GlobLocal`,
`LoadReceipt`, `Vouch`, `Conclude`; `AuditStops` is an error in between.
`UploadGoesOn` is any step of `BatchUpload`; `Intrude`, `TidyUp` and `Spoil` are
what others may do to the directory.  `before`, `moved`, `spoiled` and `steady`
are history variables that the properties need.  The audit asks for checksums,
an empty source and a receipt; without these options it claims less.  A file is
told by its name: an overwritten file is taken to keep its `fs_id`, and one that
is gone to have no metadata.

### SnapshotBuild
Backups, which keep each other out with the lock of the run receipt, and plans,
which take no lock, on one state directory.  A file's content is the id of the
snapshot it is about, or `Broken`.  `Load`, `BeginBuild`, `CommitManifest`,
`CommitGzip`, then `writeJSONAtomic` as `OpenTmp`, `WriteTmp`, `RenameTmp` or
`WriteFails`: all builders use the name `snapshot.json.tmp`, and `fd` says under
which name, if any, the file that a process has open can be found by now.
`Resolve`, `OpenState`, `Pack` (`BackupRun`'s matter, one step here),
`HashMetadata`, `UploadSnapshot`, `UploadIndex`, `Complete` are the rest of
`Run`.  `Stop` is a kill or an error at any point.  `raced` remembers that two
processes were building at once.

### Packing
`PackNext` with its byte budgets, called again and again from the saved cursor
with any target the resource plan might give.  Each way through the loop is an
action: `WholeFile`, `CloseBeforeFile`, `Fragment`, `NoRoom`, `MetadataEntry`,
`CloseBeforeMetadata`, `CloseAtEnd`, `EndOfManifest`; then `Seal` or
`AboveTarget`, the "internal error" after the tar is closed.  `written` is
`hw.Size()`; `pad` is what `archive/tar` still owes for the last entry, because
the tar writer pads an entry only when the next begins, so `hw.Size()` lags
behind.  Of paths and link targets the model keeps lengths; a cursor counts
entries where the code counts manifest bytes.  What `archive/tar` writes for a
header (`HeaderBytes`, `PaxRecord`) is external: a PAX header block, its padded
records, the entry's own block; entry ids and offsets are counted at their
widest, so `ShortNamesFit` claims more than the code needs.  Two error
returns of the loop (no room in an empty volume, an empty part) have no action:
with targets of at least 64 KiB, which `PackNext` demands, and paths that a
file system allows their conditions cannot arise; `PackingEnds` would find a
packer stuck there.  That a source changes during packing, and what a stop
leaves behind, is in `BackupRun`, where `PackSeal` may take any extent.
`VolumesLeadToCursor` is what entitles it to: a volume always moves the cursor,
without a gap or an overlap.  Two facts of the code the properties depend on
are part of the model: the scan gives a size to regular files only
(`internal/manifest/manifest.go:201`), and `resource.Plan` rounds a volume's size down to
whole tar blocks (`internal/resource/resource.go:110`).  `ShortNamesFit` needs the
second: with a target of 65540 bytes, a file of one byte and one of 57858 bytes
whose name has 2300 make a volume above its target.

### PackRestore
Extends `Packing` with `restore.Run` over the volumes it has sealed.  `lost` are
the volumes that were not downloaded; `step`, `vpos`, `ipos` are where the run
is; `active` is `fragmentProgress`; `tree` says how many leading bytes of each
entry the destination has.  A run may be interrupted at any item, perhaps with
the file just opened and truncated, and run again, with `--force` or not.
Volumes are found in the order of their names (`Found`, `Place`); `Current` and
`It` are the volume and the item the run is at.  Downloaded volumes have the
bytes that were sealed; times are left out.  Of the modes each entry has its
`access`, as the restoring user will have it: `"readonly"` if its own mode takes
away the owner's permission to write (or search), `"enclosed"` if a directory
above it does, `"free"` otherwise and always for root.  The umask is taken to
leave the owner's bits.  `Refused` is `Taken` (something is there and `--force`
is not given) or `Denied` (the mode restored a moment or a run ago forbids to
open or create the file).

MC modules (`MCBackupRun`, `MCBackupDisk`, `MCBatchUpload`, `MCBatchAudit`,
`MCUploadFile`, `MCPacking`, `MCPackRestore`) hold the values for TLC;
the eight modules named `...Proofs` hold the theorems (section 5).  Definitions named
`Mut...` are plausible bugs in the definition after them; replacing the
definition by its mutant makes TLC report the property named in `PROJECT.json`,
which shows that the property can fail.

## 3. Runs

| Run | Specification, bounds | Shows |
|---|---|---|
| `BackupDisk` | `DiskFairSpec`; manifests of 0..4 positions, 3 faults anywhere, 7 disks, 3 kinds of limits | `TypeOK`, `VolumesTileManifest`, `NothingLost`, `CatalogIsComplete`, `SuccessIsRestorable`, `OneVolumeOnDisk`, `ReserveKept`, `KeepsPromise`, `ResumesIfRoomy` |
| `BackupOrphan` | `BackupRun`'s `FairSpec`; 0..4 positions, 3 faults | `Resumes` fails (finding 1) |
| `BackupWedged` | as `BackupDisk`, no fault between seal and commit | `ResumesWhereItFits` fails (finding 2) |
| `UploadBlocks` | `FairSpec`; 4 blocks, 2 workers, 2 attempts | `TypeOK`, `NilMeansAllStored`, `RootCause`, `NoErrorLost`, `Terminates` |
| `UploadFile` | `FairSpec`; 3 files, 4 hosts, 3 calls, 2 attempts, 3 faults | `TypeOK`, `BuffersFit`, `RecordedMeansStored`, `NamesSettle`, `UploadedAtLast` |
| `BatchUpload` | `FairSpec`; one job, 2 files, 3 processes (one without receipt, one without `--delete-after-verify`), foreign, equal or no remote files beforehand, 2 attempts, 2 faults | `TypeOK`, `NoFileLost`, `RecordsAreTrue`, `ReceiptVouches`, `StateNeverRegresses`, `BatchCompletes` |
| `BatchCollision` | 2 jobs, one common name, no fault | `NeverOverwrites` fails (finding 3) |
| `BatchAudit` | `AuditSpec`; one uploader with one fault, 2 frozen files, 2 other names of which one is expected, pages of 2, one step of somebody else | `AuditTypeOK`, `AuditSound`, `NothingMissed`, `NoFalseAlarm` |
| `SnapshotBuild` | `FairSpec`; 2 backups, 1 plan, 5 builds, 2 faults | `TypeOK`, `ManifestsAreThere`, `OneSnapshotUnlessRaced`, `BackupCompletes` |
| `PackingSafety` | `FairSpec`; 0..3 entries of 16 kinds, 4 targets, names of 9, 2300 and 3900 bytes | `TypeOK`, `VolumesLeadToCursor`, `ShortNamesFit`, and `PackingEnds` |
| `PackingLong` | `Spec`; 0..2 entries, paths and link targets of 3900 bytes | `NeverAboveTarget` fails (finding 4) |
| `RoundTrip` | `RestoreSpec`; 0..3 entries of 7 kinds, or of 8 kinds among read-only ones, 2 targets, any volumes missing, 2 interruptions | `RoundTrip`, `NeverRefusesAll`, `WholePrefix` |

Bounds.  Four positions give up to four volumes, so a volume can be pending,
another uploaded and a third being packed; three faults let a re-run be
interrupted in its turn, in the phase that handles the first interruption, and
again.  The disks go from one that `Plan` refuses to one that has room
for two volumes of the largest size and more, with the reserve given by the minimum or by the
fraction; the volume size is automatic, fixed, or cut to the maximum, and the
minimum is no multiple of a tar block.  In `UploadBlocks` more blocks than
workers make the dispatcher wait, and be cancelled, while blocks are left;
two attempts are a first call and one
retry.  Two files show a file done and a file pending; three processes are two
contending ones and one that waits with another receipt setting.  In the
packing runs the file sizes lie at the edges of the budgets for the smallest
target, 65536 bytes: empty, a byte over a block, just fitting beside a small
entry, just fitting alone, a byte over, and enough for three volumes; three
entries let a volume hold one, end before the next, and begin inside a file.
The other targets are a block, two blocks and half again as large, so that a
file can be cut against different ones; names of 2300 bytes are the longest the
budgets are claimed to have room for.  Two interruptions let a restore that is
run again be interrupted over what the first one left; the second set of
manifests has read-only files of one volume and of several, read-only
directories with a file, a symlink or a directory in them, and an ordinary file.
In `UploadFile` the
hosts are a container with little memory left, one full of page cache, one with
everything pinned, and a large one with a third of a
CPU, at 20 MiB a worker: one, six, eight and six workers at most; three files
let the concurrency grow, shrink and grow, three faults use up all calls of one
request.  Pages of two over four names give full, short and empty last pages.
Three processes are enough for two to build at once while a third comes later,
and five builds leave room for a new one after each fault.  What the
bounds leave open for the safety properties the proofs settle; it stays open
for the liveness properties.

`UploadBlocks` does not check deadlock: after `uploadBlocks` has returned
nothing is left to do.  That the pool never gets stuck before is `Terminates`.
The packing runs and `RoundTrip` do not either: packing and restoring end; that
packing ends only at the manifest's end is `PackingEnds`.

Fairness.  `BackupRun`: weak fairness on the disjunction of the steps of the
process, restart included: a process that can go on does so, every request
returns with an answer or an error, and an interrupted backup is run again.
Faults are not fair and are finitely many.  `UploadBlocks`: weak fairness per
goroutine and on context propagation; nothing obliges the caller to cancel.
Calls return because the HTTP client or the context ends them.  `BatchUpload`:
weak fairness per process, which includes starting again; a process that does
not get the lock is not obliged to ever get it, and the property does not need
it.  `BackupDisk`: as `BackupRun`; a run that `Plan` refuses is a step too, and
is run again.  `UploadFile`: weak fairness on the process's steps, starting again
included; that a refusal or an answer comes at all is the HTTP client's doing.
`SnapshotBuild`: weak fairness on the backups together, since they exclude each
other; nobody need ever plan.  `Packing`: weak fairness on the packer's steps;
`Run` calls `PackNext` until it is done.

## 4. Findings

1. `BackupOrphan`.  Killed after the rename that seals a volume
   (`internal/archive/packer.go:234`) and before `AddSealed` has saved, a backup
   cannot be resumed: each re-run stops at `packer.go:60` with "sealed volume
   already exists but is absent from state" until the file is removed by hand.
   README.md:5 promises to "persist enough state to resume safely after
   interruption".
2. `BackupWedged`.  `Run` asks `resource.Plan` when it starts
   (`internal/backup/backup.go:85`), before `uploadPending` and the packer could
   free what an interrupted run left in the staging directory.  On a small disk
   (usable space for two volumes, but not for two beside the left-over) `Plan`
   then refuses with "not enough free space" or "requested volume ... exceeds
   current safe disk cap", and so does every later run, although uploading the
   volume or removing the stale `.tmp` would free the space.  README.md:5 names
   "storage-constrained machines" and promises to "resume safely".
   `ResumesIfRoomy` says where resuming works: where the largest volume `Plan`
   would ask for leaves it room to agree again.
3. `BatchCollision`.  The collision check is a preflight followed by an upload
   that overwrites (`rtype` 2, `internal/baidu/uploader.go:151`).  Two jobs with
   a common name and one remote directory can both find it free.  README.md:92
   says "a collision stops the run".
4. `PackingLong`.  The 4096 bytes kept for a fragment's header
   (`internal/archive/packer.go:171`) do not cover the `PANPACK.original_path`
   record of a relative path of more than some 2900 bytes, nor does the estimate of a
   symlink count its target (`packer.go:201`).  A volume filled by such an entry
   is above its target, and `PackNext` ends in its "internal error"
   (`packer.go:232`) in every run.  The comment at `packer.go:198` says one
   fragment per volume keeps "the cap deterministic".

Noted while modelling, without a run of their own:
- `Recorder.save` can fail after its rename (syncing the directory,
  `internal/runreceipt/receipt.go:208`); the command then exits non-zero with a
  receipt that says succeeded, which README.md:120 says proves "a normal
  successful return".
- `BackupCompletes` and `OneSnapshotUnlessRaced` leave out runs in which a plan
  and a first backup build at once, because there they do not hold: TLC shows
  `snapshot.json` truncated while it is in place, or taken over by the plan's snapshot, after
  which every backup is refused ("backup state belongs to snapshot ..."), or a
  published index that digests the other snapshot.  README.md:15 promises
  "atomic snapshots".
- A container that uses all of its memory or more, none of it reclaimable page
  cache, is planned as if it had 512 MiB (`internal/resource/resource.go:116`);
  `BuffersFit` states the exception.
- A restored tree gets its modes entry by entry while it is written.  For a user
  who is not root, a file without write permission that is cut over two volumes
  is created by its first fragment with that mode and refused when the second
  opens it for writing (`internal/restore/restore.go:241-251`), with every
  volume at hand; a forced re-run over such a file is refused at
  `restore.go:174`, and a directory without write permission admits nothing of
  what it held.  README.md:14 promises "restorable fragments for files larger
  than one volume".  `NeverRefusesAll` names exactly these refusals as its
  exceptions, and TLC finds it violated when any of them is left out.
- A batch whose own upload was damaged finds it at the next attempt and refuses
  it as a collision (`internal/batchupload/batch.go:186`): `UploadedAtLast`
  states the exception.

## 5. Proofs

Every invariant and every action property that a passing run checks is also a theorem:
it holds for all values of the constants that satisfy the named assumptions of
the modules, which TLC evaluates in the runs.  Each step lemma has one case per
action, and under it one step per conjunct that the action can disturb; steps
that share a shape are grouped.  The invariants below were checked by TLC on
the runs' instances before they were proved.

**`BackupRunProofs`**, for every set of sizes and any number of faults:
`TypeCorrect`, `VolumesTile`, `NothingIsLost`, `CatalogComplete`,
`SuccessRestorable`, `OneVolume` and the refinement `KeepsThePromise`, from
`ConstantsAssumption` alone (sizes are natural numbers).  None of the properties
is inductive as stated, because they speak of the file on disk, and the run acts
on its copy.  `IInv` adds:
- `Control`: what `store` and `vol` are at each `pc`: the store equals the file
  while a process runs, the volume in hand is the next one when sealed and a
  recorded one from `attempt` on, and it lies where the next step needs it;
- `UploadedKnown`: only recorded volumes are marked uploaded;
- `CatalogIsState`: a readable index lists exactly the recorded volumes, which
  are then all uploaded and final, since `done` is set;
- `MetadataSent`: the first `sent` metadata files are in place;
- `Staging`, for `OneVolume`: the staging directory is empty wherever the packer
  may begin a volume, and otherwise holds the one in hand or the one an
  interrupted run left.
The refinement needs the invariant in `AddSealed` (the cut starts at the
frontier because the volumes tile up to the cursor) and in `MarkComplete`.

**`BackupDiskProofs`**: `ReserveIsKept`, and `DiskTakesNothing` and
`DiskKeepsPromise`, which carry all of the above over to the disk of limited
size: every step is one of `BackupRun` or ends the run as `PlanRefuses` does
(`DiskSteps`).  `ReserveKept` alone is not inductive: what a stopped run left is
not compared with the disk again until the next `Plan`.  `Spared` says that
while a volume is packed twice its target lies above the reserve of the empty
directory, so that a `.tmp` or a sealed volume, of which there is one
(`Staging`), leaves at least as much again.  The arithmetic is in
`PolicyLeavesTwo`: the volume size is at most half of what is usable, for
automatic, requested and capped sizes.  It needs `DiskAssumption`: sizes are
natural numbers and the limits those that the command line accepts.

**`UploadBlocksProofs`**: `TypeCorrect`, `NilAllStored`, `RootCauseReported` and
`ErrorsAreReported` for any number of blocks, workers and attempts, from `UploadAssumption`.
The heart of `NilAllStored` is that every block handed out is stored, held by a
busy worker, or was dropped or failed by one, in which case the error channel is
filled, an error is about to be put there, or the caller has cancelled
(`WorkHasCause`, `ErrorsHaveCause`, `BlocksAccounted`, and `LoopLeft` for what
holds once the dispatcher is out of its loop); `RootCauseReported` needs that
`workCtx` is cancelled only once `errCh` holds the cause or the parent is
cancelled.  Both `NilAllStored` and `ErrorsAreReported` rest on `Counted`: the
wait group's counter is the number of goroutines that have not left (`CountStep`,
with one `Done` on each way out), so that zero means none is left
(`ZeroMeansNone`).  `FailuresKept` follows an error from the worker that met it
into `errCh` or behind the one that was there first.

**`UploadFileProofs`**: `TypeCorrect`, `BuffersAlwaysFit`, `RecordedStored` and
`NamesAlwaysSettle`, for any files, hosts, retries and faults.  `BuffersFit` is
carried by `WithinPlan`: from the start of a process on, whatever `feedback`
does, the concurrency stays within what `resource.Plan` gave for its host; that
this fits is arithmetic on `ResourcePlan` (`MostFits`).  The proof showed an
earlier form of the property to be wrong for a container that is above its limit
with page cache to reclaim.  `RecordedStored` needs `ReadBack`: a file is on the
way to its record only after its content was read back or found in place, and no
call is made for a file that is done.  `NamesAlwaysSettle` is temporal: a step
lemma shows that a settled name is kept by every step (`SettledStep`), because
a batch sends only to a name that it found free.

**`BatchProofs`**, on `BatchUpload`: `TypeCorrect`, `OneRunPerState`,
`StatesOnlyGrow`, `ReceiptsVouch` and `RemovedAreRecorded`, for any jobs,
processes and files.  A run decides from its copy of the state, so the invariant
is about that copy: `LockIsHeld` (a process is between `lockState` and its unlock
exactly when it holds the lock, kills included), from it `CopyIsState`, then
`PassedAreRecorded` (all files before the cursor are recorded, so a run that comes
to the end may set `completed`), `CompletedIsAll`, `GoneIsRecorded` and
`NilIsCompleted` (a nil return, the digest taken after it and a receipt that
says succeeded go back to a completed state, which never shrinks).
`RecordsTrue` and `NothingLost` have the premise `SingleJob`, one job in
the remote directory: with two they are false, which is finding 3.

On `BatchAudit`, in the same module: `AuditTypesHold`, `NothingIsMissed`,
`AlarmsAreReal`, and `AuditIsSound` under `SingleJob`.  The paging argument is
`Covered`: a name that was there when the listing began is on a page already
read, or its place is beyond the offset; since uploads and strangers only add
names, places only grow (`PlaceShifts`).  `Found` and `Intact` say what each
check has established and that it still holds when the next is made although
the audit takes no lock, because a completed state does not change any more;
`Calm` follows a quiet directory page by page for `AlarmsAreReal`.

**`SnapshotBuildProofs`**: `TypeCorrect`, `ManifestsPresent`, `OneSnapshot` and
`BackupsNeverRace`, for any backups, plans, builds and faults.
`ManifestsFirst` orders the renames: an id is written anywhere only once both
manifests are in place.  Unless `raced`, `OneBuilds` (one process builds, while
there is no `snapshot.json`, and the temporary file is its own) and `AllAgree`
(all others work on what `snapshot.json` holds) are kept.  `BackupsNeverRace`
has the premise that nobody plans (`Planners = {}`) and shows that then the
exception in `OneSnapshotUnlessRaced` never applies: the receipt's lock is
enough.

**`PackingProofs`**: `TypeCorrect`, `VolumesLead` and `ShortNamesAlwaysFit`, for
every manifest and all targets in whole blocks (`PackingAssumption`).  `Led` says
of the open volume what `VolumesLeadToCursor` says of sealed ones.  `Sized` is
the byte accounting: written bytes and owed padding are whole blocks, and with
short names the volume could be closed now without going above its target;
that an estimate covers what `archive/tar` writes is
`EntryHeaderFits` and `FragmentHeaderFits`, with the 2300 bytes at their limit.

**`PackRestoreProofs`**: `RestoresAll`, `AllIsNeverRefused` and `PrefixIsWhole`,
for every manifest, all targets, lost volumes and interruptions.  It stands on
`PackingProofs`: `Ordered` turns `VolumesLeadToCursor` into what a restore needs
(no item of a volume reaches past that volume's end or a later one's).
`Arrived(Reached)` is the invariant of the run: all entries before the cursor it
has come to are whole, the one at the cursor is as long as its offset, and
`active` knows so.  For lost volumes `Walk` says that those opened are the
first ones, for else the gap was noticed.  `AllIsNeverRefused` is the part of
`NothingRefused` that says a refused item is one the file system forbids
(`MayRefuse`): without an interruption nothing is at the destination of an item
that starts there, and one that goes on in the middle belongs to a cut file.
It needs no assumption on the modes (`AccessAssumption` only keeps the instances
to trees that exist).

Only model-checked: the liveness properties `Resumes`, `ResumesIfRoomy`,
`Terminates`, `UploadedAtLast`, `BatchCompletes`, `BackupCompletes` and
`PackingEnds`, which need fairness and `ENABLED`, out of TLAPS's reach.

## 6. Not modelled, and why

- Restore: times, path checks, and modes beyond what the owner may write; volumes: hash sums, and a source
  file that changes while it is packed.
- What a scan finds and how manifests are written and read: I/O of one process.
- Power loss: a rename is taken to be durable when it returns.  What a power
  loss undoes (`internal/state/state.go:198` syncs no directory) depends on the
  file system.
- Two backups on one state directory with `--receipt-file -`
  (`cmd/panpack/main.go:167`): the option gives up the lock that `BackupRun`
  relies on.
- Users who replace sealed files (`internal/batchupload/batch.go:134` would
  remove a replaced one) or edit state files.
- More than 10^6 volumes, whose names no longer sort in order
  (`internal/archive/packer.go:57`); user-given sizes near 2^63.
- Credentials, the OAuth polling loop, byte sizes, flags, printing, remote
  directory creation: no state that others see, or pure I/O.

## 7. Plan

The parts of the system with state and behaviour of their own are modelled, and
the safety of each is proved.  What is worth doing next:
1. State what a batch promises as an abstract specification, as `BackupPromise`
   does for a backup: each file is delivered once, then recorded, then removed;
   and prove that `BatchUpload` implements it in a directory of one job.
2. The same for the round trip: `PackRestore` seen from outside creates each
   entry in order or refuses.
3. Step properties on which the invariants rest and that a reader may want by
   name: the cursor only moves forward, a sealed volume never changes, the
   manifests of a snapshot are never removed.
4. Join `UploadBlocks` and `UploadFile`: that the step `Blocks` is what
   `NilAllStored` and `ErrorsAreReported` allow is argued in section 2, not proved.
