--------------------------- MODULE SnapshotBuild ---------------------------
(***************************************************************************)
(* How a source becomes a snapshot, and a backup its catalog: the first    *)
(* backup or plan on a state directory builds the manifest and commits it  *)
(* with three renames, later ones load snapshot.json.  Backups keep each   *)
(* other out with the run receipt's lock; plan takes no lock.              *)
(*                                                                         *)
(* A file's content is the id of the snapshot it is about.  Every builder  *)
(* writes the same snapshot.json.tmp, opened with O_TRUNC: two of them     *)
(* share an inode, which has a name or none.  The packing and uploading of *)
(* volumes is one step here, and BackupRun's matter; the remote directory  *)
(* is the default one.                                                     *)
(***************************************************************************)
EXTENDS Integers, FiniteSets

CONSTANTS Backups,   \* processes that run panpack backup, with receipts
          Planners,  \* processes that run panpack plan
          MaxBuilds, \* bound on snapshot ids
          MaxFaults  \* bound on kills and failed steps

ASSUME SnapshotAssumption == /\ Backups \cap Planners = {}
                             /\ MaxBuilds \in Nat /\ MaxFaults \in Nat

VARIABLES plain,    \* ids of the manifest-<id>.jsonl there
          zipped,   \* ids of the manifest-<id>.jsonl.gz there
          json,     \* content of snapshot.json
          tmp,      \* content of snapshot.json.tmp
          fd,       \* per process, the name of the file it has open
          state,    \* backup-state.json
          upJson,   \* content of the remote snapshot-<id>.json
          upIndex,  \* the remote index: its id and the snapshot it digests
          pc, mem,  \* per process, where it is, the id it works on
          digest,   \* per process, the snapshot.json it has hashed
          built,    \* ids given out
          raced,    \* history: two processes were building at once
          faults

files == <<plain, zipped, json, tmp, fd>>
uploads == <<upJson, upIndex>>
vars == <<files, state, uploads, pc, mem, digest, built, raced, faults>>

Procs == Backups \union Planners
Ids == 1 .. MaxBuilds
None == 0    \* no file
Broken == -1 \* a file that is empty or cut off

Building == {"manifest", "gzip", "open", "write", "rename"}

Set(f, p, v) == [f EXCEPT ![p] = v]
Goto(p, s) == pc' = Set(pc, p, s)

\* The process ends, with an error or not.
End(p) == /\ Goto(p, "idle")
          /\ mem' = Set(mem, p, None) /\ digest' = Set(digest, p, None)
          /\ fd' = Set(fd, p, "none")

Init == /\ plain = {} /\ zipped = {} /\ json = None /\ tmp = None
        /\ fd = [p \in Procs |-> "none"]
        /\ state = [id |-> None, done |-> FALSE, completed |-> FALSE]
        /\ upJson = None /\ upIndex = [id |-> None, json |-> None]
        /\ pc = [p \in Procs |-> "idle"] /\ mem = [p \in Procs |-> None]
        /\ digest = [p \in Procs |-> None]
        /\ built = 0 /\ raced = FALSE /\ faults = 0

-----------------------------------------------------------------------------
(* loadOrBuildSnapshot. *)

Start(p) == /\ pc[p] = "idle"
            /\ p \in Backups => \A q \in Backups : pc[q] = "idle"
            /\ Goto(p, "load")
            /\ UNCHANGED <<files, state, uploads, mem, digest, built, raced,
                           faults>>

\* An earlier run's snapshot is taken; one that cannot be read stops the run.
Load(p) == /\ pc[p] = "load" /\ json # None
           /\ IF json = Broken
                THEN End(p)
                ELSE /\ mem' = Set(mem, p, json)
                     /\ Goto(p, "resolve")
                     /\ UNCHANGED <<fd, digest>>
           /\ UNCHANGED <<plain, zipped, json, tmp, state, uploads, built,
                          raced, faults>>

\* There is none: Build scans the source into a manifest of a new id.
BeginBuild(p) == /\ pc[p] = "load" /\ json = None
                 /\ built < MaxBuilds /\ built' = built + 1
                 /\ mem' = Set(mem, p, built')
                 /\ Goto(p, "manifest")
                 /\ raced' = (raced \/ \E q \in Procs : pc[q] \in Building)
                 /\ UNCHANGED <<files, state, uploads, digest, faults>>

\* Mutant: the compressed manifest is not committed.
MutCommitManifest(p) == /\ pc[p] = "manifest"
                        /\ plain' = plain \union {mem[p]}
                        /\ Goto(p, "open")
                        /\ UNCHANGED <<zipped, json, tmp, fd, state, uploads,
                                       mem, digest, built, raced, faults>>

CommitManifest(p) == /\ pc[p] = "manifest"
                     /\ plain' = plain \union {mem[p]}
                     /\ Goto(p, "gzip")
                     /\ UNCHANGED <<zipped, json, tmp, fd, state, uploads, mem,
                                    digest, built, raced, faults>>

CommitGzip(p) == /\ pc[p] = "gzip"
                 /\ zipped' = zipped \union {mem[p]}
                 /\ Goto(p, "open")
                 /\ UNCHANGED <<plain, json, tmp, fd, state, uploads, mem,
                                digest, built, raced, faults>>

-----------------------------------------------------------------------------
(* writeJSONAtomic. *)

\* O_CREATE|O_TRUNC: the file is new or somebody else's, and empty.
OpenTmp(p) == /\ pc[p] = "open"
              /\ tmp' = Broken
              /\ fd' = Set(fd, p, "tmp")
              /\ Goto(p, "write")
              /\ UNCHANGED <<plain, zipped, json, state, uploads, mem, digest,
                             built, raced, faults>>

\* What p's open file gets to hold c, under the name it has by now.
Fill(p, c) == /\ tmp' = IF fd[p] = "tmp" THEN c ELSE tmp
              /\ json' = IF fd[p] = "json" THEN c ELSE json

\* Written over somebody else's text of another length, it is no JSON.
WriteTmp(p) ==
  /\ pc[p] = "write"
  /\ \E c \in {mem[p]} \union
       (IF \E q \in Procs \ {p} : fd[q] = fd[p] \/ raced THEN {Broken} ELSE {}) :
       Fill(p, c)
  /\ Goto(p, "rename")
  /\ UNCHANGED <<plain, zipped, fd, state, uploads, mem, digest, built, raced,
                 faults>>

\* The names that open files have after tmp is renamed or removed.
Renamed(f) == IF f = "tmp" THEN "json" ELSE IF f = "json" THEN "gone" ELSE f
Removed(f) == IF f = "tmp" THEN "gone" ELSE f

\* Mutant: the file stays open.
MutRenameTmp(p) ==
  /\ pc[p] = "rename"
  /\ IF tmp = None
       THEN End(p) /\ UNCHANGED <<json, tmp>>
       ELSE /\ json' = tmp /\ tmp' = None
            /\ fd' = [q \in Procs |-> Renamed(fd[q])]
            /\ Goto(p, "resolve")
            /\ UNCHANGED <<mem, digest>>
  /\ UNCHANGED <<plain, zipped, state, uploads, built, raced, faults>>

\* The file is closed first, so p's own descriptor is no more.
RenameTmp(p) ==
  /\ pc[p] = "rename"
  /\ IF tmp = None
       THEN End(p) /\ UNCHANGED <<json, tmp>>
       ELSE /\ json' = tmp /\ tmp' = None
            /\ fd' = [q \in Procs |-> IF q = p THEN "none" ELSE Renamed(fd[q])]
            /\ Goto(p, "resolve")
            /\ UNCHANGED <<mem, digest>>
  /\ UNCHANGED <<plain, zipped, state, uploads, built, raced, faults>>

-----------------------------------------------------------------------------
(* The rest of Run. *)

\* Mutant: a state that is there already is refused.
MutResolve(p) ==
  /\ pc[p] = "resolve"
  /\ IF p \in Planners \/ state.id # None
       THEN End(p)
       ELSE Goto(p, "state") /\ UNCHANGED <<mem, digest, fd>>
  /\ UNCHANGED <<plain, zipped, json, tmp, state, uploads, built, raced, faults>>

\* resolveRemoteDir refuses another snapshot's state; a plan ends here.
Resolve(p) ==
  /\ pc[p] = "resolve"
  /\ IF p \in Planners \/ state.id \notin {None, mem[p]}
       THEN End(p)
       ELSE Goto(p, "state") /\ UNCHANGED <<mem, digest, fd>>
  /\ UNCHANGED <<plain, zipped, json, tmp, state, uploads, built, raced, faults>>

\* state.Open creates the state, or refuses one of another snapshot.
OpenState(p) ==
  /\ pc[p] = "state"
  /\ IF state.id \in {None, mem[p]}
       THEN /\ state' = [state EXCEPT !.id = mem[p]]
            /\ Goto(p, "pack") /\ UNCHANGED <<mem, digest, fd>>
       ELSE End(p) /\ UNCHANGED state
  /\ UNCHANGED <<plain, zipped, json, tmp, uploads, built, raced, faults>>

\* The packer reads the plain manifest to its end; all volumes are uploaded.
Pack(p) == /\ pc[p] = "pack"
           /\ IF mem[p] \in plain
                THEN /\ state' = [state EXCEPT !.done = TRUE]
                     /\ Goto(p, "hash") /\ UNCHANGED <<mem, digest, fd>>
                ELSE End(p) /\ UNCHANGED state
           /\ UNCHANGED <<plain, zipped, json, tmp, uploads, built, raced, faults>>

\* uploadMetadata hashes the compressed manifest and snapshot.json.
HashMetadata(p) ==
  /\ pc[p] = "hash"
  /\ IF mem[p] \in zipped /\ json # None
       THEN /\ digest' = Set(digest, p, json)
            /\ Goto(p, "snapshot") /\ UNCHANGED <<mem, fd>>
       ELSE End(p)
  /\ UNCHANGED <<plain, zipped, json, tmp, state, uploads, built, raced, faults>>

\* UploadFile hashes the file anew and sends what it holds now.
UploadSnapshot(p) == /\ pc[p] = "snapshot"
                     /\ upJson' = json
                     /\ Goto(p, "index")
                     /\ UNCHANGED <<files, state, upIndex, mem, digest, built,
                                    raced, faults>>

UploadIndex(p) == /\ pc[p] = "index"
                  /\ upIndex' = [id |-> mem[p], json |-> digest[p]]
                  /\ Goto(p, "complete")
                  /\ UNCHANGED <<files, state, upJson, mem, digest, built, raced,
                                 faults>>

Complete(p) == /\ pc[p] = "complete"
               /\ state' = [state EXCEPT !.completed = TRUE]
               /\ End(p)
               /\ UNCHANGED <<plain, zipped, json, tmp, uploads, built, raced,
                              faults>>

-----------------------------------------------------------------------------
Fault == faults < MaxFaults /\ faults' = faults + 1

\* The process is killed, or a step returns an error; a write may be cut off.
Stop(p) == /\ pc[p] # "idle"
           /\ Fault
           /\ End(p)
           /\ \/ UNCHANGED <<tmp, json>>
              \/ pc[p] = "write" /\ Fill(p, Broken)
           /\ UNCHANGED <<plain, zipped, state, uploads, built, raced>>

\* Mutant: the failure is ignored.
MutWriteFails(p) ==
  /\ pc[p] = "write"
  /\ Fault
  /\ Goto(p, "resolve")
  /\ UNCHANGED <<files, state, uploads, mem, digest, built, raced>>

\* Writing or syncing fails, and the temporary file is removed by its name.
WriteFails(p) ==
  /\ pc[p] = "write"
  /\ Fault
  /\ json' = IF fd[p] = "json" THEN Broken ELSE json
  /\ tmp' = None
  /\ fd' = [q \in Procs |-> IF q = p THEN "none" ELSE Removed(fd[q])]
  /\ Goto(p, "idle")
  /\ mem' = Set(mem, p, None)
  /\ UNCHANGED <<plain, zipped, state, uploads, digest, built, raced>>

-----------------------------------------------------------------------------
Step(p) == \/ Start(p) \/ Load(p) \/ BeginBuild(p) \/ CommitManifest(p)
           \/ CommitGzip(p) \/ OpenTmp(p) \/ WriteTmp(p) \/ RenameTmp(p)
           \/ Resolve(p) \/ OpenState(p) \/ Pack(p) \/ HashMetadata(p)
           \/ UploadSnapshot(p) \/ UploadIndex(p) \/ Complete(p)

Next == \E p \in Procs : Step(p) \/ Stop(p) \/ WriteFails(p)

Spec == Init /\ [][Next]_vars

\* A backup keeps going and is run again; nobody need ever plan.
FairSpec == Spec /\ WF_vars(\E p \in Backups : Step(p))

-----------------------------------------------------------------------------
\* Everything stays of its type; a process has snapshot.json.tmp open only while
\* it writes or is about to rename it.
TypeOK ==
  /\ plain \subseteq Ids /\ zipped \subseteq Ids
  /\ json \in Ids \union {None, Broken} /\ tmp \in Ids \union {None, Broken}
  /\ fd \in [Procs -> {"none", "tmp", "json", "gone"}]
  /\ \A p \in Procs : fd[p] # "none" => pc[p] \in {"write", "rename"}
  /\ state \in [id : Ids \union {None}, done : BOOLEAN, completed : BOOLEAN]
  /\ upJson \in Ids \union {None, Broken}
  /\ upIndex \in [id : Ids \union {None}, json : Ids \union {None, Broken}]
  /\ pc \in [Procs -> Building \union {"idle", "load", "resolve", "state", "pack",
                        "hash", "snapshot", "index", "complete"}]
  /\ mem \in [Procs -> Ids \union {None}]
  /\ digest \in [Procs -> Ids \union {None, Broken}]
  /\ built \in 0 .. MaxBuilds /\ raced \in BOOLEAN /\ faults \in 0 .. MaxFaults

\* Whatever is interrupted and whoever builds beside whom, a snapshot that can
\* be loaded, and the one a backup state belongs to, has both its manifests.
ManifestsAreThere ==
  {json, state.id} \cap Ids \subseteq plain \cap zipped

\* Unless two processes built a snapshot at once, snapshot.json is whole and the
\* one that the backup state belongs to, so no interruption leaves a directory
\* that later backups refuse; and the published index, with the snapshot whose
\* digest it gives, is that of the backup state.
OneSnapshotUnlessRaced ==
  ~raced =>
    /\ json # Broken
    /\ state.id \in {None, json}
    /\ upIndex.id # None =>
         upIndex.id = state.id /\ upIndex.json = state.id /\ upJson = state.id

\* After finitely many interruptions the backup is completed, however many plans
\* run beside it, unless two processes built at once.
BackupCompletes == <>(state.completed \/ raced)
=============================================================================
