------------------------ MODULE SnapshotBuildProofs ------------------------
(***************************************************************************)
(* Theorems about SnapshotBuild, for every set of backups and planners and *)
(* any number of builds and faults.                                        *)
(*                                                                         *)
(* Two facts carry them.  A manifest is renamed into place before anything *)
(* names its id, and manifests are never removed.  And while nobody has    *)
(* raced, the one process that builds does so before there is a            *)
(* snapshot.json, so that all others work on the snapshot it holds.        *)
(***************************************************************************)
EXTENDS SnapshotBuild, TLAPS

\* Where a process works on the snapshot that it has loaded or built.
Working == {"resolve", "state", "pack", "hash", "snapshot", "index", "complete"}

\* From the beginning of a build, or a successful load, a process has an id.
HasId == \A p \in Procs : pc[p] \notin {"idle", "load"} => mem[p] \in Ids

\* Ids are given to temporary files, snapshots and states only once their
\* manifests are there.
ManifestsFirst ==
  /\ tmp \in Ids => tmp \in plain \cap zipped
  /\ \A p \in Procs : /\ pc[p] = "gzip" => mem[p] \in plain
                      /\ pc[p] \in {"open", "write", "rename"} \union Working
                           => mem[p] \in plain \cap zipped

\* A backup past OpenState works on the snapshot of the state.
StateIsMine ==
  \A p \in Procs : pc[p] \in Working \ {"resolve", "state"} => state.id = mem[p]

\* Unless processes raced, one builds at most, while there is no snapshot.json,
\* and what it is about to rename is its own.
OneBuilds ==
  ~raced =>
    \A p \in Procs :
      /\ pc[p] \in Building => /\ json = None
                               /\ \A q \in Procs \ {p} : pc[q] \notin Building
      /\ fd[p] # "none" => fd[p] = "tmp"
      /\ pc[p] = "write" => fd[p] = "tmp"
      /\ pc[p] = "rename" => tmp = mem[p]

\* Unless processes raced, all work on what snapshot.json holds.
AllAgree ==
  ~raced =>
    \A p \in Procs : /\ pc[p] \in Working => mem[p] = json
                     /\ pc[p] \in {"snapshot", "index"} => digest[p] = json
                     /\ pc[p] = "index" => upJson = json

IInv == /\ TypeOK /\ HasId
        /\ ManifestsAreThere /\ ManifestsFirst
        /\ StateIsMine
        /\ OneBuilds /\ AllAgree /\ OneSnapshotUnlessRaced

\* Backups with receipts run one at a time.
BackupsAlone == \A p, q \in Backups : pc[p] # "idle" /\ pc[q] # "idle" => p = q

\* What keeps them from racing when nobody plans.
NoRace == BackupsAlone /\ ~raced
-----------------------------------------------------------------------------
LEMMA IInvInit == Init => IInv /\ BackupsAlone
  <1> SUFFICES ASSUME Init PROVE IInv /\ BackupsAlone
    OBVIOUS
  <1> USE SnapshotAssumption DEF Init, None, Broken
  <1>1. TypeOK
    <2>1. /\ fd \in [Procs -> {"none", "tmp", "json", "gone"}]
          /\ mem \in [Procs -> Ids \union {None}]
          /\ digest \in [Procs -> Ids \union {None, Broken}]
          /\ \A p \in Procs : fd[p] = "none"
      OBVIOUS
    <2>2. pc \in [Procs -> Building \union {"idle", "load", "resolve", "state",
                         "pack", "hash", "snapshot", "index", "complete"}]
      OBVIOUS
    <2>3. /\ state \in [id : Ids \union {None}, done : BOOLEAN, completed : BOOLEAN]
          /\ upIndex \in [id : Ids \union {None}, json : Ids \union {None, Broken}]
          /\ raced \in BOOLEAN
      OBVIOUS
    <2>4. built \in 0 .. MaxBuilds /\ faults \in 0 .. MaxFaults
      OBVIOUS
    <2> QED BY <2>1, <2>2, <2>3, <2>4 DEF TypeOK
  <1>2. HasId /\ ManifestsAreThere /\ ManifestsFirst /\ StateIsMine
    BY DEF HasId, ManifestsAreThere, ManifestsFirst, StateIsMine, Working, Ids
  <1>3. OneBuilds /\ AllAgree /\ OneSnapshotUnlessRaced /\ BackupsAlone
    BY DEF OneBuilds, AllAgree, OneSnapshotUnlessRaced, BackupsAlone, Building,
           Working, Procs
  <1> QED BY <1>1, <1>2, <1>3 DEF IInv

\* Types and ids.
LEMMA TypeStep == TypeOK /\ HasId /\ [Next]_vars => TypeOK' /\ HasId'
  <1> SUFFICES ASSUME TypeOK, HasId, [Next]_vars PROVE TypeOK' /\ HasId'
    OBVIOUS
  <1> USE SnapshotAssumption
      DEF TypeOK, HasId, Ids, None, Broken, Goto, Set, Building, files, uploads
  <1>1. ASSUME NEW p \in Procs, Start(p) PROVE TypeOK' /\ HasId'
    BY <1>1 DEF Start
  <1>2. ASSUME NEW p \in Procs, Load(p) PROVE TypeOK' /\ HasId'
    BY <1>2 DEF Load, End
  <1>3. ASSUME NEW p \in Procs, BeginBuild(p) PROVE TypeOK' /\ HasId'
    BY <1>3 DEF BeginBuild
  <1>4. ASSUME NEW p \in Procs, CommitManifest(p) PROVE TypeOK' /\ HasId'
    <2>1. mem[p] \in 1 .. MaxBuilds
      BY <1>4 DEF CommitManifest
    <2> QED BY <1>4, <2>1, ZenonT(60) DEF CommitManifest
  <1>5. ASSUME NEW p \in Procs, CommitGzip(p) PROVE TypeOK' /\ HasId'
    <2>1. mem[p] \in 1 .. MaxBuilds
      BY <1>5 DEF CommitGzip
    <2> QED BY <1>5, <2>1, ZenonT(60) DEF CommitGzip
  <1>6. ASSUME NEW p \in Procs, OpenTmp(p) PROVE TypeOK' /\ HasId'
    BY <1>6 DEF OpenTmp
  <1>7. ASSUME NEW p \in Procs, WriteTmp(p) PROVE TypeOK' /\ HasId'
    BY <1>7 DEF WriteTmp, Fill
  <1>8. ASSUME NEW p \in Procs, RenameTmp(p) PROVE TypeOK' /\ HasId'
    BY <1>8 DEF RenameTmp, End, Renamed
  <1>9. ASSUME NEW p \in Procs, Resolve(p) PROVE TypeOK' /\ HasId'
    BY <1>9 DEF Resolve, End
  <1>10. ASSUME NEW p \in Procs, OpenState(p) PROVE TypeOK' /\ HasId'
    BY <1>10 DEF OpenState, End
  <1>11. ASSUME NEW p \in Procs, Pack(p) PROVE TypeOK' /\ HasId'
    <2>1. CASE mem[p] \in plain
      <3>1. state' \in [id : Ids \union {None}, done : BOOLEAN, completed : BOOLEAN]
        BY <1>11, <2>1, ZenonT(60) DEF Pack
      <3> QED BY <1>11, <2>1, <3>1 DEF Pack
    <2>2. CASE mem[p] \notin plain
      BY <1>11, <2>2 DEF Pack, End
    <2> QED BY <2>1, <2>2
  <1>12. ASSUME NEW p \in Procs, HashMetadata(p) PROVE TypeOK' /\ HasId'
    BY <1>12 DEF HashMetadata, End
  <1>13. ASSUME NEW p \in Procs, UploadSnapshot(p) PROVE TypeOK' /\ HasId'
    BY <1>13 DEF UploadSnapshot
  <1>14. ASSUME NEW p \in Procs, UploadIndex(p) PROVE TypeOK' /\ HasId'
    BY <1>14 DEF UploadIndex
  <1>15. ASSUME NEW p \in Procs, Complete(p) PROVE TypeOK' /\ HasId'
    BY <1>15, ZenonT(60) DEF Complete, End
  <1>16. ASSUME NEW p \in Procs, Stop(p) PROVE TypeOK' /\ HasId'
    BY <1>16 DEF Stop, End, Fault, Fill
  <1>17. ASSUME NEW p \in Procs, WriteFails(p) PROVE TypeOK' /\ HasId'
    BY <1>17 DEF WriteFails, Fault, Removed
  <1>18. CASE UNCHANGED vars
    BY <1>18 DEF vars
  <1> QED BY <1>1, <1>2, <1>3, <1>4, <1>5, <1>6, <1>7, <1>8, <1>9, <1>10, <1>11,
             <1>12, <1>13, <1>14, <1>15, <1>16, <1>17, <1>18 DEF Next, Step

\* Manifests.
LEMMA ManifestStep ==
  /\ TypeOK /\ HasId /\ ManifestsAreThere /\ ManifestsFirst /\ [Next]_vars
  => ManifestsAreThere' /\ ManifestsFirst'
  <1> SUFFICES ASSUME TypeOK, HasId, ManifestsAreThere, ManifestsFirst, [Next]_vars
               PROVE  ManifestsAreThere' /\ ManifestsFirst'
    OBVIOUS
  <1> USE DEF TypeOK, HasId, ManifestsAreThere, ManifestsFirst, Working, Ids, None,
              Broken, Goto, Set, files, uploads
  <1>1. ASSUME NEW p \in Procs, Start(p) PROVE ManifestsAreThere' /\ ManifestsFirst'
    BY <1>1 DEF Start
  <1>2. ASSUME NEW p \in Procs, Load(p) PROVE ManifestsAreThere' /\ ManifestsFirst'
    BY <1>2 DEF Load, End
  <1>3. ASSUME NEW p \in Procs, BeginBuild(p) PROVE ManifestsAreThere' /\ ManifestsFirst'
    BY <1>3 DEF BeginBuild
  <1>4. ASSUME NEW p \in Procs, CommitManifest(p) PROVE ManifestsAreThere' /\ ManifestsFirst'
    BY <1>4 DEF CommitManifest
  <1>5. ASSUME NEW p \in Procs, CommitGzip(p) PROVE ManifestsAreThere' /\ ManifestsFirst'
    BY <1>5 DEF CommitGzip
  <1>6. ASSUME NEW p \in Procs, OpenTmp(p) PROVE ManifestsAreThere' /\ ManifestsFirst'
    BY <1>6 DEF OpenTmp
  <1>7. ASSUME NEW p \in Procs, WriteTmp(p) PROVE ManifestsAreThere' /\ ManifestsFirst'
    BY <1>7 DEF WriteTmp, Fill
  <1>8. ASSUME NEW p \in Procs, RenameTmp(p) PROVE ManifestsAreThere' /\ ManifestsFirst'
    BY <1>8 DEF RenameTmp, End, Renamed
  <1>9. ASSUME NEW p \in Procs, Resolve(p) PROVE ManifestsAreThere' /\ ManifestsFirst'
    BY <1>9 DEF Resolve, End
  <1>10. ASSUME NEW p \in Procs, OpenState(p) PROVE ManifestsAreThere' /\ ManifestsFirst'
    BY <1>10 DEF OpenState, End
  <1>11. ASSUME NEW p \in Procs, Pack(p) PROVE ManifestsAreThere' /\ ManifestsFirst'
    BY <1>11 DEF Pack, End
  <1>12. ASSUME NEW p \in Procs, HashMetadata(p) PROVE ManifestsAreThere' /\ ManifestsFirst'
    BY <1>12 DEF HashMetadata, End
  <1>13. ASSUME NEW p \in Procs, UploadSnapshot(p) PROVE ManifestsAreThere' /\ ManifestsFirst'
    BY <1>13 DEF UploadSnapshot
  <1>14. ASSUME NEW p \in Procs, UploadIndex(p) PROVE ManifestsAreThere' /\ ManifestsFirst'
    BY <1>14 DEF UploadIndex
  <1>15. ASSUME NEW p \in Procs, Complete(p) PROVE ManifestsAreThere' /\ ManifestsFirst'
    BY <1>15 DEF Complete, End
  <1>16. ASSUME NEW p \in Procs, Stop(p) PROVE ManifestsAreThere' /\ ManifestsFirst'
    BY <1>16 DEF Stop, End, Fault, Fill
  <1>17. ASSUME NEW p \in Procs, WriteFails(p) PROVE ManifestsAreThere' /\ ManifestsFirst'
    BY <1>17 DEF WriteFails, Fault, Removed
  <1>18. CASE UNCHANGED vars
    BY <1>18 DEF vars
  <1> QED BY <1>1, <1>2, <1>3, <1>4, <1>5, <1>6, <1>7, <1>8, <1>9, <1>10, <1>11,
             <1>12, <1>13, <1>14, <1>15, <1>16, <1>17, <1>18 DEF Next, Step

\* The state's id is set once.
LEMMA MineStep ==
  TypeOK /\ HasId /\ StateIsMine /\ [Next]_vars => StateIsMine'
  <1> SUFFICES ASSUME TypeOK, HasId, StateIsMine, [Next]_vars PROVE StateIsMine'
    OBVIOUS
  <1> USE DEF TypeOK, HasId, StateIsMine, Working, Ids, None, Goto, Set, files,
              uploads
  <1>1. ASSUME NEW p \in Procs, Start(p) PROVE StateIsMine'
    BY <1>1 DEF Start
  <1>2. ASSUME NEW p \in Procs, Load(p) PROVE StateIsMine'
    BY <1>2 DEF Load, End
  <1>3. ASSUME NEW p \in Procs, BeginBuild(p) PROVE StateIsMine'
    BY <1>3 DEF BeginBuild
  <1>4. ASSUME NEW p \in Procs, CommitManifest(p) PROVE StateIsMine'
    BY <1>4 DEF CommitManifest
  <1>5. ASSUME NEW p \in Procs, CommitGzip(p) PROVE StateIsMine'
    BY <1>5 DEF CommitGzip
  <1>6. ASSUME NEW p \in Procs, OpenTmp(p) PROVE StateIsMine'
    BY <1>6 DEF OpenTmp
  <1>7. ASSUME NEW p \in Procs, WriteTmp(p) PROVE StateIsMine'
    BY <1>7 DEF WriteTmp, Fill
  <1>8. ASSUME NEW p \in Procs, RenameTmp(p) PROVE StateIsMine'
    BY <1>8 DEF RenameTmp, End, Renamed
  <1>9. ASSUME NEW p \in Procs, Resolve(p) PROVE StateIsMine'
    BY <1>9 DEF Resolve, End
  <1>10. ASSUME NEW p \in Procs, OpenState(p) PROVE StateIsMine'
    BY <1>10 DEF OpenState, End
  <1>11. ASSUME NEW p \in Procs, Pack(p) PROVE StateIsMine'
    BY <1>11 DEF Pack, End
  <1>12. ASSUME NEW p \in Procs, HashMetadata(p) PROVE StateIsMine'
    BY <1>12 DEF HashMetadata, End
  <1>13. ASSUME NEW p \in Procs, UploadSnapshot(p) PROVE StateIsMine'
    BY <1>13 DEF UploadSnapshot
  <1>14. ASSUME NEW p \in Procs, UploadIndex(p) PROVE StateIsMine'
    BY <1>14 DEF UploadIndex
  <1>15. ASSUME NEW p \in Procs, Complete(p) PROVE StateIsMine'
    BY <1>15 DEF Complete, End
  <1>16. ASSUME NEW p \in Procs, Stop(p) PROVE StateIsMine'
    BY <1>16 DEF Stop, End, Fault, Fill
  <1>17. ASSUME NEW p \in Procs, WriteFails(p) PROVE StateIsMine'
    BY <1>17 DEF WriteFails, Fault, Removed
  <1>18. CASE UNCHANGED vars
    BY <1>18 DEF vars
  <1> QED BY <1>1, <1>2, <1>3, <1>4, <1>5, <1>6, <1>7, <1>8, <1>9, <1>10, <1>11,
             <1>12, <1>13, <1>14, <1>15, <1>16, <1>17, <1>18 DEF Next, Step

\* One builder, unless processes race.
LEMMA OneBuildsStep ==
  TypeOK /\ HasId /\ OneBuilds /\ [Next]_vars => OneBuilds'
  <1> SUFFICES ASSUME TypeOK, HasId, OneBuilds, [Next]_vars PROVE OneBuilds'
    OBVIOUS
  <1> USE DEF TypeOK, HasId, OneBuilds, Building, Ids, None, Broken, Goto, Set, files,
              uploads
  <1>1. ASSUME NEW p \in Procs, Start(p) PROVE OneBuilds'
    BY <1>1 DEF Start
  <1>2. ASSUME NEW p \in Procs, Load(p) PROVE OneBuilds'
    BY <1>2 DEF Load, End
  <1>3. ASSUME NEW p \in Procs, BeginBuild(p) PROVE OneBuilds'
    BY <1>3, ZenonT(60) DEF BeginBuild
  <1>4. ASSUME NEW p \in Procs, CommitManifest(p) PROVE OneBuilds'
    BY <1>4 DEF CommitManifest
  <1>5. ASSUME NEW p \in Procs, CommitGzip(p) PROVE OneBuilds'
    BY <1>5 DEF CommitGzip
  <1>6. ASSUME NEW p \in Procs, OpenTmp(p) PROVE OneBuilds'
    BY <1>6 DEF OpenTmp
  <1>7. ASSUME NEW p \in Procs, WriteTmp(p) PROVE OneBuilds'
    BY <1>7 DEF WriteTmp, Fill
  <1>8. ASSUME NEW p \in Procs, RenameTmp(p) PROVE OneBuilds'
    BY <1>8 DEF RenameTmp, End, Renamed
  <1>9. ASSUME NEW p \in Procs, Resolve(p) PROVE OneBuilds'
    BY <1>9 DEF Resolve, End
  <1>10. ASSUME NEW p \in Procs, OpenState(p) PROVE OneBuilds'
    BY <1>10 DEF OpenState, End
  <1>11. ASSUME NEW p \in Procs, Pack(p) PROVE OneBuilds'
    BY <1>11 DEF Pack, End
  <1>12. ASSUME NEW p \in Procs, HashMetadata(p) PROVE OneBuilds'
    BY <1>12 DEF HashMetadata, End
  <1>13. ASSUME NEW p \in Procs, UploadSnapshot(p) PROVE OneBuilds'
    BY <1>13 DEF UploadSnapshot
  <1>14. ASSUME NEW p \in Procs, UploadIndex(p) PROVE OneBuilds'
    BY <1>14 DEF UploadIndex
  <1>15. ASSUME NEW p \in Procs, Complete(p) PROVE OneBuilds'
    BY <1>15 DEF Complete, End
  <1>16. ASSUME NEW p \in Procs, Stop(p) PROVE OneBuilds'
    BY <1>16 DEF Stop, End, Fault, Fill
  <1>17. ASSUME NEW p \in Procs, WriteFails(p) PROVE OneBuilds'
    BY <1>17 DEF WriteFails, Fault, Removed
  <1>18. CASE UNCHANGED vars
    BY <1>18 DEF vars
  <1> QED BY <1>1, <1>2, <1>3, <1>4, <1>5, <1>6, <1>7, <1>8, <1>9, <1>10, <1>11,
             <1>12, <1>13, <1>14, <1>15, <1>16, <1>17, <1>18 DEF Next, Step

\* What everybody works on, unless processes race.
LEMMA AgreeStep ==
  IInv /\ [Next]_vars => AllAgree' /\ OneSnapshotUnlessRaced'
  <1> SUFFICES ASSUME IInv, [Next]_vars PROVE AllAgree' /\ OneSnapshotUnlessRaced'
    OBVIOUS
  <1> USE DEF IInv, TypeOK, HasId, StateIsMine, OneBuilds, AllAgree,
              OneSnapshotUnlessRaced, Building, Working, Ids, None, Broken, Goto,
              Set, files, uploads
  <1>1. ASSUME NEW p \in Procs, Start(p) PROVE AllAgree' /\ OneSnapshotUnlessRaced'
    BY <1>1 DEF Start
  <1>2. ASSUME NEW p \in Procs, Load(p) PROVE AllAgree' /\ OneSnapshotUnlessRaced'
    BY <1>2 DEF Load, End
  <1>3. ASSUME NEW p \in Procs, BeginBuild(p) PROVE AllAgree' /\ OneSnapshotUnlessRaced'
    BY <1>3 DEF BeginBuild
  <1>4. ASSUME NEW p \in Procs, CommitManifest(p) PROVE AllAgree' /\ OneSnapshotUnlessRaced'
    BY <1>4 DEF CommitManifest
  <1>5. ASSUME NEW p \in Procs, CommitGzip(p) PROVE AllAgree' /\ OneSnapshotUnlessRaced'
    BY <1>5 DEF CommitGzip
  <1>6. ASSUME NEW p \in Procs, OpenTmp(p) PROVE AllAgree' /\ OneSnapshotUnlessRaced'
    BY <1>6 DEF OpenTmp
  <1>7. ASSUME NEW p \in Procs, WriteTmp(p) PROVE AllAgree' /\ OneSnapshotUnlessRaced'
    BY <1>7 DEF WriteTmp, Fill
  <1>8. ASSUME NEW p \in Procs, RenameTmp(p) PROVE AllAgree' /\ OneSnapshotUnlessRaced'
    BY <1>8 DEF RenameTmp, End, Renamed
  <1>9. ASSUME NEW p \in Procs, Resolve(p) PROVE AllAgree' /\ OneSnapshotUnlessRaced'
    BY <1>9 DEF Resolve, End
  <1>10. ASSUME NEW p \in Procs, OpenState(p) PROVE AllAgree' /\ OneSnapshotUnlessRaced'
    BY <1>10 DEF OpenState, End
  <1>11. ASSUME NEW p \in Procs, Pack(p) PROVE AllAgree' /\ OneSnapshotUnlessRaced'
    BY <1>11 DEF Pack, End
  <1>12. ASSUME NEW p \in Procs, HashMetadata(p) PROVE AllAgree' /\ OneSnapshotUnlessRaced'
    BY <1>12 DEF HashMetadata, End
  <1>13. ASSUME NEW p \in Procs, UploadSnapshot(p) PROVE AllAgree' /\ OneSnapshotUnlessRaced'
    BY <1>13 DEF UploadSnapshot
  <1>14. ASSUME NEW p \in Procs, UploadIndex(p) PROVE AllAgree' /\ OneSnapshotUnlessRaced'
    BY <1>14 DEF UploadIndex
  <1>15. ASSUME NEW p \in Procs, Complete(p) PROVE AllAgree' /\ OneSnapshotUnlessRaced'
    BY <1>15 DEF Complete, End
  <1>16. ASSUME NEW p \in Procs, Stop(p) PROVE AllAgree' /\ OneSnapshotUnlessRaced'
    BY <1>16 DEF Stop, End, Fault, Fill
  <1>17. ASSUME NEW p \in Procs, WriteFails(p) PROVE AllAgree' /\ OneSnapshotUnlessRaced'
    BY <1>17 DEF WriteFails, Fault, Removed
  <1>18. CASE UNCHANGED vars
    BY <1>18 DEF vars
  <1> QED BY <1>1, <1>2, <1>3, <1>4, <1>5, <1>6, <1>7, <1>8, <1>9, <1>10, <1>11,
             <1>12, <1>13, <1>14, <1>15, <1>16, <1>17, <1>18 DEF Next, Step

\* The receipt's lock.
LEMMA AloneStep == TypeOK /\ BackupsAlone /\ [Next]_vars => BackupsAlone'
  <1> SUFFICES ASSUME TypeOK, BackupsAlone, [Next]_vars PROVE BackupsAlone'
    OBVIOUS
  <1>0. Backups \subseteq Procs
    BY DEF Procs
  <1>1. ASSUME NEW p \in Procs, Start(p) PROVE BackupsAlone'
    BY <1>0, <1>1 DEF Start, TypeOK, BackupsAlone, Goto, Set
  <1>2. ASSUME NEW p \in Procs, ~Start(p), Step(p) \/ Stop(p) \/ WriteFails(p)
        PROVE  /\ pc[p] # "idle"
               /\ \E t : Goto(p, t)
    <2>1. CASE Load(p) \/ BeginBuild(p) \/ CommitManifest(p) \/ CommitGzip(p)
      BY <2>1 DEF Load, BeginBuild, CommitManifest, CommitGzip, End
    <2>2. CASE OpenTmp(p) \/ WriteTmp(p) \/ RenameTmp(p) \/ Resolve(p)
      BY <2>2 DEF OpenTmp, WriteTmp, RenameTmp, Resolve, End
    <2>3. CASE OpenState(p) \/ Pack(p) \/ HashMetadata(p) \/ UploadSnapshot(p)
      BY <2>3 DEF OpenState, Pack, HashMetadata, UploadSnapshot, End
    <2>4. CASE UploadIndex(p) \/ Complete(p) \/ Stop(p) \/ WriteFails(p)
      BY <2>4 DEF UploadIndex, Complete, Stop, WriteFails, End
    <2> QED BY <1>2, <2>1, <2>2, <2>3, <2>4 DEF Step
  <1>3. ASSUME NEW p \in Procs, pc[p] # "idle", NEW t, Goto(p, t)
        PROVE  BackupsAlone'
    BY <1>0, <1>3 DEF TypeOK, BackupsAlone, Goto, Set
  <1>4. CASE UNCHANGED vars
    BY <1>4 DEF vars, BackupsAlone
  <1> QED BY <1>1, <1>2, <1>3, <1>4 DEF Next

\* Only two that are at it at once race.
LEMMA RaceStep ==
  ASSUME Planners = {}, TypeOK, BackupsAlone, ~raced, [Next]_vars
  PROVE  ~raced'
  <1>1. CASE raced' = raced
    BY <1>1
  <1>2. ASSUME NEW p \in Procs, BeginBuild(p) PROVE ~raced'
    <2>1. ASSUME NEW q \in Procs, pc[q] \in Building PROVE FALSE
      <3>1. q = p
        BY <1>2, <2>1 DEF BeginBuild, Building, BackupsAlone, Procs
      <3> QED BY <1>2, <2>1, <3>1 DEF BeginBuild, Building
    <2> QED BY <1>2, <2>1 DEF BeginBuild
  <1>3. ASSUME NEW p \in Procs, ~BeginBuild(p), Step(p) \/ Stop(p) \/ WriteFails(p)
        PROVE  raced' = raced
    <2>1. CASE Start(p) \/ Load(p) \/ CommitManifest(p) \/ CommitGzip(p)
      BY <2>1 DEF Start, Load, CommitManifest, CommitGzip
    <2>2. CASE OpenTmp(p) \/ WriteTmp(p) \/ RenameTmp(p) \/ Resolve(p)
      BY <2>2 DEF OpenTmp, WriteTmp, RenameTmp, Resolve
    <2>3. CASE OpenState(p) \/ Pack(p) \/ HashMetadata(p) \/ UploadSnapshot(p)
      BY <2>3 DEF OpenState, Pack, HashMetadata, UploadSnapshot
    <2>4. CASE UploadIndex(p) \/ Complete(p) \/ Stop(p) \/ WriteFails(p)
      BY <2>4 DEF UploadIndex, Complete, Stop, WriteFails
    <2> QED BY <1>3, <2>1, <2>2, <2>3, <2>4 DEF Step
  <1>4. CASE UNCHANGED vars
    BY <1>1, <1>4 DEF vars
  <1> QED BY <1>1, <1>2, <1>3, <1>4 DEF Next

-----------------------------------------------------------------------------
LEMMA Inductive == Spec => []IInv
  <1>1. Init => IInv
    BY IInvInit
  <1>2. IInv /\ [Next]_vars => IInv'
    BY TypeStep, ManifestStep, MineStep, OneBuildsStep, AgreeStep DEF IInv
  <1> QED BY <1>1, <1>2, PTL DEF Spec

\* Every value stays of its type, and a process has snapshot.json.tmp open only
\* while it writes or is about to rename it.
THEOREM TypeCorrect == Spec => []TypeOK
  <1>1. IInv => TypeOK
    BY DEF IInv
  <1> QED BY <1>1, Inductive, PTL

\* Whatever is interrupted and however many processes build beside each other,
\* the snapshot that can be loaded and the one the state belongs to have both
\* their manifests: manifest.Build renames them into place first.
THEOREM ManifestsPresent == Spec => []ManifestsAreThere
  <1>1. IInv => ManifestsAreThere
    BY DEF IInv
  <1> QED BY <1>1, Inductive, PTL

\* Unless two processes were building a snapshot at once, snapshot.json is whole,
\* the state belongs to it, and a published index and remote snapshot are its.
THEOREM OneSnapshot == Spec => []OneSnapshotUnlessRaced
  <1>1. IInv => OneSnapshotUnlessRaced
    BY DEF IInv
  <1> QED BY <1>1, Inductive, PTL

\* Backups alone, each under its receipt's lock, never race however often they are
\* interrupted: the condition of OneSnapshotUnlessRaced is met, and only a plan
\* run beside a backup can break it.
THEOREM BackupsNeverRace == Planners = {} => (Spec => []~raced)
  <1> SUFFICES ASSUME Planners = {} PROVE Spec => []~raced
    OBVIOUS
  <1>1. Init => NoRace
    BY IInvInit DEF NoRace, Init
  <1>2. IInv /\ NoRace /\ [Next]_vars => NoRace'
    BY AloneStep, RaceStep DEF NoRace, IInv
  <1>3. NoRace => ~raced
    BY DEF NoRace
  <1> QED BY <1>1, <1>2, <1>3, Inductive, PTL DEF Spec
=============================================================================
