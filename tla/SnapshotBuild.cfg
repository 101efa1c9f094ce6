SPECIFICATION FairSpec
CONSTANTS
  Backups = {b1, b2}
  Planners = {q1}
  MaxBuilds = 5
  MaxFaults = 2
INVARIANTS
  TypeOK
  ManifestsAreThere
  OneSnapshotUnlessRaced
PROPERTIES
  BackupCompletes
