SPECIFICATION FairSpec
CONSTANTS
  Files = 3
  Hosts <- MCHosts
  Slice <- MCSlice
  Cap = 64
  MaxRetries = 3
  MaxFileAttempts = 2
  MaxFaults = 3
INVARIANTS
  TypeOK
  BuffersFit
  RecordedMeansStored
PROPERTIES
  NamesSettle
  UploadedAtLast
