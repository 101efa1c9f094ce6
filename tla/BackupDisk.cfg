SPECIFICATION DiskFairSpec
CONSTANTS
  Sizes <- MCSizes
  MaxFaults = 3
  SealGapFaults = TRUE
  Unit <- MCUnit
  Rooms <- MCRooms
  Limits <- MCLimits
INVARIANTS
  TypeOK
  VolumesTileManifest
  NothingLost
  CatalogIsComplete
  SuccessIsRestorable
  OneVolumeOnDisk
  ReserveKept
PROPERTIES
  KeepsPromise
  ResumesIfRoomy
