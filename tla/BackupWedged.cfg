SPECIFICATION DiskFairSpec
CONSTANTS
  Sizes <- MCSizes
  MaxFaults = 3
  SealGapFaults = FALSE
  Unit <- MCUnit
  Rooms <- MCRooms
  Limits <- MCLimits
PROPERTIES
  ResumesWhereItFits
