SPECIFICATION FairSpec
CONSTANTS
  Sizes <- MCSizes
  MaxFaults = 3
  SealGapFaults = TRUE
PROPERTIES
  Resumes
