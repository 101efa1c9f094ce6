SPECIFICATION FairSpec
CONSTANTS
  Blocks = 4
  Workers = {w1, w2}
  MaxAttempts = 2
CHECK_DEADLOCK FALSE
INVARIANTS
  TypeOK
  NilMeansAllStored
  RootCause
  NoErrorLost
PROPERTIES
  Terminates
