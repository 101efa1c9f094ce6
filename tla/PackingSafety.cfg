SPECIFICATION FairSpec
CONSTANTS
  Lengths = {2300, 3900}
  Manifests <- MCManifests
  Targets <- MCTargets
CHECK_DEADLOCK FALSE
INVARIANTS
  TypeOK
  VolumesLeadToCursor
  ShortNamesFit
PROPERTIES
  PackingEnds
