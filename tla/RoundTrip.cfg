SPECIFICATION RestoreSpec
CONSTANTS
  MaxStops = 2
  Manifests <- MCManifests
  Targets <- MCTargets
CHECK_DEADLOCK FALSE
INVARIANTS
  RoundTrip
  NeverRefusesAll
  WholePrefix
