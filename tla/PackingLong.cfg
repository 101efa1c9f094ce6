SPECIFICATION Spec
CONSTANTS
  Lengths = {3900}
  Manifests <- MCFew
  Targets <- MCTargets
CHECK_DEADLOCK FALSE
INVARIANTS
  NeverAboveTarget
