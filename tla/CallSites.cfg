SPECIFICATION Spec
CONSTANTS
  Apps <- MCApps
  Depths <- MCDepths
  RunBound = 12
INVARIANT
  CallSitesExact
  FieldSitesExact
  ArgsSound
  DepthMonotone
CHECK_DEADLOCK FALSE
