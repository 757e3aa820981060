SPECIFICATION Spec
CONSTANT Codes <- MCCodes
INVARIANT
  VerdictExact
  BodyKept
  PayloadReadsInBounds
  FlowExact
  CoveredKeepHandlers
CHECK_DEADLOCK FALSE
