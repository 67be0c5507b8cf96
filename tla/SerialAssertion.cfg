SPECIFICATION Spec
CONSTANTS
  Byte <- MCByte
  Chunks <- MCChunks
  Phases <- MCPhases
  Forbidden <- MCForbidden
  MaxStream = 10
INVARIANTS
  PassMeansPlanMet
  ProgressIsMaximal
  ForbiddenExactly
  RetainedIsBounded
PROPERTIES
  VerdictIsFinal
