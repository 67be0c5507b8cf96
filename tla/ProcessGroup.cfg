SPECIFICATION GroupSpec
CONSTANTS
  Leader = leader
  Descendants = {d1, d2}
  Operations = {"stop", "hook", "wait", "terminate", "run"}
INVARIANTS
  EndIsClean
  KilledAfterGrace
PROPERTIES
  OperationEnds
