SPECIFICATION Spec
CONSTANTS
  Configs <- AllTargets
  Names = {"ok", "fail", "bad"}
  MaxBoots = 3
  MaxEvents = 2
  MaxLog = 2
INVARIANTS
  PassIsEarned
  FailureOutputNeverPasses
  AcceptedExitIsAuthoritative
  PreResetBytesStayBehind
PROPERTIES
  ImplementsTestRun
