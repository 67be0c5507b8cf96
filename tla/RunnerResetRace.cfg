SPECIFICATION Spec
CONSTANTS
  Configs <- ChattyTargets
  Names = {"ok"}
  MaxBoots = 2
  MaxEvents = 2
  MaxLog = 9
INVARIANTS
  PreResetBytesStayBehind
