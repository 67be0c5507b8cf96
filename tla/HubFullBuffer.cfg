SPECIFICATION Spec
CONSTANTS
  Port <- ThreePorts
  Budget <- TwoSenders
  Leavers <- Nobody
  Room = 1
INVARIANTS
  FramesIntact
