SPECIFICATION Spec
CONSTANTS
  Port <- ThreePorts
  Budget <- OneSender
  Leavers <- Listener
  Room = 1
INVARIANTS
  InOrderOnce
  CaptureIsComplete
PROPERTIES
  EveryFrameArrives
  CloseEndsThreads
