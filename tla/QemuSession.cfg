SPECIFICATION Spec
CONSTANTS
  Text = {"boot", "ready"}
  MaxOutput = 2
  MaxBuffer = 1
  MaxCommands = 3
INVARIANTS
  SuccessIsReal
  EventsInOrder
  SerialIsKept
PROPERTIES
  MediaIsStable
  CallsReturn
