SPECIFICATION Spec
CONSTANTS
  Participants <- MCParticipants
  Networks = {"lan", "wan"}
  NicsOf <- MCNicsOf
  MaxStarts = 2
INVARIANTS
  RunningIsOwned
  NetworkOutlivesVm
  AllOrNothing
