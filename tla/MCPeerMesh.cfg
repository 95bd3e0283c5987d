SPECIFICATION Spec
CONSTANTS
  Users = {ana, bob}
  Polite = ana
  MaxCalls = 2
  MaxTurns = 3
  None = None
INVARIANTS
  TypeOK
PROPERTIES
  MediaArrives
CHECK_DEADLOCK FALSE
