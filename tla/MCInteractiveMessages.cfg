SPECIFICATION Spec
CONSTANTS
  Users = {ana, bob}
  Options = {yes, no}
  Played = {0, 1, 2, 3, 4, 6, 8}
  Word = {"a", "b"}
  OtherLetters = {"l1", "l2", "l3", "l4", "l5", "l6"}
  Slots = {"q1", "q2"}
  MaxRequests = 5
  MaxMishaps = 1
  None = None
SYMMETRY symmetry
INVARIANTS
  TypeOK
  PollAgrees
PROPERTIES
  OverIsOver
CHECK_DEADLOCK FALSE
