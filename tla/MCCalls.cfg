SPECIFICATION Spec
CONSTANTS
  Users = {u1, u2}
  Calls = {c1}
  GroupCalls = {}
  MaxFaults = 1
  Nothing = Nothing
INVARIANTS
  TypeOK
  SecondEventNeedsRace
PROPERTIES
  RingingEnds
  ClosedCallIsRecorded
CHECK_DEADLOCK FALSE
