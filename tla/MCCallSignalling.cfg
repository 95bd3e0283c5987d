SPECIFICATION SignalsAlone
CONSTANTS
  Users = {u1, u2}
  Calls = {c1, c2}
  GroupCalls = {c2}
  MaxFaults = 1
  Nothing = Nothing
SYMMETRY Alike
INVARIANTS
  OverlayTellsTheTruth
CHECK_DEADLOCK FALSE
