SPECIFICATION Spec
CONSTANTS
  i1 = i1
  i2 = i2
  w1 = w1
  Broadcasts = {b1}
  Users = {u1, u2}
  Instances = {i1, i2}
  Runs = {w1}
  HostOf <- MCHostOf
  Redis = TRUE
  MaxFaults = 1
  Nothing = Nothing
INVARIANTS
  TypeOK
  DuplicateNeedsRace
  BooksTellTheTruth
PROPERTIES
  DueIsDispatched
CHECK_DEADLOCK FALSE
