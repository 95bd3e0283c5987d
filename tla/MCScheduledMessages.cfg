SPECIFICATION Spec
CONSTANTS
  i1 = i1
  i2 = i2
  w1 = w1
  Rows = {r1, r2}
  Reminders = {m1}
  Instances = {i1, i2}
  Runs = {w1, w2}
  HostOf <- MCHostOf
  Limit = 1
  Redis = TRUE
  MaxFaults = 2
  Nothing = Nothing
INVARIANTS
  TypeOK
  OneOwner
  AtMostOnce
  NoticeMatchesRow
CHECK_DEADLOCK FALSE
PROPERTIES
  KeepsPromise
  DueIsSettled

