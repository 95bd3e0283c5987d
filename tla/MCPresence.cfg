SPECIFICATION BoundedSpec
CONSTANTS
  Instances = {"i1"}
  Sockets = {"tab1"}
  t1 = t1
  t2 = t2
  Tasks <- TwoTasks
  Choices = {"busy"}
  MaxRequests = 1
  MaxMishaps = 1
INVARIANTS
  TypeOK
  PresenceIsTheirs
PROPERTIES
  NobodyLeftOnline
