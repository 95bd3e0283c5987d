SPECIFICATION BoundedSpec
CONSTANTS
  Users = {ana, bob}
  Directs = {d1, d2}
  Channel = "channel"
  Asks = {"k1", "k2"}
  Granted = {"admin"}
  Slots = {"q1", "q2"}
  MaxRequests = 4
  MaxMishaps = 1
  None = None
SYMMETRY symmetry
INVARIANTS
  TypeOK
  RegistersAgree
PROPERTIES
  PostsWereAllowed
CHECK_DEADLOCK FALSE
