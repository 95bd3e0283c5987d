SPECIFICATION BoundedSpec
CONSTANTS
  Users = {ana, bob}
  Codes = {c1, c2}
  Sessions = {"k1", "k2"}
  Slots = {"q1", "q2"}
  MaxFailures = 2
  MaxRequests = 3
  MaxMishaps = 1
  None = None
SYMMETRY symmetry
INVARIANTS
  TypeOK
  AccountsAreKept
PROPERTIES
  LoginsWereAllowed
CHECK_DEADLOCK FALSE
