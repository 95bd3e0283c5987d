SPECIFICATION Spec
CONSTANTS
  Users = {ana, bob}
  Codes = {c1, c2}
  Sessions = {"k1", "k2"}
  Slots = {"q1"}
  MaxFailures = 2
  MaxRequests = 2
  MaxMishaps = 0
  None = None
SYMMETRY symmetry
PROPERTIES
  LastSuperAdminStays
CHECK_DEADLOCK FALSE
