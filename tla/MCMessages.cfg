SPECIFICATION PartsSpec
CONSTANTS
  Users = {"ana", "mod"}
  Moderators = {"mod"}
  Messages = {"m1"}
  Bodies = {b1, b2}
  Emojis = {e1, e2}
  Slots = {"s1", "s2"}
  MaxRequests = 4
  Nothing = Nothing
  Owners = {ana, bob}
  Places = {"group"}
  Posts = {p1, p2}
  Attachments = {"a1"}
  Stickers = {"s1", "s2"}
  Pictures = {"p1", "p2"}
  MaxMishaps = 1
SYMMETRY symmetry
INVARIANTS
  TypeOK
  TablesAgree
  ClientsAreUpToDate
  FilesTypeOK
  FilesMatchReferences
PROPERTIES
  LossesAreNamed
CHECK_DEADLOCK FALSE
