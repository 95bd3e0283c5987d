SPECIFICATION ClientSpec
CONSTANTS
  Convs = {c1, c2}
  Temps = {k1}
  Requests = {f1, f2}
  PageSize = 2
  MaxPosts = 4
  MaxTurns = 4
  MaxEvents = 5
  Handlers = {h1, h2}
  MaxTexts = 2
  MaxMoves = 5
  MaxWrites = 2
  Lists = {l1}
  MaxMessages = 2
  MaxSteps = 3
  None = None
SYMMETRY Interchangeable
INVARIANTS
  TypesOK
  TimelineIsWhole
  SentOnce
  TextsAreKept
  ListIsTrue
CHECK_DEADLOCK FALSE
