CONSTANTS
  web = web
  db = db
  pool = pool
  v1 = v1
  v2 = v2
  w1 = w1
  w2 = w2
  None = None
  Registry <- OneTag
  Kind <- OneTagKind
  Dir <- OneTagDir
  Versions = {v1, v2}
  Workers = {w1}
  Window = 2
  Budget <- Bounds
  Attempts = 2
  Crashes = 1
  Publishes = 0
  Triggers = 1
  Dismissals = 0
SPECIFICATION FirstSpec
PROPERTIES
  RestartsAreClosed
  TriggersAreServed
  ChecksConverge
  LocksAreReleased
