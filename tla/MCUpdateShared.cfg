CONSTANTS
  web = web
  db = db
  pool = pool
  v1 = v1
  v2 = v2
  w1 = w1
  w2 = w2
  None = None
  Registry <- Shared
  Kind <- SharedKind
  Dir <- SharedDir
  Versions = {v1, v2}
  Workers = {w1, w2}
  Window = 2
  Budget <- Bounds
  Attempts = 2
  Crashes = 1
  Publishes = 1
  Triggers = 0
  Dismissals = 0
SPECIFICATION SettledSpec
SYMMETRY Symmetry
INVARIANTS
  MutualExclusion
PROPERTIES
  LogIsALifecycle
