CONSTANTS
  web = web
  db = db
  pool = pool
  v1 = v1
  v2 = v2
  w1 = w1
  w2 = w2
  None = None
  Registry <- OneTag
  Kind <- OneTagKind
  Dir <- OneTagDir
  Versions = {v1, v2}
  Workers = {w1, w2}
  Window = 2
  Budget <- Bounds
  Attempts = 3
  Crashes = 1
  Publishes = 1
  Triggers = 0
  Dismissals = 1
SPECIFICATION Spec
SYMMETRY Symmetry
INVARIANTS
  UpdateInv
  OffersAreReal
  AttemptsNameVersions
  SuccessClearsAlert
PROPERTIES
  DoneTellsTheTruth
