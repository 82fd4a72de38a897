CONSTANTS
  bitcoind = bitcoind
  mempool = mempool
  db = db
  cb = cb
  cm = cm
  cd = cd
  old = old
  new = new
  w1 = w1
  w2 = w2
  Services = {bitcoind, mempool, db}
  Deps <- MCDeps
  Project <- MCProject
  Containers <- MCContainers
  ReadOnly = {db}
  Needs = {mempool}
  Configurable = {bitcoind}
  Texts = {old, new}
  Torn = Torn
  Workers = {w1, w2}
  Events = 3
SPECIFICATION Spec
SYMMETRY Alike
INVARIANTS
  ControlInv
  OrderKept
  DisabledIsDown
  UnfitStaysDown
  
  PreflightHolds
CHECK_DEADLOCK FALSE
