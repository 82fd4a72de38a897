CONSTANTS
  node = node
  index = index
  web = web
  c1 = c1
  c2 = c2
  c3 = c3
  Unseen = Unseen
  Order <- Pair
  Conts <- PairConts
  Deps <- PairDeps
  Stack <- PairStack
  ReadOnly = {}
  Threshold = 2
  Window = 2
  MaxRetries = 2
  Modes = {"flag_only"}
  Budget <- Bounds
  Restarting = 2
  Changes = 1
  Outages = 1
  Failures = 1
  Dismissals = 1
  Clicks = 0
  Crashes = 1
SPECIFICATION Spec
INVARIANTS
  AlertInv
  RestartsAreReal
  SicknessIsShown
  LoopIsShown
  LastIsCalm
