CONSTANTS
  agent = agent
  web = web
  v1 = v1
  v2 = v2
  v3 = v3
  w1 = w1
  w2 = w2
  None = None
  Order <- TwoImages
  Versions = {v1, v2, v3}
  Workers = {w1, w2}
  PruneWindow = 2
  Budget <- Bounds
  Attempts = 2
  Crashes = 1
  Publishes = 1
  Strands = 1
SPECIFICATION FirstSpec
INVARIANTS
  SelfUpdateInv
  CoherentOrCutOff
PROPERTIES
  PruneSpares
  DoneRunsIt
  RestartIsClosed
  StackComesBack
CHECK_DEADLOCK FALSE
