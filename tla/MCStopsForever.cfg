CONSTANTS
  node = node
  index = index
  web = web
  c1 = c1
  c2 = c2
  c3 = c3
  Unseen = Unseen
  Order <- Fork
  Conts <- ForkConts
  Deps <- ForkDeps
  Stack <- ForkStack
  ReadOnly = {}
  Threshold = 2
  Window = 2
  MaxRetries = 2
  Modes = {"flag_and_stop"}
  Budget <- Bounds
  Restarting = 0
  Changes = 1
  Outages = 0
  Failures = 0
  Dismissals = 0
  Clicks = 0
  Crashes = 0
SPECIFICATION LiveSpec
PROPERTIES
  StopsEnd
