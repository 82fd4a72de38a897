CONSTANTS
  node = node
  index = index
  web = web
  c1 = c1
  c2 = c2
  c3 = c3
  Unseen = Unseen
  Order <- Two
  Conts <- TwoConts
  Deps <- TwoDeps
  Stack <- TwoStack
  ReadOnly = {node}
  Threshold = 1
  Window = 1
  MaxRetries = 1
  Modes = {"flag_and_stop"}
  Budget <- Bounds
  Restarting = 1
  Changes = 2
  Outages = 0
  Failures = 1
  Dismissals = 0
  Clicks = 1
  Crashes = 0
SPECIFICATION LiveSpec
PROPERTIES
  UpstreamIsShown
  DisabledIsQuiet
  StopsEnd
  LoopEnds
