CONSTANTS
  c1 = c1
  c2 = c2
  page = page
  Pages = {page}
  Ticker = Ticker
  Listing <- TwoContainers
  NoEntry = NoEntry
  MaxRows = 2
  PruneEvery = 4
  Keep = 2
  Traffic = 1
  Faults = 0
  Ticks = 4
SPECIFICATION MonitoringSpec
INVARIANTS
  EveryContainerIsSampled
CHECK_DEADLOCK FALSE
