CONSTANTS
  Workers = {w1, w2}
  Settings = {s1, s2}
  Unknown = Unknown
  Values = {v1, v2}
  Preset = Preset
  Levels = {10, 60}
  Factory = 60
  Absent = Absent
  Events = 3
  Exporters = {e1, e2}
  MaxBackups = 2
  Exports = 4
  Seconds = 4
  Pages = {page}
  Ticker = Ticker
  NoEntry = NoEntry
  Listing <- OneContainer
  MaxRows = 2
  PruneEvery = 4
  Keep = 1
  Traffic = 2
  Faults = 2
  Ticks = 4
SPECIFICATION HandlersSpec
SYMMETRY Alike
INVARIANTS
  AdministrationInv
  TuningSurvives
  BackupsInv
  
CHECK_DEADLOCK FALSE
