\* Two engines, two days, windows of two rows and one snapshot.
SPECIFICATION HistorySpec
CONSTANTS
  Engines = {daemon, oneshot}
  Days = 2
  MaxRuns = 3
  Retention = 0
  KeepRuns = 2
  ScanLimit = 2
  MaxAge = 0
  Keep = 1
  Kills = 1
  Deletions = 1
  HasForeign = TRUE
INVARIANTS
  HistoryTypeOK
  HealthIsEarned
  RunningPassHasItsRow
  
  
PROPERTIES
  PruningKeepsTheVerdict
  PruningKeepsTheNewest
SYMMETRY EitherEngine
CHECK_DEADLOCK FALSE
