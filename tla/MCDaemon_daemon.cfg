\* Every way a pass may end, a shutdown or a dead listener at any moment.
SPECIFICATION Spec
CONSTANTS
  Intervals = {2, 8}
  MinInterval = 6
  Day = 20
  Word = 100
  RetryAfters <- MCHeaders
  MaxPass = 3
  MaxRequest = 1
  MaxExchange = 2
  WorkDrain = 2
  ServeDrain = 1
INVARIANTS
  DaemonTypeOK
  
  StoreOutlivesItsUsers
PROPERTIES
  NoPassTooSoon
  DaemonEnds
CHECK_DEADLOCK FALSE
