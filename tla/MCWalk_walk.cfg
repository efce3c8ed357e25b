\* A walk while votes are cast and one is withdrawn; rows of every kind.
SPECIFICATION WalkSpec
CONSTANTS
  NVotes = 5
  Times = 2
  Kinds = {"like", "other", "drift", "blank"}
  PageSize = 2
  MaxPages = 3
  Casts = 3
  Withdrawals = 1
INVARIANTS
  WalkTypeOK
  
  InOrder
CHECK_DEADLOCK FALSE
