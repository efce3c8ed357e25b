\* A vote is withdrawn while its page has been read and the next has not.
SPECIFICATION WalkSpec
CONSTANTS
  NVotes = 3
  Times = 3
  Kinds = {"like"}
  PageSize = 1
  MaxPages = 4
  Casts = 0
  Withdrawals = 1
INVARIANTS
  NothingSkipped
CHECK_DEADLOCK FALSE
