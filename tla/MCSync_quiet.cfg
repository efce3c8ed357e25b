\* Resync between passes only, the daemon fair.
SPECIFICATION FairSpec
CONSTANTS
  l1 = l1
  l2 = l2
  l3 = l3
  t1 = t1
  t2 = t2
  daemon = daemon
  oneshot = oneshot
  preview = preview
  None = None
  Likes = {l1, l2}
  Mixes = {}
  Tracks = {t1, t2}
  Finds <- Mixed
  Engines = {daemon}
  DryEngines = {}
  Daemon = daemon
  SameSecond = FALSE
  OneAtATime = TRUE
  Votes = 3
  Edits = 1
  Resyncs = 2
  Reviews = 1
  Syncs = 0
  Faults = 1
  Kills = 0
  Budget <- MCBudget
INVARIANTS
  ForgottenIsReread
PROPERTIES
  EveryLikeSettles
CHECK_DEADLOCK FALSE
