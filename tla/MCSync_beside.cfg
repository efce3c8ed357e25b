\* The daemon with resync and review commands beside it.
SPECIFICATION Spec
CONSTANTS
  l1 = l1
  l2 = l2
  l3 = l3
  t1 = t1
  t2 = t2
  daemon = daemon
  oneshot = oneshot
  preview = preview
  None = None
  Likes = {l1, l2}
  Mixes = {}
  Tracks = {t1, t2}
  Finds <- Mixed
  Engines = {daemon}
  DryEngines = {}
  Daemon = daemon
  SameSecond = FALSE
  OneAtATime = FALSE
  Votes = 2
  Edits = 0
  Resyncs = 1
  Reviews = 2
  Syncs = 0
  Faults = 1
  Kills = 1
  Budget <- MCBudget
INVARIANTS
  NoLikeLost
  LedgerAfterWrite
  DuplicateOnlyIfRaced
  ApprovedIsRecorded
PROPERTIES
  DecisionsStand
  KeepsThePromise
CHECK_DEADLOCK FALSE
