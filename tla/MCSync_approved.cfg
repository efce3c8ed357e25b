\* Forgetting a track that came through the review queue.
SPECIFICATION Spec
CONSTANTS
  l1 = l1
  l2 = l2
  l3 = l3
  t1 = t1
  t2 = t2
  daemon = daemon
  oneshot = oneshot
  preview = preview
  None = None
  Likes = {l1, l2}
  Mixes = {}
  Tracks = {t1, t2}
  Finds <- Mixed
  Engines = {daemon}
  DryEngines = {}
  Daemon = daemon
  SameSecond = FALSE
  OneAtATime = TRUE
  Votes = 2
  Edits = 0
  Resyncs = 1
  Reviews = 1
  Syncs = 0
  Faults = 0
  Kills = 0
  Budget <- MCBudget
INVARIANTS
  ForgottenIsReadded
CHECK_DEADLOCK FALSE
