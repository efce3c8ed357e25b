\* Resync while a pass runs.
SPECIFICATION FairSpec
CONSTANTS
  l1 = l1
  l2 = l2
  l3 = l3
  t1 = t1
  t2 = t2
  daemon = daemon
  oneshot = oneshot
  preview = preview
  None = None
  Likes = {l1, l2}
  Mixes = {}
  Tracks = {t1, t2}
  Finds <- Twins
  Engines = {daemon}
  DryEngines = {}
  Daemon = daemon
  SameSecond = FALSE
  OneAtATime = FALSE
  Votes = 2
  Edits = 0
  Resyncs = 1
  Reviews = 0
  Syncs = 0
  Faults = 0
  Kills = 0
  Budget <- MCBudget
PROPERTIES
  ResetStands
CHECK_DEADLOCK FALSE
