\* The daemon, a one-shot sync or a dry run beside it, failures at every call.
SPECIFICATION Spec
CONSTANTS
  l1 = l1
  l2 = l2
  l3 = l3
  t1 = t1
  t2 = t2
  daemon = daemon
  oneshot = oneshot
  preview = preview
  None = None
  Likes = {l1, l2, l3}
  Mixes = {l3}
  Tracks = {t1, t2}
  Finds <- Twins
  Engines = {daemon, oneshot, preview}
  DryEngines = {preview}
  Daemon = daemon
  SameSecond = TRUE
  OneAtATime = FALSE
  Votes = 2
  Edits = 0
  Resyncs = 0
  Reviews = 0
  Syncs = 1
  Faults = 2
  Kills = 0
  Budget <- MCBudget
INVARIANTS
  TypeOK
  NoLikeLost
  DuplicateOnlyIfRaced
PROPERTIES
  DryRunWritesNothing
CHECK_DEADLOCK FALSE
