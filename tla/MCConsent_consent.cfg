\* The daemon, a one-shot process, `auth`, revocation, rotation, failures.
SPECIFICATION ConsentSpec
CONSTANTS
  Daemon = daemon
  Helpers = {helper}
  MaxTokens = 4
  Revokes = 2
  Starts = 1
  Faults = 2
  Kills = 1
  Uses <- MCUses
INVARIANTS
  ConsentTypeOK
  ConsentIsStored
PROPERTIES
  ClearsOnlyDead
  WaitEnds
  Recovers
CHECK_DEADLOCK FALSE
