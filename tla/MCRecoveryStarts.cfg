CONSTANTS
  Replays = {}
SPECIFICATION FairManagerSpec
CHECK_DEADLOCK FALSE

PROPERTIES
  RecoveryStarts
