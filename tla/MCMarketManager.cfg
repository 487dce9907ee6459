CONSTANTS
  Replays = {r1}
SPECIFICATION FairManagerSpec
CHECK_DEADLOCK FALSE
INVARIANTS
  StopComplete
PROPERTIES
  StopEnds
