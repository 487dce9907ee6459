CONSTANTS
  LastSeq = 5
  SeqMax = 7
  MsgCount <- MCMsgCount
  Copies = 2
  SnapshotSeqs = {1, 3}
  Replayer = {TRUE, FALSE}
  FaultyReplay = TRUE
SPECIFICATION Spec
CHECK_DEADLOCK FALSE
INVARIANTS
  TypeOK
  NothingForgotten
  NoLostWakeup
  ReplaysDisjoint
PROPERTIES
  StreamSpec
