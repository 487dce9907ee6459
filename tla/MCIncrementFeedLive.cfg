CONSTANTS
  LastSeq = 5
  SeqMax = 7
  MsgCount <- MCMsgCount
  Copies = 1
  SnapshotSeqs = {1, 3}
  Replayer = {TRUE}
  FaultyReplay = FALSE
SPECIFICATION FairSpec
CHECK_DEADLOCK FALSE
PROPERTIES
  GapsClose
