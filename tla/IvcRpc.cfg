SPECIFICATION FairSpec
CONSTANTS
  MaxCalls = 3
  NFrames = 1
  Modes = {"sync", "async"}
  None = None
INVARIANTS TypeOK FreedUnderLateUser NoLeak CallbackOnce
PROPERTY CallEnds
CHECK_DEADLOCK FALSE
