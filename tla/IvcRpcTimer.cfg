SPECIFICATION Spec
CONSTANTS
  MaxCalls = 1
  NFrames = 1
  Modes = {"async"}
  None = None
INVARIANT NoUseAfterFree
CHECK_DEADLOCK FALSE
