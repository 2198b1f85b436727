SPECIFICATION Spec
CONSTANTS
  U32 = 8
  Sleepers = {s1}
  Jobs1 = {j1, j2}
  Jobs2 = {}
  Fast = {}
  Slow = {n1}
  Start = 7
  None = None
INVARIANTS TypeOK RefsHeld HandlerFindsRemoved InterruptArmed NothingEarly
  NoStrandedWork PowerOffSafe UsesEnded
PROPERTY MinNeverBack
CHECK_DEADLOCK FALSE
