SPECIFICATION FairSpec
CONSTANTS
  U32 = 16
  PushBufferSize = 4
  Slots <- MCSlots
  ClientId <- MCClientId
  Updaters = {u1}
  Aborts = TRUE
  Start = 14
  None = None
INVARIANTS  CommandsIntact TimeoutJobQueued TimerKept StopFindsEmpty
PROPERTY Drains
CHECK_DEADLOCK FALSE
