SPECIFICATION Spec
CONSTANTS
  U32 = 16
  PushBufferSize = 4
  Slots <- MCSlots
  ClientId <- MCClientId
  Updaters = {u1}
  Aborts = FALSE
  Start = 14
  None = None
INVARIANT HeadTimed
CHECK_DEADLOCK FALSE
