SPECIFICATION Spec
CONSTANTS
  NFrames = 1
  U32 = 2
  Data = {d1}
  Junk = junk
  Writers = {"A", "B"}
  MaxResets = 1
  ResetRaces = FALSE
  NotifiedRaces = TRUE
INVARIANT AckMeansCleared
