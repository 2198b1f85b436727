SPECIFICATION Spec
CONSTANTS
  NFrames = 2
  U32 = 4
  Data = {d1, d2}
  Junk = junk
  Writers = {"A"}
  MaxResets = 1
  ResetRaces = FALSE
  NotifiedRaces = FALSE
INVARIANTS TypeOK NoTornFrame QueueOK CountersNotInUse NoLostDoorbell
PROPERTY FifoSpec
SYMMETRY DataSymmetry
