SPECIFICATION FairSpec
CONSTANTS
  NFrames = 1
  U32 = 2
  Data = {d1}
  Junk = junk
  Writers = {"A"}
  MaxResets = 2
  ResetRaces = FALSE
  NotifiedRaces = FALSE
INVARIANTS AckMeansCleared NoLostDoorbell
PROPERTIES HandshakeEnds WriterWakes FrameIsRead
