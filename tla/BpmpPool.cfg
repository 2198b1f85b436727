SPECIFICATION Spec
CONSTANTS
  Callers = {t1, t2}
  ACallers = {}
  NCh = 2
  MaxTimeouts = 1
  MaxSuspends = 1
  None = None
INVARIANTS TypeOK PoolOK OneCallerPerChannel PoolShrinksOnlyByTimeouts OwnAnswer CompletedOnce AnswerPresent
