SPECIFICATION Spec
CONSTANTS
  Callers = {t1}
  ACallers = {}
  NCh = 1
  MaxTimeouts = 1
  MaxSuspends = 0
  None = None
INVARIANT NoFailedAdvance
