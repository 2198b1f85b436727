SPECIFICATION FairSpec
CONSTANTS
  Callers = {t1, t2}
  ACallers = {a1, a2}
  NCh = 1
  MaxTimeouts = 1
  MaxSuspends = 0
  None = None
INVARIANT OwnAnswer
PROPERTY CallReturns
