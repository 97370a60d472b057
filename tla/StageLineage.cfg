SPECIFICATION Spec
CONSTANTS
  NStages = 2
  Invocation = {e1, e2}
  Attempt = {a1, a2, a3, a4}
  Lease = 3
  Limit = 2
  None = None
INVARIANTS
  RestsOnPersisted
