SPECIFICATION SharedSpec
CONSTANTS
  NStages = 2
  Invocation = {e1, e2}
  Attempt = {a1, a2, a3}
  Lease = 1
  Limit = 1
  None = None
INVARIANTS
  TypeOK
  OneModelCall
  OneOutput
PROPERTIES
  LockSpec
  AloneClaimsEnd
