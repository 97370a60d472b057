SPECIFICATION Spec
CONSTANTS
  r1 = r1  r2 = r2  e1 = e1  e2 = e2  s1 = s1  s2 = s2  x1 = x1  x2 = x2
  None = None
  Run = {r1, r2}
  Invocation = {e1, e2}
  Story = {s1}
  Row = {1, 2}
  StoryOf <- TwinStoryOf
  EvidenceOf <- TwinEvidenceOf
  CreatorOnly = {}
  Supersedable = {}
  MaxTargets = 4
  MaxOpens <- Openings
  MaxClock = 0
  SerialRuns = TRUE
SYMMETRY InvocationSymmetry
INVARIANTS
  TypeOK
  ServedOnce
  CancelledIsCovered
  AssessedAsFrozen
CHECK_DEADLOCK FALSE
