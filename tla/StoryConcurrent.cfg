SPECIFICATION Spec
CONSTANTS
  r1 = r1  r2 = r2  e1 = e1  e2 = e2  s1 = s1  s2 = s2  x1 = x1  x2 = x2
  None = None
  Run = {r1}
  Invocation = {e1, e2}
  Story = {s1}
  Row = {1, 2}
  StoryOf <- TwinStoryOf
  EvidenceOf <- TwinEvidenceOf
  CreatorOnly = {}
  Supersedable = {2}
  MaxTargets = 4
  MaxOpens <- Openings
  MaxClock = 2
  SerialRuns = FALSE
SYMMETRY InvocationSymmetry
INVARIANTS
  CancelledIsCovered
CHECK_DEADLOCK FALSE
