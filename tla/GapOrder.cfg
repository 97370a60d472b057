SPECIFICATION GapSpec
CONSTANTS
  GapActor = {g1, g2}
  Signature = {"A"}
  Depth = 3
  MaxDossiers = 2
  RecoveryCap = 2
  MaxAttempts = 2
INVARIANTS
  AskedInOrder
CHECK_DEADLOCK FALSE
