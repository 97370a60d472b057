SPECIFICATION DeskSpec
CONSTANTS
  ResearchRun = {r1}
  Retry = {r1}
  Later = later
  Cron = {c1, c2}
  Life = 1
  AcquireStale = 2
  ClaimStale = 2
  RetryStale = 3
  Abandoned = 3
  MaxCalls = 3
  GapActor = {g1, g2}
  Signature = {"A"}
  Depth = 2
  MaxDossiers = 2
  RecoveryCap = 2
  MaxAttempts = 2
  Scan = {x1, x2}
  Lookback = 1
  Overlap = 1
  Recovery = 2
  PageLimit = 1
  PageSize = 2
  LastTick = 6
  MaxScans = 2
  Viewer = {w1, w2}
  Interval = 2
  Patience = 1
  Ahead = 1
  LastMinute = 6
  Pass = {p1, p2}
  Component = {k1, k2}
  Readings = 2
CHECK_DEADLOCK FALSE
INVARIANTS
  CycleTypeOK OneAcquisition OneEngine CompletedIsPublished
  GapTypeOK VerdictOfItsPlan AdvancedInOrder
  WireTypeOK CursorIsBacked WalkIsStored
  HormuzTypeOK OneRefresh
  MacroTypeOK
PROPERTIES
  SupersededIsFinal CompletedIsKept RunEnds
  LiveClaimIsKept GapClaimsEnd
  LateScanIsFenced ObservationAdvances
  ActualIsFinal
