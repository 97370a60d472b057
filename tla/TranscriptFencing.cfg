SPECIFICATION FairSpec
CONSTANTS
  Item = {v1}
  Worker = {w1, w2}
  Engine = {g1}
  Archived = {v1}
  Tranche = 1
  MaxAttempts = 3
  Limit = 4
CHECK_DEADLOCK FALSE
INVARIANTS
  TypeOK
  CompletedIsBacked
  EvidenceIsTheReview
  AnalysisPaidOnce
PROPERTIES
  PipelineSpec
  VideosSettle
