SPECIFICATION Spec
CONSTANTS
  Item = {v1}
  Worker = {w1}
  Engine = {g1}
  Archived = {v1}
  Tranche = 1
  MaxAttempts = 2
  Limit = 2
INVARIANTS
  CompletedIsRouted
