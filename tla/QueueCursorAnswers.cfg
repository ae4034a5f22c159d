SPECIFICATION FairSpec
CONSTANTS
  Event = {e1, e2}
  Wake = {w1, w2}
  None = None
  MaxLag = 1
  Leads = {0}
  MaxTime = 0
  Burst = 3
  BurstCap = 2
  Skew = 1
  Lookback = 2
  SeenCap = 2
  TokenCap = 1
  MaxRevision = 2
  MaxCrash = 1
  RecheckMayFail = FALSE
INVARIANTS
  AnswersAreTrue
PROPERTIES
  StagedIsCommitted
