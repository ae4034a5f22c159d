SPECIFICATION Spec
CONSTANTS
  Event = {e1, e2, e3}
  Wake = {w1}
  None = None
  MaxLag = 1
  Leads = {0, 1}
  MaxTime = 4
  Burst = 3
  BurstCap = 2
  Skew = 1
  Lookback = 2
  SeenCap = 2
  TokenCap = 1
  MaxRevision = 3
  MaxCrash = 0
  RecheckMayFail = FALSE
SYMMETRY NamesAreInterchangeable
INVARIANTS
  NoEventLost
  HandledOnce
