SPECIFICATION Spec
CONSTANTS
  Event = {e1, e2}
  Wake = {w1, w2}
  None = None
  MaxLag = 1
  Leads = {0}
  MaxTime = 2
  Burst = 3
  BurstCap = 2
  Skew = 1
  Lookback = 2
  SeenCap = 2
  TokenCap = 2
  MaxRevision = 2
  MaxCrash = 1
  RecheckMayFail = TRUE
SYMMETRY NamesAreInterchangeable
INVARIANTS
  TypeOK
  CursorParses
  CommittedOnce
  NoEventLost
  RedeliveredOnlyIfForgotten
PROPERTIES
  CoverageAdvances
  LedgerSpec
