SPECIFICATION Spec
CONSTANTS
  Event = {e1, e2}
  Reader = {own, other}
  Foreign = {other}
  Mode = {"text", "json"}
  None = None
  MaxLag = 1
  Leads = {0}
  MaxTime = 2
  Burst = 3
  BurstCap = 2
  Skew = 1
  Lookback = 1
  SeenCap = 2
  MaxReads = 3
  MaxCrash = 1
  MaxInterrupt = 1
SYMMETRY NamesAreInterchangeable
INVARIANTS
  TypeOK
  CoveredWasReceived
  TakeoverIsAudited
  PrintThenAdvance
