SPECIFICATION Spec
CONSTANTS
  Event = {e1, e2, e3}
  Slug = {s1}
  Message <- Traffic
  Pass = {p1}
  Verb = {v1}
  None = None
  MaxLag = 0   \* of Tick only; here time runs freely
  Leads = {0}
  MaxTime = 2
  Burst = 2
  BurstCap = 2
  Overlap = 1
  SeenCap = 2
  MaxEvents = {1, 3}
  Rebuild = {FALSE, TRUE}
  MaxGeneration = 3
  MaxAbandon = 1
SYMMETRY NamesAreInterchangeable
INVARIANTS
  RowsHaveReasons
  NothingSkipped
  OpenSetIsReplay
