SPECIFICATION Spec
CONSTANTS
  Event = {e1, e2, e3}
  Slug = {s1}
  Message <- PeerTraffic
  Pass = {p1, p2}
  Verb = {}
  None = None
  MaxLag = 0   \* of Tick only; here time runs freely
  Leads = {0, 1}
  MaxTime = 1
  Burst = 2
  BurstCap = 2
  Overlap = 1
  SeenCap = 2
  MaxEvents = {0, 1, 2}
  Rebuild = {FALSE}
  MaxGeneration = 2
  MaxAbandon = 0
SYMMETRY NamesAreInterchangeable
INVARIANTS
  TypeOK
  NothingSkipped
  OpenSetIsReplay
