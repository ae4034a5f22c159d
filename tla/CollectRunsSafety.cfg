SPECIFICATION FairSpec
CONSTANTS
  Thread = {t1, t2}
  Editor = {c1}
  Interval = 1
  Ttl = 1
  MaxItems = 1
  MaxDefs = 3
  MaxMoves = 2
  None = None
INVARIANTS
  TypeOK
  PickHolds
PROPERTIES
  RowNeverGoesBack
  Collected
  DeadIsReplaced
