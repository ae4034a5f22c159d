SPECIFICATION FairSpec
CONSTANTS
  letterboxd = letterboxd
  trakt = trakt
  f = f
  Importer = {letterboxd, trakt}
  Event = {1, 2, 3}
  Fingerprint = {f}
  Owner <- MCOwner
  Prints <- MCPrints
  Rewind <- MCRewind
  MaxMoves = 3
INVARIANTS
  TypeOK
  NoDuplicates
PROPERTIES
  LossesHaveReasons
