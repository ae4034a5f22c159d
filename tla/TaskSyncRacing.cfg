CONSTANTS
    Lists = {"a", "b"}
    Selections <- MCOneSelection
    Recurrence = {FALSE}
    MaxVersions = 5
    MaxMoves = 2
SPECIFICATION FairSpec
PROPERTY RacingVersionsProcessed
