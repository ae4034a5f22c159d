CONSTANTS
    Lists = {"a", "b"}
    Selections <- MCSelections
    Recurrence = {FALSE, TRUE}
    MaxVersions = 4
    MaxMoves = 4
SPECIFICATION FairSpec
INVARIANTS TypeOK CompletionJustified OncePerGeneration ConsentHeld
PROPERTIES ResolutionNotLost Converges
