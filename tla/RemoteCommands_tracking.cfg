\* Every answer carries its id and comes once.
SPECIFICATION FairSpec
CONSTANTS
    Commands = {c1, c2}
    MaxSize = 4
    Duplicates = FALSE
    IdLess = FALSE
    NoCommand = NoCommand
    NoResult = NoResult
INVARIANTS PendingIsAwaited UnresentSuccessIsAccepted
PROPERTIES ImplementsTracking EveryCommandSettles
CHECK_DEADLOCK FALSE
