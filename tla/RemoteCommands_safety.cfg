\* Every answer the code provides for: without its id, and more than once.
SPECIFICATION Spec
CONSTANTS
    Commands = {c1, c2}
    MaxSize = 1
    Duplicates = TRUE
    IdLess = TRUE
    NoCommand = NoCommand
    NoResult = NoResult
SYMMETRY Symmetry
INVARIANTS AtMostOneResend ResendNeedsExpiry BoundedByResends
CHECK_DEADLOCK FALSE
