\* One thread records, one edits, and others commit and roll back.
SPECIFICATION Spec
CONSTANTS
    Recorders = {r1}
    Editors = {e1}
    MaxDate = 3
INVARIANT ChargesDontOverlap
PROPERTY DetailsAreKept
CHECK_DEADLOCK FALSE
