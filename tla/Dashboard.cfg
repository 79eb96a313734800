SPECIFICATION ViewFairSpec
CONSTANTS
    Charges = {a, b, c}
    Invalid = {b}
    Little = {c}
    Columns = 2
    NoTable = NoTable
    MaxCrashes = 1
    Writers = {w1}
    Visitors = {v1}
    View = view
    NoThread = NoThread
    NoLayout = NoLayout
INVARIANTS NoChargeIsLost PageIsCurrent
PROPERTIES StartsUp DataGetsReady
CHECK_DEADLOCK FALSE
