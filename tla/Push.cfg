\* Two requests for one car.
SPECIFICATION Spec
CONSTANTS
    Requests = {r1, r2}
    Cars = {c1}
    Groups <- MCGroups
    None = None
    Broken = Broken
    MaxFresh = 5
    MaxTroubles = 2
INVARIANTS NothingIsForgotten PushIsWhole FileIsCurrent
SYMMETRY Symmetry
CHECK_DEADLOCK FALSE
