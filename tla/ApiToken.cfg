\* One permit for two calls, and a request of the manager.
SPECIFICATION TokenFairSpec
CONSTANTS
    Calls = {k1, k2}
    Limit = 1
    Every = 3
    Others = {m}
    MaxExpires = 2
INVARIANTS WindowBound RefreshTokenIsCurrent LoneCallIsAnswered
PROPERTY PermitsComeBack
CHECK_DEADLOCK FALSE
