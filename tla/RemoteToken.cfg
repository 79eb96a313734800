\* Two commands refresh the token beside the timer.
SPECIFICATION FairSpec
CONSTANTS
    Callers = {c1, c2}
    Timers = {t1}
    NoCaller = NoCaller
    NoText = NoText
    MaxToken = 2
    MaxSettings = 1
    MaxFailed = 1
    MaxCrashes = 1
INVARIANTS TokenIsCurrent OnlyARefreshIsLost
PROPERTY TokenIsSaved
CHECK_DEADLOCK FALSE
