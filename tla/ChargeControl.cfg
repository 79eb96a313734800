\* The refresh and the timer run a control whose stop hour the web server sets; one failure.
SPECIFICATION FairSpec
CONSTANTS
    NoStop = NoStop
    NoStatus = NoStatus
    Processors = {p1, p2}
    Setters = {s1}
    Hours = {1}
    FirstStop = 1
    Day = 2
    UnseenRestart = FALSE
    MaxLost = 1
    MaxRetry = 6
    MaxTime = 2
INVARIANTS NextStopIsBounded OrdersAreBounded
PROPERTY ThresholdStops
CHECK_DEADLOCK FALSE
