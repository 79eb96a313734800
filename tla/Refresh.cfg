\* Two threads connect at once.
SPECIFICATION LoopFairSpec
CONSTANTS
    Callers = {web1, web2}
    Timers = {t1, t2, t3}
    NoTimer = NoTimer
    NumCars = 1
    MaxLoads = 2
INVARIANTS ChainAlive RefreshesAreBounded
PROPERTIES CarsAreRefreshed ControlsRun
CHECK_DEADLOCK FALSE
