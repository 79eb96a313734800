\* A few minutes of a car, with a cache that lives longer than a trip may be restarted.
SPECIFICATION MergedSpec
CONSTANTS
    Tolerance = 1
    JoinGap = 1
    EndDelay = 3
    Ttl = 2
    None = None
    MadeUp = {2}
    MaxTime = 4
    MaxKm = 2
    MaxIgnitions = 3
    MaxRecorded = 2
INVARIANTS ToldOnce KilometresAreKept ToldTripsStay
CHECK_DEADLOCK FALSE
