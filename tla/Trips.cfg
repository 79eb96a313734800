\* The positions of one car, whose trips are found after any of them.
SPECIFICATION Spec
CONSTANTS
    Legs <- MCLegs
    MaxPositions = 5
    BatteryPower = 10
    FuelCapacity = 40
    MaxElec = 70
    MaxFuel = 30
    Unknown = Unknown
INVARIANTS TripsInOrder NoStopInside KilometresHaveATrip
PROPERTY EndedTripsStay
CHECK_DEADLOCK FALSE
