SPECIFICATION FairSpec
CONSTANTS
    None = None
    AskedDelays = {1, 3}
    MinPeriod = 2
    MinWake = 2
    MaxAsks = 3
    MaxFailedClears = 1
    MaxDeaths = 1
INVARIANTS
    TypeOK
    SettledAlarmsAreWanted
PROPERTIES
    KeepsPromise
    AlarmsSettle
\* The bounds on asks and deaths let the system come to rest.
CHECK_DEADLOCK FALSE
