SPECIFICATION Spec
CONSTANTS
    None = None
    w1 = w1  k1 = k1  k2 = k2  s1 = s1  s2 = s2
    desktop = desktop  telegram = telegram
    Watches = {w1}
    Skus = {k1}
    Stores = {s1}
    Channels = {telegram}
    Telegram = telegram
    WatchForms <- OneForm
    Catalogs <- AnyCatalog
    RetryAfters = {0}
    ProviderDelays <- Delays
    MaxParts = 1
    MaxAlerts = 2
    MaxPending = 1
    MaxAttempts = 2
    MaxFailures = 2
    Retention = 2
    Cooldown = 1
    PollInterval = 1
    BackoffBase = 1
    RetryBase = 1
    MaxBackoff = 2
    FutureSkew = 1
    EventSkew = 0
    MaxTime = 2
    MaxEdits = 0
    MaxCrashes = 1
    MaxFaults = 1
    MaxSetBacks = 0
INVARIANTS
    ContactsAreOnRecord
PROPERTIES
    AlertsFollowTransitions
    ProviderHearsCurrentStock
\* The bounded clock and the bounded edits let the system come to rest.
CHECK_DEADLOCK FALSE
