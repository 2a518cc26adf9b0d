SPECIFICATION Spec
CONSTANTS
    None = None
    w1 = w1  k1 = k1  k2 = k2  s1 = s1  s2 = s2
    desktop = desktop  telegram = telegram
    Watches = {w1}
    Skus = {k1}
    Stores = {s1}
    Channels = {telegram}
    Telegram = telegram
    WatchForms <- OneForm
    Catalogs <- OnlyFull
    RetryAfters = {0}
    ProviderDelays <- Delays
    MaxParts = 1
    MaxAlerts = 2
    MaxPending = 1
    MaxAttempts = 2
    MaxFailures = 2
    Retention = 2
    Cooldown = 1
    PollInterval = 1
    BackoffBase = 3
    RetryBase = 1
    MaxBackoff = 3
    FutureSkew = 1
    EventSkew = 0
    MaxTime = 1
    MaxEdits = 0
    MaxCrashes = 1
    MaxFaults = 0
    MaxSetBacks = 0
PROPERTIES
    HostBackoffIsHonoured
\* The bounded clock and the bounded edits let the system come to rest.
CHECK_DEADLOCK FALSE
