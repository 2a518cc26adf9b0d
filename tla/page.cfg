SPECIFICATION FairSpec
CONSTANTS
    x = x
    y = y
    Lookups = {l1, l2}
    Bundles <- MCBundles
    Finds <- MCFinds
    MaxStores = 3
    Refreshes = {r1}
    MaxClicks = 3
    MaxDeaths = 1
INVARIANTS
    DiscoveriesSurvive
    PublishedIsStored
    CommandKeepsPageBusy
    StaleLookupNotShown
    ShownStoresAreInCatalog
    TelegramStatusIsNotStale
PROPERTIES
    RoutesAreStable
    BusyIsReleased
    CommitsLeaveTheGate
CHECK_DEADLOCK FALSE
