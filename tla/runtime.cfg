\* One bot token, two concurrent handlers, one watch; two events, a ledger of one.
SPECIFICATION FairSpec
CONSTANTS
    None = None
    Unreadable = Unreadable
    Tokens = {t1}
    Slots = {1, 2}
    MaxCommands = 2
    Events = {1, 2}
    Tasks = {1, 2}
    MaxReferences = 1
    MaxAlerts = 3
    MaxFaults = 1
INVARIANTS
    DisconnectSticks
    DisconnectedWatchesStayOff
    CiphertextIsReadable
    NoAvoidableDuplicate
    BadgeCountsUnread
    TestsAreSpaced
PROPERTIES
    KeepsPromise
    NewestSetupWins
    CommandsSettle
\* At the bounds nobody sends a command any more.
CHECK_DEADLOCK FALSE
