\* What telegram.ts:1102 says of the test message, under one command.
SPECIFICATION Spec
CONSTANTS
    None = None
    Unreadable = Unreadable
    Tokens = {t1}
    Slots = {1, 2}
    MaxCommands = 1
    Events = {1, 2}
    Tasks = {1, 2}
    MaxReferences = 1
    MaxAlerts = 1
    MaxFaults = 1
INVARIANTS
    TestEnablesOnlyWhenAccepted
\* At the bounds nobody sends a command any more.
CHECK_DEADLOCK FALSE
