CONSTANTS
    d1 = d1
    d2 = d2
    Events = 4
    Limit = 2
    Resets = 1
    Dumps = {d1, d2}
    NoDump = NoDump
    MaxPatterns = 1
    MaxCrashes = 1
    MaxResubmits = 1
    Loads <- EachAndBoth
SPECIFICATION FairSpec
INVARIANTS TypeOK LimitHeld OrderKept OneCommand ReportedOnce LeftoverExcused
PROPERTIES Disabled GuardServed QueueDrains
CHECK_DEADLOCK FALSE
