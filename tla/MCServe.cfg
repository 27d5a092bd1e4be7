SPECIFICATION FairSpec
CONSTANTS
    DayLen = 1
    ConsolidationHour = 0
    CatchUpStaleness = 1
    BootDelay = 1
    CheckInterval = 1
    MaxFaults = 1
INVARIANTS
    OnePass
PROPERTIES
    SkippedForARunningPass
    KeepsRunning
    ShutdownEnds
