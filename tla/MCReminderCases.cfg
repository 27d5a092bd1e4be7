SPECIFICATION CasesSpec
CONSTANTS
    DayLen = 24
    TriggerStaleness = 6
    TimerStaleness = 3
    DigestHour = 7
    DigestCutoffHour = 12
    MinDigestWindow = 1
    NoTime = NoTime
    QuietEnd = 7
    EveningAt = 22
    DateOnlyAt = 9
    TimedLeads <- MCTimedLeads
    RemindMeLead = 1
    AtOnceMargin = 1
    Tolds <- MCTolds
    Events <- MCEvents
    Until = 100
INVARIANTS
    PlansKeepTheNight
    PlannedRingIsDelivered
    NeverSilentlyLost
CHECK_DEADLOCK FALSE
