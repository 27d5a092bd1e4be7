SPECIFICATION Spec
CONSTANTS
    DayLen = 9
    TriggerStaleness = 1
    TimerStaleness = 1
    DigestHour = 2
    DigestCutoffHour = 3
    MinDigestWindow = 1
    NoTime = NoTime
    QuietEnd = 2
    EveningAt = 8
    DateOnlyAt = 2
    TimedLeads <- MCTimedLeads
    RemindMeLead = 4
    AtOnceMargin = 1
    u1 = u1
    u2 = u2
    Ids <- MCIds
    FirstAt <- MCFirstAt
    HasChannel = TRUE
    Start = 8
    Units = {u1}
    Kinds = {"event"}
    Conversations = {TRUE}
    EventChoices = {14}
    Horizon = 20
    MaxCorrections = 1
    MaxCrashes = 0
    MaxFaults = 0
INVARIANTS
    CorrectionIsKept
