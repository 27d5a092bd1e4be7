SPECIFICATION Spec
CONSTANTS
    DayLen = 2
    TriggerStaleness = 1
    TimerStaleness = 1
    DigestHour = 1
    DigestCutoffHour = 1
    MinDigestWindow = 1
    NoTime = NoTime
    QuietEnd = 1
    CheckIns = {1, 2}
    Goals = {2}
    Questions = {1, 2, 3}
    MaxCheckinReasks = 1
    MaxReasksPerDigest = 3
    MaxDigestDeferrals = 1
    TasksDue = {TRUE, FALSE}
    Start = 1
    Horizon = 6
    MaxCrashes = 1
    MaxFaults = 1
CONSTRAINTS OneCheckIn OneFailure QuestionsApart
INVARIANTS
    SaidAsOwed
    CheckInsClose
    QuestionsClose
PROPERTIES
    AnswerIsFinal
CHECK_DEADLOCK FALSE
