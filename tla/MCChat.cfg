SPECIFICATION FairSpec
CONSTANTS
    NumUpdates = 2
    Kinds = {"text", "voice", "other"}
    Window = 2
    MaxFaults = 1
    MaxCrashes = 1
    TimerIds = {1}
    Armed = {}
    Speaking = {TRUE}
    MaxSlips = 1
    MaxStops = 1
    CheckIns = {1, 2}
    Goals = {1}
    KindsRead = {"event", "talk", "recall", "correct", "list", "cancel", "timer"}
    MaxWithTimers = 1
    Outcomes = {"none", "both"}
INVARIANTS
    NothingIsLost
    NoEffectTwice
    AnsweredIsRecorded
    RingsOnce
    UnheardIsRecorded
PROPERTIES
    NothingWaitsForEver
    ChannelSpec
CHECK_DEADLOCK FALSE
