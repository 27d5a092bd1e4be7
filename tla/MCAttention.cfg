SPECIFICATION FocusSpec
CONSTANTS
    Units = {1, 2, 3}
    Loads = {3}
    Early = {1, 3}
    Weights = {100}
    Dues <- MCDues
    Strengths = {100}
    Fade <- MCFade
    WeightCeiling = 200
    ReviveGain = 35
    WeightThreshold = 40
    UrgencyLeadDays = 2
    AgeHorizonDays = 2
    HysteresisMargin = 5
    FocusSize = 1
    MaxRelations = 2
    Horizon = 2
    MaxTurns = 1
CONSTRAINTS FocusApart
PROPERTIES
    FocusIsSteady
    RisesAreEarned
CHECK_DEADLOCK FALSE
