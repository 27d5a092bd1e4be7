SPECIFICATION Spec
CONSTANTS
    Runs = {1, 2}
    Commands = {"open", "backup", "export", "import", "init"}
    Schemas = {1, 2}
    Seconds = {1, 2}
    Keeps = {0, 1}
    MaxFaults = 1
    MaxCrashes = 1
INVARIANT CopiesAreChecked
PROPERTIES
    OpensAtItsSchema
    TargetStands
CHECK_DEADLOCK FALSE
