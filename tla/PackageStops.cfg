SPECIFICATION Spec
CONSTANTS
    NumPackages = 2
    NumActions <- TwoPackages
    Method = "LOG_USING_ONE_FIND"
    Keys = {"CTRL_STOP", "CTRL_LOG_CHANGED_FILES"}
    MaxCommands = 2
    MaxRuns = 2
    MayBeKilled = TRUE
INVARIANTS
    LogsAreComplete
CHECK_DEADLOCK FALSE
