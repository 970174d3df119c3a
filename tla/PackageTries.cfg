SPECIFICATION TerminatingSpec
CONSTANTS
    NumPackages = 2
    NumActions <- TwoPackages
    Method = "LOG_USING_ONE_FIND"
    Keys = {}
    MaxCommands = 0
    MaxRuns = 3
    MayBeKilled = FALSE
INVARIANTS
    TypeOK
PROPERTIES
    StampIsOfFirstTry
    DoneIsSearched
    RunEnds
CHECK_DEADLOCK FALSE
