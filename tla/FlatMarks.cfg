SPECIFICATION TerminatingSpec
CONSTANTS
    NumElements = 6
    Last <- FlatLast
    Kind <- FlatKind
    Noisy <- FlatNoisy
    Keys = {"sm", "sc", "*", "u", "U", "p"}
    Cursor = {2, 3, 4, 5}
    MaxCommands = 1
    MaxProcs = 1
INVARIANTS
    MarkedWouldRun
PROPERTIES
    RunEnds
