SPECIFICATION FairSpec
CONSTANTS
    NumElements = 6
    Last <- FlatLast
    Kind <- FlatKind
    Noisy <- FlatNoisy
    Keys = {"sc", "sn", "S", "p", "m", "U"}
    Cursor = {1, 2, 4, 5}
    MaxCommands = 2
    MaxProcs = 1
INVARIANTS
    TypeOK
    NoneRunningWhenStopped
    MarksAgreeWhenStopped
    CommandsAreSignalled
    PauseIsShown
PROPERTIES
    StopEndsRun
