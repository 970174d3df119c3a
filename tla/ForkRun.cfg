SPECIFICATION Spec
CONSTANTS
    NumElements = 5
    Last <- ForkLast
    Kind <- ForkKind
    Noisy <- ForkNoisy
    Keys = {"sf", "sc", "sn", "p", "m", "U"}
    Cursor = {1, 2, 3, 4}
    MaxCommands = 1
    MaxProcs = 2
PROPERTIES
    IsSequentialRun
