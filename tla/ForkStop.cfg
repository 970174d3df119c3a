SPECIFICATION Spec
CONSTANTS
    NumElements = 5
    Last <- ForkLast
    Kind <- ForkKind
    Noisy <- ForkNoisy
    Keys = {"sc", "S", "U"}
    Cursor = {1}
    MaxCommands = 1
    MaxProcs = 3
INVARIANTS
    DeathIsOnRecord
PROPERTIES
    CompleteWhenSuccessful
