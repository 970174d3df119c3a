SPECIFICATION Spec
CONSTANTS
    Files = {"f1", "f2", "f3"}
    Sizes <- FixedSizes
    Initial <- ThreeFiles
    Keys = {"a", "d", "r", "-", "+"}
    Repeat = FALSE
    MaxNodes = 4
    MaxChanges = 3
    MaxRuns = 1
INVARIANTS
    TypeOK
    LinksAgree
    KeysResolve
    NoneRunningWhenStopped
PROPERTIES
    ShowsOrder
CHECK_DEADLOCK FALSE
