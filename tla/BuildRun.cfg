SPECIFICATION Spec
CONSTANTS
    PhaseEnd <- SmallBook
    MaxStops = 2
    Unmounts = TRUE
INVARIANTS
    TypeOK
    PhasesInOrder
    LuserEnvironment
    AccountKept
    AccountRestored
    StopsAtBreakpoint
PROPERTIES
    Finishes
