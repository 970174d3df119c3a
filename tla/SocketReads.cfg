SPECIFICATION FairSpec
CONSTANTS
    Commands <- BothCommands
    MaxMessages = 3
INVARIANTS
    TypeOK
PROPERTIES
    CommandsIntact
    AllActedUpon
CHECK_DEADLOCK FALSE
