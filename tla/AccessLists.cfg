SPECIFICATION Spec
CONSTANTS
    console = console
    helper = helper
    Players = {helper}
    Console = console
    Actors <- MCActors
    Attempts <- MCAttempts
    Stored <- MCStored
    AuditSize = 1
    MaxRecords = 2
    MaxTime = 1
INVARIANTS ListsStored NoEscalation AuditKept
PROPERTY BansHold
CHECK_DEADLOCK FALSE
