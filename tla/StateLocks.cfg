SPECIFICATION Spec
CONSTANTS
    tick = tick
    session = session
    console = console
    Threads <- ThreadsValue
    Operations <- OperationsValue
    Locks <- LocksValue
    Program <- ProgramValue
    May <- MayValue
    Rank <- StateRank
    Top <- StateTop
INVARIANTS NoWaitCycle LockInvariant StartsOrdered
