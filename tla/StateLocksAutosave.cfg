SPECIFICATION Spec
CONSTANTS
    tick = tick
    session = session
    console = console
    Threads <- ThreadsValue
    Operations <- OperationsValue
    Locks <- LocksValue
    Program <- ProgramValue
    May <- AutosaveMayValue
    Rank <- StateRank
    Top <- StateTop
INVARIANT NoWaitCycle
