SPECIFICATION Spec
CONSTANTS
    tick = tick
    fresh = fresh
    w1 = w1
    w2 = w2
    g1 = g1
    g2 = g2
    Autosavers <- OneSaver
    Resetters <- OneSaver
    Worlds <- SmallWorlds
    FreshWorld = fresh
    Garbage <- TwoTexts
SYMMETRY Alike
CHECK_DEADLOCK FALSE
INVARIANTS Recoverable SaveInvariant
PROPERTIES GoodCopyRemains EvidenceKept RefusedUntouched ImplementsDurableWorld
