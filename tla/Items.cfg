SPECIFICATION Spec
CONSTANTS
    alice = alice
    bob = bob
    here = here
    FullStack = 2
    Yield = 2
    BucketStack = 2
    MaxDamage = 2
    SmeltTicks = 1
    Players <- MCPlayers
    Positions <- MCPositions
    StorageSlots <- MCStorageSlots
    Hotbar <- MCHotbar
    ArmorSlots = {0}
    HandCells <- MCHandCells
    TableCells = {0}
    ChestSlots <- MCChestSlots
    GroundSize = 2
    ItemBound = 2
    Generated = {}
    Loot <- MCLoot
    Starts <- MCStarts
    Miners <- MCMiners
    Gestures <- MCGestures
    Gifts <- MCGifts
    Minable <- MCPositions
    Drags <- MCDrags
INVARIANTS
    TypeOK
    NothingFromNothing
    QualitiesFit
    CraftingAgrees
    MiningAgrees
PROPERTY
    LossesAreNamed
CHECK_DEADLOCK FALSE
