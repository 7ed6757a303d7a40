SPECIFICATION Spec
CONSTANTS
    alice = alice
    bob = bob
    Players = {alice, bob}
    Actors = {alice}
    Watchers = {alice}
    Overworld = "world"
    Other = "nether"
    Mobs = 1
    Ripe = 1
    Old = 2
    ItemCap = 1
    MaxId = 2
    MaxResets = 1
INVARIANT DimensionsIndependent
CONSTRAINT FewWithVisitors
CHECK_DEADLOCK FALSE
