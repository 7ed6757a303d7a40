SPECIFICATION Spec
CONSTANTS
    victim = victim
    attacker = attacker
    console = console
    Console = console
    Players = {victim, attacker}
    Full = 2
    Fed = 2
    LavaEvery = 1
    StrikeEvery = 1
    BurnTicks = 1
    RegenEvery = 2
    HungerEvery = 2
    Periods <- MCPeriods
    RaiseTicks = 1
    DisabledTicks = 1
    Gifts <- MCGifts
    Blows = {1}
    Scenes <- MCScenes
    MaxTick = 2
    MaxLives = 1
INVARIANTS DiesOnce ShownAgree RaisedAfterDisabled
CHECK_DEADLOCK FALSE
