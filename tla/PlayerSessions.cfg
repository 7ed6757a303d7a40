SPECIFICATION FairSpec
CONSTANTS
    old = old
    new = new
    other = other
    alice = alice
    bob = bob
    Sessions = {old, new}
    Accounts = {alice}
    Account <- Reconnects
    Operators = {}
    MaxPlayers = 1
    Moderators = {m1}
    Console = m1
    History = 2
    Bound = 2
INVARIANTS OneSessionPerPlayer NoLeftovers PlayersKeepState
PROPERTIES FeedSpec RequestsTakeEffect
