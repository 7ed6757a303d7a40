SPECIFICATION Spec
CONSTANTS
    ground = ground
    grown = grown
    edge = edge
    lower = lower
    upper = upper
    Sessions = {s1, s2}
    Positions = {ground, grown, edge, lower, upper}
    Above <- TheAbove
    Frame = {edge}
    Portal = {lower, upper}
    Generated <- TheGenerated
    Placeable = {"stone"}
    Packets = 2
    History = 3
    Bound = 6
SYMMETRY Interchangeable
INVARIANTS ClientsAgree PortalsAreFramed PlantsStand
