SPECIFICATION Spec
CONSTANTS
    alice = alice
    bob = bob
    carol = carol
    Clients = {alice, bob, carol}
    Ip <- MCIp
    MaxConnections = 2
    PerIp = 1
    Slots = {1}
    MaxEvents = 1
INVARIANTS SavedLast AdmissionsExact JobsBounded
PROPERTY Stops
CHECK_DEADLOCK FALSE
