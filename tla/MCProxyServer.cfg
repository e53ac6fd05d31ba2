\* Three connections in any state when stop() is called, two of the admin server.
CONSTANTS
    Connections = {c1, c2, c3}
    Admins = {a1, a2}
SPECIFICATION ServerFairSpec
INVARIANTS
    ServerTypeOK
    Drained
PROPERTIES
    StopSettles
CHECK_DEADLOCK FALSE
