\* The documented wait for requests in flight.
CONSTANTS
    Connections = {c1, c2}
    Admins = {}
SPECIFICATION ServerSpec
INVARIANTS
    InFlightCompletes
CHECK_DEADLOCK FALSE
