\* Three processes, started, signalled, killed and tailed in any order.
CONSTANTS
    Runs = {p1, p2, p3}
    Nobody = Nobody
SPECIFICATION RunFairSpec
INVARIANTS
    RunTypeOK
    PidfileNamesRun
    NoChildLeft
PROPERTIES
    SignalEndsRun
CHECK_DEADLOCK FALSE
