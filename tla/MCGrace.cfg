\* The grace time of one child.
CONSTANTS
    Runs = {p1}
    Nobody = Nobody
SPECIFICATION RunSpec
PROPERTIES
    GraceGiven
CHECK_DEADLOCK FALSE
