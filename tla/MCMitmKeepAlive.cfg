\* Up to three requests on one session, each after the one before was answered.
CONSTANTS
    MaxSent = 3
    MaxParts = 2
    Pipelining = FALSE
SPECIFICATION SessionFairSpec
PROPERTIES
    KeepAlive
CHECK_DEADLOCK FALSE
