\* Three processes that find no CA, an expiring one or half of one; a log of six
\* entries in files of two, two of them kept; a file written three times.
SPECIFICATION Spec
CONSTANTS
    Processes = {p1, p2, p3}
    Missing = Missing
    Expiring = Expiring
    Attempts = 2
    MaxFileSize = 2
    MaxFiles = 2
    MaxEntries = 6
    MaxWrites = 3
    MaxClock = 3
INVARIANTS
    TypeOK
    OnePair
    Retention
PROPERTIES
    UsableStays
    EnsureSettles
    WatcherCatchesUp
CHECK_DEADLOCK FALSE
