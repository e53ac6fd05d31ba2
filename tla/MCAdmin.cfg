\* Any edits of up to two rules from a pool of five; batches may exceed two.  One
\* stream, which pauses at the second unread item and ends at the second drop;
\* batches of two entries, posted twice at most.
SPECIFICATION Spec
CONSTANTS
    None = None
    NoRule = NoRule
    NoLimit = NoLimit
    Labels <- MCLabels
    Addresses = {"private"}
    MaxRules = 2
    Pool <- MCPool
    Updates <- MCUpdates
    Batches <- MCBatches
    Base <- MCBase
    Queries <- MCQueries
    Streams = {s1}
    HistorySize = 2
    MaxDrops = 2
    HighWater = 2
    BatchSize = 2
    RetryCount = 1
    MaxEntries = 3
INVARIANTS
    LimitersInStep
    TrieDecides
    TypeOK
    GapsAreMarked
    CloseFlushes
PROPERTIES
    SinksCatchUp
CHECK_DEADLOCK FALSE
