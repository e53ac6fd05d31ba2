\* One session with up to three requests and two chunks of an unfinished one; messages
\* of up to 30 units in pieces of any size; texts of up to six characters; addresses of
\* two octets of two bits.
SPECIFICATION Spec
CONSTANTS
    MaxSent = 3
    MaxParts = 2
    Pipelining = TRUE
    Messages <- MCMessages
    MaxHeaderSize = 6
    MaxBodySize = 2
    Texts <- MCTexts
    Window = 2
    MaxBodyLog = 3
    Octets = 2
    OctetBits = 2
INVARIANTS
    SessionTypeOK
    ParsedAsWritten
    EntryScrubbed
    RangesExact
PROPERTIES
    ServedRequestAnswered
CHECK_DEADLOCK FALSE
