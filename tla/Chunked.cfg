SPECIFICATION Spec
CONSTANTS
    Base = 2
    Limit = 2
    Payload = {1, 3}
    MaxWritten = 3
    MaxTrailer = 1
INVARIANTS
    OnlyHeadersAreKept
    ResidueIsTheRest
    CloseDetectsShortStreams
PROPERTIES
    ImplementsChannel
    WriteReturns
CHECK_DEADLOCK FALSE
