SPECIFICATION Spec
CONSTANTS
    empty = empty
    short = short
    long = long
    None = None
    Strings = {empty, short, long}
    Empty = empty
    Nul = {long}
    Octets <- MCOctets
    TagOctets <- MCTagOctets
    Timestamps = {999999000}
    FileSizes <- MCFileSizes
    Statuses = {None, "fail"}
INVARIANTS
    RoundTrip
    ReaderInStep
    LengthWithinPolicy
CHECK_DEADLOCK FALSE
