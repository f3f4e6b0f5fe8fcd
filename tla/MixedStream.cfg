SPECIFICATION Spec
CONSTANTS
    Units = {"ascii", "e_acute", "uhorn", "invalid", "packet", "damaged"}
    Garbage = {"o_acute", "cut", "foreign", "short"}
    MaxSent = 5
    MaxBuffered = 2
INVARIANTS
    MidAgrees
    BufferIsBounded
PROPERTIES
    ImplementsChannel
    NothingIsHeldBack
    ReaderEnds
CHECK_DEADLOCK FALSE
