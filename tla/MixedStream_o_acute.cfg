SPECIFICATION Spec
CONSTANTS
    Units = {"ascii", "o_acute"}
    Garbage = {}
    MaxSent = 5
    MaxBuffered = 2
INVARIANTS
    TextIsNeverAPacket
CHECK_DEADLOCK FALSE
