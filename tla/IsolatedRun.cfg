SPECIFICATION IsolatedSpec
CONSTANTS
    A = A
    B = B
    None = None
    Names = {A, B}
    Suite <- MCSuite
    MaxMessage = 2
    SimpleContent = {"other"}
    MaxParts = 2
    PipeSize = 2
INVARIANTS
    OutcomesAgree
    ExitIsComplete
PROPERTIES
    EveryTestIsReported
CHECK_DEADLOCK FALSE
