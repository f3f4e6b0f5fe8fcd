SPECIFICATION IsolatedSpec
CONSTANTS
    A = A
    B = B
    None = None
    Names = {A, B}
    Suite <- MCSuite
    MaxMessage = 1
    SimpleContent = {"other", "end"}
    MaxParts = 1
    PipeSize = 2
INVARIANT DetailsSurviveBrackets
CHECK_DEADLOCK FALSE
