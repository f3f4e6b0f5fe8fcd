SPECIFICATION Spec
CONSTANTS
    a = a
    b = b
    None = None
    Names = {a, b}
    MaxMessage = 1
INVARIANTS
    TypeOK
    StateAgrees
    LineLandsOnce
PROPERTIES
    DetailsAreOpaque
    RefinesTestRun
    EveryTestIsStopped
CHECK_DEADLOCK FALSE
