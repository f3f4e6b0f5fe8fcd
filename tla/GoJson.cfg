SPECIFICATION Spec
CONSTANTS
    Packages = {p, q}
    Tests = {t}
    MaxRuns = 2
    MaxLines = 2
INVARIANTS
    OutputArrives
    VerdictsArrive
    ExitTellsFailure
CHECK_DEADLOCK FALSE
