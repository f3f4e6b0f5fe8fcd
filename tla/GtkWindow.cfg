CONSTANTS
    None = None
    Outcomes = {"success", "fail", "uxsuccess", "inprogress"}
    MaxTests = 3
SPECIFICATION Spec
\* The window may stay open for ever.
CHECK_DEADLOCK FALSE
INVARIANTS
    FinishedMeansCounted
    ExitTellsOutcome
PROPERTIES
    CountsAreShown
