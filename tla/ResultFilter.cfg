SPECIFICATION Spec
CONSTANTS
    Names = {t1, t2}
    None = None
    Tags = {"quick", "slow"}
    Excluded = {"success"}
    With = {"quick"}
    Without = {"slow"}
    FixedUp = {t1}
    MaxTime = 2
    MaxBuffered = 3
INVARIANTS
    ClockIsCurrent
    GlobalTagsArrive
PROPERTIES
    ImplementsFilteredRun
