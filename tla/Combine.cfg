SPECIFICATION Spec
CONSTANTS
    None = None
    Parts = {"p", "t1", "t2", "unittest.loader._FailedTest"}
    Configs <- MCConfigs
    Lists <- MCLists
    Arguments <- MCArguments
    Capacity = 1
    MaxWrites = 3
INVARIANTS
    ExitTellsFailure
    IdFileOutlivesItsCommand
    RequestsAreRouted
    AttachmentsArriveWhole
PROPERTIES
    MergesInOrder
    CombineEnds
CHECK_DEADLOCK FALSE
